SPECIFICATION FairSpec
CONSTANTS
    Send = {s1, s2}
    Contact = {c1}
    ContactOf <- MCContactOf
    CampaignSend = {s1}
    MaxDay = 2
    SoftBounceSuppressThreshold = 2
    Row = {1, 2}
    Batches <- MCBatches
    PastDays = 1
    RetentionDays = 0
    ReplayPageLimit = 2
    ReplayMaxAttempts = 2
    MaxJobs = 1
    MaxFaults = 1
    MaxOperator = 1
    s1 = s1
    s2 = s2
    c1 = c1
INVARIANT CountersMatchFacts
INVARIANT EngagementMatchesEvents
INVARIANT TerminalsAreSuppressed
INVARIANT CompleteMeansIngested
PROPERTY BatchesSettle
