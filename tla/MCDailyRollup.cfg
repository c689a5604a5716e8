SPECIFICATION FairRollupSpec
CONSTANTS
    Send = {s1, s2}
    Contact = {c1}
    ContactOf <- MCContactOf
    CampaignSend = {s1}
    MaxDay = 3
    SoftBounceSuppressThreshold = 2
    Events <- MCEvents
    WindowDays = 1
    DirtyPageLimit = 1
    MaxSetbacks = 1
    s1 = s1
    s2 = s2
    c1 = c1
INVARIANT RollupNeverOverstates
PROPERTY RecentDaysConverge
