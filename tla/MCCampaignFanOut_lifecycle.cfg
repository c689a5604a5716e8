SPECIFICATION FairSpec
CONSTANTS
    Contact = {1}
    Drifter = {1}
    Fickle = {1}
    Content = {x, y}
    MaxVersion = 4
    SnapshotBatchSize = 2
    BreakdownPageSize = 2
    MaxAttempts = 2
    MaxFaults = 2
    OneSendReachesCap = TRUE
    WorkspaceMayBeDeleted = TRUE
    ProducerMayCrash = TRUE
    StaleDispatchingAge = 1
    ResolutionWindow = 1
    RescanHorizon = 1
    x = x
    y = y
INVARIANT ContentAsApproved
PROPERTY DueCampaignStarts
