SPECIFICATION FairSpec
CONSTANTS
    Contact = {1}
    Drifter = {}
    Fickle = {}
    Content = {x}
    MaxVersion = 1
    SnapshotBatchSize = 2
    BreakdownPageSize = 2
    MaxAttempts = 2
    MaxFaults = 0
    OneSendReachesCap = FALSE
    WorkspaceMayBeDeleted = FALSE
    ProducerMayCrash = TRUE
    StaleDispatchingAge = 1
    ResolutionWindow = 1
    RescanHorizon = 1
    x = x
    y = y
PROPERTY EveryDueCampaignStarts
CHECK_DEADLOCK FALSE
