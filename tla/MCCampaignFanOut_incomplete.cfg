SPECIFICATION Spec
CONSTANTS
    Contact = {1}
    Drifter = {}
    Fickle = {}
    Content = {x}
    MaxVersion = 1
    SnapshotBatchSize = 2
    BreakdownPageSize = 2
    MaxAttempts = 2
    MaxFaults = 1
    OneSendReachesCap = FALSE
    WorkspaceMayBeDeleted = FALSE
    ProducerMayCrash = FALSE
    StaleDispatchingAge = 1
    ResolutionWindow = 1
    RescanHorizon = 1
    x = x
    y = y
PROPERTY OnlyCompleteCampaignsStart
CHECK_DEADLOCK FALSE
