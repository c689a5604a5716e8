SPECIFICATION Spec
CONSTANTS
    Contact = {1, 2, 3}
    Drifter = {3}
    Fickle = {}
    Content = {x}
    MaxVersion = 1
    SnapshotBatchSize = 2
    BreakdownPageSize = 2
    MaxAttempts = 2
    MaxFaults = 1
    OneSendReachesCap = FALSE
    WorkspaceMayBeDeleted = TRUE
    ProducerMayCrash = TRUE
    StaleDispatchingAge = 1
    ResolutionWindow = 1
    RescanHorizon = 1
    x = x
    y = y
INVARIANT FanOutMissesNobody
INVARIANT CompletedMeansSettled
PROPERTY CancelIsFinal
