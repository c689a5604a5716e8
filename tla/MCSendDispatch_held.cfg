SPECIFICATION FairSpec
CONSTANTS
    StaleDispatchingAge = 1
    ResolutionWindow = 1
    RescanHorizon = 2
    Intent = {c1}
    CampaignIntent = {c1}
    Attempt = {a1, a2}
    MaxAttempts = 2
    MaxStalled = 1
    MaxAttemptAge = 1
    BatchLimit = 1
    LockMayLapse = FALSE
    NoAttempt = NoAttempt
    NoIntent = NoIntent
    c1 = c1
    c2 = c2
    a1 = a1
    a2 = a2
INVARIANT CountersMatchLedger
INVARIANT ClaimUndisturbed
PROPERTY LedgerRefinement
PROPERTY ReconcilerIsSoleWriter
PROPERTY ClaimsResolve
PROPERTY AmbiguityResolves
