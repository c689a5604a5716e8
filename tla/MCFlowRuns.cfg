SPECIFICATION FairSpec
CONSTANTS
    Node <- MCNode
    Run = {r1}
    Definitions <- MCDefinitions
    Delay = 2
    DayTicks = 2
    QuietTimes = {1}
    MaxSteps = 6
    MaxVersions = 2
    MaxCalls = 2
    MaxFaults = 1
    r1 = r1
INVARIANT StepsFollowVersion
INVARIANT NodeMailsOnce
INVARIANT WalksInNoCircle
PROPERTY DelaysAreServed
PROPERTY RunsEnd
