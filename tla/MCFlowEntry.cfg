SPECIFICATION FairSpec
CONSTANTS
    NumContacts = 2
    Segment = {"vip"}
    ReentryModes = {"once_per_n_days"}
    PageSize = 1
    MaxEntries = 1
    MaxChanges = 2
    MaxFaults = 1
INVARIANT SettledMembersStayOut
INVARIANT EnrolmentMissesNobody
PROPERTY NewMembersAreConsidered
CHECK_DEADLOCK FALSE
