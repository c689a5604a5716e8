SPECIFICATION Spec
CONSTANTS
    NumContacts = 2
    Segment = {"vip", "new"}
    ReentryModes = {"once_per_n_days"}
    PageSize = 1
    MaxEntries = 1
    MaxChanges = 2
    MaxFaults = 1
INVARIANT SettledMembersStayOut

CHECK_DEADLOCK FALSE
