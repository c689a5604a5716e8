SPECIFICATION Spec
CONSTANTS
    Tables <- MCTables
    Event = {1, 2}
    MonthOf <- MCMonthOf
    TableOf <- MCTableOf
    Lookahead = 1
    Retention = 1
    MaxMonth = 3
    PageLimit = 1
    Scrubber = {s1, s2}
    MaxFaults = 1
    Done = Done
    s1 = s1
    s2 = s2
CHECK_DEADLOCK FALSE
INVARIANT RowsStayQueryable
