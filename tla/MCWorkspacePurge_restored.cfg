SPECIFICATION Spec
CONSTANTS
    Workspace = {w1}
    Worker = {p1, p2}
    NoWorker = NoWorker
    TableOrder <- MCTableOrder
    MaxRows = 2
    MaxAttempts = 2
    Retention = 1
    MaxDay = 3
    MaxDeletions = 2
    MaxFaults = 2
    w1 = w1
    p1 = p1
    p2 = p2
PROPERTY RetentionServed
