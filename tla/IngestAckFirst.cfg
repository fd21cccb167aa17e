CONSTANTS
    r1 = r1
    r2 = r2
    a = a
    b = b
    Requests = {r1, r2}
    EventIds = {a, b}
    Body <- RetriedBatch
    Malformed = {}
    BatchLimit = 2
    PoolSize = 2
    CommitFirst = FALSE
    MaxFaults = 1
SPECIFICATION Spec
INVARIANT AckedStored
CHECK_DEADLOCK FALSE
