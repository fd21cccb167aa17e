CONSTANTS
    r1 = r1
    r2 = r2
    r3 = r3
    r4 = r4
    r5 = r5
    a = a
    b = b
    c = c
    d = d
    m = m
    Requests = {r1, r2, r3, r4, r5}
    EventIds = {a, b, c, d, m}
    Body <- Bodies
    Earlier <- Attempts
    Malformed = {m}
    BatchLimit = 2
    PoolSize = 1
    CommitFirst = TRUE
    MaxFaults = 2
SPECIFICATION PipelineSpec
INVARIANTS TypeOK AckedDurable AllOrNothing ErrorsStoreNothing
PROPERTIES EveryRequestAnswered Delivers
CHECK_DEADLOCK FALSE
