CONSTANTS
    Events = {e1, e2, e3}
    Worker = worker
    Main = main
    MaxQueueSize = 2
    BatchSize = 2
    AsyncMode = TRUE
    MaxFaults = 1
SYMMETRY Symmetry
SPECIFICATION Spec
INVARIANTS TypeOK Accounted OneOwner AckedOnce FullBatchNoticed
PROPERTY RequeueKeepsNewer
CHECK_DEADLOCK FALSE
