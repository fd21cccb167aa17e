CONSTANTS
    Events = {e1, e2}
    Worker = worker
    Main = main
    MaxQueueSize = 2
    BatchSize = 2
    AsyncMode = TRUE
    MaxFaults = 0
SPECIFICATION Spec
INVARIANT CloseFlushesAll
CHECK_DEADLOCK FALSE
