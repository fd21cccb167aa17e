CONSTANTS
    Events = {e1, e2}
    Worker = worker
    Main = main
    MaxQueueSize = 2
    BatchSize = 2
    AsyncMode = TRUE
    MaxFaults = 1
SPECIFICATION FairSpec
PROPERTIES Delivers EventuallyOut ExitTerminates
CHECK_DEADLOCK FALSE
