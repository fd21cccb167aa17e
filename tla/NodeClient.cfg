CONSTANTS
    Events = {e1, e2, e3}
    Flights = {f1, f2}
    MaxQueueSize = 2
    BatchSize = 2
    RetryAttempts = 2
    AsyncMode = TRUE
    MaxFaults = 2
SPECIFICATION FairSpec
INVARIANTS TypeOK OneOwner
PROPERTIES Delivers PutBackKeepsNewer EventuallyOut
CHECK_DEADLOCK FALSE
