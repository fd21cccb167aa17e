CONSTANTS
    MaxUsage = 2
    MaxChunks = 3
    MaxAsks = 2
SPECIFICATION Spec
INVARIANTS RecordsLastCount ThrownIsUnrecorded
CHECK_DEADLOCK FALSE
