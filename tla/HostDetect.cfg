CONSTANTS
    Callers = {c1, c2}
    MaxFaults = 2
    MaxEvents = 3
SPECIFICATION HostSpec
INVARIANT DetectsCloud
CHECK_DEADLOCK FALSE
