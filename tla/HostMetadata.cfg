CONSTANTS
    Callers = {c1, c2}
    MaxFaults = 2
    MaxEvents = 3
SPECIFICATION HostSpec
INVARIANT LabelsRight
PROPERTY DetectionEnds
CHECK_DEADLOCK FALSE
