SPECIFICATION Spec
CONSTANTS
    WorkerCount = 2
    SegmentUnits = 2
    MaxSegments = 7
    PressurePct = 80
    Disk = 8
    Margin = 1
    DeadBp = 5000
    CopyLimit = 4
    RateLimit = 2
    MaxNoGain = 1
    None = None
    Environments <- PassEnvironments
INVARIANT
    StopIsFinal
PROPERTIES
    NotWedged
    ReclaimHappens
CHECK_DEADLOCK FALSE
