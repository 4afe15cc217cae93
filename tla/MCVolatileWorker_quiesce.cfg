SPECIFICATION BufferedSpec
CONSTANTS
    Keys = {k1, k2, k3}
    c1 = c1
    c2 = c2
    Controls = {c1, c2}
    SegmentRecords = 2
    LiveRatio = 50
    VacuumLimit = 2
    LastSegment = 6
    MaxSequence = 5
    NoRef = NoRef
    Environments <- QuiesceEnvironments
INVARIANT IndexHasOneOwner
CHECK_DEADLOCK FALSE
