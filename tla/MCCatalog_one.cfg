SPECIFICATION Spec
CONSTANTS
    WorkerCount = 1
    MaxSegments = 4
    Keys = {k1, k2}
    Clients = {c1}
    SegCap = 1
    MaxSeq = 4
    Environments <- MCEnvironments
    Absent = Absent
CHECK_DEADLOCK FALSE
SYMMETRY Symmetry
INVARIANTS
    RecoveredState
    IndexResolves
    AlwaysOpens
    AuthorityIsComplete
