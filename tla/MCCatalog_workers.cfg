SPECIFICATION FairSpec
CONSTANTS
    WorkerCount = 2
    MaxSegments = 4
    Keys = {k1}
    Clients = {c1, c2}
    SegCap = 1
    MaxSeq = 3
    Environments <- MCWorkersEnvironments
    Absent = Absent
CHECK_DEADLOCK FALSE
INVARIANTS
    StoreIsSound
PROPERTIES
    Reopens
    MutationsEnd
