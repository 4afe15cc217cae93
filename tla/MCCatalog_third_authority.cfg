SPECIFICATION Spec
CONSTANTS
    WorkerCount = 1
    MaxSegments = 4
    Keys = {k1}
    Clients = {c1}
    SegCap = 1
    MaxSeq = 4
    Environments <- MCThirdAuthorityEnvironments
    Absent = Absent
INVARIANTS NoThirdAuthority
CHECK_DEADLOCK FALSE
