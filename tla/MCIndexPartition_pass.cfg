SPECIFICATION Spec
CONSTANTS
    k1 = k1
    k2 = k2
    k3 = k3
    k4 = k4
    k5 = k5
    r1 = r1
    r2 = r2
    Keys = {k1, k2, k3, k4, k5}
    Refs = {r1, r2}
    KeySize <- MCKeySize
    Hash <- MCHash
    GroupSize = 2
    LoadDivisor = 2
    RebuildDivisor = 4
    InlineBytes = 1
    CompactDead = 3
    MaxCapacity = 8
    ArenaLimit = 9
    MaxStaged = 2
    Environments <- MCEnvironments
CHECK_DEADLOCK FALSE
INVARIANTS
    TableIsSound
    PreparedInsertsFit
