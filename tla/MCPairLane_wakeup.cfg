SPECIFICATION FairSpec
CONSTANTS
    a = a
    b = b
    r1 = r1
    k1 = k1
    k2 = k2
    nobody = nobody
    Keys = {k1, k2}
    MaxRetired = 2
    MaxDelta = 4
    MergeDelta = 2
    MaxPost = 2
    MergeQuantum = 1
    MergeSlots = 6
    PublicationBatch = 2
    ReclaimQuantum = 8
    Callers = {a, b}
    Readers = {r1}
    Nobody = nobody
    MaxSpins = 1
    Environments <- WakeupEnvironments
PROPERTY
    CallsReturn
CHECK_DEADLOCK FALSE
