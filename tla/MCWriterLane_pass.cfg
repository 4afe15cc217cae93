SPECIFICATION FairSpec
CONSTANTS
    a1 = a1
    a2 = a2
    a3 = a3
    s1 = s1
    s2 = s2
    k1 = k1
    k2 = k2
    None = None
    Mutations = {a1, a2, a3, s1, s2}
    Keys = {k1, k2}
    Key <- KeyOf
    Op <- OpOf
    Capacity = 2
    MaxBatch = 2
    MaxTurn = 2
    Environments <- PassEnvironments
CHECK_DEADLOCK FALSE
INVARIANTS
    AnswersAreTrue
PROPERTIES
    LifecycleHolds
    EveryMutationAnswered
