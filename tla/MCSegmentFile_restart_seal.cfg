SPECIFICATION MCSpec
CONSTANTS
    Capacity = 2
    MaxSeq = 4
    MaxCrashes = 2
    Seals = TRUE
    Syncs <- MCSyncs
    CrashKinds <- MCKinds
    Scenarios <- MCRestartSeal
INVARIANTS
    AcknowledgedSurvive
CHECK_DEADLOCK FALSE
