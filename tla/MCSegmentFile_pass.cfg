SPECIFICATION MCSpec
CONSTANTS
    Capacity = 2
    MaxSeq = 4
    MaxCrashes = 2
    Seals = TRUE
    Syncs <- MCSyncs
    CrashKinds <- MCKinds
    Scenarios <- MCPass
CHECK_DEADLOCK FALSE
INVARIANTS
    AcknowledgedSurvive
    AlwaysRecoverable
    RejectedNeverRecovered
    SlotsAreSound
PROPERTIES
    SealIsFinal
