SPECIFICATION Spec
CONSTANTS
    Keys = {1, 2}
    Values = {1, 2}
    Expiring = {2}
    t1 = t1
    t2 = t2
    Tools = {t1, t2}
    Parallelism = 2
    MaxChanges = 2
    MaxCatalog = 2
    NoTool = NoTool
    Environments <- PassEnvironments
INVARIANTS
    CopyIsSnapshot
    ReportedCopyLasts
    MigrationComplete
PROPERTY
    ToolsReturn
CHECK_DEADLOCK FALSE
