SPECIFICATION FairSpec
CONSTANTS
    WorkerCount = 2
    Clients = {c1, c2}
    Flusher = flusher
    Nobody = nobody
    Keys = {k}
    MinRecords = 1
    MaxRecords = 2
    MaxBytes = 3
    Environments <- MCOtherWorker
PROPERTY CallsReturn
CHECK_DEADLOCK FALSE
