SPECIFICATION Spec
CHECK_DEADLOCK FALSE
CONSTANTS
  MaxSockets = 3
  Room = 2
  Environments <- MCEnvironments
  MaxReactors = 2
  Slots = {1, 2}
  MaxGeneration = 4
  Window = 2
  MaxOutput = 2
  QueueCap = 2
  ReadCap = 1
  MeshCap = 1
  MaxEpoch = 4
  Threads = {1, 2}
  Workers = {1, 2}
INVARIANTS
    ClientsAreTold
    ReadsAreCurrent
    PinsHold
    SocketsAreOwned
PROPERTIES
    Quiesces
