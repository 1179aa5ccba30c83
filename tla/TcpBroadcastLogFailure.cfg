SPECIFICATION Spec
CONSTANTS
  Clients = {c1}
  SlowReaders = {}
  Lines = 1
  MaxBatch = 1
  None = None
INVARIANTS
  OnlyDisconnectedAreRemoved
CHECK_DEADLOCK FALSE
