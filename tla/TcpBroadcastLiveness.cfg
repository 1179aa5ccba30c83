SPECIFICATION Spec
CONSTANTS
  Clients = {c1, c2}
  SlowReaders = {c2}
  Lines = 1
  MaxBatch = 2
  None = None
PROPERTIES NewestIsDelivered StopClosesSockets
CHECK_DEADLOCK FALSE
