SPECIFICATION Spec
CONSTANTS
  Clients = {c1, c2}
  SlowReaders = {c1, c2}
  Lines = 2
  MaxBatch = 2
  None = None
SYMMETRY MCSymmetry
INVARIANTS
  TypeOK
  ListedIsOpen
  EndedIsForgotten
  WholeBatches
CHECK_DEADLOCK FALSE
