SPECIFICATION Spec
CONSTANTS
  MaxVersion = 3
  Valid = {1, 3}
  MaxExpiries = 2
  MaxEdits = 1
  MaxRestarts = 1
INVARIANTS TypeOK CacheIsTheFile
PROPERTIES LatestArrives
