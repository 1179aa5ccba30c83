SPECIFICATION Spec
CONSTANTS
  Partitions = {a, none}
  Targets = {{a}, {none}}
  Known = {{a}}
  Kinds = {1, 2}
  EventLimit = 1
  CleanupPeriod = 2
  MaxTime = 4
  MaxWait = 1
  MaxMessages = 3
INVARIANTS HeadIsOldest AnswersAreExact CacheIsAccountedFor
CHECK_DEADLOCK FALSE
