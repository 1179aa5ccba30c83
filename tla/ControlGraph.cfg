SPECIFICATION Spec
CONSTANTS
  Roads = {r1, r2}
  MaxModelCalls = 2
  Cooldown = 1
  MaxRounds = 1
INVARIANTS TypeOK ReviewHasItsCall OneReadPerSource OutageCostsOneCall
PROPERTIES CallSpec
CHECK_DEADLOCK FALSE

