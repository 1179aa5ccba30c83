SPECIFICATION Spec
CONSTANTS
  Roads = {r1}
  MaxModelCalls = 2
  Cooldown = 1
  MaxRounds = 1
PROPERTIES ModelFailureKeepsThePlan
CHECK_DEADLOCK FALSE
