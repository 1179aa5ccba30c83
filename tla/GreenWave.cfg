SPECIFICATION Spec
CONSTANTS
  c1 = c1
  c2 = c2
  r1 = r1
  r2 = r2
  r3 = r3
  r4 = r4
  morning = morning
  Nothing = Nothing
  Periods = {morning}
  Cycle = 40
  OffsetStep = 10
  MaxRequests = 1
  MinRemaining = 10
  TargetElapsed = 10
  CorridorOrder <- MCOrder
  RoadsOf <- MCRoads
  Red <- MCRed
  Reference <- MCReference
  Travel <- MCTravel
  BasePlans <- MCBasePlans
INVARIANTS TypeOK SessionsAreWhole RemembersWhatItHandedOn
PROPERTIES CycleErrorShrinks LeftAloneConverges TornSessionsHeal
