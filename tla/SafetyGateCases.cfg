SPECIFICATION CasesSpec
CONSTANTS
  PhaseCount = 2
  Road = r1
  Pending = Pending
  Garbage = Garbage
  RawPlans <- MCRawPlans
  CandidatePlans <- MCCandidates
  TimetablePlans <- MCTimetables
  RoadConfigs <- MCConfigs
INVARIANTS OutputIsDeliverable RegatingChangesNothing SafePlanIsUntouched CorrectionIsNearest FallbackIsLastResort
CHECK_DEADLOCK FALSE
