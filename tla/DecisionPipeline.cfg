SPECIFICATION Spec
CONSTANTS
  PhaseCount = 2
  r1 = r1
  r2 = r2
  NoPlan = NoPlan
  Empty = Empty
  Unset = Unset
  Nothing = Nothing
  Roads = {r1, r2}
  InternetRoads = {r2}
  EventMapCount = 2
  Devices = {d1}
  MaxBatches = 2
  Selections <- MCSelections
  Coordinated <- MCCoordinated
  Timetables <- MCTimetables
  Configs <- MCConfigs
INVARIANTS TypeOK PublishedIsDeliverable SelectionBeforeTimetable WorkersShareBasis CoordinateSetIsOfOneBatch RacesAreBounded
PROPERTIES BoardSpec BatchEnds
