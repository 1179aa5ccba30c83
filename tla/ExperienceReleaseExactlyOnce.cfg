SPECIFICATION Spec
CONSTANTS
  Days = {d1, d2}
  Candidates = {c1}
  Deployed = Deployed
  Absent = Absent
  None = None
  MaxReleases = 3
INVARIANTS
  ProcessedExactlyOnce
CHECK_DEADLOCK FALSE
