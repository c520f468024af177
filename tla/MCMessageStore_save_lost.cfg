SPECIFICATION Spec
CONSTANTS
  Mid = {m1, m2}
  Instance = {c1}
  None = None
  Expires = FALSE
  MaxRecords = 2
  MaxReports = 0
  MaxErrors = 1
  MaxRevokes = 0
CHECK_DEADLOCK FALSE
INVARIANT CommittedIsStored
