SPECIFICATION Spec
CONSTANTS
  Mid = {m1, m2}
  Instance = {c1}
  None = None
  Expires = FALSE
  MaxRecords = 2
  MaxReports = 2
  MaxErrors = 0
  MaxRevokes = 1
CHECK_DEADLOCK FALSE
INVARIANT CommittedIsReceived
