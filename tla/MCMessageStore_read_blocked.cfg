SPECIFICATION FairSpec
CONSTANTS
  Mid = {m1, m2}
  Instance = {c1}
  None = None
  Expires = TRUE
  MaxRecords = 2
  MaxReports = 2
  MaxErrors = 0
  MaxRevokes = 0
CHECK_DEADLOCK FALSE
PROPERTY ReportIsRecorded
