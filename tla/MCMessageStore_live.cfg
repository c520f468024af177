SPECIFICATION FairSpec
CONSTANTS
  Mid = {m1, m2}
  Instance = {c1, c2}
  None = None
  Expires = FALSE
  MaxRecords = 2
  MaxReports = 1
  MaxErrors = 0
  MaxRevokes = 1
CHECK_DEADLOCK FALSE
PROPERTIES PublishedIsStored ReportIsRecorded
