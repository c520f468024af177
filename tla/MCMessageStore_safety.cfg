SPECIFICATION Spec
CONSTANTS
  Mid = {m1, m2}
  Instance = {c1, c2}
  None = None
  Expires = TRUE
  MaxRecords = 2
  MaxReports = 1
  MaxErrors = 1
  MaxRevokes = 1
CHECK_DEADLOCK FALSE
SYMMETRY Symmetry
INVARIANT TypeOK
INVARIANT CommittedIsSettled
PROPERTY CommitsAdvance
PROPERTY Implements
