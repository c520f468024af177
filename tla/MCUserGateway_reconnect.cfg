SPECIFICATION FairSpec
CONSTANTS
  User = {u1}
  Channel = {c1}
  Server = {s1}
  None = None
  MaxErrors = 0
  MaxCrashes = 0
CHECK_DEADLOCK FALSE
PROPERTY Reconnects
