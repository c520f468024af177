SPECIFICATION FairSpec
CONSTANTS
  User = {u1}
  Channel = {c1}
  None = None
  u1 = u1
  c1 = c1
CHECK_DEADLOCK FALSE
PROPERTY SilentIsClosed
