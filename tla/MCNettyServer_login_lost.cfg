SPECIFICATION Spec
CONSTANTS
  User = {u1}
  Channel = {c1, c2}
  None = None
  u1 = u1
  c1 = c1
  c2 = c2
SYMMETRY Symmetry
CHECK_DEADLOCK FALSE
INVARIANT LoginLasts
