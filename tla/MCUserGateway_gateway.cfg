SPECIFICATION FairSpec
CONSTANTS
  User = {u1, u2}
  Channel = {c1, c2}
  Server = {s1, s2}
  None = None
  MaxErrors = 1
  MaxCrashes = 1
CHECK_DEADLOCK FALSE
INVARIANT TypeOK
INVARIANTS LossesAreHandled RouteIsBacked RouteIsKept
PROPERTIES LoginEnds ImplementsRoutes
