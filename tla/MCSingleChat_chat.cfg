SPECIFICATION FairSpec
CONSTANTS
  User = {u1, u2}
  Server = {s1}
  None = None
  MaxId = 2
  MaxMessages = 2
  MaxChannels = 1
  MaxPages = 2
  MaxFaults = 1
CHECK_DEADLOCK FALSE
INVARIANT TypeOK
INVARIANTS IdsAreFresh ShownIsPublished ShownRight InOrder LatestPage OpenLosesNothing
PROPERTIES Implements KeepsContracts ReachableIsShown
