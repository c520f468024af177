SPECIFICATION PartsSpec
CONSTANTS
  User = {u1}
  Channel = {ch1}
  None = None
  modA = modA
  modB = modB
  layer = layer
  addr1 = addr1
  addr2 = addr2
  Module <- Modules
  Builtin <- Builtins
  List <- Lists
  NoCall = NoCall
  MaxPolls = 1
  MaxUses = 1
  Address <- Addresses
  Request = {login}
  ZkEvents = ZkEvents
  MaxSessions = 1
  Time <- Times
  Never <- NeverYet
  SeqSize = 1
  NodeSize = 1
  Node = 0
  MaxIds = 1
  Base = 2
  Data <- Frames
  MaxFrames = 1
  Worker = {w1}
  Caller = {c1}
  NoUser = NoUser
CHECK_DEADLOCK FALSE
INVARIANT CacheFollows
