SPECIFICATION PartsSpec
CONSTANTS
  User = {u1, u2}
  Channel = {ch1, ch2}
  None = None
  modA = modA
  modB = modB
  layer = layer
  addr1 = addr1
  addr2 = addr2
  Module <- Modules
  Builtin <- Builtins
  List <- Lists
  NoCall = NoCall
  MaxPolls = 2
  MaxUses = 3
  Address <- Addresses
  Request = {login}
  ZkEvents = ZkEvents
  MaxSessions = 2
  Time <- Times
  Never <- NeverYet
  SeqSize = 2
  NodeSize = 2
  Node = 1
  MaxIds = 5
  Base = 2
  Data <- Frames
  MaxFrames = 3
  Worker = {w1, w2}
  Caller = {c1, c2}
  NoUser = NoUser
CHECK_DEADLOCK FALSE
INVARIANTS TypeOK GoneIsUnmapped ActiveIsMapped NamesMatch
INVARIANTS PartsTypeOK DependenciesFirst CalledInOrder NobodyForgotten
INVARIANTS RunningIsListed RebuildKeeps
INVARIANTS IdsIncrease TimeDecodes
INVARIANTS DecodedIsPrefix NothingHeldBack RunsAsCaller
PROPERTIES UseEnds PingedIsClosed ImplementsTable
