SPECIFICATION ServerSpec
SYMMETRY MCSymmetry
CONSTANTS
  Subjects = {"sockets"}
  Participant <- MCParticipant
  MaxWriters = 2
  Kind = {"note"}
  AutoCatchUpOnJoin = FALSE
  MaxTick = 5
  MaxRecords = 1
  PageSize = 1
  Socket = {s1, s2}
  NoSocket = NoSocket
  SocketFrames = {"join", "leave", "submit"}
  Disciplines = {TRUE}
  UnrulyBound = 2
  Rejoins = TRUE
  MaxQueue = 2
  Node <- MCNode
  Slots <- MCSlots
  Downstream <- MCDownstream
  NoNode = 0
  HardCeiling = {2}
  Edges <- MCEdges
  Paths <- MCPaths
  Sizes = {1, 2}
  Regimes <- MCRegimes
  ServiceTicks <- MCServiceTicks
  MaxRetries = 1
  BackoffBase = 1
  BackoffUnit = 2
  PurgeProbeCap = 1
  PurgeVerifyTicks = 3
  IndexedAtStart = {TRUE, FALSE}
  GrowsInUse = FALSE
  ReturningVisitors = TRUE
  MaxUnits = 3
  MaxTicks = 6
  Contract <- MCContract
  Start <- MCStart
  End <- MCEnd
  Period <- MCPeriod
  Credit <- MCCredit
  Prepaid <- MCPrepaid
  Gross <- MCGross
  Fee <- MCFee
  Promise <- MCPromise
  Month = 6
  Slices = 2
  ReserveOf <- MCReserveOf
  ReserveHold = 8
  StageOpens <- MCStageOpens
  MaxCatchUp = 24
  Books = {{"card"}, {"prepaid"}, {"invoiced"}}
  Prunes = {TRUE, FALSE}
  Strides = {1, 4}
  MaxNow = 26
INVARIANTS
  NoSeatIsStranded
CHECK_DEADLOCK FALSE
