SPECIFICATION ServerSpec
SYMMETRY MCSymmetry
CONSTANTS
  Subjects = {"tick"}
  Participant <- MCParticipant
  MaxWriters = 2
  Kind = {"note"}
  AutoCatchUpOnJoin = FALSE
  MaxTick = 4
  MaxRecords = 1
  PageSize = 1
  Socket = {s1, s2, s3}
  NoSocket = NoSocket
  SocketFrames = {"join", "leave", "submit"}
  Disciplines = {TRUE, FALSE}
  UnrulyBound = 2
  Rejoins = FALSE
  MaxQueue = 3
  Node <- MCNode
  Slots <- MCSlots
  Downstream <- MCDownstream
  NoNode = 0
  HardCeiling = {}
  Edges <- MCEdges
  Paths <- MCShortPath
  Sizes = {1}
  Regimes <- MCQuiet
  ServiceTicks <- MCSlowService
  MaxRetries = 0
  BackoffBase = 1
  BackoffUnit = 2
  PurgeProbeCap = 64
  PurgeVerifyTicks = 8
  IndexedAtStart = {FALSE}
  GrowsInUse = TRUE
  ReturningVisitors = FALSE
  MaxUnits = 4
  MaxTicks = 5
  Contract <- MCContract
  Start <- MCStart
  End <- MCEnd
  Period <- MCPeriod
  Credit <- MCCredit
  Prepaid <- MCPrepaid
  Gross <- MCGross
  Fee <- MCFee
  Promise <- MCPromise
  Month = 6
  Slices = 2
  ReserveOf <- MCReserveOf
  ReserveHold = 8
  StageOpens <- MCStageOpens
  MaxCatchUp = 24
  Books = {{"card"}, {"prepaid"}, {"invoiced"}}
  Prunes = {TRUE, FALSE}
  Strides = {1, 4}
  MaxNow = 26
INVARIANTS
  NoGhosts
CHECK_DEADLOCK FALSE
