SPECIFICATION ServerSpec
SYMMETRY MCSymmetry
CONSTANTS
  Subjects = {"sockets", "tick", "billing"}
  Participant <- MCParticipant
  MaxWriters = 2
  Kind = {"note"}
  AutoCatchUpOnJoin = FALSE
  MaxTick = 4
  MaxRecords = 1
  PageSize = 1
  Socket = {s1, s2, s3}
  NoSocket = NoSocket
  SocketFrames = {"join", "leave", "submit"}
  Disciplines = {TRUE, FALSE}
  UnrulyBound = 2
  Rejoins = FALSE
  MaxQueue = 3
  Node <- MCNode
  Slots <- MCSlots
  Downstream <- MCDownstream
  NoNode = 0
  HardCeiling = {2}
  Edges <- MCEdges
  Paths <- MCPaths
  Sizes = {1, 2}
  Regimes <- MCRegimes
  ServiceTicks <- MCServiceTicks
  MaxRetries = 1
  BackoffBase = 1
  BackoffUnit = 2
  PurgeProbeCap = 1
  PurgeVerifyTicks = 3
  IndexedAtStart = {TRUE, FALSE}
  GrowsInUse = FALSE
  ReturningVisitors = TRUE
  MaxUnits = 3
  MaxTicks = 6
  Contract <- MCContract
  Start <- MCStart
  End <- MCEnd
  Period <- MCPeriod
  Credit <- MCCredit
  Prepaid <- MCPrepaid
  Gross <- MCGross
  Fee <- MCFee
  Promise <- MCPromise
  Month = 6
  Slices = 2
  ReserveOf <- MCReserveOf
  ReserveHold = 8
  StageOpens <- MCStageOpens
  MaxCatchUp = 24
  Books = {{"card"}, {"prepaid"}, {"invoiced"}}
  Prunes = {TRUE, FALSE}
  Strides = {1, 4}
  MaxNow = 26
INVARIANTS
  LeavesComeFromTheLastClaim
  OnlyShortTenuresStrandASeat
  ServerTypeOK
  NoGhosts
  PlacedOnceAtItsHop
  EndsExactlyOnce
  AttemptsAreBounded
  WaitersAreIndexed
  BucketsMatchTheBook
  NothingDeferredForTheDead
  SuspendedContractsOwe
  PeriodsAreBilledOnce
PROPERTIES
  OverdueIsDunned
CHECK_DEADLOCK FALSE
