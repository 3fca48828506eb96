SPECIFICATION RoomSpec
CONSTANTS
  Participant <- MCParticipant
  MaxWriters = 2
  Kind = {"note"}
  AutoCatchUpOnJoin = FALSE
  MaxTick = 1
  MaxRecords = 4
  PageSize = 1
  Carriers = {{}}
  ClientCalls = {"open", "submit"}
  MaxCalls = 5
  MaxCallsUnruly = 5
  MaxQueue = 2
  MaxMail = 4
INVARIANTS
  CaughtUpHistoryIsWhole
CHECK_DEADLOCK FALSE
