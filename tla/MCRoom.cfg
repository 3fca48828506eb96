SPECIFICATION RoomSpec
CONSTANTS
  Participant <- MCParticipant
  MaxWriters = 2
  Kind = {"note"}
  AutoCatchUpOnJoin = FALSE
  MaxTick = 1
  MaxRecords = 2
  PageSize = 2
  Carriers = {{}}
  ClientCalls = {"open", "join", "leave", "submit"}
  MaxCalls = 3
  MaxCallsUnruly = 3
  MaxQueue = 2
  MaxMail = 3
INVARIANTS
  SettledSeatsKnowTheRoom
  CaughtUpHistoryIsWhole
CHECK_DEADLOCK FALSE
