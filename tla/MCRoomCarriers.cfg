SPECIFICATION FairRoomSpec
CONSTANTS
  Participant <- MCParticipant
  MaxWriters = 2
  Kind = {"note"}
  AutoCatchUpOnJoin = FALSE
  MaxTick = 0
  MaxRecords = 2
  PageSize = 1
  Carriers = {{"reorders", "duplicates"}, {"loses"}, {}}
  ClientCalls = {"open", "submit", "resume"}
  MaxCalls = 3
  MaxCallsUnruly = 2
  MaxQueue = 2
  MaxMail = 2
INVARIANTS
  ReceivedOnceFromLog
PROPERTIES
  CatchUpEnds
CHECK_DEADLOCK FALSE
