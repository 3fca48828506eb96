SPECIFICATION SeatSimsSpec
CONSTANTS
  Participant <- MCParticipant
  MaxWriters = 2
  Kind = {"action"}
  AutoCatchUpOnJoin = FALSE
  MaxTick = 1
  MaxRecords = 2
  PageSize = 2
  Carriers = {{"reorders"}}
  ClientCalls = {"open", "submit"}
  MaxCalls = 2
  MaxCallsUnruly = 2
  MaxQueue = 2
  MaxMail = 3
INVARIANTS
  PerformedOnceInOrder
  InTimeSeatsAgree
CHECK_DEADLOCK FALSE
