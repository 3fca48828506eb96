SPECIFICATION RelaySpec
CONSTANTS
  Participant <- MCParticipant
  Kind <- MCKind
  MaxWriters = 2
  AutoCatchUpOnJoin = TRUE
  MaxTick = 2
  MaxRecords = 2
CHECK_DEADLOCK FALSE
INVARIANTS TypeOK StampsAscend AuthorsHeldTenure InboxesFollowLog NeverOverCapacity 
PROPERTIES LedgerIsHistory ImplementsTimeline
