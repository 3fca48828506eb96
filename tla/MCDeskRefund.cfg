SPECIFICATION DeskSpec
CONSTANTS
  Subjects = {"door"}
  Participant <- MCParticipant
  MaxWriters = 1
  Kind = {"action", "note", "garbled"}
  AutoCatchUpOnJoin = FALSE
  MaxTick = 2
  MaxRecords = 2
  PageSize = 1
  Frames <- MCFrames
  MaxQueue = 2
  Device <- MCDevice
  PlacedAtStart = {"a", "b"}
  Cable <- MCCable
  CableFrom <- MCCableFrom
  CableTo <- MCCableTo
  CableSocket <- MCCableSocket
  PowerCable <- MCPowerCable
  HandCapacity = 2
  HandCost <- MCHandCost
  Occupancy <- MCOccupancy
  DrainTicks = 2
  DrainModes = {TRUE, FALSE}
  AttentionVerbs = {"communicate"}
  AttentionCapacity = 1
  PoolSeeded = TRUE
  Speeds = {3}
  MaxDoorTicks = 3
  MaxIntents = 4
  AuthoredSlots = 2
  ServiceMinutes = 2
  WindowMinutes = 1
  RampMinutes = 1
  FloorSlots = 1
  QuietMinutes = 1
  Reservations = {0, 1}
  EffectiveDelays = {2}
  Tombstones = TRUE
  BusinessRate = 1
  MaxCapTicks = 7
  MaxBookings = 2
  Rule = {"ask", "act"}
  Entity = {1}
  Level = {0, 1}
  Cards <- MCCards
  Priced = {"act"}
  StartBook <- MCStartBook
  ConsultTTL = 2
  MaxMinutes = 4
  MaxEdits = 3
  Threat <- MCThreat
  Multiplier = {8, 12, 13, 16, 20}
  DraftAsks <- MCDraftAsks
  StampedIntent = {"first", "second", "third"}
  TickOf <- MCTickOf
  Requests <- MCRequests
INVARIANTS
  ExecutedIntentsHoldTheirHands
CHECK_DEADLOCK FALSE
