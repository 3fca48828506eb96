---------------------------- MODULE NodeCapacity ----------------------------
(***************************************************************************)
(* How many slots one node serves with, tick after tick: the recovery that *)
(* follows a struggle (packages/sim-core/src/pipeline/recovery.ts), the    *)
(* warmth players reserve (applyScaleWarmth, defaults.ts) and the          *)
(* tombstones that collect it (reclaim.ts), in the order the driver        *)
(* applies them.  Each of them writes the stored roster of the node.       *)
(*                                                                         *)
(* A slot is the tick its tenant is served until, or Free.  Tenants take   *)
(* one slot each; how many come, whether the ones that are done are held   *)
(* by a node downstream, and whether the tick's bounces reach the          *)
(* threshold are choices.  A tick is a minute; business minutes run        *)
(* BusinessRate times as fast.  An effective minute of null is minute 0.   *)
(***************************************************************************)
EXTENDS Naturals, SequencesExt

CONSTANTS AuthoredSlots,   \* the roster the node was placed with
          ServiceMinutes,
          WindowMinutes, RampMinutes, FloorSlots, QuietMinutes, \* RecoveryConfig
          Reservations,    \* reservedSlots a player may book
          EffectiveDelays, \* how far ahead a booking's effective minute may be
          Tombstones,      \* whether players reclaim the node
          BusinessRate,
          MaxCapTicks,     \* bound: ticks
          MaxBookings      \* bound: bookings and tombstones

ASSUME CapacityAssumption ==
  /\ {AuthoredSlots, ServiceMinutes, WindowMinutes, RampMinutes, FloorSlots, QuietMinutes,
      BusinessRate} \subseteq Nat \ {0}
  /\ Reservations \subseteq Nat /\ EffectiveDelays \subseteq Nat

VARIABLES capTick,    \* the tick that runs next
          slots,      \* NodeRecord.slots as stored
          recovery,   \* the node's RecoveryWindowRecord, or NoWindow
          episode,    \* RecoveryState.lastStruggleMinute, or NoEpisode
          scale,      \* ScaleBook entry of the node, or NoScale
          tombstone,  \* ReclaimBook entry of the node, or NoTombstone
          bookings,   \* bookings and tombstones so far
          struggled,  \* history: the tick of the last struggle
          anchoredLow \* history: the first booking met a roster in recovery

capVars == <<capTick, slots, recovery, episode, scale, tombstone, bookings, struggled, anchoredLow>>

Free == 0
NoEpisode == 0
NoWindow == [phase |-> "none"]
NoScale == [booked |-> FALSE]
NoTombstone == [booked |-> FALSE]

(* The run begins at minute 1.                                             *)
CapInit ==
  /\ capTick = 1 /\ struggled = 0
  /\ slots = [i \in 1..AuthoredSlots |-> Free]
  /\ recovery = NoWindow /\ episode = NoEpisode
  /\ scale = NoScale /\ tombstone = NoTombstone
  /\ bookings = 0 /\ anchoredLow = FALSE

businessMinute == BusinessRate * capTick
InRecovery == recovery # NoWindow

-----------------------------------------------------------------------------
(***************************************************************************)
(* The door, before the tick runs.                                         *)
(***************************************************************************)
Stamps == {0} \cup {businessMinute + delay : delay \in EffectiveDelays}

(* Faulty variant: every booking starts from the roster it meets.          *)
AnchorAtLiveRoster == Len(slots)

(* The first booking of a node remembers the roster it met, later ones     *)
(* keep what it remembered.                                                *)
Anchor == IF scale.booked THEN scale.base ELSE Len(slots)

ScaleNode ==
  /\ bookings < MaxBookings  \* bound
  /\ \E reserved \in Reservations, effective \in Stamps :
       scale' = [booked |-> TRUE, reserved |-> reserved, base |-> Anchor,
                 shippedAt |-> capTick, effective |-> effective]
  /\ anchoredLow' = (anchoredLow \/ (~scale.booked /\ Len(slots) < AuthoredSlots))
  /\ bookings' = bookings + 1
  /\ UNCHANGED <<capTick, slots, recovery, episode, tombstone, struggled>>

ReclaimNode ==
  /\ Tombstones
  /\ bookings < MaxBookings  \* bound
  /\ \E effective \in Stamps :
       tombstone' = [booked |-> TRUE, shippedAt |-> capTick, effective |-> effective]
  /\ bookings' = bookings + 1
  /\ UNCHANGED <<capTick, slots, recovery, episode, scale, struggled, anchoredLow>>

-----------------------------------------------------------------------------
(***************************************************************************)
(* The roster the node serves with.                                        *)
(***************************************************************************)
OccupiedFloor(roster) == Max({0} \cup {i \in DOMAIN roster : roster[i] # Free})

(* Faulty variant: the roster is cut whoever sits in it.                   *)
ResizedHard(roster, target) ==
  [i \in 1..target |-> IF i \in DOMAIN roster THEN roster[i] ELSE Free]

(* Slots are cut from the end, never below the last tenant, or added.      *)
Resized(roster, target) ==
  [i \in 1..Max({target, OccupiedFloor(roster)}) |->
     IF i \in DOMAIN roster THEN roster[i] ELSE Free]

(* throttleServeNodes: a node in recovery serves with what its window      *)
(* allows.                                                                 *)
Throttled(roster) == IF InRecovery THEN Resized(roster, recovery.effectiveSlots) ELSE roster

Collected ==
  /\ tombstone.booked /\ businessMinute >= tombstone.effective
  /\ scale.booked /\ scale.shippedAt <= tombstone.shippedAt
WarmInForce == scale.booked /\ ~Collected /\ businessMinute >= scale.effective

(* Faulty variant: warmth does not wait for the recovery to end.           *)
WarmedAlways(roster) == IF WarmInForce THEN Resized(roster, scale.base + scale.reserved) ELSE roster

(* applyScaleWarmth: without warmth in force the roster is left alone.     *)
Warmed(roster) ==
  IF WarmInForce /\ ~InRecovery THEN Resized(roster, scale.base + scale.reserved) ELSE roster

(* Serve: tenants whose time is over leave, or all of them are held, and   *)
(* some of the queue takes the first free slots.                           *)
Released(roster, held) ==
  [i \in DOMAIN roster |-> IF roster[i] <= capTick /\ ~held THEN Free ELSE roster[i]]
FreeSlots(roster) == {i \in DOMAIN roster : roster[i] = Free}
Seat(roster, guests) ==
  [i \in DOMAIN roster |->
     IF i \in FreeSlots(roster) /\ Cardinality({j \in FreeSlots(roster) : j <= i}) <= guests
     THEN capTick + ServiceMinutes ELSE roster[i]]

-----------------------------------------------------------------------------
(***************************************************************************)
(* foldRecoveryTick, at the end of the tick.                               *)
(***************************************************************************)
AtLeast(a, b) == IF a > b THEN a ELSE b
AtMost(a, b) == IF a < b THEN a ELSE b

(* Faulty variant: the countdown ignores how long the climb takes.         *)
ClosesAfterWindow(open, full) == open + WindowMinutes

ClosesAt(open, full) ==
  open + AtLeast(WindowMinutes, RampMinutes * (AtLeast(full, FloorSlots) - FloorSlots))

Window(full) ==
  [phase |-> "window", openedAt |-> capTick, closesAt |-> ClosesAt(capTick, full), lockUntil |-> 0,
   fullSlots |-> full, effectiveSlots |-> AtMost(full, FloorSlots)]

(* Faulty variant: a lock lasts a minute longer.                           *)
ResumedLate ==
  IF recovery.phase = "locked" /\ capTick > recovery.lockUntil THEN Window(recovery.fullSlots)
  ELSE recovery

(* A lock that is over resumes as a window that opens now.                 *)
Resumed ==
  IF recovery.phase = "locked" /\ capTick >= recovery.lockUntil THEN Window(recovery.fullSlots)
  ELSE recovery

(* A window gives back a slot every RampMinutes.                           *)
Climbed(window) ==
  IF window.phase # "window" THEN window
  ELSE [window EXCEPT !.effectiveSlots =
          AtMost(window.fullSlots, FloorSlots + (capTick - window.openedAt) \div RampMinutes)]

Locked(window) ==
  [window EXCEPT !.phase = "locked", !.openedAt = capTick, !.closesAt = capTick + WindowMinutes,
                 !.lockUntil = capTick + WindowMinutes,
                 !.effectiveSlots = AtMost(window.fullSlots, FloorSlots)]

(* A struggle in a window locks the node, in a lock it costs nothing, and  *)
(* without either it begins or prolongs an episode.                        *)
Struggle(window) ==
  /\ recovery' = IF window.phase = "window" THEN Locked(window) ELSE window
  /\ episode' = IF window = NoWindow THEN capTick ELSE episode
  /\ struggled' = capTick

(* A quiet minute closes a window whose time is over, or opens one some    *)
(* time after the last struggle.                                           *)
Quiet(window, stored) ==
  LET over == window.phase = "window" /\ capTick > window.closesAt
      opens == window = NoWindow /\ episode # NoEpisode /\ capTick - episode >= QuietMinutes
  IN  /\ recovery' = IF over THEN NoWindow ELSE IF opens THEN Window(stored) ELSE window
      /\ episode' = IF opens THEN NoEpisode ELSE episode
      /\ UNCHANGED struggled

(* A tick; more slots than the recovery remembers would end it with an     *)
(* error.                                                                  *)
CapacityTick ==
  /\ capTick < MaxCapTicks  \* bound
  /\ InRecovery => Len(slots) <= recovery.fullSlots
  /\ \E held \in BOOLEAN : \E roster \in {Released(Warmed(Throttled(slots)), held)} :
       \E guests \in 0..Cardinality(FreeSlots(roster)) : slots' = Seat(roster, guests)
  /\ \E window \in {IF InRecovery THEN Climbed(Resumed) ELSE NoWindow} :
       Struggle(window) \/ Quiet(window, Len(slots'))
  /\ capTick' = capTick + 1
  /\ UNCHANGED <<scale, tombstone, bookings, anchoredLow>>

CapNext == ScaleNode \/ ReclaimNode \/ CapacityTick
CapSpec == CapInit /\ [][CapNext]_capVars

-----------------------------------------------------------------------------
(* The stored roster and the window stay in their ranges.                  *)
CapTypeOK ==
  /\ slots \in Seq(0..(MaxCapTicks + ServiceMinutes))
  /\ recovery.phase \in {"none", "window", "locked"}
  /\ InRecovery => recovery.effectiveSlots \in 1..recovery.fullSlots
  /\ InRecovery => episode = NoEpisode

(* Whatever recovery, warmth and tombstones do to the roster, a tenant     *)
(* keeps its slot until its service is over.                               *)
NoTenantIsEvicted ==
  [][\A i \in DOMAIN slots : slots[i] > capTick => i \in DOMAIN slots' /\ slots'[i] = slots[i]]_capVars

(* While a node recovers nothing gives it more slots than the recovery     *)
(* remembers: the driver would throw.                                      *)
BoardNeverDrifts == InRecovery => Len(slots) <= recovery.fullSlots

(* When a window closes the node is whole again: it stores all the slots   *)
(* it had when the window opened.                                          *)
RestoredNodeIsWhole ==
  [][InRecovery /\ recovery' = NoWindow => Len(slots') = recovery.fullSlots]_capVars

(* A node that no longer struggles is out of recovery in bounded time,     *)
(* locks and climbs included.                                              *)
RecoveryIsBounded ==
  InRecovery => capTick <= struggled + 1 + AtLeast(QuietMinutes, WindowMinutes)
                            + ClosesAt(0, recovery.fullSlots)

(* Warmth is reserved on top of the authored roster, and withdrawing it    *)
(* gives exactly that roster back, however often it was amended, recovered *)
(* from or collected in between; a first booking on a roster in recovery   *)
(* is excepted.                                                            *)
WarmthIsOnTopOfTheAuthoredRoster ==
  [][capTick' # capTick /\ WarmInForce /\ ~InRecovery /\ ~anchoredLow =>
       Len(slots') = AtLeast(AuthoredSlots + scale.reserved, OccupiedFloor(slots))]_capVars

(* A node whose warmth a tombstone has collected serves its authored       *)
(* roster again, as far as its tenants let it.                             *)
CollectedNodeServesItsAuthoredRoster ==
  [][capTick' # capTick /\ Collected /\ ~InRecovery =>
       Len(slots') <= AtLeast(AuthoredSlots, OccupiedFloor(slots))]_capVars
=============================================================================
