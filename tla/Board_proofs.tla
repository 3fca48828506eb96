----------------------------- MODULE Board_proofs ---------------------------
(***************************************************************************)
(* Theorems about what a tick does to a board, for every board, every      *)
(* path and every bound: how nodes age and get their upkeep, and where the *)
(* visitors are.                                                           *)
(***************************************************************************)
EXTENDS NodeCapacity, TickPipeline, DataFacts

-----------------------------------------------------------------------------
(* The inductive invariant.  A window gives back a slot every RampMinutes  *)
(* since it opened, closes no sooner than its climb is complete, and the   *)
(* countdowns of waits and locks start at the last struggle.               *)
WindowRecord ==
  [phase : {"window", "locked"}, openedAt : Nat, closesAt : Nat, lockUntil : Nat,
   fullSlots : Nat, effectiveSlots : Nat]
Booking == [booked : {TRUE}, reserved : Nat, base : Nat \ {0}, shippedAt : Nat, effective : Nat]
Tombstone == [booked : {TRUE}, shippedAt : Nat, effective : Nat]

Types ==
  /\ capTick \in Nat \ {0} /\ struggled \in Nat /\ struggled < capTick
  /\ slots \in Seq(Nat) /\ Len(slots) >= 1
  /\ recovery \in {NoWindow} \cup WindowRecord /\ episode \in Nat
  /\ scale \in {NoScale} \cup Booking /\ tombstone \in {NoTombstone} \cup Tombstone
  /\ anchoredLow \in BOOLEAN

WindowFits == InRecovery => Len(slots) <= recovery.fullSlots /\ recovery.effectiveSlots \in 1..recovery.fullSlots

Climbs ==
  recovery.phase = "window" =>
    /\ recovery.openedAt < capTick
    /\ recovery.openedAt <= struggled + AtLeast(QuietMinutes, WindowMinutes)
    /\ recovery.closesAt = ClosesAt(recovery.openedAt, recovery.fullSlots)
    /\ recovery.effectiveSlots =
         AtMost(recovery.fullSlots, FloorSlots + (capTick - 1 - recovery.openedAt) \div RampMinutes)
    /\ capTick <= recovery.closesAt + 1

Locks == recovery.phase = "locked" => capTick <= recovery.lockUntil /\ recovery.lockUntil <= struggled + WindowMinutes

Episodes ==
  /\ InRecovery => episode = NoEpisode
  /\ ~InRecovery /\ episode # NoEpisode => episode = struggled /\ capTick <= episode + QuietMinutes

Anchors ==
  /\ ~scale.booked => Len(slots) <= AuthoredSlots /\ (InRecovery => recovery.fullSlots <= AuthoredSlots)
  /\ scale.booked /\ ~anchoredLow => scale.base = AuthoredSlots

IInv == Types /\ WindowFits /\ Climbs /\ Locks /\ Episodes /\ Anchors

-----------------------------------------------------------------------------
(* What the definitions of the component take for granted.                 *)
LEMMA Parameters ==
  /\ AuthoredSlots \in Nat \ {0} /\ ServiceMinutes \in Nat \ {0} /\ WindowMinutes \in Nat \ {0}
  /\ RampMinutes \in Nat \ {0} /\ FloorSlots \in Nat \ {0} /\ QuietMinutes \in Nat \ {0}
  /\ BusinessRate \in Nat \ {0}
  /\ Reservations \subseteq Nat /\ EffectiveDelays \subseteq Nat
BY CapacityAssumption

(* A function on 1..n is a sequence of length n.                           *)
LEMMA Listed ==
  ASSUME NEW n \in Nat, NEW f, f = [i \in 1..n |-> f[i]], \A i \in 1..n : f[i] \in Nat
  PROVE  f \in Seq(Nat) /\ Len(f) = n /\ DOMAIN f = 1..n
OBVIOUS

(* The floor is the place of the last tenant, or none.                     *)
LEMMA OccupiedFloorIsLast ==
  ASSUME NEW roster \in Seq(Nat)
  PROVE  /\ OccupiedFloor(roster) \in 0..Len(roster)
         /\ \A i \in DOMAIN roster : roster[i] # Free => i <= OccupiedFloor(roster)
<1> DEFINE S == {0} \cup {i \in DOMAIN roster : roster[i] # Free}
<1>1. S \in SUBSET (0..Len(roster)) /\ S # {} /\ Len(roster) \in Nat
  OBVIOUS
<1>2. Max(S) \in S /\ \A x \in S : x <= Max(S)
  <2> HIDE DEF S
  <2> QED BY <1>1, MaxOfBounded
<1> QED BY <1>1, <1>2 DEF OccupiedFloor

(* Cutting and padding keep every tenant where it sits, and the roster is  *)
(* as long as asked for or as its last tenant needs.                       *)
LEMMA ResizedKeepsTenants ==
  ASSUME NEW roster \in Seq(Nat), NEW target \in Nat
  PROVE  LET resized == Resized(roster, target)
         IN  /\ resized \in Seq(Nat)
             /\ Len(resized) = AtLeast(target, OccupiedFloor(roster))
             /\ \A i \in DOMAIN roster :
                  roster[i] # Free => i \in DOMAIN resized /\ resized[i] = roster[i]
<1> DEFINE floor == OccupiedFloor(roster)
           n == Max({target, floor})
           resized == Resized(roster, target)
<1>1. floor \in 0..Len(roster) /\ Len(roster) \in Nat
  BY OccupiedFloorIsLast
<1>2. n \in {target, floor} /\ target <= n /\ floor <= n
  <2>1. {target, floor} \in SUBSET (0..(target + floor)) /\ target + floor \in Nat
    BY <1>1
  <2> QED BY <2>1, MaxOfBounded
<1>3. n = AtLeast(target, floor) /\ n \in Nat
  BY <1>1, <1>2 DEF AtLeast
<1>4. resized = [i \in 1..n |-> IF i \in DOMAIN roster THEN roster[i] ELSE Free]
  BY DEF Resized
<1> HIDE DEF n, resized, floor
<1>5. resized \in Seq(Nat) /\ Len(resized) = n /\ DOMAIN resized = 1..n
  <2>1. \A i \in 1..n : resized[i] \in Nat
    BY <1>3, <1>4 DEF Free
  <2> QED BY <1>3, <1>4, <2>1, Listed
<1>6. ASSUME NEW i \in DOMAIN roster, roster[i] # Free
      PROVE  i \in DOMAIN resized /\ resized[i] = roster[i]
  <2>1. i <= floor /\ i \in 1..Len(roster)
    BY <1>6, OccupiedFloorIsLast DEF floor
  <2> QED BY <1>1, <1>2, <1>3, <1>4, <1>5, <2>1
<1> QED BY <1>3, <1>5, <1>6 DEF resized, floor

(* A tick of service changes no length and moves no tenant whose time is   *)
(* not over.                                                               *)
LEMMA ServeKeepsTenants ==
  ASSUME NEW roster \in Seq(Nat), NEW held \in BOOLEAN, NEW guests \in Nat, capTick \in Nat
  PROVE  LET served == Seat(Released(roster, held), guests)
         IN  /\ served \in Seq(Nat) /\ Len(served) = Len(roster)
             /\ \A i \in DOMAIN roster : roster[i] > capTick => served[i] = roster[i]
<1> DEFINE released == Released(roster, held)
           served == Seat(released, guests)
<1>1. DOMAIN roster = 1..Len(roster) /\ Len(roster) \in Nat
  OBVIOUS
<1>2. released = [i \in 1..Len(roster) |-> IF roster[i] <= capTick /\ ~held THEN Free ELSE roster[i]]
  BY <1>1 DEF Released
<1>3. DOMAIN released = 1..Len(roster) /\ \A i \in 1..Len(roster) : released[i] \in Nat
  BY <1>1, <1>2 DEF Free
<1> HIDE DEF released
<1>4. /\ served = [i \in 1..Len(roster) |-> served[i]]
      /\ \A i \in 1..Len(roster) : served[i] \in {released[i], capTick + ServiceMinutes}
      /\ \A i \in 1..Len(roster) : released[i] # Free => served[i] = released[i]
  BY <1>3 DEF Seat, FreeSlots
<1> HIDE DEF served
<1>5. ASSUME NEW i \in 1..Len(roster) PROVE served[i] \in Nat
  <2>1. served[i] \in {released[i], capTick + ServiceMinutes}
    BY <1>4
  <2>2. released[i] \in Nat
    BY <1>3
  <2>3. capTick + ServiceMinutes \in Nat
    BY Parameters
  <2> QED BY <2>1, <2>2, <2>3
<1>6. served \in Seq(Nat) /\ Len(served) = Len(roster)
  BY <1>1, <1>4, <1>5, Listed
<1>7. ASSUME NEW i \in DOMAIN roster, roster[i] > capTick PROVE served[i] = roster[i]
  <2>1. roster[i] \in Nat /\ i \in 1..Len(roster)
    BY <1>1
  <2>2. released[i] = roster[i] /\ released[i] # Free
    BY <1>2, <1>7, <2>1 DEF Free
  <2> QED BY <1>4, <2>1, <2>2
<1> QED BY <1>6, <1>7 DEF served, released

(* A window of a positive number of slots.                                 *)
LEMMA WindowType ==
  ASSUME NEW full \in Nat \ {0}, capTick \in Nat \ {0}
  PROVE  /\ Window(full) \in WindowRecord /\ Window(full).phase = "window"
         /\ Window(full).openedAt = capTick /\ Window(full).closesAt = ClosesAt(capTick, full)
         /\ Window(full).fullSlots = full /\ Window(full).effectiveSlots = AtMost(full, FloorSlots)
         /\ ClosesAt(capTick, full) \in Nat /\ ClosesAt(capTick, full) >= capTick + WindowMinutes
         /\ AtMost(full, FloorSlots) \in 1..full
<1>1. AtLeast(full, FloorSlots) \in Nat /\ AtLeast(full, FloorSlots) - FloorSlots \in Nat
  BY Parameters DEF AtLeast
<1>2. RampMinutes * (AtLeast(full, FloorSlots) - FloorSlots) \in Nat
  BY <1>1, Parameters
<1>3. ClosesAt(capTick, full) \in Nat /\ ClosesAt(capTick, full) >= capTick + WindowMinutes
  <2> DEFINE climb == RampMinutes * (AtLeast(full, FloorSlots) - FloorSlots)
  <2>1. climb \in Nat
    BY <1>2
  <2>2. ClosesAt(capTick, full) = capTick + AtLeast(WindowMinutes, climb)
    BY DEF ClosesAt
  <2> HIDE DEF climb
  <2> QED BY <2>1, <2>2, Parameters DEF AtLeast
<1>4. AtMost(full, FloorSlots) \in 1..full
  BY Parameters DEF AtMost
<1> QED BY <1>3, <1>4 DEF Window, WindowRecord

(* A lock that begins now.                                                 *)
LEMMA LockedType ==
  ASSUME NEW window \in WindowRecord, window.fullSlots \in Nat \ {0}, capTick \in Nat
  PROVE  /\ Locked(window) \in WindowRecord /\ Locked(window).phase = "locked"
         /\ Locked(window).lockUntil = capTick + WindowMinutes
         /\ Locked(window).fullSlots = window.fullSlots
         /\ Locked(window).effectiveSlots \in 1..window.fullSlots
<1>1. capTick + WindowMinutes \in Nat
  BY Parameters
<1>2. AtMost(window.fullSlots, FloorSlots) \in 1..window.fullSlots
  BY Parameters DEF AtMost
<1> DEFINE until == capTick + WindowMinutes
           floor == AtMost(window.fullSlots, FloorSlots)
<1> HIDE DEF until, floor
<1>3. until \in Nat /\ floor \in Nat /\ floor \in 1..window.fullSlots
  BY <1>1, <1>2 DEF until, floor
<1>4. Locked(window) = [window EXCEPT !.phase = "locked", !.openedAt = capTick, !.closesAt = until,
                                      !.lockUntil = until, !.effectiveSlots = floor]
  BY DEF Locked, until, floor
<1>5. Locked(window) \in WindowRecord
  BY <1>3, <1>4 DEF WindowRecord
<1>6. /\ Locked(window).phase = "locked" /\ Locked(window).lockUntil = until
      /\ Locked(window).fullSlots = window.fullSlots /\ Locked(window).effectiveSlots = floor
  BY <1>4 DEF WindowRecord
<1> QED BY <1>3, <1>5, <1>6 DEF until

(* What a tick makes of the roster: its length is what recovery or warmth  *)
(* ask for, and whoever is still being served keeps the slot.              *)
LEMMA RosterOfTick ==
  ASSUME Types, CapacityTick
  PROVE  /\ slots' \in Seq(Nat)
         /\ InRecovery => Len(slots') = AtLeast(recovery.effectiveSlots, OccupiedFloor(slots))
         /\ ~InRecovery /\ WarmInForce =>
              Len(slots') = AtLeast(scale.base + scale.reserved, OccupiedFloor(slots))
         /\ ~InRecovery /\ ~WarmInForce => Len(slots') = Len(slots)
         /\ \A i \in DOMAIN slots : slots[i] > capTick => i \in DOMAIN slots' /\ slots'[i] = slots[i]
<1> DEFINE roster == Warmed(Throttled(slots))
<1>1. PICK held \in BOOLEAN, guests \in Nat : slots' = Seat(Released(roster, held), guests)
  <2>1. PICK held \in BOOLEAN :
          \E served \in {Released(roster, held)} :
            \E guests \in 0..Cardinality(FreeSlots(served)) : slots' = Seat(served, guests)
    BY DEF CapacityTick
  <2>2. PICK guests \in 0..Cardinality(FreeSlots(Released(roster, held))) :
          slots' = Seat(Released(roster, held), guests)
    BY <2>1
  <2>3. guests \in Nat
    OBVIOUS
  <2> QED BY <2>2, <2>3
<1>2. /\ roster \in Seq(Nat)
      /\ InRecovery => Len(roster) = AtLeast(recovery.effectiveSlots, OccupiedFloor(slots))
      /\ ~InRecovery /\ WarmInForce =>
           Len(roster) = AtLeast(scale.base + scale.reserved, OccupiedFloor(slots))
      /\ ~InRecovery /\ ~WarmInForce => roster = slots
      /\ \A i \in DOMAIN slots : slots[i] # Free => i \in DOMAIN roster /\ roster[i] = slots[i]
  <2>0. slots \in Seq(Nat)
    BY DEF Types
  <2>1. CASE InRecovery
    <3>1. recovery.effectiveSlots \in Nat
      BY <2>1 DEF Types, InRecovery, WindowRecord
    <3>2. roster = Resized(slots, recovery.effectiveSlots)
      BY <2>1 DEF Warmed, Throttled
    <3> HIDE DEF roster
    <3>3. /\ roster \in Seq(Nat)
          /\ Len(roster) = AtLeast(recovery.effectiveSlots, OccupiedFloor(slots))
          /\ \A i \in DOMAIN slots : slots[i] # Free => i \in DOMAIN roster /\ roster[i] = slots[i]
      BY <2>0, <3>1, <3>2, ResizedKeepsTenants
    <3> QED BY <2>1, <3>3
  <2>2. CASE ~InRecovery /\ WarmInForce
    <3>1. scale.base + scale.reserved \in Nat
      <4>1. scale.booked
        BY <2>2 DEF WarmInForce
      <4>2. scale \in Booking
        <5>1. NoScale.booked = FALSE
          BY DEF NoScale
        <5>2. scale # NoScale
          BY <4>1, <5>1
        <5> QED BY <5>2 DEF Types
      <4>3. scale.base \in Nat /\ scale.reserved \in Nat
        BY <4>2 DEF Booking
      <4> QED BY <4>3
    <3>2. roster = Resized(slots, scale.base + scale.reserved)
      BY <2>2 DEF Warmed, Throttled
    <3> HIDE DEF roster
    <3>3. /\ roster \in Seq(Nat)
          /\ Len(roster) = AtLeast(scale.base + scale.reserved, OccupiedFloor(slots))
          /\ \A i \in DOMAIN slots : slots[i] # Free => i \in DOMAIN roster /\ roster[i] = slots[i]
      BY <2>0, <3>1, <3>2, ResizedKeepsTenants
    <3> QED BY <2>2, <3>3
  <2>3. CASE ~InRecovery /\ ~WarmInForce
    <3>1. roster = slots
      BY <2>3 DEF Warmed, Throttled
    <3> QED BY <2>0, <2>3, <3>1
  <2> QED BY <2>1, <2>2, <2>3
<1>3. capTick \in Nat /\ slots \in Seq(Nat)
  BY DEF Types
<1> HIDE DEF roster
<1>4. /\ slots' \in Seq(Nat) /\ Len(slots') = Len(roster)
      /\ \A i \in DOMAIN roster : roster[i] > capTick => slots'[i] = roster[i]
  BY <1>1, <1>2, <1>3, ServeKeepsTenants
<1>5. ASSUME NEW i \in DOMAIN slots, slots[i] > capTick
      PROVE  i \in DOMAIN slots' /\ slots'[i] = slots[i]
  <2>1. slots[i] \in Nat /\ slots[i] # Free
    BY <1>3, <1>5 DEF Free
  <2>2. i \in DOMAIN roster /\ roster[i] = slots[i]
    BY <1>2, <2>1
  <2> QED BY <1>2, <1>4, <1>5, <2>2
<1> QED BY <1>2, <1>4, <1>5

-----------------------------------------------------------------------------
(* The climb since a tick, in slots, is a number of slots of the roster.   *)
LEMMA ClimbType ==
  ASSUME NEW full \in Nat \ {0}, NEW since \in Nat
  PROVE  /\ since \div RampMinutes \in Nat
         /\ AtMost(full, FloorSlots + since \div RampMinutes) \in 1..full
<1>1. since \div RampMinutes \in Nat
  BY Parameters, DivReaches
<1> DEFINE climb == since \div RampMinutes
<1> HIDE DEF climb
<1>2. climb \in Nat
  BY <1>1 DEF climb
<1>3. AtMost(full, FloorSlots + climb) \in 1..full
  BY <1>2, Parameters DEF AtMost
<1> QED BY <1>2, <1>3 DEF climb

(* A window that is over has climbed to the full roster.                   *)
LEMMA ClimbCompletes ==
  ASSUME NEW full \in Nat \ {0}, NEW opened \in Nat, NEW at \in Nat, at >= ClosesAt(opened, full)
  PROVE  AtMost(full, FloorSlots + (at - opened) \div RampMinutes) = full
<1> DEFINE missing == AtLeast(full, FloorSlots) - FloorSlots
           climb == (at - opened) \div RampMinutes
<1>1. missing \in Nat /\ FloorSlots + missing >= full
  BY Parameters DEF AtLeast
<1>2. RampMinutes * missing \in Nat
  BY <1>1, Parameters
<1>3. ClosesAt(opened, full) = opened + AtLeast(WindowMinutes, RampMinutes * missing)
  BY DEF ClosesAt
<1> HIDE DEF missing
<1>4. at - opened \in Nat /\ at - opened >= RampMinutes * missing
  <2> DEFINE cost == RampMinutes * missing
  <2>1. cost \in Nat /\ at >= opened + AtLeast(WindowMinutes, cost)
    BY <1>2, <1>3
  <2> HIDE DEF cost
  <2>2. at - opened \in Nat /\ at - opened >= cost
    BY <2>1, Parameters DEF AtLeast
  <2> QED BY <2>2 DEF cost
<1>5. climb \in Nat /\ climb >= missing
  BY <1>1, <1>4, Parameters, DivReaches
<1> HIDE DEF climb
<1>6. AtMost(full, FloorSlots + climb) = full
  BY <1>1, <1>5, Parameters DEF AtMost
<1> QED BY <1>6 DEF climb

(* The window a tick works with: a lock that is over opens one, a lock     *)
(* that is not stays, and a window climbs.                                 *)
LEMMA WindowOfTick ==
  ASSUME IInv, InRecovery
  PROVE  LET window == Climbed(Resumed)
         IN  /\ window \in WindowRecord /\ window.fullSlots = recovery.fullSlots
             /\ window.effectiveSlots \in 1..window.fullSlots
             /\ window.phase = "window" =>
                  /\ window.openedAt <= capTick
                  /\ window.openedAt <= struggled + AtLeast(QuietMinutes, WindowMinutes)
                  /\ window.closesAt = ClosesAt(window.openedAt, window.fullSlots)
                  /\ window.effectiveSlots =
                       AtMost(window.fullSlots, FloorSlots + (capTick - window.openedAt) \div RampMinutes)
                  /\ capTick <= window.closesAt + 1
                  /\ capTick > window.closesAt => recovery.effectiveSlots = recovery.fullSlots
             /\ window.phase = "locked" =>
                  window.lockUntil <= struggled + WindowMinutes /\ capTick < window.lockUntil
<1> DEFINE full == recovery.fullSlots
           window == Climbed(Resumed)
<1>1. /\ recovery \in WindowRecord /\ full \in Nat \ {0} /\ recovery.effectiveSlots \in 1..full
      /\ capTick \in Nat \ {0} /\ struggled \in Nat /\ struggled < capTick
  BY DEF IInv, Types, WindowFits, InRecovery, WindowRecord
<1>2. CASE recovery.phase = "locked" /\ capTick >= recovery.lockUntil
  <2>1. Resumed = Window(full)
    BY <1>2 DEF Resumed
  <2>2. /\ Window(full) \in WindowRecord /\ Window(full).phase = "window"
        /\ Window(full).openedAt = capTick /\ Window(full).closesAt = ClosesAt(capTick, full)
        /\ Window(full).fullSlots = full
        /\ ClosesAt(capTick, full) \in Nat /\ ClosesAt(capTick, full) >= capTick + WindowMinutes
    BY <1>1, WindowType
  <2>3. AtMost(full, FloorSlots + (capTick - capTick) \div RampMinutes) \in 1..full
    <3>1. capTick - capTick \in Nat
      BY <1>1
    <3> QED BY <1>1, <3>1, ClimbType
  <2>4. window = [Window(full) EXCEPT !.effectiveSlots =
                    AtMost(full, FloorSlots + (capTick - capTick) \div RampMinutes)]
    BY <2>1, <2>2 DEF Climbed
  <2>5. /\ window \in WindowRecord /\ window.phase = "window" /\ window.fullSlots = full
        /\ window.openedAt = capTick /\ window.closesAt = ClosesAt(capTick, full)
        /\ window.effectiveSlots = AtMost(full, FloorSlots + (capTick - capTick) \div RampMinutes)
    BY <2>2, <2>3, <2>4 DEF WindowRecord
  <2>6. capTick <= struggled + AtLeast(QuietMinutes, WindowMinutes)
    BY <1>1, <1>2, Parameters DEF IInv, Locks, WindowRecord, AtLeast
  <2>7. capTick <= ClosesAt(capTick, full) + 1 /\ ~(capTick > ClosesAt(capTick, full))
    BY <1>1, <2>2, Parameters
  <2> HIDE DEF window, full
  <2> QED BY <1>1, <2>3, <2>5, <2>6, <2>7 DEF full, window
<1>3. CASE recovery.phase = "locked" /\ ~(capTick >= recovery.lockUntil)
  <2>1. window = recovery
    BY <1>3 DEF Resumed, Climbed
  <2>2. capTick < recovery.lockUntil
    BY <1>1, <1>3 DEF WindowRecord
  <2> QED BY <1>1, <1>3, <2>1, <2>2 DEF IInv, Locks
<1>4. CASE recovery.phase = "window"
  <2>1. /\ recovery.openedAt \in Nat /\ recovery.openedAt < capTick
        /\ recovery.openedAt <= struggled + AtLeast(QuietMinutes, WindowMinutes)
        /\ recovery.closesAt = ClosesAt(recovery.openedAt, full)
        /\ recovery.effectiveSlots =
             AtMost(full, FloorSlots + (capTick - 1 - recovery.openedAt) \div RampMinutes)
        /\ capTick <= recovery.closesAt + 1 /\ recovery.closesAt \in Nat
    BY <1>1, <1>4 DEF IInv, Climbs, WindowRecord
  <2> DEFINE slotsNow == AtMost(full, FloorSlots + (capTick - recovery.openedAt) \div RampMinutes)
  <2>2. slotsNow \in 1..full
    <3>1. capTick - recovery.openedAt \in Nat
      BY <1>1, <2>1
    <3> QED BY <1>1, <3>1, ClimbType
  <2>3. window = [recovery EXCEPT !.effectiveSlots = slotsNow]
    BY <1>4 DEF Resumed, Climbed
  <2> HIDE DEF slotsNow
  <2>4. /\ window \in WindowRecord /\ window.phase = "window" /\ window.fullSlots = full
        /\ window.openedAt = recovery.openedAt /\ window.closesAt = recovery.closesAt
        /\ window.effectiveSlots = slotsNow
    BY <1>1, <1>4, <2>2, <2>3 DEF WindowRecord
  <2>5. capTick > recovery.closesAt => recovery.effectiveSlots = full
    <3>1. SUFFICES ASSUME capTick > recovery.closesAt PROVE recovery.effectiveSlots = full
      OBVIOUS
    <3>2. capTick - 1 \in Nat /\ capTick - 1 >= ClosesAt(recovery.openedAt, full)
      BY <1>1, <2>1, <3>1
    <3> QED BY <1>1, <2>1, <3>2, ClimbCompletes
  <2> HIDE DEF window
  <2> QED BY <1>1, <2>1, <2>2, <2>4, <2>5 DEF slotsNow, window
<1> QED BY <1>1, <1>2, <1>3, <1>4 DEF WindowRecord

-----------------------------------------------------------------------------
(* The inductive invariant holds when the node starts.                     *)
LEMMA InitIInv == CapInit => IInv
<1> SUFFICES ASSUME CapInit PROVE IInv
  OBVIOUS
<1>1. slots \in Seq(Nat) /\ Len(slots) = AuthoredSlots /\ AuthoredSlots \in Nat \ {0}
  BY Parameters DEF CapInit, Free
<1>2. ~InRecovery /\ recovery = NoWindow /\ NoWindow.phase = "none" /\ NoScale.booked = FALSE
  BY DEF CapInit, InRecovery, NoWindow, NoScale
<1>3. Types
  <2>1. anchoredLow \in BOOLEAN
    BY Zenon DEF CapInit
  <2>2. capTick \in Nat \ {0} /\ struggled \in Nat /\ struggled < capTick /\ episode \in Nat
    BY DEF CapInit, NoEpisode
  <2>3. scale \in {NoScale} /\ tombstone \in {NoTombstone}
    BY DEF CapInit
  <2>4. Len(slots) >= 1
    BY <1>1
  <2> QED BY <1>1, <1>2, <2>1, <2>2, <2>3, <2>4, Zenon DEF Types
<1>4. WindowFits /\ Climbs /\ Locks
  BY <1>2 DEF WindowFits, Climbs, Locks
<1>5. Episodes
  BY <1>2 DEF CapInit, Episodes
<1>6. Anchors
  BY <1>1, <1>2 DEF CapInit, Anchors
<1> QED BY <1>3, <1>4, <1>5, <1>6 DEF IInv

(* Bookings and tombstones write books only.                               *)
LEMMA DoorKeepsIInv ==
  ASSUME IInv, ScaleNode \/ ReclaimNode
  PROVE  IInv'
<1> USE DEF IInv
<1>1. Stamps \subseteq Nat
  <2>1. businessMinute \in Nat
    BY Parameters DEF Types, businessMinute
  <2> QED BY <2>1, Parameters DEF Stamps
<1>2. CASE ScaleNode
  <2>1. UNCHANGED <<capTick, slots, recovery, episode, tombstone, struggled>>
    BY <1>2 DEF ScaleNode
  <2>2. Anchor \in Nat \ {0}
    <3>1. scale.booked => scale \in Booking
      BY DEF Types, NoScale
    <3>2. Len(slots) \in Nat \ {0}
      BY DEF Types
    <3> QED BY <3>1, <3>2 DEF Anchor, Booking
  <2>3. PICK reserved \in Reservations, effective \in Stamps :
          scale' = [booked |-> TRUE, reserved |-> reserved, base |-> Anchor,
                    shippedAt |-> capTick, effective |-> effective]
    BY <1>2 DEF ScaleNode
  <2>4. scale' \in Booking /\ scale'.booked = TRUE /\ scale'.base = Anchor
    BY <1>1, <2>2, <2>3, Parameters DEF Types, Booking
  <2>5. anchoredLow' = (anchoredLow \/ (~scale.booked /\ Len(slots) < AuthoredSlots))
    BY <1>2 DEF ScaleNode
  <2>6. Types'
    BY <2>1, <2>4, <2>5 DEF Types
  <2>7. (WindowFits /\ Climbs /\ Locks /\ Episodes)'
    BY <2>1 DEF WindowFits, Climbs, Locks, Episodes, InRecovery
  <2>8. ~anchoredLow' => scale'.base = AuthoredSlots
    <3>1. SUFFICES ASSUME ~anchoredLow' PROVE Anchor = AuthoredSlots
      BY <2>4
    <3>2. ~anchoredLow /\ (scale.booked \/ Len(slots) >= AuthoredSlots)
      <4>1. Len(slots) \in Nat
        BY DEF Types
      <4>2. ~anchoredLow /\ (scale.booked \/ ~(Len(slots) < AuthoredSlots))
        BY <2>5, <3>1, Zenon
      <4>3. ~(Len(slots) < AuthoredSlots) => Len(slots) >= AuthoredSlots
        BY <4>1, Parameters
      <4> QED BY <4>2, <4>3, Zenon
    <3>3. CASE scale.booked
      BY <3>2, <3>3 DEF Anchors, Anchor
    <3>4. CASE ~scale.booked
      <4>1. Len(slots) <= AuthoredSlots /\ Len(slots) >= AuthoredSlots /\ Len(slots) \in Nat
        BY <3>2, <3>4 DEF Anchors, Types
      <4> QED BY <3>4, <4>1, Parameters DEF Anchor
    <3> QED BY <3>3, <3>4
  <2>9. Anchors'
    BY <2>4, <2>8 DEF Anchors
  <2> QED BY <2>6, <2>7, <2>9
<1>3. CASE ReclaimNode
  <2>1. UNCHANGED <<capTick, slots, recovery, episode, scale, struggled, anchoredLow>>
    BY <1>3 DEF ReclaimNode
  <2>2. tombstone' \in Tombstone
    BY <1>1, <1>3 DEF ReclaimNode, Tombstone, Types
  <2>3. Types'
    BY <2>1, <2>2 DEF Types
  <2> QED BY <2>1, <2>3 DEF WindowFits, Climbs, Locks, Episodes, Anchors, InRecovery
<1> QED BY <1>2, <1>3

(* The roster after a tick, against the bounds of the invariant.           *)
LEMMA SizesOfTick ==
  ASSUME IInv, CapacityTick
  PROVE  /\ slots' \in Seq(Nat) /\ Len(slots') >= 1
         /\ InRecovery => Len(slots') <= recovery.fullSlots /\ Len(slots') >= recovery.effectiveSlots
         /\ ~scale.booked => Len(slots') <= AuthoredSlots
<1> USE DEF IInv
<1> DEFINE floor == OccupiedFloor(slots)
<1>1. slots \in Seq(Nat) /\ Len(slots) \in Nat /\ Len(slots) >= 1 /\ floor \in 0..Len(slots)
  BY OccupiedFloorIsLast DEF Types
<1>2. /\ slots' \in Seq(Nat)
      /\ InRecovery => Len(slots') = AtLeast(recovery.effectiveSlots, floor)
      /\ ~InRecovery /\ WarmInForce => Len(slots') = AtLeast(scale.base + scale.reserved, floor)
      /\ ~InRecovery /\ ~WarmInForce => Len(slots') = Len(slots)
  BY RosterOfTick
<1> HIDE DEF floor
<1>3. CASE InRecovery
  <2>1. /\ recovery.effectiveSlots \in 1..recovery.fullSlots /\ recovery.fullSlots \in Nat
        /\ Len(slots) <= recovery.fullSlots
    BY <1>3 DEF WindowFits, Types, InRecovery, WindowRecord
  <2>2. ~scale.booked => recovery.fullSlots <= AuthoredSlots
    BY <1>3 DEF Anchors
  <2>3. Len(slots') \in 1..recovery.fullSlots /\ Len(slots') >= recovery.effectiveSlots
    BY <1>1, <1>2, <1>3, <2>1 DEF AtLeast
  <2>4. ~scale.booked => Len(slots') <= AuthoredSlots
    BY <2>1, <2>2, <2>3, Parameters
  <2> QED BY <1>2, <2>1, <2>3, <2>4
<1>4. CASE ~InRecovery /\ WarmInForce
  <2>1. scale.booked
    BY <1>4 DEF WarmInForce
  <2>2. scale.base + scale.reserved \in Nat \ {0}
    <3>1. NoScale.booked = FALSE
      BY DEF NoScale
    <3>2. scale \in Booking
      BY <2>1, <3>1 DEF Types
    <3>3. scale.base \in Nat \ {0} /\ scale.reserved \in Nat
      BY <3>2 DEF Booking
    <3> QED BY <3>3
  <2>3. Len(slots') \in Nat /\ Len(slots') >= 1
    BY <1>1, <1>2, <1>4, <2>2 DEF AtLeast
  <2> QED BY <1>2, <1>4, <2>1, <2>3
<1>5. CASE ~InRecovery /\ ~WarmInForce
  BY <1>1, <1>2, <1>5 DEF Anchors
<1> QED BY <1>3, <1>4, <1>5

(* A tick, given the window it works with.                                 *)
LEMMA TickKeepsIInv ==
  ASSUME IInv, CapacityTick
  PROVE  IInv'
<1> USE DEF IInv
<1> DEFINE window == IF InRecovery THEN Climbed(Resumed) ELSE NoWindow
<1>1. capTick' = capTick + 1 /\ UNCHANGED <<scale, tombstone, bookings, anchoredLow>>
  BY DEF CapacityTick
<1>2. Struggle(window) \/ Quiet(window, Len(slots'))
  BY DEF CapacityTick
<1>3. capTick \in Nat \ {0} /\ struggled \in Nat /\ struggled < capTick /\ episode \in Nat
  BY DEF Types
<1>4. /\ slots' \in Seq(Nat) /\ Len(slots') \in Nat \ {0}
      /\ InRecovery => Len(slots') <= recovery.fullSlots
      /\ ~scale.booked => Len(slots') <= AuthoredSlots
  BY SizesOfTick
<1>5. InRecovery =>
        /\ window \in WindowRecord /\ window.fullSlots = recovery.fullSlots
        /\ window.effectiveSlots \in 1..window.fullSlots
        /\ window.phase = "window" =>
             /\ window.openedAt <= capTick
             /\ window.openedAt <= struggled + AtLeast(QuietMinutes, WindowMinutes)
             /\ window.closesAt = ClosesAt(window.openedAt, window.fullSlots)
             /\ window.effectiveSlots =
                  AtMost(window.fullSlots, FloorSlots + (capTick - window.openedAt) \div RampMinutes)
             /\ capTick <= window.closesAt + 1
        /\ window.phase = "locked" =>
             window.lockUntil <= struggled + WindowMinutes /\ capTick < window.lockUntil
  BY WindowOfTick
<1>6. ~InRecovery => window = NoWindow
  OBVIOUS
<1>7. NoWindow.phase = "none" /\ NoWindow \notin WindowRecord
  BY DEF NoWindow, WindowRecord
<1>8. AtLeast(QuietMinutes, WindowMinutes) \in Nat /\ AtLeast(QuietMinutes, WindowMinutes) >= QuietMinutes
      /\ AtLeast(QuietMinutes, WindowMinutes) >= WindowMinutes
  BY Parameters DEF AtLeast
<1> HIDE DEF window
<1> DEFINE Fits(r) == Len(slots') <= r.fullSlots /\ r.effectiveSlots \in 1..r.fullSlots
           Small(r) == ~scale.booked => r.fullSlots <= AuthoredSlots
           Climbing(r) ==
             r.phase = "window" =>
               /\ r.openedAt < capTick + 1
               /\ r.openedAt <= struggled' + AtLeast(QuietMinutes, WindowMinutes)
               /\ r.closesAt = ClosesAt(r.openedAt, r.fullSlots)
               /\ r.effectiveSlots = AtMost(r.fullSlots, FloorSlots + (capTick - r.openedAt) \div RampMinutes)
               /\ capTick + 1 <= r.closesAt + 1
           Waiting(r) == r.phase = "locked" => capTick + 1 <= r.lockUntil /\ r.lockUntil <= struggled' + WindowMinutes
<1>9. /\ struggled' \in Nat /\ struggled' < capTick + 1 /\ episode' \in Nat
      /\ \/ recovery' = NoWindow /\ (episode' # NoEpisode => episode' = struggled' /\ capTick + 1 <= episode' + QuietMinutes)
         \/ /\ recovery' \in WindowRecord /\ episode' = NoEpisode
            /\ Fits(recovery') /\ Small(recovery') /\ Climbing(recovery') /\ Waiting(recovery')
  <2>1. ~InRecovery /\ episode # NoEpisode => episode = struggled /\ capTick <= episode + QuietMinutes
    BY DEF Episodes
  <2>2. InRecovery => episode = NoEpisode /\ recovery.fullSlots \in Nat
    BY DEF Episodes, Types, InRecovery, WindowRecord
  <2>3. InRecovery /\ ~scale.booked => recovery.fullSlots <= AuthoredSlots
    BY DEF Anchors
  <2>4. CASE Struggle(window) /\ ~InRecovery
    <3>1. recovery' = NoWindow /\ episode' = capTick /\ struggled' = capTick
      BY <1>6, <1>7, <2>4 DEF Struggle
    <3> QED BY <1>3, <3>1, Parameters
  <2>5. CASE Struggle(window) /\ InRecovery /\ window.phase = "window"
    <3>1. /\ recovery' = Locked(window) /\ struggled' = capTick
          /\ episode' = episode /\ episode = NoEpisode
      BY <1>5, <1>7, <2>2, <2>5 DEF Struggle
    <3>2. /\ window \in WindowRecord /\ window.fullSlots = recovery.fullSlots
          /\ window.fullSlots \in Nat \ {0}
      BY <1>5, <2>2, <2>5
    <3>3. AtMost(window.fullSlots, FloorSlots) \in 1..window.fullSlots
      BY <3>2, Parameters DEF AtMost
    <3>4. capTick + WindowMinutes \in Nat /\ capTick + 1 <= capTick + WindowMinutes
      BY <1>3, Parameters
    <3>5. /\ recovery' \in WindowRecord /\ recovery'.phase = "locked"
          /\ recovery'.fullSlots = recovery.fullSlots
          /\ recovery'.effectiveSlots \in 1..recovery'.fullSlots
          /\ recovery'.lockUntil = capTick + WindowMinutes
      BY <1>3, <3>1, <3>2, LockedType DEF Types
    <3> QED BY <1>3, <1>4, <2>3, <2>5, <3>1, <3>4, <3>5
  <2>6. CASE Struggle(window) /\ InRecovery /\ window.phase = "locked"
    <3>1. recovery' = window /\ struggled' = capTick /\ episode' = episode /\ episode = NoEpisode
      BY <1>5, <1>7, <2>2, <2>6 DEF Struggle
    <3>2. window \in WindowRecord /\ window.lockUntil \in Nat
      BY <1>5, <2>6 DEF WindowRecord
    <3>3. window.lockUntil <= struggled + WindowMinutes /\ capTick < window.lockUntil
      BY <1>5, <2>6
    <3>4. Waiting(window)
      BY <1>3, <3>1, <3>2, <3>3, Parameters
    <3>5. Fits(window) /\ Small(window) /\ Climbing(window)
      BY <1>4, <1>5, <2>3, <2>6
    <3> QED BY <1>3, <3>1, <3>2, <3>4, <3>5
  <2>7. CASE Quiet(window, Len(slots')) /\ ~InRecovery
    <3>1. window = NoWindow /\ struggled' = struggled
      BY <1>6, <2>7 DEF Quiet
    <3>2. CASE episode # NoEpisode /\ capTick - episode >= QuietMinutes
      <4>1. recovery' = Window(Len(slots')) /\ episode' = NoEpisode
        BY <1>7, <2>7, <3>1, <3>2 DEF Quiet
      <4>2. /\ recovery' \in WindowRecord /\ recovery'.phase = "window"
            /\ recovery'.openedAt = capTick /\ recovery'.closesAt = ClosesAt(capTick, Len(slots'))
            /\ recovery'.fullSlots = Len(slots')
            /\ recovery'.effectiveSlots = AtMost(Len(slots'), FloorSlots)
            /\ ClosesAt(capTick, Len(slots')) \in Nat
            /\ ClosesAt(capTick, Len(slots')) >= capTick + WindowMinutes
            /\ AtMost(Len(slots'), FloorSlots) \in 1..Len(slots')
        BY <1>3, <1>4, <4>1, WindowType
      <4>3. FloorSlots + (capTick - capTick) \div RampMinutes = FloorSlots
        <5>1. capTick - capTick = 0
          BY <1>3
        <5>2. 0 \div RampMinutes = 0
          BY Parameters
        <5> QED BY <5>1, <5>2, Parameters
      <4>4. capTick <= struggled' + AtLeast(QuietMinutes, WindowMinutes)
        BY <1>3, <1>8, <2>1, <2>7, <3>1, <3>2, Parameters
      <4>5. Climbing(recovery')
        BY <1>3, <4>2, <4>3, <4>4, Parameters
      <4>6. Fits(recovery') /\ Small(recovery') /\ Waiting(recovery')
        BY <1>4, <4>2
      <4>7. episode' \in Nat
        BY <4>1 DEF NoEpisode
      <4> QED BY <1>3, <3>1, <4>1, <4>2, <4>5, <4>6, <4>7
    <3>3. CASE ~(episode # NoEpisode /\ capTick - episode >= QuietMinutes)
      <4>1. recovery' = NoWindow /\ episode' = episode
        BY <1>7, <2>7, <3>1, <3>3 DEF Quiet
      <4> QED BY <1>3, <2>1, <2>7, <3>1, <3>3, <4>1, Parameters
    <3> QED BY <3>2, <3>3
  <2>8. CASE Quiet(window, Len(slots')) /\ InRecovery /\ window.phase = "window"
    <3>1. /\ window \in WindowRecord /\ window # NoWindow /\ window.closesAt \in Nat
          /\ struggled' = struggled /\ episode' = episode /\ episode = NoEpisode
      BY <1>5, <1>7, <2>2, <2>8 DEF Quiet, WindowRecord
    <3>2. CASE capTick > window.closesAt
      <4>1. recovery' = NoWindow
        BY <2>8, <3>2 DEF Quiet
      <4> QED BY <1>3, <3>1, <4>1
    <3>3. CASE ~(capTick > window.closesAt)
      <4>1. recovery' = window
        BY <2>8, <3>1, <3>3 DEF Quiet
      <4>2. window.openedAt \in Nat /\ Climbing(window)
        BY <1>3, <1>5, <2>8, <3>1, <3>3 DEF WindowRecord
      <4>3. Fits(window) /\ Small(window) /\ Waiting(window)
        BY <1>4, <1>5, <2>3, <2>8
      <4> QED BY <1>3, <3>1, <4>1, <4>2, <4>3
    <3> QED BY <3>2, <3>3
  <2>9. CASE Quiet(window, Len(slots')) /\ InRecovery /\ window.phase = "locked"
    <3>1. /\ window \in WindowRecord /\ window # NoWindow /\ window.lockUntil \in Nat
          /\ struggled' = struggled /\ episode' = episode /\ episode = NoEpisode
          /\ recovery' = window
      BY <1>5, <1>7, <2>2, <2>9 DEF Quiet, WindowRecord
    <3>2. Waiting(window)
      BY <1>3, <1>5, <2>9, <3>1
    <3>3. Fits(window) /\ Small(window) /\ Climbing(window)
      BY <1>4, <1>5, <2>3, <2>9
    <3> QED BY <1>3, <3>1, <3>2, <3>3
  <2>10. InRecovery => window.phase \in {"window", "locked"}
    BY <1>5 DEF WindowRecord
  <2> QED BY <1>2, <2>4, <2>5, <2>6, <2>7, <2>8, <2>9, <2>10
<1>10. capTick' - 1 = capTick
  BY <1>1, <1>3
<1>11. InRecovery' <=> recovery' # NoWindow
  BY DEF InRecovery
<1>12. Types'
  BY <1>1, <1>3, <1>4, <1>9 DEF Types
<1>13. CASE recovery' = NoWindow
  BY <1>1, <1>4, <1>7, <1>9, <1>11, <1>12, <1>13 DEF WindowFits, Climbs, Locks, Episodes, Anchors
<1>14. CASE recovery' # NoWindow
  <2>1. /\ recovery' \in WindowRecord /\ episode' = NoEpisode
        /\ Fits(recovery') /\ Small(recovery') /\ Climbing(recovery') /\ Waiting(recovery')
    BY <1>9, <1>14
  <2>2. WindowFits' /\ Locks' /\ Episodes'
    BY <1>1, <1>11, <1>14, <2>1 DEF WindowFits, Locks, Episodes
  <2>3. Climbs'
    BY <1>1, <1>10, <2>1 DEF Climbs
  <2>4. Anchors'
    BY <1>1, <1>4, <1>11, <2>1 DEF Anchors
  <2> QED BY <1>12, <2>2, <2>3, <2>4
<1> QED BY <1>13, <1>14

(* Doors and ticks keep the inductive invariant.                           *)
LEMMA NextKeepsIInv ==
  ASSUME IInv, [CapNext]_capVars
  PROVE  IInv'
<1>1. CASE ScaleNode \/ ReclaimNode
  BY <1>1, DoorKeepsIInv
<1>2. CASE CapacityTick
  BY <1>2, TickKeepsIInv
<1>3. CASE UNCHANGED capVars
  <2>1. UNCHANGED <<capTick, slots, recovery, episode, scale, tombstone, struggled, anchoredLow>>
    BY <1>3 DEF capVars
  <2> QED BY <2>1 DEF IInv, Types, WindowFits, Climbs, Locks, Episodes, Anchors, InRecovery
<1> QED BY <1>1, <1>2, <1>3 DEF CapNext

(* The inductive invariant holds in every state.                           *)
LEMMA Invariance == CapSpec => []IInv
<1>1. IInv /\ [CapNext]_capVars => IInv'
  BY NextKeepsIInv
<1> QED BY <1>1, InitIInv, PTL DEF CapSpec

-----------------------------------------------------------------------------
(* The driver's own check never throws: a node in recovery has no more     *)
(* slots than its window remembers (recovery.ts, foldRecoveryTick), for    *)
(* every roster, recovery setting and booking.                             *)
THEOREM BoardNeverDriftsHolds == CapSpec => []BoardNeverDrifts
<1>1. IInv => BoardNeverDrifts
  BY DEF IInv, WindowFits, BoardNeverDrifts
<1> QED BY <1>1, Invariance, PTL

(* A node that does not struggle any more is out of recovery in bounded    *)
(* time, counted from its last struggle, whatever the climb costs          *)
(* (recovery.ts, foldRecoveryTick).                                        *)
THEOREM RecoveryIsBoundedHolds == CapSpec => []RecoveryIsBounded
<1>1. IInv => RecoveryIsBounded
  <2> SUFFICES ASSUME IInv, InRecovery
               PROVE  capTick <= struggled + 1 + AtLeast(QuietMinutes, WindowMinutes)
                                   + ClosesAt(0, recovery.fullSlots)
    BY DEF RecoveryIsBounded
  <2> USE DEF IInv
  <2> DEFINE full == recovery.fullSlots
             wait == AtLeast(QuietMinutes, WindowMinutes)
             climb == RampMinutes * (AtLeast(full, FloorSlots) - FloorSlots)
  <2>1. recovery \in WindowRecord /\ full \in Nat /\ capTick \in Nat /\ struggled \in Nat
    BY DEF Types, InRecovery, WindowRecord
  <2>2. wait \in Nat /\ wait >= WindowMinutes
    BY Parameters DEF AtLeast
  <2>3. climb \in Nat
    <3>1. AtLeast(full, FloorSlots) - FloorSlots \in Nat
      BY <2>1, Parameters DEF AtLeast
    <3> QED BY <3>1, Parameters
  <2>4. /\ ClosesAt(0, full) = 0 + AtLeast(WindowMinutes, climb)
        /\ ClosesAt(recovery.openedAt, full) = recovery.openedAt + AtLeast(WindowMinutes, climb)
    BY DEF ClosesAt
  <2> HIDE DEF wait, climb
  <2>5. AtLeast(WindowMinutes, climb) \in Nat
    BY <2>3, Parameters DEF AtLeast
  <2>6. CASE recovery.phase = "window"
    <3>1. /\ recovery.openedAt \in Nat /\ recovery.openedAt <= struggled + wait
          /\ recovery.closesAt = ClosesAt(recovery.openedAt, full)
          /\ capTick <= recovery.closesAt + 1
      BY <2>1, <2>6 DEF Climbs, WindowRecord, wait
    <3> QED BY <2>1, <2>2, <2>4, <2>5, <3>1 DEF wait
  <2>7. CASE recovery.phase = "locked"
    <3>1. recovery.lockUntil \in Nat /\ capTick <= recovery.lockUntil
          /\ recovery.lockUntil <= struggled + WindowMinutes
      BY <2>1, <2>7 DEF Locks, WindowRecord
    <3> QED BY <2>1, <2>2, <2>4, <2>5, <3>1, Parameters DEF wait
  <2> QED BY <2>1, <2>6, <2>7 DEF WindowRecord
<1> QED BY <1>1, Invariance, PTL

(* Neither recovery nor warmth nor a tombstone takes the slot of a tenant  *)
(* that is being served (driver.ts, applyScaleWarmth, serve).              *)
THEOREM NoTenantIsEvictedHolds == CapSpec => NoTenantIsEvicted
<1> DEFINE Kept == \A i \in DOMAIN slots : slots[i] > capTick => i \in DOMAIN slots' /\ slots'[i] = slots[i]
<1>1. IInv /\ [CapNext]_capVars => [Kept]_capVars
  <2> SUFFICES ASSUME IInv, CapNext PROVE Kept
    OBVIOUS
  <2>1. CASE ScaleNode \/ ReclaimNode
    <3>1. slots' = slots
      BY <2>1 DEF ScaleNode, ReclaimNode
    <3> QED BY <3>1
  <2>2. CASE CapacityTick
    BY <2>2, RosterOfTick DEF IInv
  <2> QED BY <2>1, <2>2 DEF CapNext
<1> QED BY <1>1, Invariance, PTL DEF CapSpec, NoTenantIsEvicted

(* A window that closes leaves the node with every slot it had when the    *)
(* window opened: the climb is never cut short (recovery.ts, closeMinute). *)
THEOREM RestoredNodeIsWholeHolds == CapSpec => RestoredNodeIsWhole
<1> DEFINE Whole == InRecovery /\ recovery' = NoWindow => Len(slots') = recovery.fullSlots
<1>1. IInv /\ [CapNext]_capVars => [Whole]_capVars
  <2> SUFFICES ASSUME IInv, CapNext, InRecovery, recovery' = NoWindow
               PROVE  Len(slots') = recovery.fullSlots
    OBVIOUS
  <2>1. CapacityTick
    <3>1. ScaleNode \/ ReclaimNode => recovery' = recovery
      BY DEF ScaleNode, ReclaimNode
    <3> QED BY <3>1 DEF CapNext, InRecovery
  <2> DEFINE window == Climbed(Resumed)
  <2>2. Struggle(window) \/ Quiet(window, Len(slots'))
    BY <2>1 DEF CapacityTick
  <2>3. /\ window \in WindowRecord
        /\ window.phase = "window" /\ capTick > window.closesAt => recovery.effectiveSlots = recovery.fullSlots
    BY WindowOfTick
  <2>4. window # NoWindow /\ NoWindow.phase = "none" /\ Locked(window) # NoWindow
    <3>1. NoWindow.phase = "none"
      BY DEF NoWindow
    <3>2. Locked(window).phase = "locked"
      BY <2>3 DEF Locked, WindowRecord
    <3>3. window.phase \in {"window", "locked"}
      BY <2>3 DEF WindowRecord
    <3> QED BY <3>1, <3>2, <3>3
  <2> HIDE DEF window
  <2>5. window.phase = "window" /\ capTick > window.closesAt
    BY <2>2, <2>4 DEF Struggle, Quiet
  <2>6. recovery.effectiveSlots = recovery.fullSlots /\ recovery.fullSlots \in Nat
    BY <2>3, <2>5 DEF IInv, Types, InRecovery, WindowRecord
  <2>7. /\ Len(slots') \in Nat /\ Len(slots') <= recovery.fullSlots
        /\ Len(slots') >= recovery.effectiveSlots
    BY <2>1, SizesOfTick
  <2> QED BY <2>6, <2>7
<1> QED BY <1>1, Invariance, PTL DEF CapSpec, RestoredNodeIsWhole

(* Warmth in force is what was reserved on top of the authored roster,     *)
(* however often it was amended, recovered from or collected since; a      *)
(* first booking on a roster in recovery is excepted (defaults.ts,         *)
(* applyScaleWarmth; intent-door.ts, applyScale).                          *)
THEOREM WarmthIsOnTopHolds == CapSpec => WarmthIsOnTopOfTheAuthoredRoster
<1> DEFINE OnTop == capTick' # capTick /\ WarmInForce /\ ~InRecovery /\ ~anchoredLow =>
                      Len(slots') = AtLeast(AuthoredSlots + scale.reserved, OccupiedFloor(slots))
<1>1. IInv /\ [CapNext]_capVars => [OnTop]_capVars
  <2> SUFFICES ASSUME IInv, CapNext, capTick' # capTick, WarmInForce, ~InRecovery, ~anchoredLow
               PROVE  Len(slots') = AtLeast(AuthoredSlots + scale.reserved, OccupiedFloor(slots))
    OBVIOUS
  <2>1. CapacityTick
    BY DEF CapNext, ScaleNode, ReclaimNode
  <2>2. Len(slots') = AtLeast(scale.base + scale.reserved, OccupiedFloor(slots))
    BY <2>1, RosterOfTick DEF IInv
  <2>3. scale.base = AuthoredSlots
    BY DEF IInv, Anchors, WarmInForce
  <2> QED BY <2>2, <2>3
<1> QED BY <1>1, Invariance, PTL DEF CapSpec, WarmthIsOnTopOfTheAuthoredRoster

-----------------------------------------------------------------------------
Ids == 1..MaxUnits
Visitor ==
  [path : Seq(Node), size : Nat \ {0}, benign : BOOLEAN, retryOf : Nat, first : Ids, attempt : Nat]
Occupant == [unit : Ids, size : Nat \ {0}, until : Int, held : BOOLEAN]

NoRepeat(s) == \A i, j \in DOMAIN s : s[i] = s[j] => i = j
OneSeatEach(occupied) == \A a, b \in occupied : a.unit = b.unit => a = b
Hops(roster, n) == {id \in DOMAIN roster : roster[id].path # <<>> /\ roster[id].path[1] = n}

BoardTyped ==
  /\ tick \in Nat /\ minted \in 0..MaxUnits
  /\ DOMAIN units \subseteq 1..minted /\ units \in [DOMAIN units -> Visitor]
  /\ queue \in [Node -> Seq(Ids)] /\ seats \in [Node -> SUBSET Occupant]

(* Whoever stands somewhere is in the roster and heads there, stands in a  *)
(* queue once, and either waits or is served.                              *)
AtHome == \A n \in Node : ToSet(queue[n]) \cup SeatedIn(seats[n]) \subseteq Hops(units, n)
Once ==
  \A n \in Node : /\ NoRepeat(queue[n]) /\ OneSeatEach(seats[n])
                  /\ ToSet(queue[n]) \cap SeatedIn(seats[n]) = {}

BoardInv == BoardTyped /\ AtHome /\ Once

(* A roster that arrivals have joined.                                     *)
Joined(roster) ==
  /\ minted' \in minted..MaxUnits
  /\ DOMAIN units \subseteq DOMAIN roster /\ DOMAIN roster \subseteq 1..minted'
  /\ roster \in [DOMAIN roster -> Visitor]
  /\ \A id \in DOMAIN units : roster[id] = units[id]

(* A part of a sequence without repetitions, from some place to its end.   *)
LEMMA RestOfLine ==
  ASSUME NEW T, NEW s \in Seq(T), NoRepeat(s), NEW stop \in 1..Len(s) + 1
  PROVE  LET rest == SubSeq(s, stop, Len(s))
         IN  /\ rest \in Seq(T) /\ NoRepeat(rest) /\ Len(rest) = Len(s) + 1 - stop
             /\ ToSet(rest) = {s[i] : i \in stop..Len(s)}
             /\ \A i \in DOMAIN rest : rest[i] = s[stop + i - 1]
<1> DEFINE n == Len(s)
           rest == SubSeq(s, stop, n)
<1>1. n \in Nat /\ stop \in 1..n + 1 /\ DOMAIN s = 1..n /\ \A i \in 1..n : s[i] \in T
  OBVIOUS
<1>2. /\ rest \in Seq(T) /\ Len(rest) = IF stop <= n THEN n - stop + 1 ELSE 0
      /\ \A i \in 1..n - stop + 1 : rest[i] = s[stop + i - 1]
  <2>1. \A i \in stop..n : s[i] \in T
    BY <1>1
  <2> QED BY <1>1, <2>1, SubSeqProperties
<1> HIDE DEF n, rest
<1>3. Len(rest) = n + 1 - stop /\ DOMAIN rest = 1..n + 1 - stop
  BY <1>1, <1>2
<1>4. \A i \in DOMAIN rest : rest[i] = s[stop + i - 1] /\ stop + i - 1 \in stop..n
  BY <1>1, <1>2, <1>3
<1>5. NoRepeat(rest)
  <2> SUFFICES ASSUME NEW i \in DOMAIN rest, NEW j \in DOMAIN rest, rest[i] = rest[j] PROVE i = j
    BY DEF NoRepeat
  <2>1. stop + i - 1 \in DOMAIN s /\ stop + j - 1 \in DOMAIN s /\ s[stop + i - 1] = s[stop + j - 1]
    BY <1>1, <1>4
  <2>2. stop + i - 1 = stop + j - 1
    BY <2>1 DEF NoRepeat
  <2> QED BY <1>1, <1>3, <2>2
<1>6. \A k \in stop..n : \E i \in DOMAIN rest : rest[i] = s[k]
  <2> TAKE k \in stop..n
  <2>1. k - stop + 1 \in DOMAIN rest /\ stop + (k - stop + 1) - 1 = k
    BY <1>1, <1>3
  <2> QED BY <1>4, <2>1
<1>7. ToSet(rest) = {s[i] : i \in stop..n}
  BY <1>4, <1>6 DEF ToSet
<1> QED BY <1>2, <1>3, <1>4, <1>5, <1>7 DEF n, rest

(* Two sequences that do not repeat and share nothing, end to end.         *)
LEMMA LineJoined ==
  ASSUME NEW T, NEW s \in Seq(T), NEW t \in Seq(T), NoRepeat(s), NoRepeat(t),
         ToSet(s) \cap ToSet(t) = {}
  PROVE  NoRepeat(s \o t)
<1> DEFINE n == Len(s)
           m == Len(t)
           u == s \o t
<1>1. /\ n \in Nat /\ m \in Nat /\ DOMAIN s = 1..n /\ DOMAIN t = 1..m /\ DOMAIN u = 1..n + m
      /\ \A i \in 1..n + m : u[i] = IF i <= n THEN s[i] ELSE t[i - n]
  BY ConcatProperties
<1> HIDE DEF n, m, u
<1>2. ASSUME NEW i \in DOMAIN u, NEW j \in DOMAIN u, u[i] = u[j] PROVE i = j
  <2>1. i \in 1..n + m /\ j \in 1..n + m
    BY <1>1
  <2>2. \A a \in DOMAIN s : s[a] \in ToSet(s)
    BY DEF ToSet
  <2>3. \A a \in DOMAIN t : t[a] \in ToSet(t)
    BY DEF ToSet
  <2>4. CASE i <= n /\ j <= n
    <3>1. i \in DOMAIN s /\ j \in DOMAIN s /\ s[i] = s[j]
      BY <1>1, <1>2, <2>1, <2>4
    <3> QED BY <3>1 DEF NoRepeat
  <2>5. CASE i > n /\ j > n
    <3>1. i - n \in DOMAIN t /\ j - n \in DOMAIN t /\ t[i - n] = t[j - n]
      BY <1>1, <1>2, <2>1, <2>5
    <3>2. i - n = j - n
      BY <3>1 DEF NoRepeat
    <3> QED BY <1>1, <2>1, <3>2
  <2>6. CASE i <= n /\ j > n
    <3>1. i \in DOMAIN s /\ j - n \in DOMAIN t /\ s[i] = t[j - n]
      BY <1>1, <1>2, <2>1, <2>6
    <3> QED BY <2>2, <2>3, <3>1
  <2>7. CASE i > n /\ j <= n
    <3>1. j \in DOMAIN s /\ i - n \in DOMAIN t /\ s[j] = t[i - n]
      BY <1>1, <1>2, <2>1, <2>7
    <3> QED BY <2>2, <2>3, <3>1
  <2> QED BY <1>1, <2>1, <2>4, <2>5, <2>6, <2>7
<1> QED BY <1>2 DEF NoRepeat, u

(* The roster order of some visitors.                                      *)
LEMMA InRosterOrder ==
  ASSUME NEW ids, ids \subseteq Ids
  PROVE  /\ Ascending(ids) \in Seq(Ids) /\ ToSet(Ascending(ids)) = ids
         /\ NoRepeat(Ascending(ids))
<1> DEFINE all == [id \in 1..MaxUnits |-> id]
           differ == {pair \in Ids \X Ids : pair[1] # pair[2]}
           sel == Selected(all, ids)
<1>1. all \in Seq(Ids) /\ DOMAIN all = Ids
  BY PipelineAssumption DEF Ids
<1>2. ToSet(all) = Ids
  BY DEF ToSet, Ids
<1>3. \A i, j \in DOMAIN all : i < j => <<all[i], all[j]>> \in differ
  BY <1>1 DEF Ids
<1> HIDE DEF all, differ
<1>4. sel \in Seq(Ids) /\ ToSet(sel) = ids
  <2>1. sel \in Seq(Ids) /\ ToSet(sel) = ToSet(all) \cap ids
    BY <1>1, SelectedSet
  <2> HIDE DEF sel
  <2> QED BY <1>2, <2>1
<1>5. \A i, j \in DOMAIN sel : i < j => <<sel[i], sel[j]>> \in differ
  BY <1>1, <1>3, SelectedInOrder
<1> HIDE DEF sel
<1>6. \A i, j \in DOMAIN sel : i < j => sel[i] # sel[j]
  BY <1>5 DEF differ
<1>7. NoRepeat(sel)
  <2>1. DOMAIN sel \subseteq Int
    BY <1>4
  <2> QED BY <1>6, <2>1 DEF NoRepeat
<1> QED BY <1>4, <1>7 DEF sel, all, Ascending

(* What a node keeps of its seats and what it lets go.                     *)
LEMMA Staying ==
  ASSUME BoardInv, NEW n \in Node, NEW now
  PROVE  /\ StayingAt(n, now) \in SUBSET Occupant /\ OneSeatEach(StayingAt(n, now))
         /\ SeatedIn(StayingAt(n, now)) \subseteq SeatedIn(seats[n])
         /\ SeatedIn(ReleasedAt(n, now)) \subseteq SeatedIn(seats[n])
         /\ SeatedIn(HeldAt(n, now)) \subseteq SeatedIn(StayingAt(n, now))
         /\ SeatedIn(StayingAt(n, now)) \cap SeatedIn(ReleasedAt(n, now)) = {}
<1> DEFINE stays == StayingAt(n, now)
           due == DueAt(n, now)
           held == HeldAt(n, now)
           free == ReleasedAt(n, now)
           Hold(seat) == [seat EXCEPT !.held = TRUE]
           From(seat, was) == (was \in held /\ seat = Hold(was)) \/ (was \notin due /\ seat = was)
<1>1. seats[n] \in SUBSET Occupant /\ OneSeatEach(seats[n])
  BY DEF BoardInv, BoardTyped, Once
<1>2. /\ due \subseteq seats[n] /\ held \subseteq due /\ free = due \ held
      /\ stays = (seats[n] \ due) \cup {Hold(seat) : seat \in held}
  BY DEF DueAt, HeldAt, ReleasedAt, StayingAt
<1> HIDE DEF stays, due, held, free
<1>3. \A seat \in seats[n] : Hold(seat) \in Occupant /\ Hold(seat).unit = seat.unit
  BY <1>1 DEF Occupant
<1> HIDE DEF Hold
<1>4. \A seat \in stays : \E was \in seats[n] \ free : From(seat, was)
  <2> TAKE seat \in stays
  <2>1. CASE seat \in seats[n] \ due
    <3>1. seat \in seats[n] \ free /\ From(seat, seat)
      BY <1>2, <2>1
    <3> QED BY <3>1
  <2>2. CASE seat \in {Hold(was) : was \in held}
    <3>1. PICK was \in held : seat = Hold(was)
      BY <2>2
    <3>2. was \in held /\ was \in seats[n] \ free
      BY <1>2, <3>1
    <3>3. From(seat, was)
      BY <3>1, <3>2
    <3> QED BY <3>2, <3>3
  <2> QED BY <1>2, <2>1, <2>2
<1>5. \A seat, was : was \in seats[n] /\ From(seat, was) => seat \in Occupant /\ seat.unit = was.unit
  BY <1>1, <1>3
<1>6. \A a, b, was : was \in seats[n] /\ From(a, was) /\ From(b, was) => a = b
  BY <1>2
<1> HIDE DEF From
<1>7. OneSeatEach(stays)
  <2> SUFFICES ASSUME NEW a \in stays, NEW b \in stays, a.unit = b.unit PROVE a = b
    BY DEF OneSeatEach
  <2>1. PICK p \in seats[n] : From(a, p)
    BY <1>4
  <2>2. PICK q \in seats[n] : From(b, q)
    BY <1>4
  <2>3. p = q
    BY <1>1, <1>5, <2>1, <2>2 DEF OneSeatEach
  <2> QED BY <1>6, <2>1, <2>2, <2>3
<1>8. SeatedIn(stays) \subseteq SeatedIn(seats[n] \ free)
  BY <1>4, <1>5 DEF SeatedIn
<1>9. SeatedIn(seats[n] \ free) \subseteq SeatedIn(seats[n]) /\ SeatedIn(free) \subseteq SeatedIn(seats[n])
  BY <1>2 DEF SeatedIn
<1>10. SeatedIn(seats[n] \ free) \cap SeatedIn(free) = {}
  <2> SUFFICES ASSUME NEW a \in seats[n] \ free, NEW b \in free, a.unit = b.unit PROVE FALSE
    BY DEF SeatedIn
  <2> QED BY <1>1, <1>2 DEF OneSeatEach
<1>11. SeatedIn(held) \subseteq SeatedIn(stays)
  <2> SUFFICES ASSUME NEW seat \in held PROVE seat.unit \in SeatedIn(stays)
    BY DEF SeatedIn
  <2>1. Hold(seat) \in stays /\ Hold(seat).unit = seat.unit
    BY <1>2, <1>3
  <2> QED BY <2>1 DEF SeatedIn
<1>12. stays \in SUBSET Occupant
  BY <1>4, <1>5
<1> QED BY <1>7, <1>8, <1>9, <1>10, <1>11, <1>12 DEF stays, free, held

(* The line of a node: who waited, then who joins.                         *)
LineOf(roster, n) == queue[n] \o JoinersOf(roster, n)

LEMMA Lining ==
  ASSUME BoardInv, NEW roster, Joined(roster), NEW n \in Node
  PROVE  /\ queue[n] \in Seq(Ids) /\ JoinersOf(roster, n) \in Seq(Ids)
         /\ LineOf(roster, n) \in Seq(Ids) /\ NoRepeat(LineOf(roster, n))
         /\ ToSet(LineOf(roster, n)) = ToSet(queue[n]) \cup ToSet(JoinersOf(roster, n))
         /\ ToSet(LineOf(roster, n)) \subseteq Hops(roster, n)
         /\ ToSet(LineOf(roster, n)) \cap SeatedIn(seats[n]) = {}
         /\ SeatedIn(seats[n]) \subseteq Hops(roster, n)
<1> DEFINE come == {id \in DOMAIN roster \ (Seated \cup Queued) :
                      roster[id].path # <<>> /\ roster[id].path[1] = n}
           J == JoinersOf(roster, n)
<1>1. /\ queue[n] \in Seq(Ids) /\ NoRepeat(queue[n]) /\ ToSet(queue[n]) \cap SeatedIn(seats[n]) = {}
      /\ ToSet(queue[n]) \cup SeatedIn(seats[n]) \subseteq Hops(units, n)
  BY DEF BoardInv, BoardTyped, AtHome, Once
<1>2. come \subseteq Ids /\ J = Ascending(come)
  <2>1. DOMAIN roster \subseteq Ids
    BY PipelineAssumption DEF Joined, Ids, BoardInv, BoardTyped
  <2> QED BY <2>1 DEF JoinersOf
<1>3. J \in Seq(Ids) /\ ToSet(J) = come /\ NoRepeat(J)
  BY <1>2, InRosterOrder
<1>4. Hops(units, n) \subseteq Hops(roster, n)
  BY DEF Hops, Joined
<1>5. come \subseteq Hops(roster, n) /\ come \cap ToSet(queue[n]) = {} /\ come \cap SeatedIn(seats[n]) = {}
  BY DEF Hops, Seated, Queued
<1> HIDE DEF come, J
<1>6. queue[n] \o J \in Seq(Ids) /\ ToSet(queue[n] \o J) = ToSet(queue[n]) \cup come
  BY <1>1, <1>3, SetOfConcat
<1>7. NoRepeat(queue[n] \o J)
  BY <1>1, <1>3, <1>5, LineJoined
<1> QED BY <1>1, <1>3, <1>4, <1>5, <1>6, <1>7 DEF J, LineOf

(* Admissions stop somewhere in the line or behind it.                     *)
LEMMA StopsInLine ==
  ASSUME NEW T, NEW line \in Seq(T), NEW roster, NEW n, NEW now, NEW regime
  PROVE  StopAt(roster, line, n, now, regime) \in 1..Len(line) + 1
<1> DEFINE places == {Len(line) + 1} \cup
                       {i \in DOMAIN line : /\ line[i] \in DOMAIN roster
                                            /\ Needed(roster, line, i) > RoomAt(n, now, regime)}
<1>1. Len(line) \in Nat /\ DOMAIN line = 1..Len(line)
  OBVIOUS
<1>2. places \in SUBSET Nat /\ places # {} /\ places \subseteq 1..Len(line) + 1
  BY <1>1
<1>3. StopAt(roster, line, n, now, regime) = IF n \in regime.fenced THEN 1 ELSE Min(places)
  BY DEF StopAt
<1> HIDE DEF places
<1>4. Min(places) \in places
  BY <1>2, LeastNatural DEF Min
<1>5. Min(places) \in 1..Len(line) + 1
  BY <1>2, <1>4
<1>6. 1 \in 1..Len(line) + 1
  BY <1>1
<1> QED BY <1>3, <1>5, <1>6

(* What the serve step does to a node.                                     *)
LineServed(roster, s, n, stop) ==
  /\ stop \in 1..Len(LineOf(roster, n)) + 1
  /\ s.admitted = {LineOf(roster, n)[i] : i \in 1..stop - 1}
  /\ \/ s.queue = <<>> /\ s.shed = SubSeq(LineOf(roster, n), stop, Len(LineOf(roster, n)))
     \/ s.shed = <<>> /\ s.queue = SubSeq(LineOf(roster, n), stop, Len(LineOf(roster, n)))

ServedWell(roster, s, n) ==
  /\ s.queue \in Seq(Ids) /\ NoRepeat(s.queue) /\ s.shed \in Seq(Ids)
  /\ s.seats \in SUBSET Occupant /\ OneSeatEach(s.seats)
  /\ ToSet(s.queue) \cup ToSet(s.shed) \subseteq Hops(roster, n)
  /\ SeatedIn(s.seats) \cup s.released \subseteq Hops(roster, n)
  /\ s.admitted \subseteq SeatedIn(s.seats) /\ s.held \subseteq SeatedIn(s.seats)
  /\ SeatedIn(s.seats) \subseteq s.admitted \cup SeatedIn(seats[n])
  /\ s.admitted \cap SeatedIn(seats[n]) = {}
  /\ (ToSet(s.queue) \cup ToSet(s.shed)) \cap (SeatedIn(s.seats) \cup s.released) = {}
  /\ ToSet(s.queue) \cap ToSet(s.shed) = {}
  /\ SeatedIn(s.seats) \cap s.released = {}
  /\ \E stop : LineServed(roster, s, n, stop)

LEMMA ServeFacts ==
  ASSUME BoardInv, NEW roster, Joined(roster), NEW n \in Node, NEW regime
  PROVE  ServedWell(roster, ServeNode(roster, n, tick + 1, regime), n)
<1> DEFINE now == tick + 1
           s == ServeNode(roster, n, now, regime)
           line == LineOf(roster, n)
           stop == StopAt(roster, line, n, now, regime)
           admitted == {line[i] : i \in {j \in 1..stop - 1 : line[j] \in DOMAIN roster}}
           rest == SubSeq(line, stop, Len(line))
           stays == StayingAt(n, now)
           NewSeat(id) == [unit |-> id, size |-> roster[id].size, until |-> now + ServiceTicks[n], held |-> FALSE]
           taken == {NewSeat(id) : id \in admitted}
           sheds == n \in regime.dropped \cup HardCeiling
<1>1. /\ line \in Seq(Ids) /\ NoRepeat(line)
      /\ ToSet(line) \subseteq Hops(roster, n) /\ ToSet(line) \cap SeatedIn(seats[n]) = {}
      /\ SeatedIn(seats[n]) \subseteq Hops(roster, n)
  BY Lining
<1>2. /\ s.released = SeatedIn(ReleasedAt(n, now)) /\ s.held = SeatedIn(HeldAt(n, now))
      /\ s.admitted = admitted /\ s.seats = stays \cup taken
      /\ s.shed = (IF sheds THEN rest ELSE <<>>) /\ s.queue = (IF sheds THEN <<>> ELSE rest)
  BY DEF ServeNode, LineOf
<1>3. stop \in 1..Len(line) + 1
  BY <1>1, StopsInLine
<1>4. Len(line) \in Nat /\ DOMAIN line = 1..Len(line) /\ Hops(roster, n) \subseteq DOMAIN roster
  BY <1>1 DEF Hops
<1> HIDE DEF s, line, stop, rest, stays, sheds
<1>5. \A i \in DOMAIN line : line[i] \in ToSet(line) /\ line[i] \in DOMAIN roster
  BY <1>1, <1>4 DEF ToSet
<1>6. admitted = {line[i] : i \in 1..stop - 1}
  <2>1. \A j \in 1..stop - 1 : j \in DOMAIN line
    BY <1>3, <1>4
  <2> QED BY <1>5, <2>1
<1>7. /\ rest \in Seq(Ids) /\ NoRepeat(rest) /\ ToSet(rest) = {line[i] : i \in stop..Len(line)}
  BY <1>1, <1>3, RestOfLine DEF rest
<1>8. admitted \subseteq ToSet(line) /\ ToSet(rest) \subseteq ToSet(line)
  <2>1. \A i \in stop..Len(line) : i \in DOMAIN line
    BY <1>3, <1>4
  <2> QED BY <1>5, <1>3, <1>4, <1>7, <2>1
<1>9. admitted \cap ToSet(rest) = {}
  <2> SUFFICES ASSUME NEW i \in 1..stop - 1, NEW j \in stop..Len(line), line[i] = line[j] PROVE FALSE
    BY <1>6, <1>7
  <2>1. i \in DOMAIN line /\ j \in DOMAIN line /\ i # j
    BY <1>3, <1>4
  <2> QED BY <1>1, <2>1 DEF NoRepeat
<1>10. /\ stays \in SUBSET Occupant /\ OneSeatEach(stays)
       /\ SeatedIn(stays) \subseteq SeatedIn(seats[n])
       /\ SeatedIn(ReleasedAt(n, now)) \subseteq SeatedIn(seats[n])
       /\ SeatedIn(HeldAt(n, now)) \subseteq SeatedIn(stays)
       /\ SeatedIn(stays) \cap SeatedIn(ReleasedAt(n, now)) = {}
  BY Staying DEF stays
<1>11. \A id \in admitted : NewSeat(id) \in Occupant /\ NewSeat(id).unit = id
  <2> TAKE id \in admitted
  <2>1. id \in Ids /\ id \in DOMAIN roster
    BY <1>1, <1>4, <1>8 DEF ToSet
  <2>2. roster[id].size \in Nat \ {0}
    BY <2>1 DEF Joined, Visitor
  <2>3. now + ServiceTicks[n] \in Int
    BY PipelineAssumption DEF BoardInv, BoardTyped
  <2> QED BY <2>1, <2>2, <2>3 DEF Occupant
<1> HIDE DEF NewSeat, admitted
<1>12. SeatedIn(taken) = admitted
  BY <1>11 DEF SeatedIn
<1>13. OneSeatEach(taken)
  BY <1>11 DEF OneSeatEach
<1>14. SeatedIn(stays \cup taken) = SeatedIn(stays) \cup admitted
  BY <1>12 DEF SeatedIn
<1>15. admitted \cap SeatedIn(seats[n]) = {}
  BY <1>1, <1>8
<1>16. OneSeatEach(stays \cup taken)
  <2> HIDE DEF taken
  <2> SUFFICES ASSUME NEW a \in stays \cup taken, NEW b \in stays \cup taken, a.unit = b.unit PROVE a = b
    BY DEF OneSeatEach
  <2>1. (a \in stays => a.unit \in SeatedIn(stays)) /\ (b \in stays => b.unit \in SeatedIn(stays))
    BY DEF SeatedIn
  <2>2. (a \in taken => a.unit \in admitted) /\ (b \in taken => b.unit \in admitted)
    BY <1>12 DEF SeatedIn
  <2>3. SeatedIn(stays) \cap admitted = {}
    BY <1>10, <1>15
  <2> QED BY <1>10, <1>13, <2>1, <2>2, <2>3 DEF OneSeatEach
<1>17. stays \cup taken \in SUBSET Occupant
  BY <1>10, <1>11
<1> HIDE DEF taken
<1>18. LineServed(roster, s, n, stop)
  BY <1>2, <1>3, <1>6 DEF LineServed, line, rest
<1>19. ToSet(<<>>) = {} /\ NoRepeat(<<>>) /\ <<>> \in Seq(Ids)
  BY DEF ToSet, NoRepeat
<1>20. /\ s.queue \in Seq(Ids) /\ NoRepeat(s.queue) /\ s.shed \in Seq(Ids)
       /\ ToSet(s.queue) \cup ToSet(s.shed) = ToSet(rest) /\ ToSet(s.queue) \cap ToSet(s.shed) = {}
  BY <1>2, <1>7, <1>19
<1>21. \E a : LineServed(roster, s, n, a)
  BY <1>18
<1>22. SeatedIn(s.seats) = SeatedIn(stays) \cup admitted /\ s.seats \in SUBSET Occupant /\ OneSeatEach(s.seats)
  BY <1>2, <1>14, <1>16, <1>17
<1>23. ToSet(rest) \subseteq Hops(roster, n) /\ ToSet(rest) \cap SeatedIn(seats[n]) = {}
  BY <1>1, <1>8
<1>24. SeatedIn(s.seats) \cup s.released \subseteq Hops(roster, n)
  BY <1>1, <1>2, <1>8, <1>10, <1>22
<1>25. ToSet(rest) \cap (SeatedIn(s.seats) \cup s.released) = {}
  BY <1>2, <1>9, <1>10, <1>22, <1>23
<1>26. SeatedIn(s.seats) \cap s.released = {}
  BY <1>2, <1>10, <1>15, <1>22
<1>27. /\ s.admitted \subseteq SeatedIn(s.seats) /\ s.held \subseteq SeatedIn(s.seats)
       /\ SeatedIn(s.seats) \subseteq s.admitted \cup SeatedIn(seats[n])
       /\ s.admitted \cap SeatedIn(seats[n]) = {}
  BY <1>2, <1>10, <1>15, <1>22
<1> QED BY <1>20, <1>21, <1>22, <1>23, <1>24, <1>25, <1>26, <1>27 DEF ServedWell, s

(* The first k of a sequence without repetitions are k.                    *)
LEMMA FirstAreMany ==
  ASSUME NEW T, NEW s \in Seq(T), NoRepeat(s), NEW k \in 0..Len(s)
  PROVE  Cardinality({s[i] : i \in 1..k}) = k
<1> DEFINE first == {s[i] : i \in 1..k}
           f == [i \in 1..k |-> s[i]]
<1>1. k \in Nat /\ DOMAIN s = 1..Len(s) /\ 1..k \subseteq DOMAIN s
  OBVIOUS
<1>2. f \in [1..k -> first] /\ \A y \in first : \E i \in 1..k : f[i] = y
  OBVIOUS
<1>3. \A i, j \in 1..k : f[i] = f[j] => i = j
  BY <1>1 DEF NoRepeat
<1> HIDE DEF f, first
<1>4. f \in Bijection(1..k, first)
  BY <1>2, <1>3 DEF Bijection, Injection, Surjection, IsInjective
<1>5. IsFiniteSet(1..k) /\ Cardinality(1..k) = k
  BY <1>1, FS_Interval
<1>6. ExistsBijection(1..k, first)
  BY <1>4 DEF ExistsBijection
<1>7. Cardinality(first) = Cardinality(1..k)
  BY <1>5, <1>6, FS_Bijection
<1> QED BY <1>5, <1>7 DEF first

(* What the index says of a queue it has seen.                             *)
IndexTyped == member \in [Ids -> SUBSET Node] /\ signature \in [Node -> [len : Int, head : Nat]]

Seen(n) == signature[n] = SignatureOf(queue[n]) /\ \A id \in ToSet(queue[n]) : n \in member[id]

(* Whoever waits after the serve step is attributed to its node: who       *)
(* waited before is known, and the arithmetic of the lengths finds exactly *)
(* the joiners.                                                            *)
LEMMA WaitersAreKnown ==
  ASSUME BoardInv, IndexTyped, NEW roster, Joined(roster), NEW served, NEW n \in Node,
         ServedWell(roster, served[n], n),
         signature[n] = NoSignature \/ Seen(n)
  PROVE  \A id \in ToSet(served[n].queue) : n \in Attributed(roster, served)[id]
<1> DEFINE s == served[n]
           q == s.queue
           line == LineOf(roster, n)
           J == JoinersOf(roster, n)
           before == Len(queue[n])
<1>1. PICK stop : LineServed(roster, s, n, stop)
  BY DEF ServedWell
<1>2. /\ queue[n] \in Seq(Ids) /\ J \in Seq(Ids) /\ line \in Seq(Ids) /\ NoRepeat(line)
      /\ ToSet(line) \cap SeatedIn(seats[n]) = {}
  BY Lining
<1>3. q \in Seq(Ids) /\ ToSet(q) \cap s.released = {}
  BY DEF ServedWell
<1>4. \A id \in ToSet(q) : id \in DOMAIN member
  BY <1>3 DEF IndexTyped, ToSet
<1>5. \A id \in DOMAIN member : id \in TailSeen(served, n) => n \in Attributed(roster, served)[id]
  BY DEF Attributed, SeenAt
<1>6. \A id \in DOMAIN member : n \in member[id] /\ id \notin s.released => n \in Attributed(roster, served)[id]
  BY DEF Attributed, ByAssignments
<1>7. CASE TailSeen(served, n) = ToSet(q)
  BY <1>4, <1>5, <1>7
<1>8. CASE TailSeen(served, n) # ToSet(q)
  <2> DEFINE joins == Joins(served, n)
  <2>1. signature[n] # NoSignature /\ TailSeen(served, n) = {q[i] : i \in {j \in DOMAIN q : j > Len(q) - joins}}
    BY <1>8 DEF TailSeen
  <2>2. Seen(n) /\ signature[n].len = before
    BY <2>1 DEF Seen, SignatureOf
  <2>3. q # <<>>
    <3>1. q = <<>> => {q[i] : i \in {j \in DOMAIN q : j > Len(q) - joins}} = {} /\ ToSet(q) = {}
      BY DEF ToSet
    <3> QED BY <1>8, <2>1, <3>1
  <2>4. /\ stop \in 1..Len(line) + 1 /\ s.admitted = {line[i] : i \in 1..stop - 1}
        /\ q = SubSeq(line, stop, Len(line))
    BY <1>1, <2>3 DEF LineServed
  <2>5. /\ before \in Nat /\ Len(J) \in Nat /\ Len(line) = before + Len(J)
        /\ \A i \in 1..before : line[i] = queue[n][i]
    BY <1>2, ConcatProperties DEF LineOf
  <2>6. Len(q) = Len(line) + 1 - stop /\ \A i \in DOMAIN q : q[i] = line[stop + i - 1]
    BY <1>2, <2>4, RestOfLine
  <2>7. Cardinality(s.admitted) = stop - 1
    <3>1. stop - 1 \in 0..Len(line)
      BY <1>2, <2>4, <2>5
    <3> QED BY <1>2, <2>4, <3>1, FirstAreMany
  <2>8. joins = Len(q) - before + (stop - 1)
    BY <2>2, <2>7 DEF Joins
  <2> HIDE DEF joins, line, J, before, q, s
  <2>9. Len(q) - joins = before + 1 - stop /\ DOMAIN q = 1..Len(q) /\ stop \in Nat /\ Len(q) \in Nat
    <3>1. DOMAIN q = 1..Len(q) /\ Len(q) \in Nat
      BY <1>3
    <3>2. Len(line) \in Nat /\ stop \in Nat
      BY <1>2, <2>4
    <3> QED BY <2>5, <2>6, <2>8, <3>1, <3>2
  <2>10. ASSUME NEW i \in DOMAIN q PROVE n \in Attributed(roster, served)[q[i]]
    <3>1. q[i] \in ToSet(q)
      BY DEF ToSet
    <3>2. CASE i > Len(q) - joins
      <4>1. q[i] \in TailSeen(served, n)
        BY <2>1, <3>2
      <4> QED BY <1>4, <1>5, <3>1, <4>1
    <3>3. CASE ~(i > Len(q) - joins)
      <4>1. stop + i - 1 \in 1..before
        BY <2>4, <2>5, <2>9, <3>3
      <4>2. q[i] = queue[n][stop + i - 1]
        BY <2>5, <2>6, <4>1
      <4>3. q[i] \in ToSet(queue[n])
        BY <1>2, <4>1, <4>2 DEF ToSet, before
      <4> QED BY <1>3, <1>4, <1>6, <2>2, <3>1, <4>3 DEF Seen
    <3> QED BY <3>2, <3>3
  <2> QED BY <2>10 DEF ToSet, q, s
<1> QED BY <1>7, <1>8

(* Who leaves the roster in a tick.                                        *)
Doomed(roster, served, impatient, blocked) ==
  Refused(served, impatient, blocked) \cup Completed(roster, served)

AllServed(roster, served) == \A n \in Node : ServedWell(roster, served[n], n)

Dice(roster, served, impatient, blocked) ==
  /\ impatient \subseteq WaitingIn(served) \cup {id \in DOMAIN roster : roster[id].path = <<>>}
  /\ blocked \subseteq AdmittedIn(served)

(* They are in the roster, and those of them that are still on the board   *)
(* wait, or were admitted in this tick, at the node where they are found.  *)
LEMMA DoomedOnBoard ==
  ASSUME NEW roster, NEW served, AllServed(roster, served),
         NEW impatient, NEW blocked, Dice(roster, served, impatient, blocked)
  PROVE  /\ Doomed(roster, served, impatient, blocked) \subseteq DOMAIN roster
         /\ \A n \in Node : \A id \in Doomed(roster, served, impatient, blocked) :
              id \in SeatedIn(served[n].seats) => id \in served[n].admitted
<1> DEFINE doomed == Doomed(roster, served, impatient, blocked)
<1>1. \A m \in Node : /\ ToSet(served[m].queue) \cup ToSet(served[m].shed) \subseteq Hops(roster, m)
                      /\ SeatedIn(served[m].seats) \cup served[m].released \subseteq Hops(roster, m)
                      /\ served[m].admitted \subseteq SeatedIn(served[m].seats)
                      /\ (ToSet(served[m].queue) \cup ToSet(served[m].shed))
                           \cap (SeatedIn(served[m].seats) \cup served[m].released) = {}
                      /\ SeatedIn(served[m].seats) \cap served[m].released = {}
  BY DEF AllServed, ServedWell
<1>2. \A m \in Node : Hops(roster, m) \subseteq DOMAIN roster
  BY DEF Hops
<1>3. \A m, n \in Node : m = n \/ Hops(roster, m) \cap Hops(roster, n) = {}
  BY DEF Hops
<1>4. \A m \in Node : \A id \in Hops(roster, m) : roster[id].path # <<>> /\ roster[id].path[1] = m
  BY DEF Hops
<1>5. Completed(roster, served) \subseteq DOMAIN roster
  BY DEF Completed
<1>6. ShedIn(served) \subseteq DOMAIN roster /\ impatient \subseteq DOMAIN roster /\ blocked \subseteq DOMAIN roster
  BY <1>1, <1>2 DEF ShedIn, WaitingIn, AdmittedIn, Dice
<1>7. ASSUME NEW n \in Node, NEW id \in doomed, id \in SeatedIn(served[n].seats)
      PROVE  id \in served[n].admitted
  <2>1. id \in Hops(roster, n)
    BY <1>1, <1>7
  <2>2. id \notin ShedIn(served)
    <3> SUFFICES ASSUME NEW m \in Node, id \in ToSet(served[m].shed) PROVE FALSE
      BY DEF ShedIn
    <3>1. m = n
      BY <1>1, <1>3, <2>1
    <3> QED BY <1>1, <1>7, <3>1
  <2>3. id \notin impatient
    <3> SUFFICES ASSUME id \in impatient PROVE FALSE
      OBVIOUS
    <3>1. CASE id \in WaitingIn(served)
      <4>1. PICK m \in Node : id \in ToSet(served[m].queue)
        BY <3>1 DEF WaitingIn
      <4>2. m = n
        BY <1>1, <1>3, <2>1, <4>1
      <4> QED BY <1>1, <1>7, <4>1, <4>2
    <3>2. CASE roster[id].path = <<>>
      BY <1>4, <2>1, <3>2
    <3> QED BY <3>1, <3>2 DEF Dice
  <2>4. id \notin Completed(roster, served)
    <3> SUFFICES ASSUME id \in Completed(roster, served) PROVE FALSE
      OBVIOUS
    <3>1. id \in DOMAIN roster /\ roster[id].path # <<>> /\ roster[id].path[1] = n
      BY <1>2, <1>4, <2>1
    <3>2. id \notin served[n].released
      BY <1>1, <1>7
    <3>3. Progress(roster, served)[id] = roster[id]
      BY <3>1, <3>2 DEF Progress
    <3> QED BY <3>1, <3>3 DEF Completed
  <2>5. id \in blocked
    BY <2>2, <2>3, <2>4 DEF Doomed, Refused
  <2>6. PICK m \in Node : id \in served[m].admitted
    BY <2>5 DEF Dice, AdmittedIn
  <2>7. m = n
    BY <1>1, <1>3, <2>1, <2>6
  <2> QED BY <2>6, <2>7
<1> QED BY <1>5, <1>6, <1>7 DEF Doomed, Refused

(* What a purge leaves of a node: the same queue and seats without those   *)
(* who are gone.                                                           *)
LeftWell(left, s, gone) ==
  /\ left.queue \in Seq(Ids) /\ NoRepeat(left.queue)
  /\ ToSet(left.queue) = ToSet(s.queue) \ gone
  /\ left.seats \in SUBSET Occupant /\ OneSeatEach(left.seats)
  /\ SeatedIn(left.seats) = SeatedIn(s.seats) \ gone

(* Purging a node takes out of it exactly those who are done.              *)
LEMMA PurgedNode ==
  ASSUME NEW roster, NEW served, NEW n \in Node, ServedWell(roster, served[n], n), NEW doomed
  PROVE  LeftWell(PurgeNode(n, served, doomed), served[n], doomed)
<1> DEFINE left == PurgeNode(n, served, doomed)
           q == served[n].queue
           occupied == served[n].seats
           Drop(seat) == [seat EXCEPT !.held = FALSE]
           open == ReleaseOrphanHolds(n, occupied)
           differ == {pair \in Ids \X Ids : pair[1] # pair[2]}
<1>1. q \in Seq(Ids) /\ NoRepeat(q) /\ occupied \in SUBSET Occupant /\ OneSeatEach(occupied)
  BY DEF ServedWell
<1>2. left.queue = Selected(q, ToSet(q) \ doomed) /\ left.seats = {seat \in open : seat.unit \notin doomed}
  BY DEF PurgeNode
<1>3. open = occupied \/ open = {Drop(seat) : seat \in occupied}
  BY DEF ReleaseOrphanHolds
<1> HIDE DEF left, q, occupied, open
<1>4. left.queue \in Seq(Ids) /\ ToSet(left.queue) = ToSet(q) \ doomed
  BY <1>1, <1>2, SelectedSet
<1>5. NoRepeat(left.queue)
  <2>1. \A i, j \in DOMAIN q : i < j => <<q[i], q[j]>> \in differ
    BY <1>1 DEF NoRepeat
  <2> HIDE DEF differ
  <2>2. \A i, j \in DOMAIN left.queue : i < j => <<left.queue[i], left.queue[j]>> \in differ
    BY <1>1, <1>2, <2>1, SelectedInOrder
  <2>3. \A i, j \in DOMAIN left.queue : i < j => left.queue[i] # left.queue[j]
    BY <2>2 DEF differ
  <2>4. DOMAIN left.queue \subseteq Int
    BY <1>4
  <2> QED BY <2>3, <2>4 DEF NoRepeat
<1>6. \A seat \in occupied : Drop(seat) \in Occupant /\ Drop(seat).unit = seat.unit
  BY <1>1 DEF Occupant
<1> HIDE DEF Drop
<1>7. open \in SUBSET Occupant /\ OneSeatEach(open) /\ SeatedIn(open) = SeatedIn(occupied)
  <2>1. CASE open = occupied
    BY <1>1, <2>1
  <2>2. CASE open = {Drop(seat) : seat \in occupied}
    <3>1. open \in SUBSET Occupant
      BY <1>6, <2>2
    <3>2. OneSeatEach(open)
      <4> SUFFICES ASSUME NEW a \in occupied, NEW b \in occupied, Drop(a).unit = Drop(b).unit
                   PROVE  Drop(a) = Drop(b)
        BY <2>2 DEF OneSeatEach
      <4>1. a = b
        BY <1>1, <1>6 DEF OneSeatEach
      <4> QED BY <4>1
    <3>3. SeatedIn(open) = SeatedIn(occupied)
      BY <1>6, <2>2 DEF SeatedIn
    <3> QED BY <3>1, <3>2, <3>3
  <2> QED BY <1>3, <2>1, <2>2
<1>8. left.seats \in SUBSET Occupant /\ OneSeatEach(left.seats)
  BY <1>2, <1>7 DEF OneSeatEach
<1>9. SeatedIn(left.seats) = SeatedIn(occupied) \ doomed
  BY <1>2, <1>7 DEF SeatedIn
<1> QED BY <1>4, <1>5, <1>8, <1>9 DEF left, q, occupied, LeftWell

(* A node of an indexed or empty board is either one the driver has not    *)
(* looked at yet, or its queue is as the driver saw it and who waits there *)
(* is known.                                                               *)
Unseen(n) == signature[n] = NoSignature /\ (~eyes.seenFirst \/ queue[n] = <<>>)

IndexInv ==
  /\ IndexTyped
  /\ indexed \/ DOMAIN units = {} => \A n \in Node : Unseen(n) \/ Seen(n)

(* A purge removes whoever leaves the roster from wherever it is, although *)
(* it may walk only the nodes the index names.                             *)
Purged(served, doomed) ==
  /\ queue' \in [Node -> Seq(Ids)] /\ seats' \in [Node -> SUBSET Occupant]
  /\ \A n \in Node : /\ NoRepeat(queue'[n]) /\ ToSet(queue'[n]) = ToSet(served[n].queue) \ doomed
                     /\ OneSeatEach(seats'[n])
                     /\ SeatedIn(seats'[n]) = SeatedIn(served[n].seats) \ doomed

LEMMA PurgeCleans ==
  ASSUME BoardInv, IndexInv, NEW roster, Joined(roster), NEW served, AllServed(roster, served),
         NEW impatient, NEW blocked, Dice(roster, served, impatient, blocked),
         Purge(roster, served, Doomed(roster, served, impatient, blocked))
  PROVE  Purged(served, Doomed(roster, served, impatient, blocked))
<1> DEFINE doomed == Doomed(roster, served, impatient, blocked)
           known == IF indexed THEN Attributed(roster, served) ELSE member
           sweep == SweepsBoard(known, doomed, indexed /\ Contradiction(roster, served, known))
           walked == IF doomed = {} THEN {} ELSE IF sweep THEN Node ELSE ProbeOf(known, doomed)
           Gone(n) == IF n \in walked THEN doomed ELSE {}
           Left(n) == PurgeNode(n, served, Gone(n))
<1>1. /\ queue' = [n \in Node |-> Left(n).queue] /\ seats' = [n \in Node |-> Left(n).seats]
  BY DEF Purge
<1>2. /\ doomed \subseteq DOMAIN roster
      /\ \A n \in Node : \A id \in doomed : id \in SeatedIn(served[n].seats) => id \in served[n].admitted
  BY DoomedOnBoard
<1>3. ~indexed => sweep
  BY DEF SweepsBoard
<1>4. DOMAIN roster \subseteq Ids
  BY PipelineAssumption DEF Joined, Ids, BoardInv, BoardTyped
<1> HIDE DEF doomed, sweep
<1>5. ASSUME NEW n \in Node, NEW id \in doomed,
             id \in ToSet(served[n].queue) \/ id \in SeatedIn(served[n].seats)
      PROVE  n \in walked
  <2>1. CASE sweep
    BY <2>1
  <2>2. CASE ~sweep
    <3>1. indexed /\ known = Attributed(roster, served) /\ walked = ProbeOf(known, doomed)
      BY <1>3, <2>2
    <3>2. n \in known[id]
      <4>1. CASE id \in ToSet(served[n].queue)
        <5>1. signature[n] = NoSignature \/ Seen(n)
          BY <3>1 DEF IndexInv, Unseen
        <5> QED BY <3>1, <4>1, <5>1, WaitersAreKnown DEF IndexInv, AllServed
      <4>2. CASE id \in SeatedIn(served[n].seats)
        <5>1. id \in served[n].admitted /\ id \in DOMAIN member
          BY <1>2, <1>4, <4>2 DEF IndexInv, IndexTyped
        <5>2. n \in ByAssignments(served)[id]
          BY <5>1 DEF ByAssignments
        <5> QED BY <3>1, <5>1, <5>2 DEF Attributed
      <4> QED BY <1>5, <4>1, <4>2
    <3> QED BY <3>1, <3>2 DEF ProbeOf
  <2> QED BY <2>1, <2>2
<1> HIDE DEF walked
<1>6. ASSUME NEW n \in Node
      PROVE  LeftWell(Left(n), served[n], doomed)
  <2>1. LeftWell(Left(n), served[n], Gone(n))
    <3>1. ServedWell(roster, served[n], n)
      BY DEF AllServed
    <3> HIDE DEF Gone
    <3> QED BY <3>1, PurgedNode
  <2>2. \A id \in doomed : (id \in ToSet(served[n].queue) \/ id \in SeatedIn(served[n].seats)) => id \in Gone(n)
    BY <1>5
  <2>3. Gone(n) \subseteq doomed
    OBVIOUS
  <2> HIDE DEF Left, Gone
  <2>4. ToSet(served[n].queue) \ Gone(n) = ToSet(served[n].queue) \ doomed
    BY <2>2, <2>3
  <2>5. SeatedIn(served[n].seats) \ Gone(n) = SeatedIn(served[n].seats) \ doomed
    BY <2>2, <2>3
  <2> QED BY <2>1, <2>4, <2>5 DEF LeftWell
<1> HIDE DEF Left
<1>7. queue' \in [Node -> Seq(Ids)] /\ seats' \in [Node -> SUBSET Occupant]
  BY <1>1, <1>6 DEF LeftWell
<1> QED BY <1>1, <1>6, <1>7 DEF Purged, LeftWell, doomed

-----------------------------------------------------------------------------
(* An entry of the re-entry schedule, and who may be on it together.       *)
EntryOK(entry, upto) ==
  /\ entry.size \in Nat \ {0} /\ entry.retryOf \in Nat /\ entry.first \in 0..upto
  /\ entry.retryOf = 0 <=> entry.first = 0
  /\ entry.attempt \in 0..MaxRetries /\ entry.retryDepth = entry.attempt

Clash(a, b) == a.first = b.first /\ a.first # 0
NoClash(line) == \A i, j \in DOMAIN line : Clash(line[i], line[j]) => i = j

(* The attempts of one original visitor: the depth table holds how many    *)
(* there were, and one attempt is under way or scheduled, not both.        *)
Chained(roster, depths, line, upto) ==
  /\ depths \in [Ids -> Nat] /\ \A id \in Ids : id > upto => depths[id] = 0
  /\ \A id \in DOMAIN roster : /\ roster[id].attempt = depths[id] /\ depths[id] <= MaxRetries
                               /\ roster[id].first <= upto
  /\ \A a, b \in DOMAIN roster : roster[a].first = roster[b].first => a = b
  /\ line \in Seq(ToSet(line)) /\ NoClash(line)
  /\ \A entry \in ToSet(line) : /\ EntryOK(entry, upto)
                                /\ \A id \in DOMAIN roster : entry.first # roster[id].first

ChainInv == Chained(units, depth, pending, minted)

(* A part of the schedule has entries of the schedule, and no new clash.   *)
LEMMA PartOfSchedule ==
  ASSUME NEW line, line \in Seq(ToSet(line)), NoClash(line), NEW keep
  PROVE  /\ Selected(line, keep) \in Seq(ToSet(line))
         /\ ToSet(Selected(line, keep)) = ToSet(line) \cap keep
         /\ NoClash(Selected(line, keep))
<1> DEFINE S == ToSet(line)
           part == Selected(line, keep)
           apart == {pair \in S \X S : ~Clash(pair[1], pair[2])}
<1>1. part \in Seq(S) /\ ToSet(part) = S \cap keep
  BY SelectedSet
<1>2. \A i, j \in DOMAIN line : i < j => <<line[i], line[j]>> \in apart
  <2>1. \A i \in DOMAIN line : line[i] \in S /\ i \in Int
    BY DEF ToSet
  <2>2. \A i, j \in DOMAIN line : i < j => ~Clash(line[i], line[j])
    <3>1. \A i, j \in DOMAIN line : i < j => i # j
      BY <2>1
    <3> QED BY <3>1 DEF NoClash
  <2> HIDE DEF S
  <2> QED BY <2>1, <2>2
<1> HIDE DEF apart, S, part
<1>3. \A i, j \in DOMAIN part : i < j => <<part[i], part[j]>> \in apart
  BY <1>2, SelectedInOrder DEF S, part
<1>4. \A i, j \in DOMAIN part : i < j => ~Clash(part[i], part[j])
  BY <1>3 DEF apart
<1>5. DOMAIN part \subseteq Int
  BY <1>1
<1>6. \A i, j \in DOMAIN part : Clash(part[i], part[j]) => Clash(part[j], part[i])
  BY DEF Clash
<1>7. NoClash(part)
  <2> SUFFICES ASSUME NEW i \in DOMAIN part, NEW j \in DOMAIN part, Clash(part[i], part[j]), i # j PROVE FALSE
    BY DEF NoClash
  <2>1. i < j \/ j < i
    BY <1>5
  <2> QED BY <1>4, <1>6, <2>1
<1> QED BY <1>1, <1>7 DEF part, S

(* Who comes: a new visitor or none, then the matured re-entries.          *)
Coming(news, matured, paths) ==
  [i \in 1..Len(news) |-> Arrival(news[i], minted + i)] \o
  [i \in DOMAIN matured |-> Reentry(matured[i], paths[i], minted + Len(news) + i)]

ComesAs(fresh, news, matured, paths) ==
  /\ Len(news) \in Nat /\ Len(matured) \in Nat /\ DOMAIN matured = 1..Len(matured)
  /\ Len(fresh) = Len(news) + Len(matured) /\ fresh \in Seq(Visitor)
  /\ \A i \in 1..Len(news) : fresh[i] = Arrival(news[i], minted + i)
  /\ \A i \in 1..Len(matured) :
       fresh[Len(news) + i] = Reentry(matured[i], paths[i], minted + Len(news) + i)

(* They are visitors, in that order.                                       *)
LEMMA ComingFacts ==
  ASSUME BoardTyped, ChainInv,
         NEW news \in {<<>>} \cup {<<kind>> : kind \in Kinds}, NEW matured, matured = Ready(tick + 1),
         NEW paths \in [DOMAIN matured -> Paths],
         minted + Len(Coming(news, matured, paths)) <= MaxUnits
  PROVE  ComesAs(Coming(news, matured, paths), news, matured, paths)
<1> DEFINE New(i) == Arrival(news[i], minted + i)
           Again(i) == Reentry(matured[i], paths[i], minted + Len(news) + i)
           f == [i \in 1..Len(news) |-> New(i)]
           g == [i \in DOMAIN matured |-> Again(i)]
           T == {f[i] : i \in DOMAIN f} \cup {g[i] : i \in DOMAIN g}
           u == Coming(news, matured, paths)
<1>1. Len(news) \in Nat /\ \A i \in 1..Len(news) : news[i] \in Kinds
  OBVIOUS
<1>2. matured \in Seq(ToSet(pending)) /\ ToSet(matured) \subseteq ToSet(pending)
  BY PartOfSchedule DEF Ready, ChainInv, Chained
<1>3. Len(matured) \in Nat /\ DOMAIN matured = 1..Len(matured) /\ \A i \in DOMAIN matured : matured[i] \in ToSet(pending)
  BY <1>2
<1>4. f \in Seq(T) /\ Len(f) = Len(news) /\ g \in Seq(T) /\ Len(g) = Len(matured)
  <2>1. f \in [1..Len(news) -> T] /\ g \in [1..Len(matured) -> T]
    BY <1>3
  <2> HIDE DEF f, g, T
  <2> QED BY <1>1, <1>3, <2>1
<1>5. u = f \o g
  BY DEF Coming
<1>6. \A i \in 1..Len(news) : f[i] = New(i)
  OBVIOUS
<1>7. \A i \in 1..Len(matured) : g[i] = Again(i)
  BY <1>3
<1> HIDE DEF f, g, T, New, Again, u
<1>8. Len(u) = Len(news) + Len(matured) /\ u \in Seq(T) /\ DOMAIN u = 1..Len(news) + Len(matured)
  <2>1. u \in Seq(T) /\ Len(u) = Len(f) + Len(g)
    BY <1>4, <1>5, ConcatProperties
  <2>2. DOMAIN u = 1..Len(u)
    BY <2>1
  <2> QED BY <1>4, <2>1, <2>2
<1>9. \A i \in 1..Len(news) + Len(matured) : u[i] = IF i <= Len(news) THEN f[i] ELSE g[i - Len(news)]
  BY <1>4, <1>5, ConcatProperties
<1>10. \A i \in 1..Len(news) : u[i] = New(i)
  BY <1>1, <1>3, <1>6, <1>9
<1>11. \A i \in 1..Len(matured) : u[Len(news) + i] = Again(i)
  <2> TAKE i \in 1..Len(matured)
  <2>1. Len(news) + i \in 1..Len(news) + Len(matured) /\ ~(Len(news) + i <= Len(news)) /\ Len(news) + i - Len(news) = i
    BY <1>1, <1>3
  <2> QED BY <1>7, <1>9, <2>1
<1>12. minted \in Nat /\ MaxUnits \in Nat /\ minted + Len(news) + Len(matured) <= MaxUnits
  BY <1>1, <1>3, <1>8, PipelineAssumption DEF BoardTyped, u
<1>13. ASSUME NEW i \in 1..Len(news) PROVE u[i] \in Visitor
  <2>1. minted + i \in Ids
    BY <1>1, <1>3, <1>12 DEF Ids
  <2>2. news[i] \in Kinds
    BY <1>1
  <2>3. New(i) \in Visitor
    <3>1. /\ news[i].path \in Seq(Node) /\ news[i].size \in Nat \ {0} /\ news[i].benign \in BOOLEAN
      BY <2>2, PipelineAssumption DEF Kinds
    <3> QED BY <2>1, <3>1 DEF New, Arrival, Visitor
  <2> QED BY <1>10, <2>3
<1>14. ASSUME NEW i \in 1..Len(matured) PROVE u[Len(news) + i] \in Visitor
  <2> DEFINE id == minted + Len(news) + i
             entry == matured[i]
  <2>1. id \in Ids
    BY <1>1, <1>3, <1>12 DEF Ids
  <2>2. entry \in ToSet(pending)
    BY <1>3
  <2>3. EntryOK(entry, minted)
    BY <2>2 DEF ChainInv, Chained
  <2>4. paths[i] \in Seq(Node)
    BY <1>3, PipelineAssumption
  <2> HIDE DEF id, entry
  <2>5. entry.size \in Nat \ {0} /\ entry.retryOf \in Nat /\ entry.attempt \in Nat
    BY <2>3, PipelineAssumption DEF EntryOK
  <2>6. (IF entry.retryOf = 0 THEN id ELSE entry.first) \in Ids
    <3>1. entry.retryOf # 0 => entry.first \in Ids
      BY <1>1, <1>3, <1>12, <2>3 DEF EntryOK, Ids
    <3> QED BY <2>1, <3>1
  <2>7. Reentry(entry, paths[i], id) \in Visitor
    BY <2>4, <2>5, <2>6 DEF Reentry, Visitor
  <2> QED BY <1>11, <2>7 DEF Again, id, entry
<1>15. u \in Seq(Visitor)
  <2>1. ASSUME NEW i \in 1..Len(u) PROVE u[i] \in Visitor
    <3>1. CASE i \in 1..Len(news)
      BY <1>13, <3>1
    <3>2. CASE i \notin 1..Len(news)
      <4>1. i - Len(news) \in 1..Len(matured) /\ Len(news) + (i - Len(news)) = i
        BY <1>1, <1>3, <1>8, <3>2
      <4> QED BY <1>14, <4>1
    <3> QED BY <3>1, <3>2
  <2>2. Len(u) \in Nat /\ DOMAIN u = 1..Len(u)
    BY <1>8, <1>1, <1>3
  <2> QED BY <1>8, <2>1, <2>2
<1> QED BY <1>1, <1>3, <1>8, <1>10, <1>11, <1>15 DEF ComesAs, New, Again, u

(* The roster and the depths once they have joined.                        *)
RosterWith(fresh) ==
  [id \in DOMAIN units \cup {minted + i : i \in DOMAIN fresh} |->
     IF id \in {minted + i : i \in DOMAIN fresh} THEN fresh[id - minted] ELSE units[id]]
LateFor(fresh, matured, id) == id - minted - (Len(fresh) - Len(matured))
DepthsWith(fresh, matured) ==
  [id \in DOMAIN depth |->
     IF id \in {minted + i : i \in DOMAIN fresh} /\ LateFor(fresh, matured, id) > 0
     THEN matured[LateFor(fresh, matured, id)].retryDepth ELSE depth[id]]

(* A visitor that joins opens a chain of its own, with no attempt behind   *)
(* it or with those its entry counts, or continues the chain of the entry  *)
(* it matured from.                                                        *)
Opens(roster, id) == minted < id /\ roster[id].first = id
Continues(roster, matured, from, id) ==
  \E i \in 1..Len(matured) : /\ id = from + i /\ roster[id].first = matured[i].first
                             /\ matured[i].first # 0

JoinsAs(roster, depths, matured, from, id) ==
  /\ roster[id] \in Visitor
  /\ Opens(roster, id) \/ Continues(roster, matured, from, id)
  /\ roster[id].attempt = depths[id] /\ depths[id] \in 0..MaxRetries

JoinedBy(roster, depths, matured, from) ==
  /\ DOMAIN roster = DOMAIN units \cup (minted + 1)..minted' /\ minted' \in minted..MaxUnits
  /\ \A id \in DOMAIN units : roster[id] = units[id] /\ depths[id] = depth[id]
  /\ \A id \in Ids : id > minted' => depths[id] = 0
  /\ \A id \in (minted + 1)..minted' : JoinsAs(roster, depths, matured, from, id)

(* Those on the board stay as they are, and the others are of these kinds. *)
LEMMA JoiningFacts ==
  ASSUME BoardTyped, ChainInv, NEW news, NEW matured, matured = Ready(tick + 1), NEW paths,
         NEW fresh, ComesAs(fresh, news, matured, paths),
         minted' = minted + Len(fresh), minted' <= MaxUnits
  PROVE  JoinedBy(RosterWith(fresh), DepthsWith(fresh, matured), matured, minted + Len(news))
<1> DEFINE a == Len(news)
           m == Len(matured)
           born == {minted + i : i \in DOMAIN fresh}
           roster == RosterWith(fresh)
           depths == DepthsWith(fresh, matured)
<1>1. /\ a \in Nat /\ m \in Nat /\ minted \in Nat /\ MaxUnits \in Nat /\ MaxRetries \in Nat
      /\ Len(fresh) = a + m /\ minted' = minted + a + m
  BY PipelineAssumption DEF BoardTyped, ComesAs
<1>2. fresh \in Seq(Visitor) /\ DOMAIN fresh = 1..a + m
  BY <1>1 DEF ComesAs
<1>3. born = (minted + 1)..minted'
  <2>1. \A i \in DOMAIN fresh : minted + i \in (minted + 1)..minted'
    BY <1>1, <1>2
  <2>2. \A id \in (minted + 1)..minted' : id - minted \in DOMAIN fresh /\ minted + (id - minted) = id
    BY <1>1, <1>2
  <2> QED BY <2>1, <2>2
<1>4. DOMAIN units \subseteq 1..minted /\ DOMAIN depth = Ids
  BY DEF BoardTyped, ChainInv, Chained
<1>5. roster = [id \in DOMAIN units \cup born |-> IF id \in born THEN fresh[id - minted] ELSE units[id]]
  BY DEF RosterWith
<1>6. depths = [id \in Ids |-> IF id \in born /\ LateFor(fresh, matured, id) > 0
                               THEN matured[LateFor(fresh, matured, id)].retryDepth ELSE depth[id]]
  BY <1>4 DEF DepthsWith
<1>7. \A id : LateFor(fresh, matured, id) = id - minted - (a + m - m)
  BY <1>1 DEF LateFor
<1> HIDE DEF roster, depths, born, a, m
<1>8. ASSUME NEW id \in DOMAIN units PROVE roster[id] = units[id] /\ depths[id] = depth[id]
  <2>1. id \notin born /\ id \in Ids
    <3>1. id \in 1..minted /\ minted <= MaxUnits
      BY <1>1, <1>4
    <3> QED BY <1>1, <1>3, <3>1 DEF Ids
  <2> QED BY <1>5, <1>6, <2>1
<1>9. ASSUME NEW id \in Ids, id > minted PROVE depth[id] = 0
  BY <1>9 DEF ChainInv, Chained
<1>10. ASSUME NEW id \in Ids, id > minted' PROVE depths[id] = 0
  <2>1. id \notin born /\ id > minted
    BY <1>1, <1>3, <1>10 DEF Ids
  <2> QED BY <1>6, <1>9, <2>1
<1>11. ASSUME NEW i \in 1..a
       PROVE  /\ roster[minted + i] \in Visitor /\ Opens(roster, minted + i)
              /\ roster[minted + i].attempt = 0 /\ depths[minted + i] = 0
  <2> DEFINE id == minted + i
  <2>1. /\ id \in born /\ id - minted = i /\ minted < id
        /\ id \in Ids /\ ~(id - minted - (a + m - m) > 0)
    BY <1>1, <1>3 DEF Ids
  <2>2. fresh[i] = Arrival(news[i], id) /\ fresh[i] \in Visitor
    <3>1. i \in DOMAIN fresh
      BY <1>1, <1>2
    <3> QED BY <1>2, <3>1 DEF ComesAs, a
  <2> HIDE DEF id
  <2>3. roster[id] = fresh[i]
    <3>1. roster[id] = fresh[id - minted]
      BY <1>5, <2>1
    <3> QED BY <2>1, <3>1
  <2>4. fresh[i].first = id /\ fresh[i].attempt = 0
    BY <2>2 DEF Arrival
  <2>5. depths[id] = depth[id]
    <3>1. ~(LateFor(fresh, matured, id) > 0)
      BY <1>7, <2>1
    <3> QED BY <1>6, <2>1, <3>1
  <2>6. depths[id] = 0
    BY <1>9, <2>1, <2>5
  <2> QED BY <2>1, <2>2, <2>3, <2>4, <2>6 DEF Opens, id
<1>12. ASSUME NEW i \in 1..m
       PROVE  /\ roster[minted + a + i] \in Visitor
              /\ Opens(roster, minted + a + i) \/ Continues(roster, matured, minted + a, minted + a + i)
              /\ roster[minted + a + i].attempt = depths[minted + a + i]
              /\ depths[minted + a + i] \in 0..MaxRetries
  <2> DEFINE id == minted + a + i
             entry == matured[i]
  <2>1. /\ id \in born /\ id - minted = a + i /\ minted < id /\ id = (minted + a) + i
        /\ id \in Ids /\ id - minted - (a + m - m) = i /\ i > 0
    BY <1>1, <1>3 DEF Ids
  <2>2. fresh[a + i] = Reentry(entry, paths[i], id) /\ fresh[a + i] \in Visitor
    <3>1. a + i \in DOMAIN fresh
      BY <1>1, <1>2
    <3> QED BY <1>2, <3>1 DEF ComesAs, a, m
  <2>3. entry \in ToSet(pending)
    <3>1. ToSet(matured) \subseteq ToSet(pending) /\ i \in DOMAIN matured
      BY PartOfSchedule DEF Ready, ChainInv, Chained, ComesAs, m
    <3> QED BY <3>1 DEF ToSet
  <2>4. EntryOK(entry, minted)
    BY <2>3 DEF ChainInv, Chained
  <2> HIDE DEF id
  <2>5. roster[id] = fresh[a + i]
    <3>1. roster[id] = fresh[id - minted]
      BY <1>5, <2>1
    <3> QED BY <2>1, <3>1
  <2>6. depths[id] = entry.retryDepth
    <3>1. LateFor(fresh, matured, id) = i
      BY <1>7, <2>1
    <3> QED BY <1>6, <2>1, <3>1
  <2>7. /\ roster[id].attempt = entry.attempt
        /\ roster[id].first = IF entry.retryOf = 0 THEN id ELSE entry.first
    BY <2>2, <2>5 DEF Reentry
  <2>8. depths[id] = entry.attempt /\ entry.attempt \in 0..MaxRetries
    BY <2>4, <2>6 DEF EntryOK
  <2>9. Opens(roster, id) \/ Continues(roster, matured, minted + a, id)
    <3>1. CASE entry.retryOf = 0
      BY <2>1, <2>7, <3>1 DEF Opens
    <3>2. CASE entry.retryOf # 0
      <4>1. roster[id].first = matured[i].first /\ matured[i].first # 0
        BY <2>4, <2>7, <3>2 DEF EntryOK
      <4> QED BY <2>1, <4>1 DEF Continues, m
    <3> QED BY <3>1, <3>2
  <2> QED BY <2>2, <2>5, <2>7, <2>8, <2>9 DEF id
<1>13. ASSUME NEW id \in (minted + 1)..minted'
       PROVE  JoinsAs(roster, depths, matured, minted + a, id)
  <2>1. CASE id <= minted + a
    <3>1. id - minted \in 1..a /\ minted + (id - minted) = id
      BY <1>1, <2>1
    <3>2. 0 \in 0..MaxRetries
      BY <1>1
    <3> QED BY <1>11, <3>1, <3>2 DEF JoinsAs
  <2>2. CASE id > minted + a
    <3>1. id - (minted + a) \in 1..m /\ minted + a + (id - (minted + a)) = id
      BY <1>1, <2>2
    <3> QED BY <1>12, <3>1 DEF JoinsAs
  <2> QED BY <1>1, <2>1, <2>2
<1>14. DOMAIN roster = DOMAIN units \cup (minted + 1)..minted' /\ minted' \in minted..MaxUnits
  BY <1>1, <1>3, <1>5
<1> QED BY <1>8, <1>10, <1>13, <1>14 DEF JoinedBy, roster, depths, a

(* They join the roster, and the chains stay apart.                        *)
LEMMA Arriving ==
  ASSUME BoardTyped, ChainInv, NEW news, NEW matured, matured = Ready(tick + 1), NEW paths,
         NEW fresh, ComesAs(fresh, news, matured, paths),
         minted' = minted + Len(fresh), minted' <= MaxUnits
  PROVE  /\ Joined(RosterWith(fresh))
         /\ DOMAIN RosterWith(fresh) = DOMAIN units \cup (minted + 1)..minted'
         /\ Chained(RosterWith(fresh), DepthsWith(fresh, matured), StillPending(tick + 1), minted')
<1> DEFINE roster == RosterWith(fresh)
           depths == DepthsWith(fresh, matured)
           still == StillPending(tick + 1)
           from == minted + Len(news)
           born == (minted + 1)..minted'
<1>0. JoinedBy(roster, depths, matured, from)
  BY JoiningFacts
<1>1. /\ DOMAIN roster = DOMAIN units \cup born /\ minted' \in minted..MaxUnits
      /\ \A id \in DOMAIN units : roster[id] = units[id] /\ depths[id] = depth[id]
      /\ \A id \in Ids : id > minted' => depths[id] = 0
  <2> HIDE DEF roster, depths, from
  <2> QED BY <1>0 DEF JoinedBy
<1>2. \A id \in born : /\ roster[id] \in Visitor
                       /\ Opens(roster, id) \/ Continues(roster, matured, from, id)
                       /\ roster[id].attempt = depths[id] /\ depths[id] \in 0..MaxRetries
  <2>1. \A id \in born : JoinsAs(roster, depths, matured, from, id)
    <3> HIDE DEF roster, depths, from
    <3> QED BY <1>0 DEF JoinedBy
  <2> HIDE DEF roster, depths, born, from
  <2> QED BY <2>1 DEF JoinsAs
<1>3. /\ minted \in Nat /\ MaxUnits \in Nat /\ MaxRetries \in Nat /\ minted' \in Nat /\ minted <= minted'
      /\ from \in Nat /\ DOMAIN depths = Ids
  BY <1>1, PipelineAssumption DEF BoardTyped, ComesAs, DepthsWith, ChainInv, Chained
<1>4. /\ pending \in Seq(ToSet(pending)) /\ NoClash(pending)
      /\ matured \in Seq(ToSet(pending)) /\ ToSet(matured) = ToSet(pending) \ Early(tick + 1) /\ NoClash(matured)
      /\ still \in Seq(ToSet(pending)) /\ ToSet(still) = Early(tick + 1) /\ NoClash(still)
  <2>1. pending \in Seq(ToSet(pending)) /\ NoClash(pending)
    BY DEF ChainInv, Chained
  <2>2. Early(tick + 1) \subseteq ToSet(pending)
    BY DEF Early
  <2> HIDE DEF still
  <2>3. matured \in Seq(ToSet(pending)) /\ ToSet(matured) = ToSet(pending) \ Early(tick + 1) /\ NoClash(matured)
    BY <2>1, PartOfSchedule DEF Ready
  <2>4. still \in Seq(ToSet(pending)) /\ ToSet(still) = ToSet(pending) \cap Early(tick + 1) /\ NoClash(still)
    BY <2>1, PartOfSchedule DEF StillPending, still
  <2>5. ToSet(still) = Early(tick + 1)
    BY <2>2, <2>4
  <2> QED BY <2>1, <2>3, <2>4, <2>5
<1>5. \A entry \in ToSet(pending) : EntryOK(entry, minted) /\ \A id \in DOMAIN units : entry.first # units[id].first
  BY DEF ChainInv, Chained
<1>6. \A id \in DOMAIN units : /\ id \in 1..minted /\ units[id] \in Visitor /\ units[id].first <= minted
                               /\ units[id].attempt = depth[id] /\ depth[id] <= MaxRetries /\ depth[id] \in Nat
  <2>1. \A id \in DOMAIN units : id \in 1..minted /\ units[id] \in Visitor
    BY DEF BoardTyped
  <2>2. \A id \in DOMAIN units : /\ units[id].first <= minted /\ units[id].attempt = depth[id]
                                 /\ depth[id] <= MaxRetries
    BY DEF ChainInv, Chained
  <2>3. \A id \in DOMAIN units : id \in Ids
    BY <1>3, <1>1, <2>1 DEF Ids
  <2>4. \A id \in DOMAIN units : depth[id] \in Nat
    BY <2>3 DEF ChainInv, Chained
  <2> QED BY <2>1, <2>2, <2>4
<1> HIDE DEF roster, depths, still, born, from
<1>7. \A i \in 1..Len(matured) : matured[i] \in ToSet(pending) \ Early(tick + 1) /\ i \in DOMAIN matured
  <2>1. DOMAIN matured = 1..Len(matured)
    BY <1>4
  <2> QED BY <1>4, <2>1 DEF ToSet
<1>8. \A e \in ToSet(pending) \ Early(tick + 1) : \A f \in Early(tick + 1) : ~Clash(e, f)
  <2> SUFFICES ASSUME NEW e \in ToSet(pending) \ Early(tick + 1), NEW f \in Early(tick + 1), Clash(e, f)
               PROVE  FALSE
    OBVIOUS
  <2>1. PICK i \in DOMAIN pending : pending[i] = e
    BY DEF ToSet
  <2>2. PICK j \in DOMAIN pending : pending[j] = f
    BY DEF Early, ToSet
  <2>3. i = j
    BY <1>4, <2>1, <2>2 DEF NoClash
  <2> QED BY <2>1, <2>2, <2>3
<1>9. ASSUME NEW id \in born
      PROVE  /\ minted < id /\ id <= minted' /\ id \in Int /\ id \in Ids
             /\ roster[id].first <= minted' /\ roster[id].first \in Ids
             /\ Continues(roster, matured, from, id) => roster[id].first <= minted
             /\ Opens(roster, id) => roster[id].first > minted
  <2>1. minted < id /\ id <= minted' /\ id \in Int /\ id \in Ids
    BY <1>1, <1>3 DEF born, Ids
  <2>2. roster[id].first \in Ids
    BY <1>2 DEF Visitor
  <2>3. Continues(roster, matured, from, id) => roster[id].first <= minted
    <3> SUFFICES ASSUME NEW i \in 1..Len(matured), roster[id].first = matured[i].first
                 PROVE  roster[id].first <= minted
      BY DEF Continues
    <3> QED BY <1>3, <1>5, <1>7 DEF EntryOK
  <2>4. Opens(roster, id) => roster[id].first > minted /\ roster[id].first <= minted'
    BY <2>1 DEF Opens
  <2>5. roster[id].first <= minted'
    BY <1>2, <1>3, <2>2, <2>3, <2>4 DEF Ids
  <2> QED BY <2>1, <2>2, <2>3, <2>4, <2>5
<1>10. Joined(roster)
  <2>1. DOMAIN roster \subseteq 1..minted'
    BY <1>1, <1>3, <1>6, <1>9
  <2>2. \A id \in DOMAIN roster : roster[id] \in Visitor
    BY <1>1, <1>2, <1>6
  <2>3. roster = [id \in DOMAIN roster |-> roster[id]]
    BY DEF roster, RosterWith
  <2>4. roster \in [DOMAIN roster -> Visitor]
    BY <2>2, <2>3
  <2> QED BY <1>1, <2>1, <2>4 DEF Joined
<1>11. depths \in [Ids -> Nat]
  <2>1. depths = [id \in Ids |-> depths[id]]
    BY <1>3 DEF depths, DepthsWith
  <2>2. ASSUME NEW id \in Ids PROVE depths[id] \in Nat
    <3>1. CASE id \in born
      BY <1>2, <1>3, <3>1
    <3>2. CASE id > minted'
      BY <1>1, <3>2
    <3>3. CASE id \in 1..minted
      <4>1. depth[id] \in Nat
        BY DEF ChainInv, Chained
      <4>2. \A i \in DOMAIN fresh : i >= 1 /\ i \in Nat
        BY DEF ComesAs
      <4>3. id \notin {minted + i : i \in DOMAIN fresh}
        BY <1>3, <3>3, <4>2
      <4>4. depths[id] = depth[id]
        BY <4>3 DEF depths, DepthsWith, ChainInv, Chained
      <4> QED BY <4>1, <4>4
    <3> QED BY <1>1, <1>3, <3>1, <3>2, <3>3 DEF born, Ids
  <2> QED BY <2>1, <2>2
<1>12. ASSUME NEW id \in DOMAIN roster
       PROVE  /\ roster[id].attempt = depths[id] /\ depths[id] <= MaxRetries /\ roster[id].first <= minted'
  <2>1. CASE id \in DOMAIN units
    <3>1. roster[id].attempt = depths[id] /\ depths[id] <= MaxRetries
      BY <1>1, <1>6, <2>1
    <3>2. roster[id].first \in Ids /\ roster[id].first <= minted
      BY <1>1, <1>6, <2>1 DEF Visitor
    <3> QED BY <1>3, <3>1, <3>2 DEF Ids
  <2>2. CASE id \in born
    <3>1. depths[id] <= MaxRetries
      BY <1>2, <1>3, <2>2
    <3> QED BY <1>2, <1>9, <2>2, <3>1
  <2> QED BY <1>1, <2>1, <2>2
<1>13. ASSUME NEW a \in DOMAIN roster, NEW b \in born, roster[a].first = roster[b].first PROVE a = b
  <2>1. CASE Opens(roster, b)
    <3>1. roster[b].first > minted /\ roster[b].first \in Ids /\ roster[b].first = b
      BY <1>9, <2>1 DEF Opens
    <3>2. CASE a \in DOMAIN units
      <4>1. roster[a].first <= minted
        BY <1>1, <1>6, <3>2
      <4> QED BY <1>3, <1>13, <3>1, <4>1 DEF Ids
    <3>3. CASE a \in born
      <4>1. ~Continues(roster, matured, from, a)
        BY <1>3, <1>9, <1>13, <3>1, <3>3 DEF Ids
      <4>2. roster[a].first = a
        BY <1>2, <3>3, <4>1 DEF Opens
      <4> QED BY <1>13, <3>1, <4>2
    <3> QED BY <1>1, <3>2, <3>3
  <2>2. CASE Continues(roster, matured, from, b)
    <3>1. PICK j \in 1..Len(matured) : b = from + j /\ roster[b].first = matured[j].first /\ matured[j].first # 0
      BY <2>2 DEF Continues
    <3>2. CASE a \in DOMAIN units
      BY <1>1, <1>5, <1>7, <1>13, <3>1, <3>2
    <3>3. CASE a \in born
      <4>1. ~Opens(roster, a)
        BY <1>3, <1>9, <1>13, <2>2, <3>3 DEF Ids
      <4>2. PICK i \in 1..Len(matured) : a = from + i /\ roster[a].first = matured[i].first
        BY <1>2, <3>3, <4>1 DEF Continues
      <4>3. i = j
        BY <1>4, <1>7, <1>13, <3>1, <4>2 DEF NoClash, Clash
      <4> QED BY <3>1, <4>2, <4>3
    <3> QED BY <1>1, <3>2, <3>3
  <2> QED BY <1>2, <2>1, <2>2
<1>14. \A a, b \in DOMAIN roster : roster[a].first = roster[b].first => a = b
  <2>1. \A a, b \in DOMAIN units : units[a].first = units[b].first => a = b
    BY DEF ChainInv, Chained
  <2> QED BY <1>1, <1>13, <2>1
<1>15. ASSUME NEW entry \in ToSet(still)
       PROVE  EntryOK(entry, minted') /\ \A id \in DOMAIN roster : entry.first # roster[id].first
  <2>1. entry \in ToSet(pending) /\ entry \in Early(tick + 1)
    BY <1>4 DEF Early
  <2>2. EntryOK(entry, minted) /\ entry.first \in 0..minted
    BY <1>5, <2>1 DEF EntryOK
  <2>3. EntryOK(entry, minted')
    <3>1. entry.first \in 0..minted'
      BY <1>3, <2>2
    <3> QED BY <2>2, <3>1 DEF EntryOK
  <2>4. ASSUME NEW id \in DOMAIN roster, entry.first = roster[id].first PROVE FALSE
    <3>1. CASE id \in DOMAIN units
      BY <1>1, <1>5, <2>1, <2>4, <3>1
    <3>2. CASE id \in born /\ Opens(roster, id)
      BY <1>3, <1>9, <2>2, <2>4, <3>2 DEF Ids
    <3>3. CASE id \in born /\ Continues(roster, matured, from, id)
      <4>1. PICK i \in 1..Len(matured) : roster[id].first = matured[i].first /\ matured[i].first # 0
        BY <3>3 DEF Continues
      <4>2. Clash(matured[i], entry)
        BY <2>4, <4>1 DEF Clash
      <4> QED BY <1>7, <1>8, <2>1, <4>2
    <3> QED BY <1>1, <1>2, <3>1, <3>2, <3>3
  <2> QED BY <2>3, <2>4
<1>16. still \in Seq(ToSet(still))
  BY <1>4 DEF ToSet
<1> QED BY <1>1, <1>4, <1>10, <1>11, <1>12, <1>14, <1>15, <1>16 DEF Chained, roster, depths, still, born

-----------------------------------------------------------------------------
(* A tick, its arrivals, its serve step and its dice named.                *)
Ticked(roster, depths, served, impatient, blocked, returns) ==
  /\ Joined(roster) /\ DOMAIN roster = DOMAIN units \cup (minted + 1)..minted'
  /\ Chained(roster, depths, StillPending(tick + 1), minted')
  /\ AllServed(roster, served) /\ Dice(roster, served, impatient, blocked)
  /\ returns \subseteq Completed(roster, served)
  /\ Settle(roster, depths, served, impatient, blocked, returns)
  /\ indexed' = indexed

(* Every tick is one.                                                      *)
LEMMA TickNamed ==
  ASSUME BoardInv, ChainInv, Tick
  PROVE  \E roster, depths, served, impatient, blocked, returns :
           Ticked(roster, depths, served, impatient, blocked, returns)
<1>1. PICK regime \in Regimes, news \in {<<>>} \cup {<<kind>> : kind \in Kinds}, matured \in {Ready(tick + 1)} :
        \E paths \in [DOMAIN matured -> Paths] :
          /\ minted + Len(Coming(news, matured, paths)) <= MaxUnits
          /\ minted' = minted + Len(Coming(news, matured, paths))
          /\ Advance(regime, matured, Coming(news, matured, paths))
  BY DEF Tick, Coming
<1>2. PICK paths \in [DOMAIN matured -> Paths] :
        /\ minted + Len(Coming(news, matured, paths)) <= MaxUnits
        /\ minted' = minted + Len(Coming(news, matured, paths))
        /\ Advance(regime, matured, Coming(news, matured, paths))
  BY <1>1
<1> DEFINE fresh == Coming(news, matured, paths)
           roster == RosterWith(fresh)
           depths == DepthsWith(fresh, matured)
           served == [n \in Node |-> ServeNode(roster, n, tick + 1, regime)]
<1>3. BoardTyped /\ matured = Ready(tick + 1)
  BY DEF BoardInv
<1>4. ComesAs(fresh, news, matured, paths)
  BY <1>2, <1>3, ComingFacts
<1>5. minted' = minted + Len(fresh) /\ minted' <= MaxUnits /\ Advance(regime, matured, fresh) /\ indexed' = indexed
  BY <1>2 DEF Tick
<1> HIDE DEF fresh
<1>6. /\ Joined(roster) /\ DOMAIN roster = DOMAIN units \cup (minted + 1)..minted'
      /\ Chained(roster, depths, StillPending(tick + 1), minted')
  BY <1>3, <1>4, <1>5, Arriving
<1>7. \E impatient \in SUBSET (WaitingIn(served) \cup {id \in DOMAIN roster : roster[id].path = <<>>}),
         blocked \in SUBSET AdmittedIn(served),
         returns \in SUBSET {id \in Completed(roster, served) : roster[id].benign /\ ReturningVisitors} :
        Settle(roster, depths, served, impatient, blocked, returns)
  <2>1. \E r \in {roster}, d \in {depths} : \E s \in {[n \in Node |-> ServeNode(r, n, tick + 1, regime)]} :
          \E impatient \in SUBSET (WaitingIn(s) \cup {id \in DOMAIN r : r[id].path = <<>>}),
             blocked \in SUBSET AdmittedIn(s),
             returns \in SUBSET {id \in Completed(r, s) : r[id].benign /\ ReturningVisitors} :
            Settle(r, d, s, impatient, blocked, returns)
    BY <1>5, Zenon DEF Advance, RosterWith, DepthsWith, LateFor
  <2> DEFINE Rolled(r, d, s) ==
               \E impatient \in SUBSET (WaitingIn(s) \cup {id \in DOMAIN r : r[id].path = <<>>}),
                  blocked \in SUBSET AdmittedIn(s),
                  returns \in SUBSET {id \in Completed(r, s) : r[id].benign /\ ReturningVisitors} :
                 Settle(r, d, s, impatient, blocked, returns)
             ServedFrom(r) == [n \in Node |-> ServeNode(r, n, tick + 1, regime)]
  <2>2. \E r \in {roster}, d \in {depths} : \E s \in {ServedFrom(r)} : Rolled(r, d, s)
    BY <2>1
  <2>3. served = ServedFrom(roster)
    OBVIOUS
  <2> HIDE DEF roster, depths, served, Rolled, ServedFrom
  <2>4. Rolled(roster, depths, served)
    BY <2>2, <2>3
  <2> QED BY <2>4 DEF Rolled
<1> HIDE DEF roster, depths
<1>8. AllServed(roster, served)
  BY <1>6, ServeFacts DEF AllServed
<1> HIDE DEF served
<1>9. PICK impatient \in SUBSET (WaitingIn(served) \cup {id \in DOMAIN roster : roster[id].path = <<>>}),
           blocked \in SUBSET AdmittedIn(served),
           returns \in SUBSET {id \in Completed(roster, served) : roster[id].benign /\ ReturningVisitors} :
        Settle(roster, depths, served, impatient, blocked, returns)
  BY <1>7
<1>10. Dice(roster, served, impatient, blocked) /\ returns \subseteq Completed(roster, served)
  BY <1>9 DEF Dice
<1>11. Ticked(roster, depths, served, impatient, blocked, returns)
  BY <1>5, <1>6, <1>8, <1>9, <1>10 DEF Ticked
<1> QED BY <1>11

(* Who is left in the roster after a tick, and how.                        *)
LEMMA WhoStays ==
  ASSUME BoardInv, NEW roster, NEW depths, NEW served, NEW impatient, NEW blocked, NEW returns,
         Ticked(roster, depths, served, impatient, blocked, returns)
  PROVE  /\ Doomed(roster, served, impatient, blocked) \subseteq DOMAIN roster
         /\ DOMAIN units' = DOMAIN roster \ Doomed(roster, served, impatient, blocked)
         /\ units' \in [DOMAIN units' -> Visitor]
         /\ \A id \in DOMAIN units' : /\ units'[id].first = roster[id].first
                                      /\ units'[id].attempt = roster[id].attempt
         /\ \A n \in Node : \A id \in DOMAIN units' :
              id \in Hops(roster, n) /\ id \notin served[n].released => id \in Hops(units', n)
<1> DEFINE doomed == Doomed(roster, served, impatient, blocked)
           after == Progress(roster, served)
<1>1. doomed \subseteq DOMAIN roster
  BY DoomedOnBoard DEF Ticked
<1>2. units' = [id \in DOMAIN roster \ doomed |-> after[id]]
  BY DEF Ticked, Settle, Doomed, Stays
<1>3. \A id \in DOMAIN roster : roster[id] \in Visitor
  BY DEF Ticked, Joined
<1>4. after = [id \in DOMAIN roster |->
                 IF roster[id].path # <<>> /\ id \in served[roster[id].path[1]].released
                 THEN [roster[id] EXCEPT !.path = Tail(@)] ELSE roster[id]]
  BY DEF Progress
<1> HIDE DEF doomed, after
<1>5. ASSUME NEW id \in DOMAIN roster
      PROVE  after[id] \in Visitor /\ after[id].first = roster[id].first /\ after[id].attempt = roster[id].attempt
  <2> DEFINE p == roster[id].path
             w == [roster[id] EXCEPT !.path = Tail(p)]
  <2>1. roster[id] \in Visitor /\ p \in Seq(Node)
    BY <1>3 DEF Visitor
  <2>2. p # <<>> => w \in Visitor /\ w.first = roster[id].first /\ w.attempt = roster[id].attempt
    <3>1. p # <<>> => Tail(p) \in Seq(Node)
      BY <2>1
    <3> QED BY <2>1, <3>1 DEF Visitor
  <2>3. after[id] = roster[id] \/ (p # <<>> /\ after[id] = w)
    BY <1>4
  <2> HIDE DEF p, w
  <2> QED BY <2>1, <2>2, <2>3
<1>6. DOMAIN units' = DOMAIN roster \ doomed /\ \A id \in DOMAIN units' : id \in DOMAIN roster /\ units'[id] = after[id]
  BY <1>2
<1>7. units' \in [DOMAIN units' -> Visitor]
  BY <1>2, <1>5
<1>8. ASSUME NEW n \in Node, NEW id \in DOMAIN units', id \in Hops(roster, n), id \notin served[n].released
      PROVE  id \in Hops(units', n)
  <2>1. id \in DOMAIN roster /\ roster[id].path # <<>> /\ roster[id].path[1] = n
    BY <1>8 DEF Hops
  <2>2. after[id] = roster[id]
    BY <1>4, <1>8, <2>1
  <2>3. units'[id] = roster[id]
    BY <1>6, <2>2
  <2> QED BY <2>1, <2>3 DEF Hops
<1> QED BY <1>1, <1>5, <1>6, <1>7, <1>8 DEF doomed

(* A tick keeps the board in order.                                        *)
LEMMA BoardSettles ==
  ASSUME BoardInv, IndexInv,
         NEW roster, NEW depths, NEW served, NEW impatient, NEW blocked, NEW returns,
         Ticked(roster, depths, served, impatient, blocked, returns)
  PROVE  BoardInv' /\ Purged(served, Doomed(roster, served, impatient, blocked))
<1> DEFINE doomed == Doomed(roster, served, impatient, blocked)
<1>1. /\ doomed \subseteq DOMAIN roster /\ DOMAIN units' = DOMAIN roster \ doomed
      /\ units' \in [DOMAIN units' -> Visitor]
      /\ \A n \in Node : \A id \in DOMAIN units' :
           id \in Hops(roster, n) /\ id \notin served[n].released => id \in Hops(units', n)
  BY WhoStays
<1>2. Joined(roster) /\ AllServed(roster, served) /\ Dice(roster, served, impatient, blocked)
  BY DEF Ticked
<1>3. Purge(roster, served, doomed) /\ tick' = tick + 1
  BY DEF Ticked, Settle, Doomed
<1>4. Purged(served, doomed)
  BY <1>2, <1>3, PurgeCleans
<1> HIDE DEF doomed
<1>5. BoardTyped'
  <2>1. tick' \in Nat /\ minted' \in 0..MaxUnits
    BY <1>2, <1>3, PipelineAssumption DEF BoardInv, BoardTyped, Joined
  <2>2. DOMAIN units' \subseteq 1..minted'
    BY <1>1, <1>2 DEF Joined
  <2> QED BY <1>1, <1>4, <2>1, <2>2 DEF BoardTyped, Purged
<1>6. ASSUME NEW n \in Node
      PROVE  /\ ToSet(queue'[n]) \cup SeatedIn(seats'[n]) \subseteq Hops(units', n)
             /\ NoRepeat(queue'[n]) /\ OneSeatEach(seats'[n])
             /\ ToSet(queue'[n]) \cap SeatedIn(seats'[n]) = {}
  <2>1. /\ NoRepeat(queue'[n]) /\ ToSet(queue'[n]) = ToSet(served[n].queue) \ doomed
        /\ OneSeatEach(seats'[n]) /\ SeatedIn(seats'[n]) = SeatedIn(served[n].seats) \ doomed
    BY <1>4 DEF Purged
  <2>2. ServedWell(roster, served[n], n)
    BY <1>2 DEF AllServed
  <2>3. /\ ToSet(served[n].queue) \subseteq Hops(roster, n) /\ SeatedIn(served[n].seats) \subseteq Hops(roster, n)
        /\ ToSet(served[n].queue) \cap SeatedIn(served[n].seats) = {}
        /\ ToSet(served[n].queue) \cap served[n].released = {}
        /\ SeatedIn(served[n].seats) \cap served[n].released = {}
    BY <2>2 DEF ServedWell
  <2>4. Hops(roster, n) \subseteq DOMAIN roster
    BY DEF Hops
  <2>5. \A id \in ToSet(queue'[n]) \cup SeatedIn(seats'[n]) :
          id \in DOMAIN units' /\ id \in Hops(roster, n) /\ id \notin served[n].released
    BY <1>1, <2>1, <2>3, <2>4
  <2>6. ToSet(queue'[n]) \cup SeatedIn(seats'[n]) \subseteq Hops(units', n)
    BY <1>1, <2>5
  <2> QED BY <2>1, <2>3, <2>6
<1>7. AtHome' /\ Once'
  BY <1>6 DEF AtHome, Once, Hops, SeatedIn, ToSet, NoRepeat, OneSeatEach
<1> QED BY <1>4, <1>5, <1>7 DEF BoardInv, doomed

(* ... and the index in step with it.                                      *)
LEMMA IndexSettles ==
  ASSUME BoardInv, IndexInv,
         NEW roster, NEW depths, NEW served, NEW impatient, NEW blocked, NEW returns,
         Ticked(roster, depths, served, impatient, blocked, returns)
  PROVE  IndexInv'
<1> DEFINE doomed == Doomed(roster, served, impatient, blocked)
           known == IF indexed THEN Attributed(roster, served) ELSE member
           sweep == SweepsBoard(known, doomed, indexed /\ Contradiction(roster, served, known))
           walked == IF doomed = {} THEN {} ELSE IF sweep THEN Node ELSE ProbeOf(known, doomed)
<1>1. /\ member' = [id \in DOMAIN member |-> IF id \in doomed THEN {} ELSE known[id]]
      /\ signature' = [n \in Node |-> IF indexed \/ n \in walked THEN SignatureOf(queue'[n]) ELSE signature[n]]
  BY DEF Ticked, Settle, Purge, Doomed
<1>2. /\ BoardTyped' /\ indexed' = indexed /\ doomed \subseteq DOMAIN roster /\ Joined(roster)
      /\ DOMAIN units' = DOMAIN roster \ doomed /\ AllServed(roster, served)
  BY BoardSettles, WhoStays DEF Ticked, BoardInv
<1>3. \A n \in Node : ToSet(queue'[n]) = ToSet(served[n].queue) \ doomed
  BY BoardSettles DEF Purged
<1>4. IndexTyped
  BY DEF IndexInv
<1>5. ~indexed /\ doomed # {} => walked = Node
  BY DEF SweepsBoard
<1>6. known = IF indexed THEN Attributed(roster, served) ELSE member
  OBVIOUS
<1> HIDE DEF doomed, known, sweep, walked
<1>7. known \in [Ids -> SUBSET Node]
  <2>1. CASE indexed
    <3>1. DOMAIN member = Ids /\ \A id \in Ids : member[id] \in SUBSET Node
      BY <1>4 DEF IndexTyped
    <3>2. ByAssignments(served) \in [Ids -> SUBSET Node]
      BY <3>1 DEF ByAssignments
    <3>3. Attributed(roster, served) \in [Ids -> SUBSET Node]
      BY <3>1, <3>2 DEF Attributed
    <3> QED BY <1>6, <2>1, <3>3
  <2>2. CASE ~indexed
    BY <1>4, <1>6, <2>2 DEF IndexTyped
  <2> QED BY <2>1, <2>2
<1>8. member' \in [Ids -> SUBSET Node] /\ \A id \in Ids : id \notin doomed => member'[id] = known[id]
  <2>1. DOMAIN member = Ids
    BY <1>4 DEF IndexTyped
  <2> QED BY <1>1, <1>7, <2>1
<1>9. \A n \in Node : queue'[n] \in Seq(Ids)
  BY <1>2 DEF BoardTyped
<1>10. ASSUME NEW q \in Seq(Ids) PROVE SignatureOf(q) \in [len : Int, head : Nat]
  <2>1. Len(q) \in Int
    OBVIOUS
  <2>2. (IF q = <<>> THEN 0 ELSE q[1]) \in Nat
    <3>1. q # <<>> => q[1] \in Ids
      OBVIOUS
    <3> QED BY <3>1 DEF Ids
  <2> QED BY <2>1, <2>2 DEF SignatureOf
<1>11. signature' \in [Node -> [len : Int, head : Nat]]
  <2>1. \A n \in Node : signature[n] \in [len : Int, head : Nat]
    BY <1>4 DEF IndexTyped
  <2>2. \A n \in Node : SignatureOf(queue'[n]) \in [len : Int, head : Nat]
    BY <1>9, <1>10
  <2> QED BY <1>1, <2>1, <2>2
<1>12. ASSUME NEW n \in Node, indexed
       PROVE  signature'[n] = SignatureOf(queue'[n]) /\ \A id \in ToSet(queue'[n]) : n \in member'[id]
  <2>1. signature'[n] = SignatureOf(queue'[n])
    BY <1>1, <1>12
  <2>2. signature[n] = NoSignature \/ Seen(n)
    BY <1>12 DEF IndexInv, Unseen
  <2>3. \A id \in ToSet(served[n].queue) : n \in Attributed(roster, served)[id]
    BY <1>2, <1>4, <2>2, WaitersAreKnown DEF AllServed
  <2>4. \A id \in ToSet(queue'[n]) : id \in Ids
    BY <1>9 DEF ToSet
  <2>5. \A id \in ToSet(queue'[n]) : n \in member'[id]
    BY <1>3, <1>6, <1>8, <1>12, <2>3, <2>4
  <2> QED BY <2>1, <2>5
<1>13. ASSUME NEW n \in Node, ~indexed, DOMAIN units' = {}
       PROVE  Unseen(n)' \/ Seen(n)'
  <2>1. \A q \in Seq(Ids) : ToSet(q) = {} => q = <<>>
    <3> SUFFICES ASSUME NEW q \in Seq(Ids), ToSet(q) = {}, q # <<>> PROVE FALSE
      OBVIOUS
    <3>1. 1 \in DOMAIN q
      OBVIOUS
    <3> QED BY <3>1 DEF ToSet
  <2>2. queue'[n] = <<>>
    <3>1. ToSet(served[n].queue) \subseteq DOMAIN roster
      BY <1>2 DEF AllServed, ServedWell, Hops
    <3>2. ToSet(queue'[n]) = {}
      BY <1>2, <1>3, <1>13, <3>1
    <3> QED BY <1>9, <2>1, <3>2
  <2>3. ToSet(queue'[n]) = {}
    BY <2>2 DEF ToSet
  <2>4. CASE n \in walked
    <3>1. signature'[n] = SignatureOf(queue'[n])
      BY <1>1, <2>4
    <3> QED BY <2>3, <3>1 DEF Seen
  <2>5. CASE n \notin walked
    <3>1. doomed = {}
      BY <1>5, <1>13, <2>5
    <3>2. DOMAIN units = {}
      BY <1>2, <1>13, <3>1 DEF Joined
    <3>3. signature'[n] = signature[n]
      BY <1>1, <1>13, <2>5
    <3>4. queue[n] = <<>>
      <4>1. ToSet(queue[n]) = {} /\ queue[n] \in Seq(Ids)
        BY <3>2 DEF BoardInv, BoardTyped, AtHome, Hops
      <4> QED BY <2>1, <4>1
    <3>5. Unseen(n) \/ Seen(n)
      BY <3>2 DEF IndexInv
    <3>6. CASE Unseen(n)
      BY <2>2, <3>3, <3>6 DEF Unseen
    <3>7. CASE Seen(n)
      <4>1. signature'[n] = SignatureOf(queue'[n])
        BY <2>2, <3>3, <3>4, <3>7 DEF Seen
      <4> QED BY <2>3, <4>1 DEF Seen
    <3> QED BY <3>5, <3>6, <3>7
  <2> QED BY <2>4, <2>5
<1>14. \A n \in Node : indexed => Seen(n)'
  BY <1>12 DEF Seen
<1>15. IndexTyped'
  BY <1>8, <1>11 DEF IndexTyped
<1> QED BY <1>2, <1>13, <1>14, <1>15 DEF IndexInv

(* How often an outcome was recorded for a visitor.                        *)
EndsExact ==
  /\ ends \in [Ids -> Nat]
  /\ \A id \in Ids : ends[id] = IF id \in DOMAIN units \/ id > minted THEN 0 ELSE 1

(* A tick records one for whoever leaves the roster.                       *)
LEMMA EndsSettle ==
  ASSUME BoardInv, EndsExact,
         NEW roster, NEW depths, NEW served, NEW impatient, NEW blocked, NEW returns,
         Ticked(roster, depths, served, impatient, blocked, returns)
  PROVE  EndsExact'
<1> DEFINE doomed == Doomed(roster, served, impatient, blocked)
<1>1. ends' = [id \in DOMAIN ends |-> IF id \in doomed THEN ends[id] + 1 ELSE ends[id]]
  BY DEF Ticked, Settle, Doomed
<1>2. /\ doomed \subseteq DOMAIN roster /\ DOMAIN units' = DOMAIN roster \ doomed
      /\ DOMAIN roster = DOMAIN units \cup (minted + 1)..minted' /\ Joined(roster)
  BY WhoStays DEF Ticked
<1> HIDE DEF doomed
<1>3. /\ minted \in Nat /\ MaxUnits \in Nat /\ minted' \in minted..MaxUnits /\ DOMAIN units \subseteq 1..minted
      /\ DOMAIN roster \subseteq 1..minted'
  BY <1>2, PipelineAssumption DEF BoardInv, BoardTyped, Joined
<1>4. ends \in [Ids -> Nat] /\ \A id \in Ids : ends[id] = IF id \in DOMAIN units \/ id > minted THEN 0 ELSE 1
  BY DEF EndsExact
<1>5. ends' \in [Ids -> Nat] /\ \A id \in Ids : ends'[id] = IF id \in doomed THEN ends[id] + 1 ELSE ends[id]
  <2>1. \A id \in Ids : ends[id] + 1 \in Nat /\ ends[id] \in Nat
    BY <1>4
  <2>2. DOMAIN ends = Ids
    BY <1>4
  <2> QED BY <1>1, <2>1, <2>2
<1>6. ASSUME NEW id \in Ids
      PROVE  ends'[id] = IF id \in DOMAIN units' \/ id > minted' THEN 0 ELSE 1
  <2>0. id \in Int
    BY DEF Ids
  <2>1. CASE id \in DOMAIN roster
    <3>1. id \in DOMAIN units \/ id > minted
      BY <1>2, <1>3, <2>0, <2>1
    <3>2. ends[id] = 0 /\ ~(id > minted')
      BY <1>3, <1>4, <2>0, <2>1, <3>1
    <3>3. CASE id \in doomed
      <4>1. ends'[id] = 1 /\ id \notin DOMAIN units'
        BY <1>2, <1>5, <3>2, <3>3
      <4> QED BY <3>2, <4>1
    <3>4. CASE id \notin doomed
      <4>1. ends'[id] = 0 /\ id \in DOMAIN units'
        BY <1>2, <1>5, <2>1, <3>2, <3>4
      <4> QED BY <4>1
    <3> QED BY <3>3, <3>4
  <2>2. CASE id \notin DOMAIN roster
    <3>1. ends'[id] = ends[id] /\ id \notin DOMAIN units /\ id \notin DOMAIN units'
      BY <1>2, <1>5, <2>2
    <3>2. id > minted' <=> id > minted
      <4>1. id \notin (minted + 1)..minted'
        BY <1>2, <2>2
      <4> QED BY <1>3, <2>0, <4>1
    <3>3. ends[id] = IF id > minted THEN 0 ELSE 1
      BY <1>4, <3>1
    <3>4. ends'[id] = IF id > minted' THEN 0 ELSE 1
      BY <3>1, <3>2, <3>3
    <3> QED BY <3>1, <3>4
  <2> QED BY <2>1, <2>2
<1> QED BY <1>5, <1>6 DEF EndsExact

(* Two schedules without a clash in or between them, end to end.           *)
LEMMA SchedulesJoined ==
  ASSUME NEW T, NEW s \in Seq(T), NEW t \in Seq(T), NoClash(s), NoClash(t),
         \A e \in ToSet(s) : \A f \in ToSet(t) : ~Clash(e, f)
  PROVE  NoClash(s \o t)
<1> DEFINE n == Len(s)
           m == Len(t)
           u == s \o t
<1>1. /\ n \in Nat /\ m \in Nat /\ DOMAIN s = 1..n /\ DOMAIN t = 1..m /\ DOMAIN u = 1..n + m
      /\ \A i \in 1..n + m : u[i] = IF i <= n THEN s[i] ELSE t[i - n]
  BY ConcatProperties
<1> HIDE DEF n, m, u
<1>2. \A i \in DOMAIN s, j \in DOMAIN t : ~Clash(s[i], t[j]) /\ ~Clash(t[j], s[i])
  BY DEF ToSet, Clash
<1>3. ASSUME NEW i \in DOMAIN u, NEW j \in DOMAIN u, Clash(u[i], u[j]) PROVE i = j
  <2>1. i \in 1..n + m /\ j \in 1..n + m
    BY <1>1
  <2>2. CASE i <= n /\ j <= n
    <3>1. i \in DOMAIN s /\ j \in DOMAIN s /\ u[i] = s[i] /\ u[j] = s[j]
      BY <1>1, <2>1, <2>2
    <3> QED BY <1>3, <3>1 DEF NoClash
  <2>3. CASE i > n /\ j > n
    <3>1. i - n \in DOMAIN t /\ j - n \in DOMAIN t /\ u[i] = t[i - n] /\ u[j] = t[j - n]
      BY <1>1, <2>1, <2>3
    <3>2. i - n = j - n
      BY <1>3, <3>1 DEF NoClash
    <3> QED BY <1>1, <2>1, <3>2
  <2>4. CASE i <= n /\ j > n
    <3>1. i \in DOMAIN s /\ j - n \in DOMAIN t /\ u[i] = s[i] /\ u[j] = t[j - n]
      BY <1>1, <2>1, <2>4
    <3> QED BY <1>2, <1>3, <3>1
  <2>5. CASE i > n /\ j <= n
    <3>1. i - n \in DOMAIN t /\ j \in DOMAIN s /\ u[i] = t[i - n] /\ u[j] = s[j]
      BY <1>1, <2>1, <2>5
    <3> QED BY <1>2, <1>3, <3>1
  <2> QED BY <1>1, <2>1, <2>2, <2>3, <2>4, <2>5
<1> QED BY <1>3 DEF NoClash, u

(* The schedule of a tick: a refused visitor hands its chain on, and who   *)
(* returns of its own will opens none yet.                                 *)
LEMMA ChainsSettle ==
  ASSUME BoardInv, ChainInv,
         NEW roster, NEW depths, NEW served, NEW impatient, NEW blocked, NEW returns,
         Ticked(roster, depths, served, impatient, blocked, returns)
  PROVE  ChainInv'
<1> DEFINE doomed == Doomed(roster, served, impatient, blocked)
           refused == Refused(served, impatient, blocked)
           still == StillPending(tick + 1)
           again == Ascending(RetriesOf(roster, depths, refused))
           anew == Ascending(returns)
           Try(id) == Retry(roster, depths, id, tick + 1)
           Come(id) == Return(roster, id, tick + 1)
           R == [i \in DOMAIN again |-> Try(again[i])]
           N == [i \in DOMAIN anew |-> Come(anew[i])]
           T == ToSet(still) \cup {R[i] : i \in DOMAIN R} \cup {N[i] : i \in DOMAIN N}
<1>1. /\ pending' = still \o R \o N
      /\ depth' = [id \in DOMAIN depth |-> IF id \in doomed THEN 0 ELSE depths[id]]
  BY DEF Ticked, Settle, Doomed
<1>2. /\ doomed \subseteq DOMAIN roster /\ DOMAIN units' = DOMAIN roster \ doomed
      /\ \A id \in DOMAIN units' : units'[id].first = roster[id].first /\ units'[id].attempt = roster[id].attempt
  BY WhoStays
<1>3. Joined(roster) /\ Chained(roster, depths, still, minted') /\ returns \subseteq Completed(roster, served)
  BY DEF Ticked
<1>4. refused \subseteq doomed /\ returns \subseteq DOMAIN roster
  BY <1>3 DEF Doomed, Completed
<1>5. \A id \in RetriesOf(roster, depths, refused) : id \in refused /\ depths[id] < MaxRetries
  BY DEF RetriesOf
<1>6. /\ MaxRetries \in Nat /\ minted' \in Nat /\ minted' <= MaxUnits /\ DOMAIN roster \subseteq Ids
      /\ \A id \in DOMAIN roster : roster[id] \in Visitor
  BY <1>3, PipelineAssumption DEF Joined, BoardInv, BoardTyped, Ids
<1>7. RetriesOf(roster, depths, refused) \subseteq Ids
  BY <1>2, <1>4, <1>5, <1>6
<1>8. again \in Seq(Ids) /\ ToSet(again) = RetriesOf(roster, depths, refused) /\ NoRepeat(again)
  BY <1>7, InRosterOrder
<1>9. anew \in Seq(Ids) /\ ToSet(anew) = returns
  BY <1>4, <1>6, InRosterOrder
<1>10. \A i \in DOMAIN R : i \in DOMAIN again /\ R[i] = Try(again[i])
  OBVIOUS
<1>11. \A i \in DOMAIN N : i \in DOMAIN anew /\ N[i] = Come(anew[i])
  OBVIOUS
<1>12. still \in Seq(T) /\ R \in Seq(T) /\ N \in Seq(T)
  <2>1. still \in Seq(T)
    <3>1. still \in Seq(ToSet(still))
      BY <1>3 DEF Chained
    <3> HIDE DEF still
    <3> QED BY <3>1
  <2>2. R \in [1..Len(again) -> T] /\ Len(again) \in Nat
    BY <1>8
  <2>3. N \in [1..Len(anew) -> T] /\ Len(anew) \in Nat
    BY <1>9
  <2> HIDE DEF R, N, T
  <2> QED BY <2>1, <2>2, <2>3
<1>13. ToSet(R) = {R[i] : i \in DOMAIN R} /\ ToSet(N) = {N[i] : i \in DOMAIN N}
  BY DEF ToSet
<1>14. T = ToSet(still) \cup ToSet(R) \cup ToSet(N)
  BY <1>13
<1> HIDE DEF R, N, T, again, anew, still, doomed, refused
<1>15. /\ depths \in [Ids -> Nat] /\ \A id \in Ids : id > minted' => depths[id] = 0
       /\ \A id \in DOMAIN roster : /\ roster[id].attempt = depths[id] /\ depths[id] <= MaxRetries
                                    /\ roster[id].first <= minted' /\ roster[id].first \in Ids
       /\ \A a, b \in DOMAIN roster : roster[a].first = roster[b].first => a = b
       /\ NoClash(still)
       /\ \A entry \in ToSet(still) : /\ EntryOK(entry, minted')
                                      /\ \A id \in DOMAIN roster : entry.first # roster[id].first
  BY <1>3, <1>6 DEF Chained, Visitor
<1>16. ASSUME NEW i \in DOMAIN R
       PROVE  /\ again[i] \in refused /\ again[i] \in DOMAIN roster /\ R[i].first = roster[again[i]].first
              /\ EntryOK(R[i], minted')
  <2>1. again[i] \in ToSet(again)
    BY <1>10 DEF ToSet
  <2>2. again[i] \in refused /\ depths[again[i]] < MaxRetries /\ again[i] \in DOMAIN roster /\ again[i] \in Ids
    BY <1>2, <1>4, <1>5, <1>6, <1>8, <2>1
  <2> DEFINE id == again[i]
  <2>3. /\ R[i].retryOf = id /\ R[i].retryDepth = depths[id] + 1 /\ R[i].size = roster[id].size
        /\ R[i].first = roster[id].first /\ R[i].attempt = roster[id].attempt + 1
    BY <1>10 DEF Try, Retry
  <2> HIDE DEF id
  <2>4. id \in DOMAIN roster /\ id \in Ids /\ depths[id] < MaxRetries
    BY <2>2 DEF id
  <2>5. roster[id].attempt = depths[id] /\ depths[id] \in Nat /\ roster[id].first <= minted' /\ roster[id].first \in Ids
    BY <1>15, <2>4
  <2>6. R[i].attempt \in 0..MaxRetries /\ R[i].retryDepth = R[i].attempt
    BY <1>6, <2>3, <2>4, <2>5
  <2>7. R[i].size \in Nat \ {0}
    BY <1>6, <2>3, <2>4 DEF Visitor
  <2>8. R[i].retryOf \in Nat /\ R[i].retryOf # 0
    BY <2>3, <2>4 DEF Ids
  <2>9. R[i].first \in 0..minted' /\ R[i].first # 0
    BY <1>6, <2>3, <2>5 DEF Ids
  <2> QED BY <2>2, <2>3, <2>6, <2>7, <2>8, <2>9 DEF EntryOK, id
<1>17. ASSUME NEW i \in DOMAIN N PROVE N[i].first = 0 /\ EntryOK(N[i], minted')
  <2>1. anew[i] \in DOMAIN roster
    <3>1. anew[i] \in ToSet(anew)
      BY <1>11 DEF ToSet
    <3> QED BY <1>4, <1>9, <3>1
  <2>2. /\ N[i].retryOf = 0 /\ N[i].retryDepth = 0 /\ N[i].size = roster[anew[i]].size
        /\ N[i].first = 0 /\ N[i].attempt = 0
    BY <1>11 DEF Come, Return
  <2>3. N[i].size \in Nat \ {0}
    BY <1>6, <2>1, <2>2 DEF Visitor
  <2>4. 0 \in 0..MaxRetries /\ 0 \in 0..minted'
    BY <1>6
  <2> QED BY <2>2, <2>3, <2>4 DEF EntryOK
<1>18. NoClash(R)
  <2> SUFFICES ASSUME NEW i \in DOMAIN R, NEW j \in DOMAIN R, Clash(R[i], R[j]) PROVE i = j
    BY DEF NoClash
  <2>1. again[i] = again[j]
    BY <1>15, <1>16 DEF Clash
  <2> QED BY <1>8, <1>10, <2>1 DEF NoRepeat
<1>19. NoClash(N)
  BY <1>17 DEF NoClash, Clash
<1>20. still \o R \in Seq(T) /\ ToSet(still \o R) = ToSet(still) \cup ToSet(R) /\ NoClash(still \o R)
  <2>1. \A e \in ToSet(still) : \A f \in ToSet(R) : ~Clash(e, f)
    BY <1>13, <1>15, <1>16 DEF Clash
  <2> QED BY <1>12, <1>15, <1>18, <2>1, SetOfConcat, SchedulesJoined
<1>21. pending' \in Seq(T) /\ ToSet(pending') = T /\ NoClash(pending')
  <2>1. \A e \in ToSet(still \o R) : \A f \in ToSet(N) : ~Clash(e, f)
    BY <1>13, <1>17 DEF Clash
  <2>2. NoClash(still \o R \o N)
    BY <1>12, <1>19, <1>20, <2>1, SchedulesJoined
  <2>3. ToSet(still \o R \o N) = ToSet(still \o R) \cup ToSet(N) /\ still \o R \o N \in Seq(T)
    <3> DEFINE v == still \o R
    <3>1. v \in Seq(T)
      BY <1>20
    <3> HIDE DEF v
    <3>2. ToSet(v \o N) = ToSet(v) \cup ToSet(N)
      BY <1>12, <3>1, SetOfConcat
    <3>3. v \o N \in Seq(T)
      BY <1>12, <3>1, ConcatProperties
    <3> QED BY <3>2, <3>3 DEF v
  <2> QED BY <1>1, <1>14, <1>20, <2>2, <2>3
<1>22. ASSUME NEW entry \in ToSet(pending')
       PROVE  EntryOK(entry, minted') /\ \A id \in DOMAIN units' : entry.first # units'[id].first
  <2>1. DOMAIN units' \subseteq DOMAIN roster /\ \A id \in DOMAIN units' : units'[id].first = roster[id].first
    BY <1>2
  <2>2. CASE entry \in ToSet(still)
    BY <1>15, <2>1, <2>2
  <2>3. CASE entry \in ToSet(R)
    <3>1. PICK i \in DOMAIN R : entry = R[i]
      BY <1>13, <2>3
    <3>2. \A id \in DOMAIN units' : id # again[i]
      BY <1>2, <1>4, <1>16
    <3> QED BY <1>15, <1>16, <2>1, <3>1, <3>2
  <2>4. CASE entry \in ToSet(N)
    <3>1. PICK i \in DOMAIN N : entry = N[i]
      BY <1>13, <2>4
    <3>2. \A id \in DOMAIN units' : units'[id].first # 0
      BY <1>15, <2>1 DEF Ids
    <3> QED BY <1>17, <3>1, <3>2
  <2> QED BY <1>14, <1>21, <2>2, <2>3, <2>4
<1>23. /\ depth' \in [Ids -> Nat] /\ \A id \in Ids : id > minted' => depth'[id] = 0
       /\ \A id \in DOMAIN units' : depth'[id] = depths[id]
  <2>1. DOMAIN depth = Ids
    BY DEF ChainInv, Chained
  <2>2. depth' = [id \in Ids |-> IF id \in doomed THEN 0 ELSE depths[id]]
    BY <1>1, <1>15, <2>1
  <2>3. \A id \in DOMAIN units' : id \in Ids /\ id \notin doomed
    BY <1>2, <1>6
  <2> QED BY <1>15, <2>2, <2>3
<1>24. \A id \in DOMAIN units' : /\ units'[id].attempt = depth'[id] /\ depth'[id] <= MaxRetries
                                 /\ units'[id].first <= minted'
  BY <1>2, <1>15, <1>23
<1>25. \A a, b \in DOMAIN units' : units'[a].first = units'[b].first => a = b
  BY <1>2, <1>15
<1> QED BY <1>21, <1>22, <1>23, <1>24, <1>25 DEF ChainInv, Chained, NoClash, EntryOK, Clash, ToSet

-----------------------------------------------------------------------------
(* The inductive invariant: the board is in order, the index in step with  *)
(* it, one outcome was recorded for whoever left, and the chains of        *)
(* attempts are apart.                                                     *)
VisitorInv == BoardInv /\ IndexInv /\ EndsExact /\ ChainInv

(* It holds on an empty board.                                             *)
LEMMA VisitorInvInit == PipelineInit => VisitorInv
<1> SUFFICES ASSUME PipelineInit PROVE VisitorInv
  OBVIOUS
<1>1. MaxUnits \in Nat
  BY PipelineAssumption
<1>2. DOMAIN units = {} /\ minted = 0 /\ tick = 0
  BY DEF PipelineInit
<1>3. /\ queue = [n \in Node |-> <<>>] /\ seats = [n \in Node |-> {}] /\ pending = <<>>
      /\ depth = [id \in Ids |-> 0] /\ ends = [id \in Ids |-> 0]
      /\ member = [id \in Ids |-> {}] /\ signature = [n \in Node |-> NoSignature] /\ eyes = FreshEyes
  BY DEF PipelineInit, NowhereYet, Ids
<1>4. BoardTyped
  <2>1. units \in [DOMAIN units -> Visitor]
    BY <1>2 DEF PipelineInit
  <2>2. queue \in [Node -> Seq(Ids)] /\ seats \in [Node -> SUBSET Occupant]
    BY <1>3
  <2> QED BY <1>1, <1>2, <2>1, <2>2 DEF BoardTyped
<1>5. AtHome /\ Once
  BY <1>3 DEF AtHome, Once, ToSet, SeatedIn, NoRepeat, OneSeatEach
<1>6. IndexInv
  <2>1. \A n \in Node : Unseen(n)
    BY <1>3 DEF Unseen
  <2>2. NoSignature \in [len : Int, head : Nat]
    BY DEF NoSignature
  <2>3. IndexTyped
    BY <1>3, <2>2 DEF IndexTyped
  <2> QED BY <2>1, <2>3 DEF IndexInv
<1>7. EndsExact
  BY <1>2, <1>3 DEF EndsExact, Ids
<1>8. ChainInv
  <2>1. ToSet(pending) = {} /\ pending \in Seq(ToSet(pending)) /\ NoClash(pending)
    BY <1>3 DEF ToSet, NoClash
  <2>2. depth \in [Ids -> Nat] /\ \A id \in Ids : id > minted => depth[id] = 0
    BY <1>3
  <2> QED BY <1>2, <2>1, <2>2 DEF ChainInv, Chained
<1> QED BY <1>4, <1>5, <1>6, <1>7, <1>8 DEF VisitorInv, BoardInv

(* What a step does not touch stays in order.                              *)
LEMMA VisitorsUntouched ==
  ASSUME BoardInv, EndsExact, ChainInv,
         UNCHANGED <<tick, units, queue, seats, pending, depth, minted, ends>>
  PROVE  BoardInv' /\ EndsExact' /\ ChainInv'
<1>1. BoardTyped'
  BY DEF BoardInv, BoardTyped
<1>2. AtHome'
  BY DEF BoardInv, AtHome, Hops, SeatedIn, ToSet
<1>3. Once'
  BY DEF BoardInv, Once, NoRepeat, OneSeatEach, SeatedIn, ToSet
<1>4. EndsExact'
  BY DEF EndsExact
<1>5. ChainInv'
  BY DEF ChainInv, Chained, NoClash, EntryOK, Clash, ToSet
<1> QED BY <1>1, <1>2, <1>3, <1>4, <1>5 DEF BoardInv

(* The board never grows large while a visitor is on it.                   *)
GrowsOnlyEmpty == [][Grow => DOMAIN units = {}]_pipelineVars

(* Every step keeps the invariant, as long as the board grows large while  *)
(* nobody is on it.                                                        *)
LEMMA VisitorInvStep ==
  VisitorInv /\ [PipelineNext]_pipelineVars /\ [Grow => DOMAIN units = {}]_pipelineVars => VisitorInv'
<1> SUFFICES ASSUME VisitorInv, [PipelineNext]_pipelineVars, [Grow => DOMAIN units = {}]_pipelineVars
             PROVE  VisitorInv'
  OBVIOUS
<1> USE DEF VisitorInv
<1>1. CASE Tick
  <2>1. PICK roster, depths, served, impatient, blocked, returns :
          Ticked(roster, depths, served, impatient, blocked, returns)
    BY <1>1, TickNamed
  <2>2. BoardInv'
    BY <2>1, BoardSettles
  <2>3. IndexInv'
    BY <2>1, IndexSettles
  <2>4. EndsExact'
    BY <2>1, EndsSettle
  <2>5. ChainInv'
    BY <2>1, ChainsSettle
  <2> QED BY <2>2, <2>3, <2>4, <2>5
<1>2. CASE Grow
  <2>1. DOMAIN units = {} /\ UNCHANGED <<tick, boardVars, driverVars, minted, ends>>
    <3>1. indexed' # indexed
      BY <1>2 DEF Grow
    <3> QED BY <1>2, <3>1 DEF Grow, pipelineVars
  <2>2. UNCHANGED <<tick, units, queue, seats, pending, depth, member, signature, eyes, minted, ends>>
    BY <2>1 DEF boardVars, driverVars
  <2>3. BoardInv' /\ EndsExact' /\ ChainInv'
    BY <2>2, VisitorsUntouched
  <2>4. IndexTyped' /\ \A n \in Node : Unseen(n)' \/ Seen(n)'
    BY <2>1, <2>2 DEF IndexInv, IndexTyped, Unseen, Seen, SignatureOf, ToSet
  <2> QED BY <2>3, <2>4 DEF IndexInv
<1>3. CASE Restore
  <2>1. UNCHANGED <<tick, units, queue, seats, pending, depth, indexed, minted, ends>>
    BY <1>3 DEF Restore, boardVars
  <2>2. BoardInv' /\ EndsExact' /\ ChainInv'
    BY <2>1, VisitorsUntouched
  <2>3. /\ member' = [id \in Ids |-> {}] /\ signature' = [n \in Node |-> NoSignature]
        /\ eyes'.seenFirst = FALSE
    BY <1>3 DEF Restore, NowhereYet, Ids, FreshEyes
  <2>4. NoSignature \in [len : Int, head : Nat]
    BY DEF NoSignature
  <2>5. IndexTyped' /\ \A n \in Node : Unseen(n)'
    BY <2>3, <2>4 DEF IndexTyped, Unseen
  <2> QED BY <2>2, <2>5 DEF IndexInv
<1>4. CASE UNCHANGED pipelineVars
  <2>1. UNCHANGED <<tick, units, queue, seats, pending, depth, member, signature, eyes, indexed, minted, ends>>
    BY <1>4 DEF pipelineVars, boardVars, driverVars
  <2>2. BoardInv' /\ EndsExact' /\ ChainInv'
    BY <2>1, VisitorsUntouched
  <2>3. IndexInv'
    BY <2>1 DEF IndexInv, IndexTyped, Unseen, Seen, SignatureOf, ToSet
  <2> QED BY <2>2, <2>3
<1> QED BY <1>1, <1>2, <1>3, <1>4 DEF PipelineNext

(* It holds in every state, if the board grows only while it is empty.     *)
THEOREM VisitorInvAlways ==
  PipelineSpec /\ GrowsOnlyEmpty => []VisitorInv
BY VisitorInvInit, VisitorInvStep, PTL DEF PipelineSpec, GrowsOnlyEmpty

(* Whoever stands in a queue or holds a slot is a visitor of the roster,   *)
(* if the board grows only while it is empty.                              *)
THEOREM NoGhostsAlways ==
  PipelineSpec /\ GrowsOnlyEmpty => []NoGhosts
<1>1. VisitorInv => NoGhosts
  BY DEF VisitorInv, BoardInv, AtHome, Hops, NoGhosts
<1> QED BY <1>1, VisitorInvAlways, PTL

(* A visitor stands in one place, once, and where its path leads next, if  *)
(* the board grows only while it is empty.                                 *)
THEOREM PlacedOnceAtItsHopAlways ==
  PipelineSpec /\ GrowsOnlyEmpty => []PlacedOnceAtItsHop
<1>1. VisitorInv => PlacedOnceAtItsHop
  <2> SUFFICES ASSUME VisitorInv, NEW n \in Node
               PROVE  /\ \A i, j \in DOMAIN queue[n] : queue[n][i] = queue[n][j] => i = j
                      /\ \A a, b \in seats[n] : a.unit = b.unit => a = b
                      /\ ToSet(queue[n]) \cap SeatedIn(seats[n]) = {}
                      /\ \A id \in (ToSet(queue[n]) \cup SeatedIn(seats[n])) \cap DOMAIN units :
                           units[id].path # <<>> /\ units[id].path[1] = n
    BY DEF PlacedOnceAtItsHop
  <2>1. /\ NoRepeat(queue[n]) /\ OneSeatEach(seats[n])
        /\ ToSet(queue[n]) \cap SeatedIn(seats[n]) = {}
        /\ ToSet(queue[n]) \cup SeatedIn(seats[n]) \subseteq Hops(units, n)
    BY DEF VisitorInv, BoardInv, AtHome, Once
  <2>2. \A id \in ToSet(queue[n]) \cup SeatedIn(seats[n]) : units[id].path # <<>> /\ units[id].path[1] = n
    BY <2>1 DEF Hops
  <2> QED BY <2>1, <2>2 DEF NoRepeat, OneSeatEach
<1> QED BY <1>1, VisitorInvAlways, PTL

(* A visitor gets one outcome, in the tick in which it leaves the roster,  *)
(* if the board grows only while it is empty.                              *)
THEOREM EndsExactlyOnceAlways ==
  PipelineSpec /\ GrowsOnlyEmpty => []EndsExactlyOnce
<1>1. VisitorInv => EndsExactlyOnce
  <2> SUFFICES ASSUME VisitorInv, NEW id \in 1..minted
               PROVE  ends[id] = IF id \in DOMAIN units THEN 0 ELSE 1
    BY DEF EndsExactlyOnce
  <2>1. id \in Ids /\ ~(id > minted)
    BY PipelineAssumption DEF VisitorInv, BoardInv, BoardTyped, Ids
  <2> QED BY <2>1 DEF VisitorInv, EndsExact
<1> QED BY <1>1, VisitorInvAlways, PTL

(* The attempts of a visitor follow each other and are at most MaxRetries, *)
(* if the board grows only while it is empty.                              *)
THEOREM AttemptsAreBoundedAlways ==
  PipelineSpec /\ GrowsOnlyEmpty => []AttemptsAreBounded
<1>1. VisitorInv => AttemptsAreBounded
  <2> SUFFICES ASSUME VisitorInv PROVE AttemptsAreBounded
    OBVIOUS
  <2>1. \A id \in DOMAIN units : units[id].attempt <= MaxRetries
    BY DEF VisitorInv, ChainInv, Chained
  <2>2. \A i \in DOMAIN pending : pending[i] \in ToSet(pending)
    BY DEF ToSet
  <2>3. \A entry \in ToSet(pending) : EntryOK(entry, minted)
    BY DEF VisitorInv, ChainInv, Chained
  <2>4. \A i \in DOMAIN pending : pending[i].attempt <= MaxRetries
    BY <2>2, <2>3, PipelineAssumption DEF EntryOK
  <2>5. \A i, j \in DOMAIN pending : pending[i].first = pending[j].first /\ pending[i].first # 0 => i = j
    BY DEF VisitorInv, ChainInv, Chained, NoClash, Clash
  <2>6. \A id \in DOMAIN units : \A i \in DOMAIN pending : pending[i].first # units[id].first
    BY <2>2 DEF VisitorInv, ChainInv, Chained
  <2> QED BY <2>1, <2>4, <2>5, <2>6 DEF AttemptsAreBounded
<1> QED BY <1>1, VisitorInvAlways, PTL

(* On a board that grows into the index only while nobody is on it, the    *)
(* index knows where everyone waits unless a sweep is owed: the arithmetic *)
(* of the queue lengths names every joiner.  A board that grows under its  *)
(* visitors has no such guarantee.                                         *)
THEOREM WaitersAreIndexedAlways ==
  PipelineSpec /\ GrowsOnlyEmpty => []WaitersAreIndexed
<1>1. VisitorInv => WaitersAreIndexed
  <2> SUFFICES ASSUME VisitorInv, indexed, ~BootSweepDue, NEW n \in Node, NEW id \in ToSet(queue[n])
               PROVE  n \in member[id]
    BY DEF WaitersAreIndexed
  <2>1. id \in DOMAIN units
    BY DEF VisitorInv, BoardInv, AtHome, Hops
  <2>2. eyes.seenFirst
    BY <2>1 DEF BootSweepDue
  <2>3. queue[n] # <<>>
    BY DEF ToSet
  <2> QED BY <2>2, <2>3 DEF VisitorInv, IndexInv, Unseen, Seen
<1> QED BY <1>1, VisitorInvAlways, PTL
=============================================================================
