------------------------------ MODULE SeatSims ------------------------------
(***************************************************************************)
(* The relay-only topology: every seat of the room runs a simulation of    *)
(* its own (apps/proto/src/chrome/coopRoomWire.ts over the runner of       *)
(* tools/relay/src/runner.ts) and feeds it the actions its client has      *)
(* received.  The local clock moves when the user pumps, and a tick        *)
(* executes the actions stamped at that tick which have arrived by then.   *)
(*                                                                         *)
(* pump() drains the mailbox and runs the door.  The drain is the Deliver  *)
(* steps of CoopRoom that precede a Pump: a frame not delivered by then    *)
(* is still on its way.                                                    *)
(***************************************************************************)
EXTENDS CoopRoom

VARIABLES localTick,  \* per seat, the tick its simulation executes next
          performed   \* per seat, the actions its door was given at their tick, in order

simsVars == <<localTick, performed>>
seatSimsVars == <<roomVars, simsVars>>

SeatSimsInit ==
  /\ RoomInit
  /\ localTick = [p \in Participant |-> 0]
  /\ performed = [p \in Participant |-> <<>>]

(* feedToDoor, as far as the ticks up to `last` are concerned.             *)
Due(p, last) ==
  {r \in ToSet(received[p]) : r.kind = "action" /\ r.tick \in localTick[p]..last}

(* Faulty variant: the door executes in arrival order. *)
InArrivalOrder(p, last) ==
  LET IsDue(record) == record \in Due(p, last)
  IN  SelectSeq(received[p], IsDue)

(* orderCoopTimeline: there is none when two records claim one slot.       *)
InStampOrder(p, last) ==
  CHOOSE ordered \in Bijection(1..Cardinality(Due(p, last)), Due(p, last)) :
    \A i, j \in DOMAIN ordered : i < j => StampBefore(ordered[i], ordered[j])

(* Faulty variant: the clock stays on the tick it ran up to.               *)
RunTicksShort(p, last) ==
  /\ performed' = [performed EXCEPT ![p] = @ \o InStampOrder(p, last)]
  /\ localTick' = [localTick EXCEPT ![p] = last]
  /\ UNCHANGED roomVars

RunTicks(p, last) ==
  /\ performed' = [performed EXCEPT ![p] = @ \o InStampOrder(p, last)]
  /\ localTick' = [localTick EXCEPT ![p] = last + 1]
  /\ UNCHANGED roomVars

(* One tick of pump(n).                                                    *)
Pump(p) ==
  /\ localTick[p] <= MaxTick  \* bound
  /\ RunTicks(p, localTick[p])

(* catchUp runs up to and including the tick of the newest stamp known.    *)
CatchUp(p) ==
  /\ known[p].lastStamp # NoStamp
  /\ localTick[p] <= known[p].lastStamp.tick
  /\ RunTicks(p, known[p].lastStamp.tick)

(* submitAction: the builder of the verb throws on arguments without the   *)
(* shape of the door, before a frame leaves the seat.                      *)
BuildersPass(frames) ==
  \A i \in DOMAIN frames : frames[i].kind = "submit" => frames[i].doorShaped

SeatSimsNext ==
  \/ RoomNext /\ BuildersPass(hubInbox') /\ UNCHANGED simsVars
  \/ \E p \in Participant : Pump(p) \/ CatchUp(p)

SeatSimsSpec == SeatSimsInit /\ [][SeatSimsNext]_seatSimsVars

-----------------------------------------------------------------------------
(* Whatever the carrier does, a seat's door executes an action of the      *)
(* shared log at most once and in stamp order, and always at its own tick. *)
PerformedOnceInOrder ==
  \A p \in Participant : \A i, j \in DOMAIN performed[p] :
    /\ performed[p][i] \in ToSet(log)
    /\ performed[p][i].tick < localTick[p]
    /\ i < j => StampBefore(performed[p][i], performed[p][j])

(* Actions that arrived when the seat's clock had passed them. *)
DeadFrames(p) ==
  {r \in ToSet(received[p]) : r.kind = "action" /\ r.tick < localTick[p]} \ ToSet(performed[p])

SameFeedAndClock(p, q) == ToSet(received[p]) = ToSet(received[q]) /\ localTick[p] = localTick[q]

(* Two seats that came by the same records in time executed the same       *)
(* actions in the same order, however differently the records arrived.     *)
InTimeSeatsAgree ==
  \A p, q \in Participant :
    SameFeedAndClock(p, q) /\ DeadFrames(p) = {} /\ DeadFrames(q) = {} => performed[p] = performed[q]
=============================================================================
