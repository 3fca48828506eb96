----------------------------- MODULE SeatLedger -----------------------------
(***************************************************************************)
(* The co-op seat ledger of packages/sim-core/src/save/coop.ts: the pure   *)
(* operations on a company node's append-only tenure history.  A ledger is *)
(* a sequence of rows; a row is one tenure [joinedAtTick, leftAtTick) of   *)
(* one participant.  The ledger an owner has not opened yet (undefined in  *)
(* the code) is the empty sequence: no operation returns an empty ledger.  *)
(*                                                                         *)
(* Participant ids are compared by code unit, so they are modelled by      *)
(* their rank in that order, a natural number.                             *)
(***************************************************************************)
EXTENDS Integers, Sequences, FiniteSets

CONSTANTS Participant,  \* participant ids, by code-unit rank
          MaxWriters    \* COOP_MAX_SEAT_WRITERS

ASSUME ParticipantAssumption == Participant \subseteq Nat
ASSUME MaxWritersAssumption == MaxWriters \in Nat \ {0}

Open == -1   \* leftAtTick of a tenure that has not ended

Row == [participantId : Participant, joinedAtTick : Nat, leftAtTick : Nat \cup {Open}]

OpenRow(p, tick) == [participantId |-> p, joinedAtTick |-> tick, leftAtTick |-> Open]

IsOpen(row) == row.leftAtTick = Open

(***************************************************************************)
(* compareSeats: joinedAtTick first, then the participant's code units.    *)
(***************************************************************************)
SeatBefore(a, b) ==
  \/ a.joinedAtTick < b.joinedAtTick
  \/ a.joinedAtTick = b.joinedAtTick /\ a.participantId < b.participantId

(***************************************************************************)
(* The half-open window of one tenure.                                     *)
(***************************************************************************)
Encloses(row, tick) ==
  /\ row.joinedAtTick <= tick
  /\ IsOpen(row) \/ tick < row.leftAtTick

(* Faulty variant: a tenure that ended still seats its participant. *)
SeatedAtIgnoringEnd(ledger, p, tick) ==
  \E i \in DOMAIN ledger : ledger[i].participantId = p /\ ledger[i].joinedAtTick <= tick

SeatedAt(ledger, p, tick) ==
  \E i \in DOMAIN ledger : ledger[i].participantId = p /\ Encloses(ledger[i], tick)

EverSeated(ledger, p) == \E i \in DOMAIN ledger : ledger[i].participantId = p

(***************************************************************************)
(* The laws of validateCoopSeatLedger, one operator each.                  *)
(***************************************************************************)
TenureIsPositive(ledger) ==
  \A i \in DOMAIN ledger : IsOpen(ledger[i]) \/ ledger[i].leftAtTick > ledger[i].joinedAtTick

CanonicalOrder(ledger) ==
  \A i \in 2..Len(ledger) : SeatBefore(ledger[i-1], ledger[i])

OneTenureAtATime(ledger) ==
  \A i, j \in DOMAIN ledger :
    /\ i < j
    /\ ledger[i].participantId = ledger[j].participantId
    /\ \A k \in (i+1)..(j-1) : ledger[k].participantId # ledger[i].participantId
    => ~IsOpen(ledger[i]) /\ ledger[j].joinedAtTick >= ledger[i].leftAtTick

OpenSeats(ledger, tick) == {i \in DOMAIN ledger : Encloses(ledger[i], tick)}

(* Faulty variant: one seat too many. *)
AtMostMaxWritersOffByOne(ledger) ==
  \A i \in DOMAIN ledger : Cardinality(OpenSeats(ledger, ledger[i].joinedAtTick)) <= MaxWriters + 1

AtMostMaxWriters(ledger) ==
  \A i \in DOMAIN ledger : Cardinality(OpenSeats(ledger, ledger[i].joinedAtTick)) <= MaxWriters

ValidLedger(ledger) ==
  /\ ledger # <<>>
  /\ TenureIsPositive(ledger)
  /\ CanonicalOrder(ledger)
  /\ OneTenureAtATime(ledger)
  /\ AtMostMaxWriters(ledger)

(***************************************************************************)
(* seatParticipant: the seat goes in front of the first row it does not    *)
(* follow, and the whole ledger is validated again (a refusal throws).     *)
(***************************************************************************)
InsertPosition(ledger, seat) ==
  CHOOSE k \in 1..(Len(ledger) + 1) :
    /\ \A i \in 1..(k-1) : SeatBefore(ledger[i], seat)
    /\ k <= Len(ledger) => ~SeatBefore(ledger[k], seat)

SeatParticipant(ledger, seat) ==
  LET k == InsertPosition(ledger, seat)
  IN  [i \in 1..(Len(ledger) + 1) |->
         IF i < k THEN ledger[i] ELSE IF i = k THEN seat ELSE ledger[i-1]]

CanSeat(ledger, seat) == ValidLedger(SeatParticipant(ledger, seat))

(***************************************************************************)
(* vacateSeat: close the participant's last open tenure; refused without   *)
(* one, and refused when the closed ledger is not valid.                   *)
(***************************************************************************)
OpenRows(ledger, p) == {i \in DOMAIN ledger : ledger[i].participantId = p /\ IsOpen(ledger[i])}

(* Faulty variant: the seat is taken off the ledger. *)
VacateSeatForgets(ledger, p, tick) ==
  LET k == CHOOSE i \in OpenRows(ledger, p) : TRUE
  IN  SubSeq(ledger, 1, k - 1) \o SubSeq(ledger, k + 1, Len(ledger))

VacateSeat(ledger, p, tick) ==
  LET openIndex == CHOOSE i \in OpenRows(ledger, p) : \A j \in OpenRows(ledger, p) : j <= i
  IN  [ledger EXCEPT ![openIndex].leftAtTick = tick]

CanVacate(ledger, p, tick) ==
  OpenRows(ledger, p) # {} /\ ValidLedger(VacateSeat(ledger, p, tick))

(***************************************************************************)
(* The participants of the open tenures, whom every fan-out addresses.     *)
(***************************************************************************)
LiveSeats(ledger) == {ledger[i].participantId : i \in {j \in DOMAIN ledger : IsOpen(ledger[j])}}
=============================================================================
