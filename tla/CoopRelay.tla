------------------------------ MODULE CoopRelay ------------------------------
(***************************************************************************)
(* The co-op relay of tools/relay/src/relay.ts: the sole stamp and ledger  *)
(* authority of an incident room.  Its host advances the stamp clock;      *)
(* seats join, leave and submit; every accepted record is stamped          *)
(* (tick, seq), appended to the shared log and pushed to the inbox of      *)
(* every live seat.  A refused call throws and changes nothing, so it is   *)
(* not a step.                                                             *)
(***************************************************************************)
EXTENDS SeatLedger

CONSTANTS Kind,               \* COOP_TIMELINE_KINDS, "action" among them
          AutoCatchUpOnJoin,  \* option: joinSeat delivers the missed history
          MaxTick,            \* bound: the clock stops here
          MaxRecords          \* bound: length of the shared log

ASSUME RelayAssumption ==
  /\ AutoCatchUpOnJoin \in BOOLEAN
  /\ MaxTick \in Nat
  /\ MaxRecords \in Nat

VARIABLES currentTick,  \* the stamp clock
          nextSeq,      \* lifetime-monotonic sequence number
          ledger,       \* seat ledger, <<>> before the first join
          log,          \* the shared log
          inbox         \* per participant, what the relay delivered, in arrival order

relayVars == <<currentTick, nextSeq, ledger, log, inbox>>

Record == [participantId : Participant, tick : Nat, seq : Nat, kind : Kind]

(***************************************************************************)
(* Stamps.  NoStamp is the cursor of a reader that has seen nothing.       *)
(***************************************************************************)
StampOf(record) == [tick |-> record.tick, seq |-> record.seq]

NoStamp == [tick |-> -1, seq |-> -1]

StampBefore(a, b) ==
  \/ a.tick < b.tick
  \/ a.tick = b.tick /\ a.seq < b.seq

StampsOf(records) == {StampOf(records[i]) : i \in DOMAIN records}

(* lastSeenStamp: the newest stamp of an inbox, whatever the arrival order. *)
LastSeen(records) ==
  IF records = <<>> THEN NoStamp
  ELSE CHOOSE s \in StampsOf(records) : \A t \in StampsOf(records) : ~StampBefore(s, t)

(***************************************************************************)
(* pageCoopLog: the first `limit` records strictly after the cursor.  The  *)
(* log is in stamp order, so those are the records that follow the ones    *)
(* the cursor has passed.                                                  *)
(***************************************************************************)
(* Faulty variant: a cursor that compares ticks only. *)
PassedByTick(records, after) ==
  Cardinality({i \in DOMAIN records : ~(after.tick < records[i].tick)})

Passed(records, after) ==
  Cardinality({i \in DOMAIN records : ~StampBefore(after, records[i])})

Smaller(a, b) == IF a <= b THEN a ELSE b

PageCoopLog(records, after, limit) ==
  LET k == Passed(records, after)
  IN  SubSeq(records, k + 1, Smaller(k + limit, Len(records)))

(***************************************************************************)
(* assertRelayAppendStep: the one-pass append check.                       *)
(***************************************************************************)
AppendStepOK(records, stamp) ==
  records # <<>> => StampBefore(records[Len(records)], stamp)

(* Faulty variants: a broadcast to departed seats too, and one that skips  *)
(* the author.                                                             *)
BroadcastToAll(record) ==
  [p \in Participant |->
     IF EverSeated(ledger, p) THEN Append(inbox[p], record) ELSE inbox[p]]

BroadcastToOthers(record) ==
  [p \in Participant |->
     IF p \in LiveSeats(ledger) \ {record.participantId} THEN Append(inbox[p], record) ELSE inbox[p]]

(* Whom broadcast reaches: the rows without leftAtTick. *)
Broadcast(record) ==
  [p \in Participant |->
     IF p \in LiveSeats(ledger) THEN Append(inbox[p], record) ELSE inbox[p]]

-----------------------------------------------------------------------------
(* Faulty variant: the seq stream starts below zero. *)
RelayInitSeqBelowZero ==
  /\ currentTick = 0
  /\ nextSeq = -1
  /\ ledger = <<>>
  /\ log = <<>>
  /\ inbox = [p \in Participant |-> <<>>]

RelayInit ==
  /\ currentTick = 0
  /\ nextSeq = 0
  /\ ledger = <<>>
  /\ log = <<>>
  /\ inbox = [p \in Participant |-> <<>>]

(* Faulty variant: seq restarts with every tick. *)
AdvanceToResetsSeq(tick) ==
  /\ tick >= currentTick
  /\ currentTick' = tick
  /\ nextSeq' = 0
  /\ UNCHANGED <<ledger, log, inbox>>

(* advanceTo refuses a rewind and consumes nothing from the seq stream. *)
AdvanceTo(tick) ==
  /\ tick >= currentTick
  /\ currentTick' = tick
  /\ UNCHANGED <<nextSeq, ledger, log, inbox>>

(* joinSeat; the page loop of deliverCatchUp ends when no page is left, so  *)
(* it delivers the whole tail after the seat's cursor.                      *)
JoinSeat(p) ==
  LET seat == OpenRow(p, currentTick)
  IN  /\ CanSeat(ledger, seat)
      /\ ledger' = SeatParticipant(ledger, seat)
      /\ inbox' = IF AutoCatchUpOnJoin
                  THEN [inbox EXCEPT ![p] = @ \o PageCoopLog(log, LastSeen(@), Len(log))]
                  ELSE inbox
      /\ UNCHANGED <<currentTick, nextSeq, log>>

LeaveSeat(p) ==
  /\ CanVacate(ledger, p, currentTick)
  /\ ledger' = VacateSeat(ledger, p, currentTick)
  /\ UNCHANGED <<currentTick, nextSeq, log, inbox>>

(* submit: `doorShaped` is the verdict of assertActionEnvelope, which only *)
(* action records are put through.                                         *)
Submit(p, kind, doorShaped) ==
  LET record == [participantId |-> p, tick |-> currentTick, seq |-> nextSeq, kind |-> kind]
  IN  /\ Len(log) < MaxRecords  \* bound
      /\ SeatedAt(ledger, p, currentTick)
      /\ kind = "action" => doorShaped
      /\ AppendStepOK(log, record)
      /\ nextSeq' = nextSeq + 1
      /\ log' = Append(log, record)
      /\ inbox' = Broadcast(record)
      /\ UNCHANGED <<currentTick, ledger>>

(* catchUpPage: a host pumps one page into the inbox of a seated reader. *)
CatchUpPage(p, limit) ==
  /\ SeatedAt(ledger, p, currentTick)
  /\ inbox' = [inbox EXCEPT ![p] = @ \o PageCoopLog(log, LastSeen(@), limit)]
  /\ UNCHANGED <<currentTick, nextSeq, ledger, log>>

RelayNext ==
  \/ \E t \in 0..MaxTick : AdvanceTo(t)
  \/ \E p \in Participant : JoinSeat(p)
  \/ \E p \in Participant : LeaveSeat(p)
  \/ \E p \in Participant, kind \in Kind, doorShaped \in BOOLEAN : Submit(p, kind, doorShaped)
  \/ \E p \in Participant, limit \in 1..MaxRecords : CatchUpPage(p, limit)

RelaySpec == RelayInit /\ [][RelayNext]_relayVars

-----------------------------------------------------------------------------
(* TypeOK: every variable of the relay stays in its type. *)
TypeOK ==
  /\ currentTick \in Nat
  /\ nextSeq \in Nat
  /\ ledger \in Seq(Row)
  /\ log \in Seq(Record)
  /\ inbox \in [Participant -> Seq(Record)]

(* The log is strictly ascending by seq and never falls back in tick, no   *)
(* stamp is ahead of the clock or of the seq stream (R1: the stream never  *)
(* resets, so no advance of the clock can make two records share a slot).  *)
StampsAscend ==
  /\ \A i \in DOMAIN log : log[i].tick <= currentTick /\ log[i].seq < nextSeq
  /\ \A i, j \in DOMAIN log : i < j => log[i].tick <= log[j].tick /\ log[i].seq < log[j].seq

(* Every record was written by a participant who held a tenure then: one   *)
(* of its author's rows spans the stamp.  A row may have been closed at    *)
(* the very tick of the stamp, after the submit.                           *)
HeldTenure(rows, p, tick) ==
  \E i \in DOMAIN rows :
    /\ rows[i].participantId = p
    /\ rows[i].joinedAtTick <= tick
    /\ IsOpen(rows[i]) \/ tick <= rows[i].leftAtTick

AuthorsHeldTenure == \A i \in DOMAIN log : HeldTenure(ledger, log[i].participantId, log[i].tick)

(* A live seat that catches up on join has received the whole shared log,  *)
(* in log order; a departed one has a frozen prefix of it.                 *)
InboxesFollowLog ==
  AutoCatchUpOnJoin =>
    \A p \in Participant :
      /\ Len(inbox[p]) <= Len(log)
      /\ \A i \in DOMAIN inbox[p] : inbox[p][i] = log[i]
      /\ p \in LiveSeats(ledger) => Len(inbox[p]) = Len(log)
      /\ p \notin LiveSeats(ledger) => \A i \in DOMAIN inbox[p] : \E k \in DOMAIN ledger :
           ledger[k].participantId = p /\ inbox[p][i].tick <= ledger[k].leftAtTick

(* validateCoopSeatLedger probes join instants only; no tick at all has    *)
(* more than MaxWriters seats taken, and no one sits in two tenures at     *)
(* once.                                                                   *)
NeverOverCapacity ==
  \A t \in 0..currentTick :
    /\ Cardinality(OpenSeats(ledger, t)) <= MaxWriters
    /\ \A i, j \in OpenSeats(ledger, t) :
         ledger[i].participantId = ledger[j].participantId => i = j

(* A row and the same tenure one step later: its end may have been written *)
(* at the current tick, if it was open.                                    *)
SameTenure(row, next) ==
  /\ next.participantId = row.participantId
  /\ next.joinedAtTick = row.joinedAtTick
  /\ next.leftAtTick # row.leftAtTick => IsOpen(row) /\ next.leftAtTick = currentTick

(* The ledger is append-only history: a step keeps every row it had, in    *)
(* their order, writes no end but that of an open tenure, now, and adds no *)
(* row but that of a tenure that opens now.                                *)
LedgerIsHistory ==
  [][ \E place \in [DOMAIN ledger -> DOMAIN ledger'] :
        /\ \A i, j \in DOMAIN ledger : i < j => place[i] < place[j]
        /\ \A i \in DOMAIN ledger : SameTenure(ledger[i], ledger'[place[i]])
        /\ \A k \in DOMAIN ledger' : \/ \E i \in DOMAIN ledger : k = place[i]
                                     \/ \E p \in Participant : ledger'[k] = OpenRow(p, currentTick) ]_relayVars

(* With catch-up on join the relay is a shared timeline.                  *)
Timeline == INSTANCE SharedTimeline WITH
  Reader <- Participant,
  Entry <- [participantId : Participant, tick : 0..MaxTick, seq : 0..MaxRecords, kind : Kind],
  Capacity <- MaxWriters,
  timeline <- log,
  view <- inbox,
  live <- LiveSeats(ledger)

ImplementsTimeline == Timeline!Spec
=============================================================================
