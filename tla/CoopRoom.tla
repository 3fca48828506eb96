------------------------------ MODULE CoopRoom ------------------------------
(***************************************************************************)
(* An incident room over a transport: the hub, the carrier toward each     *)
(* seat, and the transport client of tools/transport/src/client.ts at      *)
(* every seat.  The relay is built as the wire hosts build it: joining     *)
(* opens a dry tenure and the client pages its history itself.             *)
(*                                                                         *)
(* The carrier is FIFO toward the hub.  Toward a seat it delivers in       *)
(* order, or as the in-memory carrier may: carrier is the set of what it   *)
(* does to a seat's frames.                                                *)
(***************************************************************************)
EXTENDS RelayHub, SequencesExt, Selections

CONSTANTS Carriers,                     \* the carriers of the run, see carrier
          ClientCalls,                  \* the client operations the seats use
          MaxCalls,                     \* bound: calls of one client
          MaxCallsUnruly,               \* the same over a carrier that is not orderly
          MaxQueue,                     \* bound: frames waiting at the hub
          MaxMail                       \* bound: frames in flight to one seat

ASSUME RoomAssumption ==
  /\ Carriers \subseteq SUBSET {"reorders", "duplicates", "loses"}
  /\ ClientCalls \subseteq {"open", "join", "leave", "submit", "resume"}
  /\ ~AutoCatchUpOnJoin

VARIABLES carrier,     \* what the carrier does to frames on their way to a seat
          mail,        \* per seat, frames in flight to it, in send order
          received,    \* per seat, client.records(): absorbed records in arrival order
          catchingUp,  \* per seat, the flag behind client.isCaughtUp()
          known,       \* per seat, the last seat-state applied
          calls        \* per seat, how often the client was used (bound)

clientVars == <<received, catchingUp, known, calls>>
roomVars == <<hubVars, carrier, mail, clientVars>>

LastLogStamp(records) == IF records = <<>> THEN NoStamp ELSE StampOf(records[Len(records)])

(***************************************************************************)
(* Frames toward a seat.                                                   *)
(***************************************************************************)
BroadcastFrame(record) == [kind |-> "broadcast", record |-> record]
PageFrame(records, hasMore) == [kind |-> "catchup-page", records |-> records, hasMore |-> hasMore]
SeatStateFrame(rows, lastStamp) == [kind |-> "seat-state", ledger |-> rows, lastStamp |-> lastStamp]
FaultFrame == [kind |-> "fault"]

(* The hub fans frames to the seats that are live after the step. *)
Fan(frames) ==
  /\ mail' = [p \in Participant |-> IF p \in LiveSeats(ledger') THEN mail[p] \o frames ELSE mail[p]]
  /\ \A p \in Participant : Len(mail'[p]) <= MaxMail  \* bound

Send(p, frame) ==
  /\ Len(mail[p]) < MaxMail  \* bound
  /\ mail' = [mail EXCEPT ![p] = Append(@, frame)]

SeatStates == SeatStateFrame(ledger', LastLogStamp(log'))

-----------------------------------------------------------------------------
RoomInit ==
  /\ HubInit
  /\ carrier \in Carriers
  /\ mail = [p \in Participant |-> <<>>]
  /\ received = [p \in Participant |-> <<>>]
  /\ catchingUp = [p \in Participant |-> FALSE]
  /\ known = [p \in Participant |-> [ledger |-> <<>>, lastStamp |-> NoStamp]]
  /\ calls = [p \in Participant |-> 0]

(***************************************************************************)
(* The hub.                                                                *)
(***************************************************************************)
HostTick == Idle /\ AdvanceTo(currentTick + 1) /\ currentTick < MaxTick
            /\ UNCHANGED <<hubInbox, batch, mail, clientVars>>

Drain == Poll /\ UNCHANGED <<relayVars, mail, clientVars>>

RoomJoin(p) == HandleJoin(p) /\ Fan(<<SeatStates>>) /\ UNCHANGED clientVars

(* Faulty variant: the seats left in the room are not told. *)
RoomLeaveSilently(p) == HandleLeave(p) /\ UNCHANGED <<mail, clientVars>>

RoomLeave(p) == HandleLeave(p) /\ Fan(<<SeatStates>>) /\ UNCHANGED clientVars

RoomSubmit(p, kind, doorShaped) ==
  /\ HandleSubmit(p, kind, doorShaped)
  /\ Fan(<<BroadcastFrame(log'[Len(log')]), SeatStates>>)
  /\ UNCHANGED clientVars

(* hasMore: a page that holds a record is followed by another one exactly  *)
(* when the log goes on after its tail.                                    *)
HasMore(page) ==
  page # <<>> /\ PageCoopLog(log, StampOf(page[Len(page)]), 1) # <<>>

RoomCatchUp ==
  /\ HandleCatchUpRequest
  /\ LET page == PageCoopLog(log, Head(batch).after, PageSize)
     IN  Send(Head(batch).participantId, PageFrame(page, HasMore(page)))
  /\ UNCHANGED clientVars

RoomFault == RecordFault /\ Send(Head(batch).participantId, FaultFrame) /\ UNCHANGED clientVars

RoomEscape == Escape /\ UNCHANGED <<mail, clientVars>>

(***************************************************************************)
(* The client.  absorb() drops a record whose stamp it has seen.           *)
(***************************************************************************)
(* Faulty variant: no idempotence gate. *)
AbsorbBlindly(records, news) == records \o news

Absorb(records, news) ==
  LET unseen == {record \in ToSet(news) : StampOf(record) \notin StampsOf(records)}
  IN  records \o Selected(news, unseen)

Request(p, records) == CatchUpRequestFrame(p, LastSeen(records))

opened == {p \in Participant : calls[p] > 0}

Call(p, call, frames) ==
  /\ call \in ClientCalls
  /\ (call = "open") = (p \notin opened)
  /\ calls[p] < IF carrier = {} THEN MaxCalls ELSE MaxCallsUnruly  \* bound
  /\ Len(hubInbox) + Len(frames) <= MaxQueue    \* bound
  /\ calls' = [calls EXCEPT ![p] = @ + 1]
  /\ hubInbox' = hubInbox \o frames
  /\ UNCHANGED <<relayVars, batch, mail, received, known>>

(* Faulty variant: the seat joins and never asks for its history. *)
OpenRoomWithoutCatchUp(p) == Call(p, "open", <<JoinFrame(p)>>) /\ UNCHANGED catchingUp

(* createCoopRoomWire: join() and runCatchUp() back to back. *)
OpenRoom(p) ==
  /\ catchingUp' = [catchingUp EXCEPT ![p] = TRUE]
  /\ Call(p, "open", <<JoinFrame(p), Request(p, received[p])>>)

ClientJoin(p) == Call(p, "join", <<JoinFrame(p)>>) /\ UNCHANGED catchingUp

ClientLeave(p) == Call(p, "leave", <<LeaveFrame(p)>>) /\ UNCHANGED catchingUp

ClientSubmit(p, kind, doorShaped) ==
  /\ kind = "action" \/ doorShaped
  /\ Call(p, "submit", <<SubmitFrame(p, kind, doorShaped)>>)
  /\ UNCHANGED catchingUp

(* runCatchUp and resume are one call. *)
Resume(p) ==
  /\ catchingUp' = [catchingUp EXCEPT ![p] = TRUE]
  /\ Call(p, "resume", <<Request(p, received[p])>>)

(***************************************************************************)
(* handleFrame: one delivered frame.                                       *)
(***************************************************************************)
ApplyBroadcast(p, frame) ==
  /\ frame.kind = "broadcast"
  /\ received' = [received EXCEPT ![p] = Absorb(@, <<frame.record>>)]
  /\ UNCHANGED <<hubInbox, catchingUp, known>>

(* Faulty variant: the chain of pages stops after the first. *)
ApplyPageWithoutChain(p, frame) ==
  /\ frame.kind = "catchup-page"
  /\ received' = [received EXCEPT ![p] = Absorb(@, frame.records)]
  /\ catchingUp' = [catchingUp EXCEPT ![p] = @ /\ frame.hasMore]
  /\ UNCHANGED <<hubInbox, known>>

ApplyPage(p, frame) ==
  /\ frame.kind = "catchup-page"
  /\ received' = [received EXCEPT ![p] = Absorb(@, frame.records)]
  /\ catchingUp' = [catchingUp EXCEPT ![p] = @ /\ frame.hasMore]
  /\ hubInbox' = IF frame.hasMore /\ catchingUp[p] THEN Append(hubInbox, Request(p, received'[p])) ELSE hubInbox
  /\ UNCHANGED known

ApplySeatState(p, frame) ==
  /\ frame.kind = "seat-state"
  /\ known' = [known EXCEPT ![p] = [ledger |-> frame.ledger, lastStamp |-> frame.lastStamp]]
  /\ UNCHANGED <<hubInbox, received, catchingUp>>

ApplyFault(p, frame) ==
  /\ frame.kind = "fault"
  /\ UNCHANGED <<hubInbox, received, catchingUp, known>>

Deliver(p) ==
  /\ \E i \in DOMAIN mail[p] :
       /\ "reorders" \in carrier \/ i = 1
       /\ \/ mail' = [mail EXCEPT ![p] = RemoveAt(@, i)]
          \/ "duplicates" \in carrier /\ UNCHANGED mail
       /\ \/ ApplyBroadcast(p, mail[p][i])
          \/ ApplyPage(p, mail[p][i])
          \/ ApplySeatState(p, mail[p][i])
          \/ ApplyFault(p, mail[p][i])
  /\ UNCHANGED <<relayVars, batch, calls>>

(* A suspended seat, or a socket that died: the frame is lost. *)
Lose(p) ==
  /\ "loses" \in carrier
  /\ \E i \in DOMAIN mail[p] : mail' = [mail EXCEPT ![p] = RemoveAt(@, i)]
  /\ UNCHANGED <<hubVars, clientVars>>

-----------------------------------------------------------------------------
Dispatch ==
  \/ \E p \in Participant : RoomJoin(p)
  \/ \E p \in Participant : RoomLeave(p)
  \/ \E p \in Participant, kind \in Kind, doorShaped \in BOOLEAN : RoomSubmit(p, kind, doorShaped)
  \/ RoomCatchUp
  \/ RoomFault
  \/ RoomEscape

RoomNext ==
  /\ \/ HostTick
     \/ Drain
     \/ Dispatch
     \/ \E p \in Participant :
          \/ OpenRoom(p)
          \/ ClientJoin(p)
          \/ ClientLeave(p)
          \/ \E kind \in Kind, doorShaped \in BOOLEAN : ClientSubmit(p, kind, doorShaped)
          \/ Resume(p)
          \/ Deliver(p)
          \/ Lose(p)
  /\ UNCHANGED carrier

RoomSpec == RoomInit /\ [][RoomNext]_roomVars

(* The host pumps drain(), a drain in progress runs to its end, and every  *)
(* seat drains its mailbox.                                                *)
FairRoomSpec ==
  /\ RoomSpec
  /\ WF_roomVars(Drain /\ UNCHANGED carrier)
  /\ WF_roomVars(Dispatch /\ UNCHANGED carrier)
  /\ \A p \in Participant : WF_roomVars(Deliver(p) /\ UNCHANGED carrier)

-----------------------------------------------------------------------------
InFlight(p, record) ==
  \E i \in DOMAIN mail[p] :
    \/ mail[p][i].kind = "broadcast" /\ mail[p][i].record = record
    \/ mail[p][i].kind = "catchup-page" /\ record \in ToSet(mail[p][i].records)

(* Whatever the carrier reorders, repeats or drops, a client's inbox holds *)
(* stamped records of the shared log, each once: the idempotence gate and  *)
(* the chained pages never disagree with the broadcasts.                   *)
ReceivedOnceFromLog ==
  \A p \in Participant : \A i, j \in DOMAIN received[p] :
    /\ received[p][i] \in ToSet(log)
    /\ StampOf(received[p][i]) = StampOf(received[p][j]) => i = j

(* A live seat with an empty mailbox knows the ledger and the newest stamp *)
(* as the relay holds them.                                                *)
SettledSeatsKnowTheRoom ==
  \A p \in LiveSeats(ledger) :
    mail[p] = <<>> => known[p] = [ledger |-> ledger, lastStamp |-> LastLogStamp(log)]

(* A seat in its first tenure that reports itself caught up has the whole  *)
(* shared log, or the rest of it is on its way.                            *)
CaughtUpHistoryIsWhole ==
  \A p \in opened :
    /\ ~catchingUp[p]
    /\ p \in LiveSeats(ledger)
    /\ Cardinality({i \in DOMAIN ledger : ledger[i].participantId = p}) = 1
    => \A i \in DOMAIN log : log[i] \in ToSet(received[p]) \/ InFlight(p, log[i])

(* Over a carrier that keeps order and loses nothing, a catch-up comes to  *)
(* its end: every page that has more behind it asks for the next one.      *)
CatchUpEnds == \A p \in Participant : (carrier = {} /\ catchingUp[p]) ~> ~catchingUp[p]
=============================================================================
