------------------------------ MODULE RelayHub ------------------------------
(***************************************************************************)
(* The hub of tools/transport/src/server.ts: the half of the transport     *)
(* that owns the relay.  Frames wait in one FIFO mailbox; drain() polls    *)
(* the whole mailbox and dispatches frame after frame without giving up    *)
(* the thread.  A TransportError or RelayError becomes a fault frame; any  *)
(* other error leaves drain(), and the frames polled behind the failing    *)
(* one are gone with the batch.                                            *)
(*                                                                         *)
(* This module has the effects on the hub and the relay.  What is sent     *)
(* back is in CoopRoom, the sockets are in WsHost, the host's simulation   *)
(* is in HostSim.                                                          *)
(***************************************************************************)
EXTENDS CoopRelay

CONSTANT PageSize  \* records per page when a request names no limit

ASSUME PageSizeAssumption == PageSize \in Nat \ {0}

VARIABLES hubInbox,  \* frames that reached the hub, in arrival order
          batch      \* frames polled by the drain in progress

hubVars == <<relayVars, hubInbox, batch>>

(***************************************************************************)
(* The four client-to-hub frames.                                          *)
(***************************************************************************)
JoinFrame(p) == [kind |-> "join", participantId |-> p]
LeaveFrame(p) == [kind |-> "leave", participantId |-> p]
SubmitFrame(p, recordKind, doorShaped) ==
  [kind |-> "submit", participantId |-> p, recordKind |-> recordKind, doorShaped |-> doorShaped]
CatchUpRequestFrame(p, after) == [kind |-> "catchup-request", participantId |-> p, after |-> after]

Idle == batch = <<>>
Dispatching(frame) == ~Idle /\ Head(batch) = frame
Done == batch' = Tail(batch) /\ UNCHANGED hubInbox

HubInit == RelayInit /\ hubInbox = <<>> /\ batch = <<>>

(***************************************************************************)
(* What dispatch answers with a fault frame: RelayError and TransportError *)
(* of the relay and of the hub's own walls.                                *)
(***************************************************************************)
Faults(frame) ==
  CASE frame.kind = "join" -> FALSE
    [] frame.kind = "leave" -> ledger = <<>>
    [] frame.kind = "submit" ->
         \/ Len(log) >= MaxRecords  \* logBudget
         \/ ~SeatedAt(ledger, frame.participantId, currentTick)
         \/ frame.recordKind = "action" /\ ~frame.doorShaped
    [] frame.kind = "catchup-request" -> ~SeatedAt(ledger, frame.participantId, currentTick)

(* What dispatch lets through: SaveError of the seat ledger. *)
Escapes(frame) ==
  \/ frame.kind = "join" /\ ~CanSeat(ledger, OpenRow(frame.participantId, currentTick))
  \/ frame.kind = "leave" /\ ledger # <<>> /\ ~CanVacate(ledger, frame.participantId, currentTick)

-----------------------------------------------------------------------------
Poll ==
  /\ Idle
  /\ hubInbox # <<>>
  /\ batch' = hubInbox
  /\ hubInbox' = <<>>

HandleJoin(p) == Dispatching(JoinFrame(p)) /\ JoinSeat(p) /\ Done

HandleLeave(p) == Dispatching(LeaveFrame(p)) /\ LeaveSeat(p) /\ Done

HandleSubmit(p, recordKind, doorShaped) ==
  /\ Dispatching(SubmitFrame(p, recordKind, doorShaped))
  /\ Submit(p, recordKind, doorShaped)
  /\ Done

(* A page is a pure read of the shared log at the client's cursor. *)
HandleCatchUpRequest ==
  /\ ~Idle
  /\ Head(batch).kind = "catchup-request"
  /\ SeatedAt(ledger, Head(batch).participantId, currentTick)
  /\ Done
  /\ UNCHANGED relayVars

RecordFault == ~Idle /\ Faults(Head(batch)) /\ Done /\ UNCHANGED relayVars

Escape ==
  /\ ~Idle
  /\ Escapes(Head(batch))
  /\ batch' = <<>>
  /\ UNCHANGED <<relayVars, hubInbox>>
=============================================================================
