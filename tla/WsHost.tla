------------------------------- MODULE WsHost -------------------------------
(***************************************************************************)
(* The localhost host of tools/host: WebSocket connections (wsHubPort.ts), *)
(* the hub they feed, and the host's ritual (server.ts) in the relay-only  *)
(* topology: every tick advances the relay clock by one and drains the     *)
(* hub.  The event loop is single-threaded, so no socket event falls       *)
(* inside a drain.                                                         *)
(*                                                                         *)
(* A socket that dies takes its routes with it, and for a seat it joined   *)
(* and did not leave the carrier queues a leave frame in its name.         *)
(***************************************************************************)
EXTENDS RelayHub

CONSTANTS Socket,
          NoSocket,      \* a seat without a route
          SocketFrames,  \* frame kinds the sockets send
          Disciplines,   \* values of orderly the run starts from
          Rejoins,       \* TRUE: a seat that left may join again on its socket
          UnrulyBound,   \* bound: ticks, sockets and waiting frames of an unruly run
          MaxQueue       \* bound: frames waiting at the hub

ASSUME WsHostAssumption ==
  /\ NoSocket \notin Socket
  /\ Disciplines \subseteq BOOLEAN /\ Rejoins \in BOOLEAN
  /\ ~AutoCatchUpOnJoin

VARIABLES routes,     \* seat -> the socket that owns its mailbox
          connected,  \* sockets whose connection is open
          closed,     \* sockets that are gone
          joined,     \* seatFlags.joined: per socket, seats it sent a join for
          left,       \* seatFlags.left: per socket, seats it sent a leave for
          orderly,    \* TRUE: one socket per seat, one frame of it at a time
          cut         \* history: TRUE once an error cut a drain off

carrierVars == <<routes, connected, closed, joined, left, orderly, cut>>
hostVars == <<hubVars, carrierVars>>

TickBound == IF orderly THEN MaxTick ELSE UnrulyBound
SocketBound == IF orderly THEN Cardinality(Socket) ELSE UnrulyBound
QueueBound == IF orderly THEN MaxQueue ELSE UnrulyBound

HostInit ==
  /\ HubInit
  /\ routes = [p \in Participant |-> NoSocket]
  /\ connected = {}
  /\ closed = {}
  /\ joined = [s \in Socket |-> {}]
  /\ left = [s \in Socket |-> {}]
  /\ orderly \in Disciplines
  /\ cut = FALSE

-----------------------------------------------------------------------------
(***************************************************************************)
(* The carrier.                                                            *)
(***************************************************************************)
Connect(s) ==
  /\ Idle
  /\ s \notin connected \cup closed
  /\ Cardinality(connected \cup closed) < SocketBound  \* bound
  /\ connected' = connected \cup {s}
  /\ UNCHANGED <<hubVars, routes, closed, joined, left, orderly, cut>>

(* The discipline of an orderly client (bound on the environment). *)
OrderlyFrame(s, frame) ==
  LET p == frame.participantId
  IN  /\ routes[p] \in {NoSocket, s}
      /\ frame.kind = "join" => p \notin LiveSeats(ledger) /\ (Rejoins \/ p \notin joined[s])
      /\ frame.kind = "leave" => p \in LiveSeats(ledger)
      /\ \A t \in closed : p \notin joined[t] \/ p \notin LiveSeats(ledger)
      /\ \A i \in DOMAIN hubInbox : hubInbox[i].participantId # p

(* A frame arrives: it is queued, and learnRoute peeks at its kind. *)
Message(s, frame) ==
  /\ Idle
  /\ s \in connected
  /\ Len(hubInbox) < QueueBound  \* bound
  /\ orderly => OrderlyFrame(s, frame)
  /\ hubInbox' = Append(hubInbox, frame)
  /\ routes' = [routes EXCEPT ![frame.participantId] = s]
  /\ joined' = [joined EXCEPT ![s] = IF frame.kind = "join" THEN @ \cup {frame.participantId} ELSE @]
  /\ left' = [left EXCEPT ![s] = IF frame.kind = "leave" THEN @ \cup {frame.participantId} ELSE @]
  /\ UNCHANGED <<relayVars, batch, connected, closed, orderly, cut>>

Routed(s) == {p \in Participant : routes[p] = s}

(* Faulty variant: a newer claim of the seat is overlooked.                *)
OwesLeaveWithoutRoute(s) == joined[s] \ left[s]

(* The seats a dying socket leaves: still routed to it, joined by it, and  *)
(* not left by it already.                                                 *)
OwesLeave(s) == Routed(s) \cap (joined[s] \ left[s])

(* Faulty variant: no leave is synthesized. *)
CloseSilently(s) ==
  /\ Idle
  /\ s \in connected
  /\ connected' = connected \ {s}
  /\ closed' = closed \cup {s}
  /\ routes' = [p \in Participant |-> IF routes[p] = s THEN NoSocket ELSE routes[p]]
  /\ UNCHANGED <<hubVars, joined, left, orderly, cut>>

(* A socket may die at any time between two drains, with frames of its own *)
(* still waiting.  The leaves go out in the order of the route table, which *)
(* is the order in which the seats were first routed; any order is allowed *)
(* here.                                                                   *)
Close(s) ==
  /\ Idle
  /\ s \in connected
  /\ connected' = connected \ {s}
  /\ closed' = closed \cup {s}
  /\ routes' = [p \in Participant |-> IF routes[p] = s THEN NoSocket ELSE routes[p]]
  /\ \E order \in [1..Cardinality(OwesLeave(s)) -> OwesLeave(s)] :
       /\ \A i, j \in DOMAIN order : order[i] = order[j] => i = j
       /\ hubInbox' = hubInbox \o [i \in DOMAIN order |-> LeaveFrame(order[i])]
  /\ UNCHANGED <<relayVars, batch, joined, left, orderly, cut>>

-----------------------------------------------------------------------------
(***************************************************************************)
(* The ritual and the drain it starts.                                     *)
(***************************************************************************)
Pump ==
  /\ Idle
  /\ currentTick < TickBound  \* bound
  /\ AdvanceTo(currentTick + 1)
  /\ batch' = hubInbox
  /\ hubInbox' = <<>>
  /\ UNCHANGED carrierVars

Dispatch ==
  /\ \/ \E p \in Participant : HandleJoin(p)
     \/ \E p \in Participant : HandleLeave(p)
     \/ \E p \in Participant, kind \in Kind, doorShaped \in BOOLEAN : HandleSubmit(p, kind, doorShaped)
     \/ RecordFault
  /\ UNCHANGED carrierVars

(* The ledger's error leaves drain(): what was polled behind is lost. *)
CutOff ==
  /\ Escape
  /\ cut' = TRUE
  /\ UNCHANGED <<routes, connected, closed, joined, left, orderly>>

HostNext ==
  \/ \E s \in Socket : Connect(s)
  \/ \E s \in Socket, p \in Participant :
       \/ "join" \in SocketFrames /\ Message(s, JoinFrame(p))
       \/ "leave" \in SocketFrames /\ Message(s, LeaveFrame(p))
       \/ "submit" \in SocketFrames /\ \E kind \in Kind : Message(s, SubmitFrame(p, kind, TRUE))
  \/ \E s \in Socket : Close(s)
  \/ Pump
  \/ Dispatch
  \/ CutOff

HostSpec == HostInit /\ [][HostNext]_hostVars

-----------------------------------------------------------------------------
Settled == Idle /\ hubInbox = <<>>

(* The frames that reached the hub and are not dispatched yet.             *)
Waiting == IF Idle THEN hubInbox ELSE batch

IsLastOfItsSeat(i) ==
  \A j \in DOMAIN Waiting : j > i => Waiting[j].participantId # Waiting[i].participantId

(* The seat a frame is about has an open connection that claims it.        *)
Claimed(p) == routes[p] \in connected

(* Last claim: a leave that no later frame about its seat follows was sent *)
(* by the socket the seat is routed to, or the route is gone with a socket *)
(* that had joined or left the seat.  So a socket that dies never ends the *)
(* tenure of a newer claimant, nor one it had no part in.                  *)
LeavesComeFromTheLastClaim ==
  \A i \in DOMAIN Waiting :
    LET p == Waiting[i].participantId
    IN  Waiting[i].kind = "leave" /\ IsLastOfItsSeat(i) =>
          \/ routes[p] # NoSocket /\ p \in left[routes[p]]
          \/ routes[p] = NoSocket /\ \E s \in closed : p \in joined[s] \cup left[s]

(* Auto-leave: when clients are orderly and the mailbox is drained, every  *)
(* open tenure has a socket behind it, unless a drain was cut off before.  *)
(* No seat stays taken after its socket died, not even when the socket     *)
(* dies with its frames still waiting.                                     *)
NoSeatIsStranded == orderly /\ ~cut /\ Settled => \A p \in LiveSeats(ledger) : Claimed(p)

(* With orderly clients nothing but a tenure of length zero cuts a drain   *)
(* off: the join of a seat and the leave owed for its dead socket were     *)
(* polled at one tick, and the ledger refuses an end that is not after its *)
(* start (the tick law of wsHubPort.ts does not reach this case).          *)
OnlyShortTenuresCutADrain ==
  orderly /\ ~cut /\ ~Idle /\ Escapes(Head(batch)) =>
    LET p == Head(batch).participantId
    IN  /\ Head(batch).kind = "leave"
        /\ ~Claimed(p)
        /\ \E k \in OpenRows(ledger, p) : ledger[k].joinedAtTick = currentTick

(* Together: behind orderly clients the first seat that stays taken was    *)
(* joined and left in one drain, or was polled behind one that was.        *)
OnlyShortTenuresStrandASeat == NoSeatIsStranded /\ OnlyShortTenuresCutADrain
=============================================================================
