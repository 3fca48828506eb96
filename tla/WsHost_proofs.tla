---------------------------- MODULE WsHost_proofs ----------------------------
(***************************************************************************)
(* Theorems about the localhost host, for every set of sockets and seats   *)
(* and for clients of either discipline: its relay does what the relay     *)
(* alone may do, a queued leave is the word of the seat's last claimant,   *)
(* no seat is left without a socket that answers for it, and a drain is    *)
(* cut off by nothing but a tenure that ends where it began.               *)
(***************************************************************************)
EXTENDS WsHost, CoopRelay_proofs

-----------------------------------------------------------------------------
(* A step of the host is a step of the relay it owns, or none, as long as  *)
(* the bounds of an unruly run are within those of the relay.              *)
LEMMA HostStepIsRelayStep ==
  ASSUME UnrulyBound \in Nat, UnrulyBound <= MaxTick, currentTick \in Nat, [HostNext]_hostVars
  PROVE  [RelayNext]_relayVars
<1>1. CASE Pump
  <2>1. currentTick < MaxTick /\ AdvanceTo(currentTick + 1)
    <3>1. currentTick < TickBound /\ AdvanceTo(currentTick + 1)
      BY <1>1 DEF Pump
    <3> QED BY <3>1, RelayAssumption DEF TickBound
  <2>2. currentTick + 1 \in 0..MaxTick
    BY <2>1, RelayAssumption
  <2> QED BY <2>1, <2>2 DEF RelayNext
<1>2. CASE Dispatch \/ CutOff
  <2>1. CASE \E p \in Participant : HandleJoin(p) \/ HandleLeave(p)
    BY <2>1 DEF HandleJoin, HandleLeave, RelayNext
  <2>2. CASE \E p \in Participant, kind \in Kind, doorShaped \in BOOLEAN : HandleSubmit(p, kind, doorShaped)
    BY <2>2 DEF HandleSubmit, RelayNext
  <2>3. CASE RecordFault \/ Escape
    BY <2>3 DEF RecordFault, Escape
  <2> QED BY <1>2, <2>1, <2>2, <2>3 DEF Dispatch, CutOff
<1>3. CASE \E s \in Socket : Connect(s) \/ Close(s)
  BY <1>3 DEF Connect, Close, hubVars
<1>4. ASSUME NEW s \in Socket, NEW frame, Message(s, frame) PROVE UNCHANGED relayVars
  BY <1>4 DEF Message
<1>5. CASE UNCHANGED hostVars
  BY <1>5 DEF hostVars, hubVars
<1> QED BY <1>1, <1>2, <1>3, <1>4, <1>5 DEF HostNext

(* The relay inside the host is the relay: sockets, routes and auto-leaves *)
(* only choose which of its operations are called (server.ts, pump).       *)
THEOREM HostRunsTheRelay ==
  ASSUME UnrulyBound \in Nat, UnrulyBound <= MaxTick
  PROVE  HostSpec => RelaySpec
<1>1. HostInit => RelayInit /\ currentTick \in Nat
  BY DEF HostInit, HubInit, RelayInit
<1>2. currentTick \in Nat /\ [HostNext]_hostVars => [RelayNext]_relayVars
  BY HostStepIsRelayStep
<1>3. currentTick \in Nat /\ [RelayNext]_relayVars => (currentTick \in Nat)'
  <2> SUFFICES ASSUME currentTick \in Nat, [RelayNext]_relayVars PROVE currentTick' \in Nat
    OBVIOUS
  <2>1. ASSUME NEW t \in 0..MaxTick, AdvanceTo(t) PROVE currentTick' \in Nat
    BY <2>1 DEF AdvanceTo
  <2> QED BY <2>1 DEF RelayNext, JoinSeat, LeaveSeat, Submit, CatchUpPage, relayVars
<1> QED BY <1>1, <1>2, <1>3, PTL DEF HostSpec, RelaySpec

(* So the room behind the sockets is never over capacity, whichever        *)
(* sockets die and whatever leaves are queued in their name.               *)
THEOREM HostIsNeverOverCapacity ==
  ASSUME UnrulyBound \in Nat, UnrulyBound <= MaxTick
  PROVE  HostSpec => []NeverOverCapacity
BY HostRunsTheRelay, NeverOverCapacityAlways, PTL

-----------------------------------------------------------------------------
(***************************************************************************)
(* Who may be made to leave.                                               *)
(***************************************************************************)
Frame ==
  {JoinFrame(p) : p \in Participant} \cup {LeaveFrame(p) : p \in Participant}
    \cup {SubmitFrame(p, kind, doorShaped) : p \in Participant, kind \in Kind, doorShaped \in BOOLEAN}

(* The mailbox and the batch are never both in use.                        *)
HostTypes ==
  /\ hubInbox \in Seq(Frame) /\ batch \in Seq(Frame)
  /\ ~Idle => hubInbox = <<>>
  /\ connected \subseteq Socket /\ closed \subseteq Socket
  /\ routes \in [Participant -> Socket \cup {NoSocket}]
  /\ joined \in [Socket -> SUBSET Participant] /\ left \in [Socket -> SUBSET Participant]
  /\ \A s \in Socket : IsFiniteSet(joined[s])

(* A socket answers for a seat whose last waiting frame is a leave.        *)
Answered(p) ==
  \/ routes[p] # NoSocket /\ p \in left[routes[p]]
  \/ routes[p] = NoSocket /\ \E s \in closed : p \in joined[s] \cup left[s]

LastOf(frames, i) == \A j \in DOMAIN frames : j > i => frames[j].participantId # frames[i].participantId

ClaimsIn(frames) ==
  \A i \in DOMAIN frames :
    frames[i].kind = "leave" /\ LastOf(frames, i) => Answered(frames[i].participantId)

ClaimInv == HostTypes /\ ClaimsIn(Waiting)

(* The frames of clients are frames of the host, by kind and participant.  *)
LEMMA FrameFields ==
  /\ \A p \in Participant : JoinFrame(p) \in Frame /\ JoinFrame(p).kind = "join"
  /\ \A p \in Participant : LeaveFrame(p) \in Frame /\ LeaveFrame(p).kind = "leave"
                            /\ LeaveFrame(p).participantId = p
  /\ \A p \in Participant, kind \in Kind : SubmitFrame(p, kind, TRUE) \in Frame
                                           /\ SubmitFrame(p, kind, TRUE).kind = "submit"
<1>1. \A p \in Participant : JoinFrame(p) \in Frame /\ JoinFrame(p).kind = "join"
  BY DEF Frame, JoinFrame
<1>2. \A p \in Participant : LeaveFrame(p) \in Frame /\ LeaveFrame(p).kind = "leave"
                              /\ LeaveFrame(p).participantId = p
  BY DEF Frame, LeaveFrame
<1>3. \A p \in Participant, kind \in Kind : SubmitFrame(p, kind, TRUE) \in Frame
  <2> SUFFICES ASSUME NEW p \in Participant, NEW kind \in Kind PROVE SubmitFrame(p, kind, TRUE) \in Frame
    OBVIOUS
  <2> DEFINE frame == SubmitFrame(p, kind, TRUE)
  <2>1. \E q \in Participant, k \in Kind, doorShaped \in BOOLEAN : frame = SubmitFrame(q, k, doorShaped)
    OBVIOUS
  <2> HIDE DEF frame
  <2>2. frame \in Frame
    BY <2>1 DEF Frame
  <2> QED BY <2>2 DEF frame
<1>4. \A p \in Participant, kind \in Kind : SubmitFrame(p, kind, TRUE).kind = "submit"
  BY DEF SubmitFrame
<1> QED BY <1>1, <1>2, <1>3, <1>4

(* Frames by their kinds.                                                  *)
LEMMA FrameForms ==
  ASSUME NEW frame \in Frame
  PROVE  /\ frame.participantId \in Participant
         /\ \/ frame.kind = "join" /\ frame = JoinFrame(frame.participantId)
            \/ frame.kind = "leave" /\ frame = LeaveFrame(frame.participantId)
            \/ frame.kind = "submit"
<1>1. CASE \E p \in Participant : frame = JoinFrame(p)
  BY <1>1 DEF JoinFrame
<1>2. CASE \E p \in Participant : frame = LeaveFrame(p)
  BY <1>2 DEF LeaveFrame
<1>3. CASE \E p \in Participant, kind \in Kind, doorShaped \in BOOLEAN : frame = SubmitFrame(p, kind, doorShaped)
  BY <1>3 DEF SubmitFrame
<1> QED BY <1>1, <1>2, <1>3 DEF Frame

(* Joins and leaves name who joins and leaves.                             *)
LEMMA FramesOf ==
  \A p \in Participant : /\ JoinFrame(p).kind = "join" /\ JoinFrame(p).participantId = p
                         /\ LeaveFrame(p).kind = "leave" /\ LeaveFrame(p).participantId = p
BY DEF JoinFrame, LeaveFrame

(* The leaves of a dying socket, one for each seat it owes one.            *)
LEMMA CloseQueuesLeaves ==
  ASSUME HostTypes, NEW s \in Socket, Close(s)
  PROVE  \E leaves \in Seq(Frame) :
           /\ Waiting = hubInbox /\ Idle' /\ Waiting' = hubInbox \o leaves /\ hubInbox' = hubInbox \o leaves
           /\ \A i \in DOMAIN leaves : /\ leaves[i].kind = "leave"
                                       /\ leaves[i].participantId \in OwesLeave(s)
           /\ \A i, j \in DOMAIN leaves : leaves[i].participantId = leaves[j].participantId => i = j
           /\ ToSet(leaves) = {LeaveFrame(q) : q \in OwesLeave(s)}
<1> DEFINE owed == OwesLeave(s)
           n == Cardinality(owed)
<1>1. PICK order \in [1..n -> owed] :
        /\ \A i, j \in DOMAIN order : order[i] = order[j] => i = j
        /\ hubInbox' = hubInbox \o [i \in DOMAIN order |-> LeaveFrame(order[i])]
  BY DEF Close
<1>2. owed \in SUBSET joined[s] /\ owed \in SUBSET Participant /\ IsFiniteSet(joined[s])
  BY DEF OwesLeave, Routed, HostTypes
<1> HIDE DEF owed
<1>3. IsFiniteSet(owed) /\ n \in Nat
  BY <1>2, FS_Subset, FS_CardinalityType
<1>4. \A q \in owed : \E i \in 1..n : order[i] = q
  <2>1. order \in Injection(1..n, owed)
    BY <1>1 DEF Injection, IsInjective
  <2>2. Cardinality(1..n) = n
    BY <1>3, FS_Interval
  <2>3. order \in Surjection(1..n, owed)
    BY <1>3, <2>1, <2>2, FS_Injection
  <2> QED BY <2>3 DEF Surjection
<1> HIDE DEF n
<1> DEFINE leaves == [i \in 1..n |-> LeaveFrame(order[i])]
<1>5. /\ leaves \in Seq(Frame) /\ DOMAIN leaves = 1..n
      /\ \A i \in 1..n : /\ leaves[i] = LeaveFrame(order[i]) /\ order[i] \in owed
                         /\ leaves[i].kind = "leave" /\ leaves[i].participantId = order[i]
  <2>1. \A i \in 1..n : order[i] \in Participant /\ order[i] \in owed
    BY <1>1, <1>2
  <2>2. \A i \in 1..n : /\ LeaveFrame(order[i]) \in Frame /\ LeaveFrame(order[i]).participantId = order[i]
                        /\ LeaveFrame(order[i]).kind = "leave"
    BY <2>1, FrameFields
  <2> QED BY <1>3, <2>1, <2>2
<1>6. hubInbox' = hubInbox \o leaves
  BY <1>1
<1> HIDE DEF leaves
<1>7. ToSet(leaves) = {LeaveFrame(q) : q \in owed}
  BY <1>4, <1>5 DEF ToSet
<1>8. Waiting = hubInbox /\ Idle' /\ Waiting' = hubInbox \o leaves
  BY <1>6 DEF Close, Waiting, Idle
<1>9. \A i, j \in DOMAIN leaves : leaves[i].participantId = leaves[j].participantId => i = j
  BY <1>1, <1>5
<1> QED BY <1>5, <1>6, <1>7, <1>8, <1>9 DEF owed

(* What happens to the waiting frames, seen from the carrier.              *)
LEMMA WaitingFrames ==
  ASSUME HostTypes
  PROVE  /\ Waiting \in Seq(Frame)
         /\ Idle => Waiting = hubInbox
         /\ ~Idle => Waiting = batch
         /\ Pump => Waiting' = Waiting
         /\ Dispatch \/ CutOff => /\ ~Idle /\ hubInbox' = hubInbox /\ Waiting' = batch'
                                  /\ batch' = Tail(batch) \/ batch' = <<>>
<1>1. Waiting \in Seq(Frame) /\ (Idle => Waiting = hubInbox) /\ (~Idle => Waiting = batch)
  BY DEF HostTypes, Waiting
<1>2. Pump => Waiting' = Waiting
  BY DEF Pump, Waiting, Idle
<1>3. ASSUME Dispatch \/ CutOff
      PROVE  ~Idle /\ hubInbox' = hubInbox /\ Waiting' = batch' /\ (batch' = Tail(batch) \/ batch' = <<>>)
  <2>1. ~Idle /\ hubInbox' = hubInbox /\ (batch' = Tail(batch) \/ batch' = <<>>)
    BY <1>3 DEF Dispatch, CutOff, HandleJoin, HandleLeave, HandleSubmit, RecordFault, Escape, Done,
                Dispatching, Idle
  <2>2. Waiting' = batch'
    BY <2>1 DEF HostTypes, Waiting, Idle
  <2> QED BY <2>1, <2>2
<1> QED BY <1>1, <1>2, <1>3

(* A frame from a socket claims its seat for the socket.                   *)
LEMMA MessageKeepsClaims ==
  ASSUME ClaimInv, NEW s \in Socket, NEW p \in Participant, NEW frame \in Frame,
         frame.participantId = p, Message(s, frame)
  PROVE  ClaimInv'
<1> USE DEF ClaimInv
<1>1. /\ Idle /\ s \in connected
      /\ hubInbox' = Append(hubInbox, frame) /\ batch' = batch /\ routes' = [routes EXCEPT ![p] = s]
      /\ joined' = [joined EXCEPT ![s] = IF frame.kind = "join" THEN @ \cup {p} ELSE @]
      /\ left' = [left EXCEPT ![s] = IF frame.kind = "leave" THEN @ \cup {p} ELSE @]
      /\ UNCHANGED <<connected, closed>>
  BY DEF Message
<1>2. /\ joined' \in [Socket -> SUBSET Participant] /\ left' \in [Socket -> SUBSET Participant]
      /\ \A t \in Socket : joined[t] \subseteq joined'[t] /\ left[t] \subseteq left'[t]
      /\ \A t \in Socket : joined'[t] = joined[t] \/ joined'[t] = joined[t] \cup {p}
  BY <1>1 DEF HostTypes
<1>3. \A t \in Socket : IsFiniteSet(joined'[t])
  <2> SUFFICES ASSUME NEW t \in Socket PROVE IsFiniteSet(joined'[t])
    OBVIOUS
  <2>1. IsFiniteSet(joined[t])
    BY DEF HostTypes
  <2>2. IsFiniteSet(joined[t] \cup {p})
    BY <2>1, FS_AddElement
  <2> QED BY <1>2, <2>1, <2>2
<1> DEFINE n == Len(hubInbox)
<1> PICK next : next = Append(hubInbox, frame)
  OBVIOUS
<1>4. /\ n \in Nat /\ DOMAIN hubInbox = 1..n /\ DOMAIN next = 1..n + 1 /\ next \in Seq(Frame)
      /\ \A k \in 1..n : next[k] = hubInbox[k]
      /\ next[n + 1] = frame
  BY AppendProperties DEF HostTypes
<1>5. hubInbox' = next /\ Waiting = hubInbox /\ Idle' /\ Waiting' = next
  BY <1>1 DEF Waiting, Idle
<1> HIDE DEF n
<1>6. HostTypes'
  BY <1>1, <1>2, <1>3, <1>4, <1>5 DEF HostTypes
<1>7. /\ routes'[p] = s /\ routes'[p] # NoSocket /\ (frame.kind = "leave" => p \in left'[s])
      /\ \A q \in Participant : q # p => routes'[q] = routes[q]
  BY <1>1, WsHostAssumption DEF HostTypes
<1>8. ASSUME NEW q \in Participant, q # p, Answered(q) PROVE Answered(q)'
  <2>1. routes'[q] = routes[q] /\ (routes[q] # NoSocket => routes[q] \in Socket) /\ closed' = closed /\ closed \subseteq Socket
    BY <1>1, <1>7, <1>8 DEF HostTypes
  <2> QED BY <1>2, <1>8, <2>1 DEF Answered
<1>9. ASSUME NEW i \in DOMAIN next, next[i].kind = "leave", LastOf(next, i) PROVE Answered(next[i].participantId)'
  <2>1. CASE i = n + 1
    <3>1. next[i] = frame /\ Answered(p)'
      BY <1>4, <1>7, <1>9, <2>1 DEF Answered
    <3> QED BY <3>1
  <2>2. CASE i \in 1..n
    <3>1. next[i] = hubInbox[i] /\ next[i] \in Frame /\ n + 1 > i /\ n + 1 \in DOMAIN next
      BY <1>4, <2>2
    <3>2. next[i].participantId # p /\ next[i].participantId \in Participant
      BY <1>4, <1>9, <3>1, FrameForms DEF LastOf
    <3>3. LastOf(hubInbox, i)
      <4> SUFFICES ASSUME NEW j \in 1..n, j > i PROVE hubInbox[j].participantId # hubInbox[i].participantId
        BY <1>4 DEF LastOf
      <4>1. j \in DOMAIN next /\ next[j] = hubInbox[j]
        BY <1>4
      <4> QED BY <1>9, <3>1, <4>1 DEF LastOf
    <3>4. Answered(next[i].participantId)
      BY <1>4, <1>5, <1>9, <2>2, <3>1, <3>3 DEF ClaimsIn
    <3> QED BY <1>8, <3>2, <3>4
  <2> QED BY <1>4, <2>1, <2>2
<1>10. ClaimsIn(Waiting)'
  BY <1>5, <1>9 DEF ClaimsIn, Answered
<1> QED BY <1>6, <1>10

(* A dying socket leaves only for seats it joined and still had the claim  *)
(* of.                                                                     *)
LEMMA CloseKeepsClaims ==
  ASSUME ClaimInv, NEW s \in Socket, Close(s)
  PROVE  ClaimInv'
<1> USE DEF ClaimInv
<1>1. /\ Idle /\ connected' = connected \ {s} /\ closed' = closed \cup {s}
      /\ routes' = [q \in Participant |-> IF routes[q] = s THEN NoSocket ELSE routes[q]]
      /\ UNCHANGED <<batch, joined, left>>
  BY DEF Close
<1>2. PICK leaves \in Seq(Frame) :
        /\ Waiting = hubInbox /\ Idle' /\ Waiting' = hubInbox \o leaves /\ hubInbox' = hubInbox \o leaves
        /\ \A i \in DOMAIN leaves : leaves[i].kind = "leave" /\ leaves[i].participantId \in OwesLeave(s)
  BY CloseQueuesLeaves
<1> DEFINE m == Len(hubInbox)
           n == Len(leaves)
<1> PICK next : next = hubInbox \o leaves
  OBVIOUS
<1>3. /\ m \in Nat /\ n \in Nat /\ DOMAIN hubInbox = 1..m /\ DOMAIN leaves = 1..n /\ DOMAIN next = 1..m + n
      /\ next \in Seq(Frame)
      /\ \A i \in 1..m + n : next[i] = IF i <= m THEN hubInbox[i] ELSE leaves[i - m]
  BY ConcatProperties DEF HostTypes
<1> HIDE DEF m, n
<1>4. HostTypes'
  <2>1. connected' \subseteq Socket /\ closed' \subseteq Socket /\ routes' \in [Participant -> Socket \cup {NoSocket}]
    BY <1>1 DEF HostTypes
  <2> QED BY <1>1, <1>2, <1>3, <2>1 DEF HostTypes
<1>5. ASSUME NEW q \in Participant, Answered(q) PROVE Answered(q)'
  <2>1. CASE routes[q] = s
    <3>1. q \in left[s] /\ routes'[q] = NoSocket /\ s \in closed'
      BY <1>1, <1>5, <2>1, WsHostAssumption DEF Answered
    <3> QED BY <1>1, <3>1 DEF Answered
  <2>2. CASE routes[q] # s
    <3>1. routes'[q] = routes[q] /\ closed \subseteq closed'
      BY <1>1, <2>2
    <3> QED BY <1>1, <1>5, <3>1 DEF Answered
  <2> QED BY <2>1, <2>2
<1>6. ASSUME NEW q \in OwesLeave(s) PROVE Answered(q)'
  <2>1. q \in Participant /\ routes[q] = s /\ q \in joined[s]
    BY <1>6 DEF OwesLeave, Routed
  <2>2. routes'[q] = NoSocket /\ s \in closed' /\ joined' = joined
    BY <1>1, <2>1
  <2> QED BY <2>1, <2>2 DEF Answered
<1>7. ASSUME NEW i \in DOMAIN next, next[i].kind = "leave", LastOf(next, i) PROVE Answered(next[i].participantId)'
  <2>1. CASE i \in 1..m
    <3>1. next[i] = hubInbox[i] /\ next[i] \in Frame
      BY <1>3, <2>1
    <3>2. LastOf(hubInbox, i)
      <4> SUFFICES ASSUME NEW j \in 1..m, j > i PROVE hubInbox[j].participantId # hubInbox[i].participantId
        BY <1>3 DEF LastOf
      <4>1. j \in DOMAIN next /\ next[j] = hubInbox[j]
        BY <1>3
      <4> QED BY <1>7, <3>1, <4>1 DEF LastOf
    <3>3. Answered(next[i].participantId)
      BY <1>2, <1>3, <1>7, <2>1, <3>1, <3>2 DEF ClaimsIn
    <3>4. next[i].participantId \in Participant
      BY <3>1, FrameForms
    <3> QED BY <1>5, <3>3, <3>4
  <2>2. CASE ~(i <= m)
    <3>1. i - m \in 1..n /\ next[i] = leaves[i - m]
      BY <1>3, <2>2
    <3>2. next[i].participantId \in OwesLeave(s)
      BY <1>2, <1>3, <3>1
    <3> QED BY <1>6, <3>2
  <2>3. i \in 1..m \/ ~(i <= m)
    BY <1>3
  <2> QED BY <2>1, <2>2, <2>3
<1>8. ClaimsIn(Waiting)'
  BY <1>2, <1>7 DEF ClaimsIn, Answered
<1> QED BY <1>4, <1>8

(* What is left of a batch asks for nothing new.                           *)
LEMMA DrainKeepsClaims ==
  ASSUME ClaimInv, Dispatch \/ CutOff
  PROVE  ClaimInv'
<1>1. /\ UNCHANGED <<routes, connected, closed, joined, left>>
      /\ hubInbox' = hubInbox /\ Waiting' = batch' /\ Waiting = batch /\ batch # <<>>
      /\ batch' = Tail(batch) \/ batch' = <<>>
  BY WaitingFrames DEF ClaimInv, Dispatch, CutOff, carrierVars, Idle
<1>2. CASE batch' = <<>>
  BY <1>1, <1>2 DEF ClaimInv, HostTypes, ClaimsIn, Idle
<1>3. CASE batch' = Tail(batch)
  <2> DEFINE n == Len(batch)
             rest == Tail(batch)
  <2>1. /\ n \in Nat /\ n > 0 /\ DOMAIN batch = 1..n /\ DOMAIN rest = 1..n - 1 /\ rest \in Seq(Frame)
        /\ \A k \in 1..n - 1 : rest[k] = batch[k + 1]
    BY <1>1, HeadTailProperties DEF ClaimInv, HostTypes
  <2> HIDE DEF n, rest
  <2>2. ASSUME NEW i \in DOMAIN rest, rest[i].kind = "leave", LastOf(rest, i) PROVE Answered(rest[i].participantId)
    <3>1. i + 1 \in DOMAIN batch /\ rest[i] = batch[i + 1]
      BY <2>1
    <3>2. LastOf(batch, i + 1)
      <4> SUFFICES ASSUME NEW j \in 1..n, j > i + 1 PROVE batch[j].participantId # batch[i + 1].participantId
        BY <2>1 DEF LastOf
      <4>1. j - 1 \in DOMAIN rest /\ rest[j - 1] = batch[j] /\ j - 1 > i
        BY <2>1
      <4> QED BY <2>2, <3>1, <4>1 DEF LastOf
    <3> QED BY <1>1, <2>2, <3>1, <3>2 DEF ClaimInv, ClaimsIn
  <2>3. ClaimsIn(Waiting)'
    BY <1>1, <1>3, <2>2 DEF ClaimsIn, Answered, rest
  <2>4. HostTypes'
    BY <1>1, <1>3, <2>1 DEF ClaimInv, HostTypes, Idle, rest
  <2> QED BY <2>3, <2>4 DEF ClaimInv
<1> QED BY <1>1, <1>2, <1>3

(* ClaimInv is inductive.                                                  *)
LEMMA ClaimInvAlways == HostSpec => []ClaimInv
<1>1. HostInit => ClaimInv
  <2> SUFFICES ASSUME HostInit PROVE ClaimInv
    OBVIOUS
  <2>1. /\ hubInbox = <<>> /\ batch = <<>> /\ connected = {} /\ closed = {}
        /\ routes = [p \in Participant |-> NoSocket]
        /\ joined = [s \in Socket |-> {}] /\ left = [s \in Socket |-> {}]
    BY DEF HostInit, HubInit
  <2>2. ClaimsIn(Waiting)
    BY <2>1 DEF ClaimsIn, Waiting
  <2> QED BY <2>1, <2>2, FS_EmptySet DEF ClaimInv, HostTypes, Idle
<1>2. ClaimInv /\ [HostNext]_hostVars => ClaimInv'
  <2> SUFFICES ASSUME ClaimInv, [HostNext]_hostVars PROVE ClaimInv'
    OBVIOUS
  <2>1. CASE Pump
    <3>1. /\ hubInbox' = <<>> /\ batch' = hubInbox /\ Waiting' = Waiting
          /\ UNCHANGED <<routes, connected, closed, joined, left>>
      BY <2>1, WaitingFrames DEF ClaimInv, Pump, carrierVars
    <3> QED BY <3>1 DEF ClaimInv, HostTypes, ClaimsIn, Answered
  <2>2. CASE Dispatch \/ CutOff
    BY <2>2, DrainKeepsClaims
  <2>3. ASSUME NEW s \in Socket, Connect(s) PROVE ClaimInv'
    <3>1. connected' = connected \cup {s} /\ UNCHANGED <<hubInbox, batch, routes, closed, joined, left>>
      BY <2>3 DEF Connect, hubVars
    <3>2. Waiting' = Waiting /\ (Idle' <=> Idle)
      BY <3>1 DEF Waiting, Idle
    <3> QED BY <3>1, <3>2 DEF ClaimInv, HostTypes, ClaimsIn, Answered
  <2>4. ASSUME NEW s \in Socket, NEW p \in Participant, Message(s, JoinFrame(p)) PROVE ClaimInv'
    BY <2>4, FrameFields, FramesOf, MessageKeepsClaims
  <2>5. ASSUME NEW s \in Socket, NEW p \in Participant, Message(s, LeaveFrame(p)) PROVE ClaimInv'
    BY <2>5, FrameFields, FramesOf, MessageKeepsClaims
  <2>6. ASSUME NEW s \in Socket, NEW p \in Participant, NEW kind \in Kind, Message(s, SubmitFrame(p, kind, TRUE))
        PROVE ClaimInv'
    <3>1. SubmitFrame(p, kind, TRUE) \in Frame /\ SubmitFrame(p, kind, TRUE).participantId = p
      BY FrameFields DEF SubmitFrame
    <3> QED BY <2>6, <3>1, MessageKeepsClaims
  <2>7. ASSUME NEW s \in Socket, Close(s) PROVE ClaimInv'
    BY <2>7, CloseKeepsClaims
  <2>8. CASE UNCHANGED hostVars
    <3>1. UNCHANGED <<hubInbox, batch, routes, connected, closed, joined, left>>
      BY <2>8 DEF hostVars, hubVars, carrierVars
    <3>2. Waiting' = Waiting /\ (Idle' <=> Idle)
      BY <3>1 DEF Waiting, Idle
    <3> QED BY <3>1, <3>2 DEF ClaimInv, HostTypes, ClaimsIn, Answered
  <2> QED BY <2>1, <2>2, <2>3, <2>4, <2>5, <2>6, <2>7, <2>8 DEF HostNext
<1> QED BY <1>1, <1>2, PTL DEF HostSpec

(* A queued leave that no later frame of its seat follows is the word of   *)
(* the seat's last claimant, living or dead: a dying socket never ends the *)
(* tenure of a newer one, and a submit in a seat's name gives no right to  *)
(* end its tenure (wsHubPort.ts, learnRoute and the close handler).        *)
THEOREM LastClaimHoldsTheSeat == HostSpec => []LeavesComeFromTheLastClaim
<1>1. ClaimInv => LeavesComeFromTheLastClaim
  BY DEF ClaimInv, ClaimsIn, LastOf, Answered, LeavesComeFromTheLastClaim, IsLastOfItsSeat
<1> QED BY <1>1, ClaimInvAlways, PTL

-----------------------------------------------------------------------------
(***************************************************************************)
(* Whose seats are left.  An orderly client has one socket for its seat    *)
(* and one frame on its way; the leave of its dead socket may follow that  *)
(* frame.                                                                  *)
(***************************************************************************)
AtMostALeaveBehind(frames) ==
  \A i, j \in DOMAIN frames :
    i < j /\ frames[i].participantId = frames[j].participantId => frames[i].kind # "leave" /\ frames[j].kind = "leave"

Joining(p) == JoinFrame(p) \in ToSet(Waiting)
Leaving(p) == LeaveFrame(p) \in ToSet(Waiting)

(* The socket that has the route of the seat joined it and did not leave.  *)
HasJoined(p) == routes[p] \in connected /\ p \in joined[routes[p]] \ left[routes[p]]

(* The carrier's bookkeeping: one route per seat, of the one open socket   *)
(* that joined it.                                                         *)
RoutesLead ==
  /\ routes \in [Participant -> connected \cup {NoSocket}]
  /\ \A s \in Socket : left[s] \subseteq joined[s]
  /\ \A s \in Socket : s \notin connected \cup closed => joined[s] = {}
  /\ \A s \in connected : \A p \in joined[s] : routes[p] = s

(* The carrier's bookkeeping, the relay's ledger, and the frames that      *)
(* explain a difference: a socket is behind a seat exactly when the seat   *)
(* will be taken once its waiting frames are dispatched.                   *)
SeatIsTracked(p) ==
  /\ Joining(p) => p \notin LiveSeats(ledger)
  /\ Leaving(p) => p \in LiveSeats(ledger) \/ Joining(p)
  /\ HasJoined(p) <=> ~Leaving(p) /\ (p \in LiveSeats(ledger) \/ Joining(p))

(* A leave of a socket that lives follows no join, and is polled after the *)
(* tick of its join.                                                       *)
OwnLeavesAreDue ==
  \A p \in Participant : Leaving(p) /\ Claimed(p) =>
    /\ ~Joining(p)
    /\ ~Idle => \A k \in OpenRows(ledger, p) : ledger[k].joinedAtTick < currentTick

OrderlyInv ==
  /\ AtMostALeaveBehind(Waiting)
  /\ RoutesLead
  /\ \A p \in Participant : SeatIsTracked(p)
  /\ OwnLeavesAreDue

(* Someone in the room who leaves is gone.                                 *)
LEMMA LeaverIsGone ==
  ASSUME TypeOK, LedgerOK, NEW p \in Participant, LeaveSeat(p)
  PROVE  LiveSeats(ledger') = LiveSeats(ledger) \ {p}
BY LeaveLeaves DEF Timeline!Leave

(* What follows the first frame of a drain about its seat is one leave.    *)
LEMMA FramesBehind ==
  ASSUME NEW frames \in Seq(Frame), frames # <<>>, AtMostALeaveBehind(frames)
  PROVE  /\ Head(frames) \in Frame /\ Tail(frames) \in Seq(Frame)
         /\ ToSet(frames) = {Head(frames)} \cup ToSet(Tail(frames))
         /\ AtMostALeaveBehind(Tail(frames))
         /\ \A f \in ToSet(Tail(frames)) : f.participantId = Head(frames).participantId =>
              Head(frames).kind # "leave" /\ f.kind = "leave"
<1> DEFINE n == Len(frames)
<1> PICK rest : rest = Tail(frames)
  OBVIOUS
<1>1. /\ n \in Nat /\ n > 0 /\ DOMAIN frames = 1..n /\ DOMAIN rest = 1..n - 1 /\ Head(frames) = frames[1]
      /\ \A k \in 1..n - 1 : rest[k] = frames[k + 1]
  BY HeadTailProperties
<1> HIDE DEF n
<1>2. \A k \in 1..n - 1 : k + 1 \in DOMAIN frames /\ 1 < k + 1 /\ rest[k] = frames[k + 1]
  BY <1>1
<1>3. 1 \in DOMAIN frames
  BY <1>1
<1>4. \A k \in DOMAIN rest : rest[k].participantId = frames[1].participantId =>
        frames[1].kind # "leave" /\ rest[k].kind = "leave"
  BY <1>1, <1>2, <1>3 DEF AtMostALeaveBehind
<1>5. \A f \in ToSet(rest) : f.participantId = frames[1].participantId => frames[1].kind # "leave" /\ f.kind = "leave"
  BY <1>4 DEF ToSet
<1>6. AtMostALeaveBehind(rest)
  <2> SUFFICES ASSUME NEW i \in 1..n - 1, NEW j \in 1..n - 1, i < j, rest[i].participantId = rest[j].participantId
               PROVE  rest[i].kind # "leave" /\ rest[j].kind = "leave"
    BY <1>1 DEF AtMostALeaveBehind
  <2>1. i + 1 \in DOMAIN frames /\ j + 1 \in DOMAIN frames /\ i + 1 < j + 1
    BY <1>1
  <2> QED BY <1>1, <2>1 DEF AtMostALeaveBehind
<1>7. Head(frames) \in Frame /\ Tail(frames) \in Seq(Frame)
  BY HeadTailProperties
<1> QED BY <1>1, <1>5, <1>6, <1>7, SetOfRest

-----------------------------------------------------------------------------
(* The tick of an open tenure is that of its join, whoever else comes or   *)
(* goes.                                                                   *)
LEMMA OpenRowsOfOthers ==
  ASSUME TypeOK, NEW p \in Participant, NEW q \in Participant, p # q, JoinSeat(q) \/ LeaveSeat(q),
         NEW k \in OpenRows(ledger', p)
  PROVE  \E i \in OpenRows(ledger, p) : ledger[i] = ledger'[k]
<1> USE DEF TypeOK
<1>1. CASE JoinSeat(q)
  <2>1. OpenRow(q, currentTick) \in Row /\ OpenRow(q, currentTick).participantId = q
    BY DEF OpenRow, Row
  <2>2. \A j \in DOMAIN ledger' :
          ledger'[j] = OpenRow(q, currentTick) \/ \E i \in DOMAIN ledger : ledger'[j] = ledger[i]
    BY <1>1, <2>1, SeatParticipantRows DEF JoinSeat
  <2>3. PICK i \in DOMAIN ledger : ledger'[k] = ledger[i]
    BY <2>1, <2>2 DEF OpenRows
  <2> QED BY <2>3 DEF OpenRows
<1>2. CASE LeaveSeat(q)
  <2>1. OpenRows(ledger, q) # {} /\ ledger' = VacateSeat(ledger, q, currentTick)
    BY <1>2 DEF LeaveSeat, CanVacate
  <2>2. DOMAIN ledger' = DOMAIN ledger /\ ClosesOneRow(ledger, ledger', q, currentTick)
    BY <2>1, VacateSeatRows
  <2>3. PICK h \in OpenRows(ledger, q) :
          /\ ledger'[h] = [ledger[h] EXCEPT !.leftAtTick = currentTick]
          /\ \A i \in DOMAIN ledger \ {h} : ledger'[i] = ledger[i]
    BY <2>2 DEF ClosesOneRow
  <2>4. h \in DOMAIN ledger /\ ledger[h] \in Row /\ ledger[h].participantId = q
    BY DEF OpenRows
  <2>5. ledger'[h].participantId = q
    BY <2>3, <2>4 DEF Row
  <2>6. k # h /\ k \in DOMAIN ledger
    BY <2>2, <2>5 DEF OpenRows
  <2> QED BY <2>3, <2>6 DEF OpenRows
<1> QED BY <1>1, <1>2

(* What the dispatch of one frame does to who is in the room.              *)
LEMMA OrderlyDispatch ==
  ASSUME TypeOK, ClaimInv, OrderlyInv, Dispatch
  PROVE  /\ ~Idle /\ batch' = Tail(batch) /\ hubInbox' = hubInbox
         /\ Head(batch).kind = "join" => JoinSeat(Head(batch).participantId)
         /\ Head(batch).kind = "leave" => LeaveSeat(Head(batch).participantId)
         /\ Head(batch).kind \notin {"join", "leave"} => ledger' = ledger
         /\ currentTick' = currentTick
<1>1. ~Idle
  BY DEF Dispatch, HandleJoin, HandleLeave, HandleSubmit, Dispatching, RecordFault
<1>2. ASSUME Head(batch).kind \in {"join", "leave"} PROVE ~Faults(Head(batch))
  <2> DEFINE frame == Head(batch)
             p == frame.participantId
  <2>1. Waiting = batch /\ batch \in Seq(Frame) /\ batch # <<>>
    BY <1>1 DEF ClaimInv, HostTypes, Waiting, Idle
  <2>2. frame \in Frame /\ frame \in ToSet(Waiting)
    BY <2>1, FramesBehind DEF OrderlyInv
  <2>3. p \in Participant /\ SeatIsTracked(p)
    BY <2>2, FrameForms DEF OrderlyInv
  <2>4. frame.kind = "leave" => frame = LeaveFrame(p)
    BY <2>2, FrameForms
  <2>5. ASSUME frame.kind = "leave" PROVE ledger # <<>>
    <3>1. Leaving(p) /\ \A f \in ToSet(Tail(batch)) : f.participantId # p
      BY <2>1, <2>2, <2>4, <2>5, FramesBehind DEF OrderlyInv, Leaving
    <3>2. ToSet(Waiting) = {frame} \cup ToSet(Tail(batch))
      BY <2>1, FramesBehind DEF OrderlyInv
    <3>3. ~Joining(p)
      BY <2>3, <2>5, <3>1, <3>2, FramesOf DEF Joining
    <3> QED BY <2>3, <3>1, <3>3 DEF SeatIsTracked, LiveSeats
  <2> HIDE DEF frame
  <2>6. ~Faults(frame)
    BY <1>2, <2>5 DEF Faults, frame
  <2> QED BY <2>6 DEF frame
<1>3. ASSUME NEW p \in Participant, HandleJoin(p) PROVE Head(batch) = JoinFrame(p) /\ JoinSeat(p) /\ Done
  BY <1>3 DEF HandleJoin, Dispatching
<1>4. ASSUME NEW p \in Participant, HandleLeave(p) PROVE Head(batch) = LeaveFrame(p) /\ LeaveSeat(p) /\ Done
  BY <1>4 DEF HandleLeave, Dispatching
<1>5. ASSUME NEW p \in Participant, NEW kind \in Kind, NEW doorShaped \in BOOLEAN, HandleSubmit(p, kind, doorShaped)
      PROVE  Head(batch).kind = "submit" /\ ledger' = ledger /\ currentTick' = currentTick /\ Done
  BY <1>5 DEF HandleSubmit, Dispatching, Submit, SubmitFrame
<1>6. CASE RecordFault
  <2>1. Head(batch).kind \notin {"join", "leave"} /\ ledger' = ledger /\ currentTick' = currentTick /\ Done
    BY <1>2, <1>6 DEF RecordFault, relayVars
  <2> QED BY <1>1, <2>1 DEF Done
<1>7. CASE \E p \in Participant : HandleJoin(p)
  <2>1. PICK p \in Participant : HandleJoin(p)
    BY <1>7
  <2>2. Head(batch) = JoinFrame(p) /\ JoinSeat(p) /\ Done
    BY <1>3, <2>1
  <2>3. Head(batch).kind = "join" /\ Head(batch).participantId = p
    BY <2>2, FramesOf
  <2>4. currentTick' = currentTick
    BY <2>2 DEF JoinSeat
  <2> QED BY <1>1, <2>2, <2>3, <2>4 DEF Done
<1>8. CASE \E p \in Participant : HandleLeave(p)
  BY <1>1, <1>4, <1>8, FramesOf DEF Done, LeaveSeat
<1>9. CASE \E p \in Participant, kind \in Kind, doorShaped \in BOOLEAN : HandleSubmit(p, kind, doorShaped)
  BY <1>1, <1>5, <1>9 DEF Done
<1> QED BY <1>6, <1>7, <1>8, <1>9 DEF Dispatch

(* Dispatching one frame of the batch keeps what orderly clients rely on.  *)
LEMMA DispatchKeepsOrder ==
  ASSUME TypeOK, LedgerOK, ClaimInv, OrderlyInv, Dispatch
  PROVE  OrderlyInv'
<1> PICK frame : frame = Head(batch)
  OBVIOUS
<1> DEFINE q == frame.participantId
<1>1. batch \in Seq(Frame) /\ batch # <<>> /\ ~Idle /\ Waiting = batch
  BY OrderlyDispatch DEF ClaimInv, HostTypes, Idle, Waiting
<1>2. /\ batch' = Tail(batch) /\ Waiting' = Tail(batch) /\ currentTick' = currentTick
      /\ frame.kind = "join" => JoinSeat(q)
      /\ frame.kind = "leave" => LeaveSeat(q)
      /\ frame.kind \notin {"join", "leave"} => ledger' = ledger
  BY OrderlyDispatch, WaitingFrames DEF ClaimInv
<1>3. UNCHANGED <<routes, connected, closed, joined, left>>
  BY DEF Dispatch, carrierVars
<1>4. /\ frame \in Frame /\ ToSet(batch) = {frame} \cup ToSet(Tail(batch)) /\ AtMostALeaveBehind(Tail(batch))
      /\ \A f \in ToSet(Tail(batch)) : f.participantId = q => frame.kind # "leave" /\ f.kind = "leave"
  BY <1>1, FramesBehind DEF OrderlyInv
<1>5. q \in Participant /\ (frame.kind = "join" => frame = JoinFrame(q)) /\ (frame.kind = "leave" => frame = LeaveFrame(q))
  BY <1>4, FrameForms, FramesOf
<1>6. /\ \A p \in Participant : (Joining(p) <=> frame = JoinFrame(p) \/ Joining(p)')
      /\ \A p \in Participant : (Leaving(p) <=> frame = LeaveFrame(p) \/ Leaving(p)')
      /\ ~Joining(q)' /\ (frame.kind = "leave" => ~Leaving(q)')
  BY <1>1, <1>2, <1>4, <1>5, FramesOf DEF Joining, Leaving
<1>7. \A p \in Participant : (HasJoined(p)' <=> HasJoined(p)) /\ (Claimed(p)' <=> Claimed(p))
  BY <1>3 DEF HasJoined, Claimed
<1>8. /\ frame.kind = "join" => LiveSeats(ledger') = LiveSeats(ledger) \cup {q}
      /\ frame.kind = "leave" => LiveSeats(ledger') = LiveSeats(ledger) \ {q}
      /\ frame.kind \notin {"join", "leave"} => LiveSeats(ledger') = LiveSeats(ledger)
  <2>1. ASSUME JoinSeat(q) PROVE LiveSeats(ledger') = LiveSeats(ledger) \cup {q}
    <3>1. ledger \in Seq(Row) /\ currentTick \in Nat /\ ledger' = SeatParticipant(ledger, OpenRow(q, currentTick))
      BY <2>1 DEF JoinSeat, TypeOK
    <3> QED BY <1>5, <3>1, LiveAfterJoin
  <2>2. ASSUME LeaveSeat(q) PROVE LiveSeats(ledger') = LiveSeats(ledger) \ {q}
    BY <1>5, <2>2, LeaverIsGone
  <2> QED BY <1>2, <2>1, <2>2
<1>9. ASSUME NEW p \in Participant PROVE SeatIsTracked(p)'
  <2>1. SeatIsTracked(p)
    BY DEF OrderlyInv
  <2>2. CASE p # q
    <3>1. frame # JoinFrame(p) /\ frame # LeaveFrame(p)
      BY <2>2, FramesOf
    <3>2. p \in LiveSeats(ledger') <=> p \in LiveSeats(ledger)
      BY <1>8, <2>2
    <3> QED BY <1>6, <1>7, <2>1, <3>1, <3>2 DEF SeatIsTracked
  <2>3. CASE p = q /\ frame.kind = "join"
    <3>1. p \in LiveSeats(ledger')
      BY <1>8, <2>3
    <3>2. Joining(p) /\ ~Joining(p)' /\ (Leaving(p)' <=> Leaving(p))
      BY <1>5, <1>6, <2>3, FramesOf
    <3> QED BY <1>7, <2>1, <3>1, <3>2 DEF SeatIsTracked
  <2>4. CASE p = q /\ frame.kind = "leave"
    <3>1. p \notin LiveSeats(ledger')
      BY <1>8, <2>4
    <3>2. Leaving(p) /\ ~Joining(p)' /\ ~Leaving(p)'
      BY <1>5, <1>6, <2>4
    <3> QED BY <1>7, <2>1, <3>1, <3>2 DEF SeatIsTracked
  <2>5. CASE p = q /\ frame.kind \notin {"join", "leave"}
    <3>1. ledger' = ledger /\ frame # JoinFrame(p) /\ frame # LeaveFrame(p)
      BY <1>2, <2>5, FramesOf
    <3> QED BY <1>6, <1>7, <2>1, <3>1 DEF SeatIsTracked
  <2> QED BY <2>2, <2>3, <2>4, <2>5
<1>10. OwnLeavesAreDue'
  <2> SUFFICES ASSUME NEW p \in Participant, Leaving(p)', Claimed(p)'
               PROVE  ~Joining(p)' /\ \A k \in OpenRows(ledger', p) : ledger'[k].joinedAtTick < currentTick
    BY <1>2 DEF OwnLeavesAreDue
  <2>1. Leaving(p) /\ Claimed(p)
    BY <1>6, <1>7
  <2>2. ~Joining(p) /\ \A i \in OpenRows(ledger, p) : ledger[i].joinedAtTick < currentTick
    BY <1>1, <2>1 DEF OrderlyInv, OwnLeavesAreDue
  <2>3. CASE p # q
    <3>1. ASSUME NEW k \in OpenRows(ledger', p) PROVE \E i \in OpenRows(ledger, p) : ledger[i] = ledger'[k]
      <4>1. CASE frame.kind \in {"join", "leave"}
        BY <1>2, <1>5, <2>3, <3>1, <4>1, OpenRowsOfOthers
      <4> QED BY <1>2, <3>1, <4>1
    <3> QED BY <1>6, <2>2, <3>1
  <2>4. CASE p = q
    <3>1. frame.kind # "join" /\ frame.kind # "leave"
      BY <1>5, <1>6, <2>2, <2>4
    <3> QED BY <1>2, <1>6, <2>2, <3>1
  <2> QED BY <2>3, <2>4
<1>11. RoutesLead'
  BY <1>3 DEF OrderlyInv, RoutesLead
<1>12. AtMostALeaveBehind(Waiting)'
  BY <1>2, <1>4 DEF AtMostALeaveBehind
<1> QED BY <1>9, <1>10, <1>11, <1>12 DEF OrderlyInv

(* A frame of an orderly client is the only one about its seat.            *)
LEMMA MessageKeepsOrder ==
  ASSUME ClaimInv, OrderlyInv, orderly, ~Rejoins, NEW s \in Socket, NEW p \in Participant, NEW frame \in Frame,
         frame.participantId = p, Message(s, frame)
  PROVE  OrderlyInv'
<1>1. /\ Idle /\ s \in connected /\ OrderlyFrame(s, frame)
      /\ hubInbox' = Append(hubInbox, frame) /\ batch' = batch
      /\ routes' = [routes EXCEPT ![p] = s]
      /\ joined' = [joined EXCEPT ![s] = IF frame.kind = "join" THEN @ \cup {p} ELSE @]
      /\ left' = [left EXCEPT ![s] = IF frame.kind = "leave" THEN @ \cup {p} ELSE @]
      /\ UNCHANGED <<connected, closed, ledger, currentTick>>
  BY DEF Message, relayVars
<1>2. /\ routes[p] \in {NoSocket, s}
      /\ frame.kind = "join" => p \notin LiveSeats(ledger) /\ p \notin joined[s]
      /\ frame.kind = "leave" => p \in LiveSeats(ledger)
      /\ \A i \in DOMAIN hubInbox : hubInbox[i].participantId # p
  BY <1>1 DEF OrderlyFrame
<1>3. /\ hubInbox \in Seq(Frame) /\ Waiting = hubInbox /\ Idle' /\ Waiting' = Append(hubInbox, frame)
      /\ connected \subseteq Socket
  BY <1>1 DEF ClaimInv, HostTypes, Waiting, Idle
<1>4. ToSet(Waiting') = ToSet(Waiting) \cup {frame}
  BY <1>3, SetOfAppended
<1>5. \A f \in ToSet(Waiting) : f.participantId # p
  BY <1>2, <1>3 DEF ToSet
<1>6. /\ RoutesLead /\ \A q \in Participant : SeatIsTracked(q)
      /\ AtMostALeaveBehind(hubInbox) /\ NoSocket \notin Socket
  BY <1>3, WsHostAssumption DEF OrderlyInv
<1>7. ~Joining(p) /\ ~Leaving(p)
  BY <1>5, FramesOf DEF Joining, Leaving
<1>8. frame.kind = "leave" => p \in joined[s]
  <2>1. ASSUME p \in LiveSeats(ledger) PROVE routes[p] = s /\ p \in joined[s] \ left[s]
    <3>1. HasJoined(p)
      BY <1>6, <1>7, <2>1 DEF SeatIsTracked
    <3>2. routes[p] = s
      BY <1>2, <1>3, <1>6, <3>1 DEF HasJoined
    <3> QED BY <3>1, <3>2 DEF HasJoined
  <2> QED BY <1>2, <2>1
<1>9. /\ \A t \in Socket : joined'[t] \ {p} = joined[t] \ {p} /\ left'[t] \ {p} = left[t] \ {p}
      /\ \A t \in Socket \ {s} : joined'[t] = joined[t] /\ left'[t] = left[t]
      /\ \A q \in Participant : q # p => routes'[q] = routes[q]
      /\ routes'[p] = s
      /\ p \in joined'[s] <=> p \in joined[s] \/ frame.kind = "join"
      /\ p \in left'[s] <=> p \in left[s] \/ frame.kind = "leave"
  BY <1>1, <1>6 DEF ClaimInv, HostTypes
<1>10. RoutesLead'
  <2>1. routes' \in [Participant -> connected' \cup {NoSocket}]
    BY <1>1, <1>6 DEF RoutesLead
  <2>2. \A t \in Socket : left'[t] \subseteq joined'[t]
    <3> SUFFICES ASSUME NEW t \in Socket, NEW q \in left'[t] PROVE q \in joined'[t]
      OBVIOUS
    <3>1. q \in Participant
      BY <1>1 DEF ClaimInv, HostTypes
    <3>2. left[t] \subseteq joined[t]
      BY <1>6 DEF RoutesLead
    <3>3. CASE q # p
      <4>1. q \in left[t]
        BY <1>9, <3>1, <3>3
      <4>2. q \in joined[t]
        BY <3>2, <4>1
      <4> QED BY <1>9, <3>1, <3>3, <4>2
    <3>4. CASE q = p /\ t = s
      BY <1>8, <1>9, <3>2, <3>4
    <3>5. CASE t # s
      BY <1>9, <3>2, <3>5
    <3> QED BY <3>3, <3>4, <3>5
  <2>3. \A t \in Socket : t \notin connected' \cup closed' => joined'[t] = {}
    BY <1>1, <1>6, <1>9 DEF RoutesLead
  <2>4. ASSUME NEW t \in connected', NEW q \in joined'[t] PROVE routes'[q] = t
    <3>1. q \in Participant /\ t \in Socket /\ t \in connected
      BY <1>1, <1>3 DEF ClaimInv, HostTypes
    <3>2. CASE q # p
      <4>1. q \in joined[t] /\ routes'[q] = routes[q]
        BY <1>9, <3>1, <3>2
      <4> QED BY <1>6, <3>1, <4>1 DEF RoutesLead
    <3>3. CASE q = p /\ t = s
      BY <1>9, <3>3
    <3>4. CASE q = p /\ t # s
      <4>1. p \in joined[t]
        BY <1>9, <3>1, <3>4
      <4>2. routes[p] = t
        BY <1>6, <3>1, <4>1 DEF RoutesLead
      <4> QED BY <1>2, <1>6, <3>1, <3>4, <4>2
    <3> QED BY <3>2, <3>3, <3>4
  <2> QED BY <2>1, <2>2, <2>3, <2>4 DEF RoutesLead
<1>11. ASSUME NEW q \in Participant, q # p
       PROVE  (Joining(q)' <=> Joining(q)) /\ (Leaving(q)' <=> Leaving(q)) /\ (Claimed(q)' <=> Claimed(q))
  BY <1>1, <1>4, <1>9, <1>11, FramesOf DEF Joining, Leaving, Claimed
<1>12. ASSUME NEW q \in Participant, q # p PROVE SeatIsTracked(q)'
  <2>1. HasJoined(q)' <=> HasJoined(q)
    BY <1>1, <1>3, <1>9, <1>12 DEF HasJoined
  <2> QED BY <1>1, <1>6, <1>11, <1>12, <2>1 DEF SeatIsTracked
<1>13. /\ Joining(p)' <=> frame = JoinFrame(p)
       /\ Leaving(p)' <=> frame = LeaveFrame(p)
  BY <1>4, <1>5, FramesOf DEF Joining, Leaving
<1>14. SeatIsTracked(p)'
  <2>1. HasJoined(p)' <=> p \in joined'[s] \ left'[s]
    BY <1>1, <1>9 DEF HasJoined
  <2>2. p \in left[s] => p \in joined[s]
    BY <1>6 DEF RoutesLead
  <2>3. CASE frame.kind = "join" /\ frame = JoinFrame(p)
    <3>1. ~Leaving(p)' /\ Joining(p)' /\ HasJoined(p)'
      BY <1>2, <1>9, <1>13, <2>1, <2>2, <2>3, FramesOf
    <3> QED BY <1>1, <1>2, <2>3, <3>1 DEF SeatIsTracked
  <2>4. CASE frame.kind = "leave" /\ frame = LeaveFrame(p)
    <3>1. Leaving(p)' /\ ~Joining(p)' /\ ~HasJoined(p)'
      BY <1>9, <1>13, <2>1, <2>4, FramesOf
    <3> QED BY <1>1, <1>2, <2>4, <3>1 DEF SeatIsTracked
  <2>5. CASE frame.kind = "submit"
    <3>1. ~Leaving(p)' /\ ~Joining(p)'
      BY <1>13, <2>5, FramesOf
    <3>2. HasJoined(p)' <=> p \in joined[s] \ left[s]
      BY <1>9, <2>1, <2>5
    <3>3. HasJoined(p) => p \in joined[s] \ left[s]
      BY <1>2, <1>3, <1>6 DEF HasJoined
    <3>4. p \in joined[s] \ left[s] => HasJoined(p)
      BY <1>1, <1>6 DEF HasJoined, RoutesLead
    <3> QED BY <1>1, <1>6, <1>7, <3>1, <3>2, <3>3, <3>4 DEF SeatIsTracked
  <2> QED BY <2>3, <2>4, <2>5, FrameForms
<1>15. AtMostALeaveBehind(Waiting)'
  <2> DEFINE n == Len(hubInbox)
  <2> PICK next : next = Append(hubInbox, frame)
    OBVIOUS
  <2>1. /\ n \in Nat /\ DOMAIN hubInbox = 1..n /\ DOMAIN next = 1..n + 1
        /\ \A k \in 1..n : next[k] = hubInbox[k]
        /\ next[n + 1] = frame
    BY <1>3, AppendProperties
  <2> HIDE DEF n
  <2>2. \A i, j \in 1..n + 1 : i < j => i \in 1..n /\ (j \in 1..n \/ j = n + 1)
    BY <2>1
  <2>3. \A k \in 1..n : next[k].participantId # p
    BY <1>2, <2>1
  <2>4. AtMostALeaveBehind(next)
    BY <1>6, <2>1, <2>2, <2>3 DEF AtMostALeaveBehind
  <2> QED BY <1>3, <2>4
<1>16. OwnLeavesAreDue'
  <2>1. ASSUME NEW q \in Participant, Leaving(q)', Claimed(q)' PROVE ~Joining(q)'
    <3>1. CASE q = p
      BY <1>13, <2>1, <3>1, FramesOf
    <3>2. CASE q # p
      BY <1>11, <2>1, <3>2 DEF OrderlyInv, OwnLeavesAreDue
    <3> QED BY <3>1, <3>2
  <2> QED BY <1>3, <2>1 DEF OwnLeavesAreDue
<1> QED BY <1>10, <1>12, <1>14, <1>15, <1>16 DEF OrderlyInv

(* A dying socket leaves for each seat it is behind, whatever waits.       *)
LEMMA CloseKeepsOrder ==
  ASSUME ClaimInv, OrderlyInv, NEW s \in Socket, Close(s)
  PROVE  OrderlyInv'
<1>1. /\ Idle /\ s \in connected
      /\ connected' = connected \ {s} /\ closed' = closed \cup {s}
      /\ routes' = [q \in Participant |-> IF routes[q] = s THEN NoSocket ELSE routes[q]]
      /\ UNCHANGED <<batch, joined, left, ledger, currentTick>>
  BY DEF Close, relayVars
<1>2. PICK leaves \in Seq(Frame) :
        /\ Waiting = hubInbox /\ Idle' /\ Waiting' = hubInbox \o leaves
        /\ \A i \in DOMAIN leaves : leaves[i].kind = "leave" /\ leaves[i].participantId \in OwesLeave(s)
        /\ \A i, j \in DOMAIN leaves : leaves[i].participantId = leaves[j].participantId => i = j
        /\ ToSet(leaves) = {LeaveFrame(q) : q \in OwesLeave(s)}
  BY CloseQueuesLeaves DEF ClaimInv
<1>3. /\ \A q \in OwesLeave(s) : q \in Participant /\ routes[q] = s /\ HasJoined(q)
      /\ \A q \in Participant : routes[q] = s /\ HasJoined(q) => q \in OwesLeave(s)
  BY <1>1 DEF OwesLeave, Routed, HasJoined
<1>4. /\ RoutesLead /\ \A q \in Participant : SeatIsTracked(q)
      /\ AtMostALeaveBehind(hubInbox) /\ NoSocket \notin Socket /\ connected \subseteq Socket
      /\ hubInbox \in Seq(Frame)
  BY <1>2, WsHostAssumption DEF OrderlyInv, ClaimInv, HostTypes
<1>5. ASSUME NEW q \in Participant
      PROVE  /\ Joining(q)' <=> Joining(q)
             /\ Leaving(q)' <=> Leaving(q) \/ q \in OwesLeave(s)
  <2>1. ToSet(Waiting') = ToSet(Waiting) \cup {LeaveFrame(r) : r \in OwesLeave(s)}
    BY <1>2, <1>4, SetOfConcat
  <2>2. \A r \in OwesLeave(s) : LeaveFrame(r) # JoinFrame(q) /\ (LeaveFrame(r) = LeaveFrame(q) => r = q)
    BY <1>3, FramesOf
  <2> QED BY <2>1, <2>2 DEF Joining, Leaving
<1>6. ASSUME NEW q \in Participant, routes[q] = s PROVE ~HasJoined(q)' /\ ~Claimed(q)'
  <2>1. routes'[q] = NoSocket
    BY <1>1, <1>6
  <2> QED BY <1>1, <1>4, <2>1 DEF HasJoined, Claimed
<1>7. ASSUME NEW q \in Participant, routes[q] # s
      PROVE  (HasJoined(q)' <=> HasJoined(q)) /\ (Claimed(q)' <=> Claimed(q)) /\ q \notin OwesLeave(s)
  BY <1>1, <1>3, <1>7 DEF HasJoined, Claimed
<1>8. ASSUME NEW q \in Participant PROVE SeatIsTracked(q)'
  <2>1. SeatIsTracked(q) /\ ledger' = ledger
    BY <1>1, <1>4
  <2>2. CASE routes[q] = s
    <3>1. ~HasJoined(q)' /\ (q \in OwesLeave(s) <=> HasJoined(q))
      BY <1>3, <1>6, <2>2
    <3> QED BY <1>5, <2>1, <3>1 DEF SeatIsTracked
  <2>3. CASE routes[q] # s
    BY <1>5, <1>7, <2>1, <2>3 DEF SeatIsTracked
  <2> QED BY <2>2, <2>3
<1>9. RoutesLead'
  <2>1. routes' \in [Participant -> connected' \cup {NoSocket}]
    BY <1>1, <1>4 DEF RoutesLead
  <2>2. /\ \A t \in Socket : left'[t] \subseteq joined'[t]
        /\ \A t \in Socket : t \notin connected' \cup closed' => joined'[t] = {}
    BY <1>1, <1>4 DEF RoutesLead
  <2>3. ASSUME NEW t \in connected', NEW q \in joined'[t] PROVE routes'[q] = t
    <3>1. routes[q] = t /\ q \in Participant /\ t # s
      BY <1>1, <1>4 DEF RoutesLead, ClaimInv, HostTypes
    <3> QED BY <1>1, <3>1
  <2> QED BY <2>1, <2>2, <2>3 DEF RoutesLead
<1>10. AtMostALeaveBehind(Waiting)'
  <2> DEFINE m == Len(hubInbox)
             n == Len(leaves)
  <2> PICK next : next = hubInbox \o leaves
    OBVIOUS
  <2>1. /\ m \in Nat /\ n \in Nat /\ DOMAIN hubInbox = 1..m /\ DOMAIN leaves = 1..n /\ DOMAIN next = 1..m + n
        /\ \A k \in 1..m + n : next[k] = IF k <= m THEN hubInbox[k] ELSE leaves[k - m]
    BY <1>4
  <2> HIDE DEF m, n
  <2>2. \A k \in 1..m : next[k] = hubInbox[k] /\ hubInbox[k] \in ToSet(Waiting) /\ hubInbox[k] \in Frame
    <3>1. \A k \in 1..m : next[k] = hubInbox[k] /\ k \in DOMAIN hubInbox
      BY <2>1
    <3>2. \A k \in DOMAIN hubInbox : hubInbox[k] \in Frame
      BY <1>4
    <3> QED BY <1>2, <3>1, <3>2 DEF ToSet
  <2>3. \A k \in 1..m + n : k \in 1..m \/ (~(k <= m) /\ k - m \in 1..n /\ next[k] = leaves[k - m])
    BY <2>1
  <2>4. ASSUME NEW k \in 1..m, NEW r \in OwesLeave(s), hubInbox[k].participantId = r PROVE hubInbox[k].kind # "leave"
    <3>1. ~Leaving(r)
      BY <1>3, <1>4 DEF SeatIsTracked
    <3> QED BY <2>2, <2>4, <3>1, FrameForms DEF Leaving
  <2>5. ASSUME NEW i \in 1..m + n, NEW j \in 1..m + n, i < j, next[i].participantId = next[j].participantId
        PROVE  next[i].kind # "leave" /\ next[j].kind = "leave"
    <3>1. CASE i \in 1..m /\ j \in 1..m
      <4>1. next[i] = hubInbox[i] /\ next[j] = hubInbox[j]
        BY <2>2, <3>1
      <4> QED BY <1>4, <2>1, <2>5, <3>1, <4>1 DEF AtMostALeaveBehind
    <3>2. CASE i \in 1..m /\ j \notin 1..m
      <4>1. next[i] = hubInbox[i] /\ j - m \in 1..n /\ next[j] = leaves[j - m]
        BY <2>2, <2>3, <3>2
      <4>2. next[j].kind = "leave" /\ next[j].participantId \in OwesLeave(s)
        BY <1>2, <2>1, <4>1
      <4> QED BY <2>4, <2>5, <3>2, <4>1, <4>2
    <3>3. CASE i \notin 1..m
      <4>1. i - m \in 1..n /\ next[i] = leaves[i - m] /\ ~(i <= m)
        BY <2>3, <3>3
      <4>2. j - m \in 1..n /\ next[j] = leaves[j - m] /\ i - m # j - m
        BY <2>1, <2>3, <2>5, <4>1
      <4> QED BY <1>2, <2>1, <2>5, <4>1, <4>2
    <3> QED BY <3>1, <3>2, <3>3
  <2>6. AtMostALeaveBehind(next)
    BY <2>1, <2>5 DEF AtMostALeaveBehind
  <2> QED BY <1>2, <2>6
<1>11. OwnLeavesAreDue'
  <2>1. ASSUME NEW q \in Participant, Leaving(q)', Claimed(q)' PROVE ~Joining(q)'
    <3>1. routes[q] # s
      BY <1>6, <2>1
    <3>2. Leaving(q) /\ Claimed(q)
      BY <1>5, <1>7, <2>1, <3>1
    <3> QED BY <1>5, <3>2 DEF OrderlyInv, OwnLeavesAreDue
  <2> QED BY <1>2, <2>1 DEF OwnLeavesAreDue
<1> QED BY <1>8, <1>9, <1>10, <1>11 DEF OrderlyInv

(* A new socket is behind no seat yet.                                     *)
LEMMA ConnectKeepsOrder ==
  ASSUME ClaimInv, OrderlyInv, NEW s \in Socket, Connect(s)
  PROVE  OrderlyInv'
<1>1. /\ s \notin connected \cup closed /\ connected' = connected \cup {s}
      /\ UNCHANGED <<hubInbox, batch, ledger, currentTick, routes, closed, joined, left>>
  BY DEF Connect, hubVars, relayVars
<1>2. RoutesLead /\ NoSocket \notin Socket /\ connected \subseteq Socket
  BY WsHostAssumption DEF OrderlyInv, ClaimInv, HostTypes
<1>3. \A p \in Participant : (HasJoined(p)' <=> HasJoined(p)) /\ (Claimed(p)' <=> Claimed(p))
  BY <1>1, <1>2 DEF RoutesLead, HasJoined, Claimed
<1>4. RoutesLead'
  BY <1>1, <1>2 DEF RoutesLead
<1>5. Waiting' = Waiting /\ (Idle' <=> Idle)
  BY <1>1 DEF Waiting, Idle
<1>6. \A p \in Participant : (Joining(p)' <=> Joining(p)) /\ (Leaving(p)' <=> Leaving(p))
  BY <1>5 DEF Joining, Leaving
<1>7. \A p \in Participant : SeatIsTracked(p)'
  BY <1>1, <1>3, <1>6 DEF OrderlyInv, SeatIsTracked
<1>8. OwnLeavesAreDue'
  BY <1>1, <1>3, <1>5, <1>6 DEF OrderlyInv, OwnLeavesAreDue
<1>9. AtMostALeaveBehind(Waiting)'
  BY <1>5 DEF OrderlyInv, AtMostALeaveBehind
<1> QED BY <1>4, <1>7, <1>8, <1>9 DEF OrderlyInv

(* The clock moves before the mailbox is polled.                           *)
LEMMA PumpKeepsOrder ==
  ASSUME TypeOK, LedgerOK, ClaimInv, OrderlyInv, Pump
  PROVE  OrderlyInv'
<1>1. /\ Idle /\ currentTick' = currentTick + 1
      /\ UNCHANGED <<ledger, routes, connected, closed, joined, left>>
  BY DEF Pump, AdvanceTo, carrierVars
<1>2. Waiting' = Waiting
  BY WaitingFrames DEF ClaimInv
<1>3. \A p \in Participant : /\ (Joining(p)' <=> Joining(p)) /\ (Leaving(p)' <=> Leaving(p))
                             /\ (HasJoined(p)' <=> HasJoined(p)) /\ (Claimed(p)' <=> Claimed(p))
  BY <1>1, <1>2 DEF Joining, Leaving, HasJoined, Claimed
<1>4. OwnLeavesAreDue'
  <2>1. ASSUME NEW p \in Participant, NEW k \in OpenRows(ledger, p) PROVE ledger[k].joinedAtTick < currentTick + 1
    <3>1. k \in DOMAIN ledger /\ ledger \in Seq(Row) /\ currentTick \in Nat
      BY DEF OpenRows, TypeOK
    <3>2. ledger[k].joinedAtTick \in Nat /\ ledger[k].joinedAtTick <= currentTick
      BY <3>1, RowFields DEF LedgerOK
    <3> QED BY <3>1, <3>2
  <2> QED BY <1>1, <1>3, <2>1 DEF OrderlyInv, OwnLeavesAreDue
<1>5. \A p \in Participant : SeatIsTracked(p)'
  BY <1>1, <1>3 DEF OrderlyInv, SeatIsTracked
<1>6. RoutesLead'
  BY <1>1 DEF OrderlyInv, RoutesLead
<1>7. AtMostALeaveBehind(Waiting)'
  BY <1>2 DEF OrderlyInv, AtMostALeaveBehind
<1> QED BY <1>4, <1>5, <1>6, <1>7 DEF OrderlyInv

(* As long as no drain was cut off, orderly clients keep their order.      *)
LEMMA OrderlyInvAlways ==
  ASSUME UnrulyBound \in Nat, UnrulyBound <= MaxTick, ~Rejoins
  PROVE  HostSpec => [](orderly /\ ~cut => OrderlyInv)
<1>1. HostInit => OrderlyInv
  <2> SUFFICES ASSUME HostInit PROVE OrderlyInv
    OBVIOUS
  <2>1. /\ hubInbox = <<>> /\ batch = <<>> /\ ledger = <<>> /\ connected = {} /\ closed = {}
        /\ routes = [p \in Participant |-> NoSocket]
        /\ joined = [s \in Socket |-> {}] /\ left = [s \in Socket |-> {}]
    BY DEF HostInit, HubInit, RelayInit
  <2>2. ToSet(hubInbox) = {} /\ ToSet(batch) = {} /\ Waiting = hubInbox /\ Idle
    BY <2>1 DEF ToSet, Waiting, Idle
  <2>3. LiveSeats(ledger) = {}
    BY <2>1 DEF LiveSeats
  <2>4. RoutesLead
    BY <2>1 DEF RoutesLead
  <2> QED BY <2>1, <2>2, <2>3, <2>4
          DEF OrderlyInv, AtMostALeaveBehind, SeatIsTracked, Joining, Leaving, HasJoined, OwnLeavesAreDue
<1>2. /\ TypeOK /\ LedgerOK /\ ClaimInv /\ (orderly /\ ~cut => OrderlyInv) /\ [HostNext]_hostVars
      => (orderly /\ ~cut => OrderlyInv)'
  <2> SUFFICES ASSUME TypeOK, LedgerOK, ClaimInv, orderly /\ ~cut => OrderlyInv, [HostNext]_hostVars,
                      orderly', ~cut'
               PROVE  OrderlyInv'
    OBVIOUS
  <2>1. orderly /\ ~cut /\ ~CutOff
    <3>1. ~CutOff
      BY DEF CutOff
    <3>2. \A s \in Socket : Connect(s) \/ Close(s) => UNCHANGED <<orderly, cut>>
      BY DEF Connect, Close
    <3>3. \A s \in Socket : \A frame : Message(s, frame) => UNCHANGED <<orderly, cut>>
      BY DEF Message
    <3>4. Pump \/ Dispatch \/ UNCHANGED hostVars => UNCHANGED <<orderly, cut>>
      BY DEF Pump, Dispatch, hostVars, carrierVars
    <3>5. UNCHANGED <<orderly, cut>>
      BY <3>1, <3>2, <3>3, <3>4 DEF HostNext
    <3> QED BY <3>1, <3>5
  <2>2. OrderlyInv
    BY <2>1
  <2>3. CASE Dispatch
    BY <2>2, <2>3, DispatchKeepsOrder
  <2>4. CASE Pump
    BY <2>2, <2>4, PumpKeepsOrder
  <2>5. ASSUME NEW s \in Socket, NEW p \in Participant, Message(s, JoinFrame(p)) PROVE OrderlyInv'
    BY <2>1, <2>2, <2>5, FrameFields, FramesOf, MessageKeepsOrder
  <2>6. ASSUME NEW s \in Socket, NEW p \in Participant, Message(s, LeaveFrame(p)) PROVE OrderlyInv'
    BY <2>1, <2>2, <2>6, FrameFields, FramesOf, MessageKeepsOrder
  <2>7. ASSUME NEW s \in Socket, NEW p \in Participant, NEW kind \in Kind, Message(s, SubmitFrame(p, kind, TRUE))
        PROVE OrderlyInv'
    <3>1. SubmitFrame(p, kind, TRUE) \in Frame /\ SubmitFrame(p, kind, TRUE).participantId = p
      BY FrameFields DEF SubmitFrame
    <3> QED BY <2>1, <2>2, <2>7, <3>1, MessageKeepsOrder
  <2>8. ASSUME NEW s \in Socket, Close(s) PROVE OrderlyInv'
    BY <2>2, <2>8, CloseKeepsOrder
  <2>9. ASSUME NEW s \in Socket, Connect(s) PROVE OrderlyInv'
    BY <2>2, <2>9, ConnectKeepsOrder
  <2>10. CASE UNCHANGED hostVars
    <3>1. UNCHANGED <<hubInbox, batch, ledger, currentTick, routes, connected, closed, joined, left>>
      BY <2>10 DEF hostVars, hubVars, relayVars, carrierVars
    <3>2. Waiting' = Waiting /\ (Idle' <=> Idle)
      BY <3>1 DEF Waiting, Idle
    <3> QED BY <2>2, <3>1, <3>2 DEF OrderlyInv, AtMostALeaveBehind, RoutesLead, SeatIsTracked, Joining, Leaving,
                                    HasJoined, Claimed, OwnLeavesAreDue
  <2> QED BY <2>1, <2>3, <2>4, <2>5, <2>6, <2>7, <2>8, <2>9, <2>10 DEF HostNext
<1> QED BY <1>1, <1>2, ClaimInvAlways, HostRunsTheRelay, TypeCorrect, LedgerOKAlways, PTL DEF HostSpec

(* When none comes back on the socket it left on, no seat stays taken      *)
(* after its socket died, however the sockets come and go, with or without *)
(* frames of theirs on the way, as long as no drain was cut off            *)
(* (wsHubPort.ts, the close handler; server.ts, dispatch).                 *)
THEOREM NoSeatIsStrandedAlways ==
  ASSUME UnrulyBound \in Nat, UnrulyBound <= MaxTick, ~Rejoins
  PROVE  HostSpec => []NoSeatIsStranded
<1>1. TypeOK /\ (orderly /\ ~cut => OrderlyInv) => NoSeatIsStranded
  <2> SUFFICES ASSUME TypeOK, OrderlyInv, Settled, NEW p \in LiveSeats(ledger) PROVE Claimed(p)
    BY DEF NoSeatIsStranded
  <2>1. p \in Participant
    BY RowFields DEF TypeOK, LiveSeats
  <2>2. ToSet(Waiting) = {}
    BY DEF Settled, Waiting, ToSet
  <2>3. HasJoined(p)
    BY <2>1, <2>2 DEF OrderlyInv, SeatIsTracked, Leaving
  <2> QED BY <2>3 DEF HasJoined, Claimed
<1> QED BY <1>1, OrderlyInvAlways, HostRunsTheRelay, TypeCorrect, PTL

(* When every participant has a seat to take besides, the one thing that   *)
(* cuts a drain off is the leave of a dead socket whose join was polled    *)
(* with it (save/coop.ts, the strict end of a tenure).                     *)
THEOREM OnlyShortTenuresCut ==
  ASSUME UnrulyBound \in Nat, UnrulyBound <= MaxTick, ~Rejoins,
         IsFiniteSet(Participant), Cardinality(Participant) <= MaxWriters
  PROVE  HostSpec => []OnlyShortTenuresCutADrain
<1>1. TypeOK /\ LedgerOK /\ ClaimInv /\ (orderly /\ ~cut => OrderlyInv) => OnlyShortTenuresCutADrain
  <2> SUFFICES ASSUME TypeOK, LedgerOK, ClaimInv, OrderlyInv, ~Idle, Escapes(Head(batch))
               PROVE  LET p == Head(batch).participantId
                      IN  /\ Head(batch).kind = "leave"
                          /\ ~Claimed(p)
                          /\ \E k \in OpenRows(ledger, p) : ledger[k].joinedAtTick = currentTick
    BY DEF OnlyShortTenuresCutADrain
  <2> DEFINE frame == Head(batch)
             p == frame.participantId
  <2>1. Waiting = batch /\ batch \in Seq(Frame) /\ batch # <<>>
    BY DEF ClaimInv, HostTypes, Waiting, Idle
  <2>2. /\ frame \in Frame /\ ToSet(Waiting) = {frame} \cup ToSet(Tail(batch))
        /\ \A f \in ToSet(Tail(batch)) : f.participantId = p => frame.kind # "leave"
    BY <2>1, FramesBehind DEF OrderlyInv
  <2> HIDE DEF frame
  <2>3. p \in Participant /\ SeatIsTracked(p)
    BY <2>2, FrameForms DEF OrderlyInv
  <2>4. ledger \in Seq(Row) /\ currentTick \in Nat /\ (ledger = <<>> \/ ValidLedger(ledger))
    BY DEF TypeOK, LedgerOK
  <2>5. frame.kind # "join"
    <3> SUFFICES ASSUME frame.kind = "join" PROVE FALSE
      OBVIOUS
    <3>1. Joining(p)
      BY <2>2, FrameForms DEF Joining
    <3>2. p \notin LiveSeats(ledger)
      BY <2>3, <3>1 DEF SeatIsTracked
    <3>3. CanSeat(ledger, OpenRow(p, currentTick))
      BY <2>3, <2>4, <3>2, JoinIsValid DEF LedgerOK
    <3> QED BY <3>3 DEF Escapes, frame
  <2>6. frame.kind = "leave" /\ ledger # <<>> /\ ~CanVacate(ledger, p, currentTick)
    BY <2>5 DEF Escapes, frame
  <2>7. Leaving(p) /\ ~Joining(p)
    <3>1. frame = LeaveFrame(p)
      BY <2>2, <2>6, FrameForms
    <3>2. JoinFrame(p) \notin ToSet(Waiting)
      BY <2>2, <2>3, <2>6, <3>1, FramesOf
    <3> QED BY <2>2, <3>1, <3>2 DEF Leaving, Joining
  <2>8. p \in LiveSeats(ledger)
    BY <2>3, <2>7 DEF SeatIsTracked
  <2>9. PICK k \in OpenRows(ledger, p) : ~(ledger[k].joinedAtTick < currentTick)
    BY <2>3, <2>4, <2>6, <2>8, LeaveIsValid
  <2>10. ledger[k].joinedAtTick = currentTick
    <3>1. k \in DOMAIN ledger /\ ledger[k].joinedAtTick <= currentTick
      BY DEF OpenRows, LedgerOK
    <3>2. ledger[k].joinedAtTick \in Nat
      BY <2>4, <3>1, RowFields
    <3> QED BY <2>4, <2>9, <3>1, <3>2
  <2>11. ~Claimed(p)
    BY <2>3, <2>7, <2>9 DEF OrderlyInv, OwnLeavesAreDue
  <2> QED BY <2>6, <2>10, <2>11 DEF frame
<1> QED BY <1>1, ClaimInvAlways, OrderlyInvAlways, HostRunsTheRelay, TypeCorrect, LedgerOKAlways, PTL

(* So with a place for everybody a seat stays taken behind a dead socket   *)
(* only after the leave of such a socket was refused as a tenure of length *)
(* zero (wsHubPort.ts, the close handler; save/coop.ts, vacateSeat).       *)
THEOREM OnlyShortTenuresStrand ==
  ASSUME UnrulyBound \in Nat, UnrulyBound <= MaxTick, ~Rejoins,
         IsFiniteSet(Participant), Cardinality(Participant) <= MaxWriters
  PROVE  HostSpec => []OnlyShortTenuresStrandASeat
<1>1. NoSeatIsStranded /\ OnlyShortTenuresCutADrain => OnlyShortTenuresStrandASeat
  BY DEF OnlyShortTenuresStrandASeat
<1> QED BY <1>1, NoSeatIsStrandedAlways, OnlyShortTenuresCut, PTL
=============================================================================
