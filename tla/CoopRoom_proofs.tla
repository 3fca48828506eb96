--------------------------- MODULE CoopRoom_proofs ---------------------------
(***************************************************************************)
(* Theorems about an incident room: what its clients have received, know   *)
(* of the room and make of it, for every carrier, every number of seats    *)
(* and every bound; and about the simulations that run in its seats.       *)
(***************************************************************************)
EXTENDS SeatSims, CoopRelay_proofs

-----------------------------------------------------------------------------
(***************************************************************************)
(* The room runs the relay.                                                *)
(***************************************************************************)

(* A step of the room is a step of the relay behind its hub, or none.      *)
LEMMA RoomStepIsRelayStep ==
  ASSUME currentTick \in Nat, [RoomNext]_roomVars
  PROVE  [RelayNext]_relayVars
<1>1. CASE HostTick
  <2>1. currentTick < MaxTick /\ AdvanceTo(currentTick + 1)
    BY <1>1 DEF HostTick
  <2>2. currentTick + 1 \in 0..MaxTick
    BY <2>1, RelayAssumption
  <2> QED BY <2>1, <2>2 DEF RelayNext
<1>2. CASE Drain
  BY <1>2 DEF Drain
<1>3. CASE Dispatch
  <2>1. ASSUME NEW p \in Participant, RoomJoin(p) \/ RoomLeave(p) PROVE RelayNext
    BY <2>1 DEF RoomJoin, RoomLeave, HandleJoin, HandleLeave, RelayNext
  <2>2. ASSUME NEW p \in Participant, NEW kind \in Kind, NEW doorShaped \in BOOLEAN,
               RoomSubmit(p, kind, doorShaped)
        PROVE  RelayNext
    BY <2>2 DEF RoomSubmit, HandleSubmit, RelayNext
  <2>3. RoomCatchUp \/ RoomFault \/ RoomEscape => UNCHANGED relayVars
    BY DEF RoomCatchUp, RoomFault, RoomEscape, HandleCatchUpRequest, RecordFault, Escape
  <2> QED BY <1>3, <2>1, <2>2, <2>3 DEF Dispatch
<1>4. ASSUME NEW p \in Participant,
             \/ OpenRoom(p) \/ ClientJoin(p) \/ ClientLeave(p) \/ Resume(p) \/ Deliver(p) \/ Lose(p)
             \/ \E kind \in Kind, doorShaped \in BOOLEAN : ClientSubmit(p, kind, doorShaped)
      PROVE  UNCHANGED relayVars
  BY <1>4 DEF OpenRoom, ClientJoin, ClientLeave, ClientSubmit, Resume, Call, Deliver, Lose, hubVars
<1>5. CASE UNCHANGED roomVars
  BY <1>5 DEF roomVars, hubVars
<1> QED BY <1>1, <1>2, <1>3, <1>4, <1>5 DEF RoomNext

(* The relay of a room is the relay, whatever reaches its hub: what holds  *)
(* of every relay holds of it.                                             *)
THEOREM RoomRunsTheRelay == RoomSpec => RelaySpec
<1>1. RoomInit => RelayInit /\ currentTick \in Nat
  BY DEF RoomInit, HubInit, RelayInit
<1>2. currentTick \in Nat /\ [RoomNext]_roomVars => [RelayNext]_relayVars
  BY RoomStepIsRelayStep
<1>3. currentTick \in Nat /\ [RelayNext]_relayVars => (currentTick \in Nat)'
  <2> SUFFICES ASSUME currentTick \in Nat, [RelayNext]_relayVars PROVE currentTick' \in Nat
    OBVIOUS
  <2>1. ASSUME NEW t \in 0..MaxTick, AdvanceTo(t) PROVE currentTick' \in Nat
    BY <2>1 DEF AdvanceTo
  <2> QED BY <2>1 DEF RelayNext, JoinSeat, LeaveSeat, Submit, CatchUpPage, relayVars
<1> QED BY <1>1, <1>2, <1>3, PTL DEF RoomSpec, RelaySpec

-----------------------------------------------------------------------------
(***************************************************************************)
(* The types of a room.                                                    *)
(***************************************************************************)
Stamp == [tick : Int, seq : Int]

HubFrame ==
  [kind : {"join", "leave"}, participantId : Participant]
    \cup [kind : {"submit"}, participantId : Participant, recordKind : Kind, doorShaped : BOOLEAN]
    \cup [kind : {"catchup-request"}, participantId : Participant, after : Stamp]

SeatFrame ==
  [kind : {"broadcast"}, record : Record]
    \cup [kind : {"catchup-page"}, records : Seq(Record), hasMore : BOOLEAN]
    \cup [kind : {"seat-state"}, ledger : Seq(Row), lastStamp : Stamp]
    \cup [kind : {"fault"}]

RoomTypeOK ==
  /\ hubInbox \in Seq(HubFrame)
  /\ batch \in Seq(HubFrame)
  /\ mail \in [Participant -> Seq(SeatFrame)]
  /\ received \in [Participant -> Seq(Record)]
  /\ catchingUp \in [Participant -> BOOLEAN]
  /\ known \in [Participant -> [ledger : Seq(Row), lastStamp : Stamp]]
  /\ calls \in [Participant -> Nat]

(* The newest stamp of an inbox is one of its stamps, and none is newer    *)
(* (client.ts, lastSeen).                                                  *)
LEMMA LastSeenIsNewest ==
  ASSUME NEW records \in Seq(Record), records # <<>>
  PROVE  /\ LastSeen(records) \in StampsOf(records)
         /\ \A t \in StampsOf(records) : ~StampBefore(LastSeen(records), t)
<1> DEFINE n == Len(records)
           Newest(m, k) == \A l \in 1..m : ~StampBefore(records[k], records[l])
           Has == {m \in Nat : m + 1 <= n => \E k \in 1..m + 1 : Newest(m + 1, k)}
<1>1. n \in Nat /\ n >= 1 /\ \A i \in 1..n : records[i].tick \in Nat /\ records[i].seq \in Nat
  BY RecordFields
<1>2. 0 \in Has
  <2>1. n >= 1 => Newest(1, 1)
    BY <1>1 DEF StampBefore
  <2> QED BY <2>1
<1>3. ASSUME NEW m \in Nat, m \in Has PROVE m + 1 \in Has
  <2> SUFFICES ASSUME m + 2 <= n PROVE \E k \in 1..m + 2 : Newest(m + 2, k)
    OBVIOUS
  <2>1. PICK k \in 1..m + 1 : Newest(m + 1, k)
    BY <1>1, <1>3
  <2>2. CASE StampBefore(records[k], records[m + 2])
    <3>1. Newest(m + 2, m + 2)
      BY <1>1, <2>1, <2>2 DEF StampBefore
    <3> QED BY <3>1
  <2>3. CASE ~StampBefore(records[k], records[m + 2])
    <3>1. Newest(m + 2, k)
      BY <1>1, <2>1, <2>3
    <3> QED BY <3>1
  <2> QED BY <2>2, <2>3
<1>4. PICK k \in 1..n : Newest(n, k)
  <2>1. \A m \in Nat : m \in Has
    <3> HIDE DEF Has
    <3> QED BY <1>2, <1>3, SetInduction
  <2>2. n - 1 \in Has
    <3> HIDE DEF Has
    <3>1. n - 1 \in Nat
      BY <1>1
    <3> QED BY <2>1, <3>1
  <2> QED BY <1>1, <2>2
<1> DEFINE s == StampOf(records[k])
<1>5. s \in StampsOf(records) /\ \A t \in StampsOf(records) : ~StampBefore(s, t)
  BY <1>1, <1>4 DEF StampsOf, StampOf, StampBefore
<1> HIDE DEF s
<1> QED BY <1>5 DEF LastSeen

(* A cursor is a stamp.                                                    *)
LEMMA CursorIsStamp ==
  ASSUME NEW records \in Seq(Record)
  PROVE  LastSeen(records) \in Stamp /\ LastLogStamp(records) \in Stamp
<1>1. NoStamp \in Stamp
  BY DEF NoStamp, Stamp
<1>2. \A i \in DOMAIN records : StampOf(records[i]) \in Stamp
  BY RecordFields DEF StampOf, Stamp
<1>3. LastSeen(records) \in Stamp
  <2>1. CASE records = <<>>
    BY <1>1, <2>1 DEF LastSeen
  <2>2. CASE records # <<>>
    BY <1>2, <2>2, LastSeenIsNewest DEF StampsOf
  <2> QED BY <2>1, <2>2
<1>4. records # <<>> => Len(records) \in DOMAIN records
  OBVIOUS
<1> QED BY <1>1, <1>2, <1>3, <1>4 DEF LastLogStamp

(* What absorb() appends: the records of the frame that were not seen.     *)
LEMMA AbsorbTypes ==
  ASSUME NEW records \in Seq(Record), NEW news \in Seq(Record)
  PROVE  Absorb(records, news) \in Seq(Record)
BY SelectedStands, ConcatProperties DEF Absorb

(* Every frame is one of the frames of its direction.                      *)
LEMMA FramesAreFrames ==
  /\ \A p \in Participant : JoinFrame(p) \in HubFrame /\ LeaveFrame(p) \in HubFrame
  /\ \A p \in Participant, kind \in Kind, doorShaped \in BOOLEAN :
       SubmitFrame(p, kind, doorShaped) \in HubFrame
  /\ \A p \in Participant, records \in Seq(Record) : Request(p, records) \in HubFrame
  /\ \A record \in Record : BroadcastFrame(record) \in SeatFrame
  /\ \A records \in Seq(Record), hasMore \in BOOLEAN : PageFrame(records, hasMore) \in SeatFrame
  /\ \A rows \in Seq(Row), stamp \in Stamp : SeatStateFrame(rows, stamp) \in SeatFrame
  /\ FaultFrame \in SeatFrame
<1>1. \A p \in Participant : JoinFrame(p) \in HubFrame /\ LeaveFrame(p) \in HubFrame
  BY DEF JoinFrame, LeaveFrame, HubFrame
<1>2. \A p \in Participant, kind \in Kind, doorShaped \in BOOLEAN :
        SubmitFrame(p, kind, doorShaped) \in HubFrame
  BY DEF SubmitFrame, HubFrame
<1>3. \A p \in Participant, records \in Seq(Record) : Request(p, records) \in HubFrame
  BY CursorIsStamp DEF Request, CatchUpRequestFrame, HubFrame
<1>4. /\ \A record \in Record : BroadcastFrame(record) \in SeatFrame
      /\ \A records \in Seq(Record), hasMore \in BOOLEAN : PageFrame(records, hasMore) \in SeatFrame
      /\ \A rows \in Seq(Row), stamp \in Stamp : SeatStateFrame(rows, stamp) \in SeatFrame
      /\ FaultFrame \in SeatFrame
  BY DEF BroadcastFrame, PageFrame, SeatStateFrame, FaultFrame, SeatFrame
<1> QED BY <1>1, <1>2, <1>3, <1>4

(* A fan-out and a single send keep the mailboxes mailboxes.               *)
LEMMA SendTypes ==
  ASSUME RoomTypeOK
  PROVE  /\ \A frames \in Seq(SeatFrame) : Fan(frames) => mail' \in [Participant -> Seq(SeatFrame)]
         /\ \A p \in Participant, frame \in SeatFrame : Send(p, frame) => mail' \in [Participant -> Seq(SeatFrame)]
<1> USE DEF RoomTypeOK
<1>1. ASSUME NEW frames \in Seq(SeatFrame), Fan(frames) PROVE mail' \in [Participant -> Seq(SeatFrame)]
  <2>1. mail' = [p \in Participant |-> IF p \in LiveSeats(ledger') THEN mail[p] \o frames ELSE mail[p]]
    BY <1>1 DEF Fan
  <2>2. \A p \in Participant : mail[p] \o frames \in Seq(SeatFrame)
    BY ConcatProperties
  <2> QED BY <2>1, <2>2
<1>2. ASSUME NEW p \in Participant, NEW frame \in SeatFrame, Send(p, frame)
      PROVE  mail' \in [Participant -> Seq(SeatFrame)]
  BY <1>2, AppendProperties DEF Send
<1> QED BY <1>1, <1>2

(* A frame that was dispatched leaves the batch.                           *)
LEMMA DoneTypes ==
  ASSUME RoomTypeOK, ~Idle, Done
  PROVE  /\ hubInbox' \in Seq(HubFrame) /\ batch' \in Seq(HubFrame)
         /\ Head(batch) \in HubFrame /\ Head(batch).participantId \in Participant
<1>1. batch # <<>> /\ batch' = Tail(batch) /\ hubInbox' = hubInbox
  BY DEF Idle, Done
<1>2. Head(batch) \in HubFrame
  BY <1>1, HeadTailProperties DEF RoomTypeOK
<1> QED BY <1>1, <1>2, HeadTailProperties DEF RoomTypeOK, HubFrame

(* What a step may put into a mailbox.                                     *)
Sent(frame) ==
  \/ frame = SeatStates
  \/ frame = FaultFrame
  \/ log' # log /\ frame = BroadcastFrame(log'[Len(log')])
  \/ \E after : LET page == PageCoopLog(log, after, PageSize) IN frame = PageFrame(page, HasMore(page))

(* A dispatch that changes the room ends its fan-out with the new state of *)
(* the seats; any other answers one seat, or nobody (server.ts, dispatch). *)
LEMMA DispatchSends ==
  ASSUME TypeOK, TypeOK', RoomTypeOK, Dispatch
  PROVE  \/ mail' = mail /\ UNCHANGED relayVars
         \/ \E q \in Participant, frame \in SeatFrame :
              Send(q, frame) /\ Sent(frame) /\ frame.kind # "seat-state" /\ UNCHANGED relayVars
         \/ \E frames \in Seq(SeatFrame) :
              /\ Fan(frames)
              /\ frames # <<>> /\ frames[Len(frames)] = SeatStates
              /\ \A k \in DOMAIN frames : Sent(frames[k])
<1>1. log \in Seq(Record) /\ log' \in Seq(Record) /\ ledger' \in Seq(Row)
  BY DEF TypeOK
<1>2. SeatStates \in SeatFrame /\ Sent(SeatStates)
  BY <1>1, CursorIsStamp, FramesAreFrames DEF SeatStates, Sent
<1> DEFINE Fanned(frames) ==
             /\ Fan(frames)
             /\ frames # <<>> /\ frames[Len(frames)] = SeatStates
             /\ \A k \in DOMAIN frames : Sent(frames[k])
           AllTold == \E frames \in Seq(SeatFrame) : Fanned(frames)
           OneAnswered == \E q \in Participant, frame \in SeatFrame :
             Send(q, frame) /\ Sent(frame) /\ frame.kind # "seat-state" /\ UNCHANGED relayVars
<1>3. ASSUME NEW p \in Participant, RoomJoin(p) \/ RoomLeave(p)
      PROVE  AllTold
  <2>1. Fan(<<SeatStates>>)
    BY <1>3 DEF RoomJoin, RoomLeave
  <2>2. <<SeatStates>> \in Seq(SeatFrame)
    BY <1>2
  <2>3. <<SeatStates>>[1] = SeatStates /\ Len(<<SeatStates>>) = 1 /\ DOMAIN <<SeatStates>> = {1}
    OBVIOUS
  <2> QED BY <1>2, <2>1, <2>2, <2>3
<1>4. ASSUME NEW p \in Participant, NEW kind \in Kind, NEW doorShaped \in BOOLEAN,
             RoomSubmit(p, kind, doorShaped)
      PROVE  AllTold
  <2> DEFINE news == BroadcastFrame(log'[Len(log')])
  <2>1. Fan(<<news, SeatStates>>)
    BY <1>4 DEF RoomSubmit
  <2>2. log'[Len(log')] \in Record /\ log' # log
    <3>1. PICK record : log' = Append(log, record)
      BY <1>4 DEF RoomSubmit, HandleSubmit, Submit
    <3>2. Len(log') \in 1..Len(log') /\ Len(log') = Len(log) + 1 /\ Len(log) \in Nat
      BY <1>1, <3>1
    <3>3. Len(log') # Len(log)
      BY <3>2
    <3> QED BY <1>1, <3>2, <3>3
  <2>3. news \in SeatFrame /\ Sent(news)
    BY <2>2, FramesAreFrames DEF Sent
  <2> HIDE DEF news
  <2>4. <<news, SeatStates>> \in Seq(SeatFrame)
    BY <1>2, <2>3
  <2>5. /\ <<news, SeatStates>>[1] = news /\ <<news, SeatStates>>[2] = SeatStates
        /\ Len(<<news, SeatStates>>) = 2 /\ DOMAIN <<news, SeatStates>> = {1, 2}
    OBVIOUS
  <2> QED BY <1>2, <2>1, <2>3, <2>4, <2>5
<1>5. ASSUME RoomCatchUp PROVE OneAnswered
  <2> DEFINE page == PageCoopLog(log, Head(batch).after, PageSize)
             frame == PageFrame(page, HasMore(page))
  <2>1. ~Idle /\ Done /\ Send(Head(batch).participantId, frame) /\ UNCHANGED relayVars
    BY <1>5 DEF RoomCatchUp, HandleCatchUpRequest
  <2>2. page \in Seq(Record)
    BY <1>1, PageProperties, PageSizeAssumption
  <2>3. frame \in SeatFrame /\ frame.kind # "seat-state"
    <3> HIDE DEF page
    <3>1. HasMore(page) \in BOOLEAN
      BY DEF HasMore
    <3> QED BY <2>2, <3>1, FramesAreFrames DEF PageFrame
  <2>4. Sent(frame)
    BY DEF Sent
  <2> HIDE DEF frame
  <2> QED BY <2>1, <2>3, <2>4, DoneTypes
<1>6. ASSUME RoomFault PROVE OneAnswered
  <2>1. ~Idle /\ Done /\ Send(Head(batch).participantId, FaultFrame) /\ UNCHANGED relayVars
    BY <1>6 DEF RoomFault, RecordFault
  <2>2. FaultFrame \in SeatFrame /\ Sent(FaultFrame) /\ FaultFrame.kind # "seat-state"
    BY FramesAreFrames DEF Sent, FaultFrame
  <2> QED BY <2>1, <2>2, DoneTypes
<1>7. ASSUME RoomEscape PROVE mail' = mail /\ UNCHANGED relayVars
  BY <1>7 DEF RoomEscape, Escape
<1>8. CASE \E p \in Participant : RoomJoin(p) \/ RoomLeave(p)
  BY <1>3, <1>8
<1>9. CASE \E p \in Participant, kind \in Kind, doorShaped \in BOOLEAN : RoomSubmit(p, kind, doorShaped)
  BY <1>4, <1>9
<1> QED BY <1>5, <1>6, <1>7, <1>8, <1>9 DEF Dispatch

(* The hub's dispatch keeps the types of the room.                         *)
LEMMA DispatchTypes ==
  ASSUME TypeOK, TypeOK', RoomTypeOK, Dispatch
  PROVE  RoomTypeOK'
<1>1. mail' \in [Participant -> Seq(SeatFrame)]
  BY DispatchSends, SendTypes DEF RoomTypeOK
<1>2. hubInbox' \in Seq(HubFrame) /\ batch' \in Seq(HubFrame)
  <2>1. CASE ~Idle /\ Done
    BY <2>1, DoneTypes
  <2>2. CASE RoomEscape
    <3>1. <<>> \in Seq(HubFrame)
      OBVIOUS
    <3> QED BY <2>2, <3>1 DEF RoomEscape, Escape, RoomTypeOK
  <2> QED BY <2>1, <2>2 DEF Dispatch, RoomJoin, RoomLeave, RoomSubmit, RoomCatchUp, RoomFault,
        HandleJoin, HandleLeave, HandleSubmit, HandleCatchUpRequest, RecordFault, Dispatching
<1>3. UNCHANGED clientVars
  BY DEF Dispatch, RoomJoin, RoomLeave, RoomSubmit, RoomCatchUp, RoomFault, RoomEscape
<1> QED BY <1>1, <1>2, <1>3 DEF RoomTypeOK, clientVars

(* The clients' calls keep the types of the room.                          *)
LEMMA CallTypes ==
  ASSUME RoomTypeOK, NEW p \in Participant,
         \/ OpenRoom(p) \/ ClientJoin(p) \/ ClientLeave(p) \/ Resume(p)
         \/ \E kind \in Kind, doorShaped \in BOOLEAN : ClientSubmit(p, kind, doorShaped)
  PROVE  RoomTypeOK'
<1> USE DEF RoomTypeOK
<1>1. PICK call, frames :
        Call(p, call, frames) /\ frames \in Seq(HubFrame) /\ catchingUp' \in [Participant -> BOOLEAN]
  <2>1. /\ JoinFrame(p) \in HubFrame /\ LeaveFrame(p) \in HubFrame
        /\ Request(p, received[p]) \in HubFrame
        /\ \A kind \in Kind, doorShaped \in BOOLEAN : SubmitFrame(p, kind, doorShaped) \in HubFrame
    BY FramesAreFrames
  <2>2. ASSUME OpenRoom(p)
        PROVE  /\ Call(p, "open", <<JoinFrame(p), Request(p, received[p])>>)
               /\ <<JoinFrame(p), Request(p, received[p])>> \in Seq(HubFrame)
               /\ catchingUp' \in [Participant -> BOOLEAN]
    BY <2>1, <2>2 DEF OpenRoom
  <2>3. ASSUME ClientJoin(p)
        PROVE  Call(p, "join", <<JoinFrame(p)>>) /\ <<JoinFrame(p)>> \in Seq(HubFrame) /\ catchingUp' = catchingUp
    BY <2>1, <2>3 DEF ClientJoin
  <2>4. ASSUME ClientLeave(p)
        PROVE  Call(p, "leave", <<LeaveFrame(p)>>) /\ <<LeaveFrame(p)>> \in Seq(HubFrame) /\ catchingUp' = catchingUp
    BY <2>1, <2>4 DEF ClientLeave
  <2>5. ASSUME NEW kind \in Kind, NEW doorShaped \in BOOLEAN, ClientSubmit(p, kind, doorShaped)
        PROVE  /\ Call(p, "submit", <<SubmitFrame(p, kind, doorShaped)>>)
               /\ <<SubmitFrame(p, kind, doorShaped)>> \in Seq(HubFrame) /\ catchingUp' = catchingUp
    BY <2>1, <2>5 DEF ClientSubmit
  <2>6. ASSUME Resume(p)
        PROVE  /\ Call(p, "resume", <<Request(p, received[p])>>) /\ <<Request(p, received[p])>> \in Seq(HubFrame)
               /\ catchingUp' \in [Participant -> BOOLEAN]
    BY <2>1, <2>6 DEF Resume
  <2> QED BY <2>2, <2>3, <2>4, <2>5, <2>6
<1>2. hubInbox \o frames \in Seq(HubFrame)
  BY <1>1, ConcatProperties
<1> QED BY <1>1, <1>2 DEF Call

(* A frame is handled by the client of its seat and by nobody else.        *)
LEMMA DeliverTypes ==
  ASSUME RoomTypeOK, NEW p \in Participant, Deliver(p) \/ Lose(p)
  PROVE  RoomTypeOK'
<1> USE DEF RoomTypeOK
<1>1. \A i \in DOMAIN mail[p] : RemoveAt(mail[p], i) \in Seq(SeatFrame)
  BY RemovedAt
<1>2. mail' \in [Participant -> Seq(SeatFrame)]
  BY <1>1 DEF Deliver, Lose
<1>3. CASE Lose(p)
  BY <1>2, <1>3 DEF Lose, hubVars, clientVars
<1>4. CASE Deliver(p)
  <2>1. PICK i \in DOMAIN mail[p] :
          \/ ApplyBroadcast(p, mail[p][i])
          \/ ApplyPage(p, mail[p][i])
          \/ ApplySeatState(p, mail[p][i])
          \/ ApplyFault(p, mail[p][i])
    BY <1>4 DEF Deliver
  <2> DEFINE frame == mail[p][i]
  <2>2. frame \in SeatFrame
    OBVIOUS
  <2> HIDE DEF frame
  <2>3. batch' = batch /\ calls' = calls
    BY <1>4 DEF Deliver
  <2>4. CASE ApplyBroadcast(p, frame)
    <3>1. frame.record \in Record
      BY <2>2, <2>4 DEF SeatFrame, ApplyBroadcast
    <3>2. Absorb(received[p], <<frame.record>>) \in Seq(Record)
      <4>1. <<frame.record>> \in Seq(Record)
        BY <3>1
      <4> QED BY <4>1, AbsorbTypes
    <3> QED BY <1>2, <2>3, <2>4, <3>2 DEF ApplyBroadcast
  <2>5. CASE ApplyPage(p, frame)
    <3>1. frame.records \in Seq(Record) /\ frame.hasMore \in BOOLEAN
      BY <2>2, <2>5 DEF SeatFrame, ApplyPage
    <3>2. received' \in [Participant -> Seq(Record)] /\ catchingUp' \in [Participant -> BOOLEAN]
      BY <3>1, <2>5, AbsorbTypes DEF ApplyPage
    <3>3. Request(p, received'[p]) \in HubFrame
      BY <3>2, FramesAreFrames
    <3>4. Append(hubInbox, Request(p, received'[p])) \in Seq(HubFrame)
      BY <3>3
    <3> QED BY <1>2, <2>3, <2>5, <3>2, <3>4 DEF ApplyPage
  <2>6. CASE ApplySeatState(p, frame)
    <3>1. frame.ledger \in Seq(Row) /\ frame.lastStamp \in Stamp
      BY <2>2, <2>6 DEF SeatFrame, ApplySeatState
    <3> QED BY <1>2, <2>3, <2>6, <3>1 DEF ApplySeatState
  <2>7. CASE ApplyFault(p, frame)
    BY <1>2, <2>3, <2>7 DEF ApplyFault
  <2> QED BY <2>1, <2>4, <2>5, <2>6, <2>7 DEF frame
<1> QED BY <1>3, <1>4

(* Frames, inboxes and flags stay what the room keeps.                     *)
THEOREM RoomTypeCorrect == RoomSpec => []RoomTypeOK
<1>1. RoomInit => RoomTypeOK
  <2> SUFFICES ASSUME RoomInit PROVE RoomTypeOK
    OBVIOUS
  <2>1. /\ <<>> \in Seq(HubFrame) /\ <<>> \in Seq(SeatFrame) /\ <<>> \in Seq(Record)
        /\ <<>> \in Seq(Row) /\ NoStamp \in Stamp
    BY DEF NoStamp, Stamp
  <2> QED BY <2>1 DEF RoomInit, HubInit, RoomTypeOK
<1>2. TypeOK /\ TypeOK' /\ RoomTypeOK /\ [RoomNext]_roomVars => RoomTypeOK'
  <2> SUFFICES ASSUME TypeOK, TypeOK', RoomTypeOK, [RoomNext]_roomVars PROVE RoomTypeOK'
    OBVIOUS
  <2>1. CASE HostTick \/ UNCHANGED roomVars
    BY <2>1 DEF HostTick, roomVars, hubVars, clientVars, RoomTypeOK
  <2>2. CASE Drain
    <3>1. <<>> \in Seq(HubFrame)
      OBVIOUS
    <3> QED BY <2>2, <3>1 DEF Drain, Poll, clientVars, RoomTypeOK
  <2> QED BY <2>1, <2>2, DispatchTypes, CallTypes, DeliverTypes DEF RoomNext
<1> QED BY <1>1, <1>2, RoomRunsTheRelay, TypeCorrect, PTL DEF RoomSpec

-----------------------------------------------------------------------------
(***************************************************************************)
(* What clients have received.  A frame on its way holds records of the    *)
(* log, each once; that and ReceivedOnceFromLog together are inductive.    *)
(***************************************************************************)
OnceFrom(records, source) ==
  \A i, j \in DOMAIN records :
    /\ records[i] \in ToSet(source)
    /\ StampOf(records[i]) = StampOf(records[j]) => i = j

(* The two halves of OnceFrom.                                             *)
LEMMA OnceFromHalves ==
  ASSUME NEW records, NEW source
  PROVE  OnceFrom(records, source) <=>
           /\ \A i \in DOMAIN records : records[i] \in ToSet(source)
           /\ \A i, j \in DOMAIN records : StampOf(records[i]) = StampOf(records[j]) => i = j
BY DEF OnceFrom

FrameFrom(frame, source) ==
  /\ frame.kind = "broadcast" => frame.record \in ToSet(source)
  /\ frame.kind = "catchup-page" => OnceFrom(frame.records, source)

MailIsFromLog == \A p \in Participant : \A i \in DOMAIN mail[p] : FrameFrom(mail[p][i], log)

(* The shared log only grows.                                              *)
LEMMA LogGrows ==
  ASSUME TypeOK, [RelayNext]_relayVars
  PROVE  \/ log' = log
         \/ \E record \in Record : log' = Append(log, record)
<1>1. ASSUME NEW p \in Participant, NEW kind \in Kind, NEW doorShaped \in BOOLEAN,
             Submit(p, kind, doorShaped)
      PROVE  \E record \in Record : log' = Append(log, record)
  BY <1>1 DEF Submit, Record, TypeOK
<1> QED BY <1>1 DEF RelayNext, AdvanceTo, JoinSeat, LeaveSeat, CatchUpPage, relayVars

(* What was in the log stays in it.                                        *)
LEMMA LogKeeps ==
  ASSUME TypeOK, [RelayNext]_relayVars
  PROVE  ToSet(log) \subseteq ToSet(log')
<1>1. log \in Seq(Record)
  BY DEF TypeOK
<1>2. ASSUME NEW record \in Record, log' = Append(log, record) PROVE ToSet(log) \subseteq ToSet(log')
  <2>1. \A i \in DOMAIN log : i \in DOMAIN log' /\ log'[i] = log[i]
    BY <1>1, <1>2
  <2> QED BY <2>1 DEF ToSet
<1> QED BY <1>2, LogGrows

(* The idempotence gate: absorbing a frame appends what was not seen, once *)
(* (client.ts, absorb).                                                    *)
LEMMA AbsorbOnce ==
  ASSUME NEW records \in Seq(Record), NEW news \in Seq(Record), NEW source,
         OnceFrom(records, source), OnceFrom(news, source)
  PROVE  OnceFrom(Absorb(records, news), source)
<1> DEFINE unseen == {record \in ToSet(news) : StampOf(record) \notin StampsOf(records)}
           fresh == Selected(news, unseen)
           next == records \o fresh
<1>1. Absorb(records, news) = next
  BY DEF Absorb
<1>2. \A record \in unseen : \A i \in DOMAIN records : StampOf(record) # StampOf(records[i])
  BY DEF StampsOf
<1> HIDE DEF unseen
<1>0. /\ \A i \in DOMAIN records : records[i] \in ToSet(source)
      /\ \A i, j \in DOMAIN records : StampOf(records[i]) = StampOf(records[j]) => i = j
      /\ \A i \in DOMAIN news : news[i] \in ToSet(source)
      /\ \A i, j \in DOMAIN news : StampOf(news[i]) = StampOf(news[j]) => i = j
  BY OnceFromHalves
<1>3. fresh \in Seq(Record) /\ \E at : StandsAt(fresh, at, news, unseen, Len(news))
  BY SelectedStands
<1>4. PICK at : StandsAt(fresh, at, news, unseen, Len(news))
  BY <1>3
<1> HIDE DEF fresh
<1>5. /\ \A i \in DOMAIN fresh : fresh[i] \in unseen /\ fresh[i] \in ToSet(source)
      /\ \A i, j \in DOMAIN fresh : StampOf(fresh[i]) = StampOf(fresh[j]) => i = j
  <2>1. /\ at \in [1..Len(fresh) -> 1..Len(news)]
        /\ \A i, j \in 1..Len(fresh) : i < j => at[i] < at[j]
        /\ \A i \in 1..Len(fresh) : fresh[i] = news[at[i]] /\ fresh[i] \in unseen
    BY <1>4 DEF StandsAt
  <2>2. DOMAIN fresh = 1..Len(fresh) /\ Len(fresh) \in Nat /\ DOMAIN news = 1..Len(news) /\ Len(news) \in Nat
    BY <1>3
  <2>3. ASSUME NEW i \in DOMAIN fresh, NEW j \in DOMAIN fresh, StampOf(fresh[i]) = StampOf(fresh[j])
        PROVE  i = j
    <3>1. at[i] = at[j]
      BY <1>0, <2>1, <2>2, <2>3
    <3> QED BY <2>1, <2>2, <3>1
  <2>4. \A i \in DOMAIN fresh : fresh[i] \in ToSet(source)
    BY <1>0, <2>1, <2>2
  <2> QED BY <2>1, <2>2, <2>3, <2>4
<1> DEFINE n == Len(records)
           m == Len(fresh)
<1>6. /\ n \in Nat /\ m \in Nat /\ DOMAIN records = 1..n /\ DOMAIN fresh = 1..m /\ DOMAIN next = 1..n + m
      /\ \A i \in 1..n : next[i] = records[i]
      /\ \A i \in n + 1..n + m : next[i] = fresh[i - n] /\ i - n \in 1..m
  BY <1>3, ConcatProperties
<1> HIDE DEF next, n, m
<1>7. ASSUME NEW i \in DOMAIN next PROVE next[i] \in ToSet(source)
  <2>1. CASE i \in 1..n
    BY <1>0, <1>6, <2>1
  <2>2. CASE i \in n + 1..n + m
    BY <1>5, <1>6, <2>2
  <2> QED BY <1>6, <2>1, <2>2
<1>8. ASSUME NEW i \in DOMAIN next, NEW j \in DOMAIN next, StampOf(next[i]) = StampOf(next[j])
      PROVE  i = j
  <2>1. CASE i \in 1..n /\ j \in 1..n
    BY <1>0, <1>6, <1>8, <2>1
  <2>2. CASE i \in n + 1..n + m /\ j \in n + 1..n + m
    <3>1. i - n = j - n
      BY <1>5, <1>6, <1>8, <2>2
    <3> QED BY <1>6, <2>2, <3>1
  <2>3. CASE i \in 1..n /\ j \in n + 1..n + m
    BY <1>2, <1>5, <1>6, <1>8, <2>3
  <2>4. CASE j \in 1..n /\ i \in n + 1..n + m
    BY <1>2, <1>5, <1>6, <1>8, <2>4
  <2> QED BY <1>6, <2>1, <2>2, <2>3, <2>4
<1> QED BY <1>1, <1>7, <1>8, OnceFromHalves

(* A page holds records of the log, each once.                             *)
LEMMA PageOnce ==
  ASSUME TypeOK, StampsAscend, NEW after
  PROVE  OnceFrom(PageCoopLog(log, after, PageSize), log)
<1> DEFINE k == Passed(log, after)
           page == PageCoopLog(log, after, PageSize)
<1>1. log \in Seq(Record) /\ Len(log) \in Nat
  BY DEF TypeOK
<1>2. /\ k \in 0..Len(log) /\ page \in Seq(Record)
      /\ Len(page) = Smaller(k + PageSize, Len(log)) - k
      /\ \A i \in 1..Len(page) : page[i] = log[k + i]
  BY <1>1, PageProperties, PageSizeAssumption
<1> HIDE DEF k, page
<1>3. \A i \in DOMAIN page : i \in Int /\ k + i \in DOMAIN log /\ page[i] = log[k + i]
  BY <1>1, <1>2, PageSizeAssumption DEF Smaller
<1>4. \A i, j \in DOMAIN log : StampOf(log[i]) = StampOf(log[j]) => i = j
  <2>1. \A i \in DOMAIN log : i \in Int /\ log[i].seq \in Int
    BY <1>1, RecordFields
  <2>2. \A i, j \in DOMAIN log : i < j => log[i].seq < log[j].seq
    BY DEF StampsAscend
  <2>3. \A i, j \in DOMAIN log : StampOf(log[i]) = StampOf(log[j]) => log[i].seq = log[j].seq
    BY DEF StampOf
  <2> QED BY <2>1, <2>2, <2>3
<1>5. \A i, j \in DOMAIN page : StampOf(page[i]) = StampOf(page[j]) => i = j
  BY <1>2, <1>3, <1>4
<1>6. \A i \in DOMAIN page : page[i] \in ToSet(log)
  BY <1>3 DEF ToSet
<1> QED BY <1>5, <1>6, OnceFromHalves DEF page

(* A frame in a mailbox was there before or has just been sent.            *)
LEMMA MailSources ==
  ASSUME TypeOK, TypeOK', RoomTypeOK, RoomTypeOK', [RoomNext]_roomVars,
         NEW p \in Participant, NEW i \in DOMAIN mail'[p]
  PROVE  mail'[p][i] \in ToSet(mail[p]) \/ Sent(mail'[p][i])
<1> USE DEF RoomTypeOK
<1>1. mail[p] \in Seq(SeatFrame) /\ Len(mail[p]) \in Nat /\ mail'[p] \in Seq(SeatFrame)
  OBVIOUS
<1>2. CASE mail'[p] = mail[p]
  BY <1>2 DEF ToSet
<1>3. ASSUME NEW frames \in Seq(SeatFrame), Fan(frames), \A k \in DOMAIN frames : Sent(frames[k])
      PROVE  mail'[p][i] \in ToSet(mail[p]) \/ Sent(mail'[p][i])
  <2>1. CASE mail'[p] = mail[p] \o frames
    <3>1. i \in 1..Len(mail[p]) + Len(frames)
      BY <1>1, <2>1, ConcatProperties
    <3>2. CASE i <= Len(mail[p])
      <4>1. mail'[p][i] = mail[p][i] /\ i \in DOMAIN mail[p]
        BY <1>1, <2>1, <3>1, <3>2, ConcatProperties
      <4> QED BY <4>1 DEF ToSet
    <3>3. CASE i > Len(mail[p])
      <4>1. mail'[p][i] = frames[i - Len(mail[p])]
        BY <1>1, <2>1, <3>1, <3>3, ConcatProperties
      <4>2. i - Len(mail[p]) \in 1..Len(frames)
        BY <1>1, <3>1, <3>3
      <4>3. i - Len(mail[p]) \in DOMAIN frames
        BY <4>2
      <4> QED BY <1>3, <4>1, <4>3
    <3> QED BY <1>1, <3>1, <3>2, <3>3
  <2> QED BY <1>2, <1>3, <2>1 DEF Fan
<1>4. ASSUME NEW q \in Participant, NEW frame \in SeatFrame, Send(q, frame), Sent(frame)
      PROVE  mail'[p][i] \in ToSet(mail[p]) \/ Sent(mail'[p][i])
  <2>1. CASE q = p
    <3>1. mail'[p] = Append(mail[p], frame)
      BY <1>4, <2>1 DEF Send
    <3>2. mail'[p][i] = frame \/ (i \in DOMAIN mail[p] /\ mail'[p][i] = mail[p][i])
      <4>1. /\ Len(mail'[p]) = Len(mail[p]) + 1 /\ mail'[p][Len(mail[p]) + 1] = frame
            /\ \A k \in 1..Len(mail[p]) : mail'[p][k] = mail[p][k]
        BY <1>1, <1>4, <3>1, AppendProperties
      <4>2. i \in 1..Len(mail[p]) + 1 /\ DOMAIN mail[p] = 1..Len(mail[p])
        BY <1>1, <4>1
      <4>3. i = Len(mail[p]) + 1 \/ i \in 1..Len(mail[p])
        <5>1. \A n \in Nat : \A k \in 1..n + 1 : k = n + 1 \/ k \in 1..n
          OBVIOUS
        <5> QED BY <1>1, <4>2, <5>1
      <4> QED BY <4>1, <4>2, <4>3
    <3> QED BY <1>4, <3>2 DEF ToSet
  <2>2. CASE q # p
    BY <1>2, <1>4, <2>2 DEF Send
  <2> QED BY <2>1, <2>2
<1>5. ASSUME NEW k \in DOMAIN mail[p], mail'[p] = RemoveAt(mail[p], k)
      PROVE  mail'[p][i] \in ToSet(mail[p])
  <2>1. \E l \in DOMAIN mail[p] : mail'[p][i] = mail[p][l]
    <3>1. k \in 1..Len(mail[p]) /\ DOMAIN mail[p] = 1..Len(mail[p])
      BY <1>1
    <3>2. /\ i \in 1..Len(mail[p]) - 1
          /\ mail'[p][i] = IF i < k THEN mail[p][i] ELSE mail[p][i + 1]
      <4>1. /\ Len(mail'[p]) = Len(mail[p]) - 1
            /\ \A l \in 1..Len(mail[p]) - 1 : mail'[p][l] = IF l < k THEN mail[p][l] ELSE mail[p][l + 1]
        BY <1>1, <1>5, <3>1, RemovedAt
      <4>2. i \in 1..Len(mail'[p])
        BY <1>1
      <4> QED BY <4>1, <4>2
    <3>3. i \in DOMAIN mail[p] /\ i + 1 \in DOMAIN mail[p]
      BY <1>1, <3>1, <3>2
    <3> QED BY <3>2, <3>3
  <2> QED BY <2>1 DEF ToSet
<1>6. ASSUME NEW q \in Participant, Deliver(q) \/ Lose(q)
      PROVE  mail'[p][i] \in ToSet(mail[p])
  <2>1. CASE mail' = mail
    BY <2>1 DEF ToSet
  <2>2. ASSUME NEW k \in DOMAIN mail[q], mail' = [mail EXCEPT ![q] = RemoveAt(@, k)]
        PROVE  mail'[p][i] \in ToSet(mail[p])
    <3>1. CASE q = p
      <4>1. mail'[p] = RemoveAt(mail[p], k)
        BY <2>2, <3>1
      <4> QED BY <1>5, <2>2, <3>1, <4>1
    <3>2. CASE q # p
      BY <2>2, <3>2 DEF ToSet
    <3> QED BY <3>1, <3>2
  <2> QED BY <1>6, <2>1, <2>2 DEF Deliver, Lose
<1>7. CASE Dispatch
  BY <1>3, <1>4, <1>7, <1>2, DispatchSends
<1>8. mail' = mail \/ Dispatch \/ \E q \in Participant : Deliver(q) \/ Lose(q)
  BY DEF RoomNext, HostTick, Drain, OpenRoom, ClientJoin, ClientLeave, ClientSubmit, Resume, Call, roomVars
<1> QED BY <1>2, <1>6, <1>7, <1>8

(* What a client absorbs from one frame keeps its inbox a part of the log. *)
LEMMA DeliverOnce ==
  ASSUME RoomTypeOK, ReceivedOnceFromLog, MailIsFromLog, NEW q \in Participant, Deliver(q),
         NEW p \in Participant
  PROVE  OnceFrom(received'[p], log)
<1> USE DEF RoomTypeOK
<1>1. OnceFrom(received[p], log)
  BY DEF ReceivedOnceFromLog, OnceFrom
<1>2. PICK i \in DOMAIN mail[q] :
        \/ ApplyBroadcast(q, mail[q][i])
        \/ ApplyPage(q, mail[q][i])
        \/ ApplySeatState(q, mail[q][i])
        \/ ApplyFault(q, mail[q][i])
  BY DEF Deliver
<1> DEFINE frame == mail[q][i]
<1>3. frame \in SeatFrame /\ FrameFrom(frame, log)
  BY DEF MailIsFromLog
<1> HIDE DEF frame
<1>4. ASSUME NEW news \in Seq(Record), OnceFrom(news, log),
             received' = [received EXCEPT ![q] = Absorb(@, news)]
      PROVE  OnceFrom(received'[p], log)
  <2>1. CASE p = q
    <3>1. received'[p] = Absorb(received[p], news)
      BY <1>4, <2>1
    <3> QED BY <1>1, <1>4, <3>1, AbsorbOnce
  <2>2. CASE p # q
    BY <1>1, <1>4, <2>2
  <2> QED BY <2>1, <2>2
<1>5. CASE ApplyBroadcast(q, frame)
  <2>1. frame.record \in Record /\ frame.record \in ToSet(log)
    BY <1>3, <1>5 DEF ApplyBroadcast, SeatFrame, FrameFrom
  <2>2. <<frame.record>> \in Seq(Record) /\ OnceFrom(<<frame.record>>, log)
    BY <2>1 DEF OnceFrom
  <2> QED BY <1>4, <1>5, <2>2 DEF ApplyBroadcast
<1>6. CASE ApplyPage(q, frame)
  <2>1. frame.records \in Seq(Record) /\ OnceFrom(frame.records, log)
    BY <1>3, <1>6 DEF ApplyPage, SeatFrame, FrameFrom
  <2> QED BY <1>4, <1>6, <2>1 DEF ApplyPage
<1>7. CASE received' = received
  BY <1>1, <1>7
<1> QED BY <1>2, <1>5, <1>6, <1>7 DEF frame, ApplySeatState, ApplyFault

(* What is sent to a seat is from the log.                                 *)
LEMMA SentFrom ==
  ASSUME TypeOK, TypeOK', StampsAscend, [RelayNext]_relayVars, NEW frame, Sent(frame)
  PROVE  FrameFrom(frame, log')
<1>1. CASE frame = SeatStates
  <2>1. frame.kind = "seat-state"
    BY <1>1 DEF SeatStates, SeatStateFrame
  <2> QED BY <2>1 DEF FrameFrom
<1>2. CASE frame = FaultFrame
  BY <1>2 DEF FaultFrame, FrameFrom
<1>3. CASE log' # log /\ frame = BroadcastFrame(log'[Len(log')])
  <2>1. log' # <<>> /\ log' \in Seq(Record)
    BY <1>3, LogGrows, AppendProperties DEF TypeOK
  <2>2. log'[Len(log')] \in ToSet(log')
    <3>1. Len(log') \in DOMAIN log'
      BY <2>1
    <3> QED BY <3>1 DEF ToSet
  <2>3. frame.kind = "broadcast" /\ frame.record = log'[Len(log')]
    BY <1>3 DEF BroadcastFrame
  <2> QED BY <2>2, <2>3 DEF FrameFrom
<1>4. ASSUME NEW after,
             frame = PageFrame(PageCoopLog(log, after, PageSize), HasMore(PageCoopLog(log, after, PageSize)))
      PROVE  FrameFrom(frame, log')
  <2> DEFINE page == PageCoopLog(log, after, PageSize)
  <2>1. OnceFrom(page, log)
    BY PageOnce
  <2> HIDE DEF page
  <2>2. OnceFrom(page, log')
    BY <2>1, LogKeeps DEF OnceFrom
  <2>3. frame.kind = "catchup-page" /\ frame.records = page
    BY <1>4 DEF PageFrame, page
  <2> QED BY <2>2, <2>3 DEF FrameFrom
<1> QED BY <1>1, <1>2, <1>3, <1>4 DEF Sent

(* Frames on their way carry records of the shared log, and so do the      *)
(* inboxes they end in: neither half is inductive without the other.       *)
LEMMA MailIsFromLogAlways == RoomSpec => [](ReceivedOnceFromLog /\ MailIsFromLog)
<1>1. RoomInit => ReceivedOnceFromLog /\ MailIsFromLog
  BY DEF RoomInit, ReceivedOnceFromLog, MailIsFromLog
<1>2. /\ TypeOK /\ TypeOK' /\ StampsAscend /\ RoomTypeOK /\ RoomTypeOK'
      /\ ReceivedOnceFromLog /\ MailIsFromLog /\ [RoomNext]_roomVars /\ [RelayNext]_relayVars
      => ReceivedOnceFromLog' /\ MailIsFromLog'
  <2> SUFFICES ASSUME TypeOK, TypeOK', StampsAscend, RoomTypeOK, RoomTypeOK',
                      ReceivedOnceFromLog, MailIsFromLog, [RoomNext]_roomVars, [RelayNext]_relayVars
               PROVE  ReceivedOnceFromLog' /\ MailIsFromLog'
    OBVIOUS
  <2>1. ToSet(log) \subseteq ToSet(log')
    BY LogKeeps
  <2>2. \A records : OnceFrom(records, log) => OnceFrom(records, log')
    BY <2>1 DEF OnceFrom
  <2>3. ASSUME NEW p \in Participant PROVE OnceFrom(received'[p], log')
    <3>1. CASE received' = received
      <4>1. OnceFrom(received[p], log)
        BY DEF ReceivedOnceFromLog, OnceFrom
      <4> QED BY <2>2, <3>1, <4>1
    <3>2. CASE \E q \in Participant : Deliver(q)
      BY <2>2, <3>2, DeliverOnce
    <3> QED BY <3>1, <3>2 DEF RoomNext, HostTick, Drain, Dispatch, RoomJoin, RoomLeave, RoomSubmit,
          RoomCatchUp, RoomFault, RoomEscape, OpenRoom, ClientJoin, ClientLeave, ClientSubmit, Resume,
          Call, Lose, clientVars, roomVars
  <2>4. ASSUME NEW p \in Participant, NEW i \in DOMAIN mail'[p] PROVE FrameFrom(mail'[p][i], log')
    <3> DEFINE frame == mail'[p][i]
    <3>1. CASE frame \in ToSet(mail[p])
      <4>1. FrameFrom(frame, log)
        BY <3>1 DEF MailIsFromLog, ToSet
      <4> QED BY <2>1, <2>2, <4>1 DEF FrameFrom
    <3> QED BY <3>1, MailSources, SentFrom
  <2> QED BY <2>3, <2>4 DEF ReceivedOnceFromLog, MailIsFromLog, OnceFrom
<1> QED BY <1>1, <1>2, RoomRunsTheRelay, RoomTypeCorrect, TypeCorrect, StampsAscendAlways, PTL
        DEF RoomSpec, RelaySpec

(* Whatever the carrier reorders, repeats or drops, a client's inbox holds *)
(* records of the shared log, each once (client.ts, absorb; server.ts,     *)
(* catch-up pages).                                                        *)
THEOREM ReceivedOnceFromLogAlways == RoomSpec => []ReceivedOnceFromLog
  BY MailIsFromLogAlways, PTL

-----------------------------------------------------------------------------
(***************************************************************************)
(* What a seat knows of the room.  Over a carrier that neither reorders    *)
(* nor loses frames, the newest seat-state of a live seat - the one on its *)
(* way, or else the one it has - is the room as the relay holds it.        *)
(***************************************************************************)
LastStateIs(frames, before, state) ==
  \/ before = state /\ \A i \in DOMAIN frames : frames[i].kind # "seat-state"
  \/ \E i \in DOMAIN frames :
       /\ frames[i] = SeatStateFrame(state.ledger, state.lastStamp)
       /\ \A j \in DOMAIN frames : j > i => frames[j].kind # "seat-state"

RoomState == [ledger |-> ledger, lastStamp |-> LastLogStamp(log)]

SeatsAreTold == \A p \in LiveSeats(ledger) : LastStateIs(mail[p], known[p], RoomState)

KeepsOrder == carrier \cap {"reorders", "loses"} = {}

(* A fan-out that ends with the seats' state tells it, whatever was queued *)
(* before.                                                                 *)
LEMMA FanTells ==
  ASSUME NEW mailbox \in Seq(SeatFrame), NEW frames \in Seq(SeatFrame), NEW before, NEW state,
         frames # <<>>, frames[Len(frames)] = SeatStateFrame(state.ledger, state.lastStamp)
  PROVE  LastStateIs(mailbox \o frames, before, state)
<1> DEFINE n == Len(mailbox)
           m == Len(frames)
           next == mailbox \o frames
<1>1. /\ n \in Nat /\ m \in Nat /\ m >= 1 /\ DOMAIN next = 1..n + m
      /\ next[n + m] = frames[m]
  BY ConcatProperties
<1> HIDE DEF n, next
<1>2. n + m \in DOMAIN next /\ \A j \in DOMAIN next : ~(j > n + m)
  BY <1>1
<1>3. LastStateIs(next, before, state)
  BY <1>1, <1>2 DEF LastStateIs
<1> QED BY <1>3 DEF next

(* A frame that is no seat-state leaves what is told as it is.             *)
LEMMA QuietFrame ==
  ASSUME NEW mailbox \in Seq(SeatFrame), NEW frame \in SeatFrame, frame.kind # "seat-state",
         NEW before, NEW state, LastStateIs(mailbox, before, state)
  PROVE  LastStateIs(Append(mailbox, frame), before, state)
<1> DEFINE n == Len(mailbox)
           next == Append(mailbox, frame)
<1>1. /\ n \in Nat /\ DOMAIN mailbox = 1..n /\ DOMAIN next = 1..n + 1 /\ next[n + 1] = frame
      /\ \A i \in 1..n : next[i] = mailbox[i]
  BY AppendProperties
<1> HIDE DEF n, next
<1>2. \A i \in DOMAIN next : i = n + 1 \/ (i \in DOMAIN mailbox /\ next[i] = mailbox[i])
  <2>1. \A k \in 1..n + 1 : k = n + 1 \/ k \in 1..n
    BY <1>1
  <2> QED BY <1>1, <2>1
<1>3. \A i \in DOMAIN mailbox : i \in DOMAIN next /\ next[i] = mailbox[i]
  BY <1>1
<1>4. CASE before = state /\ \A i \in DOMAIN mailbox : mailbox[i].kind # "seat-state"
  BY <1>1, <1>2, <1>4 DEF LastStateIs, next
<1>5. ASSUME NEW i \in DOMAIN mailbox,
             mailbox[i] = SeatStateFrame(state.ledger, state.lastStamp),
             \A j \in DOMAIN mailbox : j > i => mailbox[j].kind # "seat-state"
      PROVE  LastStateIs(next, before, state)
  <2>1. \A j \in DOMAIN next : j > i => next[j].kind # "seat-state"
    BY <1>1, <1>2, <1>5
  <2>2. i \in DOMAIN next /\ next[i] = SeatStateFrame(state.ledger, state.lastStamp)
    BY <1>3, <1>5
  <2> QED BY <2>1, <2>2 DEF LastStateIs
<1> QED BY <1>4, <1>5 DEF LastStateIs, next

(* Delivering the head of a mailbox moves what is told to what is known.   *)
LEMMA HeadDelivered ==
  ASSUME NEW mailbox \in Seq(SeatFrame), mailbox # <<>>, NEW before, NEW after, NEW state,
         state = [ledger |-> state.ledger, lastStamp |-> state.lastStamp],
         LastStateIs(mailbox, before, state),
         IF mailbox[1].kind = "seat-state"
         THEN after = [ledger |-> mailbox[1].ledger, lastStamp |-> mailbox[1].lastStamp]
         ELSE after = before
  PROVE  LastStateIs(RemoveAt(mailbox, 1), after, state) /\ LastStateIs(mailbox, after, state)
<1> DEFINE n == Len(mailbox)
           next == RemoveAt(mailbox, 1)
<1>0. 1 \in 1..Len(mailbox)
  OBVIOUS
<1>1. /\ n \in Nat /\ n >= 1 /\ DOMAIN mailbox = 1..n
      /\ next \in Seq(SeatFrame) /\ Len(next) = n - 1
      /\ \A k \in 1..n - 1 : next[k] = IF k < 1 THEN mailbox[k] ELSE mailbox[k + 1]
  BY <1>0, RemovedAt
<1> HIDE DEF n, next
<1>2. DOMAIN next = 1..n - 1 /\ \A k \in 1..n - 1 : k + 1 \in 1..n /\ next[k] = mailbox[k + 1]
  BY <1>1
<1>3. CASE before = state /\ \A i \in DOMAIN mailbox : mailbox[i].kind # "seat-state"
  <2>1. after = before /\ \A i \in DOMAIN next : next[i].kind # "seat-state"
    BY <1>1, <1>2, <1>3
  <2> QED BY <1>3, <2>1 DEF LastStateIs, next
<1>4. ASSUME NEW i \in DOMAIN mailbox,
             mailbox[i] = SeatStateFrame(state.ledger, state.lastStamp),
             \A j \in DOMAIN mailbox : j > i => mailbox[j].kind # "seat-state"
      PROVE  LastStateIs(next, after, state)
  <2>1. CASE i = 1
    <3>1. after = state
      BY <1>4, <2>1 DEF SeatStateFrame
    <3>2. \A k \in DOMAIN next : next[k].kind # "seat-state"
      BY <1>1, <1>2, <1>4, <2>1
    <3> QED BY <3>1, <3>2 DEF LastStateIs
  <2>2. CASE i # 1
    <3>1. i - 1 \in 1..n - 1 /\ next[i - 1] = mailbox[i]
      <4>1. i - 1 \in 1..n - 1 /\ i - 1 + 1 = i
        BY <1>1, <2>2
      <4> QED BY <1>2, <4>1
    <3>2. \A j \in DOMAIN next : j > i - 1 => next[j].kind # "seat-state"
      BY <1>1, <1>2, <1>4
    <3> QED BY <1>2, <1>4, <3>1, <3>2 DEF LastStateIs
  <2> QED BY <2>1, <2>2
<1>5. CASE \E i \in DOMAIN mailbox :
             /\ mailbox[i] = SeatStateFrame(state.ledger, state.lastStamp)
             /\ \A j \in DOMAIN mailbox : j > i => mailbox[j].kind # "seat-state"
  BY <1>4, <1>5 DEF LastStateIs, next
<1> QED BY <1>3, <1>5 DEF LastStateIs

(* Every step keeps the live seats told.                                   *)
LEMMA StepTells ==
  ASSUME TypeOK, TypeOK', RoomTypeOK, KeepsOrder, SeatsAreTold, [RoomNext]_roomVars
  PROVE  SeatsAreTold'
<1> USE DEF RoomTypeOK
<1> SUFFICES ASSUME NEW p \in LiveSeats(ledger') PROVE LastStateIs(mail'[p], known'[p], RoomState')
  BY DEF SeatsAreTold
<1>1. p \in Participant /\ mail[p] \in Seq(SeatFrame) /\ ledger' \in Seq(Row)
  <2>1. ledger' \in Seq(Row)
    BY DEF TypeOK
  <2>2. PICK i \in DOMAIN ledger' : p = ledger'[i].participantId
    BY DEF LiveSeats
  <2>3. ledger'[i].participantId \in Participant
    BY <2>1, RowFields
  <2> QED BY <2>1, <2>2, <2>3
<1>2. CASE UNCHANGED <<ledger, log>> /\ mail'[p] = mail[p] /\ known'[p] = known[p]
  BY <1>2 DEF SeatsAreTold, RoomState
<1>3. ASSUME Dispatch PROVE LastStateIs(mail'[p], known'[p], RoomState')
  <2>1. known' = known
    BY <1>3 DEF Dispatch, RoomJoin, RoomLeave, RoomSubmit, RoomCatchUp, RoomFault, RoomEscape, clientVars
  <2>2. CASE mail' = mail /\ UNCHANGED relayVars
    BY <1>2, <2>1, <2>2 DEF relayVars
  <2>3. ASSUME NEW q \in Participant, NEW frame \in SeatFrame,
               Send(q, frame), frame.kind # "seat-state", UNCHANGED relayVars
        PROVE  LastStateIs(mail'[p], known'[p], RoomState')
    <3>1. CASE q # p
      BY <1>1, <1>2, <2>1, <2>3, <3>1 DEF relayVars, Send
    <3>2. CASE q = p
      <4>1. LastStateIs(mail[p], known[p], RoomState) /\ RoomState' = RoomState
        BY <2>3 DEF SeatsAreTold, RoomState, relayVars
      <4>2. mail'[p] = Append(mail[p], frame)
        BY <1>1, <2>3, <3>2 DEF Send
      <4> QED BY <1>1, <2>1, <2>3, <4>1, <4>2, QuietFrame
    <3> QED BY <3>1, <3>2
  <2>4. ASSUME NEW frames \in Seq(SeatFrame), Fan(frames), frames # <<>>, frames[Len(frames)] = SeatStates
        PROVE  LastStateIs(mail'[p], known'[p], RoomState')
    <3>1. mail'[p] = mail[p] \o frames
      BY <1>1, <2>4 DEF Fan
    <3>2. SeatStates = SeatStateFrame(RoomState'.ledger, RoomState'.lastStamp)
      BY DEF SeatStates, RoomState
    <3> QED BY <1>1, <2>4, <3>1, <3>2, FanTells
  <2> QED BY <1>3, <2>2, <2>3, <2>4, DispatchSends
<1>4. ASSUME NEW q \in Participant, Deliver(q) PROVE LastStateIs(mail'[p], known'[p], RoomState')
  <2>1. PICK i \in DOMAIN mail[q] :
          /\ i = 1
          /\ mail' = [mail EXCEPT ![q] = RemoveAt(@, i)] \/ mail' = mail
          /\ \/ ApplyBroadcast(q, mail[q][i])
             \/ ApplyPage(q, mail[q][i])
             \/ ApplySeatState(q, mail[q][i])
             \/ ApplyFault(q, mail[q][i])
    BY <1>4 DEF Deliver, KeepsOrder
  <2>2. UNCHANGED <<ledger, log>> /\ RoomState' = RoomState
    BY <1>4 DEF Deliver, relayVars, RoomState
  <2>3. CASE q # p
    <3>1. mail'[p] = mail[p] /\ known'[p] = known[p]
      BY <1>1, <2>1, <2>3 DEF ApplyBroadcast, ApplyPage, ApplySeatState, ApplyFault
    <3> QED BY <1>2, <2>2, <3>1
  <2>4. CASE q = p
    <3>1. IF mail[p][1].kind = "seat-state"
          THEN known'[p] = [ledger |-> mail[p][1].ledger, lastStamp |-> mail[p][1].lastStamp]
          ELSE known'[p] = known[p]
      BY <1>1, <2>1, <2>4 DEF ApplyBroadcast, ApplyPage, ApplySeatState, ApplyFault
    <3>2. mail[p] # <<>> /\ LastStateIs(mail[p], known[p], RoomState)
      BY <2>1, <2>2, <2>4 DEF SeatsAreTold
    <3>3. RoomState = [ledger |-> RoomState.ledger, lastStamp |-> RoomState.lastStamp]
      BY DEF RoomState
    <3>4. LastStateIs(RemoveAt(mail[p], 1), known'[p], RoomState) /\ LastStateIs(mail[p], known'[p], RoomState)
      BY <1>1, <3>1, <3>2, <3>3, HeadDelivered
    <3>5. mail'[p] = RemoveAt(mail[p], 1) \/ mail'[p] = mail[p]
      BY <1>1, <2>1, <2>4
    <3> QED BY <2>2, <3>4, <3>5
  <2> QED BY <2>3, <2>4
<1>5. ASSUME ~Dispatch, ~(\E q \in Participant : Deliver(q))
      PROVE  UNCHANGED <<ledger, log>> /\ mail'[p] = mail[p] /\ known'[p] = known[p]
  BY <1>5 DEF RoomNext, HostTick, AdvanceTo, Drain, OpenRoom, ClientJoin, ClientLeave, ClientSubmit,
    Resume, Call, Lose, KeepsOrder, clientVars, roomVars, hubVars, relayVars
<1> QED BY <1>2, <1>3, <1>4, <1>5

(* A live seat with an empty mailbox knows the ledger and the newest stamp *)
(* as the relay holds them, over any carrier that neither reorders nor     *)
(* loses frames (server.ts, broadcastSeatStates).                          *)
THEOREM SettledSeatsKnowTheRoomAlways ==
  ASSUME \A c \in Carriers : c \cap {"reorders", "loses"} = {}
  PROVE  RoomSpec => []SettledSeatsKnowTheRoom
<1>1. RoomInit => KeepsOrder /\ SeatsAreTold
  BY DEF RoomInit, HubInit, RelayInit, KeepsOrder, SeatsAreTold, LiveSeats
<1>2. TypeOK /\ TypeOK' /\ RoomTypeOK /\ KeepsOrder /\ SeatsAreTold /\ [RoomNext]_roomVars
      => KeepsOrder' /\ SeatsAreTold'
  <2> SUFFICES ASSUME TypeOK, TypeOK', RoomTypeOK, KeepsOrder, SeatsAreTold, [RoomNext]_roomVars
               PROVE  KeepsOrder' /\ SeatsAreTold'
    OBVIOUS
  <2>1. carrier' = carrier
    BY DEF RoomNext, roomVars
  <2> QED BY <2>1, StepTells DEF KeepsOrder
<1>3. RoomTypeOK /\ SeatsAreTold => SettledSeatsKnowTheRoom
  BY DEF SeatsAreTold, SettledSeatsKnowTheRoom, LastStateIs, RoomState
<1> QED BY <1>1, <1>2, <1>3, RoomRunsTheRelay, RoomTypeCorrect, TypeCorrect, PTL DEF RoomSpec

-----------------------------------------------------------------------------
(***************************************************************************)
(* The history of a seat.  In a room whose log fits into one page a seat   *)
(* that opened the room asks once, from the beginning, and is answered     *)
(* with the whole log or not at all.                                       *)
(***************************************************************************)
OnePageRooms == MaxRecords <= PageSize /\ "resume" \notin ClientCalls

(* A request from the beginning is answered with the whole log, and no     *)
(* page has more behind it.                                                *)
LEMMA OnePage ==
  ASSUME OnePageRooms, TypeOK, StampsAscend, Bounded
  PROVE  /\ \A i \in DOMAIN log : log[i] \in ToSet(PageCoopLog(log, NoStamp, PageSize))
         /\ \A after : HasMore(PageCoopLog(log, after, PageSize)) = FALSE
<1> DEFINE n == Len(log)
<1>1. /\ log \in Seq(Record) /\ n \in Nat /\ DOMAIN log = 1..n /\ n <= PageSize /\ PageSize \in Nat
      /\ MaxRecords \in Nat
  BY RelayAssumption, PageSizeAssumption DEF OnePageRooms, TypeOK, Bounded
<1> HIDE DEF n
<1>2. \A i \in 1..n : log[i].tick \in Nat /\ log[i].seq \in Nat
  BY <1>1, RecordFields
<1>3. Passed(log, NoStamp) = 0
  <2>1. {i \in DOMAIN log : ~StampBefore(NoStamp, log[i])} = {}
    BY <1>1, <1>2 DEF StampBefore, NoStamp
  <2> QED BY <2>1, FS_EmptySet DEF Passed
<1>4. n # 0 => Passed(log, StampOf(log[n])) = n
  <2> SUFFICES ASSUME n # 0 PROVE Passed(log, StampOf(log[n])) = n
    OBVIOUS
  <2>1. \A i \in 1..n : i = n \/ i < n
    BY <1>1
  <2>2. \A i \in 1..n : ~StampBefore(StampOf(log[n]), log[i])
    <3>1. n \in 1..n
      BY <1>1
    <3>2. \A i \in 1..n : i < n => log[i].tick <= log[n].tick /\ log[i].seq < log[n].seq
      BY <1>1, <3>1 DEF StampsAscend
    <3> QED BY <1>2, <2>1, <3>1, <3>2 DEF StampBefore, StampOf
  <2>3. {i \in DOMAIN log : ~StampBefore(StampOf(log[n]), log[i])} = 1..n
    BY <1>1, <2>2
  <2>4. Cardinality(1..n) = n
    <3>1. 1 \in Int /\ n \in Int
      BY <1>1
    <3>2. Cardinality(1..n) = IF 1 > n THEN 0 ELSE n - 1 + 1
      BY <3>1, FS_Interval
    <3> QED BY <1>1, <3>2
  <2> QED BY <2>3, <2>4 DEF Passed
<1>5. ASSUME NEW i \in DOMAIN log PROVE log[i] \in ToSet(PageCoopLog(log, NoStamp, PageSize))
  <2> DEFINE page == PageCoopLog(log, NoStamp, PageSize)
  <2>1. /\ page \in Seq(Record) /\ Len(page) = Smaller(0 + PageSize, n) - 0
        /\ \A k \in 1..Len(page) : page[k] = log[0 + k]
    BY <1>1, <1>3, PageProperties DEF n
  <2> HIDE DEF page
  <2>2. Len(page) = n /\ i \in DOMAIN page /\ page[i] = log[i]
    BY <1>1, <2>1 DEF Smaller
  <2> QED BY <2>2 DEF ToSet, page
<1>6. ASSUME NEW after PROVE HasMore(PageCoopLog(log, after, PageSize)) = FALSE
  <2> DEFINE k == Passed(log, after)
             page == PageCoopLog(log, after, PageSize)
  <2>1. /\ k \in 0..n /\ page \in Seq(Record) /\ Len(page) = Smaller(k + PageSize, n) - k
        /\ \A j \in 1..Len(page) : page[j] = log[k + j]
    BY <1>1, PageProperties DEF n
  <2> HIDE DEF k, page
  <2>2. CASE page = <<>>
    BY <2>2 DEF HasMore, page
  <2>3. CASE page # <<>>
    <3>1. Len(page) = n - k /\ Len(page) \in 1..Len(page) /\ n # 0
      BY <1>1, <2>1, <2>3 DEF Smaller
    <3>2. page[Len(page)] = log[n]
      BY <1>1, <2>1, <3>1
    <3> DEFINE rest == PageCoopLog(log, StampOf(log[n]), 1)
    <3>3. rest \in Seq(Record) /\ Len(rest) = Smaller(n + 1, n) - n
      BY <1>1, <1>4, <3>1, PageProperties DEF n
    <3> HIDE DEF rest
    <3>4. rest = <<>>
      BY <1>1, <3>3 DEF Smaller
    <3> QED BY <3>2, <3>4 DEF HasMore, page, rest
  <2> QED BY <2>2, <2>3
<1> QED BY <1>5, <1>6

(* No page of a one-page room announces another one.                       *)
LastPages ==
  \A p \in Participant : \A i \in DOMAIN mail[p] :
    mail[p][i].kind = "catchup-page" => mail[p][i].hasMore = FALSE

(* In a one-page room every page that is sent is the last one.             *)
LEMMA PagesAreLast ==
  ASSUME OnePageRooms, TypeOK, TypeOK', StampsAscend, Bounded, RoomTypeOK, RoomTypeOK', LastPages,
         [RoomNext]_roomVars
  PROVE  LastPages'
<1> SUFFICES ASSUME NEW p \in Participant, NEW i \in DOMAIN mail'[p], mail'[p][i].kind = "catchup-page"
             PROVE  mail'[p][i].hasMore = FALSE
  BY DEF LastPages
<1> DEFINE frame == mail'[p][i]
<1>1. CASE frame \in ToSet(mail[p])
  BY <1>1 DEF LastPages, ToSet
<1>2. CASE Sent(frame)
  <2>1. SeatStates.kind # "catchup-page" /\ FaultFrame.kind # "catchup-page"
        /\ BroadcastFrame(log'[Len(log')]).kind # "catchup-page"
    BY DEF SeatStates, SeatStateFrame, FaultFrame, BroadcastFrame
  <2>2. PICK after : frame = PageFrame(PageCoopLog(log, after, PageSize), HasMore(PageCoopLog(log, after, PageSize)))
    BY <1>2, <2>1 DEF Sent
  <2>3. frame.hasMore = HasMore(PageCoopLog(log, after, PageSize))
    <3> HIDE DEF frame
    <3> QED BY <2>2 DEF PageFrame
  <2> QED BY <2>3, OnePage
<1> QED BY <1>1, <1>2, MailSources

-----------------------------------------------------------------------------
(* The frames that reached the hub and were not dispatched.                *)
Queued == ToSet(hubInbox) \cup ToSet(batch)

(* A frame comes to the hub from a client that opened the room, and a      *)
(* request only from the opening itself.                                   *)
LEMMA QueueSources ==
  ASSUME OnePageRooms, RoomTypeOK, RoomTypeOK', LastPages, [RoomNext]_roomVars, NEW frame \in Queued'
  PROVE  \/ frame \in Queued
         \/ \E p \in Participant :
              /\ calls'[p] > 0 /\ frame.participantId = p
              /\ frame.kind = "catchup-request" => p \notin opened /\ frame = Request(p, received[p])
<1> USE DEF RoomTypeOK
<1> DEFINE CameFrom(p) ==
             /\ calls'[p] > 0 /\ frame.participantId = p
             /\ frame.kind = "catchup-request" => p \notin opened /\ frame = Request(p, received[p])
           Calling(p, call, frames) ==
             /\ Call(p, call, frames)
             /\ frames \in Seq(HubFrame)
             /\ \A i \in DOMAIN frames :
                  /\ frames[i].participantId = p
                  /\ frames[i].kind = "catchup-request" => call = "open" /\ frames[i] = Request(p, received[p])
<1>1. CASE Queued' \subseteq Queued
  BY <1>1
<1>2. CASE batch # <<>> /\ batch' = Tail(batch) /\ hubInbox' = hubInbox
  <2>1. \A i \in DOMAIN batch' : i + 1 \in DOMAIN batch /\ batch'[i] = batch[i + 1]
    <3>1. /\ Len(Tail(batch)) = Len(batch) - 1 /\ Len(batch) \in Nat
          /\ \A i \in 1..Len(Tail(batch)) : Tail(batch)[i] = batch[i + 1]
      BY <1>2, HeadTailProperties
    <3> QED BY <1>2, <3>1
  <2>2. ToSet(batch') \subseteq ToSet(batch) /\ ToSet(hubInbox') = ToSet(hubInbox)
    BY <1>2, <2>1 DEF ToSet
  <2> QED BY <2>2 DEF Queued
<1>3. CASE Drain \/ RoomEscape
  <2>1. ToSet(<<>>) = {}
    BY DEF ToSet
  <2> QED BY <1>3, <2>1 DEF Drain, Poll, RoomEscape, Escape, Queued
<1>4. ASSUME NEW p \in Participant, NEW call, NEW frames, Calling(p, call, frames)
      PROVE  frame \in Queued \/ CameFrom(p)
  <2>1. /\ calls'[p] > 0 /\ hubInbox' = hubInbox \o frames /\ batch' = batch
        /\ (call = "open") = (p \notin opened)
    BY <1>4 DEF Call
  <2>2. CASE frame \in ToSet(batch)
    BY <2>2 DEF Queued
  <2>3. ASSUME NEW i \in DOMAIN (hubInbox \o frames), frame = (hubInbox \o frames)[i]
        PROVE  frame \in ToSet(hubInbox) \/ \E k \in DOMAIN frames : frame = frames[k]
    <3>1. i \in 1..Len(hubInbox) + Len(frames) /\ Len(hubInbox) \in Nat /\ Len(frames) \in Nat
      BY ConcatProperties
    <3>2. CASE i <= Len(hubInbox)
      <4>1. frame = hubInbox[i] /\ i \in DOMAIN hubInbox
        BY <2>3, <3>1, <3>2, ConcatProperties
      <4> QED BY <4>1 DEF ToSet
    <3>3. CASE i > Len(hubInbox)
      <4>1. frame = frames[i - Len(hubInbox)] /\ i - Len(hubInbox) \in DOMAIN frames
        BY <2>3, <3>1, <3>3, ConcatProperties
      <4> QED BY <4>1
    <3> QED BY <3>1, <3>2, <3>3
  <2>4. frame \in ToSet(hubInbox') \/ frame \in ToSet(batch)
    BY <2>1 DEF Queued
  <2>5. frame \in ToSet(batch) \/ frame \in ToSet(hubInbox) \/ \E k \in DOMAIN frames : frame = frames[k]
    BY <2>1, <2>3, <2>4 DEF ToSet
  <2> QED BY <1>4, <2>1, <2>5 DEF Queued
<1>5. ASSUME NEW p \in Participant, OpenRoom(p)
      PROVE  frame \in Queued \/ CameFrom(p)
  <2> DEFINE frames == <<JoinFrame(p), Request(p, received[p])>>
  <2>1. JoinFrame(p) \in HubFrame /\ Request(p, received[p]) \in HubFrame
    BY FramesAreFrames
  <2>2. frames \in Seq(HubFrame) /\ DOMAIN frames = {1, 2}
        /\ frames[1] = JoinFrame(p) /\ frames[2] = Request(p, received[p])
    BY <2>1
  <2>3. Call(p, "open", frames)
    BY <1>5 DEF OpenRoom
  <2> HIDE DEF frames
  <2>4. JoinFrame(p).participantId = p /\ JoinFrame(p).kind = "join" /\ Request(p, received[p]).participantId = p
    BY DEF JoinFrame, Request, CatchUpRequestFrame
  <2>5. \A i \in DOMAIN frames :
          /\ frames[i].participantId = p
          /\ frames[i].kind = "catchup-request" => "open" = "open" /\ frames[i] = Request(p, received[p])
    BY <2>2, <2>4
  <2>6. Calling(p, "open", frames)
    BY <2>2, <2>3, <2>5
  <2> HIDE DEF Calling, CameFrom
  <2> QED BY <1>4, <2>6
<1>6. ASSUME NEW p \in Participant, NEW call, NEW news \in HubFrame, Call(p, call, <<news>>),
             news.participantId = p, news.kind # "catchup-request"
      PROVE  frame \in Queued \/ CameFrom(p)
  <2>1. <<news>> \in Seq(HubFrame) /\ DOMAIN <<news>> = {1} /\ <<news>>[1] = news
    BY <1>6
  <2>2. \A i \in DOMAIN <<news>> :
          /\ <<news>>[i].participantId = p
          /\ <<news>>[i].kind = "catchup-request" => call = "open" /\ <<news>>[i] = Request(p, received[p])
    BY <1>6, <2>1
  <2>3. Calling(p, call, <<news>>)
    BY <1>6, <2>1, <2>2
  <2> HIDE DEF Calling, CameFrom
  <2> QED BY <1>4, <2>3
<1>7. ASSUME NEW p \in Participant, ClientJoin(p) \/ ClientLeave(p)
      PROVE  frame \in Queued \/ CameFrom(p)
  <2> HIDE DEF Calling, CameFrom
  <2>1. /\ JoinFrame(p) \in HubFrame /\ JoinFrame(p).participantId = p /\ JoinFrame(p).kind # "catchup-request"
        /\ LeaveFrame(p) \in HubFrame /\ LeaveFrame(p).participantId = p /\ LeaveFrame(p).kind # "catchup-request"
    BY FramesAreFrames DEF JoinFrame, LeaveFrame
  <2> QED BY <1>6, <1>7, <2>1 DEF ClientJoin, ClientLeave
<1>8. ASSUME NEW p \in Participant, NEW kind \in Kind, NEW doorShaped \in BOOLEAN, ClientSubmit(p, kind, doorShaped)
      PROVE  frame \in Queued \/ CameFrom(p)
  <2> DEFINE news == SubmitFrame(p, kind, doorShaped)
  <2>1. news \in HubFrame /\ news.participantId = p /\ news.kind # "catchup-request"
    BY FramesAreFrames DEF SubmitFrame
  <2>2. Call(p, "submit", <<news>>)
    BY <1>8 DEF ClientSubmit
  <2> HIDE DEF news
  <2> QED BY <1>6, <2>1, <2>2
<1>9. ASSUME NEW p \in Participant, Deliver(p) PROVE hubInbox' = hubInbox /\ batch' = batch
  <2>1. PICK i \in DOMAIN mail[p] :
          \/ ApplyBroadcast(p, mail[p][i])
          \/ ApplyPage(p, mail[p][i])
          \/ ApplySeatState(p, mail[p][i])
          \/ ApplyFault(p, mail[p][i])
    BY <1>9 DEF Deliver
  <2>2. mail[p][i].kind = "catchup-page" => mail[p][i].hasMore = FALSE
    BY DEF LastPages
  <2> QED BY <1>9, <2>1, <2>2 DEF Deliver, ApplyBroadcast, ApplyPage, ApplySeatState, ApplyFault
<1>10. ASSUME NEW p \in Participant, Resume(p) PROVE FALSE
  BY <1>10 DEF Resume, Call, OnePageRooms
<1>11. ASSUME Dispatch, ~RoomEscape PROVE batch # <<>> /\ batch' = Tail(batch) /\ hubInbox' = hubInbox
  BY <1>11 DEF Dispatch, RoomJoin, RoomLeave, RoomSubmit, RoomCatchUp, RoomFault, HandleJoin, HandleLeave,
    HandleSubmit, HandleCatchUpRequest, RecordFault, Dispatching, Done, Idle
<1>12. HostTick \/ UNCHANGED roomVars \/ (\E p \in Participant : Lose(p)) => Queued' = Queued
  BY DEF HostTick, Lose, roomVars, hubVars, Queued
<1> QED BY <1>1, <1>2, <1>3, <1>5, <1>7, <1>8, <1>9, <1>10, <1>11, <1>12 DEF RoomNext, Queued

-----------------------------------------------------------------------------
(***************************************************************************)
(* What a dispatch adds to one mailbox.                                    *)
(***************************************************************************)
AnswersRequestOf(p) == RoomCatchUp /\ Head(batch).participantId = p

Added(p, frames) ==
  /\ frames \in Seq(SeatFrame)
  /\ mail'[p] = mail[p] \o frames
  /\ log' # log /\ p \in LiveSeats(ledger') => BroadcastFrame(log'[Len(log')]) \in ToSet(frames)
  /\ \A frame \in ToSet(frames) : frame.kind = "catchup-page" => AnswersRequestOf(p)
  /\ AnswersRequestOf(p) =>
       LET page == PageCoopLog(log, Head(batch).after, PageSize)
       IN  PageFrame(page, HasMore(page)) \in ToSet(frames)
  /\ frames # <<>> => p \in LiveSeats(ledger') \/ (~Idle /\ Head(batch).participantId = p)

(* Nothing added.                                                          *)
LEMMA AddedNothing ==
  ASSUME RoomTypeOK, NEW p \in Participant, mail'[p] = mail[p], ~AnswersRequestOf(p),
         log' = log \/ p \notin LiveSeats(ledger')
  PROVE  Added(p, <<>>)
<1>1. <<>> \in Seq(SeatFrame) /\ ToSet(<<>>) = {}
  BY DEF ToSet
<1>2. mail[p] \in Seq(SeatFrame)
  BY DEF RoomTypeOK
<1>3. mail[p] \o <<>> = mail[p]
  BY <1>2, ConcatEmptySeq
<1> QED BY <1>1, <1>3 DEF Added

(* A dispatch adds frames behind those in flight, for the seats that are   *)
(* live after it or for the one it answers (server.ts, dispatch).          *)
LEMMA DispatchAdds ==
  ASSUME TypeOK, TypeOK', RoomTypeOK, Dispatch, NEW p \in Participant
  PROVE  \E frames : Added(p, frames)
<1> USE DEF RoomTypeOK
<1>1. log \in Seq(Record) /\ log' \in Seq(Record) /\ ledger' \in Seq(Row) /\ mail[p] \in Seq(SeatFrame)
  BY DEF TypeOK
<1>2. SeatStates \in SeatFrame /\ SeatStates.kind = "seat-state"
  BY <1>1, CursorIsStamp, FramesAreFrames DEF SeatStates, SeatStateFrame
<1>3. ASSUME NEW frames \in Seq(SeatFrame), Fan(frames), ~AnswersRequestOf(p),
             log' # log => BroadcastFrame(log'[Len(log')]) \in ToSet(frames),
             \A frame \in ToSet(frames) : frame.kind # "catchup-page"
      PROVE  \E added : Added(p, added)
  <2>1. CASE p \in LiveSeats(ledger')
    <3>1. mail'[p] = mail[p] \o frames
      BY <1>3, <2>1 DEF Fan
    <3>2. Added(p, frames)
      BY <1>3, <2>1, <3>1 DEF Added
    <3> QED BY <3>2
  <2>2. CASE p \notin LiveSeats(ledger')
    <3>1. mail'[p] = mail[p]
      BY <1>3, <2>2 DEF Fan
    <3>2. Added(p, <<>>)
      BY <1>3, <2>2, <3>1, AddedNothing
    <3> QED BY <3>2
  <2> QED BY <2>1, <2>2
<1>4. ASSUME NEW frame \in SeatFrame, ~Idle, Send(Head(batch).participantId, frame), log' = log,
             IF AnswersRequestOf(Head(batch).participantId)
             THEN frame = PageFrame(PageCoopLog(log, Head(batch).after, PageSize), HasMore(PageCoopLog(log, Head(batch).after, PageSize)))
             ELSE frame.kind # "catchup-page"
      PROVE  \E added : Added(p, added)
  <2>1. CASE p = Head(batch).participantId
    <3>1. <<frame>> \in Seq(SeatFrame) /\ ToSet(<<frame>>) = {frame}
      BY DEF ToSet
    <3>2. mail'[p] = mail[p] \o <<frame>>
      <4>1. mail'[p] = Append(mail[p], frame)
        BY <1>4, <2>1 DEF Send
      <4> QED BY <1>1, <4>1, AppendIsConcat
    <3>3. Added(p, <<frame>>)
      BY <1>4, <2>1, <3>1, <3>2 DEF Added
    <3> QED BY <3>3
  <2>2. CASE p # Head(batch).participantId
    <3>1. mail'[p] = mail[p] /\ ~AnswersRequestOf(p)
      BY <1>4, <2>2 DEF Send, AnswersRequestOf
    <3>2. Added(p, <<>>)
      BY <1>4, <3>1, AddedNothing
    <3> QED BY <3>2
  <2> QED BY <2>1, <2>2
<1>5. ASSUME NEW q \in Participant, RoomJoin(q) \/ RoomLeave(q) PROVE \E added : Added(p, added)
  <2>1. Fan(<<SeatStates>>) /\ log' = log
    BY <1>5 DEF RoomJoin, RoomLeave, HandleJoin, HandleLeave, JoinSeat, LeaveSeat
  <2>2. ~AnswersRequestOf(p)
    BY <1>5 DEF AnswersRequestOf, RoomJoin, RoomLeave, HandleJoin, HandleLeave, RoomCatchUp,
      HandleCatchUpRequest, Dispatching, JoinFrame, LeaveFrame
  <2>3. <<SeatStates>> \in Seq(SeatFrame) /\ ToSet(<<SeatStates>>) = {SeatStates}
    BY <1>2 DEF ToSet
  <2> QED BY <1>2, <1>3, <2>1, <2>2, <2>3
<1>6. ASSUME NEW q \in Participant, NEW kind \in Kind, NEW doorShaped \in BOOLEAN,
             RoomSubmit(q, kind, doorShaped)
      PROVE  \E added : Added(p, added)
  <2> DEFINE news == BroadcastFrame(log'[Len(log')])
  <2>1. Fan(<<news, SeatStates>>)
    BY <1>6 DEF RoomSubmit
  <2>2. ~AnswersRequestOf(p)
    BY <1>6 DEF AnswersRequestOf, RoomSubmit, HandleSubmit, RoomCatchUp, HandleCatchUpRequest,
      Dispatching, SubmitFrame
  <2>3. log'[Len(log')] \in Record
    <3>1. \E record : log' = Append(log, record)
      BY <1>6 DEF RoomSubmit, HandleSubmit, Submit
    <3>2. Len(log') \in 1..Len(log')
      BY <1>1, <3>1
    <3> QED BY <1>1, <3>2
  <2>4. news \in SeatFrame /\ news.kind = "broadcast"
    BY <2>3, FramesAreFrames DEF BroadcastFrame
  <2>5. <<news, SeatStates>> \in Seq(SeatFrame) /\ ToSet(<<news, SeatStates>>) = {news, SeatStates}
    <3> HIDE DEF news
    <3> QED BY <1>2, <2>4 DEF ToSet
  <2>6. news \in ToSet(<<news, SeatStates>>)
        /\ \A frame \in ToSet(<<news, SeatStates>>) : frame.kind # "catchup-page"
    <3> HIDE DEF news
    <3> QED BY <1>2, <2>4, <2>5
  <2> QED BY <1>3, <2>1, <2>2, <2>5, <2>6
<1>7. CASE RoomCatchUp
  <2> DEFINE page == PageCoopLog(log, Head(batch).after, PageSize)
             frame == PageFrame(page, HasMore(page))
  <2>1. ~Idle /\ Send(Head(batch).participantId, frame) /\ log' = log
    BY <1>7 DEF RoomCatchUp, HandleCatchUpRequest, relayVars
  <2>2. AnswersRequestOf(Head(batch).participantId)
    BY <1>7 DEF AnswersRequestOf
  <2>3. frame \in SeatFrame
    <3>1. page \in Seq(Record)
      BY <1>1, PageProperties, PageSizeAssumption
    <3> HIDE DEF page
    <3>2. HasMore(page) \in BOOLEAN
      BY DEF HasMore
    <3> QED BY <3>1, <3>2, FramesAreFrames
  <2> QED BY <1>4, <2>1, <2>2, <2>3
<1>8. CASE RoomFault /\ ~RoomCatchUp
  <2>1. ~Idle /\ Send(Head(batch).participantId, FaultFrame) /\ log' = log
    BY <1>8 DEF RoomFault, RecordFault, relayVars
  <2>2. FaultFrame \in SeatFrame /\ FaultFrame.kind # "catchup-page"
    BY FramesAreFrames DEF FaultFrame
  <2>3. ~AnswersRequestOf(Head(batch).participantId)
    BY <1>8 DEF AnswersRequestOf
  <2> QED BY <1>4, <2>1, <2>2, <2>3
<1>9. CASE RoomEscape /\ ~RoomCatchUp
  <2>1. mail'[p] = mail[p] /\ log' = log /\ ~AnswersRequestOf(p)
    BY <1>9 DEF RoomEscape, Escape, relayVars, AnswersRequestOf
  <2>2. Added(p, <<>>)
    BY <2>1, AddedNothing
  <2> QED BY <2>2
<1> QED BY <1>5, <1>6, <1>7, <1>8, <1>9 DEF Dispatch

(* What a step of the carrier takes from a mailbox goes to its client.     *)
Applied(p, frame) ==
  \/ ApplyBroadcast(p, frame)
  \/ ApplyPage(p, frame)
  \/ ApplySeatState(p, frame)
  \/ ApplyFault(p, frame)

(* A delivery takes one frame out of the mailbox at most, and applies it.  *)
LEMMA DeliveredApplies ==
  ASSUME RoomTypeOK, NEW p \in Participant, Deliver(p)
  PROVE  \E frame \in ToSet(mail[p]) :
           /\ Applied(p, frame)
           /\ ToSet(mail[p]) \subseteq ToSet(mail'[p]) \cup {frame}
           /\ ToSet(mail'[p]) \subseteq ToSet(mail[p])
<1> USE DEF RoomTypeOK
<1>1. PICK i \in DOMAIN mail[p] :
        /\ mail' = [mail EXCEPT ![p] = RemoveAt(@, i)] \/ mail' = mail
        /\ \/ ApplyBroadcast(p, mail[p][i])
           \/ ApplyPage(p, mail[p][i])
           \/ ApplySeatState(p, mail[p][i])
           \/ ApplyFault(p, mail[p][i])
  BY DEF Deliver
<1>2. Applied(p, mail[p][i]) /\ mail[p][i] \in ToSet(mail[p])
  BY <1>1 DEF Applied, ToSet
<1>3. ToSet(mail[p]) = ToSet(RemoveAt(mail[p], i)) \cup {mail[p][i]}
  <2>1. mail[p] \in Seq(SeatFrame) /\ i \in 1..Len(mail[p])
    OBVIOUS
  <2> QED BY <2>1, SetOfRemoved
<1>4. mail'[p] = mail[p] \/ mail'[p] = RemoveAt(mail[p], i)
  BY <1>1
<1> QED BY <1>2, <1>3, <1>4

(* A mailbox moves with a dispatch and with its own carrier only.          *)
LEMMA MailStays ==
  ASSUME RoomTypeOK, [RoomNext]_roomVars, NEW p \in Participant, ~Dispatch, ~Deliver(p), ~Lose(p)
  PROVE  mail'[p] = mail[p] /\ received'[p] = received[p] /\ log' = log /\ ledger' = ledger
         /\ (catchingUp'[p] = catchingUp[p] \/ (\E q \in Participant : OpenRoom(q) \/ Resume(q)))
<1> USE DEF RoomTypeOK
<1>1. ASSUME NEW q \in Participant, q # p, Lose(q)
      PROVE  mail'[p] = mail[p] /\ received' = received /\ log' = log /\ ledger' = ledger /\ catchingUp' = catchingUp
  BY <1>1 DEF Lose, clientVars, hubVars, relayVars
<1>2. ASSUME NEW q \in Participant, q # p, Deliver(q)
      PROVE  /\ mail'[p] = mail[p] /\ received'[p] = received[p] /\ log' = log /\ ledger' = ledger
             /\ catchingUp'[p] = catchingUp[p]
  <2>1. mail'[p] = mail[p] /\ log' = log /\ ledger' = ledger
    BY <1>2 DEF Deliver, relayVars
  <2>2. \E frame : Applied(q, frame)
    BY <1>2 DEF Deliver, Applied
  <2>3. received'[p] = received[p] /\ catchingUp'[p] = catchingUp[p]
    BY <1>2, <2>2 DEF Applied, ApplyBroadcast, ApplyPage, ApplySeatState, ApplyFault
  <2> QED BY <2>1, <2>3
<1>3. ASSUME NEW q \in Participant, OpenRoom(q) \/ Resume(q)
      PROVE  mail'[p] = mail[p] /\ received'[p] = received[p] /\ log' = log /\ ledger' = ledger
  BY <1>3 DEF OpenRoom, Resume, Call, relayVars
<1>4. ASSUME NEW q \in Participant,
             \/ ClientJoin(q) \/ ClientLeave(q)
             \/ \E kind \in Kind, doorShaped \in BOOLEAN : ClientSubmit(q, kind, doorShaped)
      PROVE  UNCHANGED <<mail, received, log, ledger, catchingUp>>
  BY <1>4 DEF ClientJoin, ClientLeave, ClientSubmit, Call, relayVars
<1>5. HostTick \/ Drain \/ UNCHANGED roomVars => UNCHANGED <<mail, received, log, ledger, catchingUp>>
  BY DEF HostTick, AdvanceTo, Drain, roomVars, hubVars, relayVars, clientVars
<1> QED BY <1>1, <1>2, <1>3, <1>4, <1>5 DEF RoomNext

-----------------------------------------------------------------------------
(***************************************************************************)
(* First tenures.                                                          *)
(***************************************************************************)
RowsOf(rows, p) == {i \in DOMAIN rows : rows[i].participantId = p}

OnlyTenure(rows, p) == Cardinality({i \in DOMAIN rows : rows[i].participantId = p}) = 1

(* A participant's only tenure is one row of the ledger.                   *)
LEMMA OnlyTenureIsOneRow ==
  ASSUME NEW rows \in Seq(Row), NEW p
  PROVE  OnlyTenure(rows, p) <=> \E i : RowsOf(rows, p) = {i}
<1>1. RowsOf(rows, p) \in SUBSET (1..Len(rows)) /\ Len(rows) \in Nat
  BY DEF RowsOf
<1>2. IsFiniteSet(1..Len(rows))
  BY <1>1, FS_Interval
<1>3. IsFiniteSet(RowsOf(rows, p))
  BY <1>1, <1>2, FS_Subset
<1> QED BY <1>3, FS_Singleton DEF OnlyTenure, RowsOf

(* Who was seated once stays on the ledger, and only a join puts anybody   *)
(* on it.                                                                  *)
LEMMA SeatedAfterJoin ==
  ASSUME TypeOK, NEW p \in Participant, NEW q \in Participant, JoinSeat(q)
  PROVE  EverSeated(ledger', p) <=> EverSeated(ledger, p) \/ p = q
<1>1. OpenRow(q, currentTick) \in Row /\ OpenRow(q, currentTick).participantId = q
  BY DEF OpenRow, Row, TypeOK
<1>2. /\ \A i \in DOMAIN ledger : \E j \in DOMAIN ledger' : ledger'[j] = ledger[i]
      /\ \E j \in DOMAIN ledger' : ledger'[j] = OpenRow(q, currentTick)
      /\ \A j \in DOMAIN ledger' :
           ledger'[j] = OpenRow(q, currentTick) \/ \E i \in DOMAIN ledger : ledger'[j] = ledger[i]
  BY <1>1, SeatParticipantRows DEF JoinSeat, TypeOK
<1>3. EverSeated(ledger', p) => EverSeated(ledger, p) \/ p = q
  BY <1>1, <1>2 DEF EverSeated
<1>4. EverSeated(ledger, p) \/ p = q => EverSeated(ledger', p)
  BY <1>1, <1>2 DEF EverSeated
<1> QED BY <1>3, <1>4

(* A leave changes neither who was ever seated nor whose tenure is the     *)
(* only one.                                                               *)
LEMMA SeatedAfterLeave ==
  ASSUME TypeOK, NEW p \in Participant, NEW q \in Participant, LeaveSeat(q)
  PROVE  /\ EverSeated(ledger', p) <=> EverSeated(ledger, p)
         /\ OnlyTenure(ledger', p) <=> OnlyTenure(ledger, p)
<1>1. OpenRows(ledger, q) # {} /\ ledger' = VacateSeat(ledger, q, currentTick)
  BY DEF LeaveSeat, CanVacate
<1>2. DOMAIN ledger' = DOMAIN ledger /\ ClosesOneRow(ledger, ledger', q, currentTick)
  BY <1>1, VacateSeatRows DEF TypeOK
<1>3. PICK k \in OpenRows(ledger, q) :
        /\ ledger'[k] = [ledger[k] EXCEPT !.leftAtTick = currentTick]
        /\ \A i \in DOMAIN ledger \ {k} : ledger'[i] = ledger[i]
  BY <1>2 DEF ClosesOneRow
<1>4. k \in DOMAIN ledger /\ ledger[k] \in Row
  BY DEF OpenRows, TypeOK
<1>5. ledger'[k].participantId = ledger[k].participantId
  BY <1>3, <1>4 DEF Row
<1>6. {i \in DOMAIN ledger' : ledger'[i].participantId = p} = {i \in DOMAIN ledger : ledger[i].participantId = p}
  BY <1>2, <1>3, <1>5
<1>7. EverSeated(ledger', p) <=> EverSeated(ledger, p)
  BY <1>2, <1>3, <1>5 DEF EverSeated
<1> QED BY <1>6, <1>7 DEF OnlyTenure

(* A seat comes into its only tenure by a join, having had none before.    *)
LEMMA FirstTenureBegins ==
  ASSUME TypeOK, [RelayNext]_relayVars, NEW p \in Participant,
         p \in LiveSeats(ledger'), OnlyTenure(ledger', p),
         ~(p \in LiveSeats(ledger) /\ OnlyTenure(ledger, p))
  PROVE  ~EverSeated(ledger, p)
<1> USE DEF TypeOK
<1>1. ASSUME NEW q \in Participant, JoinSeat(q) PROVE ~EverSeated(ledger, p)
  <2> DEFINE seat == OpenRow(q, currentTick)
  <2>1. seat \in Row /\ seat.participantId = q /\ ledger' = SeatParticipant(ledger, seat)
    BY <1>1 DEF OpenRow, Row, JoinSeat
  <2>2. LiveSeats(ledger') = LiveSeats(ledger) \cup {q}
    BY <2>1, LiveAfterJoin
  <2> HIDE DEF seat
  <2>3. ledger' \in Seq(Row) /\ \E k \in 1..(Len(ledger) + 1) : Inserted(ledger, ledger', seat, k)
    BY <2>1, SeatParticipantInserts
  <2>4. PICK k \in 1..(Len(ledger) + 1) :
          ledger' = [i \in 1..(Len(ledger) + 1) |-> IF i < k THEN ledger[i] ELSE IF i = k THEN seat ELSE ledger[i-1]]
    BY <2>3 DEF Inserted
  <2>5. PICK only : RowsOf(ledger', p) = {only}
    BY <2>3, OnlyTenureIsOneRow
  <2> DEFINE moved == [i \in DOMAIN ledger |-> IF i < k THEN i ELSE i + 1]
  <2>6. \A i \in DOMAIN ledger :
          moved[i] \in DOMAIN ledger' /\ moved[i] # k /\ ledger'[moved[i]] = ledger[i]
    <3> SUFFICES ASSUME NEW i \in DOMAIN ledger
                 PROVE  moved[i] \in DOMAIN ledger' /\ moved[i] # k /\ ledger'[moved[i]] = ledger[i]
      OBVIOUS
    <3>1. i \in 1..Len(ledger) /\ Len(ledger) \in Nat
      OBVIOUS
    <3>2. CASE i < k
      BY <2>4, <3>1, <3>2
    <3>3. CASE ~(i < k)
      <4>1. moved[i] = i + 1 /\ i + 1 \in 1..(Len(ledger) + 1) /\ ~(i + 1 < k) /\ i + 1 # k /\ i + 1 - 1 = i
        BY <3>1, <3>3
      <4> HIDE DEF moved
      <4> QED BY <2>4, <4>1
    <3> QED BY <3>2, <3>3
  <2>7. \A i, j \in DOMAIN ledger : moved[i] = moved[j] => i = j
    <3>1. \A i \in DOMAIN ledger : i \in Int
      OBVIOUS
    <3> QED BY <3>1
  <2> HIDE DEF moved
  <2>8. \A i \in RowsOf(ledger, p) : moved[i] = only
    BY <2>5, <2>6 DEF RowsOf
  <2>9. CASE q = p
    <3>1. k \in DOMAIN ledger' /\ ledger'[k] = seat
      BY <2>4
    <3>2. k = only
      BY <2>1, <2>5, <2>9, <3>1 DEF RowsOf
    <3>3. RowsOf(ledger, p) = {}
      BY <2>6, <2>8, <3>2 DEF RowsOf
    <3> QED BY <3>3 DEF RowsOf, EverSeated
  <2>10. CASE q # p
    <3>1. p \in LiveSeats(ledger)
      BY <2>2, <2>10
    <3>2. PICK i \in RowsOf(ledger, p) : TRUE
      BY <3>1 DEF LiveSeats, RowsOf
    <3>3. \A j \in RowsOf(ledger, p) : j = i
      BY <2>7, <2>8, <3>2 DEF RowsOf
    <3>4. RowsOf(ledger, p) = {i}
      BY <3>2, <3>3
    <3>5. OnlyTenure(ledger, p)
      BY <3>4, OnlyTenureIsOneRow
    <3> QED BY <3>1, <3>5
  <2> QED BY <2>9, <2>10
<1>2. ASSUME NEW q \in Participant, LeaveSeat(q) PROVE FALSE
  <2>1. OpenRows(ledger, q) # {} /\ ledger' = VacateSeat(ledger, q, currentTick)
    BY <1>2 DEF LeaveSeat, CanVacate
  <2>2. p \in LiveSeats(ledger)
    BY <2>1, LiveAfterLeave
  <2> QED BY <1>2, <2>2, SeatedAfterLeave
<1>3. ledger' = ledger \/ \E q \in Participant : JoinSeat(q) \/ LeaveSeat(q)
  BY DEF RelayNext, AdvanceTo, Submit, CatchUpPage, relayVars
<1> QED BY <1>1, <1>2, <1>3

(* A first seat is taken by a frame that waited at the hub.                *)
LEMMA SeatComesFromQueue ==
  ASSUME TypeOK, RoomTypeOK, [RoomNext]_roomVars, NEW p \in Participant
  PROVE  /\ EverSeated(ledger, p) => EverSeated(ledger', p)
         /\ EverSeated(ledger', p) => EverSeated(ledger, p) \/ (Dispatch /\ \E frame \in Queued : frame.participantId = p)
<1>1. ASSUME NEW q \in Participant, RoomJoin(q)
      PROVE  /\ EverSeated(ledger, p) => EverSeated(ledger', p)
             /\ EverSeated(ledger', p) => EverSeated(ledger, p) \/ \E frame \in Queued : frame.participantId = p
  <2>1. JoinSeat(q) /\ batch # <<>> /\ Head(batch) = JoinFrame(q)
    BY <1>1 DEF RoomJoin, HandleJoin, Dispatching, Idle
  <2>2. Head(batch) \in Queued /\ Head(batch).participantId = q
    <3>1. 1 \in DOMAIN batch /\ Head(batch) = batch[1]
      BY <2>1 DEF RoomTypeOK
    <3> QED BY <2>1, <3>1 DEF Queued, ToSet, JoinFrame
  <2> QED BY <2>1, <2>2, SeatedAfterJoin
<1>2. ASSUME NEW q \in Participant, RoomLeave(q) PROVE EverSeated(ledger', p) <=> EverSeated(ledger, p)
  <2>1. LeaveSeat(q)
    BY <1>2 DEF RoomLeave, HandleLeave
  <2> QED BY <2>1, SeatedAfterLeave
<1>3. \/ ledger' = ledger
      \/ Dispatch /\ \E q \in Participant : RoomJoin(q) \/ RoomLeave(q)
  BY DEF RoomNext, HostTick, AdvanceTo, Drain, Dispatch, RoomSubmit, HandleSubmit, Submit, RoomCatchUp,
    HandleCatchUpRequest, RoomFault, RecordFault, RoomEscape, Escape, OpenRoom, ClientJoin, ClientLeave,
    ClientSubmit, Resume, Call, Deliver, Lose, roomVars, hubVars, relayVars
<1> QED BY <1>1, <1>2, <1>3

-----------------------------------------------------------------------------
(***************************************************************************)
(* The invariant of histories.                                             *)
(***************************************************************************)
(* Nobody hears of a participant that did not open the room.               *)
Untouched ==
  \A p \in Participant : p \notin opened =>
    /\ received[p] = <<>> /\ mail[p] = <<>> /\ ~EverSeated(ledger, p)
    /\ \A frame \in Queued : frame.participantId # p

(* Every request asks for the log from its beginning.                      *)
FromTheStart == \A frame \in Queued : frame.kind = "catchup-request" => frame.after = NoStamp

NoPage(p) == \A frame \in ToSet(mail[p]) : frame.kind # "catchup-page"

(* A seat never taken has been sent no page, and its client waits for one. *)
BeforeTheFirst ==
  \A p \in Participant : ~EverSeated(ledger, p) => NoPage(p) /\ (p \in opened => catchingUp[p])

Holds(frame, record) ==
  \/ frame.kind = "broadcast" /\ frame.record = record
  \/ frame.kind = "catchup-page" /\ record \in ToSet(frame.records)

HasAll(p) ==
  \A i \in DOMAIN log :
    log[i] \in ToSet(received[p]) \/ \E frame \in ToSet(mail[p]) : Holds(frame, log[i])

(* In its first tenure a seat has the log, or still waits for its page.    *)
InTheFirst ==
  \A p \in LiveSeats(ledger) : OnlyTenure(ledger, p) => HasAll(p) \/ (NoPage(p) /\ catchingUp[p])

HistoryInv == LastPages /\ Untouched /\ FromTheStart /\ BeforeTheFirst /\ InTheFirst

LosesNothing == "loses" \notin carrier

(* Whoever opened the room has opened it.                                  *)
LEMMA OpenedStays ==
  ASSUME RoomTypeOK, [RoomNext]_roomVars, NEW p \in Participant
  PROVE  /\ calls[p] > 0 => calls'[p] > 0
         /\ calls'[p] > 0 /\ p \notin opened => OpenRoom(p)
<1> USE DEF RoomTypeOK
<1>1. calls' = calls \/ \E q \in Participant : calls' = [calls EXCEPT ![q] = @ + 1]
  BY DEF RoomNext, HostTick, Drain, Dispatch, RoomJoin, RoomLeave, RoomSubmit, RoomCatchUp, RoomFault,
    RoomEscape, OpenRoom, ClientJoin, ClientLeave, ClientSubmit, Resume, Call, Deliver, Lose, roomVars, clientVars
<1>2. calls[p] > 0 => calls'[p] > 0
  <2>1. ASSUME NEW q \in Participant, calls' = [calls EXCEPT ![q] = @ + 1] PROVE calls'[p] = calls[p] \/ calls'[p] = calls[p] + 1
    BY <2>1
  <2>2. calls[p] \in Nat
    OBVIOUS
  <2> QED BY <1>1, <2>1, <2>2
<1>3. ASSUME p \notin opened, calls'[p] > 0 PROVE OpenRoom(p)
  <2>1. calls[p] = 0 /\ calls'[p] # calls[p]
    BY <1>3 DEF opened
  <2>2. \E q \in Participant : \E call, frames : Call(q, call, frames)
    BY <2>1 DEF RoomNext, HostTick, Drain, Dispatch, RoomJoin, RoomLeave, RoomSubmit, RoomCatchUp, RoomFault,
      RoomEscape, OpenRoom, ClientJoin, ClientLeave, ClientSubmit, Resume, Deliver, Lose, roomVars, clientVars
  <2>3. \A q \in Participant : \A call, frames : Call(q, call, frames) => q = p /\ call = "open"
    BY <1>3, <2>1 DEF Call
  <2>4. \/ OpenRoom(p)
        \/ \E q \in Participant : ClientJoin(q) \/ ClientLeave(q) \/ Resume(q)
        \/ \E q \in Participant, kind \in Kind, doorShaped \in BOOLEAN : ClientSubmit(q, kind, doorShaped)
    BY <2>1, <2>3 DEF RoomNext, HostTick, Drain, Dispatch, RoomJoin, RoomLeave, RoomSubmit, RoomCatchUp, RoomFault,
      RoomEscape, OpenRoom, Deliver, Lose, roomVars, clientVars
  <2>5. "join" # "open" /\ "leave" # "open" /\ "submit" # "open" /\ "resume" # "open"
    OBVIOUS
  <2>6. ASSUME NEW q \in Participant, ClientJoin(q) \/ ClientLeave(q) \/ Resume(q) PROVE FALSE
    BY <2>3, <2>5, <2>6 DEF ClientJoin, ClientLeave, Resume
  <2>7. ASSUME NEW q \in Participant, NEW kind \in Kind, NEW doorShaped \in BOOLEAN,
               ClientSubmit(q, kind, doorShaped)
        PROVE  FALSE
    BY <2>3, <2>5, <2>7 DEF ClientSubmit
  <2> QED BY <2>4, <2>6, <2>7
<1> QED BY <1>2, <1>3

(* Nobody else's step touches a participant that did not open the room.    *)
LEMMA UntouchedStays ==
  ASSUME OnePageRooms, TypeOK, TypeOK', RoomTypeOK, RoomTypeOK', LastPages, Untouched, [RoomNext]_roomVars
  PROVE  Untouched'
<1> USE DEF RoomTypeOK
<1> SUFFICES ASSUME NEW p \in Participant, p \notin opened'
             PROVE  /\ received'[p] = <<>> /\ mail'[p] = <<>> /\ ~EverSeated(ledger', p)
                    /\ \A frame \in Queued' : frame.participantId # p
  BY DEF Untouched
<1>1. /\ p \notin opened /\ ~(calls'[p] > 0)
      /\ received[p] = <<>> /\ mail[p] = <<>> /\ ~EverSeated(ledger, p)
      /\ \A frame \in Queued : frame.participantId # p
  <2>1. ~(calls'[p] > 0)
    BY DEF opened
  <2>2. p \notin opened
    BY <2>1, OpenedStays DEF opened
  <2> QED BY <2>1, <2>2 DEF Untouched
<1>2. \A frame \in Queued' : frame.participantId # p
  BY <1>1, QueueSources
<1>3. ~EverSeated(ledger', p)
  BY <1>1, SeatComesFromQueue
<1>4. CASE Dispatch
  <2>1. received' = received
    BY <1>4 DEF Dispatch, RoomJoin, RoomLeave, RoomSubmit, RoomCatchUp, RoomFault, RoomEscape, clientVars
  <2>2. PICK frames : Added(p, frames)
    BY <1>4, DispatchAdds
  <2>3. p \notin LiveSeats(ledger')
    BY <1>3 DEF LiveSeats, EverSeated
  <2>4. ~Idle => Head(batch) \in Queued
    <3>1. ~Idle => 1 \in DOMAIN batch /\ Head(batch) = batch[1]
      BY DEF Idle
    <3> QED BY <3>1 DEF Queued, ToSet
  <2>5. frames = <<>>
    BY <1>1, <2>2, <2>3, <2>4 DEF Added
  <2>6. mail'[p] = <<>>
    BY <1>1, <2>2, <2>5 DEF Added
  <2> QED BY <1>1, <1>2, <1>3, <2>1, <2>6
<1>5. CASE ~Dispatch
  <2>1. ~Deliver(p) /\ ~Lose(p)
    BY <1>1 DEF Deliver, Lose
  <2> QED BY <1>1, <1>2, <1>3, <1>5, <2>1, MailStays
<1> QED BY <1>4, <1>5

(* Requests keep asking from the beginning.                                *)
LEMMA FromTheStartStays ==
  ASSUME OnePageRooms, RoomTypeOK, RoomTypeOK', LastPages, Untouched, FromTheStart, [RoomNext]_roomVars
  PROVE  FromTheStart'
<1> SUFFICES ASSUME NEW frame \in Queued', frame.kind = "catchup-request" PROVE frame.after = NoStamp
  BY DEF FromTheStart
<1>1. CASE frame \in Queued
  BY <1>1 DEF FromTheStart
<1>2. ASSUME NEW p \in Participant, p \notin opened, frame = Request(p, received[p])
      PROVE  frame.after = NoStamp
  <2>1. received[p] = <<>>
    BY <1>2 DEF Untouched
  <2> QED BY <1>2, <2>1 DEF Request, CatchUpRequestFrame, LastSeen
<1> QED BY <1>1, <1>2, QueueSources

(* What changes the mailbox and the flag of a seat.                        *)
LEMMA FlagStays ==
  ASSUME OnePageRooms, RoomTypeOK, [RoomNext]_roomVars, NEW p \in Participant
  PROVE  \/ catchingUp'[p] = catchingUp[p]
         \/ catchingUp'[p] = TRUE
         \/ Deliver(p)
<1> USE DEF RoomTypeOK
<1>1. CASE Dispatch
  BY <1>1 DEF Dispatch, RoomJoin, RoomLeave, RoomSubmit, RoomCatchUp, RoomFault, RoomEscape, clientVars
<1>2. CASE Lose(p)
  BY <1>2 DEF Lose, clientVars
<1>3. ASSUME NEW q \in Participant, OpenRoom(q) PROVE catchingUp'[p] = catchingUp[p] \/ catchingUp'[p] = TRUE
  BY <1>3 DEF OpenRoom
<1>4. ASSUME NEW q \in Participant, Resume(q) PROVE FALSE
  BY <1>4 DEF Resume, Call, OnePageRooms
<1> QED BY <1>1, <1>2, <1>3, <1>4, MailStays

(* A page goes to seats that were taken.                                   *)
LEMMA AnsweredIsSeated ==
  ASSUME TypeOK, LedgerOK, RoomTypeOK, NEW p \in Participant, AnswersRequestOf(p)
  PROVE  /\ p \in LiveSeats(ledger) /\ EverSeated(ledger, p)
         /\ Head(batch) \in Queued /\ Head(batch).kind = "catchup-request"
         /\ log' = log /\ ledger' = ledger
<1>1. /\ ~Idle /\ Head(batch).kind = "catchup-request" /\ SeatedAt(ledger, p, currentTick)
      /\ log' = log /\ ledger' = ledger
  BY DEF AnswersRequestOf, RoomCatchUp, HandleCatchUpRequest, relayVars
<1>2. Head(batch) \in Queued
  <2>1. 1 \in DOMAIN batch /\ Head(batch) = batch[1]
    BY <1>1 DEF Idle, RoomTypeOK
  <2> QED BY <2>1 DEF Queued, ToSet
<1>3. EverSeated(ledger, p)
  BY <1>1 DEF SeatedAt, EverSeated
<1> QED BY <1>1, <1>2, <1>3, SeatedIsLive

(* A dispatch that adds frames adds them to what is in the mailbox.        *)
LEMMA AddedFrames ==
  ASSUME RoomTypeOK, NEW p \in Participant, NEW frames, Added(p, frames)
  PROVE  ToSet(mail'[p]) = ToSet(mail[p]) \cup ToSet(frames)
<1>1. mail[p] \in Seq(SeatFrame) /\ frames \in Seq(SeatFrame) /\ mail'[p] = mail[p] \o frames
  BY DEF Added, RoomTypeOK
<1> QED BY <1>1, SetOfConcat

(* A seat that was never taken is sent no page.                            *)
LEMMA BeforeTheFirstStays ==
  ASSUME OnePageRooms, TypeOK, TypeOK', LedgerOK, RoomTypeOK, BeforeTheFirst, Untouched, [RoomNext]_roomVars
  PROVE  BeforeTheFirst'
<1> USE DEF RoomTypeOK
<1> SUFFICES ASSUME NEW p \in Participant, ~EverSeated(ledger', p)
             PROVE  /\ \A frame \in ToSet(mail'[p]) : frame.kind # "catchup-page"
                    /\ calls'[p] > 0 => catchingUp'[p]
  BY DEF BeforeTheFirst, NoPage, opened
<1>1. ~EverSeated(ledger, p) /\ NoPage(p) /\ (p \in opened => catchingUp[p])
  BY SeatComesFromQueue DEF BeforeTheFirst
<1>2. \A frame \in ToSet(mail'[p]) : frame.kind # "catchup-page"
  <2>1. CASE Dispatch
    <3>1. PICK frames : Added(p, frames)
      BY <2>1, DispatchAdds
    <3>2. ~AnswersRequestOf(p)
      BY <1>1, AnsweredIsSeated
    <3>3. ToSet(mail'[p]) = ToSet(mail[p]) \cup ToSet(frames)
      BY <3>1, AddedFrames
    <3>4. \A frame \in ToSet(frames) : frame.kind # "catchup-page"
      BY <3>1, <3>2 DEF Added
    <3> QED BY <1>1, <3>3, <3>4 DEF NoPage
  <2>2. CASE Deliver(p)
    BY <1>1, <2>2, DeliveredApplies DEF NoPage
  <2>3. CASE Lose(p)
    <3>1. PICK i \in DOMAIN mail[p] : mail' = [mail EXCEPT ![p] = RemoveAt(@, i)]
      BY <2>3 DEF Lose
    <3>2. mail[p] \in Seq(SeatFrame) /\ i \in 1..Len(mail[p]) /\ mail'[p] = RemoveAt(mail[p], i)
      BY <3>1
    <3>3. ToSet(mail'[p]) \subseteq ToSet(mail[p])
      BY <3>2, SetOfRemoved
    <3> QED BY <1>1, <3>3 DEF NoPage
  <2>4. CASE ~Dispatch /\ ~Deliver(p) /\ ~Lose(p)
    <3>1. mail'[p] = mail[p]
      BY <2>4, MailStays
    <3> QED BY <1>1, <3>1 DEF NoPage
  <2> QED BY <2>1, <2>2, <2>3, <2>4
<1>3. ASSUME calls'[p] > 0 PROVE catchingUp'[p]
  <2>1. CASE p \notin opened
    <3>1. OpenRoom(p)
      BY <1>3, <2>1, OpenedStays
    <3> QED BY <3>1 DEF OpenRoom
  <2>2. CASE p \in opened /\ ~Deliver(p)
    BY <1>1, <2>2, FlagStays
  <2>3. CASE p \in opened /\ Deliver(p)
    <3>1. PICK frame \in ToSet(mail[p]) : Applied(p, frame)
      BY <2>3, DeliveredApplies
    <3>2. frame.kind # "catchup-page"
      BY <1>1, <3>1 DEF NoPage
    <3>3. catchingUp' = catchingUp
      BY <3>1, <3>2 DEF Applied, ApplyBroadcast, ApplyPage, ApplySeatState, ApplyFault
    <3> QED BY <1>1, <2>3, <3>3
  <2> QED BY <2>1, <2>2, <2>3
<1> QED BY <1>2, <1>3

(* Absorbing a frame of log records leaves the client with all of them:    *)
(* one it drops has the stamp of one it has, and is that one.              *)
LEMMA AbsorbGets ==
  ASSUME TypeOK, StampsAscend, NEW records \in Seq(Record), NEW news \in Seq(Record),
         OnceFrom(records, log), OnceFrom(news, log)
  PROVE  ToSet(records) \cup ToSet(news) \subseteq ToSet(Absorb(records, news))
<1> DEFINE unseen == {record \in ToSet(news) : StampOf(record) \notin StampsOf(records)}
           fresh == Selected(news, unseen)
<1>1. Absorb(records, news) = records \o fresh
  BY DEF Absorb
<1>2. fresh \in Seq(Record) /\ \E at : StandsAt(fresh, at, news, unseen, Len(news))
  BY SelectedStands
<1>3. ToSet(Absorb(records, news)) = ToSet(records) \cup ToSet(fresh)
  <2> HIDE DEF fresh
  <2> QED BY <1>1, <1>2, SetOfConcat
<1>4. ASSUME NEW record \in ToSet(news), record \in unseen PROVE record \in ToSet(fresh)
  <2> HIDE DEF unseen
  <2> HIDE DEF fresh
  <2>1. PICK at : StandsAt(fresh, at, news, unseen, Len(news))
    BY <1>2
  <2>2. PICK k \in 1..Len(news) : record = news[k]
    BY DEF ToSet
  <2>3. PICK i \in 1..Len(fresh) : at[i] = k
    BY <1>4, <2>1, <2>2 DEF StandsAt
  <2>4. fresh[i] = record /\ i \in DOMAIN fresh
    BY <1>2, <2>1, <2>2, <2>3 DEF StandsAt
  <2> QED BY <2>4 DEF ToSet
<1>5. ASSUME NEW record \in ToSet(news), record \notin unseen PROVE record \in ToSet(records)
  <2>1. PICK j \in DOMAIN records : StampOf(records[j]) = StampOf(record)
    BY <1>5 DEF StampsOf
  <2>2. records[j] \in ToSet(log) /\ record \in ToSet(log)
    BY DEF OnceFrom, ToSet
  <2>3. PICK a \in DOMAIN log, b \in DOMAIN log : records[j] = log[a] /\ record = log[b]
    BY <2>2 DEF ToSet
  <2>4. log[a].seq = log[b].seq
    BY <2>1, <2>3 DEF StampOf
  <2>5. a = b
    <3>1. a \in Int /\ b \in Int /\ log[a].seq \in Nat /\ log[b].seq \in Nat
      BY RecordFields DEF TypeOK
    <3> QED BY <2>4, <3>1 DEF StampsAscend
  <2> QED BY <2>3, <2>5 DEF ToSet
<1> HIDE DEF unseen, fresh
<1> QED BY <1>3, <1>4, <1>5

(* A first tenure keeps the log, or waits for its page.                    *)
LEMMA InTheFirstStays ==
  ASSUME OnePageRooms, TypeOK, TypeOK', StampsAscend, LedgerOK, Bounded, RoomTypeOK, RoomTypeOK',
         ReceivedOnceFromLog, MailIsFromLog, LosesNothing, HistoryInv, [RoomNext]_roomVars, [RelayNext]_relayVars
  PROVE  InTheFirst'
<1> USE DEF RoomTypeOK
<1> SUFFICES ASSUME NEW p \in Participant, p \in LiveSeats(ledger'), OnlyTenure(ledger', p)
             PROVE  HasAll(p)' \/ (NoPage(p)' /\ catchingUp'[p])
  <2>1. ledger' \in Seq(Row)
    BY DEF TypeOK
  <2>2. LiveSeats(ledger') \subseteq Participant
    BY <2>1, RowFields DEF LiveSeats
  <2> QED BY <2>2 DEF InTheFirst
<1>1. CASE AnswersRequestOf(p)
  <2>1. PICK frames : Added(p, frames)
    BY <1>1, DispatchAdds DEF AnswersRequestOf, Dispatch
  <2>2. log' = log /\ Head(batch).after = NoStamp
    BY <1>1, AnsweredIsSeated DEF HistoryInv, FromTheStart
  <2> DEFINE page == PageCoopLog(log, NoStamp, PageSize)
  <2>3. PageFrame(page, HasMore(page)) \in ToSet(mail'[p])
    <3>1. ToSet(mail'[p]) = ToSet(mail[p]) \cup ToSet(frames)
      BY <2>1, AddedFrames
    <3>2. PageFrame(page, HasMore(page)) \in ToSet(frames)
      BY <1>1, <2>1, <2>2 DEF Added
    <3> QED BY <3>1, <3>2
  <2>4. \A i \in DOMAIN log : Holds(PageFrame(page, HasMore(page)), log[i])
    <3>1. \A i \in DOMAIN log : log[i] \in ToSet(page)
      BY OnePage
    <3> HIDE DEF page
    <3> QED BY <3>1 DEF Holds, PageFrame
  <2> HIDE DEF page
  <2>5. HasAll(p)'
    BY <2>2, <2>3, <2>4 DEF HasAll
  <2> QED BY <2>5
<1>2. CASE Dispatch /\ ~AnswersRequestOf(p)
  <2>1. received' = received /\ catchingUp' = catchingUp
    BY <1>2 DEF Dispatch, RoomJoin, RoomLeave, RoomSubmit, RoomCatchUp, RoomFault, RoomEscape, clientVars
  <2>2. PICK frames : Added(p, frames)
    BY <1>2, DispatchAdds
  <2>3. ToSet(mail'[p]) = ToSet(mail[p]) \cup ToSet(frames)
    BY <2>2, AddedFrames
  <2>4. NoPage(p) => NoPage(p)'
    BY <1>2, <2>2, <2>3 DEF NoPage, Added
  <2>5. CASE HasAll(p) /\ log' = log
    BY <2>1, <2>3, <2>5 DEF HasAll
  <2>6. CASE HasAll(p) /\ log' # log
    <3>1. PICK record \in Record : log' = Append(log, record)
      BY <2>6, LogGrows
    <3>2. /\ \A i \in DOMAIN log' : i = Len(log') \/ (i \in DOMAIN log /\ log'[i] = log[i])
          /\ BroadcastFrame(log'[Len(log')]) \in ToSet(frames)
      <4>1. /\ log \in Seq(Record) /\ Len(log) \in Nat /\ Len(log') = Len(log) + 1
            /\ \A i \in 1..Len(log) : log'[i] = log[i]
        BY <3>1, AppendProperties DEF TypeOK
      <4>2. DOMAIN log' = 1..Len(log) + 1 /\ DOMAIN log = 1..Len(log)
        BY <3>1, <4>1
      <4>3. \A n \in Nat : \A i \in 1..n + 1 : i = n + 1 \/ i \in 1..n
        OBVIOUS
      <4>4. \A i \in DOMAIN log' : i = Len(log') \/ (i \in DOMAIN log /\ log'[i] = log[i])
        BY <4>1, <4>2, <4>3
      <4> QED BY <2>2, <2>6, <4>4 DEF Added
    <3>3. Holds(BroadcastFrame(log'[Len(log')]), log'[Len(log')])
      BY DEF Holds, BroadcastFrame
    <3>4. ASSUME NEW i \in DOMAIN log'
          PROVE  log'[i] \in ToSet(received'[p]) \/ \E frame \in ToSet(mail'[p]) : Holds(frame, log'[i])
      <4>1. CASE i = Len(log')
        BY <2>3, <3>2, <3>3, <4>1
      <4>2. CASE i \in DOMAIN log /\ log'[i] = log[i]
        BY <2>1, <2>3, <2>6, <4>2 DEF HasAll
      <4> QED BY <3>2, <4>1, <4>2
    <3> QED BY <3>4 DEF HasAll
  <2>7. CASE NoPage(p) /\ catchingUp[p]
    BY <2>1, <2>4, <2>7
  <2>8. CASE ~(p \in LiveSeats(ledger) /\ OnlyTenure(ledger, p))
    <3>1. ~EverSeated(ledger, p)
      BY <2>8, FirstTenureBegins
    <3>2. EverSeated(ledger', p)
      BY DEF LiveSeats, EverSeated
    <3>3. p \in opened
      BY <3>1, <3>2, SeatComesFromQueue DEF HistoryInv, Untouched
    <3> QED BY <2>1, <2>4, <3>1, <3>3 DEF HistoryInv, BeforeTheFirst
  <2> QED BY <2>5, <2>6, <2>7, <2>8 DEF HistoryInv, InTheFirst
<1>3. CASE Deliver(p)
  <2>1. /\ log' = log /\ ledger' = ledger
    BY <1>3 DEF Deliver, relayVars
  <2>2. HasAll(p) \/ (NoPage(p) /\ catchingUp[p])
    BY <2>1 DEF HistoryInv, InTheFirst
  <2>3. PICK frame \in ToSet(mail[p]) :
          /\ Applied(p, frame)
          /\ ToSet(mail[p]) \subseteq ToSet(mail'[p]) \cup {frame}
          /\ ToSet(mail'[p]) \subseteq ToSet(mail[p])
    BY <1>3, DeliveredApplies
  <2>4. frame \in SeatFrame /\ FrameFrom(frame, log)
    BY <2>3 DEF ToSet, MailIsFromLog
  <2>5. received[p] \in Seq(Record) /\ OnceFrom(received[p], log)
    BY DEF ReceivedOnceFromLog, OnceFrom
  <2>6. /\ ToSet(received[p]) \subseteq ToSet(received'[p])
        /\ \A i \in DOMAIN log : Holds(frame, log[i]) => log[i] \in ToSet(received'[p])
    <3>1. CASE ApplyBroadcast(p, frame)
      <4>1. frame.record \in Record /\ frame.record \in ToSet(log) /\ frame.kind = "broadcast"
        BY <2>4, <3>1 DEF ApplyBroadcast, SeatFrame, FrameFrom
      <4>2. <<frame.record>> \in Seq(Record) /\ OnceFrom(<<frame.record>>, log) /\ ToSet(<<frame.record>>) = {frame.record}
        BY <4>1 DEF OnceFrom, ToSet
      <4>3. received'[p] = Absorb(received[p], <<frame.record>>)
        BY <3>1 DEF ApplyBroadcast
      <4>4. ToSet(received[p]) \cup {frame.record} \subseteq ToSet(received'[p])
        BY <2>5, <4>2, <4>3, AbsorbGets
      <4> QED BY <4>1, <4>4 DEF Holds
    <3>2. CASE ApplyPage(p, frame)
      <4>1. frame.records \in Seq(Record) /\ OnceFrom(frame.records, log) /\ frame.kind = "catchup-page"
        BY <2>4, <3>2 DEF ApplyPage, SeatFrame, FrameFrom
      <4>2. received'[p] = Absorb(received[p], frame.records)
        BY <3>2 DEF ApplyPage
      <4>3. ToSet(received[p]) \cup ToSet(frame.records) \subseteq ToSet(received'[p])
        BY <2>5, <4>1, <4>2, AbsorbGets
      <4> QED BY <4>1, <4>3 DEF Holds
    <3>3. CASE ApplySeatState(p, frame) \/ ApplyFault(p, frame)
      BY <3>3 DEF ApplySeatState, ApplyFault, Holds
    <3> QED BY <2>3, <3>1, <3>2, <3>3 DEF Applied
  <2>7. CASE HasAll(p)
    <3>1. ASSUME NEW i \in DOMAIN log
          PROVE  log[i] \in ToSet(received'[p]) \/ \E f \in ToSet(mail'[p]) : Holds(f, log[i])
      BY <2>3, <2>6, <2>7 DEF HasAll
    <3> QED BY <2>1, <3>1 DEF HasAll
  <2>8. CASE NoPage(p) /\ catchingUp[p]
    <3>1. frame.kind # "catchup-page"
      BY <2>3, <2>8 DEF NoPage
    <3>2. catchingUp' = catchingUp
      BY <2>3, <3>1 DEF Applied, ApplyBroadcast, ApplyPage, ApplySeatState, ApplyFault
    <3> QED BY <2>3, <2>8, <3>2 DEF NoPage
  <2> QED BY <2>2, <2>7, <2>8
<1>4. CASE ~Dispatch /\ ~Deliver(p)
  <2>1. ~Lose(p)
    BY DEF Lose, LosesNothing
  <2>2. mail'[p] = mail[p] /\ received'[p] = received[p] /\ log' = log /\ ledger' = ledger
    BY <1>4, <2>1, MailStays
  <2>3. catchingUp'[p] = catchingUp[p] \/ catchingUp'[p] = TRUE
    BY <1>4, FlagStays
  <2>4. HasAll(p) \/ (NoPage(p) /\ catchingUp[p])
    BY <2>2 DEF HistoryInv, InTheFirst
  <2> QED BY <2>2, <2>3, <2>4 DEF HasAll, NoPage
<1> QED BY <1>1, <1>2, <1>3, <1>4

(* In a room whose log fits into one page, over a carrier that loses       *)
(* nothing, a client that reports itself caught up has the whole log, or   *)
(* the rest is on its way to it (client.ts, isCaughtUp).                   *)
THEOREM CaughtUpHistoryIsWholeAlways ==
  ASSUME MaxRecords <= PageSize, "resume" \notin ClientCalls, \A c \in Carriers : "loses" \notin c
  PROVE  RoomSpec => []CaughtUpHistoryIsWhole
<1>0. OnePageRooms
  BY DEF OnePageRooms
<1>1. RoomInit => LosesNothing /\ HistoryInv
  <2> SUFFICES ASSUME RoomInit PROVE LosesNothing /\ HistoryInv
    OBVIOUS
  <2>1. /\ mail = [p \in Participant |-> <<>>] /\ received = [p \in Participant |-> <<>>] /\ ledger = <<>>
        /\ calls = [p \in Participant |-> 0] /\ hubInbox = <<>> /\ batch = <<>> /\ carrier \in Carriers
    BY DEF RoomInit, HubInit, RelayInit
  <2>2. Queued = {} /\ opened = {} /\ LiveSeats(ledger) = {} /\ \A p \in Participant : ~EverSeated(ledger, p) /\ NoPage(p)
    BY <2>1 DEF Queued, ToSet, opened, LiveSeats, EverSeated, NoPage
  <2> QED BY <2>1, <2>2 DEF LosesNothing, HistoryInv, LastPages, Untouched, FromTheStart, BeforeTheFirst, InTheFirst
<1>2. /\ TypeOK /\ TypeOK' /\ StampsAscend /\ LedgerOK /\ Bounded /\ RoomTypeOK /\ RoomTypeOK'
      /\ ReceivedOnceFromLog /\ MailIsFromLog /\ LosesNothing /\ HistoryInv
      /\ [RoomNext]_roomVars /\ [RelayNext]_relayVars
      => LosesNothing' /\ HistoryInv'
  <2> SUFFICES ASSUME TypeOK, TypeOK', StampsAscend, LedgerOK, Bounded, RoomTypeOK, RoomTypeOK',
                      ReceivedOnceFromLog, MailIsFromLog, LosesNothing, HistoryInv,
                      [RoomNext]_roomVars, [RelayNext]_relayVars
               PROVE  LosesNothing' /\ HistoryInv'
    OBVIOUS
  <2>1. LosesNothing'
    BY DEF LosesNothing, RoomNext, roomVars
  <2>2. LastPages /\ Untouched /\ FromTheStart /\ BeforeTheFirst
    BY DEF HistoryInv
  <2>3. LastPages' /\ Untouched' /\ FromTheStart' /\ BeforeTheFirst'
    BY <1>0, <2>2, PagesAreLast, UntouchedStays, FromTheStartStays, BeforeTheFirstStays
  <2>4. InTheFirst'
    BY <1>0, InTheFirstStays
  <2> QED BY <2>1, <2>3, <2>4 DEF HistoryInv
<1>3. HistoryInv => CaughtUpHistoryIsWhole
  <2> SUFFICES ASSUME HistoryInv, NEW p \in opened, ~catchingUp[p], p \in LiveSeats(ledger),
                      Cardinality({i \in DOMAIN ledger : ledger[i].participantId = p}) = 1,
                      NEW i \in DOMAIN log
               PROVE  log[i] \in ToSet(received[p]) \/ InFlight(p, log[i])
    BY DEF CaughtUpHistoryIsWhole
  <2>1. HasAll(p)
    BY DEF HistoryInv, InTheFirst, OnlyTenure
  <2> QED BY <2>1 DEF HasAll, InFlight, Holds, ToSet
<1> QED BY <1>1, <1>2, <1>3, RoomRunsTheRelay, RoomTypeCorrect, MailIsFromLogAlways, TypeCorrect, StampsAscendAlways,
           LedgerOKAlways, BoundedAlways, PTL
        DEF RoomSpec, RelaySpec

-----------------------------------------------------------------------------
(***************************************************************************)
(* A simulation at every seat.                                             *)
(***************************************************************************)
InOrder(actions) == \A i, j \in DOMAIN actions : i < j => StampBefore(actions[i], actions[j])

StampOrder == {pair \in Record \X Record : StampBefore(pair[1], pair[2])}

(* Ascending is ascending in the stamp order.                              *)
LEMMA InOrderPairs ==
  ASSUME NEW actions \in Seq(Record)
  PROVE  InOrder(actions) <=> \A i, j \in DOMAIN actions : i < j => <<actions[i], actions[j]>> \in StampOrder
<1>1. \A i \in DOMAIN actions : actions[i] \in Record
  OBVIOUS
<1>2. \A a, b \in Record : <<a, b>> \in StampOrder <=> StampBefore(a, b)
  BY DEF StampOrder
<1> QED BY <1>1, <1>2 DEF InOrder

(* The shared log is in stamp order.                                       *)
LEMMA LogInOrder ==
  ASSUME TypeOK, StampsAscend
  PROVE  InOrder(log)
<1> SUFFICES ASSUME NEW i \in DOMAIN log, NEW j \in DOMAIN log, i < j
             PROVE  StampBefore(log[i], log[j])
  BY DEF InOrder
<1>1. log[i].tick <= log[j].tick /\ log[i].seq < log[j].seq
  BY DEF StampsAscend
<1>2. log[i].tick \in Nat /\ log[j].tick \in Nat
  BY RecordFields DEF TypeOK
<1> QED BY <1>1, <1>2 DEF StampBefore

(* Records of the log have an arrangement in stamp order, and              *)
(* orderCoopTimeline finds it.                                             *)
LEMMA ArrangementExists ==
  ASSUME TypeOK, StampsAscend, NEW S \in SUBSET ToSet(log)
  PROVE  /\ Cardinality(S) \in Nat
         /\ \E ordered \in Bijection(1..Cardinality(S), S) : InOrder(ordered)
<1> DEFINE sel == Selected(log, S)
           n == Len(sel)
<1>1. log \in Seq(Record)
  BY DEF TypeOK
<1>2. sel \in Seq(Record) /\ ToSet(sel) = S
  <2>1. sel \in Seq(Record) /\ ToSet(sel) = ToSet(log) \cap S
    BY <1>1, SelectedSet
  <2> HIDE DEF sel
  <2> QED BY <2>1
<1>3. InOrder(sel)
  <2>1. \A i, j \in DOMAIN log : i < j => <<log[i], log[j]>> \in StampOrder
    BY <1>1, LogInOrder, InOrderPairs
  <2>2. \A i, j \in DOMAIN sel : i < j => <<sel[i], sel[j]>> \in StampOrder
    BY <1>1, <2>1, SelectedInOrder
  <2> HIDE DEF sel
  <2> QED BY <1>2, <2>2, InOrderPairs
<1> HIDE DEF sel
<1>4. n \in Nat /\ DOMAIN sel = 1..n /\ \A i \in 1..n : sel[i] \in S /\ sel[i] \in Record
  <2>1. n \in Nat /\ DOMAIN sel = 1..n
    BY <1>2
  <2>2. \A i \in DOMAIN sel : sel[i] \in ToSet(sel) /\ sel[i] \in Record
    BY <1>2 DEF ToSet
  <2> QED BY <1>2, <2>1, <2>2
<1>5. \A i, j \in 1..n : sel[i] = sel[j] => i = j
  <2> SUFFICES ASSUME NEW i \in 1..n, NEW j \in 1..n, sel[i] = sel[j], i < j PROVE FALSE
    BY <1>4
  <2>1. StampBefore(sel[i], sel[i])
    BY <1>3, <1>4 DEF InOrder
  <2>2. sel[i].tick \in Nat /\ sel[i].seq \in Nat
    BY <1>4 DEF Record
  <2> QED BY <2>1, <2>2 DEF StampBefore
<1>6. \A x \in S : \E i \in 1..n : sel[i] = x
  BY <1>2, <1>4 DEF ToSet
<1>7. sel \in Bijection(1..n, S)
  <2>1. sel \in [1..n -> S]
    BY <1>2, <1>4
  <2> QED BY <1>4, <1>5, <1>6, <2>1 DEF Bijection, Injection, Surjection, IsInjective
<1>8. Cardinality(S) = n
  BY <1>4, <1>7, FS_CountingElements DEF ExistsBijection
<1> QED BY <1>3, <1>4, <1>7, <1>8

(* What a seat executes up to a tick is due, all of it, in stamp order.    *)
LEMMA StampOrderOfDue ==
  ASSUME TypeOK, StampsAscend, RoomTypeOK, ReceivedOnceFromLog, NEW p \in Participant, NEW last
  PROVE  /\ InStampOrder(p, last) \in Seq(Record)
         /\ ToSet(InStampOrder(p, last)) = Due(p, last)
         /\ InOrder(InStampOrder(p, last))
<1> DEFINE S == Due(p, last)
           ordered == InStampOrder(p, last)
<1>1. S \in SUBSET ToSet(log) /\ S \subseteq Record
  <2>1. \A i \in DOMAIN received[p] : received[p][i] \in ToSet(log) /\ received[p][i] \in Record
    BY DEF ReceivedOnceFromLog, RoomTypeOK
  <2> QED BY <2>1 DEF Due, ToSet
<1>2. ordered \in Bijection(1..Cardinality(S), S) /\ InOrder(ordered)
  <2> HIDE DEF S
  <2>1. \E o \in Bijection(1..Cardinality(S), S) : InOrder(o)
    BY <1>1, ArrangementExists
  <2> QED BY <2>1 DEF InStampOrder, InOrder, S
<1>3. Cardinality(S) \in Nat
  <2> HIDE DEF S
  <2> QED BY <1>1, ArrangementExists
<1> HIDE DEF S, ordered
<1>4. ordered \in [1..Cardinality(S) -> S] /\ \A x \in S : \E i \in 1..Cardinality(S) : ordered[i] = x
  BY <1>2 DEF Bijection, Injection, Surjection
<1>5. ordered \in Seq(Record) /\ DOMAIN ordered = 1..Cardinality(S)
  BY <1>1, <1>3, <1>4
<1>6. ToSet(ordered) = S
  BY <1>4, <1>5 DEF ToSet
<1> QED BY <1>2, <1>5, <1>6 DEF S, ordered

(* Nothing leaves a client's inbox (client.ts, absorb).                    *)
LEMMA ReceivedGrows ==
  ASSUME RoomTypeOK, [RoomNext]_roomVars, NEW p \in Participant
  PROVE  ToSet(received[p]) \subseteq ToSet(received'[p])
<1> USE DEF RoomTypeOK
<1>1. ASSUME NEW q \in Participant, NEW news \in Seq(Record),
             received' = [received EXCEPT ![q] = Absorb(@, news)]
      PROVE  ToSet(received[p]) \subseteq ToSet(received'[p])
  <2>1. ToSet(received[p]) \subseteq ToSet(Absorb(received[p], news))
    <3> DEFINE fresh == Selected(news, {record \in ToSet(news) : StampOf(record) \notin StampsOf(received[p])})
    <3>1. fresh \in Seq(Record)
      BY <1>1, SelectedStands
    <3>2. Absorb(received[p], news) = received[p] \o fresh
      BY DEF Absorb
    <3> HIDE DEF fresh
    <3> QED BY <3>1, <3>2, SetOfConcat
  <2>2. received'[p] = received[p] \/ received'[p] = Absorb(received[p], news)
    BY <1>1
  <2> QED BY <2>1, <2>2
<1>2. ASSUME NEW q \in Participant, Deliver(q) PROVE ToSet(received[p]) \subseteq ToSet(received'[p])
  <2>1. PICK frame \in ToSet(mail[q]) : Applied(q, frame)
    BY <1>2, DeliveredApplies
  <2>2. frame \in SeatFrame
    BY <2>1 DEF ToSet
  <2>3. CASE ApplyBroadcast(q, frame)
    <3>1. frame.record \in Record
      BY <2>2, <2>3 DEF ApplyBroadcast, SeatFrame
    <3>2. <<frame.record>> \in Seq(Record)
      BY <3>1
    <3> QED BY <1>1, <2>3, <3>2 DEF ApplyBroadcast
  <2>4. CASE ApplyPage(q, frame)
    <3>1. frame.records \in Seq(Record)
      BY <2>2, <2>4 DEF ApplyPage, SeatFrame
    <3> QED BY <1>1, <2>4, <3>1 DEF ApplyPage
  <2> QED BY <2>1, <2>3, <2>4 DEF Applied, ApplySeatState, ApplyFault
<1>3. received' = received \/ \E q \in Participant : Deliver(q)
  BY DEF RoomNext, HostTick, Drain, Dispatch, RoomJoin, RoomLeave, RoomSubmit,
         RoomCatchUp, RoomFault, RoomEscape, OpenRoom, ClientJoin, ClientLeave, ClientSubmit, Resume,
         Call, Lose, clientVars, roomVars
<1> QED BY <1>2, <1>3

(* What a seat's door was given is behind its clock and was received, and  *)
(* stands in stamp order.                                                  *)
Behind(p) == {r \in ToSet(received[p]) : r.kind = "action" /\ r.tick < localTick[p]}

SimsInv ==
  /\ localTick \in [Participant -> Nat]
  /\ performed \in [Participant -> Seq(Record)]
  /\ \A p \in Participant : ToSet(performed[p]) \subseteq Behind(p) /\ InOrder(performed[p])

(* The actions of a run of ticks follow those of the ticks before.         *)
LEMMA RunContinues ==
  ASSUME TypeOK, StampsAscend, RoomTypeOK, ReceivedOnceFromLog, SimsInv,
         NEW p \in Participant, NEW last \in Nat, localTick[p] <= last, RunTicks(p, last)
  PROVE  SimsInv'
<1> DEFINE old == performed[p]
           new == InStampOrder(p, last)
<1>1. new \in Seq(Record) /\ ToSet(new) = Due(p, last) /\ InOrder(new)
  BY StampOrderOfDue
<1>2. old \in Seq(Record) /\ ToSet(old) \subseteq Behind(p) /\ InOrder(old)
  BY DEF SimsInv
<1>3. /\ localTick' = [localTick EXCEPT ![p] = last + 1]
      /\ performed' = [performed EXCEPT ![p] = old \o new]
      /\ received' = received
  BY DEF RunTicks, roomVars, clientVars
<1>4. localTick' \in [Participant -> Nat] /\ localTick[p] \in Nat
  BY <1>3 DEF SimsInv
<1> HIDE DEF old, new
<1>5. old \o new \in Seq(Record) /\ ToSet(old \o new) = ToSet(old) \cup ToSet(new)
  BY <1>1, <1>2, ConcatProperties, SetOfConcat
<1>6. \A r \in ToSet(received[p]) : r \in Record
  BY DEF RoomTypeOK, ToSet
<1>7. ToSet(old \o new) \subseteq {r \in ToSet(received[p]) : r.kind = "action" /\ r.tick < last + 1}
  <2>1. \A r \in ToSet(received[p]) : r.tick \in Nat
    BY <1>6 DEF Record
  <2>2. \A r \in ToSet(old) : r \in ToSet(received[p]) /\ r.kind = "action" /\ r.tick < last + 1
    BY <1>2, <1>4, <2>1 DEF Behind
  <2>3. \A r \in ToSet(new) : r \in ToSet(received[p]) /\ r.kind = "action" /\ r.tick < last + 1
    BY <1>1, <1>4, <2>1 DEF Due
  <2> QED BY <1>5, <2>2, <2>3
<1>8. InOrder(old \o new)
  <2> DEFINE m == Len(old)
             n == Len(new)
             all == old \o new
  <2>1. /\ m \in Nat /\ n \in Nat /\ DOMAIN old = 1..m /\ DOMAIN new = 1..n /\ DOMAIN all = 1..m + n
        /\ \A i \in 1..m : all[i] = old[i]
        /\ \A i \in m + 1..m + n : all[i] = new[i - m] /\ i - m \in 1..n
    BY <1>1, <1>2, ConcatProperties
  <2> HIDE DEF m, n, all
  <2> SUFFICES ASSUME NEW i \in 1..m + n, NEW j \in 1..m + n, i < j
               PROVE  StampBefore(all[i], all[j])
    BY <2>1 DEF InOrder, all
  <2>2. CASE j <= m
    BY <1>2, <2>1, <2>2 DEF InOrder
  <2>3. CASE i > m
    <3>1. i - m \in DOMAIN new /\ j - m \in DOMAIN new /\ i - m < j - m /\ all[i] = new[i - m] /\ all[j] = new[j - m]
      BY <2>1, <2>3
    <3> QED BY <1>1, <3>1 DEF InOrder
  <2>4. CASE i <= m /\ j > m
    <3>1. i \in DOMAIN old /\ j - m \in DOMAIN new /\ all[i] = old[i] /\ all[j] = new[j - m]
      BY <2>1, <2>4
    <3>2. all[i] \in ToSet(old) /\ all[j] \in ToSet(new)
      BY <3>1 DEF ToSet
    <3>3. all[i].tick < localTick[p] /\ all[j].tick \in localTick[p]..last /\ all[i] \in Record
      BY <1>1, <1>2, <1>6, <3>2 DEF Behind, Due
    <3>4. all[i].tick \in Nat
      BY <3>3 DEF Record
    <3> QED BY <1>4, <3>3, <3>4 DEF StampBefore
  <2> QED BY <2>1, <2>2, <2>3, <2>4
<1>9. performed' \in [Participant -> Seq(Record)]
  BY <1>3, <1>5 DEF SimsInv
<1>10. ASSUME NEW q \in Participant
       PROVE  ToSet(performed'[q]) \subseteq Behind(q)' /\ InOrder(performed'[q])
  <2>1. CASE q = p
    <3>1. performed'[q] = old \o new /\ localTick'[q] = last + 1
      BY <1>3, <2>1 DEF SimsInv
    <3> QED BY <1>3, <1>7, <1>8, <2>1, <3>1 DEF Behind
  <2>2. CASE q # p
    <3>1. performed'[q] = performed[q] /\ localTick'[q] = localTick[q]
      BY <1>3, <2>2 DEF SimsInv
    <3> QED BY <1>3, <3>1 DEF Behind, SimsInv
  <2> QED BY <2>1, <2>2
<1> QED BY <1>4, <1>9, <1>10 DEF SimsInv, InOrder

(* Every step of a room whose seats simulate is a step of the room or none. *)
LEMMA SimsRunTheRoom == SeatSimsSpec => RoomSpec
<1>1. [SeatSimsNext]_seatSimsVars => [RoomNext]_roomVars
  BY DEF SeatSimsNext, seatSimsVars, Pump, CatchUp, RunTicks
<1> QED BY <1>1, PTL DEF SeatSimsSpec, RoomSpec, SeatSimsInit

(* The doors stay behind the clocks of their seats.                        *)
LEMMA SimsInvAlways == SeatSimsSpec => []SimsInv
<1>1. SeatSimsInit => SimsInv
  <2> SUFFICES ASSUME SeatSimsInit PROVE SimsInv
    OBVIOUS
  <2>1. <<>> \in Seq(Record) /\ ToSet(<<>>) = {}
    BY DEF ToSet
  <2> QED BY <2>1 DEF SeatSimsInit, SimsInv, InOrder
<1>2. TypeOK /\ StampsAscend /\ RoomTypeOK /\ ReceivedOnceFromLog /\ SimsInv /\ [SeatSimsNext]_seatSimsVars => SimsInv'
  <2> SUFFICES ASSUME TypeOK, StampsAscend, RoomTypeOK, ReceivedOnceFromLog, SimsInv,
                      [SeatSimsNext]_seatSimsVars
               PROVE  SimsInv'
    OBVIOUS
  <2>1. CASE [RoomNext]_roomVars /\ UNCHANGED simsVars
    <3>1. \A p \in Participant : ToSet(received[p]) \subseteq ToSet(received'[p])
      BY <2>1, ReceivedGrows
    <3>2. localTick' = localTick /\ performed' = performed
      BY <2>1 DEF simsVars
    <3>3. \A p \in Participant : Behind(p) \subseteq Behind(p)'
      BY <3>1, <3>2 DEF Behind
    <3> QED BY <3>2, <3>3 DEF SimsInv, InOrder
  <2>2. ASSUME NEW p \in Participant, Pump(p) PROVE SimsInv'
    <3>1. localTick[p] \in Nat /\ localTick[p] <= localTick[p] /\ RunTicks(p, localTick[p])
      BY <2>2 DEF Pump, SimsInv
    <3> QED BY <3>1, RunContinues
  <2>3. ASSUME NEW p \in Participant, CatchUp(p) PROVE SimsInv'
    <3>1. localTick[p] \in Nat /\ known[p].lastStamp \in Stamp
      BY DEF SimsInv, RoomTypeOK
    <3>2. known[p].lastStamp.tick \in Nat /\ localTick[p] <= known[p].lastStamp.tick
          /\ RunTicks(p, known[p].lastStamp.tick)
      BY <2>3, <3>1 DEF CatchUp, Stamp
    <3> QED BY <3>2, RunContinues
  <2> QED BY <2>1, <2>2, <2>3 DEF SeatSimsNext, seatSimsVars
<1> QED BY <1>1, <1>2, SimsRunTheRoom, RoomRunsTheRelay, RoomTypeCorrect, ReceivedOnceFromLogAlways,
           TypeCorrect, StampsAscendAlways, PTL
        DEF SeatSimsSpec

(* Whatever the carriers do, the door of a seat is given the actions of    *)
(* the shared log at most once, in stamp order, each before the clock      *)
(* passes its tick (runner.ts, feedToDoor; timeline.ts,                    *)
(* orderCoopTimeline).                                                     *)
THEOREM PerformedOnceInOrderAlways == SeatSimsSpec => []PerformedOnceInOrder
<1>1. SimsInv /\ ReceivedOnceFromLog => PerformedOnceInOrder
  <2> SUFFICES ASSUME SimsInv, ReceivedOnceFromLog, NEW p \in Participant,
                      NEW i \in DOMAIN performed[p], NEW j \in DOMAIN performed[p]
               PROVE  /\ performed[p][i] \in ToSet(log)
                      /\ performed[p][i].tick < localTick[p]
                      /\ i < j => StampBefore(performed[p][i], performed[p][j])
    BY DEF PerformedOnceInOrder
  <2>1. performed[p][i] \in Behind(p)
    BY DEF SimsInv, ToSet
  <2>2. ToSet(received[p]) \subseteq ToSet(log)
    BY DEF ReceivedOnceFromLog, ToSet
  <2> QED BY <2>1, <2>2 DEF Behind, SimsInv, InOrder
<1> QED BY <1>1, SimsInvAlways, SimsRunTheRoom, ReceivedOnceFromLogAlways, PTL

(* Two seats that received the same records, each before its clock had     *)
(* passed them, executed the same actions in the same order, whatever the  *)
(* order in which the records arrived.                                     *)
THEOREM InTimeSeatsAgreeAlways == SeatSimsSpec => []InTimeSeatsAgree
<1>1. SimsInv => InTimeSeatsAgree
  <2> SUFFICES ASSUME SimsInv, NEW p \in Participant, NEW q \in Participant,
                      SameFeedAndClock(p, q), DeadFrames(p) = {}, DeadFrames(q) = {}
               PROVE  performed[p] = performed[q]
    BY DEF InTimeSeatsAgree
  <2> DEFINE s == performed[p]
             t == performed[q]
  <2>1. s \in Seq(Record) /\ t \in Seq(Record) /\ InOrder(s) /\ InOrder(t)
    BY DEF SimsInv
  <2>2. ToSet(s) = Behind(p) /\ ToSet(t) = Behind(q)
    BY DEF SimsInv, DeadFrames, Behind
  <2>3. Behind(p) = Behind(q)
    BY DEF SameFeedAndClock, Behind
  <2> HIDE DEF s, t
  <2>4. ToSet(s) = ToSet(t)
    BY <2>2, <2>3
  <2>5. Asymmetric(StampOrder, Record)
    <3> SUFFICES ASSUME NEW x \in Record, NEW y \in Record, StampBefore(x, y), StampBefore(y, x) PROVE FALSE
      BY DEF StampOrder, Asymmetric
    <3>1. x.tick \in Nat /\ x.seq \in Nat /\ y.tick \in Nat /\ y.seq \in Nat
      BY DEF Record
    <3> QED BY <3>1 DEF StampBefore
  <2>6. Ascends(s, StampOrder)
    BY <2>1, InOrderPairs DEF Ascends
  <2>7. Ascends(t, StampOrder)
    BY <2>1, InOrderPairs DEF Ascends
  <2>8. s \in Seq(Record) /\ t \in Seq(Record)
    BY <2>1
  <2>9. s = t
    BY <2>4, <2>5, <2>6, <2>7, <2>8, AscendingIsUnique
  <2> QED BY <2>9 DEF s, t
<1> QED BY <1>1, SimsInvAlways, PTL
=============================================================================
