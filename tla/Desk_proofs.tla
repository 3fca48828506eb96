----------------------------- MODULE Desk_proofs ----------------------------
(***************************************************************************)
(* Theorems about the host's desk.  The simulation that feeds on the relay *)
(* runs the relay, and what its door executes and refuses is the log, each *)
(* record once and in stamp order (invariant DeskInv).  At the intent door *)
(* tokens are lent once and held as long as was promised, drains end, and  *)
(* the feed stays a forest (invariant DoorInv).                            *)
(***************************************************************************)
EXTENDS HostSim, IntentDoor, CoopRelay_proofs

-----------------------------------------------------------------------------
(* A step of the host is a step of the relay it owns, or none.             *)
LEMMA SimStepIsRelayStep ==
  ASSUME currentTick \in Nat, [SimNext]_hostSimVars
  PROVE  [RelayNext]_relayVars
<1>1. CASE StepBegins
  <2>1. currentTick < MaxTick /\ AdvanceTo(currentTick + 1)
    BY <1>1 DEF StepBegins
  <2>2. currentTick + 1 \in 0..MaxTick
    BY <2>1, RelayAssumption
  <2> QED BY <2>1, <2>2 DEF RelayNext
<1>2. CASE Dispatch
  <2>1. CASE \E p \in Participant : HandleJoin(p) \/ HandleLeave(p)
    BY <2>1 DEF HandleJoin, HandleLeave, RelayNext
  <2>2. CASE \E p \in Participant, kind \in Kind, doorShaped \in BOOLEAN : HandleSubmit(p, kind, doorShaped)
    BY <2>2 DEF HandleSubmit, RelayNext
  <2>3. CASE RecordFault
    BY <2>3 DEF RecordFault
  <2> QED BY <1>2, <2>1, <2>2, <2>3 DEF Dispatch
<1>3. CASE DrainFails
  BY <1>3 DEF DrainFails, Escape
<1>4. CASE DrainBetweenSteps \/ StepEnds \/ FeedFails
  BY <1>4 DEF DrainBetweenSteps, StepEnds, FeedFails, hubVars
<1>5. ASSUME NEW frame \in Frames, Arrive(frame) PROVE UNCHANGED relayVars
  BY <1>5 DEF Arrive
<1>6. CASE UNCHANGED hostSimVars
  BY <1>6 DEF hostSimVars, hubVars
<1> QED BY <1>1, <1>2, <1>3, <1>4, <1>5, <1>6 DEF SimNext

(* The simulation and its failing steps leave the relay what it is         *)
(* (simLoop.ts, step).                                                     *)
THEOREM SimRunsTheRelay == SimSpec => RelaySpec
<1>1. SimInit => RelayInit /\ currentTick \in Nat
  BY DEF SimInit, HubInit, RelayInit
<1>2. currentTick \in Nat /\ [SimNext]_hostSimVars => [RelayNext]_relayVars
  BY SimStepIsRelayStep
<1>3. currentTick \in Nat /\ [RelayNext]_relayVars => (currentTick \in Nat)'
  <2> SUFFICES ASSUME currentTick \in Nat, [RelayNext]_relayVars PROVE currentTick' \in Nat
    OBVIOUS
  <2>1. ASSUME NEW t \in 0..MaxTick, AdvanceTo(t) PROVE currentTick' \in Nat
    BY <2>1 DEF AdvanceTo
  <2> QED BY <2>1 DEF RelayNext, JoinSeat, LeaveSeat, Submit, CatchUpPage, relayVars
<1> QED BY <1>1, <1>2, <1>3, PTL DEF SimSpec, RelaySpec

(* So the records the host feeds to its door were stamped in ascending     *)
(* slots, each inside a tenure of its author, whichever steps failed.      *)
THEOREM SimFeedsAttributedRecords == SimSpec => [](StampsAscend /\ AuthorsHeldTenure)
BY SimRunsTheRelay, StampsAscendAlways, AuthorsHeldTenureAlways, PTL

-----------------------------------------------------------------------------
(***************************************************************************)
(* What the door is fed.                                                   *)
(***************************************************************************)
Earlier == {pair \in Record \X Record : pair[1].seq < pair[2].seq}

InOrder(records) == \A i, j \in DOMAIN records : i < j => <<records[i], records[j]>> \in Earlier

(* Records by their stamps: the order of the log is that of its slots.     *)
LEMMA LogInOrder ==
  ASSUME TypeOK, StampsAscend
  PROVE  InOrder(log)
<1> SUFFICES ASSUME NEW i \in DOMAIN log, NEW j \in DOMAIN log, i < j
             PROVE  <<log[i], log[j]>> \in Earlier
  BY DEF InOrder
<1>1. log[i] \in Record /\ log[j] \in Record
  BY DEF TypeOK
<1>2. log[i].seq < log[j].seq
  BY DEF StampsAscend
<1> QED BY <1>1, <1>2 DEF Earlier

(* A sub-sequence of records in order is one.                              *)
LEMMA SelectedRecords ==
  ASSUME NEW records \in Seq(Record), InOrder(records), NEW keep
  PROVE  /\ Selected(records, keep) \in Seq(Record)
         /\ ToSet(Selected(records, keep)) = ToSet(records) \cap keep
         /\ InOrder(Selected(records, keep))
<1>1. \A i, j \in DOMAIN records : i < j => <<records[i], records[j]>> \in Earlier
  BY DEF InOrder
<1>2. LET sel == Selected(records, keep)
      IN  \A i, j \in DOMAIN sel : i < j => <<sel[i], sel[j]>> \in Earlier
  BY <1>1, SelectedInOrder
<1> QED BY <1>2, SelectedSet DEF InOrder

(* Records that are to follow others are appended in order.                *)
LEMMA AppendedInOrder ==
  ASSUME NEW s \in Seq(Record), NEW t \in Seq(Record), InOrder(s), InOrder(t), NEW cursor \in Int,
         \A i \in DOMAIN s : s[i].seq <= cursor,
         \A record \in ToSet(t) : cursor < record.seq
  PROVE  s \o t \in Seq(Record) /\ InOrder(s \o t)
<1> DEFINE n == Len(s)
           m == Len(t)
           u == s \o t
<1>1. /\ n \in Nat /\ m \in Nat /\ DOMAIN s = 1..n /\ DOMAIN t = 1..m /\ DOMAIN u = 1..n + m /\ u \in Seq(Record)
      /\ \A i \in 1..n + m : u[i] = IF i <= n THEN s[i] ELSE t[i - n]
      /\ \A i \in 1..n : s[i] \in Record
      /\ \A i \in 1..m : t[i] \in Record
  OBVIOUS
<1>2. \A i \in 1..m : cursor < t[i].seq
  BY <1>1 DEF ToSet
<1> HIDE DEF n, m, u
<1>3. ASSUME NEW i \in DOMAIN u, NEW j \in DOMAIN u, i < j PROVE <<u[i], u[j]>> \in Earlier
  <2>1. CASE j <= n
    <3>1. i \in DOMAIN s /\ j \in DOMAIN s /\ u[i] = s[i] /\ u[j] = s[j]
      BY <1>1, <1>3, <2>1
    <3> QED BY <1>3, <3>1 DEF InOrder
  <2>2. CASE i <= n /\ ~(j <= n)
    <3>1. i \in 1..n /\ j - n \in 1..m /\ u[i] = s[i] /\ u[j] = t[j - n]
      BY <1>1, <1>3, <2>2
    <3>2. u[i].seq <= cursor /\ cursor < u[j].seq /\ u[i] \in Record /\ u[j] \in Record
      BY <1>1, <1>2, <3>1
    <3>3. u[i].seq \in Nat /\ u[j].seq \in Nat
      BY <3>2 DEF Record
    <3> QED BY <3>2, <3>3 DEF Earlier
  <2>3. CASE ~(i <= n)
    <3>1. i - n \in DOMAIN t /\ j - n \in DOMAIN t /\ i - n < j - n /\ u[i] = t[i - n] /\ u[j] = t[j - n]
      BY <1>1, <1>3, <2>3
    <3> QED BY <3>1 DEF InOrder
  <2> QED BY <2>1, <2>2, <2>3
<1> QED BY <1>1, <1>3 DEF InOrder, u

(* The batch of a step: the records stamped past the cursor.               *)
LEMMA FreshRecords ==
  ASSUME TypeOK, StampsAscend
  PROVE  /\ Fresh \in Seq(Record) /\ InOrder(Fresh)
         /\ ToSet(Fresh) = {record \in ToSet(log) : record.seq > lastConsumedSeq}
<1>1. log \in Seq(Record) /\ InOrder(log)
  BY LogInOrder DEF TypeOK
<1> QED BY <1>1, SelectedRecords DEF Fresh

(* The cursor moves to the last stamp of the batch.                        *)
LEMMA CursorMoves ==
  ASSUME TypeOK, StampsAscend, lastConsumedSeq \in -1..(nextSeq - 1)
  PROVE  /\ CursorAfter(Fresh) \in -1..(nextSeq - 1)
         /\ lastConsumedSeq <= CursorAfter(Fresh)
         /\ \A record \in ToSet(Fresh) : record.seq <= CursorAfter(Fresh)
<1>1. /\ Fresh \in Seq(Record) /\ InOrder(Fresh)
      /\ ToSet(Fresh) = {record \in ToSet(log) : record.seq > lastConsumedSeq}
  BY FreshRecords
<1> DEFINE fresh == Fresh
           n == Len(fresh)
<1>2. n \in Nat /\ DOMAIN fresh = 1..n /\ fresh \in Seq(Record) /\ (n = 0 => fresh = <<>>)
  BY <1>1
<1>3. ToSet(fresh) \subseteq ToSet(log) /\ \A record \in ToSet(fresh) : record.seq > lastConsumedSeq
  BY <1>1
<1>4. InOrder(fresh)
  BY <1>1
<1> HIDE DEF fresh, n
<1>5. CASE n = 0
  <2>1. CursorAfter(fresh) = lastConsumedSeq /\ ToSet(fresh) = {}
    BY <1>2, <1>5 DEF CursorAfter, ToSet
  <2> QED BY <2>1, nextSeq \in Nat DEF TypeOK, fresh
<1>6. CASE n > 0
  <2>1. n \in 1..n /\ fresh # <<>>
    BY <1>2, <1>6
  <2>2. CursorAfter(fresh) = fresh[n].seq /\ fresh[n] \in Record /\ fresh[n] \in ToSet(fresh)
    BY <1>2, <2>1 DEF CursorAfter, ToSet, n
  <2>3. fresh[n].seq \in Nat /\ fresh[n].seq < nextSeq /\ fresh[n].seq > lastConsumedSeq
    <3>1. PICK i \in DOMAIN log : fresh[n] = log[i]
      BY <1>3, <2>2 DEF ToSet
    <3>2. log[i].seq < nextSeq
      BY DEF StampsAscend
    <3>3. fresh[n].seq \in Nat
      BY <2>2 DEF Record
    <3> QED BY <1>3, <2>2, <3>1, <3>2, <3>3
  <2>4. ASSUME NEW record \in ToSet(fresh) PROVE record.seq <= fresh[n].seq
    <3>1. PICK i \in 1..n : record = fresh[i]
      BY <1>2 DEF ToSet
    <3>2. CASE i = n
      BY <2>3, <3>1, <3>2
    <3>3. CASE i < n
      <4>1. <<fresh[i], fresh[n]>> \in Earlier
        BY <1>2, <1>4, <2>1, <3>3 DEF InOrder
      <4>2. fresh[i].seq < fresh[n].seq /\ fresh[i].seq \in Nat
        BY <4>1 DEF Earlier, Record
      <4> QED BY <2>3, <3>1, <4>2
    <3> QED BY <1>2, <3>2, <3>3
  <2>5. nextSeq \in Nat
    BY DEF TypeOK
  <2> QED BY <2>2, <2>3, <2>4, <2>5 DEF fresh
<1> QED BY <1>2, <1>5, <1>6

(* What the door is handed and what of it is due.                          *)
LEMMA DoorRecords ==
  ASSUME TypeOK, StampsAscend
  PROVE  /\ Feed \in Seq(Record)
         /\ ToSet(Feed) = {record \in ToSet(log) : record.seq > lastConsumedSeq /\ IsAction(record)}
         /\ Selected(Feed, Due) \in Seq(Record) /\ InOrder(Selected(Feed, Due))
         /\ ToSet(Selected(Feed, Due)) = {record \in ToSet(Feed) : record.tick <= simTick + 1}
         /\ Selected(Feed, ToSet(Feed) \ Due) \in Seq(Record)
         /\ ToSet(Feed) = Due => Selected(Feed, ToSet(Feed) \ Due) = <<>>
<1>1. /\ Fresh \in Seq(Record) /\ InOrder(Fresh)
      /\ ToSet(Fresh) = {record \in ToSet(log) : record.seq > lastConsumedSeq}
  BY FreshRecords
<1>2. /\ Feed \in Seq(Record) /\ InOrder(Feed)
      /\ ToSet(Feed) = ToSet(Fresh) \cap {record \in ToSet(Fresh) : IsAction(record)}
  BY <1>1, SelectedRecords DEF Feed
<1>3. ToSet(Feed) = {record \in ToSet(log) : record.seq > lastConsumedSeq /\ IsAction(record)}
  BY <1>1, <1>2
<1>4. /\ Selected(Feed, Due) \in Seq(Record) /\ InOrder(Selected(Feed, Due))
      /\ ToSet(Selected(Feed, Due)) = ToSet(Feed) \cap Due
  BY <1>2, SelectedRecords
<1>5. Selected(Feed, ToSet(Feed) \ Due) \in Seq(Record)
  BY <1>2, SelectedRecords
<1>6. ToSet(Feed) = Due => Selected(Feed, ToSet(Feed) \ Due) = <<>>
  <2>1. ToSet(Feed) = Due => ToSet(Feed) \cap (ToSet(Feed) \ Due) = {}
    OBVIOUS
  <2> QED BY <1>2, <2>1, NothingSelected
<1>7. ToSet(Feed) \cap Due = {record \in ToSet(Feed) : record.tick <= simTick + 1}
  BY DEF Due
<1> QED BY <1>2, <1>3, <1>4, <1>5, <1>6, <1>7

-----------------------------------------------------------------------------
(***************************************************************************)
(* The lists of the door.  A step that fails after the clock advanced      *)
(* leaves the simulation behind for good: the skew never shrinks, and      *)
(* while it is zero every step fed all its records to a door they were due *)
(* at.                                                                     *)
(***************************************************************************)
DeskInv ==
  /\ executed \in Seq(Record) /\ refused \in Seq(Record)
  /\ lastConsumedSeq \in -1..(nextSeq - 1)
  /\ simTick \in Nat /\ stepping \in BOOLEAN
  /\ simTick + (IF stepping THEN 1 ELSE 0) <= currentTick
  /\ InOrder(executed)
  /\ ToSet(executed) \subseteq ToSet(log)
  /\ \A i \in DOMAIN executed : executed[i].seq <= lastConsumedSeq
  /\ Skew = 0 =>
       /\ refused = <<>>
       /\ \A i \in DOMAIN log :
            log[i].kind = "action" /\ log[i].seq <= lastConsumedSeq => log[i] \in ToSet(executed)

(* The range of the cursor widens with the seq stream.                     *)
LEMMA Widened ==
  ASSUME NEW n \in Nat, NEW m, m = n \/ m = n + 1, NEW c \in -1..(n - 1)
  PROVE  c \in -1..(m - 1)
OBVIOUS

(* A step of the relay alone: the log grows behind the cursor.             *)
LEMMA RelayKeepsDoor ==
  ASSUME TypeOK, TypeOK', StampsAscend, DeskInv, [RelayNext]_relayVars,
         UNCHANGED <<simTick, lastConsumedSeq, executed, refused>>, stepping' \in BOOLEAN,
         stepping' => stepping, currentTick' = currentTick
  PROVE  DeskInv'
<1> USE DEF TypeOK
<1>1. \/ log' = log /\ nextSeq' = nextSeq
      \/ \E record \in Record : log' = Append(log, record) /\ record.seq = nextSeq /\ nextSeq' = nextSeq + 1
  <2>1. ASSUME NEW p \in Participant, NEW kind \in Kind, NEW doorShaped \in BOOLEAN, Submit(p, kind, doorShaped)
        PROVE  \E record \in Record : log' = Append(log, record) /\ record.seq = nextSeq /\ nextSeq' = nextSeq + 1
    <3>1. [participantId |-> p, tick |-> currentTick, seq |-> nextSeq, kind |-> kind] \in Record
      BY DEF Record
    <3> QED BY <2>1, <3>1 DEF Submit
  <2> QED BY <2>1 DEF RelayNext, AdvanceTo, JoinSeat, LeaveSeat, CatchUpPage, relayVars
<1>2. /\ ToSet(log) \subseteq ToSet(log')
      /\ \A i \in DOMAIN log' : log'[i].seq <= lastConsumedSeq => i \in DOMAIN log /\ log'[i] = log[i]
  <2>1. CASE log' = log
    BY <2>1
  <2>2. ASSUME NEW record \in Record, log' = Append(log, record), record.seq = nextSeq
        PROVE  /\ ToSet(log) \subseteq ToSet(log')
               /\ \A i \in DOMAIN log' : log'[i].seq <= lastConsumedSeq => i \in DOMAIN log /\ log'[i] = log[i]
    <3>1. /\ Len(log') = Len(log) + 1 /\ Len(log) \in Nat /\ DOMAIN log = 1..Len(log) /\ DOMAIN log' = 1..Len(log')
          /\ \A i \in DOMAIN log : log'[i] = log[i]
          /\ log'[Len(log) + 1] = record
      BY <2>2, AppendProperties
    <3>2. \A i \in DOMAIN log' : i \in DOMAIN log \/ i = Len(log) + 1
      BY <3>1
    <3>3. ~(record.seq <= lastConsumedSeq)
      BY <2>2 DEF DeskInv
    <3>4. \A i \in DOMAIN log : i \in DOMAIN log'
      BY <3>1
    <3> QED BY <3>1, <3>2, <3>3, <3>4 DEF ToSet
  <2> QED BY <1>1, <2>1, <2>2
<1>3. lastConsumedSeq' \in -1..(nextSeq' - 1)
  <2>1. nextSeq' = nextSeq \/ nextSeq' = nextSeq + 1
    BY <1>1
  <2>2. lastConsumedSeq \in -1..(nextSeq - 1) /\ lastConsumedSeq' = lastConsumedSeq /\ nextSeq \in Nat
    BY DEF DeskInv
  <2> QED BY <2>1, <2>2, Widened
<1>4. /\ simTick + (IF stepping' THEN 1 ELSE 0) <= currentTick
      /\ Skew' = 0 => Skew = 0
  BY DEF Skew, DeskInv
<1>5. /\ executed' \in Seq(Record) /\ refused' \in Seq(Record) /\ simTick' \in Nat
      /\ InOrder(executed') /\ ToSet(executed') \subseteq ToSet(log')
      /\ \A i \in DOMAIN executed' : executed'[i].seq <= lastConsumedSeq'
  BY <1>2 DEF DeskInv
<1>6. Skew' = 0 => /\ refused' = <<>>
                   /\ \A i \in DOMAIN log' :
                        log'[i].kind = "action" /\ log'[i].seq <= lastConsumedSeq' => log'[i] \in ToSet(executed')
  BY <1>2, <1>4 DEF DeskInv
<1> QED BY <1>3, <1>4, <1>5, <1>6 DEF DeskInv

(* A step that ends hands the door what is new and due.                    *)
LEMMA StepEndsKeepsDoor ==
  ASSUME TypeOK, StampsAscend, DeskInv, StepEnds
  PROVE  DeskInv'
<1>1. /\ stepping /\ stepping' = FALSE /\ simTick' = simTick + 1 /\ currentTick' = currentTick
      /\ log' = log /\ nextSeq' = nextSeq /\ lastConsumedSeq' = CursorAfter(Fresh)
      /\ executed' = executed \o Selected(Feed, Due)
      /\ refused' = refused \o Selected(Feed, ToSet(Feed) \ Due)
      /\ \A i \in DOMAIN Feed : Feed[i].kind # "garbled"
  BY DEF StepEnds, hubVars, relayVars
<1>2. /\ CursorAfter(Fresh) \in -1..(nextSeq - 1)
      /\ lastConsumedSeq <= CursorAfter(Fresh)
      /\ \A record \in ToSet(Fresh) : record.seq <= CursorAfter(Fresh)
  BY CursorMoves DEF DeskInv
<1>3. ToSet(Fresh) = {record \in ToSet(log) : record.seq > lastConsumedSeq}
  BY FreshRecords
<1> DEFINE due == Selected(Feed, Due)
           late == Selected(Feed, ToSet(Feed) \ Due)
           cursor == CursorAfter(Fresh)
<1>4. /\ due \in Seq(Record) /\ InOrder(due) /\ late \in Seq(Record)
      /\ ToSet(due) = {record \in ToSet(Feed) : record.tick <= simTick + 1}
      /\ ToSet(Feed) = {record \in ToSet(log) : record.seq > lastConsumedSeq /\ IsAction(record)}
      /\ ToSet(Feed) = Due => late = <<>>
  BY DoorRecords
<1>5. executed' = executed \o due /\ refused' = refused \o late /\ lastConsumedSeq' = cursor
  BY <1>1
<1>6. /\ cursor \in -1..(nextSeq - 1) /\ lastConsumedSeq <= cursor
      /\ \A record \in ToSet(log) : record.seq > lastConsumedSeq => record.seq <= cursor
  BY <1>2, <1>3
<1> HIDE DEF due, late, cursor
<1>7. executed' \in Seq(Record) /\ InOrder(executed')
  <2>1. \A record \in ToSet(due) : lastConsumedSeq < record.seq
    BY <1>4 DEF DeskInv
  <2>2. /\ executed \in Seq(Record) /\ InOrder(executed) /\ lastConsumedSeq \in Int
        /\ \A i \in DOMAIN executed : executed[i].seq <= lastConsumedSeq
    BY DEF DeskInv
  <2> QED BY <1>4, <1>5, <2>1, <2>2, AppendedInOrder
<1>8. ToSet(executed') = ToSet(executed) \cup ToSet(due) /\ executed \in Seq(Record)
  <2>1. executed \in Seq(Record)
    BY DEF DeskInv
  <2> QED BY <1>4, <1>5, <2>1, SetOfConcat
<1>9. ToSet(executed') \subseteq ToSet(log')
  BY <1>1, <1>4, <1>8 DEF DeskInv
<1>10. \A i \in DOMAIN executed' : executed'[i].seq <= lastConsumedSeq'
  <2> SUFFICES ASSUME NEW i \in DOMAIN executed' PROVE executed'[i].seq <= cursor
    BY <1>5
  <2>1. executed'[i] \in ToSet(executed')
    BY DEF ToSet
  <2>2. CASE executed'[i] \in ToSet(executed)
    <3>1. PICK k \in DOMAIN executed : executed'[i] = executed[k]
      BY <2>2 DEF ToSet
    <3>2. executed[k].seq <= lastConsumedSeq /\ executed[k] \in Record /\ lastConsumedSeq \in Int
      BY <1>8 DEF DeskInv
    <3>3. executed[k].seq \in Nat /\ cursor \in Int
      BY <1>6, <3>2 DEF Record, TypeOK
    <3> QED BY <1>6, <3>1, <3>2, <3>3
  <2>3. CASE executed'[i] \in ToSet(due)
    BY <1>4, <1>6, <2>3
  <2> QED BY <1>8, <2>1, <2>2, <2>3
<1>11. refused' \in Seq(Record)
  BY <1>4, <1>5 DEF DeskInv
<1>12. /\ lastConsumedSeq' \in -1..(nextSeq' - 1) /\ simTick' \in Nat /\ stepping' \in BOOLEAN
       /\ simTick' + (IF stepping' THEN 1 ELSE 0) <= currentTick'
  <2>1. simTick \in Nat /\ simTick + 1 <= currentTick /\ currentTick \in Nat
    BY <1>1 DEF DeskInv, TypeOK
  <2>2. /\ simTick' \in Nat /\ stepping' = FALSE /\ simTick' <= currentTick'
        /\ (IF stepping' THEN 1 ELSE 0) = 0
    BY <1>1, <2>1
  <2>4. simTick' + (IF stepping' THEN 1 ELSE 0) <= currentTick'
    BY <2>2
  <2>3. lastConsumedSeq' \in -1..(nextSeq' - 1) /\ stepping' \in BOOLEAN
    BY <1>1, <1>5, <1>6
  <2> QED BY <2>2, <2>3, <2>4
<1>13. ASSUME Skew' = 0
       PROVE  /\ refused' = <<>>
              /\ \A i \in DOMAIN log' :
                   log'[i].kind = "action" /\ log'[i].seq <= lastConsumedSeq' => log'[i] \in ToSet(executed')
  <2>1. Skew = 0 /\ currentTick = simTick + 1
    BY <1>1, <1>13 DEF Skew, DeskInv, TypeOK
  <2>2. \A record \in ToSet(log) : record.tick <= simTick + 1
    <3> SUFFICES ASSUME NEW i \in DOMAIN log PROVE log[i].tick <= simTick + 1
      BY DEF ToSet
    <3> QED BY <2>1 DEF StampsAscend
  <2>3. ToSet(due) = ToSet(Feed)
    BY <1>4, <2>2
  <2>4. Due = ToSet(Feed)
    BY <1>4, <2>2 DEF Due
  <2>5. late = <<>> /\ refused = <<>> /\ refused' = refused \o late
    BY <1>4, <1>5, <2>1, <2>4 DEF DeskInv
  <2>6. refused' = <<>>
    BY <2>5
  <2>7. ASSUME NEW i \in DOMAIN log, log[i].kind = "action", log[i].seq <= cursor PROVE log[i] \in ToSet(executed')
    <3>1. CASE log[i].seq <= lastConsumedSeq
      BY <1>8, <2>1, <2>7, <3>1 DEF DeskInv
    <3>2. CASE log[i].seq > lastConsumedSeq
      <4>1. log[i] \in ToSet(Feed)
        BY <1>4, <2>7, <3>2 DEF IsAction, ToSet
      <4> QED BY <1>8, <2>3, <4>1
    <3>3. log[i].seq \in Nat /\ lastConsumedSeq \in Int
      <4>1. log[i] \in Record
        BY DEF TypeOK
      <4> QED BY <4>1 DEF DeskInv, Record
    <3> QED BY <3>1, <3>2, <3>3
  <2> QED BY <1>1, <1>5, <2>6, <2>7
<1> QED BY <1>7, <1>9, <1>10, <1>11, <1>12, <1>13 DEF DeskInv

(* A step the door fails moves the cursor and leaves the simulation behind.*)
LEMMA FeedFailsKeepsDoor ==
  ASSUME TypeOK, StampsAscend, DeskInv, FeedFails
  PROVE  DeskInv'
<1>1. /\ stepping /\ stepping' = FALSE /\ simTick' = simTick /\ currentTick' = currentTick
      /\ log' = log /\ nextSeq' = nextSeq /\ lastConsumedSeq' = CursorAfter(Fresh)
      /\ executed' = executed /\ refused' = refused
  BY DEF FeedFails, hubVars, relayVars
<1>2. CursorAfter(Fresh) \in -1..(nextSeq - 1) /\ lastConsumedSeq <= CursorAfter(Fresh)
  BY CursorMoves DEF DeskInv
<1> DEFINE cursor == CursorAfter(Fresh)
<1>3. cursor \in -1..(nextSeq - 1) /\ lastConsumedSeq <= cursor /\ lastConsumedSeq' = cursor
  BY <1>1, <1>2
<1> HIDE DEF cursor
<1>4. \A i \in DOMAIN executed' : executed'[i].seq <= lastConsumedSeq'
  <2> SUFFICES ASSUME NEW i \in DOMAIN executed PROVE executed[i].seq <= cursor
    BY <1>1, <1>3
  <2>1. executed[i].seq \in Nat /\ executed[i].seq <= lastConsumedSeq /\ lastConsumedSeq \in Int /\ cursor \in Int
    <3>1. executed[i] \in Record /\ executed[i].seq <= lastConsumedSeq /\ nextSeq \in Nat
      BY DEF DeskInv, TypeOK
    <3> QED BY <1>3, <3>1 DEF DeskInv, Record
  <2> QED BY <1>3, <2>1
<1>5. Skew' # 0
  BY <1>1 DEF Skew, DeskInv, TypeOK
<1>6. /\ lastConsumedSeq' \in -1..(nextSeq' - 1) /\ simTick' \in Nat /\ stepping' \in BOOLEAN
      /\ simTick' + (IF stepping' THEN 1 ELSE 0) <= currentTick'
  <2>1. simTick \in Nat /\ simTick + 1 <= currentTick /\ currentTick \in Nat
    BY <1>1 DEF DeskInv, TypeOK
  <2>2. /\ simTick' \in Nat /\ stepping' = FALSE /\ simTick' <= currentTick'
        /\ (IF stepping' THEN 1 ELSE 0) = 0
    BY <1>1, <2>1
  <2>4. simTick' + (IF stepping' THEN 1 ELSE 0) <= currentTick'
    BY <2>2
  <2>3. lastConsumedSeq' \in -1..(nextSeq' - 1) /\ stepping' \in BOOLEAN
    BY <1>1, <1>3
  <2> QED BY <2>2, <2>3, <2>4
<1>7. /\ executed' \in Seq(Record) /\ refused' \in Seq(Record) /\ InOrder(executed')
      /\ ToSet(executed') \subseteq ToSet(log')
  BY <1>1 DEF DeskInv
<1> QED BY <1>4, <1>5, <1>6, <1>7 DEF DeskInv

(* DeskInv is inductive next to the invariants of the relay.               *)
LEMMA DeskInvAlways == SimSpec => []DeskInv
<1>1. SimInit => DeskInv
  <2> SUFFICES ASSUME SimInit PROVE DeskInv
    OBVIOUS
  <2>1. /\ executed = <<>> /\ refused = <<>> /\ simTick = 0 /\ lastConsumedSeq = -1 /\ stepping = FALSE
        /\ currentTick = 0 /\ nextSeq = 0 /\ log = <<>>
    BY DEF SimInit, HubInit, RelayInit
  <2>2. executed \in Seq(Record) /\ refused \in Seq(Record) /\ DOMAIN executed = {} /\ DOMAIN log = {}
    BY <2>1
  <2>3. ToSet(executed) = {}
    BY <2>2 DEF ToSet
  <2>4. lastConsumedSeq \in -1..(nextSeq - 1) /\ simTick + (IF stepping THEN 1 ELSE 0) <= currentTick
    BY <2>1
  <2> QED BY <2>1, <2>2, <2>3, <2>4 DEF DeskInv, InOrder
<1>2. TypeOK /\ TypeOK' /\ StampsAscend /\ [RelayNext]_relayVars /\ DeskInv /\ [SimNext]_hostSimVars => DeskInv'
  <2> SUFFICES ASSUME TypeOK, TypeOK', StampsAscend, [RelayNext]_relayVars, DeskInv, [SimNext]_hostSimVars
               PROVE  DeskInv'
    OBVIOUS
  <2>1. stepping \in BOOLEAN
    BY DEF DeskInv
  <2>2. CASE UNCHANGED <<simTick, lastConsumedSeq, executed, refused, stepping, currentTick>>
    BY <2>1, <2>2, RelayKeepsDoor
  <2>3. CASE StepBegins
    <3>1. /\ ~stepping /\ stepping' = TRUE /\ currentTick' = currentTick + 1 /\ nextSeq' = nextSeq /\ log' = log
          /\ simTick' = simTick /\ lastConsumedSeq' = lastConsumedSeq /\ executed' = executed /\ refused' = refused
      BY <2>3 DEF StepBegins, AdvanceTo
    <3>2. Skew' = Skew
      BY <3>1 DEF Skew, TypeOK, DeskInv
    <3> QED BY <3>1, <3>2 DEF DeskInv, TypeOK
  <2>4. CASE Dispatch
    <3>1. UNCHANGED <<simTick, lastConsumedSeq, executed, refused, stepping, currentTick>>
      BY <2>4 DEF Dispatch, simVars, HandleJoin, HandleLeave, HandleSubmit, RecordFault, JoinSeat, LeaveSeat,
                  Submit, relayVars
    <3> QED BY <2>2, <3>1
  <2>5. CASE DrainFails
    <3>1. UNCHANGED <<simTick, lastConsumedSeq, executed, refused, currentTick>> /\ stepping' = FALSE
      BY <2>5 DEF DrainFails, Escape, relayVars
    <3> QED BY <3>1, RelayKeepsDoor
  <2>6. CASE StepEnds
    BY <2>6, StepEndsKeepsDoor
  <2>7. CASE FeedFails
    BY <2>7, FeedFailsKeepsDoor
  <2>8. ASSUME NEW frame \in Frames, Arrive(frame) PROVE DeskInv'
    BY <2>2, <2>8 DEF Arrive, simVars, relayVars
  <2>9. CASE DrainBetweenSteps
    BY <2>2, <2>9 DEF DrainBetweenSteps, simVars, relayVars
  <2>10. CASE UNCHANGED hostSimVars
    BY <2>2, <2>10 DEF hostSimVars, hubVars, simVars, relayVars
  <2> QED BY <2>3, <2>4, <2>5, <2>6, <2>7, <2>8, <2>9, <2>10 DEF SimNext
<1> QED BY <1>1, <1>2, SimRunsTheRelay, TypeCorrect, StampsAscendAlways, PTL DEF SimSpec, RelaySpec

(* The lists, the ticks and the cursor of the host stay in their types     *)
(* (simLoop.ts, step).                                                     *)
THEOREM SimTypeCorrect == SimSpec => []SimTypeOK
<1>1. TypeOK /\ DeskInv => SimTypeOK
  <2> SUFFICES ASSUME TypeOK, DeskInv PROVE SimTypeOK
    OBVIOUS
  <2>1. simTick \in 0..currentTick
    BY DEF TypeOK, DeskInv
  <2> QED BY <2>1 DEF DeskInv, SimTypeOK
<1> QED BY <1>1, DeskInvAlways, SimRunsTheRelay, TypeCorrect, PTL

(* Whatever is drained inside or between the steps and whichever steps     *)
(* fail, the door sees each record at most once, in stamp order; as long   *)
(* as none failed it saw each action behind the cursor, and refused none   *)
(* (simLoop.ts, step; intent-door.ts, advance).                            *)
THEOREM FedExactlyOnceInOrderAlways == SimSpec => []FedExactlyOnceInOrder
<1>1. DeskInv => FedExactlyOnceInOrder
  <2> SUFFICES ASSUME DeskInv PROVE FedExactlyOnceInOrder
    OBVIOUS
  <2>1. \A i, j \in DOMAIN executed : i < j => executed[i].seq < executed[j].seq
    BY DEF DeskInv, InOrder, Earlier
  <2>2. \A i \in DOMAIN executed : executed[i] \in ToSet(log) /\ executed[i].seq <= lastConsumedSeq
    BY DEF DeskInv, ToSet
  <2>3. Skew = 0 =>
          /\ refused = <<>>
          /\ \A i \in DOMAIN log :
               log[i].kind = "action" /\ log[i].seq <= lastConsumedSeq => log[i] \in ToSet(executed)
    BY DEF DeskInv
  <2> QED BY <2>1, <2>2, <2>3 DEF FedExactlyOnceInOrder
<1> QED BY <1>1, DeskInvAlways, PTL

-----------------------------------------------------------------------------
(***************************************************************************)
(* The first elements of a set of numbers.                                 *)
(***************************************************************************)
UpTo(S, i) == {j \in S : j <= i}

First(S, n) == {i \in S : Cardinality(UpTo(S, i)) <= n}

(* What is below an element is finite, and more is below a greater one.    *)
LEMMA UpToGrows ==
  ASSUME NEW S, S \subseteq Nat, IsFiniteSet(S), NEW i \in S
  PROVE  /\ IsFiniteSet(UpTo(S, i)) /\ Cardinality(UpTo(S, i)) \in Nat
         /\ \A k \in S : k <= i => /\ UpTo(S, k) \subseteq UpTo(S, i)
                                  /\ Cardinality(UpTo(S, k)) <= Cardinality(UpTo(S, i))
<1>1. UpTo(S, i) \subseteq S
  BY DEF UpTo
<1>2. IsFiniteSet(UpTo(S, i))
  BY <1>1, FS_Subset
<1>3. ASSUME NEW k \in S, k <= i PROVE UpTo(S, k) \subseteq UpTo(S, i)
  <2>1. \A j \in S : j <= k => j <= i
    BY <1>3
  <2> QED BY <2>1 DEF UpTo
<1> QED BY <1>2, <1>3, FS_Subset, FS_CardinalityType

(* Up to the least element of the rest there is what is not in the rest.   *)
LEMMA LeastOfRest ==
  ASSUME NEW S, S \subseteq Nat, NEW T, T \subseteq S, NEW m \in S, m \notin T,
         \A j \in S : j \notin T => m <= j,
         \A i \in T, k \in S : k <= i => k \in T
  PROVE  /\ UpTo(S, m) = T \cup {m}
         /\ \A i \in S : i \notin T /\ i # m => m <= i /\ UpTo(S, m) \cup {i} \subseteq UpTo(S, i) /\ i \notin UpTo(S, m)
<1>1. \A i \in T : i <= m
  OBVIOUS
<1>2. \A j \in S : j <= m <=> j \in T \/ j = m
  BY <1>1
<1>3. UpTo(S, m) = T \cup {m}
  BY <1>2 DEF UpTo
<1>4. ASSUME NEW i \in S, i \notin T, i # m
      PROVE  m <= i /\ UpTo(S, m) \cup {i} \subseteq UpTo(S, i) /\ i \notin UpTo(S, m)
  <2>1. m <= i /\ \A j \in S : j <= m => j <= i
    BY <1>4
  <2>2. UpTo(S, m) \cup {i} \subseteq UpTo(S, i)
    <3>1. i <= i
      OBVIOUS
    <3> QED BY <2>1, <3>1 DEF UpTo
  <2> QED BY <1>3, <1>4, <2>1, <2>2
<1> QED BY <1>3, <1>4

(* One more first element is the least of the rest.                        *)
LEMMA OneMoreFirst ==
  ASSUME NEW S, S \subseteq Nat, IsFiniteSet(S), NEW n \in Nat, n + 1 <= Cardinality(S),
         Cardinality(First(S, n)) = n
  PROVE  Cardinality(First(S, n + 1)) = n + 1
<1> DEFINE T == First(S, n)
           Rest == S \ T
<1>1. T \subseteq S /\ IsFiniteSet(T) /\ Cardinality(T) = n
  <2>1. T \subseteq S
    BY DEF First
  <2> QED BY <2>1, FS_Subset
<1>2. Rest \in SUBSET Nat /\ Rest # {}
  <2>1. CASE Rest = {}
    <3>1. S = T
      BY <1>1, <2>1
    <3> QED BY <1>1, <3>1
  <2> QED BY <2>1
<1>3. PICK m \in Rest : \A j \in Rest : m <= j
  <2> HIDE DEF Rest
  <2> QED BY <1>2, LeastNatural
<1>4. m \in S /\ m \notin T
  OBVIOUS
<1>5. \A i \in T, k \in S : k <= i => k \in T
  <2> SUFFICES ASSUME NEW i \in T, NEW k \in S, k <= i PROVE Cardinality(UpTo(S, k)) <= n
    BY DEF First
  <2>1. i \in S /\ Cardinality(UpTo(S, i)) <= n
    BY DEF First
  <2>2. /\ Cardinality(UpTo(S, k)) \in Nat /\ Cardinality(UpTo(S, i)) \in Nat
        /\ Cardinality(UpTo(S, k)) <= Cardinality(UpTo(S, i))
    BY <2>1, UpToGrows
  <2> QED BY <2>1, <2>2
<1>6. \A j \in S : j \notin T => m <= j
  BY <1>3
<1> HIDE DEF T, Rest
<1>7. /\ UpTo(S, m) = T \cup {m}
      /\ \A i \in S : i \notin T /\ i # m => m <= i /\ UpTo(S, m) \cup {i} \subseteq UpTo(S, i) /\ i \notin UpTo(S, m)
  BY <1>1, <1>4, <1>5, <1>6, LeastOfRest
<1>8. Cardinality(UpTo(S, m)) = n + 1
  BY <1>1, <1>4, <1>7, FS_AddElement
<1>9. ASSUME NEW i \in S, i \notin T, i # m PROVE ~(Cardinality(UpTo(S, i)) <= n + 1)
  <2>1. UpTo(S, m) \cup {i} \subseteq UpTo(S, i) /\ i \notin UpTo(S, m)
    BY <1>7, <1>9
  <2>2. /\ IsFiniteSet(UpTo(S, m)) /\ IsFiniteSet(UpTo(S, i)) /\ Cardinality(UpTo(S, i)) \in Nat
    BY <1>4, UpToGrows
  <2>3. Cardinality(UpTo(S, m) \cup {i}) = n + 1 + 1
    BY <1>8, <2>1, <2>2, FS_AddElement
  <2>4. Cardinality(UpTo(S, m) \cup {i}) <= Cardinality(UpTo(S, i))
    BY <2>1, <2>2, FS_Subset
  <2> QED BY <2>2, <2>3, <2>4
<1>10. \A i \in T : i \in S /\ Cardinality(UpTo(S, i)) <= n + 1
  <2> SUFFICES ASSUME NEW i \in T PROVE i \in S /\ Cardinality(UpTo(S, i)) <= n + 1
    OBVIOUS
  <2>1. i \in S /\ Cardinality(UpTo(S, i)) <= n
    BY DEF T, First
  <2>2. Cardinality(UpTo(S, i)) \in Nat
    BY <2>1, UpToGrows
  <2> QED BY <2>1, <2>2
<1>11. First(S, n + 1) = T \cup {m}
  <2>1. n + 1 <= n + 1
    OBVIOUS
  <2>2. \A i \in S : Cardinality(UpTo(S, i)) <= n + 1 <=> i \in T \/ i = m
    BY <1>4, <1>8, <1>9, <1>10, <2>1
  <2> QED BY <1>1, <1>4, <2>2 DEF First
<1>12. Cardinality(T \cup {m}) = n + 1
  BY <1>1, <1>4, FS_AddElement
<1> QED BY <1>11, <1>12

(* A set with enough elements has as many first ones as are asked for.     *)
LEMMA FirstCount ==
  ASSUME NEW S, S \subseteq Nat, IsFiniteSet(S), NEW n \in Nat, n <= Cardinality(S)
  PROVE  Cardinality(First(S, n)) = n
<1> DEFINE Counted == {k \in Nat : k <= Cardinality(S) => Cardinality(First(S, k)) = k}
<1>0. Cardinality(S) \in Nat
  BY FS_CardinalityType
<1>1. 0 \in Counted
  <2>1. ASSUME NEW i \in S PROVE ~(Cardinality(UpTo(S, i)) <= 0)
    <3>1. UpTo(S, i) \subseteq S /\ i \in UpTo(S, i)
      BY DEF UpTo
    <3>2. IsFiniteSet(UpTo(S, i))
      BY <3>1, FS_Subset
    <3>3. Cardinality(UpTo(S, i)) \in Nat /\ Cardinality(UpTo(S, i)) # 0
      BY <3>1, <3>2, FS_CardinalityType, FS_EmptySet
    <3> QED BY <3>3
  <2>2. First(S, 0) = {}
    BY <2>1 DEF First
  <2> QED BY <2>2, FS_EmptySet
<1>2. ASSUME NEW k \in Nat, k \in Counted PROVE k + 1 \in Counted
  <2> SUFFICES ASSUME k + 1 <= Cardinality(S) PROVE Cardinality(First(S, k + 1)) = k + 1
    OBVIOUS
  <2>1. Cardinality(First(S, k)) = k
    BY <1>0, <1>2
  <2> QED BY <2>1, OneMoreFirst
<1> HIDE DEF Counted
<1>3. n \in Counted
  BY <1>1, <1>2, SetInduction
<1> QED BY <1>3 DEF Counted

-----------------------------------------------------------------------------
(***************************************************************************)
(* Tokens of either denomination.                                          *)
(***************************************************************************)
Causes == {NoCause} \cup {DrainOf(c) : c \in Cable} \cup {Intent(n) : n \in Nat}

Token == [until : Nat, cause : Causes]

HeldBy(tokens, until, cause) == {i \in DOMAIN tokens : tokens[i] = [until |-> until, cause |-> cause]}

(* The sweep keeps every token's place and time, and frees those whose     *)
(* time is up.                                                             *)
LEMMA SweepTypes ==
  ASSUME doorTick \in Nat, NEW tokens \in Seq(Token)
  PROVE  /\ Sweep(tokens) \in Seq(Token) /\ Len(Sweep(tokens)) = Len(tokens)
         /\ DOMAIN Sweep(tokens) = DOMAIN tokens
         /\ \A i \in DOMAIN tokens :
              /\ Sweep(tokens)[i].until = tokens[i].until
              /\ Sweep(tokens)[i] = tokens[i] \/ (tokens[i].until <= doorTick /\ Sweep(tokens)[i].cause = NoCause)
              /\ tokens[i].until <= doorTick => Sweep(tokens)[i].cause = NoCause
<1>1. \A i \in DOMAIN tokens : tokens[i] \in Token
  OBVIOUS
<1>2. ASSUME NEW i \in DOMAIN tokens
      PROVE  [tokens[i] EXCEPT !.cause = NoCause] \in Token
  BY <1>1 DEF Token, Causes
<1>3. ASSUME NEW i \in DOMAIN tokens
      PROVE  /\ [tokens[i] EXCEPT !.cause = NoCause].cause = NoCause
             /\ [tokens[i] EXCEPT !.cause = NoCause].until = tokens[i].until
             /\ tokens[i].until \in Nat
  BY <1>1 DEF Token
<1>4. \A i \in DOMAIN tokens : Sweep(tokens)[i] =
        IF tokens[i].until <= doorTick THEN [tokens[i] EXCEPT !.cause = NoCause] ELSE tokens[i]
  BY DEF Sweep
<1>5. \A i \in DOMAIN tokens : Sweep(tokens)[i] \in Token
  BY <1>1, <1>2, <1>4
<1>6. DOMAIN tokens = 1..Len(tokens) /\ Len(tokens) \in Nat /\ DOMAIN Sweep(tokens) = DOMAIN tokens
  BY DEF Sweep
<1>7. Sweep(tokens) = [i \in 1..Len(tokens) |-> Sweep(tokens)[i]]
  BY <1>6 DEF Sweep
<1>8. Sweep(tokens) \in Seq(Token) /\ Len(Sweep(tokens)) = Len(tokens)
  BY <1>5, <1>6, <1>7
<1> QED BY <1>3, <1>4, <1>6, <1>8

(* What is not due stays as it is.                                         *)
LEMMA SweepKeeps ==
  ASSUME doorTick \in Nat, NEW tokens \in Seq(Token), NEW until \in Nat, until > doorTick, NEW cause
  PROVE  HeldBy(Sweep(tokens), until, cause) = HeldBy(tokens, until, cause)
<1>1. \A i \in DOMAIN tokens : tokens[i] \in Token /\ tokens[i].until \in Nat
  <2>1. \A i \in DOMAIN tokens : tokens[i] \in Token
    OBVIOUS
  <2> QED BY <2>1 DEF Token
<1>2. ASSUME NEW i \in DOMAIN tokens
      PROVE  Sweep(tokens)[i] = [until |-> until, cause |-> cause] <=> tokens[i] = [until |-> until, cause |-> cause]
  <2>1. CASE tokens[i].until <= doorTick
    <3>1. Sweep(tokens)[i].until = tokens[i].until /\ tokens[i].until # until
      BY <1>1, <2>1, SweepTypes
    <3> QED BY <3>1
  <2>2. CASE ~(tokens[i].until <= doorTick)
    BY <2>2, SweepTypes
  <2> QED BY <2>1, <2>2
<1> QED BY <1>2, SweepTypes DEF HeldBy

(* The free tokens are positions.                                          *)
LEMMA FreeIsFinite ==
  ASSUME NEW tokens \in Seq(Token)
  PROVE  FreeTokens(tokens) \subseteq Nat /\ IsFiniteSet(FreeTokens(tokens))
<1>1. FreeTokens(tokens) \subseteq 1..Len(tokens) /\ Len(tokens) \in Nat
  BY DEF FreeTokens
<1>2. IsFiniteSet(1..Len(tokens))
  BY <1>1, FS_Interval
<1> QED BY <1>1, <1>2, FS_Subset

(* A rail or a pool that is paid from is one of the same size.             *)
LEMMA OccupyTypes ==
  ASSUME NEW tokens \in Seq(Token), NEW cost \in Nat, NEW cause \in Causes, NEW until \in Nat
  PROVE  /\ Occupy(tokens, cost, cause, until) \in Seq(Token)
         /\ Len(Occupy(tokens, cost, cause, until)) = Len(tokens)
         /\ DOMAIN Occupy(tokens, cost, cause, until) = DOMAIN tokens
<1> DEFINE after == Occupy(tokens, cost, cause, until)
           taken == First(FreeTokens(tokens), cost)
<1>1. after = [i \in DOMAIN tokens |-> IF i \in taken THEN [until |-> until, cause |-> cause] ELSE tokens[i]]
  BY DEF Occupy, First, UpTo
<1> HIDE DEF after, taken
<1>2. [until |-> until, cause |-> cause] \in Token /\ \A i \in DOMAIN tokens : tokens[i] \in Token
  <2>1. \A i \in DOMAIN tokens : tokens[i] \in Token
    OBVIOUS
  <2>2. [until |-> until, cause |-> cause] \in Token
    BY DEF Token
  <2> QED BY <2>1, <2>2
<1>3. DOMAIN tokens = 1..Len(tokens) /\ Len(tokens) \in Nat
  OBVIOUS
<1>4. after \in Seq(Token) /\ Len(after) = Len(tokens)
  BY <1>1, <1>2, <1>3
<1> QED BY <1>1, <1>4 DEF after

(* The tokens that are taken are as many as they cost, were free, and get  *)
(* the cause and the time; the others stay.                                *)
LEMMA OccupyTakes ==
  ASSUME NEW tokens \in Seq(Token), NEW cost \in Nat, Cardinality(FreeTokens(tokens)) >= cost,
         NEW cause \in Causes, NEW until \in Nat
  PROVE  LET after == Occupy(tokens, cost, cause, until)
             taken == First(FreeTokens(tokens), cost)
         IN  /\ DOMAIN after = DOMAIN tokens
             /\ taken \subseteq FreeTokens(tokens) /\ Cardinality(taken) = cost
             /\ \A i \in DOMAIN tokens :
                  after[i] = IF i \in taken THEN [until |-> until, cause |-> cause] ELSE tokens[i]
<1> DEFINE after == Occupy(tokens, cost, cause, until)
           taken == First(FreeTokens(tokens), cost)
<1>1. taken \subseteq FreeTokens(tokens) /\ Cardinality(taken) = cost
  <2>1. FreeTokens(tokens) \subseteq Nat /\ IsFiniteSet(FreeTokens(tokens))
    BY FreeIsFinite
  <2>2. cost <= Cardinality(FreeTokens(tokens))
    BY <2>1, FS_CardinalityType
  <2> QED BY <2>1, <2>2, FirstCount DEF First
<1>2. after = [i \in DOMAIN tokens |-> IF i \in taken THEN [until |-> until, cause |-> cause] ELSE tokens[i]]
  BY DEF Occupy, First, UpTo
<1> HIDE DEF after, taken
<1> QED BY <1>1, <1>2 DEF after, taken

(* A cause that holds no token holds, once it is paid for, the tokens that *)
(* were taken.                                                             *)
LEMMA OccupyHolds ==
  ASSUME NEW tokens \in Seq(Token), NEW cost \in Nat, Cardinality(FreeTokens(tokens)) >= cost,
         NEW cause \in Causes, NEW until \in Nat, HeldBy(tokens, until, cause) = {}
  PROVE  Cardinality(HeldBy(Occupy(tokens, cost, cause, until), until, cause)) = cost
<1> DEFINE after == Occupy(tokens, cost, cause, until)
           taken == First(FreeTokens(tokens), cost)
<1>1. /\ DOMAIN after = DOMAIN tokens /\ taken \subseteq FreeTokens(tokens) /\ Cardinality(taken) = cost
      /\ \A i \in DOMAIN tokens :
           after[i] = IF i \in taken THEN [until |-> until, cause |-> cause] ELSE tokens[i]
  BY OccupyTakes
<1>2. taken \subseteq DOMAIN tokens
  BY <1>1 DEF FreeTokens
<1> HIDE DEF after, taken
<1>3. HeldBy(after, until, cause) = taken
  BY <1>1, <1>2 DEF HeldBy
<1> QED BY <1>1, <1>3 DEF after

(* What another cause holds stays held.                                    *)
LEMMA OccupyKeeps ==
  ASSUME NEW tokens \in Seq(Token), NEW cost \in Nat, Cardinality(FreeTokens(tokens)) >= cost,
         NEW cause \in Causes, NEW until \in Nat,
         NEW other, NEW then, other # NoCause, other # cause \/ then # until
  PROVE  HeldBy(Occupy(tokens, cost, cause, until), then, other) = HeldBy(tokens, then, other)
<1> DEFINE after == Occupy(tokens, cost, cause, until)
           taken == First(FreeTokens(tokens), cost)
<1>1. /\ DOMAIN after = DOMAIN tokens /\ taken \subseteq FreeTokens(tokens)
      /\ \A i \in DOMAIN tokens :
           after[i] = IF i \in taken THEN [until |-> until, cause |-> cause] ELSE tokens[i]
  BY OccupyTakes
<1>2. \A i \in taken : tokens[i].cause = NoCause
  BY <1>1 DEF FreeTokens
<1> HIDE DEF after, taken
<1>3. ASSUME NEW i \in DOMAIN tokens
      PROVE  after[i] = [until |-> then, cause |-> other] <=> tokens[i] = [until |-> then, cause |-> other]
  <2>1. CASE i \in taken
    <3>1. after[i] = [until |-> until, cause |-> cause] /\ tokens[i].cause # other
      BY <1>1, <1>2, <2>1
    <3>2. after[i] # [until |-> then, cause |-> other]
      <4>1. after[i].until = until /\ after[i].cause = cause
        BY <3>1
      <4> QED BY <4>1
    <3> QED BY <3>1, <3>2
  <2>2. CASE i \notin taken
    BY <1>1, <2>2
  <2> QED BY <2>1, <2>2
<1>4. HeldBy(after, then, other) = HeldBy(tokens, then, other)
  BY <1>1, <1>3 DEF HeldBy
<1> QED BY <1>4 DEF after

-----------------------------------------------------------------------------
(***************************************************************************)
(* The shape of the door: rail, pool and drafts.  The pool's debt counts   *)
(* the loans nobody has serviced.                                          *)
(***************************************************************************)
Rail == {tokens \in Seq(Token) : Len(tokens) = HandCapacity}

Loan == [repayAtWindow : Nat, repaid : BOOLEAN]

Pool == [seeded : BOOLEAN, tokens : Seq(Token), debt : Nat, ledger : Seq(Loan), window : Nat]

DoorShape ==
  /\ doorTick \in Nat /\ doorOpen \in BOOLEAN /\ fed \in Nat
  /\ hands \in Rail /\ draftHands \in Rail \cup {<<>>}
  /\ pool \in Pool /\ draftPool \in Pool
  /\ draftPool.seeded => draftPool = [pool EXCEPT !.tokens = draftPool.tokens]
  /\ ~doorOpen => draftHands = <<>> /\ ~draftPool.seeded
  /\ devices \subseteq Device /\ cables \subseteq Cable

(***************************************************************************)
(* What is lent.  A hold is live until its tick, and through that tick     *)
(* until the pass begins: LiveTicks are the times of live holds.           *)
(***************************************************************************)
LiveTicks == {until \in Nat : until > doorTick \/ (until = doorTick /\ ~doorOpen)}

CausesFed == {NoCause} \cup {DrainOf(c) : c \in Cable} \cup {Intent(n) : n \in 1..fed}

Hold == [cause : CausesFed \ {NoCause}, until : Nat, cost : Nat, attention : BOOLEAN]

(* Busy tokens of a live hold belong to one that stands.                   *)
LentTo(holds, tokens, causes, live) ==
  \A i \in DOMAIN tokens :
    /\ tokens[i].cause \in causes
    /\ tokens[i].cause # NoCause /\ tokens[i].until \in live =>
         \E hold \in holds : hold.cause = tokens[i].cause /\ hold.until = tokens[i].until

Holding(hold) ==
  /\ Cardinality(HeldBy(HandsNow, hold.until, hold.cause)) = hold.cost
  /\ hold.attention => Cardinality(HeldBy(PoolNow.tokens, hold.until, hold.cause)) = 1

(* A drain is booked on a hand of its own, and a hand that is booked for   *)
(* one is freed in the pass that pulls the cable.                          *)
DrainHolds(c) == {hold \in standing : hold.cause = DrainOf(c) /\ hold.until \in LiveTicks}

HoldInv ==
  /\ standing \subseteq Hold
  /\ LentTo(standing, HandsNow, CausesFed, LiveTicks)
  /\ LentTo(standing, PoolNow.tokens, CausesFed, LiveTicks)
  /\ \A hold \in standing : hold.until \in LiveTicks => Holding(hold)
  /\ \A c \in Cable :
       /\ \A hold \in standing : hold.cause = DrainOf(c) => hold.cost = HandCost["disconnect-drain"]
       /\ \A one, other \in DrainHolds(c) : one = other
       /\ \A i \in DOMAIN HandsNow : HandsNow[i].cause = DrainOf(c) => HandsNow[i].until \in LiveTicks

(* Tokens of a rail or of the pool over a step that lends none: a busy     *)
(* one was so before, and those that are still live are still busy.        *)
StillLent(old, new, live) ==
  /\ \A i \in DOMAIN new : new[i].cause = NoCause \/ (i \in DOMAIN old /\ new[i] = old[i])
  /\ \A i \in DOMAIN old : old[i].cause # NoCause /\ old[i].until \in live => i \in DOMAIN new /\ new[i] = old[i]

(* Such a step keeps what live holds hold.                                 *)
LEMMA StillHeld ==
  ASSUME NEW old, NEW new, NEW live, StillLent(old, new, live), NEW until \in live, NEW cause, cause # NoCause
  PROVE  HeldBy(new, until, cause) = HeldBy(old, until, cause)
<1>1. ASSUME NEW i \in HeldBy(new, until, cause) PROVE i \in HeldBy(old, until, cause)
  <2>1. i \in DOMAIN new /\ new[i] = [until |-> until, cause |-> cause]
    BY DEF HeldBy
  <2>2. new[i].cause = cause
    BY <2>1
  <2> QED BY <2>1, <2>2 DEF StillLent, HeldBy
<1>2. ASSUME NEW i \in HeldBy(old, until, cause) PROVE i \in HeldBy(new, until, cause)
  <2>1. i \in DOMAIN old /\ old[i] = [until |-> until, cause |-> cause]
    BY DEF HeldBy
  <2>2. old[i].cause = cause /\ old[i].until = until
    BY <2>1
  <2> QED BY <2>1, <2>2 DEF StillLent, HeldBy
<1> QED BY <1>1, <1>2

(* Causes that were fed stay causes that were fed.                         *)
LEMMA CausesGrow ==
  ASSUME fed \in Nat, fed' \in Nat, fed <= fed'
  PROVE  CausesFed \subseteq CausesFed'
BY DEF CausesFed

(* A step that lends nothing and ends no live hold.                        *)
LEMMA NothingLent ==
  ASSUME HoldInv, fed \in Nat, fed' \in Nat, fed <= fed',
         LiveTicks' \subseteq LiveTicks,
         StillLent(HandsNow, HandsNow', LiveTicks'),
         StillLent(PoolNow.tokens, (PoolNow.tokens)', LiveTicks'),
         standing' \subseteq standing,
         \A hold \in standing : hold.until \in LiveTicks' => hold \in standing',
         \A c \in Cable : \A i \in DOMAIN HandsNow' : HandsNow'[i].cause = DrainOf(c) => HandsNow'[i].until \in LiveTicks'
  PROVE  HoldInv'
<1> DEFINE H == HandsNow
           P == PoolNow.tokens
           live == LiveTicks'
<1>1. CausesFed \subseteq CausesFed'
  BY CausesGrow
<1>2. \A hold \in standing : /\ hold \in Hold /\ hold.until \in Nat /\ hold.cause # NoCause
                             /\ hold.cause \in CausesFed
  BY DEF HoldInv, Hold
<1>3. standing' \subseteq Hold'
  BY <1>1, <1>2 DEF Hold
<1>5. ASSUME NEW old, NEW new, StillLent(old, new, live), LentTo(standing, old, CausesFed, LiveTicks)
      PROVE  LentTo(standing', new, CausesFed', live)
  <2> SUFFICES ASSUME NEW i \in DOMAIN new, new[i].cause # NoCause
               PROVE  /\ new[i].cause \in CausesFed'
                      /\ new[i].until \in live =>
                           \E hold \in standing' : hold.cause = new[i].cause /\ hold.until = new[i].until
    BY DEF LentTo, CausesFed
  <2>1. i \in DOMAIN old /\ new[i] = old[i]
    BY <1>5 DEF StillLent
  <2>2. new[i].cause \in CausesFed'
    BY <1>1, <1>5, <2>1 DEF LentTo
  <2>3. ASSUME new[i].until \in live
        PROVE  \E hold \in standing' : hold.cause = new[i].cause /\ hold.until = new[i].until
    <3>1. new[i].until \in LiveTicks
      BY <2>3
    <3>2. PICK hold \in standing : hold.cause = new[i].cause /\ hold.until = new[i].until
      BY <1>5, <2>1, <3>1 DEF LentTo
    <3> QED BY <2>3, <3>2
  <2> QED BY <2>2, <2>3
<1>6. LentTo(standing', H', CausesFed', live) /\ LentTo(standing', P', CausesFed', live)
  BY <1>5 DEF HoldInv
<1>7. ASSUME NEW hold \in standing', hold.until \in live
      PROVE  Holding(hold)'
  <2>1. hold \in standing /\ hold.until \in LiveTicks /\ hold.cause # NoCause
    BY <1>2, <1>7
  <2>2. Holding(hold)
    BY <2>1 DEF HoldInv
  <2>3. /\ HeldBy(H', hold.until, hold.cause) = HeldBy(H, hold.until, hold.cause)
        /\ HeldBy(P', hold.until, hold.cause) = HeldBy(P, hold.until, hold.cause)
    <3> HIDE DEF H, P
    <3> QED BY <1>7, <2>1, StillHeld DEF H, P
  <2> QED BY <2>2, <2>3 DEF Holding
<1>8. ASSUME NEW c \in Cable PROVE DrainHolds(c)' \subseteq DrainHolds(c)
  BY DEF DrainHolds
<1> HIDE DEF H, P
<1> QED BY <1>3, <1>6, <1>7, <1>8 DEF HoldInv, H, P

-----------------------------------------------------------------------------
(***************************************************************************)
(* The steps that lend nothing.                                            *)
(***************************************************************************)
(* What the rail and the pool are, with what was drafted and swept.        *)
LEMMA RailAndPool ==
  ASSUME DoorAssumption, DoorShape
  PROVE  /\ HandsNow \in Rail /\ HandsSwept \in Rail /\ Sweep(hands) \in Rail
         /\ HandsNow \in Seq(Token) /\ HandsSwept \in Seq(Token)
         /\ <<>> \notin Rail
         /\ PoolNow \in Pool /\ PoolNow.tokens \in Seq(Token) /\ Sweep(PoolNow.tokens) \in Seq(Token)
         /\ HandsSwept = HandsNow \/ HandsSwept = Sweep(HandsNow)
<1>1. <<>> \notin Rail
  BY DEF Rail, DoorAssumption
<1>2. hands \in Rail /\ hands \in Seq(Token) /\ doorTick \in Nat
  BY DEF DoorShape, Rail
<1>3. Sweep(hands) \in Rail
  <2>1. Sweep(hands) \in Seq(Token) /\ Len(Sweep(hands)) = Len(hands)
    BY <1>2, SweepTypes
  <2> QED BY <1>2, <2>1 DEF Rail
<1>4. HandsNow \in Rail /\ HandsSwept \in Rail
  BY <1>2, <1>3 DEF DoorShape, HandsNow, HandsSwept
<1>5. PoolNow \in Pool
  BY DEF DoorShape, PoolNow
<1>6. PoolNow.tokens \in Seq(Token)
  BY <1>5 DEF Pool
<1>7. Sweep(PoolNow.tokens) \in Seq(Token)
  BY <1>2, <1>6, SweepTypes
<1>8. HandsSwept = HandsNow \/ HandsSwept = Sweep(HandsNow)
  BY DEF HandsSwept, HandsNow
<1> QED BY <1>1, <1>3, <1>4, <1>5, <1>6, <1>7, <1>8 DEF Rail

(* What stays lends nothing, nor does the sweep at a tick that is over.    *)
LEMMA SweepLendsNothing ==
  ASSUME doorTick \in Nat, NEW tokens \in Seq(Token), NEW live, \A t \in live : t \in Nat /\ t > doorTick
  PROVE  StillLent(tokens, tokens, live) /\ StillLent(tokens, Sweep(tokens), live)
<1>1. /\ DOMAIN Sweep(tokens) = DOMAIN tokens
      /\ \A i \in DOMAIN tokens :
           Sweep(tokens)[i] = tokens[i] \/ (tokens[i].until <= doorTick /\ Sweep(tokens)[i].cause = NoCause)
  BY SweepTypes
<1>2. ASSUME NEW i \in DOMAIN tokens, tokens[i].until \in live PROVE ~(tokens[i].until <= doorTick)
  BY <1>2
<1> QED BY <1>1, <1>2 DEF StillLent

(* Drafting the hands or leaving them: they are as they were, or swept.    *)
LEMMA DraftedHands ==
  ASSUME DoorAssumption, DoorShape, hands' = hands, draftHands' \in {draftHands, KeptHands}
  PROVE  /\ draftHands' \in Rail \cup {<<>>}
         /\ HandsNow' = HandsNow \/ HandsNow' = Sweep(HandsNow)
<1>1. Sweep(hands) \in Rail /\ <<>> \notin Rail
  BY RailAndPool
<1>2. CASE draftHands = <<>> /\ draftHands' = Sweep(hands)
  <2>1. draftHands' # <<>>
    BY <1>1, <1>2
  <2> QED BY <1>1, <1>2, <2>1 DEF HandsNow
<1>3. CASE draftHands' = draftHands
  BY <1>3 DEF HandsNow, DoorShape
<1> QED BY <1>2, <1>3 DEF KeptHands

(* The same of the pool.                                                   *)
LEMMA DraftedPool ==
  ASSUME DoorAssumption, DoorShape, pool' = pool, draftPool' \in {draftPool, KeptPool}
  PROVE  /\ draftPool' \in Pool
         /\ draftPool'.seeded => draftPool' = [pool EXCEPT !.tokens = draftPool'.tokens]
         /\ (PoolNow.tokens)' = PoolNow.tokens \/ (PoolNow.tokens)' = Sweep(PoolNow.tokens)
<1>1. pool \in Pool /\ draftPool \in Pool /\ pool.tokens \in Seq(Token) /\ doorTick \in Nat
  BY DEF DoorShape, Pool
<1>2. CASE ~draftPool.seeded /\ draftPool' = attentionRelease(pool)
  <2>1. Sweep(pool.tokens) \in Seq(Token)
    BY <1>1, SweepTypes
  <2>2. /\ draftPool' = [pool EXCEPT !.tokens = Sweep(pool.tokens)]
        /\ draftPool'.tokens = Sweep(pool.tokens) /\ draftPool'.seeded = pool.seeded
    BY <1>1, <1>2 DEF attentionRelease, Pool
  <2>3. draftPool' \in Pool
    BY <1>1, <2>1, <2>2 DEF Pool
  <2> QED BY <1>2, <2>2, <2>3 DEF PoolNow
<1>3. CASE draftPool' = draftPool
  BY <1>1, <1>3 DEF PoolNow, DoorShape
<1> QED BY <1>2, <1>3 DEF KeptPool

(* During a pass a refusal, and anything else that at most drafts what was *)
(* swept, lends nothing.                                                   *)
LEMMA RefusalLendsNothing ==
  ASSUME DoorAssumption, DoorShape, HoldInv, doorOpen, doorTick' = doorTick, doorOpen' = doorOpen,
         fed' = fed + 1, hands' = hands, pool' = pool, standing' = standing,
         draftHands' \in {draftHands, KeptHands}, draftPool' \in {draftPool, KeptPool}
  PROVE  HoldInv'
<1>1. fed \in Nat /\ doorTick \in Nat /\ fed <= fed' /\ fed' \in Nat
  BY DEF DoorShape
<1>2. LiveTicks' = LiveTicks /\ \A t \in LiveTicks' : t \in Nat /\ t > doorTick
  BY <1>1 DEF LiveTicks
<1>3. HandsNow \in Seq(Token) /\ PoolNow.tokens \in Seq(Token)
  BY RailAndPool
<1>4. HandsNow' = HandsNow \/ HandsNow' = Sweep(HandsNow)
  BY DraftedHands
<1>5. (PoolNow.tokens)' = PoolNow.tokens \/ (PoolNow.tokens)' = Sweep(PoolNow.tokens)
  BY DraftedPool
<1>6. /\ StillLent(HandsNow, HandsNow, LiveTicks') /\ StillLent(HandsNow, Sweep(HandsNow), LiveTicks')
      /\ StillLent(PoolNow.tokens, PoolNow.tokens, LiveTicks')
      /\ StillLent(PoolNow.tokens, Sweep(PoolNow.tokens), LiveTicks')
  BY <1>1, <1>2, <1>3, SweepLendsNothing
<1>7. StillLent(HandsNow, HandsNow', LiveTicks') /\ StillLent(PoolNow.tokens, (PoolNow.tokens)', LiveTicks')
  BY <1>4, <1>5, <1>6
<1>8. ASSUME NEW c \in Cable, NEW i \in DOMAIN HandsNow', HandsNow'[i].cause = DrainOf(c)
      PROVE  HandsNow'[i].until \in LiveTicks'
  <2>1. HandsNow'[i].cause # NoCause
    BY <1>8 DEF DrainOf, NoCause
  <2>2. i \in DOMAIN HandsNow /\ HandsNow'[i] = HandsNow[i]
    BY <1>7, <2>1 DEF StillLent
  <2>3. HandsNow[i].until \in LiveTicks
    BY <1>8, <2>2 DEF HoldInv
  <2> QED BY <1>2, <2>2, <2>3
<1> QED BY <1>1, <1>2, <1>7, <1>8, NothingLent

(* The pass begins: the hands of the drains that are over are free.        *)
LEMMA OpenPassLendsNothing ==
  ASSUME DoorAssumption, DoorShape, HoldInv, OpenPass
  PROVE  HoldInv'
<1> DEFINE due == {i \in DOMAIN hands : hands[i].cause[1] = "drain" /\ hands[i].until <= doorTick}
<1>1. fed \in Nat /\ doorTick \in Nat /\ fed <= fed' /\ fed' \in Nat /\ doorTick' = doorTick
  BY DEF DoorShape, OpenPass
<1>2. ~doorOpen /\ doorOpen' /\ draftHands = <<>> /\ HandsNow = hands /\ hands \in Seq(Token) /\ hands \in Rail
  BY DEF OpenPass, DoorShape, HandsNow, Rail
<1>3. \A t \in LiveTicks' : t \in Nat /\ t > doorTick
  BY <1>1, <1>2 DEF LiveTicks
<1>4. LiveTicks' \subseteq LiveTicks
  BY <1>1, <1>2 DEF LiveTicks
<1>5. draftHands' = IF due = {} THEN draftHands ELSE KeptHands
  BY DEF OpenPass
<1>6. HandsNow' = HandsNow \/ HandsNow' = Sweep(HandsNow)
  <2>1. draftHands' \in {draftHands, KeptHands} /\ hands' = hands
    BY <1>5 DEF OpenPass
  <2> QED BY <2>1, DraftedHands
<1>7. StillLent(HandsNow, HandsNow', LiveTicks')
  BY <1>1, <1>2, <1>3, <1>6, SweepLendsNothing
<1>8. (PoolNow.tokens)' = PoolNow.tokens /\ PoolNow.tokens \in Seq(Token)
  BY RailAndPool DEF OpenPass, PoolNow
<1>9. StillLent(PoolNow.tokens, (PoolNow.tokens)', LiveTicks')
  BY <1>1, <1>3, <1>8, SweepLendsNothing
<1>10. ASSUME NEW c \in Cable, NEW i \in DOMAIN HandsNow', HandsNow'[i].cause = DrainOf(c)
       PROVE  HandsNow'[i].until \in LiveTicks'
  <2>1. HandsNow'[i].cause # NoCause /\ HandsNow'[i].cause[1] = "drain"
    BY <1>10 DEF DrainOf, NoCause
  <2>2. i \in DOMAIN hands /\ HandsNow'[i] = hands[i]
    BY <1>2, <1>7, <2>1 DEF StillLent
  <2>3. hands[i] \in Token /\ hands[i].until \in Nat
    <3>1. hands[i] \in Token
      BY <1>2, <2>2
    <3> QED BY <3>1 DEF Token
  <2>4. ~(hands[i].until <= doorTick)
    <3> SUFFICES ASSUME hands[i].until <= doorTick PROVE FALSE
      OBVIOUS
    <3>1. i \in due
      BY <2>1, <2>2
    <3>2. draftHands' = KeptHands
      BY <1>5, <3>1
    <3>3. Sweep(hands)[i].cause = NoCause /\ Sweep(hands) \in Rail /\ <<>> \notin Rail
      BY <1>1, <1>2, <2>2, SweepTypes, RailAndPool
    <3>4. Sweep(hands) # hands
      BY <2>1, <2>2, <3>3
    <3>5. draftHands' = Sweep(hands) /\ draftHands' # <<>>
      BY <1>2, <3>2, <3>3, <3>4 DEF KeptHands
    <3>6. HandsNow' = Sweep(hands)
      BY <3>5 DEF HandsNow
    <3> QED BY <2>1, <3>3, <3>6
  <2>5. hands[i].until \in LiveTicks'
    BY <1>1, <2>3, <2>4 DEF LiveTicks
  <2> QED BY <2>2, <2>5
<1>11. standing' = standing
  BY DEF OpenPass
<1> HIDE DEF due
<1> QED BY <1>1, <1>4, <1>7, <1>9, <1>10, <1>11, NothingLent

(* The pass ends: what was drafted is the state, and what is lent after    *)
(* this tick is what is lent from the next one on.                         *)
LEMMA ClosePassLendsNothing ==
  ASSUME DoorAssumption, DoorShape, HoldInv, ClosePass
  PROVE  HoldInv' /\ LiveTicks' = LiveTicks
<1>1. fed \in Nat /\ doorTick \in Nat /\ fed' = fed /\ fed <= fed' /\ doorTick' = doorTick + 1 /\ doorOpen /\ ~doorOpen'
  BY DEF DoorShape, ClosePass
<1>2. \A t \in Nat : t > doorTick <=> t > doorTick' \/ t = doorTick'
  BY <1>1
<1>3. LiveTicks' = LiveTicks /\ \A t \in LiveTicks' : t \in Nat /\ t > doorTick
  BY <1>1, <1>2 DEF LiveTicks
<1>4. HandsNow' = HandsNow /\ PoolNow' = PoolNow
  BY DEF ClosePass, HandsNow, PoolNow, NoPool
<1>5. HandsNow \in Seq(Token) /\ PoolNow.tokens \in Seq(Token)
  BY RailAndPool
<1>6. StillLent(HandsNow, HandsNow', LiveTicks') /\ StillLent(PoolNow.tokens, (PoolNow.tokens)', LiveTicks')
  BY <1>1, <1>3, <1>4, <1>5, SweepLendsNothing
<1>7. /\ standing' \subseteq standing
      /\ \A hold \in standing : hold.until \in LiveTicks' => hold \in standing'
  <2>1. standing' = {hold \in standing : hold.until > doorTick}
    BY DEF ClosePass
  <2> QED BY <1>3, <2>1
<1>8. \A c \in Cable : \A i \in DOMAIN HandsNow' : HandsNow'[i].cause = DrainOf(c) => HandsNow'[i].until \in LiveTicks'
  BY <1>3, <1>4 DEF HoldInv
<1>9. HoldInv'
  BY <1>1, <1>3, <1>6, <1>7, <1>8, NothingLent
<1> QED BY <1>3, <1>9

(* Between passes the host writes the pool: a loan may mint a free token.  *)
LEMMA LoansLendNothing ==
  ASSUME DoorAssumption, DoorShape, HoldInv, attentionWindowEntry \/ replenishAtBusinessMonth
  PROVE  HoldInv'
<1>1. /\ fed \in Nat /\ fed' = fed /\ fed <= fed' /\ doorTick' = doorTick /\ doorOpen' = doorOpen /\ ~doorOpen
      /\ standing' = standing /\ hands' = hands /\ draftHands' = draftHands /\ draftPool' = draftPool
  BY DEF DoorShape, attentionWindowEntry, replenishAtBusinessMonth
<1>2. LiveTicks' = LiveTicks /\ HandsNow' = HandsNow
  BY <1>1 DEF LiveTicks, HandsNow
<1>3. PoolNow = pool /\ PoolNow' = pool' /\ pool \in Pool /\ pool.tokens \in Seq(Token)
  BY <1>1 DEF PoolNow, DoorShape, Pool
<1>4. \/ pool'.tokens = pool.tokens
      \/ pool'.tokens = Append(pool.tokens, [until |-> 0, cause |-> NoCause])
  <2>1. CASE attentionWindowEntry
    BY <1>3, <2>1 DEF attentionWindowEntry, Pool
  <2>2. CASE replenishAtBusinessMonth
    BY <1>3, <2>2 DEF replenishAtBusinessMonth, Pool
  <2> QED BY <2>1, <2>2
<1>5. StillLent(pool.tokens, pool'.tokens, LiveTicks')
  <2>1. CASE pool'.tokens = pool.tokens
    BY <2>1 DEF StillLent
  <2>2. CASE pool'.tokens = Append(pool.tokens, [until |-> 0, cause |-> NoCause])
    <3> DEFINE s == pool.tokens
               t == pool'.tokens
    <3>1. /\ Len(s) \in Nat /\ DOMAIN s = 1..Len(s) /\ DOMAIN t = 1..Len(s) + 1
          /\ \A i \in 1..Len(s) : t[i] = s[i]
          /\ t[Len(s) + 1] = [until |-> 0, cause |-> NoCause]
      BY <1>3, <2>2
    <3>2. t[Len(s) + 1].cause = NoCause
      BY <3>1
    <3>3. \A i \in DOMAIN t : i = Len(s) + 1 \/ i \in DOMAIN s
      BY <3>1
    <3>4. \A i \in DOMAIN s : i \in DOMAIN t
      BY <3>1
    <3> HIDE DEF s, t
    <3>5. StillLent(s, t, LiveTicks')
      BY <3>1, <3>2, <3>3, <3>4 DEF StillLent
    <3> QED BY <3>5 DEF s, t
  <2> QED BY <1>4, <2>1, <2>2
<1>6. StillLent(HandsNow, HandsNow', LiveTicks')
  BY <1>2 DEF StillLent
<1>7. StillLent(PoolNow.tokens, (PoolNow.tokens)', LiveTicks')
  BY <1>3, <1>5
<1>8. \A c \in Cable : \A i \in DOMAIN HandsNow' : HandsNow'[i].cause = DrainOf(c) => HandsNow'[i].until \in LiveTicks'
  BY <1>2 DEF HoldInv
<1>9. /\ standing' \subseteq standing
      /\ \A hold \in standing : hold.until \in LiveTicks' => hold \in standing'
  BY <1>1
<1> QED BY <1>1, <1>2, <1>6, <1>7, <1>8, <1>9, NothingLent

-----------------------------------------------------------------------------
(***************************************************************************)
(* An intent that is executed.                                             *)
(***************************************************************************)
(* What an entry is paid for: an intent of its own, or the drain of a      *)
(* cable.                                                                  *)
EntryOf(verb, cause) ==
  \/ cause = Intent(fed + 1)
  \/ verb = "disconnect-drain" /\ \E c \in Cable : cause = DrainOf(c)

NewHold(verb, carrier, cause) ==
  [cause |-> cause, until |-> BusyUntil(verb, cause), cost |-> HandCost[verb],
   attention |-> PaysAttention(verb, carrier)]

(* The cause of an entry and the tick it is told.                          *)
LEMMA EntryTypes ==
  ASSUME DoorAssumption, DoorShape, fed' = fed + 1, NEW verb \in Verb, NEW carrier \in BOOLEAN, NEW cause,
         EntryOf(verb, cause)
  PROVE  /\ cause \in Causes /\ cause \in CausesFed' /\ cause # NoCause
         /\ BusyUntil(verb, cause) \in Nat /\ HandCost[verb] \in Nat
         /\ NewHold(verb, carrier, cause) \in Hold'
         /\ HandCost[verb] = 0 => BusyUntil(verb, cause) = doorTick
         /\ \A c \in Cable : cause = DrainOf(c) =>
              /\ verb = "disconnect-drain" /\ HandCost[verb] > 0
              /\ BusyUntil(verb, cause) > doorTick
<1>1. fed \in Nat /\ doorTick \in Nat /\ fed' \in Nat /\ fed + 1 \in 1..fed'
  BY DEF DoorShape
<1>2. HandCost[verb] \in Nat /\ Occupancy[verb] \in Nat /\ DrainTicks \in Nat /\ DrainTicks > 0 /\ Cable \subseteq Nat
  BY DEF DoorAssumption
<1>3. cause \in Causes /\ cause \in CausesFed' /\ cause # NoCause
  BY <1>1 DEF EntryOf, Causes, CausesFed, Intent, DrainOf, NoCause
<1>4. BusyUntil(verb, cause) \in Nat /\ (HandCost[verb] = 0 => BusyUntil(verb, cause) = doorTick)
  BY <1>1, <1>2 DEF BusyUntil
<1>5. NewHold(verb, carrier, cause) \in Hold'
  <2>1. PaysAttention(verb, carrier) \in BOOLEAN
    BY DEF PaysAttention
  <2> QED BY <1>2, <1>3, <1>4, <2>1 DEF NewHold, Hold
<1>6. ASSUME NEW c \in Cable, cause = DrainOf(c)
      PROVE  /\ verb = "disconnect-drain" /\ HandCost[verb] > 0
             /\ BusyUntil(verb, cause) > doorTick
  <2>1. cause[1] = "drain" /\ cause # Intent(fed + 1)
    BY <1>6 DEF DrainOf, Intent
  <2>2. verb = "disconnect-drain" /\ HandCost[verb] > 0
    BY <2>1 DEF EntryOf, DoorAssumption
  <2>3. BusyUntil(verb, cause) = doorTick + DrainTicks
    BY <1>2, <2>1, <2>2 DEF BusyUntil
  <2> QED BY <1>1, <1>2, <2>2, <2>3
<1> QED BY <1>2, <1>3, <1>4, <1>5, <1>6

NotHeld(cause) == \A hold \in standing : hold.until \in LiveTicks => hold.cause # cause

(* What is paid for holds nothing yet: an intent has a number of its own,  *)
(* and a cable is not drained while its drain is booked.                   *)
LEMMA PaidIsNotHeld ==
  ASSUME DoorAssumption, DoorShape, HoldInv, doorOpen, fed' = fed + 1,
         NEW verb \in Verb, NEW cause, EntryOf(verb, cause), Affordable(verb, cause)
  PROVE  NotHeld(cause)
<1> SUFFICES ASSUME NEW hold \in standing, hold.until \in LiveTicks, hold.cause = cause PROVE FALSE
  BY DEF NotHeld
<1>1. fed \in Nat /\ doorTick \in Nat
  BY DEF DoorShape
<1>2. hold.cause \in CausesFed /\ hold.until \in Nat /\ hold.until > doorTick
  BY <1>1 DEF HoldInv, Hold, LiveTicks
<1>3. CASE cause = Intent(fed + 1)
  <2>1. \A n \in 1..fed : Intent(n) # Intent(fed + 1)
    BY <1>1 DEF Intent
  <2>2. Intent(fed + 1) # NoCause /\ \A c \in Cable : Intent(fed + 1) # DrainOf(c)
    BY DEF Intent, DrainOf, NoCause
  <2> QED BY <1>2, <1>3, <2>1, <2>2 DEF CausesFed
<1>4. ASSUME NEW c \in Cable, cause = DrainOf(c), verb = "disconnect-drain" PROVE FALSE
  <2>1. hold.cost = HandCost["disconnect-drain"] /\ Cardinality(HeldBy(HandsNow, hold.until, hold.cause)) = hold.cost
    BY <1>4 DEF HoldInv, Holding
  <2>2. HandCost["disconnect-drain"] \in Nat /\ HandCost["disconnect-drain"] > 0
    BY DEF DoorAssumption, Verb
  <2>3. HeldBy(HandsNow, hold.until, hold.cause) # {}
    BY <2>1, <2>2, FS_EmptySet
  <2>4. HeldBy(HandsSwept, hold.until, hold.cause) = HeldBy(HandsNow, hold.until, hold.cause)
    BY <1>1, <1>2, RailAndPool, SweepKeeps
  <2>5. PICK i \in DOMAIN HandsSwept : HandsSwept[i] = [until |-> hold.until, cause |-> hold.cause]
    BY <2>3, <2>4 DEF HeldBy
  <2>6. HandsSwept[i].cause = cause
    BY <2>5
  <2>7. cause[1] = "drain"
    BY <1>4 DEF DrainOf
  <2> QED BY <1>4, <2>2, <2>6, <2>7 DEF Affordable
<1> QED BY <1>3, <1>4 DEF EntryOf

(* A cause no live hold has holds no token.                                *)
LEMMA NotHeldHasNone ==
  ASSUME NEW cause, cause # NoCause, NotHeld(cause), NEW tokens, NEW causes,
         LentTo(standing, tokens, causes, LiveTicks), NEW until \in LiveTicks
  PROVE  HeldBy(tokens, until, cause) = {}
<1> SUFFICES ASSUME NEW i \in DOMAIN tokens, tokens[i] = [until |-> until, cause |-> cause] PROVE FALSE
  BY DEF HeldBy
<1>1. tokens[i].until = until /\ tokens[i].cause = cause
  OBVIOUS
<1>2. PICK hold \in standing : hold.cause = cause /\ hold.until = until
  BY <1>1 DEF LentTo
<1> QED BY <1>2 DEF NotHeld

(* Tokens that stay lent over a step belong to what stood before it.       *)
LEMMA LentStays ==
  ASSUME NEW holds, NEW old, NEW new, NEW causes, NEW live, NoCause \in causes,
         StillLent(old, new, live), LentTo(holds, old, causes, live)
  PROVE  LentTo(holds, new, causes, live)
<1> SUFFICES ASSUME NEW i \in DOMAIN new, new[i].cause # NoCause
             PROVE  /\ new[i].cause \in causes
                    /\ new[i].until \in live =>
                         \E hold \in holds : hold.cause = new[i].cause /\ hold.until = new[i].until
  BY DEF LentTo
<1>1. i \in DOMAIN old /\ new[i] = old[i]
  BY DEF StillLent
<1> QED BY <1>1 DEF LentTo

(* The tokens that are taken belong to the hold that is new.               *)
LEMMA OccupyLends ==
  ASSUME NEW tokens \in Seq(Token), NEW cost \in Nat, Cardinality(FreeTokens(tokens)) >= cost,
         NEW cause \in Causes, NEW until \in Nat,
         NEW holds, NEW causes, NEW live, LentTo(holds, tokens, causes, live),
         NEW more, causes \subseteq more, cause \in more, NEW new, new.cause = cause, new.until = until
  PROVE  LentTo(holds \cup {new}, Occupy(tokens, cost, cause, until), more, live)
<1> DEFINE after == Occupy(tokens, cost, cause, until)
           taken == First(FreeTokens(tokens), cost)
<1>1. /\ DOMAIN after = DOMAIN tokens
      /\ \A i \in DOMAIN tokens :
           after[i] = IF i \in taken THEN [until |-> until, cause |-> cause] ELSE tokens[i]
  BY OccupyTakes
<1> HIDE DEF after, taken
<1>2. ASSUME NEW i \in DOMAIN after
      PROVE  /\ after[i].cause \in more
             /\ after[i].cause # NoCause /\ after[i].until \in live =>
                  \E hold \in holds \cup {new} : hold.cause = after[i].cause /\ hold.until = after[i].until
  <2>1. CASE i \in taken
    <3>1. after[i].until = until /\ after[i].cause = cause
      BY <1>1, <2>1
    <3> QED BY <3>1
  <2>2. CASE i \notin taken
    <3>1. after[i] = tokens[i] /\ i \in DOMAIN tokens
      BY <1>1, <2>2
    <3> QED BY <3>1 DEF LentTo
  <2> QED BY <2>1, <2>2
<1>3. LentTo(holds \cup {new}, after, more, live)
  BY <1>2 DEF LentTo
<1> QED BY <1>3 DEF after

(* What an entry pays from: tokens that are swept or need not be, with     *)
(* enough of them free, lent to what stands.                               *)
Payable(tokens, swept, cost, cause, until) ==
  /\ tokens \in Seq(Token) /\ swept \in Seq(Token) /\ (swept = tokens \/ swept = Sweep(tokens))
  /\ cost \in Nat /\ Cardinality(FreeTokens(swept)) >= cost
  /\ cause \in Causes /\ cause \in CausesFed' /\ cause # NoCause /\ until \in Nat
  /\ LentTo(standing, tokens, CausesFed, LiveTicks)

(* What was lent once it is paid: to what stood and to what is new.        *)
Paying(tokens, after, cost, new) ==
  /\ LentTo(standing \cup {new}, after, CausesFed', LiveTicks)
  /\ \A hold \in standing : hold.until \in LiveTicks =>
       HeldBy(after, hold.until, hold.cause) = HeldBy(tokens, hold.until, hold.cause)
  /\ new.until \in LiveTicks => Cardinality(HeldBy(after, new.until, new.cause)) = cost

(* Paying from a rail or a pool that is swept, for a cause that holds      *)
(* nothing: what is held stays held, and the cause holds what it costs.    *)
LEMMA PaymentHolds ==
  ASSUME DoorAssumption, DoorShape, HoldInv, doorOpen, CausesFed \subseteq CausesFed',
         NEW tokens, NEW swept, NEW cost, NEW new, NotHeld(new.cause),
         Payable(tokens, swept, cost, new.cause, new.until)
  PROVE  Paying(tokens, Occupy(swept, cost, new.cause, new.until), cost, new)
<1> DEFINE cause == new.cause
           until == new.until
<1>0. /\ tokens \in Seq(Token) /\ swept \in Seq(Token) /\ (swept = tokens \/ swept = Sweep(tokens))
      /\ cost \in Nat /\ Cardinality(FreeTokens(swept)) >= cost
      /\ cause \in Causes /\ cause \in CausesFed' /\ cause # NoCause /\ until \in Nat
      /\ LentTo(standing, tokens, CausesFed, LiveTicks) /\ NotHeld(cause)
  BY DEF Payable
<1> HIDE DEF cause, until
<1>1. doorTick \in Nat
  BY DEF DoorShape
<1>2. \A t \in LiveTicks : t \in Nat /\ t > doorTick
  BY <1>1 DEF LiveTicks
<1>3. StillLent(tokens, swept, LiveTicks)
  BY <1>0, <1>1, <1>2, SweepLendsNothing
<1>4. LentTo(standing, swept, CausesFed, LiveTicks)
  <2>1. NoCause \in CausesFed
    BY DEF CausesFed
  <2> QED BY <1>0, <1>3, <2>1, LentStays
<1>5. LentTo(standing \cup {new}, Occupy(swept, cost, cause, until), CausesFed', LiveTicks)
  <2>1. new.cause = cause /\ new.until = until
    BY DEF cause, until
  <2> QED BY <1>0, <1>4, <2>1, OccupyLends
<1>6. ASSUME NEW hold \in standing, hold.until \in LiveTicks
      PROVE  HeldBy(Occupy(swept, cost, cause, until), hold.until, hold.cause) = HeldBy(tokens, hold.until, hold.cause)
  <2>1. hold.cause # cause /\ hold.cause # NoCause
    BY <1>0, <1>6 DEF NotHeld, HoldInv, Hold
  <2>2. HeldBy(Occupy(swept, cost, cause, until), hold.until, hold.cause) = HeldBy(swept, hold.until, hold.cause)
    BY <1>0, <2>1, OccupyKeeps
  <2>3. HeldBy(swept, hold.until, hold.cause) = HeldBy(tokens, hold.until, hold.cause)
    BY <1>3, <1>6, <2>1, StillHeld
  <2> QED BY <2>2, <2>3
<1>7. ASSUME until \in LiveTicks PROVE Cardinality(HeldBy(Occupy(swept, cost, cause, until), until, cause)) = cost
  <2>1. HeldBy(swept, until, cause) = {}
    BY <1>0, <1>4, <1>7, NotHeldHasNone
  <2> QED BY <1>0, <2>1, OccupyHolds
<1> QED BY <1>5, <1>6, <1>7 DEF Paying, cause, until

(* The rail and the pool over an intent that is executed.                  *)
LEMMA ExecutePays ==
  ASSUME DoorAssumption, DoorShape, HoldInv, doorOpen, doorTick' = doorTick, doorOpen' = doorOpen,
         fed' = fed + 1, hands' = hands, pool' = pool,
         NEW verb \in Verb, NEW carrier \in BOOLEAN, NEW cause, EntryOf(verb, cause),
         NEW devicesAfter, NEW cablesAfter,
         Execute(verb, carrier, cause, devicesAfter, cablesAfter)
  PROVE  /\ draftHands' \in Rail \cup {<<>>} /\ draftPool' \in Pool
         /\ draftPool'.seeded => draftPool' = [pool EXCEPT !.tokens = draftPool'.tokens]
         /\ HandsNow' = IF HandCost[verb] > 0
                        THEN Occupy(HandsSwept, HandCost[verb], cause, BusyUntil(verb, cause)) ELSE HandsNow
         /\ (PoolNow.tokens)' = IF PaysAttention(verb, carrier)
                                THEN Occupy(Sweep(PoolNow.tokens), 1, cause, BusyUntil(verb, cause))
                                ELSE PoolNow.tokens
         /\ HandCost[verb] > 0 => Cardinality(FreeTokens(HandsSwept)) >= HandCost[verb]
         /\ PaysAttention(verb, carrier) => Cardinality(FreeTokens(Sweep(PoolNow.tokens))) >= 1
         /\ Affordable(verb, cause)
<1> DEFINE until == BusyUntil(verb, cause)
<1>1. cause \in Causes /\ until \in Nat /\ HandCost[verb] \in Nat
  BY EntryTypes
<1>2. /\ HandsSwept \in Rail /\ HandsSwept \in Seq(Token) /\ <<>> \notin Rail
      /\ PoolNow \in Pool /\ PoolNow.tokens \in Seq(Token) /\ Sweep(PoolNow.tokens) \in Seq(Token)
  BY RailAndPool
<1>3. /\ Affordable(verb, cause) /\ (PaysAttention(verb, carrier) => AttentionAffordable)
      /\ HandCost[verb] > 0 => Cardinality(FreeTokens(HandsSwept)) >= HandCost[verb]
  BY DEF Execute, Paid, Affordable
<1>4. PaysAttention(verb, carrier) => Cardinality(FreeTokens(Sweep(PoolNow.tokens))) >= 1
  <2> SUFFICES ASSUME PaysAttention(verb, carrier) PROVE Cardinality(FreeTokens(Sweep(PoolNow.tokens))) >= 1
    OBVIOUS
  <2>1. FreeTokens(Sweep(PoolNow.tokens)) # {}
    BY <1>3 DEF AttentionAffordable
  <2>2. IsFiniteSet(FreeTokens(Sweep(PoolNow.tokens)))
    BY <1>2, FreeIsFinite
  <2> QED BY <2>1, <2>2, FS_CardinalityType, FS_EmptySet
<1>5. /\ draftHands' \in Rail \cup {<<>>}
      /\ HandsNow' = IF HandCost[verb] > 0
                     THEN Occupy(HandsSwept, HandCost[verb], cause, until) ELSE HandsNow
  <2>1. CASE HandCost[verb] > 0
    <3>1. draftHands' = Occupy(HandsSwept, HandCost[verb], cause, until)
      BY <2>1 DEF Execute
    <3>2. Occupy(HandsSwept, HandCost[verb], cause, until) \in Rail
      <4>1. /\ Occupy(HandsSwept, HandCost[verb], cause, until) \in Seq(Token)
            /\ Len(Occupy(HandsSwept, HandCost[verb], cause, until)) = Len(HandsSwept)
        BY <1>1, <1>2, <1>3, <2>1, OccupyTypes
      <4> QED BY <1>2, <4>1 DEF Rail
    <3> HIDE DEF until
    <3>3. draftHands' # <<>>
      BY <1>2, <3>1, <3>2
    <3> QED BY <2>1, <3>1, <3>2, <3>3 DEF HandsNow
  <2>2. CASE ~(HandCost[verb] > 0)
    <3>1. draftHands' = draftHands
      BY <2>2 DEF Execute
    <3> QED BY <2>2, <3>1 DEF HandsNow, DoorShape
  <2> QED BY <2>1, <2>2
<1>6. /\ draftPool' \in Pool
      /\ draftPool'.seeded => draftPool' = [pool EXCEPT !.tokens = draftPool'.tokens]
      /\ (PoolNow.tokens)' = IF PaysAttention(verb, carrier)
                             THEN Occupy(Sweep(PoolNow.tokens), 1, cause, until) ELSE PoolNow.tokens
  <2>1. CASE PaysAttention(verb, carrier)
    <3> DEFINE after == Occupy(Sweep(PoolNow.tokens), 1, cause, until)
    <3>1. draftPool' = [PoolNow EXCEPT !.tokens = after]
      BY <2>1 DEF Execute
    <3>2. after \in Seq(Token)
      BY <1>1, <1>2, <1>4, <2>1, OccupyTypes
    <3> HIDE DEF after, until
    <3>3. PoolNow.seeded /\ PoolNow = [pool EXCEPT !.tokens = PoolNow.tokens]
      <4>1. PoolNow.seeded
        BY <1>3, <2>1 DEF AttentionAffordable
      <4>2. CASE draftPool.seeded
        BY <4>2 DEF PoolNow, DoorShape
      <4>3. CASE ~draftPool.seeded
        <5>1. pool \in Pool /\ PoolNow = pool
          BY <4>3 DEF PoolNow, DoorShape
        <5> QED BY <4>1, <5>1 DEF Pool
      <4> QED BY <4>1, <4>2, <4>3
    <3>4. draftPool' \in Pool /\ draftPool'.seeded /\ draftPool'.tokens = after
      BY <1>2, <3>1, <3>2, <3>3 DEF Pool
    <3>5. draftPool' = [pool EXCEPT !.tokens = after]
      <4>1. pool \in Pool
        BY DEF DoorShape
      <4> QED BY <3>1, <3>3, <4>1 DEF Pool
    <3>6. PoolNow' = draftPool'
      BY <3>4 DEF PoolNow
    <3> QED BY <2>1, <3>4, <3>5, <3>6 DEF after
  <2>2. CASE ~PaysAttention(verb, carrier)
    <3>1. draftPool' = draftPool
      BY <2>2 DEF Execute
    <3> QED BY <2>2, <3>1 DEF PoolNow, DoorShape
  <2> QED BY <2>1, <2>2
<1> QED BY <1>3, <1>4, <1>5, <1>6

(* An intent that is executed keeps what is lent, and is lent what it      *)
(* costs.                                                                  *)
LEMMA ExecuteLends ==
  ASSUME DoorAssumption, DoorShape, HoldInv, doorOpen, doorTick' = doorTick, doorOpen' = doorOpen,
         fed' = fed + 1, hands' = hands, pool' = pool,
         NEW verb \in Verb, NEW carrier \in BOOLEAN, NEW cause, EntryOf(verb, cause),
         NEW devicesAfter, NEW cablesAfter,
         Execute(verb, carrier, cause, devicesAfter, cablesAfter)
  PROVE  HoldInv' /\ NotHeld(cause) /\ standing' = standing \cup {NewHold(verb, carrier, cause)}
<1> DEFINE until == BusyUntil(verb, cause)
           cost == HandCost[verb]
           new == NewHold(verb, carrier, cause)
           attentive == PaysAttention(verb, carrier)
           H == HandsNow
           P == PoolNow.tokens
<1>1. /\ cause \in Causes /\ cause \in CausesFed' /\ cause # NoCause
      /\ until \in Nat /\ cost \in Nat /\ new \in Hold'
      /\ cost = 0 => until = doorTick
      /\ \A c \in Cable : cause = DrainOf(c) => verb = "disconnect-drain" /\ cost > 0 /\ until > doorTick
  BY EntryTypes
<1>2. /\ new.cause = cause /\ new.until = until /\ new.cost = cost /\ new.attention = attentive
      /\ standing' = standing \cup {new}
  BY DEF NewHold, Execute
<1>3. fed \in Nat /\ fed' \in Nat /\ fed <= fed' /\ doorTick \in Nat
  BY DEF DoorShape
<1>4. LiveTicks' = LiveTicks /\ LiveTicks = {t \in Nat : t > doorTick}
  BY <1>3 DEF LiveTicks
<1>5. CausesFed \subseteq CausesFed'
  BY <1>3, CausesGrow
<1>6. /\ H' = IF cost > 0 THEN Occupy(HandsSwept, cost, cause, until) ELSE H
      /\ P' = IF attentive THEN Occupy(Sweep(P), 1, cause, until) ELSE P
      /\ cost > 0 => Cardinality(FreeTokens(HandsSwept)) >= cost
      /\ attentive => Cardinality(FreeTokens(Sweep(P))) >= 1
      /\ Affordable(verb, cause)
  BY ExecutePays
<1>7. NotHeld(cause)
  BY <1>6, PaidIsNotHeld
<1>8. /\ H \in Seq(Token) /\ HandsSwept \in Seq(Token) /\ (HandsSwept = H \/ HandsSwept = Sweep(H))
      /\ P \in Seq(Token) /\ Sweep(P) \in Seq(Token)
  BY RailAndPool
<1>9. /\ standing \subseteq Hold /\ LentTo(standing, H, CausesFed, LiveTicks)
      /\ LentTo(standing, P, CausesFed, LiveTicks)
      /\ \A hold \in standing : hold.until \in LiveTicks => Holding(hold)
  BY DEF HoldInv
<1> HIDE DEF until, cost, new, attentive, H, P
<1>10. ASSUME cost > 0 PROVE Paying(H, Occupy(HandsSwept, cost, cause, until), cost, new)
  <2>1. Cardinality(FreeTokens(HandsSwept)) >= cost
    BY <1>6, <1>10
  <2>2. Payable(H, HandsSwept, cost, new.cause, new.until)
    BY <1>1, <1>2, <1>8, <1>9, <2>1 DEF Payable
  <2> QED BY <1>2, <1>5, <1>7, <2>2, PaymentHolds
<1>11. ASSUME attentive PROVE Paying(P, Occupy(Sweep(P), 1, cause, until), 1, new)
  <2>1. Cardinality(FreeTokens(Sweep(P))) >= 1
    BY <1>6, <1>11
  <2>2. Payable(P, Sweep(P), 1, new.cause, new.until)
    BY <1>1, <1>2, <1>8, <1>9, <2>1 DEF Payable
  <2> QED BY <1>2, <1>5, <1>7, <2>2, PaymentHolds
<1>12. /\ LentTo(standing \cup {new}, H, CausesFed', LiveTicks)
       /\ LentTo(standing \cup {new}, P, CausesFed', LiveTicks)
  BY <1>5, <1>9 DEF LentTo
<1>13. /\ LentTo(standing', H', CausesFed', LiveTicks')
       /\ \A hold \in standing : hold.until \in LiveTicks =>
            HeldBy(H', hold.until, hold.cause) = HeldBy(H, hold.until, hold.cause)
       /\ until \in LiveTicks => Cardinality(HeldBy(H', until, cause)) = cost
  <2>1. CASE cost > 0
    <3>1. H' = Occupy(HandsSwept, cost, cause, until)
      BY <1>6, <2>1
    <3> QED BY <1>2, <1>4, <1>10, <2>1, <3>1 DEF Paying
  <2>2. CASE ~(cost > 0)
    <3>1. H' = H /\ until \notin LiveTicks
      BY <1>1, <1>3, <1>4, <1>6, <2>2
    <3> QED BY <1>2, <1>4, <1>12, <3>1
  <2> QED BY <2>1, <2>2
<1>14. /\ LentTo(standing', P', CausesFed', LiveTicks')
       /\ \A hold \in standing : hold.until \in LiveTicks =>
            HeldBy(P', hold.until, hold.cause) = HeldBy(P, hold.until, hold.cause)
       /\ until \in LiveTicks /\ attentive => Cardinality(HeldBy(P', until, cause)) = 1
  <2>1. CASE attentive
    <3>1. P' = Occupy(Sweep(P), 1, cause, until)
      BY <1>6, <2>1
    <3> QED BY <1>2, <1>4, <1>11, <2>1, <3>1 DEF Paying
  <2>2. CASE ~attentive
    <3>1. P' = P
      BY <1>6, <2>2
    <3> QED BY <1>2, <1>4, <1>12, <2>2, <3>1
  <2> QED BY <2>1, <2>2
<1>15. standing' \subseteq Hold'
  <2>1. Hold \subseteq Hold'
    BY <1>5 DEF Hold
  <2> QED BY <1>1, <1>2, <1>9, <2>1
<1>16. ASSUME NEW hold \in standing', hold.until \in LiveTicks' PROVE Holding(hold)'
  <2>1. CASE hold \in standing
    <3>1. Holding(hold) /\ hold.until \in LiveTicks
      BY <1>4, <1>9, <1>16, <2>1
    <3>2. /\ HeldBy(H', hold.until, hold.cause) = HeldBy(H, hold.until, hold.cause)
          /\ HeldBy(P', hold.until, hold.cause) = HeldBy(P, hold.until, hold.cause)
      BY <1>13, <1>14, <2>1, <3>1
    <3> QED BY <3>1, <3>2 DEF Holding, H, P
  <2>2. CASE hold = new
    <3>1. until \in LiveTicks
      BY <1>2, <1>4, <1>16, <2>2
    <3>2. Cardinality(HeldBy(H', until, cause)) = cost /\ (attentive => Cardinality(HeldBy(P', until, cause)) = 1)
      BY <1>13, <1>14, <3>1
    <3> QED BY <1>2, <2>2, <3>2 DEF Holding, H, P
  <2> QED BY <1>2, <2>1, <2>2
<1>17. ASSUME NEW c \in Cable
       PROVE  /\ \A hold \in standing' : hold.cause = DrainOf(c) => hold.cost = HandCost["disconnect-drain"]
              /\ \A one, other \in DrainHolds(c)' : one = other
              /\ \A i \in DOMAIN H' : H'[i].cause = DrainOf(c) => H'[i].until \in LiveTicks'
  <2>1. cause = DrainOf(c) => cost = HandCost["disconnect-drain"] /\ until \in LiveTicks
    BY <1>1, <1>4 DEF cost
  <2>2. ASSUME NEW hold \in standing', hold.cause = DrainOf(c) PROVE hold.cost = HandCost["disconnect-drain"]
    <3>1. CASE hold \in standing
      BY <2>2, <3>1 DEF HoldInv
    <3>2. CASE hold = new
      BY <1>2, <2>1, <2>2, <3>2
    <3> QED BY <1>2, <3>1, <3>2
  <2>3. ASSUME NEW one \in DrainHolds(c)', NEW other \in DrainHolds(c)' PROVE one = other
    <3>1. /\ one \in standing \/ one = new
          /\ other \in standing \/ other = new
          /\ one.cause = DrainOf(c) /\ other.cause = DrainOf(c)
          /\ one.until \in LiveTicks /\ other.until \in LiveTicks
      BY <1>2, <1>4 DEF DrainHolds
    <3>2. CASE cause = DrainOf(c)
      BY <1>7, <3>1, <3>2 DEF NotHeld
    <3>3. CASE cause # DrainOf(c)
      <4>1. one \in DrainHolds(c) /\ other \in DrainHolds(c)
        BY <1>2, <3>1, <3>3 DEF DrainHolds
      <4> QED BY <4>1 DEF HoldInv
    <3> QED BY <3>2, <3>3
  <2>4. ASSUME NEW i \in DOMAIN H', H'[i].cause = DrainOf(c) PROVE H'[i].until \in LiveTicks'
    <3>1. \A j \in DOMAIN H : H[j].cause = DrainOf(c) => H[j].until \in LiveTicks
      BY DEF HoldInv, H
    <3>2. CASE ~(cost > 0)
      BY <1>4, <1>6, <2>4, <3>1, <3>2
    <3>3. CASE cost > 0
      <4> DEFINE after == Occupy(HandsSwept, cost, cause, until)
                 taken == First(FreeTokens(HandsSwept), cost)
      <4>1. H' = after
        BY <1>6, <3>3
      <4>2. /\ DOMAIN after = DOMAIN HandsSwept
            /\ \A j \in DOMAIN HandsSwept :
                 after[j] = IF j \in taken THEN [until |-> until, cause |-> cause] ELSE HandsSwept[j]
        BY <1>1, <1>6, <1>8, <3>3, OccupyTakes
      <4> HIDE DEF after, taken
      <4>3. CASE i \in taken
        <5>1. H'[i].until = until /\ H'[i].cause = cause
          BY <2>4, <4>1, <4>2, <4>3
        <5> QED BY <1>4, <2>1, <2>4, <5>1
      <4>4. CASE i \notin taken
        <5>1. i \in DOMAIN HandsSwept /\ H'[i] = HandsSwept[i]
          BY <2>4, <4>1, <4>2, <4>4
        <5>2. StillLent(H, HandsSwept, LiveTicks)
          BY <1>3, <1>4, <1>8, SweepLendsNothing
        <5>3. HandsSwept[i].cause # NoCause
          BY <2>4, <5>1 DEF DrainOf, NoCause
        <5>4. i \in DOMAIN H /\ HandsSwept[i] = H[i]
          BY <5>1, <5>2, <5>3 DEF StillLent
        <5> QED BY <1>4, <2>4, <3>1, <5>1, <5>4
      <4> QED BY <4>3, <4>4
    <3> QED BY <3>2, <3>3
  <2> QED BY <2>2, <2>3, <2>4
<1>18. HoldInv'
  BY <1>13, <1>14, <1>15, <1>16, <1>17 DEF HoldInv, H, P
<1> QED BY <1>2, <1>7, <1>18 DEF new

-----------------------------------------------------------------------------
(***************************************************************************)
(* The entries of a pass.                                                  *)
(***************************************************************************)
(* Every verb has a price but the change of speed, which the handler never *)
(* refuses at a speed there is.                                            *)
EveryOrderCosts ==
  /\ \A verb \in Verb \ {"toggle-speed"} : HandCost[verb] > 0
  /\ Speeds \subseteq {1, 2, 4}

DoorEntry(verb, carrier, cause, ok, devicesAfter, cablesAfter) ==
  /\ verb \in Verb /\ carrier \in BOOLEAN /\ ok \in BOOLEAN /\ EntryOf(verb, cause)
  /\ devicesAfter \subseteq Device /\ cablesAfter \subseteq Cable
  /\ HandCost[verb] > 0 \/ ok
  /\ Entry(verb, carrier, cause, ok, devicesAfter, cablesAfter)

SomeEntry == \E verb, carrier, cause, ok, devicesAfter, cablesAfter :
               DoorEntry(verb, carrier, cause, ok, devicesAfter, cablesAfter)

(* A step of the door is an entry, an end of a pass or a loan.             *)
LEMMA StepsOfTheDoor ==
  ASSUME DoorAssumption, EveryOrderCosts, DoorShape, DoorNext
  PROVE  SomeEntry \/ OpenPass \/ ClosePass \/ attentionWindowEntry \/ replenishAtBusinessMonth
<1>1. devices \subseteq Device /\ cables \subseteq Cable
  BY DEF DoorShape
<1>2. /\ HandCost["place-device"] > 0 /\ HandCost["connect-ports"] > 0 /\ HandCost["disconnect-drain"] > 0
      /\ HandCost["communicate"] > 0 /\ HandCost["order"] > 0
  BY DEF EveryOrderCosts, Verb
<1>3. EntryOf("place-device", Intent(fed + 1)) /\ \A verb : EntryOf(verb, Intent(fed + 1))
  BY DEF EntryOf
<1>4. CASE PlaceDevice
  <2>1. PICK device \in Device :
          Entry("place-device", FALSE, Intent(fed + 1), device \notin devices, devices \cup {device}, cables)
    BY <1>4 DEF PlaceDevice
  <2>2. DoorEntry("place-device", FALSE, Intent(fed + 1), device \notin devices, devices \cup {device}, cables)
    BY <1>1, <1>2, <1>3, <2>1 DEF DoorEntry, Verb
  <2> QED BY <2>2 DEF SomeEntry
<1>5. CASE ConnectPorts
  <2>1. PICK c \in Cable :
          Entry("connect-ports", FALSE, Intent(fed + 1), MayConnect(c), devices, cables \cup {c})
    BY <1>5 DEF ConnectPorts
  <2>2. MayConnect(c) \in BOOLEAN
    BY DEF MayConnect
  <2>3. DoorEntry("connect-ports", FALSE, Intent(fed + 1), MayConnect(c), devices, cables \cup {c})
    BY <1>1, <1>2, <1>3, <2>1, <2>2 DEF DoorEntry, Verb
  <2> QED BY <2>3 DEF SomeEntry
<1>6. CASE DisconnectDrain
  <2>1. PICK c \in Cable :
          IF drainMode THEN Entry("disconnect-drain", FALSE, DrainOf(c), c \in cables, devices, cables)
          ELSE Entry("disconnect-drain", FALSE, Intent(fed + 1), c \in cables, devices, cables \ {c})
    BY <1>6 DEF DisconnectDrain
  <2>2. EntryOf("disconnect-drain", DrainOf(c)) /\ (c \in cables) \in BOOLEAN /\ "disconnect-drain" \in Verb
    BY DEF EntryOf, Verb
  <2>3. CASE drainMode
    <3>1. Entry("disconnect-drain", FALSE, DrainOf(c), c \in cables, devices, cables)
      BY <2>1, <2>3
    <3>2. DoorEntry("disconnect-drain", FALSE, DrainOf(c), c \in cables, devices, cables)
      BY <1>1, <1>2, <2>2, <3>1 DEF DoorEntry
    <3> QED BY <3>2 DEF SomeEntry
  <2>4. CASE ~drainMode
    <3>1. Entry("disconnect-drain", FALSE, Intent(fed + 1), c \in cables, devices, cables \ {c})
      BY <2>1, <2>4
    <3>2. DoorEntry("disconnect-drain", FALSE, Intent(fed + 1), c \in cables, devices, cables \ {c})
      BY <1>1, <1>2, <1>3, <2>2, <3>1 DEF DoorEntry
    <3> QED BY <3>2 DEF SomeEntry
  <2> QED BY <2>3, <2>4
<1>7. CASE Communicate
  <2>1. PICK ok \in BOOLEAN : Entry("communicate", FALSE, Intent(fed + 1), ok, devices, cables)
    BY <1>7 DEF Communicate
  <2>2. DoorEntry("communicate", FALSE, Intent(fed + 1), ok, devices, cables)
    BY <1>1, <1>2, <1>3, <2>1 DEF DoorEntry, Verb
  <2> QED BY <2>2 DEF SomeEntry
<1>8. CASE ToggleSpeed
  <2>1. PICK speed \in Speeds : Entry("toggle-speed", FALSE, Intent(fed + 1), speed \in {1, 2, 4}, devices, cables)
    BY <1>8 DEF ToggleSpeed
  <2>2. speed \in {1, 2, 4}
    BY DEF EveryOrderCosts
  <2>3. DoorEntry("toggle-speed", FALSE, Intent(fed + 1), speed \in {1, 2, 4}, devices, cables)
    BY <1>1, <1>3, <2>1, <2>2 DEF DoorEntry, Verb
  <2> QED BY <2>3 DEF SomeEntry
<1>9. CASE Order
  <2>1. PICK carrier \in BOOLEAN, ok \in BOOLEAN : Entry("order", carrier, Intent(fed + 1), ok, devices, cables)
    BY <1>9 DEF Order
  <2>2. DoorEntry("order", carrier, Intent(fed + 1), ok, devices, cables)
    BY <1>1, <1>2, <1>3, <2>1 DEF DoorEntry, Verb
  <2> QED BY <2>2 DEF SomeEntry
<1> QED BY <1>4, <1>5, <1>6, <1>7, <1>8, <1>9 DEF DoorNext

(* What an entry leaves of the drafts, and that it is executed or refused. *)
LEMMA EntryEnds ==
  ASSUME DoorAssumption, DoorShape, HoldInv,
         NEW verb, NEW carrier, NEW cause, NEW ok, NEW devicesAfter, NEW cablesAfter,
         DoorEntry(verb, carrier, cause, ok, devicesAfter, cablesAfter)
  PROVE  /\ doorOpen /\ doorTick' = doorTick /\ doorOpen' = doorOpen /\ fed' = fed + 1
         /\ hands' = hands /\ pool' = pool /\ pulled' = pulled
         /\ \/ /\ draftHands' \in {draftHands, KeptHands} /\ draftPool' \in {draftPool, KeptPool}
               /\ UNCHANGED <<devices, cables, standing, begun>>
            \/ Execute(verb, carrier, cause, devicesAfter, cablesAfter)
<1>1. /\ doorOpen /\ doorTick' = doorTick /\ doorOpen' = doorOpen /\ fed' = fed + 1
      /\ hands' = hands /\ pool' = pool /\ pulled' = pulled
  BY DEF DoorEntry, Entry
<1>2. HandCost[verb] > 0 \/ ok
  BY DEF DoorEntry
<1>3. CASE RefuseUnpaid(verb, cause)
  BY <1>1, <1>3 DEF RefuseUnpaid
<1>4. CASE RefuseAttention(verb, carrier, cause)
  BY <1>1, <1>4 DEF RefuseAttention
<1>5. CASE ~ok /\ RefuseByHandler(verb, carrier, cause)
  BY <1>1, <1>2, <1>5 DEF RefuseByHandler
<1> QED BY <1>1, <1>3, <1>4, <1>5 DEF DoorEntry, Entry

(* An entry keeps the shape of the door and what is lent.                  *)
LEMMA EntryKeeps ==
  ASSUME DoorAssumption, DoorShape, HoldInv, SomeEntry
  PROVE  DoorShape' /\ HoldInv'
<1>1. PICK verb, carrier, cause, ok, devicesAfter, cablesAfter :
        DoorEntry(verb, carrier, cause, ok, devicesAfter, cablesAfter)
  BY DEF SomeEntry
<1>2. /\ doorOpen /\ doorTick' = doorTick /\ doorOpen' = doorOpen /\ fed' = fed + 1
      /\ hands' = hands /\ pool' = pool
      /\ \/ /\ draftHands' \in {draftHands, KeptHands} /\ draftPool' \in {draftPool, KeptPool}
            /\ UNCHANGED <<devices, cables, standing, begun>>
         \/ Execute(verb, carrier, cause, devicesAfter, cablesAfter)
  BY <1>1, EntryEnds
<1>3. /\ verb \in Verb /\ carrier \in BOOLEAN /\ EntryOf(verb, cause)
      /\ devicesAfter \subseteq Device /\ cablesAfter \subseteq Cable
  BY <1>1 DEF DoorEntry
<1>4. CASE /\ draftHands' \in {draftHands, KeptHands} /\ draftPool' \in {draftPool, KeptPool}
           /\ UNCHANGED <<devices, cables, standing, begun>>
  <2>1. HoldInv'
    BY <1>2, <1>4, RefusalLendsNothing
  <2>2. draftHands' \in Rail \cup {<<>>}
    BY <1>2, <1>4, DraftedHands
  <2>3. draftPool' \in Pool /\ (draftPool'.seeded => draftPool' = [pool EXCEPT !.tokens = draftPool'.tokens])
    BY <1>2, <1>4, DraftedPool
  <2>4. DoorShape'
    BY <1>2, <1>4, <2>2, <2>3 DEF DoorShape, Rail
  <2> QED BY <2>1, <2>4
<1>5. CASE Execute(verb, carrier, cause, devicesAfter, cablesAfter)
  <2>1. HoldInv'
    BY <1>2, <1>3, <1>5, ExecuteLends
  <2>2. /\ draftHands' \in Rail \cup {<<>>} /\ draftPool' \in Pool
        /\ draftPool'.seeded => draftPool' = [pool EXCEPT !.tokens = draftPool'.tokens]
    BY <1>2, <1>3, <1>5, ExecutePays
  <2>3. devices' = devicesAfter /\ cables' = cablesAfter
    BY <1>5 DEF Execute
  <2>4. DoorShape'
    BY <1>2, <1>3, <2>2, <2>3 DEF DoorShape, Rail
  <2> QED BY <2>1, <2>4
<1> QED BY <1>2, <1>4, <1>5

(* The pool has room for its tokens, and the debt counts the loans nobody  *)
(* has serviced.                                                           *)
PoolOwes ==
  /\ Len(PoolNow.tokens) <= AttentionCapacity
  /\ pool.debt = Cardinality(Unrepaid) /\ pool.debt <= AttentionCapacity

(* The beginning and the end of a pass keep the shape of the door.         *)
LEMMA PassKeepsShape ==
  ASSUME DoorAssumption, DoorShape, OpenPass \/ ClosePass
  PROVE  /\ DoorShape'
         /\ (PoolNow.tokens)' = PoolNow.tokens /\ pool'.debt = pool.debt /\ pool'.ledger = pool.ledger
<1>1. CASE OpenPass
  <2>1. draftHands' \in {draftHands, KeptHands} /\ hands' = hands
    BY <1>1 DEF OpenPass
  <2>2. draftHands' \in Rail \cup {<<>>}
    BY <2>1, DraftedHands
  <2>3. /\ doorTick' = doorTick /\ doorOpen' = TRUE /\ fed' = fed /\ pool' = pool /\ draftPool' = draftPool
        /\ devices' = devices /\ cables' \subseteq cables
    BY <1>1 DEF OpenPass
  <2>4. PoolNow' = PoolNow
    BY <2>3 DEF PoolNow
  <2> QED BY <2>1, <2>2, <2>3, <2>4 DEF DoorShape, Rail
<1>2. CASE ClosePass
  <2>1. /\ doorTick' = doorTick + 1 /\ doorOpen' = FALSE /\ fed' = fed /\ pool' = PoolNow /\ draftPool' = NoPool
        /\ draftHands' = <<>> /\ hands' = HandsNow /\ devices' = devices /\ cables' = cables
    BY <1>2 DEF ClosePass
  <2>2. HandsNow \in Rail /\ PoolNow \in Pool
    BY RailAndPool
  <2>3. NoPool \in Pool /\ ~NoPool.seeded
    <3>1. <<>> \in Seq(Token) /\ <<>> \in Seq(Loan)
      OBVIOUS
    <3> QED BY <3>1 DEF NoPool, Pool
  <2>4. PoolNow' = PoolNow
    BY <2>1, <2>3 DEF PoolNow
  <2>5. PoolNow.debt = pool.debt /\ PoolNow.ledger = pool.ledger
    <3>1. CASE draftPool.seeded
      <4>1. PoolNow = [pool EXCEPT !.tokens = draftPool.tokens] /\ pool \in Pool
        BY <3>1 DEF PoolNow, DoorShape
      <4> QED BY <4>1 DEF Pool
    <3>2. CASE ~draftPool.seeded
      BY <3>2 DEF PoolNow
    <3> QED BY <3>1, <3>2
  <2>6. DoorShape'
    <3>1. /\ draftHands' \in Rail' \cup {<<>>} /\ hands' \in Rail' /\ pool' \in Pool /\ draftPool' \in Pool
          /\ ~draftPool'.seeded
      BY <2>1, <2>2, <2>3 DEF Rail
    <3>2. doorTick' \in Nat /\ doorOpen' \in BOOLEAN /\ fed' \in Nat /\ devices' \subseteq Device /\ cables' \subseteq Cable
      <4>1. doorTick \in Nat /\ fed \in Nat /\ devices \subseteq Device /\ cables \subseteq Cable
        BY DEF DoorShape
      <4>2. doorOpen' \in BOOLEAN
        BY <2>1
      <4>3. doorTick' = doorTick + 1 /\ fed' = fed /\ devices' = devices /\ cables' = cables
        BY <2>1
      <4> QED BY <4>1, <4>2, <4>3
    <3> QED BY <2>1, <3>1, <3>2 DEF DoorShape
  <2> QED BY <2>1, <2>4, <2>5, <2>6
<1> QED BY <1>1, <1>2

(* A loan that is granted or serviced keeps the count of the loans.        *)
LEMMA LoansAreCounted ==
  ASSUME DoorAssumption, DoorShape, PoolOwes, attentionWindowEntry \/ replenishAtBusinessMonth
  PROVE  DoorShape' /\ PoolOwes'
<1> DEFINE s == pool.ledger
           t == pool'.ledger
<1>1. /\ doorTick' = doorTick /\ doorOpen' = doorOpen /\ ~doorOpen /\ fed' = fed /\ hands' = hands
      /\ draftHands' = draftHands /\ draftPool' = draftPool /\ devices' = devices /\ cables' = cables
  BY DEF attentionWindowEntry, replenishAtBusinessMonth
<1>2. /\ pool \in Pool /\ pool.seeded \in BOOLEAN /\ pool.tokens \in Seq(Token) /\ pool.debt \in Nat
      /\ s \in Seq(Loan) /\ pool.window \in Nat /\ AttentionCapacity \in Nat /\ AttentionCapacity > 0
      /\ ~draftPool.seeded /\ draftPool \in Pool
  BY <1>1 DEF DoorShape, Pool, DoorAssumption
<1>3. PoolNow = pool /\ PoolNow' = pool' /\ Len(pool.tokens) \in Nat /\ Len(pool.tokens) <= AttentionCapacity
  BY <1>1, <1>2 DEF PoolNow, PoolOwes
<1>4. Unrepaid \subseteq 1..Len(s) /\ IsFiniteSet(Unrepaid) /\ Len(s) \in Nat
  <2>1. Unrepaid \subseteq 1..Len(s) /\ Len(s) \in Nat
    BY <1>2 DEF Unrepaid
  <2>2. IsFiniteSet(1..Len(s))
    BY <2>1, FS_Interval
  <2> HIDE DEF s
  <2> QED BY <2>1, <2>2, FS_Subset
<1>5. \A i \in 1..Len(s) : s[i] \in Loan /\ s[i].repaid \in BOOLEAN
  <2>1. \A i \in 1..Len(s) : s[i] \in Loan
    BY <1>2
  <2> QED BY <2>1 DEF Loan
<1>6. CASE attentionWindowEntry
  <2> DEFINE loan == [repayAtWindow |-> pool.window + 1, repaid |-> FALSE]
             free == [until |-> 0, cause |-> NoCause]
  <2>1. /\ pool.debt < AttentionCapacity
        /\ pool'.seeded = pool.seeded /\ pool'.debt = pool.debt + 1 /\ pool'.window = pool.window + 1
        /\ t = Append(s, loan)
        /\ pool'.tokens = IF Len(pool.tokens) < AttentionCapacity THEN Append(pool.tokens, free) ELSE pool.tokens
    BY <1>2, <1>6 DEF attentionWindowEntry, Pool
  <2>2. loan \in Loan /\ loan.repaid = FALSE /\ free \in Token
    BY <1>2 DEF Loan, Token, Causes
  <2>3. pool'.tokens \in Seq(Token) /\ Len(pool'.tokens) <= AttentionCapacity
    <3> HIDE DEF free
    <3>1. Append(pool.tokens, free) \in Seq(Token) /\ Len(Append(pool.tokens, free)) = Len(pool.tokens) + 1
      BY <1>2, <2>2
    <3> QED BY <1>2, <1>3, <2>1, <3>1
  <2> HIDE DEF loan
  <2>4. /\ t \in Seq(Loan) /\ DOMAIN t = 1..Len(s) + 1 /\ t[Len(s) + 1] = loan
        /\ \A i \in 1..Len(s) : t[i] = s[i]
    BY <1>2, <2>1, <2>2
  <2>5. pool' = [seeded |-> pool'.seeded, tokens |-> pool'.tokens, debt |-> pool'.debt, ledger |-> t,
                 window |-> pool'.window]
    BY <1>2, <1>6 DEF attentionWindowEntry, Pool
  <2>6. pool' \in Pool
    <3> DEFINE a == pool'.seeded
               b == pool'.tokens
               d == pool'.debt
               w == pool'.window
    <3>1. a \in BOOLEAN /\ b \in Seq(Token) /\ d \in Nat /\ t \in Seq(Loan) /\ w \in Nat
      BY <1>2, <2>1, <2>3, <2>4
    <3>2. pool' = [seeded |-> a, tokens |-> b, debt |-> d, ledger |-> t, window |-> w]
      BY <2>5
    <3> HIDE DEF a, b, d, w, t
    <3> QED BY <3>1, <3>2 DEF Pool
  <2>7. Unrepaid' = Unrepaid \cup {Len(s) + 1} /\ Len(s) + 1 \notin Unrepaid
    <3>1. Unrepaid' = {i \in DOMAIN t : ~t[i].repaid} /\ Unrepaid = {i \in DOMAIN s : ~s[i].repaid}
      BY DEF Unrepaid
    <3>2. DOMAIN s = 1..Len(s)
      BY <1>2
    <3>3. \A i \in 1..Len(s) + 1 : i \in 1..Len(s) \/ i = Len(s) + 1
      BY <1>4
    <3>4. Len(s) + 1 \in 1..Len(s) + 1 /\ Len(s) + 1 \notin 1..Len(s) /\ \A i \in 1..Len(s) : i \in 1..Len(s) + 1
      BY <1>4
    <3>5. ~t[Len(s) + 1].repaid
      BY <2>2, <2>4
    <3> HIDE DEF t, s
    <3>6. Unrepaid' = Unrepaid \cup {Len(s) + 1}
      BY <2>4, <3>1, <3>2, <3>3, <3>4, <3>5
    <3> QED BY <1>4, <3>4, <3>6
  <2>8. Cardinality(Unrepaid') = Cardinality(Unrepaid) + 1
    BY <1>4, <2>7, FS_AddElement
  <2>9. PoolOwes'
    BY <1>2, <1>3, <2>1, <2>3, <2>8 DEF PoolOwes
  <2> QED BY <1>1, <1>2, <2>6, <2>9 DEF DoorShape, Rail
<1>7. CASE replenishAtBusinessMonth
  <2> DEFINE first == Min(Unrepaid)
  <2>1. first \in Unrepaid
    <3>1. Unrepaid # {} /\ Unrepaid \in SUBSET Nat
      BY <1>4, <1>7 DEF replenishAtBusinessMonth
    <3>2. \E k \in Unrepaid : \A j \in Unrepaid : k <= j
      BY <3>1, LeastNatural
    <3> QED BY <3>2 DEF Min
  <2> HIDE DEF first
  <2>2. first \in 1..Len(s) /\ s[first].repaid = FALSE /\ DOMAIN s = 1..Len(s)
    BY <1>2, <1>4, <1>5, <2>1 DEF Unrepaid
  <2>3. /\ pool'.seeded = pool.seeded /\ pool'.debt = pool.debt - 1 /\ pool'.window = pool.window
        /\ t = [s EXCEPT ![first].repaid = TRUE]
        /\ pool'.tokens = pool.tokens
    BY <1>2, <1>7 DEF replenishAtBusinessMonth, Pool, first
  <2>4. /\ t \in Seq(Loan) /\ DOMAIN t = 1..Len(s) /\ t[first].repaid = TRUE
        /\ \A i \in 1..Len(s) : i # first => t[i] = s[i]
    <3>1. [s[first] EXCEPT !.repaid = TRUE] \in Loan /\ [s[first] EXCEPT !.repaid = TRUE].repaid = TRUE
      BY <1>5, <2>2 DEF Loan
    <3>2. t = [s EXCEPT ![first] = [s[first] EXCEPT !.repaid = TRUE]]
      BY <2>3
    <3> QED BY <1>2, <2>2, <3>1, <3>2
  <2>5. Unrepaid' = Unrepaid \ {first}
    <3>1. Unrepaid' = {i \in DOMAIN t : ~t[i].repaid} /\ Unrepaid = {i \in DOMAIN s : ~s[i].repaid}
      BY DEF Unrepaid
    <3> HIDE DEF t, s
    <3> QED BY <2>2, <2>4, <3>1
  <2>6. Cardinality(Unrepaid') = Cardinality(Unrepaid) - 1
    BY <1>4, <2>1, <2>5, FS_RemoveElement
  <2>7. Cardinality(Unrepaid) \in Nat /\ Cardinality(Unrepaid) # 0
    BY <1>4, <2>1, FS_CardinalityType, FS_EmptySet
  <2>8. pool'.debt \in Nat /\ pool'.debt <= AttentionCapacity /\ pool'.debt = Cardinality(Unrepaid')
    BY <1>2, <2>3, <2>6, <2>7 DEF PoolOwes
  <2>9. pool' = [seeded |-> pool'.seeded, tokens |-> pool'.tokens, debt |-> pool'.debt, ledger |-> t,
                 window |-> pool'.window]
    BY <1>2, <1>7 DEF replenishAtBusinessMonth, Pool
  <2>10. pool' \in Pool
    <3> DEFINE a == pool'.seeded
               b == pool'.tokens
               d == pool'.debt
               w == pool'.window
    <3>1. a \in BOOLEAN /\ b \in Seq(Token) /\ d \in Nat /\ t \in Seq(Loan) /\ w \in Nat
      BY <1>2, <2>3, <2>4, <2>8
    <3>2. pool' = [seeded |-> a, tokens |-> b, debt |-> d, ledger |-> t, window |-> w]
      BY <2>9
    <3> HIDE DEF a, b, d, w, t
    <3> QED BY <3>1, <3>2 DEF Pool
  <2>11. PoolOwes'
    BY <1>3, <2>3, <2>8 DEF PoolOwes
  <2> QED BY <1>1, <1>2, <2>10, <2>11 DEF DoorShape, Rail
<1> QED BY <1>6, <1>7

-----------------------------------------------------------------------------
(***************************************************************************)
(* The door at every step.                                                 *)
(***************************************************************************)
DoorInv == DoorShape /\ HoldInv /\ PoolOwes

(* The door opens with a free rail, and a pool that owes nothing.          *)
LEMMA DoorOpens ==
  ASSUME DoorAssumption, DoorInit
  PROVE  DoorInv
<1> DEFINE free == [until |-> 0, cause |-> NoCause]
<1>1. HandCapacity \in Nat /\ AttentionCapacity \in Nat /\ PlacedAtStart \subseteq Device /\ PoolSeeded \in BOOLEAN
  BY DEF DoorAssumption
<1>2. free \in Token
  BY DEF Token, Causes
<1>3. hands = [i \in 1..HandCapacity |-> free] /\ hands \in Rail /\ draftHands = <<>>
  <2>1. hands = [i \in 1..HandCapacity |-> free] /\ draftHands = <<>>
    BY DEF DoorInit, mintHandState
  <2> HIDE DEF free
  <2>2. hands \in Seq(Token) /\ Len(hands) = HandCapacity
    BY <1>1, <1>2, <2>1
  <2> QED BY <2>1, <2>2 DEF Rail
<1>4. <<>> \in Seq(Token) /\ <<>> \in Seq(Loan)
  OBVIOUS
<1>5. /\ NoPool \in Pool /\ createAttentionState \in Pool /\ ~NoPool.seeded
      /\ NoPool.tokens = <<>> /\ createAttentionState.tokens = <<>>
      /\ NoPool.debt = 0 /\ createAttentionState.debt = 0
      /\ NoPool.ledger = <<>> /\ createAttentionState.ledger = <<>>
  BY <1>4 DEF NoPool, createAttentionState, Pool
<1>6. /\ pool \in Pool /\ pool.tokens = <<>> /\ pool.debt = 0 /\ pool.ledger = <<>>
      /\ draftPool \in Pool /\ ~draftPool.seeded
  BY <1>5 DEF DoorInit
<1>7. DoorShape
  BY <1>1, <1>3, <1>6 DEF DoorInit, DoorShape
<1>8. HandsNow = hands /\ PoolNow = pool
  BY <1>3, <1>6 DEF HandsNow, PoolNow
<1>9. standing = {}
  BY DEF DoorInit
<1>10. \A i \in DOMAIN HandsNow : HandsNow[i].cause = NoCause
  BY <1>3, <1>8
<1>11. PoolNow.tokens = <<>> /\ \A i \in DOMAIN PoolNow.tokens : FALSE
  BY <1>6, <1>8
<1>12. HoldInv
  <2>1. NoCause \in CausesFed /\ \A c \in Cable : NoCause # DrainOf(c)
    BY DEF CausesFed, DrainOf, NoCause
  <2>2. LentTo(standing, HandsNow, CausesFed, LiveTicks)
    BY <1>10, <2>1 DEF LentTo
  <2>3. LentTo(standing, PoolNow.tokens, CausesFed, LiveTicks)
    BY <1>11 DEF LentTo
  <2>4. \A c \in Cable : \A i \in DOMAIN HandsNow : HandsNow[i].cause = DrainOf(c) => HandsNow[i].until \in LiveTicks
    BY <1>10, <2>1
  <2>5. \A c \in Cable : DrainHolds(c) = {}
    BY <1>9 DEF DrainHolds
  <2> QED BY <1>9, <2>2, <2>3, <2>4, <2>5 DEF HoldInv
<1>13. Unrepaid = {}
  BY <1>6 DEF Unrepaid
<1>14. PoolOwes
  BY <1>1, <1>6, <1>11, <1>13, FS_EmptySet DEF PoolOwes
<1> QED BY <1>7, <1>12, <1>14 DEF DoorInv

(* Every step keeps shape, holds and debt.                                 *)
LEMMA DoorInvKept ==
  ASSUME DoorAssumption, EveryOrderCosts, DoorInv, [DoorNext]_doorVars
  PROVE  DoorInv'
<1> USE DEF DoorInv
<1>1. CASE SomeEntry
  <2>1. DoorShape' /\ HoldInv'
    BY <1>1, EntryKeeps
  <2>2. PICK verb, carrier, cause, ok, devicesAfter, cablesAfter :
          DoorEntry(verb, carrier, cause, ok, devicesAfter, cablesAfter)
    BY <1>1 DEF SomeEntry
  <2>3. /\ doorOpen /\ doorTick' = doorTick /\ doorOpen' = doorOpen /\ fed' = fed + 1
        /\ hands' = hands /\ pool' = pool
        /\ \/ draftPool' \in {draftPool, KeptPool}
           \/ Execute(verb, carrier, cause, devicesAfter, cablesAfter)
    BY <2>2, EntryEnds
  <2>4. /\ doorTick \in Nat /\ PoolNow.tokens \in Seq(Token) /\ Sweep(PoolNow.tokens) \in Seq(Token)
        /\ Len(Sweep(PoolNow.tokens)) = Len(PoolNow.tokens)
    <3>1. doorTick \in Nat /\ PoolNow.tokens \in Seq(Token) /\ Sweep(PoolNow.tokens) \in Seq(Token)
      BY RailAndPool DEF DoorShape
    <3> QED BY <3>1, SweepTypes
  <2>5. Len((PoolNow.tokens)') = Len(PoolNow.tokens)
    <3>1. CASE draftPool' \in {draftPool, KeptPool}
      BY <2>3, <2>4, <3>1, DraftedPool
    <3>2. CASE Execute(verb, carrier, cause, devicesAfter, cablesAfter)
      <4> DEFINE until == BusyUntil(verb, cause)
                 after == Occupy(Sweep(PoolNow.tokens), 1, cause, until)
      <4>1. verb \in Verb /\ carrier \in BOOLEAN /\ EntryOf(verb, cause)
        BY <2>2 DEF DoorEntry
      <4>2. (PoolNow.tokens)' = IF PaysAttention(verb, carrier) THEN after ELSE PoolNow.tokens
        BY <2>3, <3>2, <4>1, ExecutePays
      <4>3. cause \in Causes /\ until \in Nat
        BY <2>3, <4>1, EntryTypes
      <4> HIDE DEF until
      <4>4. Len(after) = Len(Sweep(PoolNow.tokens))
        <5>1. 1 \in Nat
          OBVIOUS
        <5> QED BY <2>4, <4>3, <5>1, OccupyTypes
      <4> HIDE DEF after
      <4> QED BY <2>4, <4>2, <4>4
    <3> QED BY <2>3, <3>1, <3>2
  <2>6. PoolOwes'
    BY <2>3, <2>5 DEF PoolOwes, Unrepaid
  <2> QED BY <2>1, <2>6
<1>2. CASE OpenPass \/ ClosePass
  <2>1. DoorShape' /\ (PoolNow.tokens)' = PoolNow.tokens /\ pool'.debt = pool.debt /\ pool'.ledger = pool.ledger
    BY <1>2, PassKeepsShape
  <2>2. HoldInv'
    BY <1>2, OpenPassLendsNothing, ClosePassLendsNothing
  <2>3. PoolOwes'
    BY <2>1 DEF PoolOwes, Unrepaid
  <2> QED BY <2>1, <2>2, <2>3
<1>3. CASE attentionWindowEntry \/ replenishAtBusinessMonth
  BY <1>3, LoansAreCounted, LoansLendNothing
<1>4. CASE UNCHANGED doorVars
  <2>1. /\ HandsNow' = HandsNow /\ PoolNow' = PoolNow /\ LiveTicks' = LiveTicks /\ CausesFed' = CausesFed
        /\ Unrepaid' = Unrepaid /\ pool' = pool /\ standing' = standing /\ Rail' = Rail
    BY <1>4 DEF doorVars, HandsNow, PoolNow, LiveTicks, CausesFed, Unrepaid, Rail
  <2>2. HoldInv'
    <3>1. Hold' = Hold /\ \A c \in Cable : DrainHolds(c)' = DrainHolds(c)
      BY <2>1 DEF Hold, DrainHolds
    <3>2. \A hold \in standing : Holding(hold)' = Holding(hold)
      BY <2>1 DEF Holding
    <3> QED BY <2>1, <3>1, <3>2 DEF HoldInv
  <2>3. PoolOwes'
    BY <2>1 DEF PoolOwes
  <2>4. DoorShape'
    BY <1>4, <2>1 DEF doorVars, DoorShape
  <2> QED BY <2>2, <2>3, <2>4
<1> QED BY <1>1, <1>2, <1>3, <1>4, StepsOfTheDoor

(* Shape, holds and debt in every state.                                   *)
LEMMA DoorInvAlways ==
  ASSUME EveryOrderCosts
  PROVE  DoorSpec => []DoorInv
<1>1. DoorInit => DoorInv
  BY DoorAssumption, DoorOpens
<1>2. DoorInv /\ [DoorNext]_doorVars => DoorInv'
  BY DoorAssumption, DoorInvKept
<1> QED BY <1>1, <1>2, PTL DEF DoorSpec

(* Type correctness of the door: rail and pool keep their size, tokens     *)
(* name causes that were fed, and the debt counts the open loans.          *)
THEOREM DoorTypeCorrect ==
  ASSUME EveryOrderCosts
  PROVE  DoorSpec => []DoorTypeOK
<1>1. DoorInv => DoorTypeOK
  <2> SUFFICES ASSUME DoorInv PROVE DoorTypeOK
    OBVIOUS
  <2>1. HandsNow \in Rail
    BY DoorAssumption, RailAndPool DEF DoorInv
  <2>2. \A i \in DOMAIN HandsNow : HandsNow[i].cause \in CausesFed
    BY DEF DoorInv, HoldInv, LentTo
  <2> QED BY <2>1, <2>2 DEF DoorInv, DoorTypeOK, DoorShape, PoolOwes, Rail, CausesFed
<1> QED BY <1>1, DoorInvAlways, PTL

(* An executed intent holds the hands it cost until the tick it was told,  *)
(* whatever is refused, drafted or swept in between.                       *)
THEOREM ExecutedIntentsHoldTheirHandsAlways ==
  ASSUME EveryOrderCosts
  PROVE  DoorSpec => []ExecutedIntentsHoldTheirHands
<1>1. DoorInv => ExecutedIntentsHoldTheirHands
  <2> SUFFICES ASSUME DoorInv, NEW hold \in standing, hold.until > doorTick
               PROVE  /\ Cardinality(HeldBy(HandsNow, hold.until, hold.cause)) = hold.cost
                      /\ hold.attention => Cardinality(HeldBy(PoolNow.tokens, hold.until, hold.cause)) = 1
    BY DEF ExecutedIntentsHoldTheirHands, HeldBy
  <2>1. hold.until \in LiveTicks
    BY DEF DoorInv, HoldInv, Hold, LiveTicks
  <2> QED BY <2>1 DEF DoorInv, HoldInv, Holding
<1> QED BY <1>1, DoorInvAlways, PTL

-----------------------------------------------------------------------------
(***************************************************************************)
(* Drains.                                                                 *)
(***************************************************************************)
DrainsCounted ==
  /\ begun \in [Cable -> Nat] /\ pulled \in [Cable -> Nat]
  /\ \A c \in Cable : begun[c] = pulled[c] + Cardinality(DrainHolds(c))

(* The drains that are begun and not over are the live holds.              *)
LEMMA DrainsToCome ==
  ASSUME DoorInv, NEW c \in Cable
  PROVE  DrainHolds(c) = {hold \in standing : /\ hold.cause = DrainOf(c)
                                              /\ hold.until > doorTick \/ (hold.until = doorTick /\ ~doorOpen)}
<1>1. \A hold \in standing : hold.until \in Nat
  BY DEF DoorInv, HoldInv, Hold
<1> QED BY <1>1 DEF DrainHolds, LiveTicks

(* Two drains of a cable are not booked at a time.                         *)
LEMMA OneDrainEach ==
  ASSUME DoorInv, NEW c \in Cable
  PROVE  Cardinality(DrainHolds(c)) \in Nat
<1>1. \A one, other \in DrainHolds(c) : one = other
  BY DEF DoorInv, HoldInv
<1>2. CASE DrainHolds(c) = {}
  BY <1>2, FS_EmptySet
<1>3. CASE DrainHolds(c) # {}
  <2>1. PICK hold : DrainHolds(c) = {hold}
    BY <1>1, <1>3
  <2> QED BY <2>1, FS_Singleton
<1> QED BY <1>2, <1>3

(* The hands that are free when a pass begins and were booked for a cable  *)
(* are those its drain holds until now.                                    *)
LEMMA DueHands ==
  ASSUME DoorInv, ~doorOpen, NEW c \in Cable
  PROVE  LET due == {i \in DOMAIN hands : hands[i].cause[1] = "drain" /\ hands[i].until <= doorTick}
             dueAt == [i \in due |-> hands[i].cause[2]]
         IN  {i \in due : dueAt[i] = c} = HeldBy(hands, doorTick, DrainOf(c))
<1> DEFINE due == {i \in DOMAIN hands : hands[i].cause[1] = "drain" /\ hands[i].until <= doorTick}
           dueAt == [i \in due |-> hands[i].cause[2]]
<1>1. HandsNow = hands /\ doorTick \in Nat /\ hands \in Seq(Token)
  BY DEF DoorInv, DoorShape, HandsNow, Rail
<1>2. \A i \in DOMAIN hands : hands[i] \in Token
  BY <1>1
<1>3. ASSUME NEW i \in DOMAIN hands
      PROVE  hands[i].cause = DrainOf(c) <=> hands[i].cause[1] = "drain" /\ hands[i].cause[2] = c
  <2>1. hands[i].cause \in Causes
    BY <1>2 DEF Token
  <2>2. \A d \in Cable : DrainOf(d)[1] = "drain" /\ DrainOf(d)[2] = d
    BY DEF DrainOf
  <2>3. NoCause[1] # "drain" /\ \A n \in Nat : Intent(n)[1] # "drain"
    BY DEF NoCause, Intent
  <2> QED BY <2>1, <2>2, <2>3 DEF Causes
<1>4. ASSUME NEW i \in DOMAIN hands, hands[i].cause = DrainOf(c)
      PROVE  hands[i].until <= doorTick <=> hands[i].until = doorTick
  <2>1. hands[i].until \in LiveTicks
    BY <1>1, <1>4 DEF DoorInv, HoldInv
  <2> QED BY <1>1, <2>1 DEF LiveTicks
<1>5. ASSUME NEW i \in DOMAIN hands
      PROVE  hands[i] = [until |-> doorTick, cause |-> DrainOf(c)] <=>
               hands[i].until = doorTick /\ hands[i].cause = DrainOf(c)
  BY <1>2 DEF Token
<1>6. \A i \in DOMAIN hands : (i \in due /\ dueAt[i] = c) <=> hands[i] = [until |-> doorTick, cause |-> DrainOf(c)]
  BY <1>3, <1>4, <1>5
<1>7. due \subseteq DOMAIN hands
  OBVIOUS
<1> HIDE DEF due, dueAt
<1>8. {i \in due : dueAt[i] = c} = HeldBy(hands, doorTick, DrainOf(c))
  BY <1>6, <1>7 DEF HeldBy
<1> QED BY <1>8 DEF due, dueAt

(* A pass that begins pulls the cables whose drains are over.              *)
LEMMA OpenPassPulls ==
  ASSUME DoorAssumption, HandCost["disconnect-drain"] = 1, DoorInv, DrainsCounted, OpenPass
  PROVE  DrainsCounted'
<1> DEFINE due == {i \in DOMAIN hands : hands[i].cause[1] = "drain" /\ hands[i].until <= doorTick}
           dueAt == [i \in due |-> hands[i].cause[2]]
           Pulls(c) == Cardinality({i \in due : dueAt[i] = c})
<1>1. /\ ~doorOpen /\ doorOpen' = TRUE /\ doorTick' = doorTick /\ standing' = standing /\ begun' = begun
      /\ pulled' = [c \in Cable |-> pulled[c] + Pulls(c)]
  BY DEF OpenPass
<1>2. doorTick \in Nat /\ HandsNow = hands /\ hands \in Seq(Token)
  BY <1>1 DEF DoorInv, DoorShape, HandsNow, Rail
<1>3. LiveTicks' = {t \in LiveTicks : t # doorTick} /\ doorTick \in LiveTicks
  BY <1>1, <1>2 DEF LiveTicks
<1>4. ASSUME NEW c \in Cable
      PROVE  Pulls(c) \in Nat /\ Cardinality(DrainHolds(c)) = Pulls(c) + Cardinality(DrainHolds(c)')
  <2>1. Pulls(c) = Cardinality(HeldBy(hands, doorTick, DrainOf(c)))
    BY <1>1, DueHands
  <2> HIDE DEF Pulls
  <2>2. DrainHolds(c)' = {hold \in DrainHolds(c) : hold.until # doorTick}
    BY <1>1, <1>3 DEF DrainHolds
  <2>3. \A one, other \in DrainHolds(c) : one = other
    BY DEF DoorInv, HoldInv
  <2>4. CASE \E hold \in DrainHolds(c) : hold.until = doorTick
    <3>1. PICK hold \in DrainHolds(c) : hold.until = doorTick
      BY <2>4
    <3>2. DrainHolds(c) = {hold} /\ DrainHolds(c)' = {}
      BY <2>2, <2>3, <3>1
    <3>3. hold \in standing /\ hold.cause = DrainOf(c) /\ hold.until \in LiveTicks
      BY DEF DrainHolds
    <3>4. hold.cost = 1 /\ Cardinality(HeldBy(hands, doorTick, DrainOf(c))) = hold.cost
      BY <1>2, <3>1, <3>3 DEF DoorInv, HoldInv, Holding
    <3>5. Cardinality(DrainHolds(c)) = 1 /\ Cardinality(DrainHolds(c)') = 0
      BY <3>2, FS_Singleton, FS_EmptySet
    <3> QED BY <2>1, <3>4, <3>5
  <2>5. CASE ~ \E hold \in DrainHolds(c) : hold.until = doorTick
    <3>1. DrainHolds(c)' = DrainHolds(c)
      BY <2>2, <2>5
    <3>2. HeldBy(hands, doorTick, DrainOf(c)) = {}
      <4> SUFFICES ASSUME NEW i \in DOMAIN hands, hands[i] = [until |-> doorTick, cause |-> DrainOf(c)]
                   PROVE  FALSE
        BY DEF HeldBy
      <4>1. hands[i].until = doorTick /\ hands[i].cause = DrainOf(c) /\ DrainOf(c) # NoCause
        BY DEF DrainOf, NoCause
      <4>2. PICK hold \in standing : hold.cause = DrainOf(c) /\ hold.until = doorTick
        <5>1. LentTo(standing, hands, CausesFed, LiveTicks)
          BY <1>2 DEF DoorInv, HoldInv
        <5>2. hands[i].until \in LiveTicks /\ hands[i].cause # NoCause
          BY <1>3, <4>1
        <5>3. \E hold \in standing : hold.cause = hands[i].cause /\ hold.until = hands[i].until
          BY <5>1, <5>2 DEF LentTo
        <5> QED BY <4>1, <5>3
      <4> QED BY <1>3, <2>5, <4>2 DEF DrainHolds
    <3>3. Pulls(c) = 0
      BY <2>1, <3>2, FS_EmptySet
    <3> QED BY <3>1, <3>3, OneDrainEach
  <2> QED BY <2>4, <2>5
<1> HIDE DEF Pulls
<1>5. pulled' \in [Cable -> Nat] /\ begun' \in [Cable -> Nat]
  BY <1>1, <1>4 DEF DrainsCounted
<1>6. ASSUME NEW c \in Cable PROVE begun'[c] = pulled'[c] + Cardinality(DrainHolds(c)')
  <2>1. begun[c] = pulled[c] + Cardinality(DrainHolds(c)) /\ pulled[c] \in Nat
    BY DEF DrainsCounted
  <2>2. Cardinality(DrainHolds(c)) = Pulls(c) + Cardinality(DrainHolds(c)') /\ Pulls(c) \in Nat
    BY <1>4
  <2>3. Cardinality(DrainHolds(c)') \in Nat
    <3>1. DrainHolds(c)' \subseteq DrainHolds(c) /\ \A one, other \in DrainHolds(c) : one = other
      BY <1>1, <1>3 DEF DrainHolds, DoorInv, HoldInv
    <3>2. CASE DrainHolds(c)' = {}
      BY <3>2, FS_EmptySet
    <3>3. CASE DrainHolds(c)' # {}
      <4>1. DrainHolds(c)' = DrainHolds(c)
        BY <3>1, <3>3
      <4> QED BY <4>1, OneDrainEach
    <3> QED BY <3>2, <3>3
  <2> QED BY <1>1, <2>1, <2>2, <2>3
<1> QED BY <1>5, <1>6 DEF DrainsCounted

(* An entry that begins a drain books it; the others leave the drains.     *)
LEMMA EntryBooks ==
  ASSUME DoorAssumption, DoorInv, DrainsCounted, SomeEntry
  PROVE  DrainsCounted'
<1>1. PICK verb, carrier, cause, ok, devicesAfter, cablesAfter :
        DoorEntry(verb, carrier, cause, ok, devicesAfter, cablesAfter)
  BY DEF SomeEntry
<1>2. /\ doorOpen /\ doorTick' = doorTick /\ doorOpen' = doorOpen /\ fed' = fed + 1
      /\ hands' = hands /\ pool' = pool /\ pulled' = pulled
      /\ \/ UNCHANGED <<standing, begun>>
         \/ Execute(verb, carrier, cause, devicesAfter, cablesAfter)
  BY <1>1, EntryEnds DEF DoorInv
<1>3. verb \in Verb /\ carrier \in BOOLEAN /\ EntryOf(verb, cause)
  BY <1>1 DEF DoorEntry
<1>4. LiveTicks' = LiveTicks /\ LiveTicks = {t \in Nat : t > doorTick}
  <2>1. doorTick \in Nat
    BY DEF DoorInv, DoorShape
  <2> QED BY <1>2, <2>1 DEF LiveTicks
<1>5. CASE UNCHANGED <<standing, begun>>
  <2>1. \A c \in Cable : DrainHolds(c)' = DrainHolds(c)
    BY <1>4, <1>5 DEF DrainHolds
  <2> QED BY <1>2, <1>5, <2>1 DEF DrainsCounted
<1>6. CASE Execute(verb, carrier, cause, devicesAfter, cablesAfter)
  <2> DEFINE new == NewHold(verb, carrier, cause)
  <2>1. NotHeld(cause) /\ standing' = standing \cup {new}
    BY <1>2, <1>3, <1>6, ExecuteLends DEF DoorInv
  <2>2. begun' = [c \in Cable |-> begun[c] + IF cause = DrainOf(c) THEN 1 ELSE 0]
    BY <1>6 DEF Execute
  <2>3. new.cause = cause /\ new.until = BusyUntil(verb, cause)
    BY DEF NewHold
  <2>4. /\ BusyUntil(verb, cause) \in Nat
        /\ \A c \in Cable : cause = DrainOf(c) => BusyUntil(verb, cause) > doorTick
    BY <1>2, <1>3, EntryTypes DEF DoorInv
  <2> HIDE DEF new
  <2>5. ASSUME NEW c \in Cable
        PROVE  begun'[c] \in Nat /\ begun'[c] = pulled'[c] + Cardinality(DrainHolds(c)')
    <3>1. begun[c] = pulled[c] + Cardinality(DrainHolds(c)) /\ begun[c] \in Nat /\ pulled[c] \in Nat
      BY DEF DrainsCounted
    <3>2. begun'[c] = begun[c] + IF cause = DrainOf(c) THEN 1 ELSE 0
      BY <2>2
    <3>3. CASE cause = DrainOf(c)
      <4>1. DrainHolds(c) = {}
        BY <2>1, <3>3 DEF DrainHolds, NotHeld
      <4>2. new.until \in LiveTicks
        BY <1>4, <2>3, <2>4, <3>3
      <4>3. DrainHolds(c)' = {new}
        BY <1>4, <2>1, <2>3, <3>3, <4>1, <4>2 DEF DrainHolds
      <4>4. Cardinality(DrainHolds(c)) = 0 /\ Cardinality(DrainHolds(c)') = 1
        BY <4>1, <4>3, FS_EmptySet, FS_Singleton
      <4> QED BY <1>2, <3>1, <3>2, <3>3, <4>4
    <3>4. CASE cause # DrainOf(c)
      <4>1. DrainHolds(c)' = DrainHolds(c)
        BY <1>4, <2>1, <2>3, <3>4 DEF DrainHolds
      <4> QED BY <1>2, <3>1, <3>2, <3>4, <4>1
    <3> QED BY <3>3, <3>4
  <2>6. begun' \in [Cable -> Nat] /\ pulled' \in [Cable -> Nat]
    BY <1>2, <2>2, <2>5 DEF DrainsCounted
  <2> QED BY <2>5, <2>6 DEF DrainsCounted
<1> QED BY <1>2, <1>5, <1>6

(* A drain that was begun pulls its cable once, in the pass in which its   *)
(* hand is free again.  The door emits a pull for every matured token, so  *)
(* this takes a drain to cost one hand, as it does by default.             *)
THEOREM DrainsPullOnceAlways ==
  ASSUME EveryOrderCosts, HandCost["disconnect-drain"] = 1
  PROVE  DoorSpec => []DrainsPullOnce
<1>1. DoorInit => DrainsCounted
  <2> SUFFICES ASSUME DoorInit PROVE DrainsCounted
    OBVIOUS
  <2>1. \A c \in Cable : DrainHolds(c) = {}
    BY DEF DoorInit, DrainHolds
  <2>2. /\ begun = [c \in Cable |-> 0] /\ pulled = [c \in Cable |-> 0]
    BY DEF DoorInit
  <2> QED BY <2>1, <2>2, FS_EmptySet DEF DrainsCounted
<1>2. DoorInv /\ DrainsCounted /\ [DoorNext]_doorVars => DrainsCounted'
  <2> SUFFICES ASSUME DoorInv, DrainsCounted, [DoorNext]_doorVars PROVE DrainsCounted'
    OBVIOUS
  <2>1. CASE SomeEntry
    BY <2>1, DoorAssumption, EntryBooks
  <2>2. CASE OpenPass
    BY <2>2, DoorAssumption, OpenPassPulls
  <2>3. CASE ClosePass
    <3>1. LiveTicks' = LiveTicks /\ begun' = begun /\ pulled' = pulled
      BY <2>3, DoorAssumption, ClosePassLendsNothing DEF DoorInv, ClosePass
    <3>2. standing' = {hold \in standing : hold.until > doorTick} /\ doorOpen
      BY <2>3 DEF ClosePass
    <3>3. \A c \in Cable : DrainHolds(c)' = DrainHolds(c)
      BY <3>1, <3>2 DEF DrainHolds, LiveTicks
    <3> QED BY <3>1, <3>3 DEF DrainsCounted
  <2>4. CASE attentionWindowEntry \/ replenishAtBusinessMonth \/ UNCHANGED doorVars
    <3>1. /\ standing' = standing /\ begun' = begun /\ pulled' = pulled /\ doorTick' = doorTick
          /\ doorOpen' = doorOpen
      BY <2>4 DEF attentionWindowEntry, replenishAtBusinessMonth, doorVars
    <3>2. \A c \in Cable : DrainHolds(c)' = DrainHolds(c)
      BY <3>1 DEF DrainHolds, LiveTicks
    <3> QED BY <3>1, <3>2 DEF DrainsCounted
  <2> QED BY <2>1, <2>2, <2>3, <2>4, DoorAssumption, StepsOfTheDoor DEF DoorInv
<1>3. DoorInv /\ DrainsCounted => DrainsPullOnce
  <2> SUFFICES ASSUME DoorInv, DrainsCounted PROVE DrainsPullOnce
    OBVIOUS
  <2>1. \A c \in Cable : begun[c] = pulled[c] + Cardinality(DrainHolds(c))
    BY DEF DrainsCounted
  <2> QED BY <2>1, DrainsToCome DEF DrainsPullOnce
<1> QED BY <1>1, <1>2, <1>3, DoorInvAlways, PTL DEF DoorSpec

-----------------------------------------------------------------------------
(***************************************************************************)
(* The feed is a forest.                                                   *)
(***************************************************************************)
(* The devices the walk of powerCycle has found after k steps.             *)
Walks(f, from) ==
  /\ f \in [0..Cardinality(Device) -> SUBSET Device]
  /\ f[0] = SuppliersOf({from})
  /\ \A k \in 0..Cardinality(Device) - 1 : f[k + 1] = f[k] \cup SuppliersOf(f[k])

(* What PowerCycle denotes: the walk ends, with a set of devices each time.*)
LEMMA PowerCycleWalks ==
  ASSUME DoorAssumption, IsFiniteSet(Device), cables \subseteq Cable, NEW from, NEW to
  PROVE  \E f : Walks(f, from) /\ (PowerCycle(from, to) <=> to \in f[Cardinality(Device)])
<1> DEFINE n == Cardinality(Device)
           A == SUBSET Device
           base == SuppliersOf({from})
           Next(a) == a \cup SuppliersOf(a)
           step == [k \in 1..n |-> [a \in A |-> Next(a)]]
           Walk(f) == f = [k \in 0..n |-> IF k = 0 THEN SuppliersOf({from})
                                          ELSE f[k - 1] \cup SuppliersOf(f[k - 1])]
           walk == CHOOSE f : Walk(f)
<1>1. n \in Nat
  BY FS_CardinalityType
<1>2. \A some : SuppliersOf(some) \in A
  BY DEF SuppliersOf, DoorAssumption
<1>3. step \in [1..n -> [A -> A]]
  BY <1>2
<1>4. \E f : Walk(f)
  <2>1. PICK f \in [0..n -> A] : f[0] = base /\ \A k \in 1..n : f[k] = step[k][f[k - 1]]
    <3> HIDE DEF step, n, base, A
    <3>1. step \in Steps(A, n)
      BY <1>3 DEF Steps
    <3>2. base \in A
      BY <1>2 DEF base
    <3>3. \E f : IsChain(f, A, base, n, step)
      BY <1>1, <3>1, <3>2, ChainExists
    <3> QED BY <3>3 DEF IsChain
  <2>2. ASSUME NEW k \in 1..n PROVE f[k] = Next(f[k - 1])
    <3> HIDE DEF A, Next
    <3>1. f[k - 1] \in A
      BY <1>1, <2>1
    <3>2. f[k] = step[k][f[k - 1]] /\ step[k] = [a \in A |-> Next(a)]
      BY <2>1
    <3> QED BY <3>1, <3>2
  <2>3. Walk(f)
    <3> HIDE DEF step
    <3>1. \A k \in 0..n : f[k] = IF k = 0 THEN base ELSE Next(f[k - 1])
      <4> HIDE DEF Next, A, base
      <4> QED BY <2>1, <2>2, <1>1
    <3> QED BY <2>1, <3>1
  <2> QED BY <2>3
<1>5. Walk(walk)
  <2> HIDE DEF Walk
  <2> QED BY <1>4
<1>6. walk[0] = base /\ \A k \in 0..n - 1 : walk[k + 1] = Next(walk[k])
  <2> HIDE DEF walk
  <2>1. \A k \in 0..n : walk[k] = IF k = 0 THEN base ELSE Next(walk[k - 1])
    BY <1>5
  <2> HIDE DEF Next, base
  <2>2. walk[0] = base
    BY <2>1, <1>1
  <2>3. ASSUME NEW k \in 0..n - 1 PROVE walk[k + 1] = Next(walk[k])
    <3>1. k + 1 \in 0..n /\ k + 1 # 0 /\ k + 1 - 1 = k
      BY <1>1
    <3>2. walk[k + 1] = Next(walk[k + 1 - 1])
      BY <2>1, <3>1
    <3> QED BY <3>1, <3>2
  <2> QED BY <2>2, <2>3
<1>7. \A k \in Nat : k \in {m \in Nat : m <= n => walk[m] \in A}
  <2> DEFINE Typed == {m \in Nat : m <= n => walk[m] \in A}
  <2> HIDE DEF walk
  <2>1. 0 \in Typed
    BY <1>2, <1>6
  <2>2. ASSUME NEW m \in Nat, m \in Typed PROVE m + 1 \in Typed
    <3> SUFFICES ASSUME m + 1 <= n PROVE walk[m + 1] \in A
      OBVIOUS
    <3>1. m \in 0..n - 1 /\ walk[m] \in A
      BY <2>2, <1>1
    <3> QED BY <1>2, <1>6, <3>1
  <2> HIDE DEF Typed
  <2>3. \A m \in Nat : m \in Typed
    BY <2>1, <2>2, SetInduction
  <2> QED BY <2>3 DEF Typed
<1>8. DOMAIN walk = 0..n /\ walk = [k \in 0..n |-> walk[k]]
  <2> HIDE DEF walk
  <2> QED BY <1>5
<1>9. walk \in [0..n -> A]
  <2> HIDE DEF walk
  <2> QED BY <1>1, <1>7, <1>8
<1>10. PowerCycle(from, to) <=> to \in walk[n]
  BY DEF PowerCycle
<1> HIDE DEF walk
<1> QED BY <1>6, <1>9, <1>10 DEF Walks

(* After k steps all suppliers are found, or one more device each step.    *)
WalkGrows(f, from, k) ==
  /\ SuppliersOf({from}) \subseteq f[k]
  /\ SuppliersOf(f[k]) \subseteq f[k] \/ Cardinality(f[k]) >= k + 1

(* The walk ends in a set that is closed under suppliers: as long as it is *)
(* not closed it grows, and there are only so many devices.                *)
LEMMA WalkIsClosed ==
  ASSUME IsFiniteSet(Device), NEW f, NEW from, Walks(f, from)
  PROVE  /\ SuppliersOf({from}) \subseteq f[Cardinality(Device)]
         /\ SuppliersOf(f[Cardinality(Device)]) \subseteq f[Cardinality(Device)]
<1> DEFINE n == Cardinality(Device)
           Closed(k) == SuppliersOf(f[k]) \subseteq f[k]
           Grown == {k \in Nat : k <= n => WalkGrows(f, from, k)}
<1>1. n \in Nat
  BY FS_CardinalityType
<1>2. /\ f[0] = SuppliersOf({from})
      /\ \A k \in 0..n : f[k] \subseteq Device
      /\ \A k \in 0..n - 1 : f[k + 1] = f[k] \cup SuppliersOf(f[k])
  BY DEF Walks
<1> HIDE DEF n
<1>3. ASSUME NEW k \in 0..n
      PROVE  IsFiniteSet(f[k]) /\ Cardinality(f[k]) \in Nat /\ Cardinality(f[k]) <= n
  <2>1. f[k] \subseteq Device
    BY <1>2
  <2> QED BY <2>1, FS_Subset, FS_CardinalityType DEF n
<1>4. 0 \in Grown
  <2> SUFFICES WalkGrows(f, from, 0)
    OBVIOUS
  <2> USE DEF WalkGrows
  <2>1. CASE f[0] = {}
    <3>1. SuppliersOf(f[0]) = {}
      BY <2>1 DEF SuppliersOf
    <3> QED BY <1>2, <3>1
  <2>2. CASE f[0] # {}
    <3>1. 0 \in 0..n
      BY <1>1
    <3>2. Cardinality(f[0]) \in Nat /\ Cardinality(f[0]) # 0
      BY <1>3, <2>2, <3>1, FS_EmptySet
    <3> QED BY <1>2, <3>2
  <2> QED BY <2>1, <2>2
<1>5. ASSUME NEW k \in Nat, k \in Grown PROVE k + 1 \in Grown
  <2> SUFFICES ASSUME k + 1 <= n PROVE WalkGrows(f, from, k + 1)
    OBVIOUS
  <2>1. k \in 0..n /\ k + 1 \in 0..n /\ k \in 0..n - 1 /\ k <= n
    BY <1>1
  <2>3. SuppliersOf({from}) \subseteq f[k] /\ (Closed(k) \/ Cardinality(f[k]) >= k + 1)
    <3>1. WalkGrows(f, from, k)
      BY <1>5, <2>1
    <3> QED BY <3>1 DEF WalkGrows
  <2>2. f[k + 1] = f[k] \cup SuppliersOf(f[k]) /\ SuppliersOf({from}) \subseteq f[k]
    BY <1>2, <2>1, <2>3
  <2>4. CASE Closed(k)
    <3>1. f[k + 1] = f[k]
      BY <2>2, <2>4
    <3> QED BY <2>2, <2>4, <3>1 DEF WalkGrows
  <2>5. CASE ~Closed(k)
    <3>1. PICK x \in f[k + 1] : x \notin f[k]
      BY <2>2, <2>5
    <3>2. IsFiniteSet(f[k]) /\ IsFiniteSet(f[k + 1]) /\ Cardinality(f[k]) \in Nat /\ Cardinality(f[k + 1]) \in Nat
      BY <1>3, <2>1
    <3>3. Cardinality(f[k] \cup {x}) = Cardinality(f[k]) + 1
      BY <3>1, <3>2, FS_AddElement
    <3>4. f[k] \cup {x} \subseteq f[k + 1]
      BY <2>2, <3>1
    <3>5. Cardinality(f[k] \cup {x}) <= Cardinality(f[k + 1])
      BY <3>2, <3>4, FS_Subset
    <3>6. Cardinality(f[k + 1]) >= k + 1 + 1
      BY <2>3, <2>5, <3>2, <3>3, <3>5
    <3> QED BY <2>2, <3>6 DEF WalkGrows
  <2> QED BY <2>4, <2>5
<1> HIDE DEF Grown
<1>6. n \in Grown
  BY <1>1, <1>4, <1>5, SetInduction
<1>7. n \in 0..n /\ n <= n
  BY <1>1
<1>8. SuppliersOf({from}) \subseteq f[n] /\ (Closed(n) \/ Cardinality(f[n]) >= n + 1)
  <2>1. WalkGrows(f, from, n)
    BY <1>6, <1>7 DEF Grown
  <2> QED BY <2>1 DEF WalkGrows
<1>9. Cardinality(f[n]) \in Nat /\ Cardinality(f[n]) <= n
  BY <1>3, <1>7
<1>10. Closed(n)
  BY <1>1, <1>8, <1>9
<1> QED BY <1>8, <1>10 DEF n

(* What a set of cables feeds from some devices.                           *)
FedBy(plugged, some) == {CableTo[c] : c \in {d \in plugged \cap PowerCable : CableFrom[d] \in some}}

OneSupplierEach(plugged) ==
  \A c, d \in plugged \cap PowerCable :
    CableTo[c] = CableTo[d] /\ CableSocket[c] = CableSocket[d] => c = d

NoLoop(plugged) == \A loop \in (SUBSET Device) \ {{}} : ~ loop \subseteq FedBy(plugged, loop)

(* A cable from a device that is not fed by the other end closes no loop.  *)
LEMMA ConnectClosesNoLoop ==
  ASSUME DoorAssumption, IsFiniteSet(Device), cables \subseteq Cable, NoLoop(cables),
         NEW c \in Cable, MayConnect(c), c \in PowerCable
  PROVE  NoLoop(cables \cup {c})
<1> DEFINE from == CableFrom[c]
           to == CableTo[c]
           F == cables \cap PowerCable
<1>1. from \in Device /\ to \in Device /\ from # to /\ ~PowerCycle(from, to)
  BY DEF MayConnect, DoorAssumption
<1>2. PICK f : Walks(f, from) /\ (PowerCycle(from, to) <=> to \in f[Cardinality(Device)])
  BY PowerCycleWalks
<1> DEFINE up == f[Cardinality(Device)] \cup {from}
<1>3. to \notin up
  BY <1>1, <1>2
<1>4. \A d \in F : CableTo[d] \in up => CableFrom[d] \in up
  <2> SUFFICES ASSUME NEW d \in F, CableTo[d] \in up PROVE CableFrom[d] \in up
    OBVIOUS
  <2>1. /\ SuppliersOf({from}) \subseteq f[Cardinality(Device)]
        /\ SuppliersOf(f[Cardinality(Device)]) \subseteq f[Cardinality(Device)]
    BY <1>2, WalkIsClosed
  <2>2. CASE CableTo[d] = from
    <3>1. CableFrom[d] \in SuppliersOf({from})
      BY <2>2 DEF SuppliersOf
    <3> QED BY <2>1, <3>1
  <2>3. CASE CableTo[d] \in f[Cardinality(Device)]
    <3>1. CableFrom[d] \in SuppliersOf(f[Cardinality(Device)])
      BY <2>3 DEF SuppliersOf
    <3> QED BY <2>1, <3>1
  <2> QED BY <2>2, <2>3
<1> HIDE DEF up, from, to
<1> SUFFICES ASSUME NEW loop \in (SUBSET Device) \ {{}}, loop \subseteq FedBy(cables \cup {c}, loop) PROVE FALSE
  BY DEF NoLoop
<1>5. \A x \in loop : \E d \in F \cup {c} : CableTo[d] = x /\ CableFrom[d] \in loop
  BY DEF FedBy
<1>6. from \in loop
  <2> SUFFICES ASSUME from \notin loop PROVE FALSE
    OBVIOUS
  <2>1. \A x \in loop : \E d \in F : CableTo[d] = x /\ CableFrom[d] \in loop
    BY <1>5 DEF from
  <2>2. loop \subseteq FedBy(cables, loop)
    BY <2>1 DEF FedBy
  <2> QED BY <2>2 DEF NoLoop
<1> DEFINE inner == loop \cap up
<1>7. inner \in (SUBSET Device) \ {{}}
  BY <1>6 DEF up
<1>8. ASSUME NEW x \in inner PROVE \E d \in F : CableTo[d] = x /\ CableFrom[d] \in inner
  <2>1. PICK d \in F \cup {c} : CableTo[d] = x /\ CableFrom[d] \in loop
    BY <1>5
  <2>2. d # c
    BY <1>3, <2>1 DEF to
  <2> QED BY <1>4, <2>1, <2>2
<1> HIDE DEF inner
<1>9. inner \subseteq FedBy(cables, inner)
  BY <1>8 DEF FedBy
<1> QED BY <1>7, <1>9 DEF NoLoop

(* A step takes cables out, or plugs one that may be connected.            *)
LEMMA CablesOverAStep ==
  ASSUME [DoorNext]_doorVars
  PROVE  cables' \subseteq cables \/ \E c \in Cable : MayConnect(c) /\ cables' = cables \cup {c}
<1>1. ASSUME NEW verb, NEW carrier, NEW cause, NEW ok, NEW devicesAfter, NEW cablesAfter,
             Entry(verb, carrier, cause, ok, devicesAfter, cablesAfter)
      PROVE  cables' = cables \/ (ok /\ cables' = cablesAfter)
  BY <1>1 DEF Entry, RefuseUnpaid, RefuseAttention, RefuseByHandler, Execute
<1>2. CASE PlaceDevice
  BY <1>1, <1>2 DEF PlaceDevice
<1>3. CASE ConnectPorts
  <2>1. PICK c \in Cable :
          Entry("connect-ports", FALSE, Intent(fed + 1), MayConnect(c), devices, cables \cup {c})
    BY <1>3 DEF ConnectPorts
  <2>2. cables' = cables \/ (MayConnect(c) /\ cables' = cables \cup {c})
    BY <1>1, <2>1
  <2> QED BY <2>2
<1>4. CASE DisconnectDrain
  <2>1. PICK c \in Cable :
          \/ Entry("disconnect-drain", FALSE, DrainOf(c), c \in cables, devices, cables)
          \/ Entry("disconnect-drain", FALSE, Intent(fed + 1), c \in cables, devices, cables \ {c})
    BY <1>4 DEF DisconnectDrain
  <2>2. cables' = cables \/ cables' = cables \ {c}
    BY <1>1, <2>1
  <2> QED BY <2>2
<1>5. CASE Communicate
  BY <1>1, <1>5 DEF Communicate
<1>6. CASE ToggleSpeed
  BY <1>1, <1>6 DEF ToggleSpeed
<1>7. CASE Order
  BY <1>1, <1>7 DEF Order
<1>8. CASE OpenPass
  BY <1>8 DEF OpenPass
<1>9. CASE ClosePass \/ attentionWindowEntry \/ replenishAtBusinessMonth \/ UNCHANGED doorVars
  BY <1>9 DEF ClosePass, attentionWindowEntry, replenishAtBusinessMonth, doorVars
<1> QED BY <1>2, <1>3, <1>4, <1>5, <1>6, <1>7, <1>8, <1>9 DEF DoorNext

(* However devices are plugged, drained and plugged again: every socket    *)
(* has one supplier, and nothing feeds itself, directly or not.            *)
THEOREM PowerIsATreeAlways ==
  ASSUME IsFiniteSet(Device)
  PROVE  DoorSpec => []PowerIsATree
<1> DEFINE Tree == cables \subseteq Cable /\ OneSupplierEach(cables) /\ NoLoop(cables)
<1>1. DoorInit => Tree
  <2> SUFFICES ASSUME cables = {} PROVE Tree
    BY DEF DoorInit
  <2>1. \A loop : FedBy(cables, loop) = {}
    BY DEF FedBy
  <2>2. ASSUME NEW loop \in (SUBSET Device) \ {{}}, loop \subseteq FedBy(cables, loop) PROVE FALSE
    <3>1. FedBy(cables, loop) = {} /\ loop # {}
      BY <2>1
    <3> QED BY <2>2, <3>1
  <2>3. NoLoop(cables)
    BY <2>2 DEF NoLoop
  <2> QED BY <2>3 DEF OneSupplierEach
<1>2. Tree /\ [DoorNext]_doorVars => Tree'
  <2> SUFFICES ASSUME Tree, [DoorNext]_doorVars PROVE Tree'
    OBVIOUS
  <2>1. CASE cables' \subseteq cables
    <3>1. \A loop : FedBy(cables', loop) \subseteq FedBy(cables, loop)
      BY <2>1 DEF FedBy
    <3>2. NoLoop(cables')
      BY <3>1 DEF NoLoop
    <3>3. OneSupplierEach(cables')
      BY <2>1 DEF OneSupplierEach
    <3> QED BY <2>1, <3>2, <3>3
  <2>2. ASSUME NEW c \in Cable, MayConnect(c), cables' = cables \cup {c} PROVE Tree'
    <3>1. CASE c \notin PowerCable
      <4>1. cables' \cap PowerCable = cables \cap PowerCable
        BY <2>2, <3>1
      <4>2. \A loop : FedBy(cables', loop) = FedBy(cables, loop)
        BY <4>1 DEF FedBy
      <4>3. NoLoop(cables')
        BY <4>2 DEF NoLoop
      <4>4. OneSupplierEach(cables')
        BY <4>1 DEF OneSupplierEach
      <4> QED BY <2>2, <4>3, <4>4
    <3>2. CASE c \in PowerCable
      <4>1. NoLoop(cables')
        BY <2>2, <3>2, DoorAssumption, ConnectClosesNoLoop
      <4>2. \A d \in cables \cap PowerCable : <<CableTo[d], CableSocket[d]>> # <<CableTo[c], CableSocket[c]>>
        BY <2>2, <3>2 DEF MayConnect
      <4>3. \A d \in cables \cap PowerCable : ~(CableTo[d] = CableTo[c] /\ CableSocket[d] = CableSocket[c])
        BY <4>2
      <4>4. OneSupplierEach(cables')
        BY <2>2, <4>3 DEF OneSupplierEach
      <4> QED BY <2>2, <4>1, <4>4
    <3> QED BY <3>1, <3>2
  <2> QED BY <2>1, <2>2, CablesOverAStep
<1>3. Tree => PowerIsATree
  BY DEF PowerIsATree, OneSupplierEach, NoLoop, FedBy
<1> QED BY <1>1, <1>2, <1>3, PTL DEF DoorSpec
=============================================================================
