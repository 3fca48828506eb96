-------------------------- MODULE CoopRelay_proofs --------------------------
(***************************************************************************)
(* Theorems about the co-op relay, for every set of participants, every    *)
(* number of seats and every bound.  First what the operations of the seat *)
(* ledger return and what the laws of validateCoopSeatLedger, which probe  *)
(* neighbours and join instants only, say of any two rows and of every     *)
(* tick; then the relay's log, inboxes and pages; last that the relay      *)
(* implements the shared timeline.                                         *)
(***************************************************************************)
EXTENDS CoopRelay, DataFacts, FiniteSetTheorems

-----------------------------------------------------------------------------
(* The position of the first row the seat does not follow exists.          *)
LEMMA InsertsWhereItBelongs ==
  ASSUME NEW rows \in Seq(Row), NEW seat \in Row
  PROVE  LET k == InsertPosition(rows, seat)
         IN  /\ k \in 1..(Len(rows) + 1)
             /\ \A i \in 1..(k-1) : SeatBefore(rows[i], seat)
             /\ k <= Len(rows) => ~SeatBefore(rows[k], seat)
<1> DEFINE First(k) == /\ \A i \in 1..(k-1) : SeatBefore(rows[i], seat)
                       /\ k <= Len(rows) => ~SeatBefore(rows[k], seat)
           Stops == {k \in 1..Len(rows) : ~SeatBefore(rows[k], seat)}
<1>1. \E k \in 1..(Len(rows) + 1) : First(k)
  <2>1. CASE Stops = {}
    <3>1. First(Len(rows) + 1)
      BY <2>1
    <3> QED BY <3>1
  <2>2. CASE Stops # {}
    <3>1. Stops \in SUBSET Nat
      OBVIOUS
    <3>2. PICK k \in Stops : \A j \in Stops : k <= j
      <4> HIDE DEF Stops
      <4> QED BY <2>2, <3>1, LeastNatural
    <3>3. First(k)
      BY <3>2
    <3> QED BY <3>3
  <2> QED BY <2>1, <2>2
<1> HIDE DEF First
<1>2. InsertPosition(rows, seat) = CHOOSE k \in 1..(Len(rows) + 1) : First(k)
  BY DEF InsertPosition, First
<1>3. InsertPosition(rows, seat) \in 1..(Len(rows) + 1) /\ First(InsertPosition(rows, seat))
  BY <1>1, <1>2
<1> QED BY <1>3 DEF First

(* Seating puts the seat into the ledger and moves the rows behind it.     *)
Inserted(rows, next, seat, k) ==
  next = [i \in 1..(Len(rows) + 1) |-> IF i < k THEN rows[i] ELSE IF i = k THEN seat ELSE rows[i-1]]

(* The ledger after a seating is the one before with the seat inserted.    *)
LEMMA SeatParticipantInserts ==
  ASSUME NEW rows \in Seq(Row), NEW seat \in Row
  PROVE  /\ SeatParticipant(rows, seat) \in Seq(Row)
         /\ \E k \in 1..(Len(rows) + 1) : Inserted(rows, SeatParticipant(rows, seat), seat, k)
<1> DEFINE k == InsertPosition(rows, seat)
           n == Len(rows)
           next == SeatParticipant(rows, seat)
<1>1. k \in 1..(n + 1) /\ n \in Nat /\ DOMAIN rows = 1..n
  BY InsertsWhereItBelongs
<1>2. next = [i \in 1..(n + 1) |-> IF i < k THEN rows[i] ELSE IF i = k THEN seat ELSE rows[i-1]]
  BY DEF SeatParticipant
<1>3. Inserted(rows, next, seat, k)
  BY <1>2 DEF Inserted
<1> HIDE DEF k, n, next
<1>4. next \in Seq(Row)
  <2>1. \A i \in 1..(n + 1) : next[i] \in Row
    BY <1>1, <1>2
  <2> QED BY <1>1, <1>2, <2>1, IsASeq
<1> QED BY <1>1, <1>3, <1>4 DEF next, n

(* The rows of the new ledger are the old ones and the seat.               *)
LEMMA SeatParticipantRows ==
  ASSUME NEW rows \in Seq(Row), NEW seat \in Row
  PROVE  LET next == SeatParticipant(rows, seat)
         IN  /\ next \in Seq(Row)
             /\ \A i \in DOMAIN rows : \E j \in DOMAIN next : next[j] = rows[i]
             /\ \E j \in DOMAIN next : next[j] = seat
             /\ \A j \in DOMAIN next : next[j] = seat \/ \E i \in DOMAIN rows : next[j] = rows[i]
<1> DEFINE n == Len(rows)
           next == SeatParticipant(rows, seat)
<1>1. next \in Seq(Row) /\ n \in Nat /\ DOMAIN rows = 1..n
  BY SeatParticipantInserts
<1>2. PICK k \in 1..(n + 1) : Inserted(rows, next, seat, k)
  BY SeatParticipantInserts
<1> HIDE DEF next
<1>3. /\ next = [i \in 1..(n + 1) |-> IF i < k THEN rows[i] ELSE IF i = k THEN seat ELSE rows[i-1]]
      /\ DOMAIN next = 1..(n + 1)
  BY <1>2 DEF Inserted
<1> HIDE DEF n
<1>4. ASSUME NEW i \in DOMAIN rows PROVE \E j \in DOMAIN next : next[j] = rows[i]
  <2>1. CASE i < k
    <3>1. i \in DOMAIN next /\ next[i] = rows[i]
      BY <1>1, <1>3, <2>1
    <3> QED BY <3>1
  <2>2. CASE i >= k
    <3>1. i + 1 \in DOMAIN next /\ next[i + 1] = rows[i]
      BY <1>1, <1>3, <2>2
    <3> QED BY <3>1
  <2> QED BY <1>1, <2>1, <2>2
<1>5. k \in DOMAIN next /\ next[k] = seat
  BY <1>1, <1>3
<1>6. ASSUME NEW j \in DOMAIN next
      PROVE  next[j] = seat \/ \E i \in DOMAIN rows : next[j] = rows[i]
  <2>1. CASE j < k
    <3>1. j \in DOMAIN rows /\ next[j] = rows[j]
      BY <1>1, <1>3, <2>1
    <3> QED BY <3>1
  <2>2. CASE j > k
    <3>1. j - 1 \in DOMAIN rows /\ next[j] = rows[j - 1]
      BY <1>1, <1>3, <2>2
    <3> QED BY <3>1
  <2>3. CASE j = k
    BY <1>5, <2>3
  <2> QED BY <1>1, <1>3, <2>1, <2>2, <2>3
<1> QED BY <1>1, <1>4, <1>5, <1>6 DEF next

(* The seat is a row of its own beside the ones that were there.           *)
LEMMA SeatParticipantAdds ==
  ASSUME NEW rows \in Seq(Row), NEW seat \in Row
  PROVE  LET next == SeatParticipant(rows, seat)
         IN  \E new \in DOMAIN next :
               /\ next[new] = seat
               /\ \A i \in DOMAIN rows : \E j \in DOMAIN next \ {new} : next[j] = rows[i]
<1> DEFINE n == Len(rows)
           next == SeatParticipant(rows, seat)
<1>1. n \in Nat /\ DOMAIN rows = 1..n
  OBVIOUS
<1>2. PICK k \in 1..(n + 1) : Inserted(rows, next, seat, k)
  BY SeatParticipantInserts
<1> HIDE DEF next
<1>3. /\ next = [i \in 1..(n + 1) |-> IF i < k THEN rows[i] ELSE IF i = k THEN seat ELSE rows[i-1]]
      /\ DOMAIN next = 1..(n + 1)
  BY <1>2 DEF Inserted
<1> HIDE DEF n
<1>4. k \in DOMAIN next /\ next[k] = seat
  BY <1>1, <1>3
<1>5. ASSUME NEW i \in DOMAIN rows PROVE \E j \in DOMAIN next \ {k} : next[j] = rows[i]
  <2>1. CASE i < k
    <3>1. i \in DOMAIN next \ {k} /\ next[i] = rows[i]
      BY <1>1, <1>3, <2>1
    <3> QED BY <3>1
  <2>2. CASE i >= k
    <3>1. i + 1 \in DOMAIN next \ {k} /\ next[i + 1] = rows[i]
      BY <1>1, <1>3, <2>2
    <3> QED BY <3>1
  <2> QED BY <1>1, <2>1, <2>2
<1> QED BY <1>4, <1>5 DEF next

ClosesOneRow(rows, next, p, tick) ==
  \E k \in OpenRows(rows, p) :
    /\ next[k] = [rows[k] EXCEPT !.leftAtTick = tick]
    /\ \A i \in DOMAIN rows \ {k} : next[i] = rows[i]

(* Vacating closes one open row of the participant and keeps the rest.     *)
LEMMA VacateSeatRows ==
  ASSUME NEW rows \in Seq(Row), NEW p \in Participant, NEW tick \in Nat,
         OpenRows(rows, p) # {}
  PROVE  LET next == VacateSeat(rows, p, tick)
         IN  /\ next \in Seq(Row)
             /\ DOMAIN next = DOMAIN rows
             /\ ClosesOneRow(rows, next, p, tick)
<1> DEFINE O == OpenRows(rows, p)
           k == CHOOSE i \in O : \A j \in O : j <= i
           next == VacateSeat(rows, p, tick)
<1>1. k \in O
  <2> DEFINE Above == {Len(rows) - i : i \in O}
  <2>1. O \subseteq 1..Len(rows)
    BY DEF OpenRows
  <2>2. Above \in SUBSET Nat /\ Above # {}
    BY <2>1
  <2>3. PICK a \in Above : \A b \in Above : a <= b
    <3> HIDE DEF Above
    <3> QED BY <2>2, LeastNatural
  <2>4. PICK i \in O : a = Len(rows) - i
    BY <2>3
  <2>5. ASSUME NEW j \in O PROVE j <= i
    <3>1. Len(rows) - j \in Above
      OBVIOUS
    <3>2. a <= Len(rows) - j
      BY <2>3, <3>1
    <3>3. i \in Nat /\ j \in Nat /\ Len(rows) \in Nat
      BY <2>1
    <3> QED BY <2>4, <3>2, <3>3
  <2> QED BY <2>5
<1>2. next = [rows EXCEPT ![k].leftAtTick = tick]
  BY DEF VacateSeat
<1>3. k \in DOMAIN rows /\ rows[k] \in Row
  BY <1>1 DEF OpenRows
<1> HIDE DEF k, next, O
<1>4. [rows[k] EXCEPT !.leftAtTick = tick] \in Row
  BY <1>3 DEF Row
<1>5. next = [rows EXCEPT ![k] = [rows[k] EXCEPT !.leftAtTick = tick]]
  BY <1>2, <1>3
<1>6. next \in Seq(Row) /\ DOMAIN next = DOMAIN rows
  BY <1>3, <1>4, <1>5, ExceptSeq
<1>7. next[k] = [rows[k] EXCEPT !.leftAtTick = tick] /\ \A i \in DOMAIN rows \ {k} : next[i] = rows[i]
  BY <1>3, <1>5
<1>8. ClosesOneRow(rows, next, p, tick)
  BY <1>1, <1>7 DEF ClosesOneRow, O
<1> QED BY <1>6, <1>8 DEF next

-----------------------------------------------------------------------------
(***************************************************************************)
(* The laws of a valid ledger.                                             *)
(***************************************************************************)

(* The fields of a row.                                                    *)
LEMMA RowFields ==
  ASSUME NEW rows \in Seq(Row), NEW i \in DOMAIN rows
  PROVE  /\ rows[i].participantId \in Nat /\ rows[i].participantId \in Participant
         /\ rows[i].joinedAtTick \in Nat
         /\ IsOpen(rows[i]) \/ rows[i].leftAtTick \in Nat
<1>1. rows[i] \in Row
  OBVIOUS
<1> QED BY <1>1, ParticipantAssumption DEF Row, IsOpen

(* The canonical order, which the ledger checks between neighbours, holds  *)
(* between any two rows.                                                   *)
LEMMA RowsAscend ==
  ASSUME NEW rows \in Seq(Row), CanonicalOrder(rows),
         NEW i \in DOMAIN rows, NEW j \in DOMAIN rows, i < j
  PROVE  SeatBefore(rows[i], rows[j])
<1> DEFINE Bad == {k \in (i + 1)..Len(rows) : ~SeatBefore(rows[i], rows[k])}
<1>1. DOMAIN rows = 1..Len(rows) /\ Len(rows) \in Nat
  OBVIOUS
<1>2. SUFFICES Bad = {}
  BY <1>1
<1>3. SUFFICES ASSUME Bad # {} PROVE FALSE
  OBVIOUS
<1>4. PICK k \in Bad : \A l \in Bad : k <= l
  <2>1. Bad \in SUBSET Nat
    BY <1>1
  <2> HIDE DEF Bad
  <2> QED BY <1>3, <2>1, LeastNatural
<1>5. k \in (i + 1)..Len(rows) /\ ~SeatBefore(rows[i], rows[k])
  OBVIOUS
<1>6. SeatBefore(rows[k-1], rows[k])
  BY <1>1, <1>5 DEF CanonicalOrder
<1>7. k # i + 1
  BY <1>1, <1>5, <1>6
<1>8. k - 1 \in (i + 1)..Len(rows) /\ k - 1 \notin Bad
  BY <1>1, <1>4, <1>5, <1>7
<1>9. SeatBefore(rows[i], rows[k-1])
  BY <1>8
<1> HIDE DEF Bad
<1>10. k - 1 \in DOMAIN rows /\ k \in DOMAIN rows
  BY <1>1, <1>5, <1>8
<1>11. SeatBefore(rows[i], rows[k])
  BY <1>6, <1>9, <1>10, RowFields DEF SeatBefore
<1> QED BY <1>5, <1>11

(* A participant's tenures do not overlap, neighbours in the ledger or     *)
(* not.                                                                    *)
LEMMA TenuresFollow ==
  ASSUME NEW rows \in Seq(Row), CanonicalOrder(rows), OneTenureAtATime(rows),
         NEW i \in DOMAIN rows, NEW j \in DOMAIN rows, i < j,
         rows[i].participantId = rows[j].participantId
  PROVE  ~IsOpen(rows[i]) /\ rows[j].joinedAtTick >= rows[i].leftAtTick
<1> DEFINE Same == {k \in (i + 1)..j : rows[k].participantId = rows[i].participantId}
<1>1. DOMAIN rows = 1..Len(rows) /\ Len(rows) \in Nat /\ i \in Nat /\ j \in Nat
  OBVIOUS
<1>2. PICK k \in Same : \A l \in Same : k <= l
  <2>1. Same \in SUBSET Nat /\ j \in Same
    BY <1>1
  <2> HIDE DEF Same
  <2> QED BY <2>1, LeastNatural
<1>3. k \in DOMAIN rows /\ i < k /\ k <= j /\ rows[k].participantId = rows[i].participantId
  BY <1>1
<1>4. \A l \in (i + 1)..(k - 1) : rows[l].participantId # rows[i].participantId
  <2> SUFFICES ASSUME NEW l \in (i + 1)..(k - 1), rows[l].participantId = rows[i].participantId
               PROVE  FALSE
    OBVIOUS
  <2>1. l \in Same
    BY <1>1, <1>3
  <2> QED BY <1>2, <1>3, <2>1
<1>5. ~IsOpen(rows[i]) /\ rows[k].joinedAtTick >= rows[i].leftAtTick
  BY <1>3, <1>4 DEF OneTenureAtATime
<1>6. CASE k = j
  BY <1>5, <1>6
<1>7. CASE k < j
  <2>1. SeatBefore(rows[k], rows[j])
    BY <1>3, <1>7, RowsAscend
  <2>2. rows[j].joinedAtTick >= rows[k].joinedAtTick
    BY <1>3, <2>1, RowFields DEF SeatBefore
  <2> QED BY <1>3, <1>5, <2>2, RowFields
<1> QED BY <1>1, <1>3, <1>6, <1>7

(* The seats taken at a tick are finitely many.                            *)
LEMMA OpenSeatsFinite ==
  ASSUME NEW rows \in Seq(Row), NEW tick
  PROVE  IsFiniteSet(OpenSeats(rows, tick)) /\ OpenSeats(rows, tick) \in SUBSET (1..Len(rows))
<1>1. OpenSeats(rows, tick) \in SUBSET (1..Len(rows)) /\ Len(rows) \in Nat
  BY DEF OpenSeats
<1>2. IsFiniteSet(1..Len(rows))
  BY <1>1, FS_Interval
<1> QED BY <1>1, <1>2, FS_Subset

(* Nobody holds two of the seats taken at a tick.                          *)
LEMMA OneSeatEach ==
  ASSUME NEW rows \in Seq(Row), CanonicalOrder(rows), OneTenureAtATime(rows), NEW tick \in Nat
  PROVE  \A i, j \in OpenSeats(rows, tick) :
           rows[i].participantId = rows[j].participantId => i = j
<1> DEFINE Taken == OpenSeats(rows, tick)
<1>1. DOMAIN rows = 1..Len(rows) /\ Len(rows) \in Nat /\ Taken \in SUBSET (1..Len(rows))
  BY OpenSeatsFinite
<1>2. \A i \in Taken : /\ i \in DOMAIN rows /\ rows[i].joinedAtTick <= tick
                       /\ IsOpen(rows[i]) \/ tick < rows[i].leftAtTick
  BY DEF OpenSeats, Encloses
<1> HIDE DEF Taken
<1>3. ASSUME NEW i \in Taken, NEW j \in Taken, rows[i].participantId = rows[j].participantId, i < j
      PROVE  FALSE
  <2>1. i \in DOMAIN rows /\ j \in DOMAIN rows
    BY <1>2
  <2>2. ~IsOpen(rows[i]) /\ rows[j].joinedAtTick >= rows[i].leftAtTick
    BY <1>3, <2>1, TenuresFollow
  <2>3. rows[j].joinedAtTick <= tick /\ tick < rows[i].leftAtTick
    BY <1>2, <2>2
  <2> QED BY <2>1, <2>2, <2>3, RowFields
<1>4. \A i, j \in Taken : i < j \/ j < i \/ i = j
  BY <1>1
<1>5. \A i, j \in Taken : rows[i].participantId = rows[j].participantId => i = j
  BY <1>3, <1>4
<1> QED BY <1>5 DEF Taken

(* No tick has more than MaxWriters seats taken, and nobody two of them:   *)
(* every seat taken at a tick was already taken when the last of them was. *)
LEMMA CapacityAtEveryTick ==
  ASSUME NEW rows \in Seq(Row), ValidLedger(rows), NEW tick \in Nat
  PROVE  /\ Cardinality(OpenSeats(rows, tick)) <= MaxWriters
         /\ \A i, j \in OpenSeats(rows, tick) :
              rows[i].participantId = rows[j].participantId => i = j
<1> DEFINE Taken == OpenSeats(rows, tick)
<1>1. CanonicalOrder(rows) /\ OneTenureAtATime(rows) /\ AtMostMaxWriters(rows)
  BY DEF ValidLedger
<1>2. DOMAIN rows = 1..Len(rows) /\ Len(rows) \in Nat /\ Taken \in SUBSET (1..Len(rows))
  BY OpenSeatsFinite
<1>3. \A i \in Taken : /\ i \in DOMAIN rows /\ rows[i].joinedAtTick <= tick
                       /\ IsOpen(rows[i]) \/ tick < rows[i].leftAtTick
  BY DEF OpenSeats, Encloses
<1> HIDE DEF Taken
<1>4. Cardinality(Taken) <= MaxWriters
  <2>1. CASE Taken = {}
    BY <2>1, FS_EmptySet, MaxWritersAssumption
  <2>2. CASE Taken # {}
    <3>1. PICK last \in Taken : \A i \in Taken : i <= last
      <4>1. Taken \in SUBSET (0..Len(rows))
        BY <1>2
      <4> QED BY <1>2, <2>2, <4>1, MaxOfBounded
    <3> DEFINE joined == rows[last].joinedAtTick
               Then == OpenSeats(rows, joined)
    <3>2. last \in DOMAIN rows /\ joined \in Nat /\ joined <= tick
      BY <1>3, RowFields
    <3>3. ASSUME NEW i \in Taken PROVE Encloses(rows[i], joined) /\ i \in DOMAIN rows
      <4>1. i \in DOMAIN rows /\ i <= last
        BY <1>3, <3>1
      <4>2. rows[i].joinedAtTick <= joined
        <5>1. CASE i = last
          BY <3>2, <5>1
        <5>2. CASE i # last
          <6>1. SeatBefore(rows[i], rows[last])
            BY <1>1, <1>2, <3>2, <4>1, <5>2, RowsAscend
          <6> QED BY <3>2, <4>1, <6>1, RowFields DEF SeatBefore
        <5> QED BY <5>1, <5>2
      <4> QED BY <1>3, <3>2, <4>1, <4>2, RowFields DEF Encloses
    <3>4. Taken \in SUBSET Then
      BY <3>3 DEF OpenSeats
    <3>5. Cardinality(Then) <= MaxWriters
      BY <1>1, <3>2 DEF AtMostMaxWriters
    <3>6. Cardinality(Taken) <= Cardinality(Then) /\ Cardinality(Then) \in Nat /\ Cardinality(Taken) \in Nat
      <4>1. IsFiniteSet(Then)
        BY OpenSeatsFinite
      <4> HIDE DEF Then
      <4> QED BY <3>4, <4>1, FS_Subset, FS_CardinalityType
    <3> HIDE DEF Then
    <3> QED BY <3>5, <3>6, MaxWritersAssumption
  <2> QED BY <2>1, <2>2
<1>5. \A i, j \in Taken : rows[i].participantId = rows[j].participantId => i = j
  BY <1>1, OneSeatEach DEF Taken
<1> QED BY <1>4, <1>5 DEF Taken

-----------------------------------------------------------------------------
(***************************************************************************)
(* The participants in the room.                                           *)
(***************************************************************************)

(* Whoever joins is in the room, and nobody else comes or goes.            *)
LEMMA LiveAfterJoin ==
  ASSUME NEW rows \in Seq(Row), NEW p \in Participant, NEW tick \in Nat
  PROVE  LiveSeats(SeatParticipant(rows, OpenRow(p, tick))) = LiveSeats(rows) \cup {p}
<1> DEFINE seat == OpenRow(p, tick)
           next == SeatParticipant(rows, seat)
<1>1. seat \in Row /\ seat.participantId = p /\ IsOpen(seat)
  BY DEF OpenRow, Row, IsOpen
<1> HIDE DEF seat
<1>2. /\ \A i \in DOMAIN rows : \E j \in DOMAIN next : next[j] = rows[i]
      /\ \E j \in DOMAIN next : next[j] = seat
      /\ \A j \in DOMAIN next : next[j] = seat \/ \E i \in DOMAIN rows : next[j] = rows[i]
  BY <1>1, SeatParticipantRows
<1> HIDE DEF next
<1>3. LiveSeats(next) = LiveSeats(rows) \cup {p}
  <2>1. ASSUME NEW q \in LiveSeats(next) PROVE q \in LiveSeats(rows) \cup {p}
    <3>1. PICK j \in DOMAIN next : IsOpen(next[j]) /\ q = next[j].participantId
      BY DEF LiveSeats
    <3> QED BY <1>1, <1>2, <3>1 DEF LiveSeats
  <2>2. ASSUME NEW q \in LiveSeats(rows) PROVE q \in LiveSeats(next)
    <3>1. PICK i \in DOMAIN rows : IsOpen(rows[i]) /\ q = rows[i].participantId
      BY DEF LiveSeats
    <3> QED BY <1>2, <3>1 DEF LiveSeats
  <2>3. p \in LiveSeats(next)
    BY <1>1, <1>2 DEF LiveSeats
  <2> QED BY <2>1, <2>2, <2>3
<1> QED BY <1>3 DEF next, seat

(* Whoever leaves closes a tenure at that tick; nobody else comes or goes. *)
LEMMA LiveAfterLeave ==
  ASSUME NEW rows \in Seq(Row), NEW p \in Participant, NEW tick \in Nat, OpenRows(rows, p) # {}
  PROVE  LET next == VacateSeat(rows, p, tick)
         IN  /\ p \in LiveSeats(rows)
             /\ LiveSeats(next) \subseteq LiveSeats(rows)
             /\ LiveSeats(rows) \subseteq LiveSeats(next) \cup {p}
             /\ \E k \in DOMAIN next : next[k].participantId = p /\ next[k].leftAtTick = tick
             /\ \A i \in DOMAIN rows : ~IsOpen(rows[i]) => i \in DOMAIN next /\ next[i] = rows[i]
<1> DEFINE next == VacateSeat(rows, p, tick)
<1>1. DOMAIN next = DOMAIN rows /\ ClosesOneRow(rows, next, p, tick)
  BY VacateSeatRows
<1> HIDE DEF next
<1>2. PICK k \in OpenRows(rows, p) :
        /\ next[k] = [rows[k] EXCEPT !.leftAtTick = tick]
        /\ \A i \in DOMAIN rows \ {k} : next[i] = rows[i]
  BY <1>1 DEF ClosesOneRow
<1>3. k \in DOMAIN rows /\ rows[k] \in Row /\ rows[k].participantId = p /\ IsOpen(rows[k])
  BY DEF OpenRows
<1>4. next[k].participantId = p /\ next[k].leftAtTick = tick /\ ~IsOpen(next[k])
  BY <1>2, <1>3 DEF Row, IsOpen, Open
<1>5. p \in LiveSeats(rows)
  BY <1>3 DEF LiveSeats
<1>6. ASSUME NEW q \in LiveSeats(next) PROVE q \in LiveSeats(rows)
  <2>1. PICK j \in DOMAIN next : IsOpen(next[j]) /\ q = next[j].participantId
    BY DEF LiveSeats
  <2> QED BY <1>1, <1>2, <1>4, <2>1 DEF LiveSeats
<1>7. ASSUME NEW q \in LiveSeats(rows), q # p PROVE q \in LiveSeats(next)
  <2>1. PICK i \in DOMAIN rows : IsOpen(rows[i]) /\ q = rows[i].participantId
    BY DEF LiveSeats
  <2> QED BY <1>1, <1>2, <1>3, <1>7, <2>1 DEF LiveSeats
<1> QED BY <1>1, <1>2, <1>3, <1>4, <1>5, <1>6, <1>7 DEF next

(* In a valid ledger whose tenures have begun nobody has two open tenures, *)
(* and no more than MaxWriters participants have one.                      *)
LEMMA LiveWithinCapacity ==
  ASSUME NEW rows \in Seq(Row), ValidLedger(rows), NEW tick \in Nat,
         \A i \in DOMAIN rows : rows[i].joinedAtTick <= tick
  PROVE  /\ IsFiniteSet(LiveSeats(rows)) /\ Cardinality(LiveSeats(rows)) <= MaxWriters
         /\ \A p \in Participant : \A i, j \in OpenRows(rows, p) : i = j
<1> DEFINE OpenNow == {i \in DOMAIN rows : IsOpen(rows[i])}
           Holder == [i \in OpenNow |-> rows[i].participantId]
<1>1. OpenNow \in SUBSET OpenSeats(rows, tick)
  BY DEF OpenSeats, Encloses
<1>2. IsFiniteSet(OpenSeats(rows, tick)) /\ Cardinality(OpenSeats(rows, tick)) <= MaxWriters
  BY CapacityAtEveryTick, OpenSeatsFinite
<1>3. IsFiniteSet(OpenNow) /\ Cardinality(OpenNow) <= Cardinality(OpenSeats(rows, tick))
  <2> HIDE DEF OpenNow
  <2> QED BY <1>1, <1>2, FS_Subset
<1>4. Holder \in Surjection(OpenNow, LiveSeats(rows))
  BY DEF LiveSeats, Surjection
<1>5. IsFiniteSet(LiveSeats(rows)) /\ Cardinality(LiveSeats(rows)) <= Cardinality(OpenNow)
  <2> HIDE DEF OpenNow, Holder
  <2> QED BY <1>3, <1>4, FS_Surjection
<1>6. Cardinality(LiveSeats(rows)) <= MaxWriters
  <2>1. /\ Cardinality(LiveSeats(rows)) \in Nat /\ Cardinality(OpenNow) \in Nat
        /\ Cardinality(OpenSeats(rows, tick)) \in Nat
    <3> HIDE DEF OpenNow
    <3> QED BY <1>2, <1>3, <1>5, FS_CardinalityType
  <2> HIDE DEF OpenNow
  <2> QED BY <1>2, <1>3, <1>5, <2>1, MaxWritersAssumption
<1>7. ASSUME NEW p \in Participant, NEW i \in OpenRows(rows, p), NEW j \in OpenRows(rows, p)
      PROVE  i = j
  <2>1. i \in OpenNow /\ j \in OpenNow /\ rows[i].participantId = rows[j].participantId
    BY DEF OpenRows
  <2> HIDE DEF OpenNow
  <2> QED BY <1>1, <2>1, CapacityAtEveryTick
<1> QED BY <1>5, <1>6, <1>7

-----------------------------------------------------------------------------
(***************************************************************************)
(* When the ledger lets someone in or go.                                  *)
(***************************************************************************)

(* A set of rows of different participants has no more rows than there     *)
(* are participants.                                                       *)
LEMMA RowsOfDifferentSeats ==
  ASSUME NEW rows \in Seq(Row), IsFiniteSet(Participant), NEW taken \in SUBSET DOMAIN rows,
         \A i, j \in taken : rows[i].participantId = rows[j].participantId => i = j
  PROVE  Cardinality(taken) <= Cardinality(Participant)
<1> DEFINE holder == [i \in taken |-> rows[i].participantId]
<1>1. holder \in Injection(taken, Participant)
  <2>1. \A i \in taken : rows[i].participantId \in Participant
    BY RowFields
  <2> QED BY <2>1 DEF Injection, IsInjective
<1> HIDE DEF holder
<1> QED BY <1>1, FS_Injection

(* Someone who is not in the room may take a seat now, when there are      *)
(* seats for everyone.                                                     *)
LEMMA JoinIsValid ==
  ASSUME NEW rows \in Seq(Row), rows = <<>> \/ ValidLedger(rows),
         NEW p \in Participant, NEW tick \in Nat, p \notin LiveSeats(rows),
         \A i \in DOMAIN rows : rows[i].joinedAtTick <= tick /\ (IsOpen(rows[i]) \/ rows[i].leftAtTick <= tick),
         IsFiniteSet(Participant), Cardinality(Participant) <= MaxWriters
  PROVE  CanSeat(rows, OpenRow(p, tick))
<1> DEFINE seat == OpenRow(p, tick)
           next == SeatParticipant(rows, seat)
           k == InsertPosition(rows, seat)
           n == Len(rows)
<1>1. seat \in Row /\ seat.participantId = p /\ seat.joinedAtTick = tick /\ IsOpen(seat)
  BY DEF OpenRow, Row, IsOpen
<1> HIDE DEF seat
<1>2. /\ k \in 1..(n + 1) /\ n \in Nat /\ DOMAIN rows = 1..n
      /\ \A i \in 1..(k-1) : SeatBefore(rows[i], seat)
      /\ k <= n => ~SeatBefore(rows[k], seat)
  BY <1>1, InsertsWhereItBelongs
<1>3. next = [i \in 1..(n + 1) |-> IF i < k THEN rows[i] ELSE IF i = k THEN seat ELSE rows[i-1]]
  BY DEF SeatParticipant
<1>4. next \in Seq(Row) /\ Len(next) = n + 1
  <2>1. next \in Seq(Row)
    BY <1>1, SeatParticipantRows
  <2> HIDE DEF next
  <2> QED BY <1>2, <1>3, <2>1
<1> HIDE DEF k, n, next
<1>5. \A i \in 1..n : rows[i] \in Row
  BY <1>2
<1>6. /\ rows = <<>> => n = 0
      /\ n > 0 => TenureIsPositive(rows) /\ CanonicalOrder(rows) /\ OneTenureAtATime(rows)
  <2>1. rows = <<>> => n = 0
    BY DEF n
  <2> QED BY <2>1 DEF ValidLedger
(* The rows of p are closed, and began before now. *)
<1>7. ASSUME NEW i \in 1..n, rows[i].participantId = p
      PROVE  ~IsOpen(rows[i]) /\ rows[i].leftAtTick <= tick /\ rows[i].joinedAtTick < tick
  <2>1. ~IsOpen(rows[i])
    BY <1>2, <1>7 DEF LiveSeats
  <2>2. rows[i].leftAtTick > rows[i].joinedAtTick
    BY <1>2, <1>6, <2>1 DEF TenureIsPositive
  <2>3. rows[i].leftAtTick <= tick /\ rows[i].joinedAtTick \in Nat /\ rows[i].leftAtTick \in Nat
    BY <1>2, <2>1, RowFields
  <2> QED BY <2>1, <2>2, <2>3
<1>8. ASSUME k <= n PROVE SeatBefore(seat, rows[k])
  <2>1. k \in 1..n
    BY <1>2, <1>8
  <2>2. /\ rows[k].joinedAtTick \in Nat /\ rows[k].joinedAtTick <= tick
        /\ rows[k].participantId \in Nat /\ p \in Nat
    BY <1>2, <2>1, RowFields, ParticipantAssumption
  <2>3. ~(rows[k].joinedAtTick < tick) /\ ~(rows[k].participantId < p)
    BY <1>1, <1>2, <1>8, <2>2 DEF SeatBefore
  <2>4. rows[k].participantId # p
    BY <1>7, <2>1, <2>3
  <2> QED BY <1>1, <2>2, <2>3, <2>4 DEF SeatBefore
<1>9. TenureIsPositive(next)
  <2> SUFFICES ASSUME NEW i \in 1..(n + 1) PROVE IsOpen(next[i]) \/ next[i].leftAtTick > next[i].joinedAtTick
    BY <1>3 DEF TenureIsPositive
  <2>1. CASE i = k
    BY <1>1, <1>3, <2>1
  <2>2. CASE i # k
    <3>1. PICK j \in 1..n : next[i] = rows[j]
      <4>1. CASE i < k
        BY <1>2, <1>3, <4>1
      <4>2. CASE i > k
        BY <1>2, <1>3, <4>2
      <4> QED BY <1>2, <2>2, <4>1, <4>2
    <3> QED BY <1>2, <1>6, <3>1 DEF TenureIsPositive
  <2> QED BY <2>1, <2>2
<1>10. CanonicalOrder(next)
  <2> SUFFICES ASSUME NEW i \in 2..(n + 1) PROVE SeatBefore(next[i-1], next[i])
    BY <1>4 DEF CanonicalOrder
  <2>0. i \in Nat /\ i - 1 \in 1..n /\ i \in 1..(n + 1)
    BY <1>2
  <2>1. CASE i < k
    <3>1. next[i] = rows[i] /\ next[i-1] = rows[i-1] /\ i \in 2..n /\ n > 0
      BY <1>2, <1>3, <2>0, <2>1
    <3> QED BY <1>6, <3>1 DEF CanonicalOrder, n
  <2>2. CASE i = k
    <3>1. next[i] = seat /\ next[i-1] = rows[i-1] /\ i - 1 \in 1..(k-1)
      BY <1>2, <1>3, <2>0, <2>2
    <3> QED BY <1>2, <3>1
  <2>3. CASE i = k + 1
    <3>1. next[i] = rows[k] /\ next[i-1] = seat /\ k <= n
      BY <1>2, <1>3, <2>0, <2>3
    <3> QED BY <1>8, <3>1
  <2>4. CASE i > k + 1
    <3>1. next[i] = rows[i-1] /\ next[i-1] = rows[i-1-1] /\ i - 1 \in 2..n /\ n > 0
      BY <1>2, <1>3, <2>0, <2>4
    <3> QED BY <1>6, <3>1 DEF CanonicalOrder, n
  <2> QED BY <1>2, <2>1, <2>2, <2>3, <2>4
<1>11. OneTenureAtATime(next)
  <2> SUFFICES ASSUME NEW i \in 1..(n + 1), NEW j \in 1..(n + 1), i < j,
                      next[i].participantId = next[j].participantId
               PROVE  ~IsOpen(next[i]) /\ next[j].joinedAtTick >= next[i].leftAtTick
    BY <1>3 DEF OneTenureAtATime
  <2>1. CASE i = k
    <3>1. next[i] = seat /\ next[j] = rows[j-1] /\ j - 1 \in 1..n
      BY <1>2, <1>3, <2>1
    <3>2. rows[j-1].joinedAtTick < tick /\ rows[j-1].joinedAtTick \in Nat
      BY <1>1, <1>2, <1>7, <3>1, RowFields
    <3>3. SeatBefore(next[i], next[j])
      BY <1>3, <1>4, <1>10, RowsAscend
    <3> QED BY <1>1, <3>1, <3>2, <3>3 DEF SeatBefore
  <2>2. CASE j = k
    <3>1. next[j] = seat /\ next[i] = rows[i] /\ i \in 1..n
      BY <1>2, <1>3, <2>2
    <3> QED BY <1>1, <1>7, <3>1
  <2>3. CASE i # k /\ j # k
    <3>1. PICK a \in 1..n, b \in 1..n : a < b /\ next[i] = rows[a] /\ next[j] = rows[b]
      <4>1. CASE j < k
        BY <1>2, <1>3, <4>1
      <4>2. CASE i < k /\ j > k
        <5>1. i \in 1..n /\ j - 1 \in 1..n /\ i < j - 1 /\ next[i] = rows[i] /\ next[j] = rows[j-1]
          BY <1>2, <1>3, <4>2
        <5> QED BY <5>1
      <4>3. CASE i > k
        <5>1. i - 1 \in 1..n /\ j - 1 \in 1..n /\ i - 1 < j - 1 /\ next[i] = rows[i-1] /\ next[j] = rows[j-1]
          BY <1>2, <1>3, <4>3
        <5> QED BY <5>1
      <4> QED BY <1>2, <2>3, <4>1, <4>2, <4>3
    <3>2. CanonicalOrder(rows) /\ OneTenureAtATime(rows) /\ a \in DOMAIN rows /\ b \in DOMAIN rows
      BY <1>2, <1>6
    <3> QED BY <3>1, <3>2, TenuresFollow
  <2> QED BY <2>1, <2>2, <2>3
<1>12. AtMostMaxWriters(next)
  <2> SUFFICES ASSUME NEW at \in DOMAIN next
               PROVE  Cardinality(OpenSeats(next, next[at].joinedAtTick)) <= MaxWriters
    BY DEF AtMostMaxWriters
  <2> DEFINE t == next[at].joinedAtTick
             taken == OpenSeats(next, t)
  <2>1. t \in Nat
    BY <1>4, RowFields
  <2> HIDE DEF t
  <2>2. \A i, j \in taken : next[i].participantId = next[j].participantId => i = j
    BY <1>4, <1>10, <1>11, <2>1, OneSeatEach
  <2>3. taken \in SUBSET DOMAIN next /\ IsFiniteSet(taken)
    BY <1>4, OpenSeatsFinite DEF OpenSeats
  <2> HIDE DEF taken
  <2>4. Cardinality(taken) <= Cardinality(Participant)
    BY <1>4, <2>2, <2>3, RowsOfDifferentSeats
  <2>5. Cardinality(taken) \in Nat /\ Cardinality(Participant) \in Nat
    BY <2>3, FS_CardinalityType
  <2>6. Cardinality(taken) <= MaxWriters
    BY <2>4, <2>5, MaxWritersAssumption
  <2> QED BY <2>6 DEF taken, t
<1>13. next # <<>>
  BY <1>2, <1>4
<1> QED BY <1>9, <1>10, <1>11, <1>12, <1>13 DEF ValidLedger, CanSeat, next, seat

(* Someone in the room may leave, from the tick after they came.           *)
LEMMA LeaveIsValid ==
  ASSUME NEW rows \in Seq(Row), ValidLedger(rows), NEW p \in Participant, NEW tick \in Nat,
         p \in LiveSeats(rows), \A i \in OpenRows(rows, p) : rows[i].joinedAtTick < tick
  PROVE  CanVacate(rows, p, tick)
<1> DEFINE next == VacateSeat(rows, p, tick)
<1>1. OpenRows(rows, p) # {}
  BY DEF LiveSeats, OpenRows
<1>2. next \in Seq(Row) /\ DOMAIN next = DOMAIN rows /\ ClosesOneRow(rows, next, p, tick)
  BY <1>1, VacateSeatRows
<1> HIDE DEF next
<1>3. PICK k \in OpenRows(rows, p) :
        /\ next[k] = [rows[k] EXCEPT !.leftAtTick = tick]
        /\ \A i \in DOMAIN rows \ {k} : next[i] = rows[i]
  BY <1>2 DEF ClosesOneRow
<1>4. k \in DOMAIN rows /\ rows[k] \in Row /\ IsOpen(rows[k]) /\ rows[k].joinedAtTick < tick
  BY DEF OpenRows
<1>5. /\ next[k].participantId = rows[k].participantId /\ next[k].joinedAtTick = rows[k].joinedAtTick
      /\ next[k].leftAtTick = tick /\ ~IsOpen(next[k])
  BY <1>3, <1>4 DEF Row, IsOpen, Open
<1>6. \A i \in DOMAIN rows : /\ next[i].participantId = rows[i].participantId
                             /\ next[i].joinedAtTick = rows[i].joinedAtTick
                             /\ ~IsOpen(rows[i]) => next[i] = rows[i]
  BY <1>3, <1>4, <1>5
<1>7. TenureIsPositive(rows) /\ CanonicalOrder(rows) /\ OneTenureAtATime(rows) /\ AtMostMaxWriters(rows)
  BY DEF ValidLedger
<1>8. TenureIsPositive(next)
  <2> SUFFICES ASSUME NEW i \in DOMAIN rows PROVE IsOpen(next[i]) \/ next[i].leftAtTick > next[i].joinedAtTick
    BY <1>2 DEF TenureIsPositive
  <2>1. CASE i = k
    BY <1>4, <1>5, <2>1 DEF Row
  <2>2. CASE i # k
    BY <1>3, <1>7, <2>2 DEF TenureIsPositive
  <2> QED BY <2>1, <2>2
<1>9. DOMAIN rows = 1..Len(rows) /\ DOMAIN next = 1..Len(next) /\ Len(rows) \in Nat /\ Len(next) = Len(rows)
  BY <1>2
<1>10. CanonicalOrder(next)
  <2> SUFFICES ASSUME NEW i \in 2..Len(rows) PROVE SeatBefore(next[i-1], next[i])
    BY <1>9 DEF CanonicalOrder
  <2>1. i \in DOMAIN rows /\ i - 1 \in DOMAIN rows
    BY <1>9
  <2>2. SeatBefore(rows[i-1], rows[i])
    BY <1>7 DEF CanonicalOrder
  <2> QED BY <1>6, <2>1, <2>2 DEF SeatBefore
<1>11. OneTenureAtATime(next)
  <2> SUFFICES ASSUME NEW i \in DOMAIN rows, NEW j \in DOMAIN rows, i < j,
                      next[i].participantId = next[j].participantId
               PROVE  ~IsOpen(next[i]) /\ next[j].joinedAtTick >= next[i].leftAtTick
    BY <1>2 DEF OneTenureAtATime
  <2>1. ~IsOpen(rows[i]) /\ rows[j].joinedAtTick >= rows[i].leftAtTick
    BY <1>6, <1>7, TenuresFollow
  <2> QED BY <1>6, <2>1
<1>12. AtMostMaxWriters(next)
  <2> SUFFICES ASSUME NEW at \in DOMAIN rows
               PROVE  Cardinality(OpenSeats(next, next[at].joinedAtTick)) <= MaxWriters
    BY <1>2 DEF AtMostMaxWriters
  <2> DEFINE t == rows[at].joinedAtTick
  <2>1. OpenSeats(next, t) \in SUBSET OpenSeats(rows, t)
    <3> SUFFICES ASSUME NEW i \in DOMAIN rows, Encloses(next[i], t) PROVE Encloses(rows[i], t)
      BY <1>2 DEF OpenSeats
    <3>1. CASE IsOpen(rows[i])
      BY <1>6, <3>1 DEF Encloses
    <3>2. CASE ~IsOpen(rows[i])
      BY <1>6, <3>2
    <3> QED BY <3>1, <3>2
  <2>2. IsFiniteSet(OpenSeats(rows, t)) /\ IsFiniteSet(OpenSeats(next, t))
    BY <1>2, OpenSeatsFinite
  <2>3. Cardinality(OpenSeats(next, t)) <= Cardinality(OpenSeats(rows, t))
    BY <2>1, <2>2, FS_Subset
  <2>4. Cardinality(OpenSeats(next, t)) \in Nat /\ Cardinality(OpenSeats(rows, t)) \in Nat
    BY <2>2, FS_CardinalityType
  <2>5. Cardinality(OpenSeats(rows, t)) <= MaxWriters
    BY <1>7 DEF AtMostMaxWriters
  <2>6. Cardinality(OpenSeats(next, t)) <= MaxWriters
    BY <2>3, <2>4, <2>5, MaxWritersAssumption
  <2> QED BY <1>6, <2>6
<1>13. next # <<>>
  BY <1>2, <1>4
<1> QED BY <1>1, <1>8, <1>10, <1>11, <1>12, <1>13 DEF ValidLedger, CanVacate, next

-----------------------------------------------------------------------------
(***************************************************************************)
(* Paging the log.                                                         *)
(***************************************************************************)

(* A page is a window of the log that starts behind the records passed.    *)
LEMMA PageProperties ==
  ASSUME NEW records \in Seq(Record), NEW after, NEW limit \in Nat
  PROVE  LET k == Passed(records, after)
             page == PageCoopLog(records, after, limit)
         IN  /\ k \in 0..Len(records)
             /\ page \in Seq(Record)
             /\ Len(page) = Smaller(k + limit, Len(records)) - k
             /\ \A i \in 1..Len(page) : page[i] = records[k + i]
<1> DEFINE S == {i \in DOMAIN records : ~StampBefore(after, records[i])}
           k == Passed(records, after)
           m == Smaller(k + limit, Len(records))
           page == PageCoopLog(records, after, limit)
<1>1. k \in 0..Len(records)
  <2>1. IsFiniteSet(1..Len(records)) /\ Cardinality(1..Len(records)) = Len(records)
    <3>1. 1 \in Int /\ Len(records) \in Int /\ Len(records) >= 0
      BY LenProperties
    <3>2. /\ IsFiniteSet(1..Len(records))
          /\ Cardinality(1..Len(records)) = IF 1 > Len(records) THEN 0 ELSE Len(records) - 1 + 1
      BY <3>1, FS_Interval
    <3> QED BY <3>1, <3>2
  <2>2. S \in SUBSET (1..Len(records))
    OBVIOUS
  <2>3. Cardinality(S) \in Nat /\ Cardinality(S) <= Len(records)
    <3> HIDE DEF S
    <3> QED BY <2>1, <2>2, FS_Subset, FS_CardinalityType
  <2> QED BY <2>3 DEF Passed
<1>2. page = SubSeq(records, k + 1, m)
  BY DEF PageCoopLog
<1> HIDE DEF k, page
<1>3. m \in Nat /\ k <= m /\ m <= Len(records)
  BY <1>1 DEF Smaller
<1> HIDE DEF m
<1>4. \A i \in (k + 1)..m : records[i] \in Record
  BY <1>1, <1>3, ElementOfSeq
<1>5. /\ page \in Seq(Record)
      /\ Len(page) = IF k + 1 <= m THEN m - (k + 1) + 1 ELSE 0
      /\ \A i \in 1..(m - (k + 1) + 1) : page[i] = records[(k + 1) + i - 1]
  <2>1. k + 1 \in Int /\ m \in Int
    BY <1>1, <1>3
  <2> QED BY <1>2, <1>4, <2>1, SubSeqProperties
<1>6. Len(page) = m - k
  BY <1>1, <1>3, <1>5
<1>7. \A i \in 1..Len(page) : page[i] = records[k + i]
  BY <1>1, <1>3, <1>5, <1>6
<1> QED BY <1>1, <1>5, <1>6, <1>7 DEF k, m, page

-----------------------------------------------------------------------------
(***************************************************************************)
(* Type correctness.                                                       *)
(***************************************************************************)

(* A tick, a seq, a ledger, a log and inboxes are what the relay keeps.    *)
THEOREM TypeCorrect == RelaySpec => []TypeOK
<1>1. RelayInit => TypeOK
  BY EmptySeq DEF RelayInit, TypeOK
<1>2. TypeOK /\ [RelayNext]_relayVars => TypeOK'
  <2> SUFFICES ASSUME TypeOK, [RelayNext]_relayVars
               PROVE  TypeOK'
    OBVIOUS
  <2> USE DEF TypeOK
  <2>1. ASSUME NEW t \in 0..MaxTick, AdvanceTo(t) PROVE TypeOK'
    BY <2>1, RelayAssumption DEF AdvanceTo
  <2>2. ASSUME NEW p \in Participant, JoinSeat(p) PROVE TypeOK'
    <3> DEFINE page == PageCoopLog(log, LastSeen(inbox[p]), Len(log))
    <3>1. OpenRow(p, currentTick) \in Row
      BY DEF OpenRow, Row
    <3>2. ledger' \in Seq(Row)
      BY <2>2, <3>1, SeatParticipantRows DEF JoinSeat
    <3>3. inbox[p] \o page \in Seq(Record)
      <4>1. page \in Seq(Record)
        BY PageProperties
      <4> QED BY <4>1, ConcatProperties
    <3>4. inbox' \in [Participant -> Seq(Record)]
      <4> HIDE DEF page
      <4>1. inbox' = inbox \/ inbox' = [inbox EXCEPT ![p] = inbox[p] \o page]
        BY <2>2 DEF JoinSeat, page
      <4> QED BY <3>3, <4>1
    <3> QED BY <2>2, <3>2, <3>4 DEF JoinSeat
  <2>3. ASSUME NEW p \in Participant, LeaveSeat(p) PROVE TypeOK'
    <3>1. ledger' \in Seq(Row)
      BY <2>3, VacateSeatRows DEF LeaveSeat, CanVacate
    <3> QED BY <2>3, <3>1 DEF LeaveSeat
  <2>4. ASSUME NEW p \in Participant, NEW kind \in Kind, NEW doorShaped \in BOOLEAN,
               Submit(p, kind, doorShaped)
        PROVE  TypeOK'
    <3> DEFINE record == [participantId |-> p, tick |-> currentTick, seq |-> nextSeq, kind |-> kind]
    <3>1. record \in Record
      BY DEF Record
    <3>2. log' \in Seq(Record) /\ inbox' \in [Participant -> Seq(Record)]
      <4> HIDE DEF record
      <4>1. log' = Append(log, record) /\ inbox' = Broadcast(record)
        BY <2>4 DEF Submit, record
      <4> QED BY <3>1, <4>1, AppendProperties DEF Broadcast
    <3> QED BY <2>4, <3>2 DEF Submit
  <2>5. ASSUME NEW p \in Participant, NEW limit \in 1..MaxRecords, CatchUpPage(p, limit)
        PROVE  TypeOK'
    <3> DEFINE page == PageCoopLog(log, LastSeen(inbox[p]), limit)
    <3>1. inbox[p] \o page \in Seq(Record)
      <4>1. page \in Seq(Record)
        BY PageProperties
      <4> QED BY <4>1, ConcatProperties
    <3>2. inbox' \in [Participant -> Seq(Record)]
      <4> HIDE DEF page
      <4>1. inbox' = [inbox EXCEPT ![p] = inbox[p] \o page]
        BY <2>5 DEF CatchUpPage, page
      <4> QED BY <3>1, <4>1
    <3> QED BY <2>5, <3>2 DEF CatchUpPage
  <2>6. CASE UNCHANGED relayVars
    BY <2>6 DEF relayVars
  <2> QED BY <2>1, <2>2, <2>3, <2>4, <2>5, <2>6 DEF RelayNext
<1> QED BY <1>1, <1>2, PTL DEF RelaySpec

-----------------------------------------------------------------------------
(***************************************************************************)
(* The stamp order.  TypeOK and StampsAscend together are inductive.       *)
(***************************************************************************)

(* The records of a log are records, index by index.                       *)
LEMMA RecordFields ==
  ASSUME NEW records \in Seq(Record), NEW i \in DOMAIN records
  PROVE  records[i].participantId \in Participant /\ records[i].tick \in Nat /\ records[i].seq \in Nat
<1>1. records[i] \in Record
  OBVIOUS
<1> QED BY <1>1 DEF Record

(* No two records of the shared log share a slot, none is ahead of the     *)
(* clock or of the seq stream, and the log ascends: R1.                    *)
THEOREM StampsAscendAlways == RelaySpec => []StampsAscend
<1>1. RelayInit => StampsAscend
  BY DEF RelayInit, StampsAscend
<1>2. TypeOK /\ StampsAscend /\ [RelayNext]_relayVars => StampsAscend'
  <2> SUFFICES ASSUME TypeOK, StampsAscend, [RelayNext]_relayVars
               PROVE  StampsAscend'
    OBVIOUS
  <2> USE DEF TypeOK
  <2>1. ASSUME NEW t \in 0..MaxTick, AdvanceTo(t) PROVE StampsAscend'
    <3>1. t \in Int /\ t >= currentTick /\ currentTick' = t /\ nextSeq' = nextSeq /\ log' = log
      BY <2>1, RelayAssumption DEF AdvanceTo
    <3>2. \A i \in DOMAIN log : log[i].tick \in Nat
      BY RecordFields
    <3> QED BY <3>1, <3>2 DEF StampsAscend
  <2>2. ASSUME UNCHANGED <<currentTick, nextSeq, log>> PROVE StampsAscend'
    BY <2>2 DEF StampsAscend
  <2>3. ASSUME NEW p \in Participant, NEW kind \in Kind, NEW doorShaped \in BOOLEAN,
               Submit(p, kind, doorShaped)
        PROVE  StampsAscend'
    <3> DEFINE record == [participantId |-> p, tick |-> currentTick, seq |-> nextSeq, kind |-> kind]
               n == Len(log)
    <3>1. record \in Record /\ record.tick = currentTick /\ record.seq = nextSeq
      BY DEF Record
    <3> HIDE DEF record
    <3>2. log' = Append(log, record) /\ nextSeq' = nextSeq + 1 /\ currentTick' = currentTick
      BY <2>3 DEF Submit, record
    <3>3. /\ n \in Nat
          /\ DOMAIN log = 1..n
          /\ DOMAIN log' = 1..(n + 1)
          /\ \A i \in 1..n : log'[i] = log[i] /\ log[i].tick \in Nat /\ log[i].seq \in Nat
          /\ log'[n + 1] = record
      BY <3>1, <3>2, AppendProperties, RecordFields
    <3> HIDE DEF n
    <3>4. \A i \in DOMAIN log' : log'[i].tick <= currentTick' /\ log'[i].seq < nextSeq'
      BY <3>1, <3>2, <3>3 DEF StampsAscend
    <3>5. ASSUME NEW i \in DOMAIN log', NEW j \in DOMAIN log', i < j
          PROVE  log'[i].tick <= log'[j].tick /\ log'[i].seq < log'[j].seq
      <4>1. i \in 1..n
        BY <3>3, <3>5
      <4>2. CASE j \in 1..n
        BY <3>3, <3>5, <4>1, <4>2 DEF StampsAscend
      <4>3. CASE j = n + 1
        BY <3>1, <3>3, <4>1, <4>3 DEF StampsAscend
      <4> QED BY <3>3, <4>2, <4>3
    <3> QED BY <3>4, <3>5 DEF StampsAscend
  <2> QED BY <2>1, <2>2, <2>3 DEF RelayNext, JoinSeat, LeaveSeat, CatchUpPage, relayVars
<1> QED BY <1>1, <1>2, TypeCorrect, PTL DEF RelaySpec

-----------------------------------------------------------------------------
(***************************************************************************)
(* Attribution.  The log never outruns the clock (StampsAscend), so an end *)
(* written at the clock's tick cannot cut off a record already stamped.    *)
(***************************************************************************)

(* A tenure that spans a stamped tick still spans it after any ledger      *)
(* operation at or after that tick.                                        *)
LEMMA TenureSurvives ==
  ASSUME TypeOK, [RelayNext]_relayVars
  PROVE  \A p \in Participant, tick \in Nat :
           tick <= currentTick /\ HeldTenure(ledger, p, tick) => HeldTenure(ledger', p, tick)
<1> USE DEF TypeOK
<1> SUFFICES ASSUME NEW p \in Participant, NEW tick \in Nat,
                    tick <= currentTick, HeldTenure(ledger, p, tick)
             PROVE  HeldTenure(ledger', p, tick)
  OBVIOUS
<1>1. PICK i \in DOMAIN ledger :
        /\ ledger[i].participantId = p
        /\ ledger[i].joinedAtTick <= tick
        /\ IsOpen(ledger[i]) \/ tick <= ledger[i].leftAtTick
  BY DEF HeldTenure
<1>2. ASSUME NEW q \in Participant, JoinSeat(q) PROVE HeldTenure(ledger', p, tick)
  <2>1. OpenRow(q, currentTick) \in Row
    BY DEF OpenRow, Row
  <2>2. PICK j \in DOMAIN ledger' : ledger'[j] = ledger[i]
    BY <1>2, <2>1, SeatParticipantRows DEF JoinSeat
  <2> QED BY <1>1, <2>2 DEF HeldTenure
<1>3. ASSUME NEW q \in Participant, LeaveSeat(q) PROVE HeldTenure(ledger', p, tick)
  <2>1. OpenRows(ledger, q) # {} /\ ledger' = VacateSeat(ledger, q, currentTick)
    BY <1>3 DEF LeaveSeat, CanVacate
  <2>2. PICK k \in OpenRows(ledger, q) :
          /\ ledger'[k] = [ledger[k] EXCEPT !.leftAtTick = currentTick]
          /\ \A j \in DOMAIN ledger \ {k} : ledger'[j] = ledger[j]
    <3>1. ClosesOneRow(ledger, ledger', q, currentTick)
      BY <2>1, VacateSeatRows
    <3> QED BY <3>1 DEF ClosesOneRow
  <2>3. DOMAIN ledger' = DOMAIN ledger
    BY <2>1, VacateSeatRows
  <2>4. CASE i = k
    <3>1. ledger[i] \in Row
      OBVIOUS
    <3>2. /\ ledger'[i].participantId = p
          /\ ledger'[i].joinedAtTick <= tick
          /\ ledger'[i].leftAtTick = currentTick
      BY <1>1, <2>2, <2>4, <3>1 DEF Row
    <3> QED BY <2>3, <3>2 DEF HeldTenure
  <2>5. CASE i # k
    BY <1>1, <2>2, <2>3, <2>5 DEF HeldTenure
  <2> QED BY <2>4, <2>5
<1>4. ASSUME ledger' = ledger PROVE HeldTenure(ledger', p, tick)
  BY <1>4
<1> QED BY <1>2, <1>3, <1>4 DEF RelayNext, AdvanceTo, Submit, CatchUpPage, relayVars

(* Every record of the shared log was written inside one of its author's   *)
(* tenures, whatever the seats did since.                                  *)
THEOREM AuthorsHeldTenureAlways == RelaySpec => []AuthorsHeldTenure
<1>1. RelayInit => AuthorsHeldTenure
  BY DEF RelayInit, AuthorsHeldTenure
<1>2. TypeOK /\ StampsAscend /\ AuthorsHeldTenure /\ [RelayNext]_relayVars => AuthorsHeldTenure'
  <2> SUFFICES ASSUME TypeOK, StampsAscend, AuthorsHeldTenure, [RelayNext]_relayVars,
                      NEW i \in DOMAIN log'
               PROVE  HeldTenure(ledger', log'[i].participantId, log'[i].tick)
    BY DEF AuthorsHeldTenure
  <2> USE DEF TypeOK
  <2>1. CASE i \in DOMAIN log /\ log'[i] = log[i]
    <3>1. log[i].participantId \in Participant /\ log[i].tick \in Nat
      BY <2>1, RecordFields
    <3>2. log[i].tick <= currentTick /\ HeldTenure(ledger, log[i].participantId, log[i].tick)
      BY <2>1 DEF StampsAscend, AuthorsHeldTenure
    <3> QED BY <2>1, <3>1, <3>2, TenureSurvives
  <2>2. ASSUME NEW p \in Participant, NEW kind \in Kind, NEW doorShaped \in BOOLEAN,
               Submit(p, kind, doorShaped), ~(i \in DOMAIN log /\ log'[i] = log[i])
        PROVE  HeldTenure(ledger', log'[i].participantId, log'[i].tick)
    <3> DEFINE record == [participantId |-> p, tick |-> currentTick, seq |-> nextSeq, kind |-> kind]
    <3>1. record \in Record /\ record.tick = currentTick /\ record.participantId = p
      BY DEF Record
    <3> HIDE DEF record
    <3>2. log'[i] = record
      <4>1. log' = Append(log, record)
        BY <2>2 DEF Submit, record
      <4> QED BY <2>2, <3>1, <4>1, AppendProperties
    <3>3. SeatedAt(ledger, p, currentTick) /\ ledger' = ledger
      BY <2>2 DEF Submit
    <3>4. PICK j \in DOMAIN ledger : ledger[j].participantId = p /\ Encloses(ledger[j], currentTick)
      BY <3>3 DEF SeatedAt
    <3>5. ledger[j].leftAtTick \in Nat \cup {Open} /\ ledger[j].joinedAtTick \in Nat
      <4>1. ledger[j] \in Row
        OBVIOUS
      <4> QED BY <4>1 DEF Row
    <3>6. ledger[j].joinedAtTick <= currentTick /\ (IsOpen(ledger[j]) \/ currentTick <= ledger[j].leftAtTick)
      BY <3>4, <3>5 DEF Encloses, IsOpen, Open
    <3> QED BY <3>1, <3>2, <3>3, <3>4, <3>6 DEF HeldTenure
  <2> QED BY <2>1, <2>2 DEF RelayNext, AdvanceTo, JoinSeat, LeaveSeat, CatchUpPage, relayVars
<1> QED BY <1>1, <1>2, TypeCorrect, StampsAscendAlways, PTL DEF RelaySpec

-----------------------------------------------------------------------------
(***************************************************************************)
(* The ledger of a relay.                                                  *)
(***************************************************************************)

(* No step forgets, rewrites or reorders a tenure: a join inserts one row  *)
(* that opens now among the others, a leave writes the end of one that was *)
(* open (coop.ts, seatParticipant and vacateSeat).                         *)
THEOREM LedgerIsHistoryAlways == RelaySpec => LedgerIsHistory
<1> DEFINE KeptAt(place) ==
             /\ \A i, j \in DOMAIN ledger : i < j => place[i] < place[j]
             /\ \A i \in DOMAIN ledger : SameTenure(ledger[i], ledger'[place[i]])
             /\ \A k \in DOMAIN ledger' : \/ \E i \in DOMAIN ledger : k = place[i]
                                          \/ \E p \in Participant : ledger'[k] = OpenRow(p, currentTick)
           Kept == \E place \in [DOMAIN ledger -> DOMAIN ledger'] : KeptAt(place)
<1>1. TypeOK /\ [RelayNext]_relayVars => [Kept]_relayVars
  <2> SUFFICES ASSUME TypeOK, RelayNext PROVE Kept
    OBVIOUS
  <2> USE DEF TypeOK
  <2>1. ASSUME NEW p \in Participant, JoinSeat(p) PROVE Kept
    <3> DEFINE seat == OpenRow(p, currentTick)
               n == Len(ledger)
    <3>1. seat \in Row /\ ledger' = SeatParticipant(ledger, seat)
      BY <2>1 DEF OpenRow, Row, JoinSeat
    <3> HIDE DEF seat
    <3>2. PICK k \in 1..(n + 1) : Inserted(ledger, ledger', seat, k)
      BY <3>1, SeatParticipantInserts
    <3>3. n \in Nat /\ DOMAIN ledger = 1..n
      OBVIOUS
    <3>4. /\ ledger' = [i \in 1..(n + 1) |-> IF i < k THEN ledger[i] ELSE IF i = k THEN seat ELSE ledger[i-1]]
          /\ DOMAIN ledger' = 1..(n + 1)
      BY <3>2 DEF Inserted
    <3> HIDE DEF n
    <3> DEFINE place == [i \in 1..n |-> IF i < k THEN i ELSE i + 1]
    <3>5. place \in [DOMAIN ledger -> DOMAIN ledger'] /\ \A i, j \in 1..n : i < j => place[i] < place[j]
      BY <3>3, <3>4
    <3>6. \A i \in 1..n : ledger'[place[i]] = ledger[i]
      BY <3>3, <3>4
    <3>7. ASSUME NEW j \in 1..(n + 1) PROVE (\E i \in 1..n : j = place[i]) \/ ledger'[j] = seat
      <4>1. CASE j < k
        <5>1. j \in 1..n /\ place[j] = j
          BY <3>3, <4>1
        <5> QED BY <5>1
      <4>2. CASE j > k
        <5>1. j - 1 \in 1..n /\ place[j - 1] = j
          BY <3>3, <4>2
        <5> QED BY <5>1
      <4>3. CASE j = k
        BY <3>4, <4>3
      <4> QED BY <3>3, <4>1, <4>2, <4>3
    <3> HIDE DEF place
    <3>8. KeptAt(place)
      BY <3>3, <3>4, <3>5, <3>6, <3>7 DEF SameTenure, seat
    <3> HIDE DEF KeptAt
    <3> QED BY <3>5, <3>8
  <2>2. ASSUME NEW p \in Participant, LeaveSeat(p) PROVE Kept
    <3>1. OpenRows(ledger, p) # {} /\ ledger' = VacateSeat(ledger, p, currentTick)
      BY <2>2 DEF LeaveSeat, CanVacate
    <3>2. DOMAIN ledger' = DOMAIN ledger /\ ClosesOneRow(ledger, ledger', p, currentTick)
      BY <3>1, VacateSeatRows
    <3>3. PICK k \in OpenRows(ledger, p) :
            /\ ledger'[k] = [ledger[k] EXCEPT !.leftAtTick = currentTick]
            /\ \A i \in DOMAIN ledger \ {k} : ledger'[i] = ledger[i]
      BY <3>2 DEF ClosesOneRow
    <3>4. k \in DOMAIN ledger /\ ledger[k] \in Row /\ IsOpen(ledger[k])
      BY DEF OpenRows
    <3>5. /\ ledger'[k].participantId = ledger[k].participantId
          /\ ledger'[k].joinedAtTick = ledger[k].joinedAtTick
          /\ ledger'[k].leftAtTick = currentTick
      BY <3>3, <3>4 DEF Row
    <3>6. \A i \in DOMAIN ledger : SameTenure(ledger[i], ledger'[i])
      BY <3>3, <3>4, <3>5 DEF SameTenure
    <3> DEFINE place == [i \in DOMAIN ledger |-> i]
    <3>7. place \in [DOMAIN ledger -> DOMAIN ledger'] /\ KeptAt(place)
      BY <3>2, <3>6
    <3> HIDE DEF KeptAt, place
    <3> QED BY <3>7
  <2>3. ASSUME ledger' = ledger PROVE Kept
    <3> DEFINE place == [i \in DOMAIN ledger |-> i]
    <3>1. place \in [DOMAIN ledger -> DOMAIN ledger'] /\ KeptAt(place)
      BY <2>3 DEF SameTenure
    <3> HIDE DEF KeptAt, place
    <3> QED BY <3>1
  <2> QED BY <2>1, <2>2, <2>3 DEF RelayNext, AdvanceTo, Submit, CatchUpPage
<1> QED BY <1>1, TypeCorrect, PTL DEF RelaySpec, LedgerIsHistory

(* Every ledger but the one that was not opened yet is valid, and no       *)
(* tenure begins or ends in the future.                                    *)
LedgerOK ==
  /\ ledger = <<>> \/ ValidLedger(ledger)
  /\ \A i \in DOMAIN ledger :
       /\ ledger[i].joinedAtTick <= currentTick
       /\ IsOpen(ledger[i]) \/ ledger[i].leftAtTick <= currentTick

(* The relay's ledger is valid in every state.                             *)
LEMMA LedgerOKAlways == RelaySpec => []LedgerOK
<1>1. RelayInit => LedgerOK
  BY DEF RelayInit, LedgerOK
<1>2. TypeOK /\ LedgerOK /\ [RelayNext]_relayVars => LedgerOK'
  <2> SUFFICES ASSUME TypeOK, LedgerOK, [RelayNext]_relayVars PROVE LedgerOK'
    OBVIOUS
  <2> USE DEF TypeOK
  <2>1. ASSUME NEW t \in 0..MaxTick, AdvanceTo(t) PROVE LedgerOK'
    <3>1. t \in Int /\ t >= currentTick /\ currentTick' = t /\ ledger' = ledger
      BY <2>1, RelayAssumption DEF AdvanceTo
    <3> QED BY <3>1, RowFields DEF LedgerOK
  <2>2. ASSUME NEW p \in Participant, JoinSeat(p) PROVE LedgerOK'
    <3> DEFINE seat == OpenRow(p, currentTick)
    <3>1. /\ seat \in Row /\ seat.joinedAtTick = currentTick /\ IsOpen(seat)
          /\ ledger' = SeatParticipant(ledger, seat) /\ currentTick' = currentTick
          /\ ValidLedger(ledger')
      BY <2>2 DEF JoinSeat, CanSeat, OpenRow, Row, IsOpen
    <3> HIDE DEF seat
    <3>2. \A j \in DOMAIN ledger' : ledger'[j] = seat \/ \E i \in DOMAIN ledger : ledger'[j] = ledger[i]
      BY <3>1, SeatParticipantRows
    <3> QED BY <3>1, <3>2 DEF LedgerOK
  <2>3. ASSUME NEW p \in Participant, LeaveSeat(p) PROVE LedgerOK'
    <3>1. /\ OpenRows(ledger, p) # {} /\ ledger' = VacateSeat(ledger, p, currentTick)
          /\ ValidLedger(ledger') /\ currentTick' = currentTick
      BY <2>3 DEF LeaveSeat, CanVacate
    <3>2. DOMAIN ledger' = DOMAIN ledger /\ ClosesOneRow(ledger, ledger', p, currentTick)
      BY <3>1, VacateSeatRows
    <3>3. PICK k \in OpenRows(ledger, p) :
            /\ ledger'[k] = [ledger[k] EXCEPT !.leftAtTick = currentTick]
            /\ \A i \in DOMAIN ledger \ {k} : ledger'[i] = ledger[i]
      BY <3>2 DEF ClosesOneRow
    <3>4. k \in DOMAIN ledger /\ ledger[k] \in Row
      BY DEF OpenRows
    <3>5. ledger'[k].joinedAtTick = ledger[k].joinedAtTick /\ ledger'[k].leftAtTick = currentTick
      BY <3>3, <3>4 DEF Row
    <3>6. ASSUME NEW i \in DOMAIN ledger'
          PROVE  /\ ledger'[i].joinedAtTick <= currentTick
                 /\ IsOpen(ledger'[i]) \/ ledger'[i].leftAtTick <= currentTick
      <4>1. CASE i = k
        BY <3>4, <3>5, <4>1 DEF LedgerOK
      <4>2. CASE i # k
        BY <3>2, <3>3, <4>2 DEF LedgerOK
      <4> QED BY <4>1, <4>2
    <3> QED BY <3>1, <3>6 DEF LedgerOK
  <2>4. ASSUME UNCHANGED <<ledger, currentTick>> PROVE LedgerOK'
    BY <2>4 DEF LedgerOK
  <2> QED BY <2>1, <2>2, <2>3, <2>4 DEF RelayNext, Submit, CatchUpPage, relayVars
<1> QED BY <1>1, <1>2, TypeCorrect, PTL DEF RelaySpec

(* At no tick of the past or the present are more than MaxWriters seats    *)
(* taken or two of them by the same participant, though the ledger's own   *)
(* check looks at join instants only (coop.ts, validateCoopSeatLedger).    *)
THEOREM NeverOverCapacityAlways == RelaySpec => []NeverOverCapacity
<1>1. TypeOK /\ LedgerOK => NeverOverCapacity
  <2> SUFFICES ASSUME TypeOK, LedgerOK, NEW t \in 0..currentTick
               PROVE  /\ Cardinality(OpenSeats(ledger, t)) <= MaxWriters
                      /\ \A i, j \in OpenSeats(ledger, t) :
                           ledger[i].participantId = ledger[j].participantId => i = j
    BY DEF NeverOverCapacity
  <2>1. CASE ledger = <<>>
    <3>1. OpenSeats(ledger, t) = {}
      BY <2>1 DEF OpenSeats
    <3> QED BY <3>1, FS_EmptySet, MaxWritersAssumption
  <2>2. CASE ValidLedger(ledger)
    <3>1. t \in Nat /\ ledger \in Seq(Row)
      BY DEF TypeOK
    <3> QED BY <2>2, <3>1, CapacityAtEveryTick
  <2> QED BY <2>1, <2>2 DEF LedgerOK
<1> QED BY <1>1, TypeCorrect, LedgerOKAlways, PTL

(* A seat that is taken now has an open tenure, and an open tenure is a    *)
(* taken seat.                                                             *)
LEMMA SeatedIsLive ==
  ASSUME TypeOK, LedgerOK, NEW p \in Participant
  PROVE  SeatedAt(ledger, p, currentTick) <=> p \in LiveSeats(ledger)
<1>1. ASSUME SeatedAt(ledger, p, currentTick) PROVE p \in LiveSeats(ledger)
  <2>1. PICK i \in DOMAIN ledger : ledger[i].participantId = p /\ Encloses(ledger[i], currentTick)
    BY <1>1 DEF SeatedAt
  <2>2. IsOpen(ledger[i])
    BY <2>1, RowFields DEF TypeOK, LedgerOK, Encloses
  <2> QED BY <2>1, <2>2 DEF LiveSeats
<1>2. ASSUME p \in LiveSeats(ledger) PROVE SeatedAt(ledger, p, currentTick)
  <2>1. PICK i \in DOMAIN ledger : ledger[i].participantId = p /\ IsOpen(ledger[i])
    BY <1>2 DEF LiveSeats
  <2> QED BY <2>1 DEF LedgerOK, SeatedAt, Encloses
<1> QED BY <1>1, <1>2

-----------------------------------------------------------------------------
(***************************************************************************)
(* The inboxes of a relay that catches up on join.                         *)
(***************************************************************************)
IsPrefixOf(box, records) ==
  Len(box) <= Len(records) /\ \A i \in DOMAIN box : box[i] = records[i]

(* The newest stamp of a prefix of the log is that of its last record, and *)
(* exactly the prefix has passed it.                                       *)
LEMMA PassedOfPrefix ==
  ASSUME TypeOK, StampsAscend, NEW box \in Seq(Record), IsPrefixOf(box, log)
  PROVE  Passed(log, LastSeen(box)) = Len(box)
<1> DEFINE n == Len(box)
           last == LastSeen(box)
           Behind == {i \in DOMAIN log : ~StampBefore(last, log[i])}
<1>1. /\ n \in Nat /\ DOMAIN box = 1..n /\ Len(log) \in Nat /\ DOMAIN log = 1..Len(log)
      /\ n <= Len(log) /\ \A i \in 1..n : box[i] = log[i]
  BY DEF TypeOK, IsPrefixOf
<1>2. \A i \in 1..Len(log) : log[i].tick \in Nat /\ log[i].seq \in Nat
  BY <1>1, RecordFields DEF TypeOK
<1>3. \A i, j \in 1..Len(log) : i < j => log[i].tick <= log[j].tick /\ log[i].seq < log[j].seq
  BY <1>1 DEF StampsAscend
<1>4. CASE box = <<>>
  <2>1. last = NoStamp /\ n = 0
    BY <1>4, <1>1 DEF LastSeen
  <2>2. Behind = {}
    <3>1. NoStamp.tick = -1
      BY DEF NoStamp
    <3> QED BY <1>1, <1>2, <2>1, <3>1 DEF StampBefore
  <2>3. Cardinality(Behind) = 0
    BY <2>2, FS_EmptySet
  <2> QED BY <2>1, <2>3 DEF Passed
<1>5. CASE box # <<>>
  <2>1. n \in 1..Len(log)
    BY <1>1, <1>5, EmptySeq
  <2>2. StampsOf(box) = {StampOf(log[i]) : i \in 1..n}
    BY <1>1 DEF StampsOf
  <2> DEFINE Newest(s) == \A t \in StampsOf(box) : ~StampBefore(s, t)
  <2>3. StampOf(log[n]) \in StampsOf(box) /\ Newest(StampOf(log[n]))
    <3>1. StampOf(log[n]) \in StampsOf(box)
      BY <2>1, <2>2
    <3>2. ASSUME NEW i \in 1..n PROVE ~StampBefore(StampOf(log[n]), StampOf(log[i]))
      <4>1. i = n \/ i < n
        BY <1>1
      <4>2. i \in 1..Len(log) /\ n \in 1..Len(log)
        BY <1>1, <2>1
      <4>3. log[i].tick <= log[n].tick /\ log[i].seq <= log[n].seq
        BY <1>2, <1>3, <4>1, <4>2
      <4> QED BY <1>2, <4>2, <4>3 DEF StampBefore, StampOf
    <3> QED BY <2>2, <3>1, <3>2
  <2>4. last \in StampsOf(box) /\ Newest(last)
    <3>1. last = CHOOSE s \in StampsOf(box) : Newest(s)
      BY <1>5 DEF LastSeen
    <3> HIDE DEF Newest, last
    <3> QED BY <2>3, <3>1
  <2>5. PICK m \in 1..n : last = StampOf(log[m])
    BY <2>2, <2>4
  <2>6. m = n
    <3>1. SUFFICES ASSUME m < n PROVE FALSE
      BY <1>1
    <3>2. m \in 1..Len(log) /\ n \in 1..Len(log)
      BY <1>1, <2>1
    <3>3. StampBefore(StampOf(log[m]), StampOf(log[n]))
      BY <1>2, <1>3, <3>1, <3>2 DEF StampBefore, StampOf
    <3> QED BY <2>3, <2>4, <2>5, <3>3
  <2>7. ASSUME NEW i \in 1..Len(log) PROVE ~StampBefore(last, log[i]) <=> i <= n
    <3>1. last.tick = log[n].tick /\ last.seq = log[n].seq
      BY <2>5, <2>6 DEF StampOf
    <3>2. CASE i <= n
      <4>1. log[i].tick <= log[n].tick /\ log[i].seq <= log[n].seq
        <5>1. i = n \/ i < n
          BY <1>1, <3>2
        <5> QED BY <1>2, <1>3, <2>1, <5>1
      <4> QED BY <1>2, <2>1, <3>1, <3>2, <4>1 DEF StampBefore
    <3>3. CASE ~(i <= n)
      <4>1. log[n].tick <= log[i].tick /\ log[n].seq < log[i].seq
        BY <1>1, <1>3, <2>1, <3>3
      <4> QED BY <1>2, <2>1, <3>1, <3>3, <4>1 DEF StampBefore
    <3> QED BY <3>2, <3>3
  <2>8. Behind = 1..n
    <3> HIDE DEF last
    <3> QED BY <1>1, <2>7
  <2>9. Cardinality(1..n) = n
    BY <2>1, FS_Interval
  <2> QED BY <2>8, <2>9 DEF Passed
<1> QED BY <1>4, <1>5

(* A page after a prefix of the log makes a longer prefix.                 *)
LEMMA PageExtendsPrefix ==
  ASSUME TypeOK, StampsAscend, NEW box \in Seq(Record), IsPrefixOf(box, log), NEW limit \in Nat
  PROVE  LET next == box \o PageCoopLog(log, LastSeen(box), limit)
         IN  /\ next \in Seq(Record) /\ IsPrefixOf(next, log)
             /\ Len(next) = Smaller(Len(box) + limit, Len(log))
<1> DEFINE page == PageCoopLog(log, LastSeen(box), limit)
           n == Len(box)
           next == box \o page
<1>1. Passed(log, LastSeen(box)) = n
  BY PassedOfPrefix
<1>2. /\ page \in Seq(Record) /\ Len(page) = Smaller(n + limit, Len(log)) - n
      /\ \A i \in 1..Len(page) : page[i] = log[n + i]
  <2> DEFINE after == LastSeen(box)
  <2>1. log \in Seq(Record)
    BY DEF TypeOK
  <2> HIDE DEF after
  <2>2. /\ PageCoopLog(log, after, limit) \in Seq(Record)
        /\ Len(PageCoopLog(log, after, limit)) =
             Smaller(Passed(log, after) + limit, Len(log)) - Passed(log, after)
        /\ \A i \in 1..Len(PageCoopLog(log, after, limit)) :
             PageCoopLog(log, after, limit)[i] = log[Passed(log, after) + i]
    BY <2>1, PageProperties
  <2> QED BY <1>1, <2>2 DEF after
<1>3. n \in Nat /\ Len(log) \in Nat /\ n <= Len(log) /\ DOMAIN box = 1..n /\ \A i \in 1..n : box[i] = log[i]
  BY DEF TypeOK, IsPrefixOf
<1> HIDE DEF page, n
<1>4. /\ next \in Seq(Record) /\ Len(next) = n + Len(page)
      /\ \A i \in 1..(n + Len(page)) : next[i] = IF i <= n THEN box[i] ELSE page[i - n]
  BY <1>2, ConcatProperties DEF n
<1> HIDE DEF next
<1>5. Len(next) = Smaller(n + limit, Len(log)) /\ Len(next) <= Len(log) /\ Len(page) \in Nat
  BY <1>2, <1>3, <1>4 DEF Smaller
<1>6. ASSUME NEW i \in DOMAIN next PROVE next[i] = log[i]
  <2>1. i \in 1..(n + Len(page)) /\ i \in Nat
    BY <1>3, <1>4, <1>5
  <2>2. CASE i <= n
    BY <1>3, <1>4, <2>1, <2>2
  <2>3. CASE ~(i <= n)
    <3>1. i - n \in 1..Len(page) /\ n + (i - n) = i
      BY <1>3, <1>5, <2>1, <2>3
    <3> QED BY <1>2, <1>4, <2>1, <2>3, <3>1
  <2> QED BY <2>2, <2>3
<1> QED BY <1>4, <1>5, <1>6 DEF IsPrefixOf, next, page, n

(* What InboxesFollowLog says of one participant.                          *)
Follows(p, rows, records, box) ==
  /\ IsPrefixOf(box, records)
  /\ p \in LiveSeats(rows) => Len(box) = Len(records)
  /\ p \notin LiveSeats(rows) => \A i \in DOMAIN box : \E k \in DOMAIN rows :
       rows[k].participantId = p /\ box[i].tick <= rows[k].leftAtTick

(* The inboxes follow the log when each participant's does.                *)
LEMMA FollowsIsInboxesFollowLog ==
  InboxesFollowLog <=> (AutoCatchUpOnJoin => \A p \in Participant : Follows(p, ledger, log, inbox[p]))
BY DEF InboxesFollowLog, Follows, IsPrefixOf

(* A whole inbox has nothing left to catch up.                             *)
LEMMA WholeInboxStays ==
  ASSUME TypeOK, StampsAscend, NEW p \in Participant, NEW limit \in Nat,
         IsPrefixOf(inbox[p], log), Len(inbox[p]) = Len(log)
  PROVE  /\ inbox[p] = log
         /\ inbox[p] \o PageCoopLog(log, LastSeen(inbox[p]), limit) = inbox[p]
<1> DEFINE next == inbox[p] \o PageCoopLog(log, LastSeen(inbox[p]), limit)
<1>1. inbox[p] \in Seq(Record) /\ log \in Seq(Record) /\ Len(log) \in Nat
  BY DEF TypeOK
<1>2. next \in Seq(Record) /\ IsPrefixOf(next, log) /\ Len(next) = Smaller(Len(inbox[p]) + limit, Len(log))
  BY <1>1, PageExtendsPrefix
<1> HIDE DEF next
<1>3. Len(next) = Len(log)
  BY <1>1, <1>2 DEF Smaller
<1>4. inbox[p] = log
  BY <1>1, SeqEqual DEF IsPrefixOf
<1>5. next = log
  BY <1>1, <1>2, <1>3, SeqEqual DEF IsPrefixOf
<1> QED BY <1>4, <1>5 DEF next

(* With catch-up on join every step keeps the inboxes on the log.          *)
LEMMA StepKeepsInboxes ==
  ASSUME AutoCatchUpOnJoin, TypeOK, StampsAscend, LedgerOK, InboxesFollowLog,
         [RelayNext]_relayVars, NEW p \in Participant
  PROVE  Follows(p, ledger', log', inbox'[p])
<1> USE DEF TypeOK
<1>1. Follows(p, ledger, log, inbox[p])
  BY FollowsIsInboxesFollowLog
<1>2. inbox[p] \in Seq(Record) /\ Len(inbox[p]) \in Nat /\ Len(log) \in Nat /\ IsPrefixOf(inbox[p], log)
  BY <1>1 DEF Follows
<1>3. ASSUME UNCHANGED <<ledger, log, inbox>> PROVE Follows(p, ledger', log', inbox'[p])
  BY <1>1, <1>3
<1>4. ASSUME NEW q \in Participant, JoinSeat(q) PROVE Follows(p, ledger', log', inbox'[p])
  <2>1. /\ ledger' = SeatParticipant(ledger, OpenRow(q, currentTick)) /\ log' = log
        /\ inbox' = [inbox EXCEPT ![q] = @ \o PageCoopLog(log, LastSeen(@), Len(log))]
    BY <1>4 DEF JoinSeat
  <2>2. LiveSeats(ledger') = LiveSeats(ledger) \cup {q}
    BY <2>1, LiveAfterJoin
  <2>3. CASE p = q
    <3>1. inbox'[p] = inbox[p] \o PageCoopLog(log, LastSeen(inbox[p]), Len(log))
      BY <2>1, <2>3
    <3>2. IsPrefixOf(inbox'[p], log) /\ Len(inbox'[p]) = Smaller(Len(inbox[p]) + Len(log), Len(log))
      BY <1>2, <3>1, PageExtendsPrefix
    <3>3. Len(inbox'[p]) = Len(log)
      BY <1>2, <3>2 DEF Smaller
    <3> QED BY <2>1, <2>2, <2>3, <3>2, <3>3 DEF Follows
  <2>4. CASE p # q
    <3>1. inbox'[p] = inbox[p] /\ (p \in LiveSeats(ledger') <=> p \in LiveSeats(ledger))
      BY <2>1, <2>2, <2>4
    <3>2. \A i \in DOMAIN ledger : \E j \in DOMAIN ledger' : ledger'[j] = ledger[i]
      <4>1. OpenRow(q, currentTick) \in Row
        BY DEF OpenRow, Row
      <4> QED BY <2>1, <4>1, SeatParticipantRows
    <3>3. ASSUME p \notin LiveSeats(ledger'), NEW i \in DOMAIN inbox[p]
          PROVE  \E k \in DOMAIN ledger' :
                   ledger'[k].participantId = p /\ inbox[p][i].tick <= ledger'[k].leftAtTick
      <4>1. PICK k \in DOMAIN ledger :
              ledger[k].participantId = p /\ inbox[p][i].tick <= ledger[k].leftAtTick
        BY <1>1, <3>1, <3>3 DEF Follows
      <4>2. PICK j \in DOMAIN ledger' : ledger'[j] = ledger[k]
        BY <3>2
      <4> QED BY <4>1, <4>2
    <3> QED BY <1>1, <2>1, <3>1, <3>3 DEF Follows
  <2> QED BY <2>3, <2>4
<1>5. ASSUME NEW q \in Participant, LeaveSeat(q) PROVE Follows(p, ledger', log', inbox'[p])
  <2>1. /\ OpenRows(ledger, q) # {} /\ ledger' = VacateSeat(ledger, q, currentTick)
        /\ log' = log /\ inbox' = inbox
    BY <1>5 DEF LeaveSeat, CanVacate
  <2>2. /\ LiveSeats(ledger') \subseteq LiveSeats(ledger)
        /\ LiveSeats(ledger) \subseteq LiveSeats(ledger') \cup {q}
        /\ \E k \in DOMAIN ledger' : ledger'[k].participantId = q /\ ledger'[k].leftAtTick = currentTick
        /\ \A i \in DOMAIN ledger : ~IsOpen(ledger[i]) => i \in DOMAIN ledger' /\ ledger'[i] = ledger[i]
    BY <2>1, LiveAfterLeave
  <2>3. ASSUME p \notin LiveSeats(ledger'), NEW i \in DOMAIN inbox[p]
        PROVE  \E k \in DOMAIN ledger' :
                 ledger'[k].participantId = p /\ inbox[p][i].tick <= ledger'[k].leftAtTick
    <3>1. i \in DOMAIN log /\ inbox[p][i] = log[i]
      BY <1>2 DEF IsPrefixOf
    <3>2. inbox[p][i].tick <= currentTick /\ inbox[p][i].tick \in Nat
      BY <3>1, RecordFields DEF StampsAscend
    <3>3. CASE p \in LiveSeats(ledger)
      <4>1. p = q
        BY <2>2, <2>3, <3>3
      <4> QED BY <2>2, <3>2, <4>1
    <3>4. CASE p \notin LiveSeats(ledger)
      <4>1. PICK k \in DOMAIN ledger :
              ledger[k].participantId = p /\ inbox[p][i].tick <= ledger[k].leftAtTick
        BY <1>1, <2>3, <3>4 DEF Follows
      <4>2. ~IsOpen(ledger[k])
        BY <3>2, <4>1 DEF IsOpen, Open
      <4> QED BY <2>2, <4>1, <4>2
    <3> QED BY <3>3, <3>4
  <2> QED BY <1>1, <2>1, <2>2, <2>3 DEF Follows
<1>6. ASSUME NEW q \in Participant, NEW kind \in Kind, NEW doorShaped \in BOOLEAN, Submit(q, kind, doorShaped)
      PROVE  Follows(p, ledger', log', inbox'[p])
  <2> DEFINE record == [participantId |-> q, tick |-> currentTick, seq |-> nextSeq, kind |-> kind]
  <2>1. record \in Record
    BY DEF Record
  <2> HIDE DEF record
  <2>2. log' = Append(log, record) /\ inbox' = Broadcast(record) /\ ledger' = ledger
    BY <1>6 DEF Submit, record
  <2>3. Len(log') = Len(log) + 1 /\ DOMAIN log = 1..Len(log) /\ \A i \in DOMAIN log : log'[i] = log[i]
    BY <2>1, <2>2, AppendProperties
  <2>4. CASE p \in LiveSeats(ledger)
    <3>1. inbox[p] = log
      BY <1>1, <1>2, <2>4, SeqEqual DEF Follows, IsPrefixOf
    <3>2. inbox'[p] = log'
      BY <2>2, <2>4, <3>1 DEF Broadcast
    <3>3. IsPrefixOf(log', log')
      BY <1>2, <2>3 DEF IsPrefixOf
    <3> QED BY <2>2, <2>4, <3>2, <3>3 DEF Follows
  <2>5. CASE p \notin LiveSeats(ledger)
    <3>1. inbox'[p] = inbox[p]
      BY <2>2, <2>5 DEF Broadcast
    <3>2. IsPrefixOf(inbox[p], log')
      BY <1>2, <2>3 DEF IsPrefixOf
    <3> QED BY <1>1, <2>2, <2>5, <3>1, <3>2 DEF Follows
  <2> QED BY <2>4, <2>5
<1>7. ASSUME NEW q \in Participant, NEW limit \in 1..MaxRecords, CatchUpPage(q, limit)
      PROVE  Follows(p, ledger', log', inbox'[p])
  <2>1. /\ inbox' = [inbox EXCEPT ![q] = @ \o PageCoopLog(log, LastSeen(@), limit)]
        /\ SeatedAt(ledger, q, currentTick) /\ ledger' = ledger /\ log' = log
    BY <1>7 DEF CatchUpPage
  <2>2. CASE p = q
    <3>1. Len(inbox[p]) = Len(log)
      BY <1>1, <2>1, <2>2, SeatedIsLive DEF Follows
    <3>2. inbox[p] \o PageCoopLog(log, LastSeen(inbox[p]), limit) = inbox[p]
      <4>1. limit \in Nat
        BY RelayAssumption
      <4> QED BY <1>2, <3>1, <4>1, WholeInboxStays
    <3> QED BY <1>1, <2>1, <2>2, <3>2
  <2>3. CASE p # q
    BY <1>1, <2>1, <2>3
  <2> QED BY <2>2, <2>3
<1> QED BY <1>3, <1>4, <1>5, <1>6, <1>7 DEF RelayNext, AdvanceTo, relayVars

(* A relay that catches its seats up on join has delivered the whole log   *)
(* to every live seat, in order, and has kept a prefix of it, no younger   *)
(* than a tenure of theirs, for everyone who left (relay.ts, broadcast and *)
(* deliverCatchUp).                                                        *)
THEOREM InboxesFollowLogAlways == RelaySpec => []InboxesFollowLog
<1>1. RelayInit => InboxesFollowLog
  <2> SUFFICES ASSUME RelayInit, NEW p \in Participant PROVE Follows(p, ledger, log, inbox[p])
    BY FollowsIsInboxesFollowLog
  <2>1. inbox[p] = <<>> /\ log = <<>> /\ ledger = <<>>
    BY DEF RelayInit
  <2> QED BY <2>1 DEF Follows, IsPrefixOf, LiveSeats
<1>2. TypeOK /\ StampsAscend /\ LedgerOK /\ InboxesFollowLog /\ [RelayNext]_relayVars => InboxesFollowLog'
  <2> SUFFICES ASSUME TypeOK, StampsAscend, LedgerOK, InboxesFollowLog, [RelayNext]_relayVars,
                      AutoCatchUpOnJoin, NEW p \in Participant
               PROVE  Follows(p, ledger', log', inbox'[p])
    BY DEF InboxesFollowLog, Follows, IsPrefixOf
  <2> QED BY StepKeepsInboxes
<1> QED BY <1>1, <1>2, TypeCorrect, StampsAscendAlways, LedgerOKAlways, PTL DEF RelaySpec

-----------------------------------------------------------------------------
(***************************************************************************)
(* The refinement.                                                         *)
(***************************************************************************)

(* The clock and the log stay within the bounds of the run.                *)
Bounded == currentTick \in 0..MaxTick /\ nextSeq = Len(log) /\ Len(log) <= MaxRecords

(* The bounds hold in every state of the relay.                            *)
LEMMA BoundedAlways == RelaySpec => []Bounded
<1>1. RelayInit => Bounded
  BY RelayAssumption DEF RelayInit, Bounded
<1>2. TypeOK /\ Bounded /\ [RelayNext]_relayVars => Bounded'
  <2> SUFFICES ASSUME TypeOK, Bounded, [RelayNext]_relayVars PROVE Bounded'
    OBVIOUS
  <2>1. ASSUME NEW p \in Participant, NEW kind \in Kind, NEW doorShaped \in BOOLEAN,
               Submit(p, kind, doorShaped)
        PROVE  Bounded'
    <3> DEFINE record == [participantId |-> p, tick |-> currentTick, seq |-> nextSeq, kind |-> kind]
    <3>1. record \in Record
      BY DEF TypeOK, Record
    <3> HIDE DEF record
    <3>2. log' = Append(log, record) /\ nextSeq' = nextSeq + 1 /\ currentTick' = currentTick /\ Len(log) < MaxRecords
      BY <2>1 DEF Submit, record
    <3>3. Len(log') = Len(log) + 1 /\ Len(log) \in Nat
      BY <3>1, <3>2, AppendProperties DEF TypeOK
    <3> QED BY <3>2, <3>3, RelayAssumption DEF Bounded
  <2>2. ASSUME NEW t \in 0..MaxTick, AdvanceTo(t) PROVE Bounded'
    BY <2>2 DEF AdvanceTo, Bounded
  <2>3. ASSUME UNCHANGED <<currentTick, nextSeq, log>> PROVE Bounded'
    BY <2>3 DEF Bounded
  <2> QED BY <2>1, <2>2, <2>3 DEF RelayNext, JoinSeat, LeaveSeat, CatchUpPage, relayVars
<1> QED BY <1>1, <1>2, TypeCorrect, PTL DEF RelaySpec

(* The abstract room counts as the relay does.                             *)
LEMMA SameCount == \A S : Timeline!Cardinality(S) = Cardinality(S)
BY DEF Timeline!Cardinality, Cardinality

(* A join is an entry into a room that had a place, by somebody outside.   *)
LEMMA JoinEnters ==
  ASSUME AutoCatchUpOnJoin, TypeOK, StampsAscend, LedgerOK, InboxesFollowLog,
         NEW p \in Participant, JoinSeat(p)
  PROVE  Timeline!Enter(p)
<1> USE DEF TypeOK
<1> DEFINE seat == OpenRow(p, currentTick)
<1>1. /\ ledger' = SeatParticipant(ledger, seat) /\ ValidLedger(ledger') /\ log' = log
      /\ currentTick' = currentTick
      /\ inbox' = [inbox EXCEPT ![p] = @ \o PageCoopLog(log, LastSeen(@), Len(log))]
  BY DEF JoinSeat, CanSeat
<1>2. seat \in Row /\ seat.joinedAtTick = currentTick /\ seat.participantId = p /\ IsOpen(seat)
  BY DEF OpenRow, Row, IsOpen
<1>3. LiveSeats(ledger') = LiveSeats(ledger) \cup {p}
  BY <1>1, LiveAfterJoin
<1> HIDE DEF seat
<1>4. /\ ledger' \in Seq(Row)
      /\ \A i \in DOMAIN ledger : \E j \in DOMAIN ledger' : ledger'[j] = ledger[i]
      /\ \E j \in DOMAIN ledger' : ledger'[j] = seat
      /\ \A j \in DOMAIN ledger' : ledger'[j] = seat \/ \E i \in DOMAIN ledger : ledger'[j] = ledger[i]
  <2> DEFINE next == SeatParticipant(ledger, seat)
  <2>1. /\ next \in Seq(Row)
        /\ \A i \in DOMAIN ledger : \E j \in DOMAIN next : next[j] = ledger[i]
        /\ \E j \in DOMAIN next : next[j] = seat
        /\ \A j \in DOMAIN next : next[j] = seat \/ \E i \in DOMAIN ledger : next[j] = ledger[i]
    BY <1>2, SeatParticipantRows
  <2>2. ledger' = next
    BY <1>1
  <2> HIDE DEF next
  <2> QED BY <2>1, <2>2
<1>5. ASSUME NEW j \in DOMAIN ledger' PROVE ledger'[j].joinedAtTick <= currentTick
  <2>1. CASE ledger'[j] = seat
    BY <1>2, <2>1
  <2>2. ASSUME NEW i \in DOMAIN ledger, ledger'[j] = ledger[i]
        PROVE  ledger'[j].joinedAtTick <= currentTick
    BY <2>2 DEF LedgerOK
  <2> QED BY <1>4, <2>1, <2>2
<1>6. /\ IsFiniteSet(LiveSeats(ledger')) /\ Cardinality(LiveSeats(ledger')) <= MaxWriters
      /\ \A q \in Participant : \A i, j \in OpenRows(ledger', q) : i = j
  <2>1. ledger' \in Seq(Row) /\ ValidLedger(ledger') /\ currentTick \in Nat
    BY <1>1, <1>4
  <2> QED BY <1>5, <2>1, LiveWithinCapacity
<1>7. p \notin LiveSeats(ledger)
  <2> SUFFICES ASSUME p \in LiveSeats(ledger) PROVE FALSE
    OBVIOUS
  <2>1. PICK i \in DOMAIN ledger : ledger[i].participantId = p /\ IsOpen(ledger[i])
    BY DEF LiveSeats
  <2>2. PICK new \in DOMAIN ledger' :
          /\ ledger'[new] = seat
          /\ \E j \in DOMAIN ledger' \ {new} : ledger'[j] = ledger[i]
    BY <1>1, <1>2, SeatParticipantAdds
  <2>3. PICK j \in DOMAIN ledger' \ {new} : ledger'[j] = ledger[i]
    BY <2>2
  <2>4. new \in OpenRows(ledger', p) /\ j \in OpenRows(ledger', p)
    BY <1>2, <2>1, <2>2, <2>3 DEF OpenRows
  <2> QED BY <1>6, <2>3, <2>4
<1>8. Cardinality(LiveSeats(ledger)) < MaxWriters
  <2> DEFINE Before == LiveSeats(ledger)
  <2>1. Before = LiveSeats(ledger') \ {p}
    BY <1>3, <1>7
  <2>2. p \in LiveSeats(ledger')
    BY <1>3
  <2> HIDE DEF Before
  <2>3. Cardinality(Before) = Cardinality(LiveSeats(ledger')) - 1 /\ Cardinality(LiveSeats(ledger')) \in Nat
    BY <1>6, <2>1, <2>2, FS_RemoveElement, FS_CardinalityType
  <2> QED BY <1>6, <2>3, MaxWritersAssumption DEF Before
<1>9. inbox' = [inbox EXCEPT ![p] = log]
  <2>1. Follows(p, ledger, log, inbox[p])
    BY FollowsIsInboxesFollowLog
  <2> DEFINE next == inbox[p] \o PageCoopLog(log, LastSeen(inbox[p]), Len(log))
  <2>2. /\ next \in Seq(Record) /\ IsPrefixOf(next, log)
        /\ Len(next) = Smaller(Len(inbox[p]) + Len(log), Len(log))
    <3>1. inbox[p] \in Seq(Record) /\ IsPrefixOf(inbox[p], log) /\ Len(log) \in Nat
      BY <2>1 DEF Follows
    <3> QED BY <3>1, PageExtendsPrefix
  <2>3. inbox' = [inbox EXCEPT ![p] = next]
    BY <1>1
  <2> HIDE DEF next
  <2>4. next = log
    <3>1. Len(next) = Len(log)
      BY <2>2 DEF Smaller
    <3>2. log \in Seq(Record) /\ next \in Seq(Record)
      BY <2>2
    <3>3. \A i \in 1..Len(next) : next[i] = log[i]
      BY <2>2, <3>2 DEF IsPrefixOf
    <3> QED BY <3>1, <3>2, <3>3, SeqEqual
  <2> QED BY <2>3, <2>4
<1>10. LiveSeats(ledger)' = LiveSeats(ledger')
  BY DEF LiveSeats
<1> QED BY <1>1, <1>3, <1>7, <1>8, <1>9, <1>10, SameCount DEF Timeline!Enter

(* A leave of the relay is a leave of the room: the participant had one    *)
(* open tenure only.                                                       *)
LEMMA LeaveLeaves ==
  ASSUME TypeOK, LedgerOK, NEW p \in Participant, LeaveSeat(p)
  PROVE  Timeline!Leave(p)
<1> USE DEF TypeOK
<1>1. /\ OpenRows(ledger, p) # {} /\ ledger' = VacateSeat(ledger, p, currentTick)
      /\ log' = log /\ inbox' = inbox
  BY DEF LeaveSeat, CanVacate
<1>2. /\ p \in LiveSeats(ledger) /\ LiveSeats(ledger') \subseteq LiveSeats(ledger)
      /\ LiveSeats(ledger) \subseteq LiveSeats(ledger') \cup {p}
  BY <1>1, LiveAfterLeave
<1>3. p \notin LiveSeats(ledger')
  <2>1. PICK k \in OpenRows(ledger, p) :
          /\ ledger'[k] = [ledger[k] EXCEPT !.leftAtTick = currentTick]
          /\ \A i \in DOMAIN ledger \ {k} : ledger'[i] = ledger[i]
    <3>1. ClosesOneRow(ledger, ledger', p, currentTick)
      BY <1>1, VacateSeatRows
    <3> QED BY <3>1 DEF ClosesOneRow
  <2>2. DOMAIN ledger' = DOMAIN ledger
    BY <1>1, VacateSeatRows
  <2>3. \A i, j \in OpenRows(ledger, p) : i = j
    <3>1. ledger # <<>>
      BY <1>1 DEF OpenRows
    <3>2. ValidLedger(ledger) /\ \A i \in DOMAIN ledger : ledger[i].joinedAtTick <= currentTick
      BY <3>1 DEF LedgerOK
    <3> QED BY <3>2, LiveWithinCapacity
  <2>4. ~IsOpen(ledger'[k])
    <3>1. ledger[k] \in Row
      BY DEF OpenRows
    <3> QED BY <2>1, <3>1 DEF Row, IsOpen, Open
  <2> SUFFICES ASSUME p \in LiveSeats(ledger') PROVE FALSE
    OBVIOUS
  <2>5. PICK i \in DOMAIN ledger' : IsOpen(ledger'[i]) /\ ledger'[i].participantId = p
    BY DEF LiveSeats
  <2>6. i \in DOMAIN ledger /\ i # k
    BY <2>2, <2>4, <2>5
  <2>7. i \in OpenRows(ledger, p)
    BY <2>1, <2>5, <2>6 DEF OpenRows
  <2> QED BY <2>3, <2>6, <2>7
<1>4. LiveSeats(ledger)' = LiveSeats(ledger')
  BY DEF LiveSeats
<1>5. LiveSeats(ledger') = LiveSeats(ledger) \ {p}
  BY <1>2, <1>3
<1> QED BY <1>1, <1>2, <1>4, <1>5 DEF Timeline!Leave

(* An accepted record is an entry whose slot is new, written by somebody   *)
(* in the room and seen by everybody in it.                                *)
LEMMA SubmitWrites ==
  ASSUME AutoCatchUpOnJoin, TypeOK, StampsAscend, LedgerOK, InboxesFollowLog, Bounded,
         NEW p \in Participant, NEW kind \in Kind, NEW doorShaped \in BOOLEAN,
         Submit(p, kind, doorShaped)
  PROVE  \E e \in [participantId : Participant, tick : 0..MaxTick, seq : 0..MaxRecords, kind : Kind] :
           Timeline!Write(e)
<1> USE DEF TypeOK
<1> DEFINE record == [participantId |-> p, tick |-> currentTick, seq |-> nextSeq, kind |-> kind]
           Entries == [participantId : Participant, tick : 0..MaxTick, seq : 0..MaxRecords, kind : Kind]
<1>1. /\ record \in Entries /\ record.participantId = p /\ record.seq = nextSeq
  <2>1. nextSeq \in 0..MaxRecords /\ currentTick \in 0..MaxTick
    BY RelayAssumption DEF Bounded
  <2> QED BY <2>1
<1> HIDE DEF record
<1>2. /\ SeatedAt(ledger, p, currentTick) /\ log' = Append(log, record)
      /\ inbox' = Broadcast(record) /\ ledger' = ledger
  BY DEF Submit, record
<1>3. p \in LiveSeats(ledger)
  BY <1>2, SeatedIsLive
<1>4. \A i \in DOMAIN log : log[i].seq < record.seq
  BY <1>1 DEF StampsAscend
<1>5. inbox' = [q \in Participant |-> IF q \in LiveSeats(ledger) THEN log' ELSE inbox[q]]
  <2>1. \A q \in Participant : q \in LiveSeats(ledger) => inbox[q] = log
    <3> SUFFICES ASSUME NEW q \in Participant, q \in LiveSeats(ledger) PROVE inbox[q] = log
      OBVIOUS
    <3>1. Follows(q, ledger, log, inbox[q])
      BY FollowsIsInboxesFollowLog
    <3>2. IsPrefixOf(inbox[q], log) /\ Len(inbox[q]) = Len(log)
      BY <3>1 DEF Follows
    <3> QED BY <3>2, SeqEqual DEF IsPrefixOf
  <2> QED BY <1>2, <2>1 DEF Broadcast
<1>6. LiveSeats(ledger)' = LiveSeats(ledger)
  BY <1>2 DEF LiveSeats
<1>7. Timeline!Write(record)
  BY <1>1, <1>2, <1>3, <1>4, <1>5, <1>6 DEF Timeline!Write
<1> HIDE DEF Entries
<1>8. \E e \in Entries : Timeline!Write(e)
  BY <1>1, <1>7
<1> QED BY <1>8 DEF Entries

(* Every step of a relay that catches up on join is a step of the shared   *)
(* timeline, or changes nothing it speaks of.                              *)
LEMMA StepRefines ==
  ASSUME AutoCatchUpOnJoin, TypeOK, StampsAscend, LedgerOK, InboxesFollowLog, Bounded,
         [RelayNext]_relayVars
  PROVE  [Timeline!Next]_(Timeline!vars)
<1>1. ASSUME UNCHANGED <<log, inbox, ledger>> PROVE UNCHANGED Timeline!vars
  BY <1>1 DEF Timeline!vars, LiveSeats
<1>2. ASSUME NEW p \in Participant, JoinSeat(p) PROVE Timeline!Next
  BY <1>2, JoinEnters DEF Timeline!Next
<1>3. ASSUME NEW p \in Participant, LeaveSeat(p) PROVE Timeline!Next
  BY <1>3, LeaveLeaves DEF Timeline!Next
<1>4. ASSUME NEW p \in Participant, NEW kind \in Kind, NEW doorShaped \in BOOLEAN,
             Submit(p, kind, doorShaped)
      PROVE  Timeline!Next
  BY <1>4, SubmitWrites DEF Timeline!Next
<1>5. ASSUME NEW p \in Participant, NEW limit \in 1..MaxRecords, CatchUpPage(p, limit)
      PROVE  UNCHANGED <<log, inbox, ledger>>
  <2>1. /\ inbox' = [inbox EXCEPT ![p] = @ \o PageCoopLog(log, LastSeen(@), limit)]
        /\ SeatedAt(ledger, p, currentTick) /\ ledger' = ledger /\ log' = log
    BY <1>5 DEF CatchUpPage
  <2>2. limit \in Nat
    BY RelayAssumption
  <2>3. Follows(p, ledger, log, inbox[p]) /\ p \in LiveSeats(ledger)
    BY <2>1, FollowsIsInboxesFollowLog, SeatedIsLive
  <2>4. IsPrefixOf(inbox[p], log) /\ Len(inbox[p]) = Len(log)
    BY <2>3 DEF Follows
  <2>5. inbox[p] \o PageCoopLog(log, LastSeen(inbox[p]), limit) = inbox[p]
    BY <2>2, <2>4, WholeInboxStays
  <2> QED BY <2>1, <2>5 DEF TypeOK
<1> QED BY <1>1, <1>2, <1>3, <1>4, <1>5 DEF RelayNext, AdvanceTo, relayVars

(* A relay with catch-up on join implements the shared timeline.           *)
THEOREM RelayImplementsTimeline == ASSUME AutoCatchUpOnJoin PROVE RelaySpec => ImplementsTimeline
<1>1. RelayInit => Timeline!Init
  <2> SUFFICES ASSUME RelayInit PROVE Timeline!Init
    OBVIOUS
  <2>1. ledger = <<>> /\ log = <<>> /\ inbox = [p \in Participant |-> <<>>]
    BY DEF RelayInit
  <2>2. LiveSeats(ledger) = {}
    BY <2>1 DEF LiveSeats
  <2> QED BY <2>1, <2>2 DEF Timeline!Init
<1>2. TypeOK /\ StampsAscend /\ LedgerOK /\ InboxesFollowLog /\ Bounded /\ [RelayNext]_relayVars
        => [Timeline!Next]_(Timeline!vars)
  BY StepRefines
<1> QED BY <1>1, <1>2, TypeCorrect, StampsAscendAlways, LedgerOKAlways, InboxesFollowLogAlways,
           BoundedAlways, PTL
        DEF RelaySpec, ImplementsTimeline, Timeline!Spec
=============================================================================
