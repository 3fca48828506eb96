---------------------------- MODULE Billing_proofs ---------------------------
(***************************************************************************)
(* Theorems about the billing half of the economy, for any contracts,      *)
(* terms, amounts, ladders and pauses.                                     *)
(*                                                                         *)
(* A tick is followed along one contract: what it works on is an account,  *)
(* and every step of the tick (signing, churn, cliff, bills, each visit of *)
(* the sweep, releases) leaves an account in order and posts exactly the   *)
(* change of what the account owes, holds back and pledges.  The postings  *)
(* of the contracts are then summed (AccountsInv).  On top of it stand the *)
(* grid of an account, whose periods are never handed out twice            *)
(* (GridsKept), and, where no pause outlasts a term, its place inside the  *)
(* term (TermsKept).                                                       *)
(***************************************************************************)
EXTENDS Billing, DataFacts

(* What a contract, an invoice and a schedule are.                         *)
Deal ==
  [phase : {"pending", "active", "suspended", "terminated"}, termEnd : Nat, anchor : Nat,
   cycles : Nat, backlog : Nat, signed : BOOLEAN]
Bill ==
  [cycle : Nat, from : Nat, due : Nat, stage : Stage, state : {"issued", "failed", "paid", "written-off"}]
Schedule ==
  [cycle : Nat, reason : {"recognition", "reserve"}, total : Nat, released : Nat,
   slices : Nat \ {0}, every : Nat \ {0}, next : Nat]
Held == {schedule \in Schedule : schedule.released <= schedule.total}

-----------------------------------------------------------------------------
(* What a schedule releases is never more than it holds.                   *)
LEMMA ReleasedIsHeld ==
  ASSUME NEW s \in Held, NEW t \in Nat
  PROVE  /\ Due(s, t) \in Nat /\ Rest(s) \in Nat
         /\ Released(s, t) \in Held
         /\ Released(s, t).reason = s.reason /\ Released(s, t).total = s.total
         /\ Rest(Released(s, t)) = Rest(s) - Due(s, t)
<1>1. /\ s.total \in Nat /\ s.released \in Nat /\ s.released <= s.total
      /\ s.slices \in Nat /\ s.slices > 0 /\ s.every \in Nat /\ s.every > 0 /\ s.next \in Nat
      /\ s \in Schedule
  BY DEF Held, Schedule
<1>2. Rest(s) \in Nat
  BY <1>1 DEF Rest
<1>3. SlicesDue(s, t) \in Nat
  <2>1. CASE t < s.next
    BY <2>1 DEF SlicesDue
  <2>2. CASE ~(t < s.next)
    <3>1. t - s.next \in Nat
      BY <1>1, <2>2
    <3>2. (t - s.next) \div s.every \in Nat
      BY <1>1, <3>1
    <3> QED BY <2>2, <3>2 DEF SlicesDue
  <2> QED BY <2>1, <2>2
<1>4. Slice(s) \in Nat
  <2>1. 2 * s.total + s.slices \in Nat /\ 2 * s.slices \in Nat /\ 2 * s.slices > 0
    BY <1>1
  <2> QED BY <2>1 DEF Slice
<1>5. SlicesDue(s, t) * Slice(s) \in Nat
  BY <1>3, <1>4
<1>6. Due(s, t) \in Nat /\ Due(s, t) <= Rest(s)
  BY <1>2, <1>5 DEF Due
<1>7. SlicesDue(s, t) * s.every \in Nat
  BY <1>1, <1>3
<1> DEFINE released == s.released + Due(s, t)
           next == s.next + SlicesDue(s, t) * s.every
<1>8. released \in Nat /\ next \in Nat /\ released <= s.total
  BY <1>1, <1>6, <1>7 DEF Rest
<1>9. Released(s, t) = [s EXCEPT !.released = released, !.next = next]
  BY DEF Released
<1> HIDE DEF released, next
<1>10. /\ Released(s, t) \in Schedule /\ Released(s, t).released = released
       /\ Released(s, t).total = s.total /\ Released(s, t).reason = s.reason
  BY <1>1, <1>8, <1>9 DEF Schedule
<1>11. Rest(Released(s, t)) = Rest(s) - Due(s, t)
  BY <1>1, <1>6, <1>10 DEF Rest, released
<1> QED BY <1>1, <1>2, <1>6, <1>8, <1>10, <1>11 DEF Held

(* The members of a list and its slots.                                    *)
LEMMA ListFacts ==
  ASSUME NEW T, NEW s, IsList(s, T)
  PROVE  IsFiniteSet(DOMAIN s) /\ \A k \in DOMAIN s : s[k] \in T
<1>1. Len(s) \in Nat /\ DOMAIN s = 1..Len(s) /\ \A k \in DOMAIN s : s[k] \in T
  BY DEF IsList
<1>2. IsFiniteSet(1..Len(s))
  BY <1>1, FS_Interval
<1> QED BY <1>1, <1>2

(* The slots of a list.                                                    *)
LEMMA ListSlots ==
  ASSUME NEW T, NEW s, IsList(s, T)
  PROVE  Len(s) \in Nat /\ DOMAIN s = 1..Len(s)
  BY DEF IsList

(* A function on the first numbers is a list.                              *)
LEMMA ListOfLength ==
  ASSUME NEW T, NEW n \in Nat, NEW f \in [1..n -> T]
  PROVE  IsList(f, T) /\ Len(f) = n
<1>1. f \in Seq(T)
  OBVIOUS
<1>2. Len(f) \in Nat /\ DOMAIN f = 1..Len(f) /\ DOMAIN f = 1..n
  BY <1>1
<1>3. ~(Len(f) < n)
  <2> SUFFICES ASSUME Len(f) < n PROVE FALSE
    OBVIOUS
  <2>1. n \in 1..n /\ n \notin 1..Len(f)
    BY <1>2
  <2> QED BY <1>2, <2>1
<1>4. ~(n < Len(f))
  <2> SUFFICES ASSUME n < Len(f) PROVE FALSE
    OBVIOUS
  <2>1. Len(f) \in 1..Len(f) /\ Len(f) \notin 1..n
    BY <1>2
  <2> QED BY <1>2, <2>1
<1> QED BY <1>1, <1>2, <1>3, <1>4 DEF IsList

(* Two lists behind each other.                                            *)
LEMMA ListConcat ==
  ASSUME NEW T, NEW s, IsList(s, T), NEW u, IsList(u, T)
  PROVE  /\ IsList(s \o u, T) /\ DOMAIN (s \o u) = 1..Len(s) + Len(u)
         /\ \A k \in 1..Len(s) : (s \o u)[k] = s[k]
         /\ \A i \in 1..Len(u) : (s \o u)[Len(s) + i] = u[i]
<1> DEFINE n == Len(s)
           m == Len(u)
           v == s \o u
<1>1. s \in Seq(T) /\ u \in Seq(T)
  BY DEF IsList
<1>2. /\ n \in Nat /\ m \in Nat
      /\ v \in Seq(T) /\ Len(v) = n + m
      /\ \A k \in 1..n + m : v[k] = IF k <= n THEN s[k] ELSE u[k - n]
  BY <1>1, ConcatProperties
<1>3. DOMAIN v = 1..n + m
  BY <1>2
<1> HIDE DEF n, m, v
<1>4. ASSUME NEW k \in 1..n PROVE v[k] = s[k]
  <2>1. k \in 1..n + m /\ k <= n
    BY <1>2
  <2> QED BY <1>2, <2>1
<1>5. ASSUME NEW i \in 1..m PROVE v[n + i] = u[i]
  <2>1. n + i \in 1..n + m /\ ~(n + i <= n) /\ n + i - n = i
    BY <1>2
  <2> QED BY <1>2, <2>1
<1> QED BY <1>2, <1>3, <1>4, <1>5 DEF n, m, v, IsList

(* What a list of schedules holds, and what of it is due.                  *)
Amount(reason) == [s \in Held |-> IF s.reason = reason THEN Rest(s) ELSE 0]
Share(reason, t) == [s \in Held |-> IF s.reason = reason THEN Due(s, t) ELSE 0]

(* The amounts of the schedules held back for one reason.                  *)
LEMMA Amounts ==
  ASSUME NEW reason
  PROVE  /\ Amount(reason) \in [Held -> Nat] /\ Amount(reason) \in [Held -> Int]
         /\ \A s \in Held : /\ Amount(reason)[s] \in Nat
                            /\ Amount(reason)[s] = IF s.reason = reason THEN Rest(s) ELSE 0
<1>1. 0 \in Nat /\ \A s \in Held : Rest(s) \in Nat
  BY DEF Rest, Held, Schedule
<1> QED BY <1>1 DEF Amount

(* What is due of a schedule, and what is left of it after its release.    *)
LEMMA Shares ==
  ASSUME NEW reason, NEW t \in Nat
  PROVE  /\ Share(reason, t) \in [Held -> Nat]
         /\ \A s \in Held : /\ Share(reason, t)[s] \in Nat
                            /\ Share(reason, t)[s] = IF s.reason = reason THEN Due(s, t) ELSE 0
                            /\ Amount(reason)[Released(s, t)] = Amount(reason)[s] - Share(reason, t)[s]
<1>1. \A s \in Held : /\ Due(s, t) \in Nat /\ Rest(s) \in Nat /\ Released(s, t) \in Held
                      /\ Released(s, t).reason = s.reason
                      /\ Rest(Released(s, t)) = Rest(s) - Due(s, t)
  BY ReleasedIsHeld
<1> QED BY <1>1 DEF Amount, Share

(* What is held back is a total of natural numbers.                        *)
LEMMA HeldAsTotal ==
  ASSUME NEW book, IsList(book, Held), NEW reason
  PROVE  /\ HeldIn(book, reason) = Total([k \in DOMAIN book |-> Amount(reason)[book[k]]])
         /\ HeldIn(book, reason) \in Nat
<1> DEFINE Slots == DOMAIN book
           held == [k \in Slots |-> Amount(reason)[book[k]]]
<1>1. IsFiniteSet(Slots) /\ \A k \in Slots : book[k] \in Held
  BY ListFacts
<1>2. held \in [Slots -> Nat]
  BY <1>1, Amounts
<1>3. held = [k \in Slots |-> IF book[k].reason = reason THEN Rest(book[k]) ELSE 0]
  BY <1>1, Amounts
<1>4. Total(held) \in Nat
  <2> HIDE DEF held, Slots
  <2> QED BY <1>1, <1>2, TotalOfNaturals
<1> QED BY <1>3, <1>4 DEF HeldIn

(* It is a natural number.                                                 *)
LEMMA HeldType ==
  ASSUME NEW book, IsList(book, Held), NEW reason
  PROVE  HeldIn(book, reason) \in Nat
  BY HeldAsTotal

(* So is what is due of it.                                                *)
LEMMA DueAsTotal ==
  ASSUME NEW book, IsList(book, Held), NEW reason, NEW t \in Nat
  PROVE  /\ DueIn(book, reason, t) = Total([k \in DOMAIN book |-> Share(reason, t)[book[k]]])
         /\ DueIn(book, reason, t) \in Nat
<1> DEFINE Slots == DOMAIN book
           due == [k \in Slots |-> Share(reason, t)[book[k]]]
<1>1. IsFiniteSet(Slots) /\ \A k \in Slots : book[k] \in Held
  BY ListFacts
<1>2. due \in [Slots -> Nat]
  BY <1>1, Shares
<1>3. due = [k \in Slots |-> IF book[k].reason = reason THEN Due(book[k], t) ELSE 0]
  BY <1>1, Shares
<1>4. Total(due) \in Nat
  <2> HIDE DEF due, Slots
  <2> QED BY <1>1, <1>2, TotalOfNaturals
<1> QED BY <1>3, <1>4 DEF DueIn

(* A list of which every member was replaced.                              *)
LEMMA AllReleasedFacts ==
  ASSUME NEW book, IsList(book, Held), NEW t \in Nat
  PROVE  /\ IsList(AllReleased(book, t), Held) /\ DOMAIN AllReleased(book, t) = DOMAIN book
         /\ \A k \in DOMAIN book : AllReleased(book, t)[k] = Released(book[k], t)
<1>1. \A k \in DOMAIN book : Released(book[k], t) \in Held
  BY ListFacts, ReleasedIsHeld
<1>2. DOMAIN book = 1..Len(book) /\ Len(book) \in Nat
  BY DEF IsList
<1>3. AllReleased(book, t) \in [1..Len(book) -> Held]
  BY <1>1, <1>2 DEF AllReleased
<1>4. \A n \in Nat : \A f \in [1..n -> Held] : f \in Seq(Held)
  OBVIOUS
<1> QED BY <1>2, <1>3, <1>4 DEF AllReleased, IsList

(* A release takes what is due off what is held.                           *)
LEMMA HeldAfterRelease ==
  ASSUME NEW book, IsList(book, Held), NEW reason, NEW t \in Nat
  PROVE  HeldIn(AllReleased(book, t), reason) = HeldIn(book, reason) - DueIn(book, reason, t)
<1> DEFINE after == AllReleased(book, t)
           Slots == DOMAIN book
           held == [k \in Slots |-> Amount(reason)[book[k]]]
           due == [k \in Slots |-> Share(reason, t)[book[k]]]
           left == [k \in Slots |-> Amount(reason)[after[k]]]
<1>1. IsFiniteSet(Slots) /\ \A k \in Slots : book[k] \in Held
  BY ListFacts
<1>2. IsList(after, Held) /\ DOMAIN after = Slots /\ \A k \in Slots : after[k] = Released(book[k], t)
  BY AllReleasedFacts
<1>3. \A k \in Slots : after[k] \in Held
  BY <1>2, ListFacts
<1>4. \A k \in Slots : /\ held[k] \in Nat /\ due[k] \in Nat /\ left[k] \in Nat
                       /\ held[k] = left[k] + due[k]
  <2> HIDE DEF after, Slots
  <2> SUFFICES ASSUME NEW k \in Slots
               PROVE  /\ held[k] \in Nat /\ due[k] \in Nat /\ left[k] \in Nat
                      /\ held[k] = left[k] + due[k]
    OBVIOUS
  <2>1. Amount(reason)[Released(book[k], t)] = Amount(reason)[book[k]] - Share(reason, t)[book[k]]
    BY <1>1, Shares
  <2>2. Amount(reason)[book[k]] \in Nat /\ Share(reason, t)[book[k]] \in Nat /\ Amount(reason)[after[k]] \in Nat
    BY <1>1, <1>3, Shares, Amounts
  <2> QED BY <1>2, <2>1, <2>2
<1>5. held \in [Slots -> Int] /\ due \in [Slots -> Int] /\ left \in [Slots -> Int]
  <2> HIDE DEF after, Slots
  <2>1. \A k \in Slots : held[k] \in Int /\ due[k] \in Int /\ left[k] \in Int
    BY <1>4
  <2> QED BY <2>1
<1>6. Total(held) = Total(left) + Total(due) /\ Total(left) \in Int /\ Total(due) \in Int
  <2> HIDE DEF held, due, left, Slots
  <2> QED BY <1>1, <1>4, <1>5, TotalOfSums, TotalType
<1>7. HeldIn(book, reason) = Total(held) /\ DueIn(book, reason, t) = Total(due)
  BY HeldAsTotal, DueAsTotal
<1>8. HeldIn(after, reason) = Total(left)
  <2>1. HeldIn(after, reason) = Total([k \in DOMAIN after |-> Amount(reason)[after[k]]])
    <3> HIDE DEF after
    <3> QED BY <1>2, HeldAsTotal
  <2> QED BY <1>2, <2>1
<1> HIDE DEF held, due, left
<1> QED BY <1>6, <1>7, <1>8

(* What is held in a part of the list.                                     *)
LEMMA HeldOfSelected ==
  ASSUME NEW book, IsList(book, Held), NEW keep, NEW reason
  PROVE  /\ IsList(Selected(book, keep), Held)
         /\ ToSet(Selected(book, keep)) = ToSet(book) \cap keep
         /\ HeldIn(Selected(book, keep), reason)
              = Total([k \in DOMAIN book |-> IF book[k] \in keep THEN Amount(reason)[book[k]] ELSE 0])
<1>1. IsList(Selected(book, keep), Held) /\ ToSet(Selected(book, keep)) = ToSet(book) \cap keep
  BY SelectedSet DEF IsList
<1>2. Amount(reason) \in [Held -> Int]
  BY Amounts
<1>3. HeldIn(Selected(book, keep), reason)
        = Total([k \in DOMAIN Selected(book, keep) |-> Amount(reason)[Selected(book, keep)[k]]])
  BY <1>1, HeldAsTotal
<1> QED BY <1>1, <1>2, <1>3, TotalOfSelected

(* Two parts hold what the whole holds.                                    *)
LEMMA HeldInParts ==
  ASSUME NEW book, IsList(book, Held), NEW some, NEW others, NEW reason,
         \A s \in ToSet(book) : s \in some <=> s \notin others
  PROVE  HeldIn(book, reason) = HeldIn(Selected(book, some), reason) + HeldIn(Selected(book, others), reason)
<1> DEFINE Slots == DOMAIN book
           held == [k \in Slots |-> Amount(reason)[book[k]]]
           one == [k \in Slots |-> IF book[k] \in some THEN Amount(reason)[book[k]] ELSE 0]
           two == [k \in Slots |-> IF book[k] \in others THEN Amount(reason)[book[k]] ELSE 0]
<1>1. IsFiniteSet(Slots) /\ \A k \in Slots : book[k] \in Held /\ book[k] \in ToSet(book)
  BY ListFacts DEF ToSet
<1>3. \A k \in Slots : Amount(reason)[book[k]] \in Int
  BY <1>1, Amounts
<1>4. held \in [Slots -> Int] /\ one \in [Slots -> Int] /\ two \in [Slots -> Int]
  BY <1>3
<1>5. \A k \in Slots : held[k] = one[k] + two[k]
  <2> HIDE DEF Slots
  <2> QED BY <1>1, <1>3
<1>6. Total(held) = Total(one) + Total(two)
  <2> HIDE DEF held, one, two, Slots
  <2> QED BY <1>1, <1>4, <1>5, TotalOfSums
<1>7. HeldIn(book, reason) = Total(held)
  BY HeldAsTotal
<1>8. HeldIn(Selected(book, some), reason) = Total(one) /\ HeldIn(Selected(book, others), reason) = Total(two)
  BY HeldOfSelected
<1> HIDE DEF held, one, two
<1> QED BY <1>6, <1>7, <1>8

(* Nothing is held in a list of schedules that serve another reason, or    *)
(* have released it all.                                                   *)
LEMMA NothingHeld ==
  ASSUME NEW book, IsList(book, Held), NEW reason,
         \A s \in ToSet(book) : s.reason # reason \/ ~Unreleased(s)
  PROVE  HeldIn(book, reason) = 0
<1> DEFINE Slots == DOMAIN book
           held == [k \in Slots |-> Amount(reason)[book[k]]]
<1>1. IsFiniteSet(Slots) /\ \A k \in Slots : book[k] \in Held /\ book[k] \in ToSet(book)
  BY ListFacts DEF ToSet
<1>2. \A k \in Slots : Amount(reason)[book[k]] = 0
  <2> SUFFICES ASSUME NEW k \in Slots PROVE Amount(reason)[book[k]] = 0
    OBVIOUS
  <2>1. book[k] \in Held /\ (book[k].reason # reason \/ ~Unreleased(book[k]))
    BY <1>1
  <2>2. Amount(reason)[book[k]] = IF book[k].reason = reason THEN Rest(book[k]) ELSE 0
    BY <2>1, Amounts
  <2>3. book[k].released \in Nat /\ book[k].total \in Nat /\ book[k].released <= book[k].total
    BY <2>1 DEF Held, Schedule
  <2> QED BY <2>1, <2>2, <2>3 DEF Unreleased, Rest
<1>3. held \in [Slots -> Int] /\ \A k \in Slots : held[k] = IF k \in {} THEN 0 ELSE 0
  BY <1>2
<1>4. Total(held) = Cardinality({}) * 0
  <2> HIDE DEF held, Slots
  <2>1. {} \in SUBSET Slots /\ 0 \in Nat
    OBVIOUS
  <2> QED BY <1>1, <1>3, <2>1, TotalOfShares
<1>5. HeldIn(book, reason) = Total(held)
  BY HeldAsTotal
<1> QED BY <1>4, <1>5, FS_EmptySet

(* One more schedule.                                                      *)
LEMMA HeldOfAppended ==
  ASSUME NEW book, IsList(book, Held), NEW s \in Held, NEW reason
  PROVE  /\ IsList(Append(book, s), Held)
         /\ ToSet(Append(book, s)) = ToSet(book) \cup {s}
         /\ HeldIn(Append(book, s), reason)
              = HeldIn(book, reason) + IF s.reason = reason THEN Rest(s) ELSE 0
<1> DEFINE more == Append(book, s)
           new == Len(book) + 1
           Slots == DOMAIN book
           More == DOMAIN more
           f == [k \in More |-> Amount(reason)[more[k]]]
           rest == [k \in Slots |-> Amount(reason)[book[k]]]
<1>1. /\ Len(book) \in Nat /\ Slots = 1..Len(book) /\ More = 1..Len(book) + 1
      /\ IsList(more, Held) /\ \A k \in Slots : more[k] = book[k]
      /\ more[new] = s
  BY DEF IsList
<1>2. ToSet(more) = ToSet(book) \cup {s}
  BY SetOfAppended DEF IsList
<1>3. More \ {new} = Slots /\ new \in More
  BY <1>1
<1>4. IsFiniteSet(More) /\ \A k \in More : more[k] \in Held
  BY <1>1, ListFacts
<1>5. \A k \in More : Amount(reason)[more[k]] \in Int
  BY <1>4, Amounts
<1>6. f \in [More -> Int]
  BY <1>5
<1>7. Total(f) = f[new] + Total([k \in More \ {new} |-> f[k]])
  <2>1. IsFiniteSet(More) /\ new \in More
    BY <1>3, <1>4
  <2> HIDE DEF f, More, new, more, Slots
  <2> QED BY <1>6, <2>1, TotalWithTerm
<1>8. [k \in More \ {new} |-> f[k]] = rest
  BY <1>1, <1>3
<1>9. f[new] = IF s.reason = reason THEN Rest(s) ELSE 0
  <2>2. Amount(reason)[s] = IF s.reason = reason THEN Rest(s) ELSE 0
    BY Amounts
  <2>3. f[new] = Amount(reason)[more[new]]
    BY <1>3
  <2> QED BY <1>1, <2>2, <2>3
<1>10. HeldIn(more, reason) = Total(f) /\ HeldIn(book, reason) = Total(rest) /\ HeldIn(book, reason) \in Int
  <2> HIDE DEF more
  <2> QED BY <1>1, HeldAsTotal
<1>11. Rest(s) \in Int
  BY DEF Rest, Held, Schedule
<1> HIDE DEF f, rest, more, new
<1>12. HeldIn(more, reason) = f[new] + HeldIn(book, reason)
  BY <1>7, <1>8, <1>10
<1> QED BY <1>1, <1>2, <1>9, <1>10, <1>11, <1>12 DEF more

-----------------------------------------------------------------------------
(***************************************************************************)
(* Invoices.                                                               *)
(***************************************************************************)
(* The amounts of a contract.                                              *)
LEMMA ContractFacts ==
  ASSUME BillingAssumption, NEW c \in Contract
  PROVE  /\ Start[c] \in Nat /\ End[c] \in Nat /\ Start[c] < End[c] /\ Credit[c] \in Nat /\ Promise[c] \in Nat
         /\ Period[c] \in Nat /\ Period[c] > 0 /\ Gross[c] \in Nat /\ Prepaid[c] \in BOOLEAN
         /\ Net(c) \in Nat /\ ReserveOf(Net(c)) \in Nat /\ Parked(c) \in Nat
         /\ Month \in Nat \ {0} /\ Slices \in Nat \ {0} /\ ReserveHold \in Nat \ {0} /\ MaxCatchUp \in Nat
<1>1. /\ Start \in [Contract -> Nat] /\ End \in [Contract -> Nat] /\ Credit \in [Contract -> Nat]
      /\ Promise \in [Contract -> Nat] /\ Period \in [Contract -> Nat \ {0}]
      /\ Gross \in [Contract -> Nat \ {0}] /\ Prepaid \in [Contract -> BOOLEAN]
  BY DEF BillingAssumption
<1>2. Start[c] < End[c] /\ Fee[c] \in 0..Gross[c] /\ ReserveOf(Gross[c] - Fee[c]) \in 0..Gross[c]
  BY DEF BillingAssumption
<1>3. Month \in Nat \ {0} /\ Slices \in Nat \ {0} /\ ReserveHold \in Nat \ {0} /\ MaxCatchUp \in Nat
  BY DEF BillingAssumption
<1>4. Gross[c] \in Nat /\ Period[c] \in Nat /\ Period[c] > 0 /\ Prepaid[c] \in BOOLEAN
  BY <1>1
<1>5. Gross[c] - Fee[c] \in Nat /\ ReserveOf(Gross[c] - Fee[c]) \in Nat
  BY <1>2, <1>4
<1> QED BY <1>1, <1>2, <1>3, <1>4, <1>5 DEF Net, Parked

(* What an invoice is owed.                                                *)
Owing(bill, c) == IF IsOwed(bill) THEN Gross[c] ELSE 0

(* What a book of invoices is owed is a total of natural numbers.          *)
LEMMA OwedType ==
  ASSUME BillingAssumption, NEW c \in Contract, NEW book, IsList(book, Bill)
  PROVE  /\ OwedIn(book, c) = Total([i \in DOMAIN book |-> Owing(book[i], c)])
         /\ OwedIn(book, c) \in Nat
<1> DEFINE Slots == DOMAIN book
           owed == [i \in Slots |-> Owing(book[i], c)]
<1>1. IsFiniteSet(Slots) /\ Gross[c] \in Nat
  BY ListFacts, ContractFacts
<1>2. owed \in [Slots -> Nat]
  BY <1>1 DEF Owing
<1>3. Total(owed) \in Nat
  <2> HIDE DEF owed, Slots
  <2> QED BY <1>1, <1>2, TotalOfNaturals
<1> QED BY <1>3 DEF OwedIn, Owing

(* One invoice changes.                                                    *)
LEMMA OwedUpdated ==
  ASSUME BillingAssumption, NEW c \in Contract, NEW book, IsList(book, Bill), NEW after, IsList(after, Bill),
         DOMAIN after = DOMAIN book, NEW i \in DOMAIN book, \A k \in DOMAIN book : k # i => after[k] = book[k]
  PROVE  OwedIn(after, c) = OwedIn(book, c) - Owing(book[i], c) + Owing(after[i], c)
<1> DEFINE Slots == DOMAIN book
           f == [k \in Slots |-> Owing(book[k], c)]
           e == [k \in Slots |-> Owing(after[k], c)]
<1>1. IsFiniteSet(Slots) /\ Gross[c] \in Nat
  BY ListFacts, ContractFacts
<1>2. f \in [Slots -> Int] /\ e \in [Slots -> Int]
  BY <1>1 DEF Owing
<1>3. \A k \in Slots \ {i} : e[k] = f[k]
  OBVIOUS
<1>4. Total(e) = Total(f) - f[i] + e[i]
  <2> HIDE DEF f, e, Slots
  <2>1. i \in Slots
    BY DEF Slots
  <2> QED BY <1>1, <1>2, <1>3, <2>1, TotalUpdated
<1>5. OwedIn(after, c) = Total(e) /\ OwedIn(book, c) = Total(f)
  BY OwedType
<1>6. f[i] = Owing(book[i], c) /\ e[i] = Owing(after[i], c)
  OBVIOUS
<1> HIDE DEF f, e
<1> QED BY <1>4, <1>5, <1>6

(* New invoices are owed.                                                  *)
Grows(after, book, New) ==
  /\ New \in SUBSET DOMAIN after /\ DOMAIN book = DOMAIN after \ New
  /\ \A k \in DOMAIN book : after[k] = book[k]
  /\ \A k \in New : after[k].state = "issued"

(* Each new invoice adds its gross to what is owed.                        *)
LEMMA OwedGrown ==
  ASSUME BillingAssumption, NEW c \in Contract, NEW book, IsList(book, Bill), NEW after, IsList(after, Bill),
         NEW New, Grows(after, book, New)
  PROVE  OwedIn(after, c) = OwedIn(book, c) + Cardinality(New) * Gross[c]
<1> DEFINE Grown == DOMAIN after
           Slots == DOMAIN book
           share == Gross[c]
           f == [k \in Grown |-> Owing(after[k], c)]
           e == [k \in Slots |-> Owing(book[k], c)]
<1>1. IsFiniteSet(Grown) /\ share \in Nat
  BY ListFacts, ContractFacts
<1>2. f \in [Grown -> Int] /\ e \in [Slots -> Int]
  BY <1>1 DEF Owing
<1>3. \A k \in New : f[k] = share
  BY DEF Owing, IsOwed, Grows
<1>4. \A k \in Slots : e[k] = f[k]
  BY DEF Grows
<1>5. Total(f) = Total(e) + Cardinality(New) * share
  <2>1. Splits(Grown, New, Slots)
    BY DEF Grows, Splits
  <2> HIDE DEF f, e, Grown, share, Slots
  <2> QED BY <1>1, <1>2, <1>3, <1>4, <2>1, TotalWithShares
<1>6. OwedIn(after, c) = Total(f)
  BY OwedType
<1>7. OwedIn(book, c) = Total(e)
  BY OwedType
<1> QED BY <1>5, <1>6, <1>7

(* What is let go is owed no more.                                         *)
LEMMA OwedKept ==
  ASSUME BillingAssumption, NEW c \in Contract, NEW book, IsList(book, Bill), NEW live
  PROVE  IsList(Kept(book, live), Bill) /\ OwedIn(Kept(book, live), c) = OwedIn(book, c)
<1> DEFINE keep == {bill \in ToSet(book) : IsOwed(bill) \/ \E k \in DOMAIN live : live[k].cycle = bill.cycle}
           Slots == DOMAIN book
           owing == [bill \in Bill |-> Owing(bill, c)]
           f == [k \in Slots |-> Owing(book[k], c)]
           e == [k \in Slots |-> IF book[k] \in keep THEN owing[book[k]] ELSE 0]
<1>1. Kept(book, live) = Selected(book, keep)
  BY DEF Kept
<1>2. IsList(Kept(book, live), Bill)
  BY <1>1, SelectedSet DEF IsList
<1>3. Gross[c] \in Nat /\ \A k \in Slots : book[k] \in Bill /\ book[k] \in ToSet(book)
  BY ContractFacts, ListFacts DEF ToSet
<1>4. owing \in [Bill -> Int]
  BY <1>3 DEF Owing
<1>5. f = e
  BY <1>3 DEF Owing
<1>6. OwedIn(Kept(book, live), c)
        = Total([i \in DOMAIN Kept(book, live) |-> owing[Kept(book, live)[i]]])
  <2>1. \A i \in DOMAIN Kept(book, live) : Kept(book, live)[i] \in Bill
    BY <1>2, ListFacts
  <2>2. [i \in DOMAIN Kept(book, live) |-> owing[Kept(book, live)[i]]]
          = [i \in DOMAIN Kept(book, live) |-> Owing(Kept(book, live)[i], c)]
    BY <2>1
  <2>3. OwedIn(Kept(book, live), c)
          = Total([i \in DOMAIN Kept(book, live) |-> Owing(Kept(book, live)[i], c)])
    BY <1>2, OwedType
  <2> QED BY <2>2, <2>3
<1>7. Total([i \in DOMAIN Selected(book, keep) |-> owing[Selected(book, keep)[i]]]) = Total(e)
  <2> HIDE DEF keep, owing
  <2> QED BY <1>4, TotalOfSelected
<1>8. OwedIn(book, c) = Total(f)
  BY OwedType
<1> HIDE DEF f, e, keep, owing
<1> QED BY <1>1, <1>2, <1>5, <1>6, <1>7, <1>8

(* An invoice that is marked keeps what it bills.                          *)
SameBills(after, book) ==
  /\ DOMAIN after = DOMAIN book
  /\ \A k \in DOMAIN book :
       after[k].cycle = book[k].cycle /\ after[k].from = book[k].from /\ after[k].due = book[k].due

(* Rewriting one invoice keeps the list and every other invoice.           *)
LEMMA BillMarked ==
  ASSUME NEW book, IsList(book, Bill), NEW i \in DOMAIN book, NEW bill \in Bill,
         bill.cycle = book[i].cycle, bill.from = book[i].from, bill.due = book[i].due,
         NEW after, after = [book EXCEPT ![i] = bill]
  PROVE  /\ IsList(after, Bill) /\ SameBills(after, book)
         /\ after[i] = bill /\ \A k \in DOMAIN book : k # i => after[k] = book[k]
  BY DEF IsList, SameBills

(* A new state of one invoice is such a mark.                              *)
LEMMA BillSettled ==
  ASSUME NEW book, IsList(book, Bill), NEW i \in DOMAIN book,
         NEW state \in {"issued", "failed", "paid", "written-off"}
  PROVE  LET after == Marked(book, i, state)
         IN  /\ IsList(after, Bill) /\ SameBills(after, book)
             /\ after[i].state = state /\ after[i].stage = book[i].stage
             /\ \A k \in DOMAIN book : k # i => after[k] = book[k]
<1> DEFINE bill == [book[i] EXCEPT !.state = state]
<1>1. book[i] \in Bill
  BY ListFacts
<1>2. /\ bill \in Bill /\ bill.cycle = book[i].cycle /\ bill.from = book[i].from /\ bill.due = book[i].due
      /\ bill.state = state /\ bill.stage = book[i].stage
  BY <1>1 DEF Bill
<1>3. Marked(book, i, state) = [book EXCEPT ![i] = bill]
  BY DEF Marked
<1> HIDE DEF bill
<1>4. /\ IsList(Marked(book, i, state), Bill) /\ SameBills(Marked(book, i, state), book)
      /\ Marked(book, i, state)[i] = bill /\ \A k \in DOMAIN book : k # i => Marked(book, i, state)[k] = book[k]
  BY <1>2, <1>3, BillMarked
<1> QED BY <1>2, <1>4

(* So is a new stage.                                                      *)
LEMMA BillStaged ==
  ASSUME NEW book, IsList(book, Bill), NEW i \in DOMAIN book, NEW stage \in Stage
  PROVE  LET after == Staged(book, i, stage)
         IN  /\ IsList(after, Bill) /\ SameBills(after, book)
             /\ after[i].stage = stage /\ after[i].state = book[i].state
             /\ \A k \in DOMAIN book : k # i => after[k] = book[k]
<1> DEFINE bill == [book[i] EXCEPT !.stage = stage]
<1>1. book[i] \in Bill
  BY ListFacts
<1>2. /\ bill \in Bill /\ bill.cycle = book[i].cycle /\ bill.from = book[i].from /\ bill.due = book[i].due
      /\ bill.stage = stage /\ bill.state = book[i].state
  BY <1>1 DEF Bill
<1>3. Staged(book, i, stage) = [book EXCEPT ![i] = bill]
  BY DEF Staged
<1> HIDE DEF bill
<1>4. /\ IsList(Staged(book, i, stage), Bill) /\ SameBills(Staged(book, i, stage), book)
      /\ Staged(book, i, stage)[i] = bill /\ \A k \in DOMAIN book : k # i => Staged(book, i, stage)[k] = book[k]
  BY <1>2, <1>3, BillMarked
<1> QED BY <1>2, <1>4

-----------------------------------------------------------------------------
(***************************************************************************)
(* What a tick works on, and what every step of it leaves alone: the gaps  *)
(* between what is posted and what the book says.                          *)
(***************************************************************************)
Works ==
  [deal : Deal, invoices : Seq(Bill), schedules : Seq(Held), free : Int, restricted : Int,
   deferred : Int, receivable : Int, backlog : Int, collected : Nat, refunded : Nat]

(* The fields of a work.                                                   *)
LEMMA WorkFields ==
  ASSUME NEW w \in Works
  PROVE  /\ w.deal \in Deal /\ IsList(w.invoices, Bill) /\ IsList(w.schedules, Held)
         /\ w.free \in Int /\ w.restricted \in Int /\ w.deferred \in Int /\ w.receivable \in Int
         /\ w.backlog \in Int /\ w.collected \in Nat /\ w.refunded \in Nat
  BY DEF Works, IsList

(* No step opens a gap between a bucket and what the book says of it.      *)
SameGaps(v, w, c) ==
  /\ v.receivable - OwedIn(v.invoices, c) = w.receivable - OwedIn(w.invoices, c)
  /\ v.backlog - Pledged(v.deal) = w.backlog - Pledged(w.deal)
  /\ v.deferred - HeldIn(v.schedules, "recognition") = w.deferred - HeldIn(w.schedules, "recognition")
  /\ v.restricted - HeldIn(v.schedules, "reserve") = w.restricted - HeldIn(w.schedules, "reserve")
  /\ v.free + v.restricted + v.deferred - v.collected + v.refunded
       = w.free + w.restricted + w.deferred - w.collected + w.refunded

(* The schedules that are left of others.                                  *)
LeftOf(after, book) ==
  \A k \in DOMAIN after :
    /\ Unreleased(after[k])
    /\ \E i \in DOMAIN book : book[i].reason = after[k].reason /\ Unreleased(book[i])

(* A release earns or frees what it takes off the schedules, and keeps     *)
(* those that have something left.                                         *)
LEMMA ReleaseDueFacts ==
  ASSUME NEW c, NEW w \in Works, NEW t \in Nat, NEW v, v = ReleaseDue(w, t)
  PROVE  /\ v \in Works /\ SameGaps(v, w, c) /\ v.deal = w.deal /\ v.invoices = w.invoices
         /\ LeftOf(v.schedules, w.schedules)
<1> DEFINE book == w.schedules
           earned == DueIn(book, "recognition", t)
           freed == DueIn(book, "reserve", t)
           after == AllReleased(book, t)
           left == {s \in ToSet(after) : Unreleased(s)}
           gone == {s \in ToSet(after) : ~Unreleased(s)}
           kept == Selected(after, left)
           lost == Selected(after, gone)
           deferred == w.deferred - earned
           restricted == w.restricted - freed
           free == w.free + earned + freed
<1>1. IsList(book, Held) /\ w.free \in Int /\ w.restricted \in Int /\ w.deferred \in Int
  BY WorkFields
<1>2. /\ IsList(after, Held) /\ DOMAIN after = DOMAIN book
      /\ \A k \in DOMAIN book : after[k] = Released(book[k], t)
  BY <1>1, AllReleasedFacts
<1>3. earned \in Nat /\ freed \in Nat
  BY <1>1, DueAsTotal
<1>4. IsList(kept, Held) /\ ToSet(kept) = ToSet(after) \cap left
  BY <1>2, SelectedSet DEF IsList
<1>5. deferred \in Int /\ restricted \in Int /\ free \in Int
  BY <1>1, <1>3
<1>6. v = [w EXCEPT !.deferred = deferred, !.restricted = restricted, !.free = free, !.schedules = kept]
  BY DEF ReleaseDue
<1> HIDE DEF kept, deferred, restricted, free
<1>7. /\ v \in Works /\ v.deal = w.deal /\ v.invoices = w.invoices /\ v.schedules = kept
      /\ v.free = free /\ v.restricted = restricted /\ v.deferred = deferred
      /\ v.receivable = w.receivable /\ v.backlog = w.backlog
      /\ v.collected = w.collected /\ v.refunded = w.refunded
  <2>1. kept \in Seq(Held)
    BY <1>4 DEF IsList
  <2> QED BY <1>5, <1>6, <2>1 DEF Works
<1>8. \A reason : HeldIn(kept, reason) = HeldIn(book, reason) - DueIn(book, reason, t)
  <2> SUFFICES ASSUME NEW reason
               PROVE  HeldIn(kept, reason) = HeldIn(book, reason) - DueIn(book, reason, t)
    OBVIOUS
  <2>1. HeldIn(after, reason) = HeldIn(kept, reason) + HeldIn(lost, reason)
    <3>1. \A s \in ToSet(after) : s \in left <=> s \notin gone
      OBVIOUS
    <3> HIDE DEF after, left, gone
    <3> QED BY <1>2, <3>1, HeldInParts DEF kept
  <2>2. HeldIn(lost, reason) = 0
    <3>1. IsList(lost, Held) /\ ToSet(lost) = ToSet(after) \cap gone
      BY <1>2, SelectedSet DEF IsList
    <3>2. \A s \in ToSet(lost) : s.reason # reason \/ ~Unreleased(s)
      BY <3>1
    <3> HIDE DEF lost
    <3> QED BY <3>1, <3>2, NothingHeld
  <2>3. HeldIn(after, reason) = HeldIn(book, reason) - DueIn(book, reason, t)
    BY <1>1, HeldAfterRelease
  <2>4. HeldIn(kept, reason) \in Nat
    BY <1>4, HeldType
  <2> HIDE DEF after, lost, book
  <2> QED BY <2>1, <2>2, <2>3, <2>4
<1>9. SameGaps(v, w, c)
  <2>1. HeldIn(book, "recognition") \in Nat /\ HeldIn(book, "reserve") \in Nat
    BY <1>1, HeldType
  <2>2. /\ HeldIn(kept, "recognition") = HeldIn(book, "recognition") - earned
        /\ HeldIn(kept, "reserve") = HeldIn(book, "reserve") - freed
    BY <1>8
  <2>3. w.collected \in Int /\ w.refunded \in Int
    BY WorkFields
  <2>4. v.deferred - HeldIn(kept, "recognition") = w.deferred - HeldIn(book, "recognition")
    <3> HIDE DEF earned, book
    <3> QED BY <1>1, <1>3, <1>7, <2>1, <2>2 DEF deferred
  <2>5. v.restricted - HeldIn(kept, "reserve") = w.restricted - HeldIn(book, "reserve")
    <3> HIDE DEF freed, book
    <3> QED BY <1>1, <1>3, <1>7, <2>1, <2>2 DEF restricted
  <2>6. v.free + v.restricted + v.deferred - v.collected + v.refunded
          = w.free + w.restricted + w.deferred - w.collected + w.refunded
    <3> HIDE DEF freed, earned, book
    <3> QED BY <1>1, <1>3, <1>7, <2>3 DEF restricted, deferred, free
  <2> QED BY <1>7, <2>4, <2>5, <2>6 DEF SameGaps
<1>10. ASSUME NEW k \in DOMAIN v.schedules
       PROVE  /\ Unreleased(v.schedules[k])
              /\ \E i \in DOMAIN w.schedules :
                   w.schedules[i].reason = v.schedules[k].reason /\ Unreleased(w.schedules[i])
  <2>1. kept[k] \in ToSet(after) /\ Unreleased(kept[k])
    <3>1. kept[k] \in ToSet(kept)
      BY <1>7 DEF ToSet
    <3> QED BY <1>4, <3>1
  <2>2. PICK i \in DOMAIN after : kept[k] = after[i]
    BY <2>1 DEF ToSet
  <2>3. i \in DOMAIN book /\ book[i] \in Held /\ kept[k] = Released(book[i], t)
    BY <1>1, <1>2, <2>2, ListFacts
  <2>4. /\ Released(book[i], t) \in Held /\ Released(book[i], t).reason = book[i].reason
        /\ Rest(Released(book[i], t)) = Rest(book[i]) - Due(book[i], t) /\ Due(book[i], t) \in Nat
    BY <2>3, ReleasedIsHeld
  <2>5. Unreleased(book[i])
    <3>1. /\ book[i].total \in Nat /\ book[i].released \in Nat
          /\ Released(book[i], t).total \in Nat /\ Released(book[i], t).released \in Nat
      BY <2>3, <2>4 DEF Held, Schedule
    <3> QED BY <2>1, <2>3, <2>4, <3>1 DEF Unreleased, Rest
  <2> QED BY <1>7, <2>1, <2>3, <2>4, <2>5
<1> QED BY <1>7, <1>9, <1>10 DEF LeftOf

(* What a deal says of its term and its grid.                              *)
SameTerm(d, e) == d.termEnd = e.termEnd /\ d.anchor = e.anchor /\ d.cycles = e.cycles /\ d.signed = e.signed

(* A contract that ended has no backlog and nothing left to recognize.     *)
Ended(w) ==
  /\ w.deal.backlog = 0
  /\ \A k \in DOMAIN w.schedules : w.schedules[k].reason = "recognition" => ~Unreleased(w.schedules[k])

(* Once a deal is signed, or promises nothing, its backlog is in the book. *)
Entered(deal) == deal.signed \/ deal.backlog = 0

(* The end of a contract posts what it takes off the book.                 *)
LEMMA TerminatedFacts ==
  ASSUME NEW c, NEW w \in Works, NEW t \in Nat, Entered(w.deal), NEW v, v = Terminated(w, t)
  PROVE  /\ v \in Works /\ SameGaps(v, w, c) /\ v.invoices = w.invoices
         /\ v.deal.phase = "terminated" /\ Ended(v) /\ SameTerm(v.deal, w.deal)
<1> DEFINE book == w.schedules
           closing == Closing(w)
           open == ToSet(book) \ ToClose(book)
           rest == Selected(book, open)
           earned == DueIn(closing, "recognition", t)
           refund == RefundOf(w, t)
           deal == [w.deal EXCEPT !.phase = "terminated", !.backlog = 0]
           backlog == w.backlog - w.deal.backlog
           deferred == w.deferred - earned - refund
           free == w.free + earned
           repaid == w.refunded + refund
<1>1. /\ IsList(book, Held) /\ w.free \in Int /\ w.deferred \in Int /\ w.backlog \in Int
      /\ w.refunded \in Nat /\ w.deal \in Deal /\ w.collected \in Nat /\ w.restricted \in Int
  BY WorkFields
<1>2. /\ IsList(closing, Held) /\ ToSet(closing) = ToSet(book) \cap ToClose(book)
      /\ IsList(rest, Held) /\ ToSet(rest) = ToSet(book) \cap open
  BY <1>1, SelectedSet DEF IsList, Closing
<1>3. /\ earned \in Nat /\ refund \in Nat
      /\ refund = HeldIn(closing, "recognition") - earned
  <2> HIDE DEF closing
  <2>1. earned \in Nat
    BY <1>2, DueAsTotal
  <2>2. refund = HeldIn(AllReleased(closing, t), "recognition")
    BY DEF RefundOf, closing
  <2>3. HeldIn(AllReleased(closing, t), "recognition") \in Nat
    BY <1>2, AllReleasedFacts, HeldType
  <2>4. HeldIn(AllReleased(closing, t), "recognition") = HeldIn(closing, "recognition") - earned
    BY <1>2, HeldAfterRelease
  <2> HIDE DEF earned, refund
  <2> QED BY <2>1, <2>2, <2>3, <2>4
<1>4. /\ deal \in Deal /\ deal.phase = "terminated" /\ deal.backlog = 0 /\ SameTerm(deal, w.deal)
      /\ w.deal.backlog \in Nat
  BY <1>1 DEF Deal, SameTerm
<1>5. backlog \in Int /\ deferred \in Int /\ free \in Int /\ repaid \in Nat
  <2> HIDE DEF earned, refund
  <2> QED BY <1>1, <1>3, <1>4
<1>6. v = [w EXCEPT !.deal = deal, !.backlog = backlog, !.deferred = deferred, !.free = free,
                    !.schedules = rest, !.refunded = repaid]
  BY DEF Terminated
<1> HIDE DEF deal, backlog, deferred, free, rest, repaid
<1>7. /\ v \in Works /\ v.deal = deal /\ v.invoices = w.invoices /\ v.schedules = rest
      /\ v.free = free /\ v.restricted = w.restricted /\ v.deferred = deferred
      /\ v.receivable = w.receivable /\ v.backlog = backlog
      /\ v.collected = w.collected /\ v.refunded = repaid
  <2>1. rest \in Seq(Held)
    BY <1>2 DEF IsList
  <2> QED BY <1>4, <1>5, <1>6, <2>1 DEF Works
<1>8. \A reason : /\ HeldIn(book, reason) = HeldIn(closing, reason) + HeldIn(rest, reason)
                  /\ HeldIn(closing, reason) \in Nat /\ HeldIn(rest, reason) \in Nat
  <2> SUFFICES ASSUME NEW reason
               PROVE  /\ HeldIn(book, reason) = HeldIn(closing, reason) + HeldIn(rest, reason)
                      /\ HeldIn(closing, reason) \in Nat /\ HeldIn(rest, reason) \in Nat
    OBVIOUS
  <2>1. \A s \in ToSet(book) : s \in ToClose(book) <=> s \notin open
    OBVIOUS
  <2>2. HeldIn(book, reason)
          = HeldIn(Selected(book, ToClose(book)), reason) + HeldIn(Selected(book, open), reason)
    <3> HIDE DEF book, open
    <3> QED BY <1>1, <2>1, HeldInParts
  <2>3. HeldIn(closing, reason) \in Nat /\ HeldIn(rest, reason) \in Nat
    <3> HIDE DEF closing
    <3> QED BY <1>2, HeldType
  <2> QED BY <2>2, <2>3 DEF Closing, rest
<1>9. HeldIn(closing, "reserve") = 0
  <2>1. \A s \in ToSet(closing) : s.reason # "reserve" \/ ~Unreleased(s)
    BY <1>2 DEF ToClose
  <2> HIDE DEF closing
  <2> QED BY <1>2, <2>1, NothingHeld
<1>10. SameGaps(v, w, c)
  <2>1. v.backlog - Pledged(v.deal) = w.backlog - Pledged(w.deal)
    BY <1>1, <1>4, <1>7 DEF backlog, Pledged, Entered
  <2>2. v.deferred - HeldIn(rest, "recognition") = w.deferred - HeldIn(book, "recognition")
    <3>1. HeldIn(book, "recognition") = HeldIn(closing, "recognition") + HeldIn(rest, "recognition")
      BY <1>8
    <3>2. HeldIn(closing, "recognition") \in Nat /\ HeldIn(rest, "recognition") \in Nat
      BY <1>8
    <3> HIDE DEF closing, book, earned, refund
    <3> QED BY <1>1, <1>3, <1>7, <3>1, <3>2 DEF deferred
  <2>3. HeldIn(rest, "reserve") = HeldIn(book, "reserve")
    <3>1. HeldIn(book, "reserve") = HeldIn(closing, "reserve") + HeldIn(rest, "reserve")
      BY <1>8
    <3>2. HeldIn(rest, "reserve") \in Nat
      BY <1>8
    <3> HIDE DEF closing, book
    <3> QED BY <1>9, <3>1, <3>2
  <2>4. v.free + v.restricted + v.deferred - v.collected + v.refunded
          = w.free + w.restricted + w.deferred - w.collected + w.refunded
    <3> HIDE DEF earned, refund
    <3> QED BY <1>1, <1>3, <1>7 DEF free, deferred, repaid
  <2> QED BY <1>7, <2>1, <2>2, <2>3, <2>4 DEF SameGaps
<1>11. Ended(v)
  <2>1. ASSUME NEW k \in DOMAIN rest, rest[k].reason = "recognition" PROVE ~Unreleased(rest[k])
    <3>1. rest[k] \in ToSet(rest)
      BY DEF ToSet
    <3>2. rest[k] \in open
      BY <1>2, <3>1
    <3> QED BY <2>1, <3>2 DEF ToClose
  <2> QED BY <1>4, <1>7, <2>1 DEF Ended
<1> QED BY <1>4, <1>7, <1>10, <1>11

(* A deal that changes without its money.                                  *)
LEMMA DealChanged ==
  ASSUME NEW c, NEW w \in Works, NEW deal \in Deal, Pledged(deal) = Pledged(w.deal),
         NEW v, v = [w EXCEPT !.deal = deal]
  PROVE  /\ v \in Works /\ SameGaps(v, w, c) /\ v.deal = deal
         /\ v.invoices = w.invoices /\ v.schedules = w.schedules
<1>1. /\ v \in Works /\ v.deal = deal /\ v.invoices = w.invoices /\ v.schedules = w.schedules
      /\ v.free = w.free /\ v.restricted = w.restricted /\ v.deferred = w.deferred
      /\ v.receivable = w.receivable /\ v.backlog = w.backlog
      /\ v.collected = w.collected /\ v.refunded = w.refunded
  BY DEF Works
<1> QED BY <1>1 DEF SameGaps

(* A pending deal is signed, and starts on its day.                        *)
SignedFrom(v, w, c, t) ==
  /\ v \in Works /\ SameGaps(v, w, c) /\ v.invoices = w.invoices /\ v.schedules = w.schedules
  /\ Entered(v.deal) /\ v.deal.backlog = w.deal.backlog /\ v.deal.anchor = w.deal.anchor
  /\ v.deal.termEnd = w.deal.termEnd /\ v.deal.cycles = w.deal.cycles
  /\ IF w.deal.phase = "pending"
     THEN v.deal.phase \in {"pending", "active"} /\ (v.deal.phase = "pending" <=> t < Start[c])
     ELSE v.deal.phase = w.deal.phase

(* Signing posts the backlog it enters.                                    *)
LEMMA SignAndStartFacts ==
  ASSUME BillingAssumption, NEW c \in Contract, NEW w \in Works, NEW t \in Nat,
         w.deal.phase # "pending" => Entered(w.deal), NEW v, v = SignAndStart(w, c, t)
  PROVE  SignedFrom(v, w, c, t)
<1>1. CASE w.deal.phase # "pending"
  <2>1. v = w
    BY <1>1 DEF SignAndStart
  <2> QED BY <1>1, <2>1 DEF SignedFrom, SameGaps
<1>2. CASE w.deal.phase = "pending"
  <2> DEFINE signing == ~w.deal.signed /\ w.deal.backlog > 0
             backlog == IF signing THEN w.backlog + w.deal.backlog ELSE w.backlog
             deal == [w.deal EXCEPT !.signed = w.deal.signed \/ signing,
                                    !.phase = IF t >= Start[c] THEN "active" ELSE "pending"]
  <2>1. w.deal \in Deal /\ w.backlog \in Int /\ Start[c] \in Nat
    BY WorkFields, ContractFacts
  <2>2. /\ w.deal.backlog \in Nat /\ w.deal.signed \in BOOLEAN
        /\ signing \in BOOLEAN
    BY <2>1 DEF Deal
  <2>3. /\ deal \in Deal /\ deal.backlog = w.deal.backlog /\ deal.anchor = w.deal.anchor
        /\ deal.termEnd = w.deal.termEnd /\ deal.cycles = w.deal.cycles
        /\ deal.signed = (w.deal.signed \/ signing)
        /\ deal.phase = IF t >= Start[c] THEN "active" ELSE "pending"
    <3> DEFINE signed == w.deal.signed \/ signing
               phase == IF t >= Start[c] THEN "active" ELSE "pending"
    <3>1. signed \in BOOLEAN /\ phase \in {"pending", "active"}
      BY <2>2
    <3>2. deal = [w.deal EXCEPT !.signed = signed, !.phase = phase]
      OBVIOUS
    <3> HIDE DEF signed, phase, deal
    <3>3. /\ deal \in Deal /\ deal.backlog = w.deal.backlog /\ deal.anchor = w.deal.anchor
          /\ deal.termEnd = w.deal.termEnd /\ deal.cycles = w.deal.cycles
          /\ deal.signed = signed /\ deal.phase = phase
      BY <2>1, <3>1, <3>2 DEF Deal
    <3> QED BY <3>3 DEF signed, phase
  <2>4. v = [w EXCEPT !.backlog = backlog, !.deal = deal]
    BY <1>2 DEF SignAndStart
  <2>5. backlog \in Int
    BY <2>1, <2>2
  <2>6. backlog - Pledged(deal) = w.backlog - Pledged(w.deal)
    <3> HIDE DEF deal
    <3>1. CASE signing
      <4>1. deal.signed /\ ~w.deal.signed
        BY <2>3, <3>1, Zenon
      <4>2. Pledged(deal) = w.deal.backlog /\ Pledged(w.deal) = 0
        BY <2>3, <4>1 DEF Pledged
      <4>3. backlog = w.backlog + w.deal.backlog
        BY <3>1
      <4> QED BY <2>1, <2>2, <4>2, <4>3
    <3>2. CASE ~signing
      <4>1. deal.signed <=> w.deal.signed
        BY <2>3, <3>2, Zenon
      <4>2. Pledged(deal) = Pledged(w.deal)
        BY <2>3, <4>1 DEF Pledged
      <4>3. backlog = w.backlog
        BY <3>2
      <4> QED BY <4>2, <4>3
    <3> QED BY <3>1, <3>2
  <2>7. Entered(deal)
    <3> HIDE DEF deal
    <3>1. w.deal.signed \/ signing \/ w.deal.backlog = 0
      BY <2>2
    <3>2. deal.signed \/ w.deal.backlog = 0
      <4> HIDE DEF signing
      <4> QED BY <2>3, <3>1, Zenon
    <3> QED BY <2>3, <3>2 DEF Entered
  <2> HIDE DEF deal, backlog
  <2>8. /\ v \in Works /\ v.deal = deal /\ v.invoices = w.invoices /\ v.schedules = w.schedules
        /\ v.free = w.free /\ v.restricted = w.restricted /\ v.deferred = w.deferred
        /\ v.receivable = w.receivable /\ v.backlog = backlog
        /\ v.collected = w.collected /\ v.refunded = w.refunded
    BY <2>3, <2>4, <2>5 DEF Works
  <2>9. SameGaps(v, w, c)
    BY <2>6, <2>8 DEF SameGaps
  <2>10. deal.phase \in {"pending", "active"} /\ (deal.phase = "pending" <=> t < Start[c])
    BY <2>1, <2>3
  <2> QED BY <1>2, <2>3, <2>7, <2>8, <2>9, <2>10 DEF SignedFrom
<1> QED BY <1>1, <1>2

(* A contract that is taken over its term's end.                           *)
LEMMA RenewedFacts ==
  ASSUME BillingAssumption, NEW c \in Contract, NEW w \in Works, NEW v, v = Renewed(w, c)
  PROVE  /\ v \in Works /\ SameGaps(v, w, c) /\ v.invoices = w.invoices /\ v.schedules = w.schedules
         /\ v.deal.phase = w.deal.phase /\ v.deal.backlog = w.deal.backlog /\ v.deal.signed = w.deal.signed
         /\ v.deal.anchor = w.deal.termEnd /\ v.deal.cycles = 0
         /\ v.deal.termEnd = w.deal.termEnd + (End[c] - Start[c])
<1> DEFINE termEnd == w.deal.termEnd + End[c] - Start[c]
           deal == [w.deal EXCEPT !.anchor = w.deal.termEnd, !.cycles = 0, !.termEnd = termEnd]
<1>1. w.deal \in Deal /\ w.deal.termEnd \in Nat
  BY WorkFields DEF Deal
<1>2. termEnd \in Nat /\ termEnd = w.deal.termEnd + (End[c] - Start[c])
  BY <1>1, ContractFacts
<1>3. v = [w EXCEPT !.deal = deal]
  BY DEF Renewed
<1> HIDE DEF termEnd
<1>4. /\ deal \in Deal /\ deal.phase = w.deal.phase /\ deal.backlog = w.deal.backlog
      /\ deal.signed = w.deal.signed /\ deal.anchor = w.deal.termEnd /\ deal.cycles = 0
      /\ deal.termEnd = termEnd
  BY <1>1, <1>2 DEF Deal
<1> HIDE DEF deal
<1>5. Pledged(deal) = Pledged(w.deal)
  BY <1>4 DEF Pledged
<1>6. v \in Works /\ SameGaps(v, w, c) /\ v.deal = deal /\ v.invoices = w.invoices /\ v.schedules = w.schedules
  BY <1>3, <1>4, <1>5, DealChanged
<1> QED BY <1>2, <1>4, <1>6

(* The calendar bills every cycle that has begun, as many as a tick may.   *)
Issued(after, book, deal, c, count) ==
  \E n \in Nat :
    /\ DOMAIN book = 1..n /\ DOMAIN after = 1..n + count
    /\ \A k \in 1..n : after[k] = book[k]
    /\ \A i \in 1..count : after[n + i] = Invoice(deal, c, deal.cycles + i - 1)

(* An invoice of the calendar is issued, for the period of its cycle.      *)
LEMMA InvoiceIsBill ==
  ASSUME BillingAssumption, NEW c \in Contract, NEW deal \in Deal, NEW cycle \in Nat
  PROVE  /\ Invoice(deal, c, cycle) \in Bill /\ Invoice(deal, c, cycle).state = "issued"
         /\ Invoice(deal, c, cycle).cycle = cycle /\ Invoice(deal, c, cycle).stage = "none"
         /\ Invoice(deal, c, cycle).from = deal.anchor + cycle * Period[c]
<1> DEFINE from == deal.anchor + cycle * Period[c]
           due == deal.anchor + cycle * Period[c] + Credit[c]
<1>1. cycle * Period[c] \in Nat
  BY ContractFacts
<1>2. deal.anchor \in Nat /\ Credit[c] \in Nat
  BY ContractFacts DEF Deal
<1>3. from \in Nat /\ due \in Nat
  BY <1>1, <1>2
<1>4. "none" \in Stage
  BY DEF Stage
<1>5. Invoice(deal, c, cycle) = [cycle |-> cycle, from |-> from, due |-> due, state |-> "issued", stage |-> "none"]
  BY DEF Invoice
<1>6. from = deal.anchor + cycle * Period[c]
  OBVIOUS
<1> HIDE DEF from, due
<1> QED BY <1>3, <1>4, <1>5, <1>6 DEF Bill

(* The invoices of one tick.                                               *)
LEMMA BatchIsList ==
  ASSUME BillingAssumption, NEW c \in Contract, NEW deal \in Deal, NEW count \in Nat
  PROVE  /\ IsList(Batch(deal, c, count), Bill) /\ Len(Batch(deal, c, count)) = count
         /\ \A i \in 1..count : Batch(deal, c, count)[i] = Invoice(deal, c, deal.cycles + i - 1)
<1>1. deal.cycles \in Nat
  BY DEF Deal
<1>2. ASSUME NEW i \in 1..count PROVE Invoice(deal, c, deal.cycles + i - 1) \in Bill
  <2>1. deal.cycles + i - 1 \in Nat
    <3>1. i \in Nat /\ i >= 1
      OBVIOUS
    <3> QED BY <1>1, <3>1
  <2> QED BY <2>1, InvoiceIsBill
<1>3. Batch(deal, c, count) \in [1..count -> Bill]
  BY <1>2 DEF Batch
<1>4. \A i \in 1..count : Batch(deal, c, count)[i] = Invoice(deal, c, deal.cycles + i - 1)
  BY DEF Batch
<1> QED BY <1>3, <1>4, ListOfLength

(* They stand behind the ones that are there.                              *)
LEMMA IssuedIsList ==
  ASSUME BillingAssumption, NEW c \in Contract, NEW book, IsList(book, Bill), NEW deal \in Deal,
         NEW count \in Nat
  PROVE  /\ IsList(book \o Batch(deal, c, count), Bill)
         /\ Issued(book \o Batch(deal, c, count), book, deal, c, count)
<1> DEFINE new == Batch(deal, c, count)
           after == book \o new
<1>1. /\ IsList(new, Bill) /\ Len(new) = count
      /\ \A i \in 1..count : new[i] = Invoice(deal, c, deal.cycles + i - 1)
  BY BatchIsList
<1> HIDE DEF new
<1>2. /\ IsList(after, Bill) /\ DOMAIN after = 1..Len(book) + Len(new)
      /\ \A k \in 1..Len(book) : after[k] = book[k]
      /\ \A i \in 1..Len(new) : after[Len(book) + i] = new[i]
  <2>1. IsList(new, Bill)
    BY <1>1
  <2>2. IsList(after, Bill)
    BY <2>1, ListConcat
  <2>3. DOMAIN after = 1..Len(book) + Len(new)
    BY <2>1, ListConcat
  <2>4. \A k \in 1..Len(book) : after[k] = book[k]
    BY <2>1, ListConcat
  <2>5. \A i \in 1..Len(new) : after[Len(book) + i] = new[i]
    BY <2>1, ListConcat
  <2> QED BY <2>2, <2>3, <2>4, <2>5
<1>3. Len(book) \in Nat /\ DOMAIN book = 1..Len(book)
  BY ListSlots
<1> HIDE DEF after
<1>4. Issued(after, book, deal, c, count)
  <2>1. DOMAIN after = 1..Len(book) + count /\ \A k \in 1..Len(book) : after[k] = book[k]
    BY <1>1, <1>2
  <2>2. ASSUME NEW i \in 1..count PROVE after[Len(book) + i] = Invoice(deal, c, deal.cycles + i - 1)
    <3>1. after[Len(book) + i] = new[i]
      BY <1>1, <1>2
    <3>2. new[i] = Invoice(deal, c, deal.cycles + i - 1)
      BY <1>1
    <3> QED BY <3>1, <3>2
  <2> QED BY <1>3, <2>1, <2>2 DEF Issued
<1> QED BY <1>2, <1>4 DEF after, new

(* As many invoices are new as the calendar issued.                        *)
LEMMA GrowsByIssue ==
  ASSUME BillingAssumption, NEW c \in Contract, NEW book, NEW deal \in Deal, NEW count \in Nat,
         NEW after, Issued(after, book, deal, c, count)
  PROVE  \E New : Grows(after, book, New) /\ Cardinality(New) = count
<1>1. PICK n \in Nat :
        /\ DOMAIN book = 1..n /\ DOMAIN after = 1..n + count
        /\ \A k \in 1..n : after[k] = book[k]
        /\ \A i \in 1..count : after[n + i] = Invoice(deal, c, deal.cycles + i - 1)
  BY DEF Issued
<1> DEFINE New == (n + 1)..(n + count)
<1>2. ASSUME NEW k \in New PROVE after[k].state = "issued"
  <2>1. k - n \in 1..count /\ n + (k - n) = k
    OBVIOUS
  <2>2. deal.cycles + (k - n) - 1 \in Nat
    <3>1. deal.cycles \in Nat
      BY DEF Deal
    <3> QED BY <2>1, <3>1
  <2>3. after[k] = Invoice(deal, c, deal.cycles + (k - n) - 1)
    BY <1>1, <2>1
  <2> QED BY <2>2, <2>3, InvoiceIsBill
<1>3. \A k \in New : k \in 1..n + count /\ k > n
  OBVIOUS
<1>4. \A k \in 1..n + count : k \in New \/ k \in 1..n
  OBVIOUS
<1>5. New \in SUBSET DOMAIN after /\ DOMAIN book = DOMAIN after \ New
  <2>1. New \subseteq DOMAIN after
    BY <1>1, <1>3
  <2>2. \A k \in 1..n : k \in 1..n + count /\ k \notin New
    OBVIOUS
  <2>3. DOMAIN book = 1..n /\ DOMAIN after = 1..n + count
    BY <1>1
  <2> HIDE DEF New
  <2> QED BY <1>4, <2>1, <2>2, <2>3
<1>6. Cardinality(New) = count
  <2>1. n + 1 \in Int /\ n + count \in Int
    OBVIOUS
  <2>2. Cardinality((n + 1)..(n + count)) = IF n + 1 > n + count THEN 0 ELSE n + count - (n + 1) + 1
    BY <2>1, FS_Interval
  <2> QED BY <2>2
<1>7. \A k \in DOMAIN book : after[k] = book[k]
  BY <1>1
<1> HIDE DEF New
<1>8. Grows(after, book, New)
  BY <1>2, <1>5, <1>7 DEF Grows
<1> QED BY <1>6, <1>8

(* What is owed grows by as many times the gross.                          *)
LEMMA OwedAfterIssue ==
  ASSUME BillingAssumption, NEW c \in Contract, NEW book, IsList(book, Bill), NEW deal \in Deal,
         NEW count \in Nat, NEW after, IsList(after, Bill), Issued(after, book, deal, c, count)
  PROVE  OwedIn(after, c) = OwedIn(book, c) + count * Gross[c]
<1>1. PICK New : Grows(after, book, New) /\ Cardinality(New) = count
  BY GrowsByIssue
<1> QED BY <1>1, OwedGrown

(* The cycles that are due, once the grid has begun.                       *)
LEMMA CyclesBegun ==
  ASSUME NEW c, NEW deal, NEW t \in Nat, deal.anchor \in Nat, ~(t < deal.anchor), deal.cycles \in Nat,
         Period[c] \in Nat, Period[c] > 0
  PROVE  CyclesDue(deal, c, t)
           = IF (t - deal.anchor) \div Period[c] + 1 < deal.cycles THEN 0
             ELSE (t - deal.anchor) \div Period[c] + 1 - deal.cycles
  BY DEF CyclesDue

(* A cycle is due when its period has begun, and not before.               *)
LEMMA CyclesDueFacts ==
  ASSUME BillingAssumption, NEW c \in Contract, NEW deal \in Deal, NEW t \in Nat
  PROVE  /\ CyclesDue(deal, c, t) \in Nat
         /\ CyclesDue(deal, c, t) > 0
            => /\ deal.anchor <= t
               /\ deal.cycles + CyclesDue(deal, c, t) - 1 <= (t - deal.anchor) \div Period[c]
<1>1. deal.anchor \in Nat /\ deal.cycles \in Nat /\ Period[c] \in Nat /\ Period[c] > 0
  BY ContractFacts DEF Deal
<1>2. CASE t < deal.anchor
  BY <1>2 DEF CyclesDue
<1>3. CASE ~(t < deal.anchor)
  <2> DEFINE whole == (t - deal.anchor) \div Period[c]
  <2>1. t - deal.anchor \in Nat
    BY <1>1, <1>3
  <2>2. whole \in Nat
    BY <1>1, <2>1
  <2>3. CyclesDue(deal, c, t) = IF whole + 1 < deal.cycles THEN 0 ELSE whole + 1 - deal.cycles
    BY <1>1, <1>3, CyclesBegun
  <2> HIDE DEF whole
  <2>4. /\ CyclesDue(deal, c, t) \in Nat
        /\ CyclesDue(deal, c, t) > 0 => deal.cycles + CyclesDue(deal, c, t) - 1 <= whole
    BY <1>1, <2>2, <2>3
  <2> QED BY <1>1, <1>3, <2>4 DEF whole
<1> QED BY <1>2, <1>3

(* The new invoices, none of them for a period that has not begun.         *)
Adds(v, w, c, t, count) ==
  /\ v.deal.cycles = w.deal.cycles + count
  /\ Issued(v.invoices, w.invoices, w.deal, c, count)
  /\ count > 0 => /\ w.deal.phase # "terminated"
                  /\ w.deal.anchor + (w.deal.cycles + count - 1) * Period[c] <= t

(* What the calendar does to a work.                                       *)
Invoiced(v, w, c, t) ==
  /\ v \in Works /\ SameGaps(v, w, c) /\ v.schedules = w.schedules /\ Entered(v.deal)
  /\ v.deal.phase = w.deal.phase /\ v.deal.termEnd = w.deal.termEnd /\ v.deal.anchor = w.deal.anchor
  /\ w.deal.backlog = 0 => v.deal.backlog = 0
  /\ \E count \in Nat : Adds(v, w, c, t, count)

(* The calendar posts what it bills and drains.                            *)
LEMMA IssueDueFacts ==
  ASSUME BillingAssumption, NEW c \in Contract, NEW w \in Works, NEW t \in Nat, Entered(w.deal),
         NEW v, v = IssueDue(w, c, t)
  PROVE  Invoiced(v, w, c, t)
<1>0. /\ w.deal \in Deal /\ IsList(w.invoices, Bill) /\ w.backlog \in Int /\ w.receivable \in Int
      /\ w.deal.backlog \in Nat /\ w.deal.cycles \in Nat
  BY WorkFields DEF Deal
<1>1. CASE w.deal.phase = "terminated"
  <2>1. v = w
    BY <1>1 DEF IssueDue
  <2>2. Issued(w.invoices, w.invoices, w.deal, c, 0)
    <3>1. Len(w.invoices) \in Nat /\ DOMAIN w.invoices = 1..Len(w.invoices)
      BY <1>0, ListSlots
    <3>2. Len(w.invoices) + 0 = Len(w.invoices) /\ \A i \in 1..0 : FALSE
      BY <3>1
    <3> QED BY <3>1, <3>2 DEF Issued
  <2>3. w.deal.cycles = w.deal.cycles + 0 /\ 0 \in Nat
    BY <1>0
  <2>4. SameGaps(v, w, c)
    BY <2>1 DEF SameGaps
  <2>5. Adds(v, w, c, t, 0)
    BY <2>1, <2>2, <2>3 DEF Adds
  <2> QED BY <1>0, <2>1, <2>4, <2>5 DEF Invoiced
<1>2. CASE w.deal.phase # "terminated"
  <2> DEFINE due == CyclesDue(w.deal, c, t)
             count == IF due < MaxCatchUp THEN due ELSE MaxCatchUp
             bill == count * Gross[c]
             drain == IF w.deal.backlog < bill THEN w.deal.backlog ELSE bill
             cycles == w.deal.cycles + count
             left == w.deal.backlog - drain
             deal == [w.deal EXCEPT !.cycles = cycles, !.backlog = left]
             book == w.invoices \o Batch(w.deal, c, count)
             receivable == w.receivable + bill
             backlog == w.backlog - drain
  <2>1. /\ count \in Nat /\ count <= due /\ due \in Nat
        /\ due > 0 => /\ w.deal.anchor <= t
                      /\ w.deal.cycles + due - 1 <= (t - w.deal.anchor) \div Period[c]
    <3>1. MaxCatchUp \in Nat
      BY ContractFacts
    <3>2. /\ due \in Nat
          /\ due > 0 => /\ w.deal.anchor <= t
                        /\ w.deal.cycles + due - 1 <= (t - w.deal.anchor) \div Period[c]
      BY <1>0, CyclesDueFacts
    <3> HIDE DEF due
    <3> QED BY <3>1, <3>2
  <2> HIDE DEF due, count
  <2>2. bill \in Nat
    <3>1. Gross[c] \in Nat
      BY ContractFacts
    <3> QED BY <2>1, <3>1
  <2>3. IsList(book, Bill) /\ Issued(book, w.invoices, w.deal, c, count)
    BY <1>0, <2>1, IssuedIsList
  <2>4. OwedIn(book, c) = OwedIn(w.invoices, c) + bill
    <3> HIDE DEF book
    <3> QED BY <1>0, <2>1, <2>3, OwedAfterIssue
  <2>5. v = [w EXCEPT !.invoices = book, !.deal = deal, !.receivable = receivable, !.backlog = backlog]
    BY <1>2 DEF IssueDue, due, count
  <2> HIDE DEF bill, book
  <2>6. /\ drain \in Nat /\ left \in Nat /\ cycles \in Nat /\ receivable \in Int /\ backlog \in Int
        /\ left = w.deal.backlog - drain
        /\ w.deal.backlog = 0 => left = 0 /\ drain = 0
    BY <1>0, <2>1, <2>2
  <2>7. cycles = w.deal.cycles + count /\ receivable = w.receivable + bill /\ backlog = w.backlog - drain
    OBVIOUS
  <2> HIDE DEF drain, left, cycles, receivable, backlog
  <2>8. /\ deal \in Deal /\ deal.phase = w.deal.phase /\ deal.termEnd = w.deal.termEnd
        /\ deal.anchor = w.deal.anchor /\ deal.cycles = cycles /\ deal.backlog = left
        /\ deal.signed = w.deal.signed
    BY <1>0, <2>6 DEF Deal
  <2> HIDE DEF deal
  <2>9. /\ v \in Works /\ v.deal = deal /\ v.invoices = book /\ v.schedules = w.schedules
        /\ v.free = w.free /\ v.restricted = w.restricted /\ v.deferred = w.deferred
        /\ v.receivable = receivable /\ v.backlog = backlog
        /\ v.collected = w.collected /\ v.refunded = w.refunded
    <3>1. book \in Seq(Bill)
      BY <2>3 DEF IsList
    <3> QED BY <2>5, <2>6, <2>8, <3>1 DEF Works
  <2>10. backlog - Pledged(deal) = w.backlog - Pledged(w.deal)
    BY <1>0, <2>6, <2>7, <2>8 DEF Pledged, Entered
  <2>11. Entered(deal)
    BY <2>6, <2>8 DEF Entered
  <2>12. SameGaps(v, w, c)
    <3>1. OwedIn(w.invoices, c) \in Nat
      BY <1>0, OwedType
    <3>2. receivable - OwedIn(book, c) = w.receivable - OwedIn(w.invoices, c)
      BY <1>0, <2>2, <2>4, <2>7, <3>1
    <3> QED BY <2>9, <2>10, <3>2 DEF SameGaps
  <2>13. count > 0 => w.deal.anchor + (w.deal.cycles + count - 1) * Period[c] <= t
    <3> SUFFICES ASSUME count > 0
                 PROVE  w.deal.anchor + (w.deal.cycles + count - 1) * Period[c] <= t
      OBVIOUS
    <3> DEFINE last == w.deal.cycles + count - 1
               past == t - w.deal.anchor
    <3>1. w.deal.anchor <= t /\ w.deal.cycles + due - 1 <= past \div Period[c]
      BY <2>1
    <3>2. w.deal.anchor \in Nat /\ Period[c] \in Nat \ {0}
      BY <1>0, ContractFacts DEF Deal
    <3>3. past \in Nat
      BY <3>1, <3>2
    <3>4. last \in Nat
      BY <1>0, <2>1
    <3> HIDE DEF past
    <3>5. past \div Period[c] \in Nat
      BY <3>2, <3>3
    <3>6. last <= past \div Period[c]
      BY <1>0, <2>1, <3>1, <3>5
    <3> HIDE DEF last
    <3>7. last * Period[c] <= past
      BY <3>2, <3>3, <3>4, <3>6, DivBelow
    <3> DEFINE span == last * Period[c]
    <3>8. span \in Nat
      BY <3>2, <3>4
    <3> HIDE DEF span
    <3>9. span <= past
      BY <3>7 DEF span
    <3>10. w.deal.anchor + span <= t
      <4> USE DEF past
      <4> QED BY <3>2, <3>8, <3>9
    <3> QED BY <3>10 DEF span, last
  <2>14. Adds(v, w, c, t, count)
    BY <1>2, <2>3, <2>6, <2>7, <2>8, <2>9, <2>13 DEF Adds
  <2> QED BY <2>1, <2>6, <2>8, <2>9, <2>11, <2>12, <2>14 DEF Invoiced
<1> QED BY <1>1, <1>2

-----------------------------------------------------------------------------
(***************************************************************************)
(* Collection and dunning.                                                 *)
(***************************************************************************)
(* A work of which the invoices change, and nothing is owed more or less.  *)
LEMMA BookMarked ==
  ASSUME NEW c, NEW w \in Works, NEW book, IsList(book, Bill), OwedIn(book, c) = OwedIn(w.invoices, c),
         NEW v, v = [w EXCEPT !.invoices = book]
  PROVE  /\ v \in Works /\ SameGaps(v, w, c) /\ v.deal = w.deal /\ v.invoices = book
         /\ v.schedules = w.schedules
<1>1. book \in Seq(Bill)
  BY DEF IsList
<1>2. /\ v \in Works /\ v.deal = w.deal /\ v.invoices = book /\ v.schedules = w.schedules
      /\ v.free = w.free /\ v.restricted = w.restricted /\ v.deferred = w.deferred
      /\ v.receivable = w.receivable /\ v.backlog = w.backlog
      /\ v.collected = w.collected /\ v.refunded = w.refunded
  BY <1>1 DEF Works
<1> QED BY <1>2 DEF SameGaps

(* Only the i-th invoice changes, and it bills what it billed.             *)
OnlyMarks(after, book, i) ==
  SameBills(after, book) /\ \A k \in DOMAIN book : k # i => after[k] = book[k]

(* What a payment holds back.                                              *)
LEMMA ReserveIsHeld ==
  ASSUME BillingAssumption, NEW c \in Contract, NEW cycle \in Nat, NEW t \in Nat
  PROVE  /\ Reserve(c, cycle, t) \in Held /\ Rest(Reserve(c, cycle, t)) = ReserveOf(Net(c))
         /\ Recognition(c, cycle, t) \in Held /\ Rest(Recognition(c, cycle, t)) = Net(c)
<1>1. /\ Net(c) \in Nat /\ ReserveOf(Net(c)) \in Nat
      /\ Month \in Nat \ {0} /\ Slices \in Nat \ {0} /\ ReserveHold \in Nat \ {0}
  BY ContractFacts
<1>2. t + Month \in Nat /\ t + ReserveHold \in Nat /\ 1 \in Nat \ {0}
  BY <1>1
<1>3. Reserve(c, cycle, t) \in Schedule /\ Recognition(c, cycle, t) \in Schedule
  BY <1>1, <1>2 DEF Reserve, Recognition, Schedule
<1>4. /\ Reserve(c, cycle, t).total = ReserveOf(Net(c)) /\ Reserve(c, cycle, t).released = 0
      /\ Recognition(c, cycle, t).total = Net(c) /\ Recognition(c, cycle, t).released = 0
  BY DEF Reserve, Recognition
<1> QED BY <1>1, <1>3, <1>4 DEF Held, Rest

(* A parked reserve is held back as a reserve.                             *)
LEMMA ParkingFacts ==
  ASSUME BillingAssumption, NEW c \in Contract, NEW cycle \in Nat, NEW t \in Nat, NEW book, IsList(book, Held)
  PROVE  /\ IsList(Parking(book, c, cycle, t), Held)
         /\ HeldIn(Parking(book, c, cycle, t), "reserve") = HeldIn(book, "reserve") + Parked(c)
         /\ HeldIn(Parking(book, c, cycle, t), "recognition") = HeldIn(book, "recognition")
<1>1. Parked(c) \in Nat /\ \A reason : HeldIn(book, reason) \in Nat
  BY ContractFacts, HeldType
<1>2. CASE Parked(c) > 0
  <2> DEFINE s == Reserve(c, cycle, t)
  <2>0. s \in Held /\ Rest(s) = ReserveOf(Net(c))
    BY ReserveIsHeld
  <2>1. s \in Held /\ s.reason = "reserve" /\ Rest(s) = ReserveOf(Net(c))
    BY <2>0 DEF Reserve
  <2>2. Parking(book, c, cycle, t) = Append(book, s)
    BY <1>2 DEF Parking
  <2>3. ReserveOf(Net(c)) = Parked(c)
    BY <1>2 DEF Parked
  <2> HIDE DEF s
  <2>4. IsList(Append(book, s), Held)
    BY <2>1, HeldOfAppended
  <2>5. \A reason : HeldIn(Append(book, s), reason) = HeldIn(book, reason) + IF s.reason = reason THEN Rest(s) ELSE 0
    BY <2>1, HeldOfAppended
  <2>6. HeldIn(Append(book, s), "reserve") = HeldIn(book, "reserve") + Rest(s)
    BY <2>1, <2>5
  <2>7. HeldIn(Append(book, s), "recognition") = HeldIn(book, "recognition")
    BY <1>1, <2>1, <2>5
  <2> QED BY <2>1, <2>2, <2>3, <2>4, <2>6, <2>7
<1>3. CASE ~(Parked(c) > 0)
  <2>1. Parking(book, c, cycle, t) = book /\ Parked(c) = 0
    BY <1>1, <1>3 DEF Parking
  <2> QED BY <1>1, <2>1
<1> QED BY <1>2, <1>3

(* A prepaid net is held back for recognition.                             *)
LEMMA DeferringFacts ==
  ASSUME BillingAssumption, NEW c \in Contract, NEW cycle \in Nat, NEW t \in Nat, NEW book, IsList(book, Held)
  PROVE  /\ IsList(Deferring(book, c, cycle, t), Held)
         /\ HeldIn(Deferring(book, c, cycle, t), "reserve") = HeldIn(book, "reserve")
         /\ HeldIn(Deferring(book, c, cycle, t), "recognition")
              = HeldIn(book, "recognition") + IF Prepaid[c] THEN Net(c) ELSE 0
<1>1. \A reason : HeldIn(book, reason) \in Nat
  BY HeldType
<1>2. CASE Prepaid[c]
  <2> DEFINE s == Recognition(c, cycle, t)
  <2>0. s \in Held /\ Rest(s) = Net(c)
    BY ReserveIsHeld
  <2>1. s \in Held /\ s.reason = "recognition" /\ Rest(s) = Net(c)
    BY <2>0 DEF Recognition
  <2>2. Deferring(book, c, cycle, t) = Append(book, s)
    BY <1>2 DEF Deferring
  <2> HIDE DEF s
  <2>4. IsList(Append(book, s), Held)
    BY <2>1, HeldOfAppended
  <2>5. \A reason : HeldIn(Append(book, s), reason) = HeldIn(book, reason) + IF s.reason = reason THEN Rest(s) ELSE 0
    BY <2>1, HeldOfAppended
  <2>6. HeldIn(Append(book, s), "reserve") = HeldIn(book, "reserve")
    BY <1>1, <2>1, <2>5
  <2>7. HeldIn(Append(book, s), "recognition") = HeldIn(book, "recognition") + Rest(s)
    BY <2>1, <2>5
  <2> QED BY <1>2, <2>1, <2>2, <2>4, <2>6, <2>7
<1>3. CASE ~Prepaid[c]
  <2>1. Deferring(book, c, cycle, t) = book
    BY <1>3 DEF Deferring
  <2> QED BY <1>1, <1>3, <2>1
<1> QED BY <1>2, <1>3

(* An invoice that is paid moves its gross off the receivables, and its    *)
(* net into cash that is free or held.                                     *)
LEMMA CollectFacts ==
  ASSUME BillingAssumption, NEW c \in Contract, NEW w \in Works, NEW t \in Nat, NEW i \in DOMAIN w.invoices,
         IsOwed(w.invoices[i]), NEW v, v = Collect(w, i, c, t)
  PROVE  /\ v \in Works /\ SameGaps(v, w, c) /\ v.deal = w.deal
         /\ OnlyMarks(v.invoices, w.invoices, i) /\ v.invoices[i].state = "paid"
<1> DEFINE cycle == w.invoices[i].cycle
           book == Marked(w.invoices, i, "paid")
           parking == Parking(w.schedules, c, cycle, t)
           held == Deferring(parking, c, cycle, t)
           receivable == w.receivable - Gross[c]
           free == IF Prepaid[c] THEN w.free - Parked(c) ELSE w.free + Net(c) - Parked(c)
           deferred == IF Prepaid[c] THEN w.deferred + Net(c) ELSE w.deferred
           restricted == w.restricted + Parked(c)
           got == w.collected + Net(c)
<1>1. /\ IsList(w.invoices, Bill) /\ IsList(w.schedules, Held) /\ w.free \in Int /\ w.deferred \in Int
      /\ w.restricted \in Int /\ w.receivable \in Int /\ w.collected \in Nat /\ w.refunded \in Nat
  BY WorkFields
<1>2. /\ Gross[c] \in Nat /\ Net(c) \in Nat /\ Parked(c) \in Nat /\ Prepaid[c] \in BOOLEAN
  BY ContractFacts
<1>3. cycle \in Nat
  <2>1. w.invoices[i] \in Bill
    BY <1>1, ListFacts
  <2> QED BY <2>1 DEF Bill
<1>4. /\ IsList(book, Bill) /\ OnlyMarks(book, w.invoices, i) /\ book[i].state = "paid"
      /\ DOMAIN book = DOMAIN w.invoices
  <2>1. /\ IsList(book, Bill) /\ SameBills(book, w.invoices) /\ book[i].state = "paid"
        /\ \A k \in DOMAIN w.invoices : k # i => book[k] = w.invoices[k]
    <3>1. "paid" \in {"issued", "failed", "paid", "written-off"}
      OBVIOUS
    <3> QED BY <1>1, <3>1, BillSettled
  <2> QED BY <2>1 DEF OnlyMarks, SameBills
<1>5. OwedIn(book, c) = OwedIn(w.invoices, c) - Gross[c]
  <2> HIDE DEF book
  <2>1. OwedIn(book, c) = OwedIn(w.invoices, c) - Owing(w.invoices[i], c) + Owing(book[i], c)
    BY <1>1, <1>4, OwedUpdated DEF OnlyMarks
  <2>2. Owing(w.invoices[i], c) = Gross[c]
    BY DEF Owing
  <2>3. Owing(book[i], c) = 0
    BY <1>4 DEF Owing, IsOwed
  <2>4. OwedIn(w.invoices, c) \in Nat
    BY <1>1, OwedType
  <2> QED BY <1>2, <2>1, <2>2, <2>3, <2>4
<1>6. /\ IsList(held, Held)
      /\ HeldIn(held, "reserve") = HeldIn(w.schedules, "reserve") + Parked(c)
      /\ HeldIn(held, "recognition") = HeldIn(w.schedules, "recognition") + IF Prepaid[c] THEN Net(c) ELSE 0
  <2> HIDE DEF cycle
  <2>1. /\ IsList(parking, Held)
        /\ HeldIn(parking, "reserve") = HeldIn(w.schedules, "reserve") + Parked(c)
        /\ HeldIn(parking, "recognition") = HeldIn(w.schedules, "recognition")
    BY <1>1, <1>3, ParkingFacts
  <2> HIDE DEF parking
  <2>2. /\ IsList(held, Held)
        /\ HeldIn(held, "reserve") = HeldIn(parking, "reserve")
        /\ HeldIn(held, "recognition") = HeldIn(parking, "recognition") + IF Prepaid[c] THEN Net(c) ELSE 0
    <3> HIDE DEF held
    <3>1. held = Deferring(parking, c, cycle, t)
      BY DEF held
    <3> QED BY <1>3, <2>1, <3>1, DeferringFacts
  <2> HIDE DEF held
  <2> QED BY <2>1, <2>2
<1>7. v = [w EXCEPT !.invoices = book, !.receivable = receivable, !.free = free, !.deferred = deferred,
                    !.restricted = restricted, !.schedules = held, !.collected = got]
  BY DEF Collect
<1> HIDE DEF book, held
<1>8. receivable \in Int /\ free \in Int /\ deferred \in Int /\ restricted \in Int /\ got \in Nat
  BY <1>1, <1>2
<1> HIDE DEF receivable, free, deferred, restricted, got
<1>9. /\ v \in Works /\ v.deal = w.deal /\ v.invoices = book /\ v.schedules = held
      /\ v.free = free /\ v.restricted = restricted /\ v.deferred = deferred
      /\ v.receivable = receivable /\ v.backlog = w.backlog
      /\ v.collected = got /\ v.refunded = w.refunded
  <2>1. book \in Seq(Bill) /\ held \in Seq(Held)
    BY <1>4, <1>6 DEF IsList
  <2> QED BY <1>7, <1>8, <2>1 DEF Works
<1>10. SameGaps(v, w, c)
  <2>1. OwedIn(w.invoices, c) \in Nat /\ \A reason : HeldIn(w.schedules, reason) \in Nat
    BY <1>1, OwedType, HeldType
  <2>2. receivable - OwedIn(book, c) = w.receivable - OwedIn(w.invoices, c)
    BY <1>1, <1>2, <1>5, <2>1 DEF receivable
  <2>3. restricted - HeldIn(held, "reserve") = w.restricted - HeldIn(w.schedules, "reserve")
    BY <1>1, <1>2, <1>6, <2>1 DEF restricted
  <2>4. deferred - HeldIn(held, "recognition") = w.deferred - HeldIn(w.schedules, "recognition")
    BY <1>1, <1>2, <1>6, <2>1 DEF deferred
  <2>5. free + restricted + deferred - got + w.refunded
          = w.free + w.restricted + w.deferred - w.collected + w.refunded
    BY <1>1, <1>2 DEF free, restricted, deferred, got
  <2>6. w.backlog - Pledged(w.deal) = w.backlog - Pledged(w.deal)
    OBVIOUS
  <2> QED BY <1>9, <2>2, <2>3, <2>4, <2>5, <2>6 DEF SameGaps
<1> QED BY <1>4, <1>9, <1>10

(* Two marks on one invoice are one mark.                                  *)
LEMMA MarksCompose ==
  ASSUME NEW a, NEW b, NEW d, NEW i, OnlyMarks(a, b, i), OnlyMarks(b, d, i)
  PROVE  OnlyMarks(a, d, i)
  BY DEF OnlyMarks, SameBills

(* Two steps that open no gap open none together.                          *)
LEMMA GapsCompose ==
  ASSUME NEW a, NEW b, NEW d, NEW c, SameGaps(a, b, c), SameGaps(b, d, c)
  PROVE  SameGaps(a, d, c)
  BY DEF SameGaps

(* An invoice that moves between issued and failed, or up the ladder, is   *)
(* owed as before.                                                         *)
LEMMA ClimbedFacts ==
  ASSUME BillingAssumption, NEW c \in Contract, NEW w \in Works, NEW i \in DOMAIN w.invoices, NEW stage \in Stage,
         NEW v, v = Climbed(w, i, stage)
  PROVE  /\ v \in Works /\ SameGaps(v, w, c) /\ v.deal = w.deal /\ v.schedules = w.schedules
         /\ OnlyMarks(v.invoices, w.invoices, i)
         /\ v.invoices[i].stage = stage /\ v.invoices[i].state = w.invoices[i].state
<1> DEFINE book == Staged(w.invoices, i, stage)
<1>1. IsList(w.invoices, Bill)
  BY WorkFields
<1>2. /\ IsList(book, Bill) /\ SameBills(book, w.invoices)
      /\ book[i].stage = stage /\ book[i].state = w.invoices[i].state
      /\ \A k \in DOMAIN w.invoices : k # i => book[k] = w.invoices[k]
  BY <1>1, BillStaged
<1> HIDE DEF book
<1>3. OwedIn(book, c) = OwedIn(w.invoices, c)
  <2>1. DOMAIN book = DOMAIN w.invoices
    BY <1>2 DEF SameBills
  <2>2. OwedIn(book, c) = OwedIn(w.invoices, c) - Owing(w.invoices[i], c) + Owing(book[i], c)
    BY <1>1, <1>2, <2>1, OwedUpdated
  <2>3. Owing(book[i], c) = Owing(w.invoices[i], c) /\ Owing(book[i], c) \in Nat
    <3>1. Gross[c] \in Nat
      BY ContractFacts
    <3> QED BY <1>2, <3>1 DEF Owing, IsOwed
  <2>4. OwedIn(w.invoices, c) \in Nat
    BY <1>1, OwedType
  <2> QED BY <2>2, <2>3, <2>4
<1>4. v = [w EXCEPT !.invoices = book]
  BY DEF book, Climbed
<1>5. v \in Works /\ SameGaps(v, w, c) /\ v.deal = w.deal /\ v.invoices = book /\ v.schedules = w.schedules
  <2>1. IsList(book, Bill)
    BY <1>2
  <2> QED BY <2>1, <1>3, <1>4, BookMarked
<1> QED BY <1>2, <1>5 DEF OnlyMarks

(* A declined invoice is still owed.                                       *)
LEMMA DeclinedFacts ==
  ASSUME BillingAssumption, NEW c \in Contract, NEW w \in Works, NEW i \in DOMAIN w.invoices,
         w.invoices[i].state = "issued", NEW v, v = Declined(w, i)
  PROVE  /\ v \in Works /\ SameGaps(v, w, c) /\ v.deal = w.deal /\ v.schedules = w.schedules
         /\ OnlyMarks(v.invoices, w.invoices, i)
         /\ v.invoices[i].stage = "failed" /\ v.invoices[i].state = "failed"
<1> DEFINE failed == Marked(w.invoices, i, "failed")
           book == Staged(failed, i, "failed")
<1>1. IsList(w.invoices, Bill)
  BY WorkFields
<1>2. /\ IsList(failed, Bill) /\ SameBills(failed, w.invoices) /\ failed[i].state = "failed"
      /\ \A k \in DOMAIN w.invoices : k # i => failed[k] = w.invoices[k]
  <2>1. "failed" \in {"issued", "failed", "paid", "written-off"}
    OBVIOUS
  <2> QED BY <1>1, <2>1, BillSettled
<1>3. OnlyMarks(failed, w.invoices, i) /\ i \in DOMAIN failed
  BY <1>2 DEF OnlyMarks, SameBills
<1>4. /\ IsList(book, Bill) /\ SameBills(book, failed) /\ book[i].stage = "failed"
      /\ book[i].state = failed[i].state /\ \A k \in DOMAIN failed : k # i => book[k] = failed[k]
  <2>1. "failed" \in Stage
    BY DEF Stage
  <2> HIDE DEF failed
  <2> QED BY <1>2, <1>3, <2>1, BillStaged
<1>5. OnlyMarks(book, w.invoices, i) /\ book[i].state = "failed"
  <2>1. OnlyMarks(book, failed, i)
    BY <1>4 DEF OnlyMarks
  <2> HIDE DEF failed, book
  <2> QED BY <1>2, <1>3, <1>4, <2>1, MarksCompose
<1>6. v = [w EXCEPT !.invoices = book]
  BY DEF Declined
<1> HIDE DEF book, failed
<1>7. OwedIn(book, c) = OwedIn(w.invoices, c)
  <2>1. /\ DOMAIN book = DOMAIN w.invoices
        /\ \A k \in DOMAIN w.invoices : k # i => book[k] = w.invoices[k]
    BY <1>5 DEF OnlyMarks, SameBills
  <2>2. OwedIn(book, c) = OwedIn(w.invoices, c) - Owing(w.invoices[i], c) + Owing(book[i], c)
    BY <1>1, <1>4, <2>1, OwedUpdated
  <2>3. Owing(book[i], c) = Owing(w.invoices[i], c) /\ Owing(book[i], c) \in Nat
    <3>1. Gross[c] \in Nat
      BY ContractFacts
    <3> QED BY <1>5, <3>1 DEF Owing, IsOwed
  <2>4. OwedIn(w.invoices, c) \in Nat
    BY <1>1, OwedType
  <2> QED BY <2>2, <2>3, <2>4
<1>8. v \in Works /\ SameGaps(v, w, c) /\ v.deal = w.deal /\ v.invoices = book /\ v.schedules = w.schedules
  <2>1. IsList(book, Bill)
    BY <1>4
  <2> QED BY <2>1, <1>6, <1>7, BookMarked
<1> QED BY <1>4, <1>5, <1>8

(* A write-off takes the gross off the receivables and ends the contract.  *)
LEMMA WithoutDebtFacts ==
  ASSUME BillingAssumption, NEW c \in Contract, NEW w \in Works, NEW i \in DOMAIN w.invoices,
         IsOwed(w.invoices[i]), NEW v, v = WithoutDebt(w, i, c)
  PROVE  /\ v \in Works /\ SameGaps(v, w, c) /\ v.deal = w.deal
         /\ OnlyMarks(v.invoices, w.invoices, i) /\ v.invoices[i].state = "written-off"
<1> DEFINE book == Marked(w.invoices, i, "written-off")
           receivable == w.receivable - Gross[c]
<1>1. IsList(w.invoices, Bill) /\ w.receivable \in Int /\ Gross[c] \in Nat
  BY WorkFields, ContractFacts
<1>2. /\ IsList(book, Bill) /\ SameBills(book, w.invoices) /\ book[i].state = "written-off"
      /\ \A k \in DOMAIN w.invoices : k # i => book[k] = w.invoices[k]
  <2>1. "written-off" \in {"issued", "failed", "paid", "written-off"}
    OBVIOUS
  <2> QED BY <1>1, <2>1, BillSettled
<1>3. v = [w EXCEPT !.invoices = book, !.receivable = receivable]
  BY DEF WithoutDebt
<1> HIDE DEF book
<1>4. OnlyMarks(book, w.invoices, i) /\ DOMAIN book = DOMAIN w.invoices
  BY <1>2 DEF OnlyMarks, SameBills
<1>5. receivable - OwedIn(book, c) = w.receivable - OwedIn(w.invoices, c) /\ receivable \in Int
  <2>1. OwedIn(book, c) = OwedIn(w.invoices, c) - Owing(w.invoices[i], c) + Owing(book[i], c)
    BY <1>1, <1>2, <1>4, OwedUpdated
  <2>2. Owing(w.invoices[i], c) = Gross[c]
    BY DEF Owing
  <2>3. Owing(book[i], c) = 0
    BY <1>2 DEF Owing, IsOwed
  <2>4. OwedIn(w.invoices, c) \in Nat
    BY <1>1, OwedType
  <2> QED BY <1>1, <2>1, <2>2, <2>3, <2>4
<1> HIDE DEF receivable
<1>6. v \in Works /\ SameGaps(v, w, c) /\ v.deal = w.deal /\ v.invoices = book
  <2>1. book \in Seq(Bill)
    BY <1>2 DEF IsList
  <2>2. /\ v \in Works /\ v.deal = w.deal /\ v.invoices = book /\ v.schedules = w.schedules
        /\ v.free = w.free /\ v.restricted = w.restricted /\ v.deferred = w.deferred
        /\ v.receivable = receivable /\ v.backlog = w.backlog
        /\ v.collected = w.collected /\ v.refunded = w.refunded
    BY <1>3, <1>5, <2>1 DEF Works
  <2> QED BY <1>5, <2>2 DEF SameGaps
<1> QED BY <1>2, <1>4, <1>6

(* A write-off posts the debt it drops and what the contract's end takes.  *)
LEMMA WrittenOffFacts ==
  ASSUME BillingAssumption, NEW c \in Contract, NEW w \in Works, NEW t \in Nat, NEW i \in DOMAIN w.invoices,
         IsOwed(w.invoices[i]), Entered(w.deal), NEW v, v = WrittenOff(w, i, c, t)
  PROVE  /\ v \in Works /\ SameGaps(v, w, c) /\ v.deal.phase = "terminated" /\ Ended(v)
         /\ SameTerm(v.deal, w.deal)
         /\ OnlyMarks(v.invoices, w.invoices, i) /\ v.invoices[i].state = "written-off"
<1> DEFINE off == WithoutDebt(w, i, c)
<1>1. /\ off \in Works /\ SameGaps(off, w, c) /\ off.deal = w.deal
      /\ OnlyMarks(off.invoices, w.invoices, i) /\ off.invoices[i].state = "written-off"
  BY WithoutDebtFacts
<1>2. v = Terminated(off, t)
  BY DEF WrittenOff
<1> HIDE DEF off
<1>3. off \in Works /\ Entered(off.deal)
  BY <1>1
<1>4. /\ v \in Works /\ SameGaps(v, off, c) /\ v.invoices = off.invoices
      /\ v.deal.phase = "terminated" /\ Ended(v) /\ SameTerm(v.deal, off.deal)
  BY <1>2, <1>3, TerminatedFacts
<1>5. SameGaps(v, w, c)
  BY <1>1, <1>4, GapsCompose
<1> QED BY <1>1, <1>4, <1>5

(* A contract that changes its phase, and nothing else.                    *)
LEMMA TurnedFacts ==
  ASSUME NEW c, NEW w \in Works, NEW from, NEW to \in {"active", "suspended"}, NEW v, v = Turned(w, from, to)
  PROVE  /\ v \in Works /\ SameGaps(v, w, c) /\ v.invoices = w.invoices /\ v.schedules = w.schedules
         /\ SameTerm(v.deal, w.deal) /\ v.deal.backlog = w.deal.backlog
         /\ v.deal.phase = IF w.deal.phase = from THEN to ELSE w.deal.phase
<1>1. w.deal \in Deal
  BY WorkFields
<1>2. CASE w.deal.phase = from
  <2> DEFINE deal == [w.deal EXCEPT !.phase = to]
  <2>1. /\ deal \in Deal /\ deal.phase = to /\ deal.backlog = w.deal.backlog /\ SameTerm(deal, w.deal)
    BY <1>1 DEF Deal, SameTerm
  <2>2. v = [w EXCEPT !.deal = deal]
    BY <1>2 DEF Turned
  <2> HIDE DEF deal
  <2>3. Pledged(deal) = Pledged(w.deal)
    BY <2>1 DEF Pledged, SameTerm
  <2> QED BY <1>2, <2>1, <2>2, <2>3, DealChanged
<1>3. CASE w.deal.phase # from
  <2>1. v = w
    BY <1>3 DEF Turned
  <2> QED BY <1>3, <2>1 DEF SameGaps, SameTerm
<1> QED BY <1>2, <1>3

(* Turning a service off changes the phase alone.                          *)
LEMMA TurnedOff ==
  ASSUME NEW c, NEW w \in Works
  PROVE  LET v == Turned(w, "active", "suspended") IN
         /\ v \in Works /\ SameGaps(v, w, c) /\ v.invoices = w.invoices
         /\ SameTerm(v.deal, w.deal) /\ v.deal.backlog = w.deal.backlog
         /\ v.deal.phase = IF w.deal.phase = "active" THEN "suspended" ELSE w.deal.phase
<1> DEFINE v == Turned(w, "active", "suspended")
<1>1. "suspended" \in {"active", "suspended"}
  OBVIOUS
<1> QED BY <1>1, TurnedFacts

(* Turning it on again as well.                                            *)
LEMMA TurnedOn ==
  ASSUME NEW c, NEW w \in Works
  PROVE  LET v == Turned(w, "suspended", "active") IN
         /\ v \in Works /\ SameGaps(v, w, c) /\ v.invoices = w.invoices
         /\ SameTerm(v.deal, w.deal) /\ v.deal.backlog = w.deal.backlog
         /\ v.deal.phase = IF w.deal.phase = "suspended" THEN "active" ELSE w.deal.phase
<1> DEFINE v == Turned(w, "suspended", "active")
<1>1. "active" \in {"active", "suspended"}
  OBVIOUS
<1> QED BY <1>1, TurnedFacts

(* The stage of a day.                                                     *)
LEMMA StageFacts ==
  ASSUME BillingAssumption, NEW p \in Int
  PROVE  /\ StageFor(p) \in Stage
         /\ p >= StageOpens[4] => StageFor(p) \in {"suspend", "terminate"}
         /\ StageFor(p) = "suspend" => p >= StageOpens[4]
<1>1. /\ StageOpens[1] \in Nat /\ StageOpens[2] \in Nat /\ StageOpens[3] \in Nat
      /\ StageOpens[4] \in Nat /\ StageOpens[5] \in Nat
      /\ StageOpens[1] <= StageOpens[2] /\ StageOpens[2] <= StageOpens[3]
      /\ StageOpens[3] <= StageOpens[4] /\ StageOpens[4] <= StageOpens[5]
  <2>1. StageOpens \in [1..5 -> Nat] /\ \A i \in 1..4 : StageOpens[i] <= StageOpens[i + 1]
    BY DEF BillingAssumption
  <2>2. /\ 1 \in 1..4 /\ 2 \in 1..4 /\ 3 \in 1..4 /\ 4 \in 1..4
        /\ 1 + 1 = 2 /\ 2 + 1 = 3 /\ 3 + 1 = 4 /\ 4 + 1 = 5
    OBVIOUS
  <2>3. StageOpens[1] <= StageOpens[2] /\ StageOpens[2] <= StageOpens[3]
    BY <2>1, <2>2
  <2>4. StageOpens[3] <= StageOpens[4] /\ StageOpens[4] <= StageOpens[5]
    BY <2>1, <2>2
  <2> QED BY <2>1, <2>3, <2>4
<1>2. CASE p >= StageOpens[5]
  BY <1>1, <1>2 DEF StageFor, Stage
<1>3. CASE p < StageOpens[5] /\ p >= StageOpens[4]
  BY <1>1, <1>3 DEF StageFor, Stage
<1>4. CASE p < StageOpens[4] /\ p >= StageOpens[3]
  BY <1>1, <1>4 DEF StageFor, Stage
<1>5. CASE p < StageOpens[3] /\ p >= StageOpens[2]
  BY <1>1, <1>5 DEF StageFor, Stage
<1>6. CASE p < StageOpens[2] /\ p >= StageOpens[1]
  BY <1>1, <1>6 DEF StageFor, Stage
<1>7. CASE p < StageOpens[1]
  BY <1>1, <1>7 DEF StageFor, Stage
<1> QED BY <1>1, <1>2, <1>3, <1>4, <1>5, <1>6, <1>7

(* The invoice a visit acts on.                                            *)
LEMMA LeastChosen ==
  ASSUME NEW S \in SUBSET Nat, S # {}
  PROVE  Min(S) \in S /\ \A x \in S : Min(S) <= x
<1>1. \E k \in S : \A x \in S : k <= x
  BY LeastNatural
<1> QED BY <1>1 DEF Min

(* The first twin of an invoice has no earlier one; an invoice that has no *)
(* earlier one is its own first twin.                                      *)
LEMMA FirstTwinFacts ==
  ASSUME NEW book, IsList(book, Bill), NEW slot \in DOMAIN book
  PROVE  /\ FirstTwin(book, slot) \in DOMAIN book
         /\ IsFirst(book, slot) => FirstTwin(book, slot) = slot
         /\ FirstTwin(book, slot) <= slot /\ IsFirst(book, FirstTwin(book, slot))
         /\ book[FirstTwin(book, slot)].cycle = book[slot].cycle
<1>1. Len(book) \in Nat /\ DOMAIN book = 1..Len(book)
  BY ListSlots
<1> DEFINE S == Twins(book, slot)
<1>2. S \subseteq DOMAIN book /\ slot \in S /\ \A k \in S : book[k].cycle = book[slot].cycle
  BY DEF Twins
<1>3. S \in SUBSET Nat /\ S # {}
  BY <1>1, <1>2
<1> HIDE DEF S
<1>4. Min(S) \in S /\ \A x \in S : Min(S) <= x
  BY <1>3, LeastChosen
<1>5. FirstTwin(book, slot) = Min(S)
  BY DEF FirstTwin, S
<1>6. ASSUME IsFirst(book, slot) PROVE Min(S) = slot
  <2>1. Min(S) <= slot /\ Min(S) \in Nat /\ slot \in Nat /\ Min(S) \in 1..Len(book)
    BY <1>1, <1>2, <1>3, <1>4
  <2>2. ~(Min(S) < slot)
    <3> SUFFICES ASSUME Min(S) < slot PROVE FALSE
      OBVIOUS
    <3>1. Min(S) \in 1..slot - 1
      BY <1>1, <2>1
    <3>2. book[Min(S)].cycle # book[slot].cycle
      BY <1>6, <3>1 DEF IsFirst
    <3> QED BY <1>2, <1>4, <3>2
  <2> QED BY <2>1, <2>2
<1>7. IsFirst(book, Min(S))
  <2> SUFFICES ASSUME NEW k \in 1..Min(S) - 1, book[k].cycle = book[Min(S)].cycle PROVE FALSE
    BY DEF IsFirst
  <2>1. Min(S) \in 1..Len(book)
    BY <1>1, <1>2, <1>4
  <2>2. k \in 1..Len(book) /\ k \in Nat /\ Min(S) \in Nat /\ k < Min(S)
    BY <1>1, <2>1
  <2>3. k \in S
    BY <1>1, <1>2, <1>4, <2>2 DEF S, Twins
  <2> QED BY <1>4, <2>2, <2>3
<1> QED BY <1>2, <1>4, <1>5, <1>6, <1>7

(* Marks do not change who is the first twin.                              *)
LEMMA TwinsStay ==
  ASSUME NEW book, NEW after, SameBills(after, book), NEW slot \in DOMAIN book
  PROVE  FirstTwin(after, slot) = FirstTwin(book, slot)
<1>1. Twins(after, slot) = Twins(book, slot)
  BY DEF Twins, SameBills
<1> QED BY <1>1 DEF FirstTwin

(* What holds of a work from its signing to the end of the tick: backlog   *)
(* is in the book, what ended has nothing left, what is dark has an        *)
(* invoice at the stage that turned it off, and such an invoice is late    *)
(* enough to stay there or to go further.                                  *)
Dark(bill) == bill.state = "failed" /\ bill.stage = "suspend"
DarkIsLate(book, t) == \A i \in DOMAIN book : Dark(book[i]) => t - book[i].due >= StageOpens[4]
Upheld(w, t) ==
  /\ Entered(w.deal)
  /\ w.deal.phase = "terminated" => Ended(w)
  /\ w.deal.phase = "suspended" => \E i \in DOMAIN w.invoices : Dark(w.invoices[i])
  /\ DarkIsLate(w.invoices, t)

(* An invoice was answered, or need not be; and a failed one stands at the *)
(* stage of its day.                                                       *)
Answered(bill, t) ==
  /\ bill.state # "issued"
  /\ bill.state = "failed" => bill.stage \in {"failed", StageFor(t - bill.due)}
OnPace(w, i, t) ==
  w.deal.phase = "terminated" \/ w.invoices[i].due > t \/ Answered(w.invoices[i], t)
AtStage(bill, t) ==
  bill.state # "issued" /\ (bill.state = "failed" => bill.stage = StageFor(t - bill.due))
OnStage(w, i, t) == w.deal.phase = "terminated" \/ AtStage(w.invoices[i], t)

(* A mark on one invoice upholds the account if the phase goes with it.    *)
LEMMA UpheldAfter ==
  ASSUME NEW w, NEW t, Upheld(w, t), NEW v, NEW i \in DOMAIN w.invoices, OnlyMarks(v.invoices, w.invoices, i),
         Entered(v.deal), v.deal.phase = "terminated" => Ended(v),
         v.deal.phase = "suspended"
           => Dark(v.invoices[i]) \/ (w.deal.phase = "suspended" /\ ~Dark(w.invoices[i])),
         Dark(v.invoices[i]) => t - w.invoices[i].due >= StageOpens[4]
  PROVE  Upheld(v, t)
<1>1. /\ DOMAIN v.invoices = DOMAIN w.invoices /\ v.invoices[i].due = w.invoices[i].due
      /\ \A k \in DOMAIN w.invoices : k # i => v.invoices[k] = w.invoices[k]
  BY DEF OnlyMarks, SameBills
<1>2. DarkIsLate(v.invoices, t)
  <2> SUFFICES ASSUME NEW k \in DOMAIN v.invoices, Dark(v.invoices[k])
               PROVE  t - v.invoices[k].due >= StageOpens[4]
    BY DEF DarkIsLate
  <2>1. CASE k = i
    BY <1>1, <2>1
  <2>2. CASE k # i
    <3>1. k \in DOMAIN w.invoices /\ v.invoices[k] = w.invoices[k]
      BY <1>1, <2>2
    <3> QED BY <3>1 DEF Upheld, DarkIsLate
  <2> QED BY <2>1, <2>2
<1>3. ASSUME v.deal.phase = "suspended" PROVE \E k \in DOMAIN v.invoices : Dark(v.invoices[k])
  <2>1. CASE Dark(v.invoices[i])
    BY <1>1, <2>1
  <2>2. CASE ~Dark(v.invoices[i])
    <3>1. w.deal.phase = "suspended" /\ ~Dark(w.invoices[i])
      BY <1>3, <2>2
    <3>2. PICK k \in DOMAIN w.invoices : Dark(w.invoices[k])
      BY <3>1 DEF Upheld
    <3>3. k # i
      BY <3>1, <3>2
    <3> QED BY <1>1, <3>2, <3>3
  <2> QED BY <2>1, <2>2
<1> QED BY <1>2, <1>3 DEF Upheld

(* What a visit does: the account is upheld, and its invoice is on pace.   *)
VisitEffect(v, w, i, c, t) ==
  /\ v \in Works /\ SameGaps(v, w, c) /\ SameTerm(v.deal, w.deal)
  /\ OnlyMarks(v.invoices, w.invoices, i)
  /\ Upheld(v, t) /\ OnPace(v, i, t)
  /\ w.invoices[i].state # "issued" => v.invoices[i].state # "issued" /\ OnStage(v, i, t)
  /\ w.deal.phase = "terminated" => v.deal.phase = "terminated"
  /\ v.deal.phase = "pending" => w.deal.phase = "pending"

(* A visit that finds nothing to do.                                       *)
LEMMA NothingVisited ==
  ASSUME NEW c, NEW w \in Works, NEW t, Upheld(w, t), NEW i \in DOMAIN w.invoices, OnPace(w, i, t),
         w.invoices[i].state # "issued" => OnStage(w, i, t)
  PROVE  VisitEffect(w, w, i, c, t)
  BY DEF VisitEffect, SameGaps, SameTerm, OnlyMarks, SameBills

(* A deal that keeps term and backlog stays entered.                       *)
LEMMA SameTermEntered ==
  ASSUME NEW d, NEW e, SameTerm(d, e), d.backlog = e.backlog, Entered(e)
  PROVE  Entered(d)
  BY DEF SameTerm, Entered

(* An invoice that is paid is never late again.                            *)
LEMMA CollectEffect ==
  ASSUME BillingAssumption, NEW c \in Contract, NEW w \in Works, NEW t \in Nat, Upheld(w, t),
         w.deal.phase # "terminated", NEW i \in DOMAIN w.invoices, w.invoices[i].state = "issued"
  PROVE  VisitEffect(Collect(w, i, c, t), w, i, c, t)
<1> DEFINE v == Collect(w, i, c, t)
<1>1. IsOwed(w.invoices[i]) /\ ~Dark(w.invoices[i])
  BY DEF IsOwed, Dark
<1>2. /\ v \in Works /\ SameGaps(v, w, c) /\ v.deal = w.deal
      /\ OnlyMarks(v.invoices, w.invoices, i) /\ v.invoices[i].state = "paid"
  BY <1>1, CollectFacts
<1> HIDE DEF v
<1>3. ~Dark(v.invoices[i]) /\ Answered(v.invoices[i], t)
  BY <1>2 DEF Dark, Answered
<1>4. Entered(v.deal)
  BY <1>2 DEF Upheld
<1>5. Upheld(v, t)
  BY <1>1, <1>2, <1>3, <1>4, UpheldAfter
<1>6. SameTerm(v.deal, w.deal)
  BY <1>2 DEF SameTerm
<1> QED BY <1>2, <1>3, <1>5, <1>6 DEF VisitEffect, OnPace, v

(* A visit to an invoice that is declined.                                 *)
LEMMA DeclinedEffect ==
  ASSUME BillingAssumption, NEW c \in Contract, NEW w \in Works, NEW t \in Nat, Upheld(w, t),
         w.deal.phase # "terminated", NEW i \in DOMAIN w.invoices, w.invoices[i].state = "issued"
  PROVE  VisitEffect(Declined(w, i), w, i, c, t)
<1> DEFINE v == Declined(w, i)
<1>1. ~Dark(w.invoices[i])
  BY DEF Dark
<1>2. /\ v \in Works /\ SameGaps(v, w, c) /\ v.deal = w.deal
      /\ OnlyMarks(v.invoices, w.invoices, i)
      /\ v.invoices[i].stage = "failed" /\ v.invoices[i].state = "failed"
  BY DeclinedFacts
<1> HIDE DEF v
<1>3. ~Dark(v.invoices[i]) /\ Answered(v.invoices[i], t)
  BY <1>2 DEF Dark, Answered
<1>4. Entered(v.deal)
  BY <1>2 DEF Upheld
<1>5. Upheld(v, t)
  BY <1>1, <1>2, <1>3, <1>4, UpheldAfter
<1>6. SameTerm(v.deal, w.deal)
  BY <1>2 DEF SameTerm
<1> QED BY <1>2, <1>3, <1>5, <1>6 DEF VisitEffect, OnPace, v

(* The ladder: what recovers is paid and turned on again, what goes to the *)
(* end is written off, and what stops at a stage stands at the stage of    *)
(* its day.                                                                *)
LEMMA RecoveredEffect ==
  ASSUME BillingAssumption, NEW c \in Contract, NEW w \in Works, NEW t \in Nat, Upheld(w, t),
         w.deal.phase # "terminated", NEW i \in DOMAIN w.invoices, w.invoices[i].state = "failed",
         NEW stage \in Stage
  PROVE  VisitEffect(Recovered(Climbed(w, i, stage), i, c, t), w, i, c, t)
<1> DEFINE x == Climbed(w, i, stage)
           y == Collect(x, i, c, t)
           v == Turned(y, "suspended", "active")
<1>1. /\ x \in Works /\ SameGaps(x, w, c) /\ x.deal = w.deal
      /\ OnlyMarks(x.invoices, w.invoices, i) /\ x.invoices[i].state = "failed"
  BY ClimbedFacts
<1>2. v = Recovered(x, i, c, t)
  BY DEF Recovered
<1> HIDE DEF x
<1>3. i \in DOMAIN x.invoices /\ IsOwed(x.invoices[i])
  BY <1>1 DEF OnlyMarks, SameBills, IsOwed
<1>4. /\ y \in Works /\ SameGaps(y, x, c) /\ y.deal = x.deal
      /\ OnlyMarks(y.invoices, x.invoices, i) /\ y.invoices[i].state = "paid"
  BY <1>1, <1>3, CollectFacts
<1> HIDE DEF y
<1>5. /\ v \in Works /\ SameGaps(v, y, c) /\ v.invoices = y.invoices /\ SameTerm(v.deal, y.deal)
      /\ v.deal.backlog = y.deal.backlog
      /\ v.deal.phase = IF y.deal.phase = "suspended" THEN "active" ELSE y.deal.phase
  BY <1>4, TurnedOn
<1> HIDE DEF v
<1>6. SameGaps(v, w, c)
  <2>1. SameGaps(y, w, c)
    BY <1>1, <1>4, GapsCompose
  <2> QED BY <1>5, <2>1, GapsCompose
<1>7. OnlyMarks(v.invoices, w.invoices, i) /\ v.invoices[i].state = "paid"
  <2>1. OnlyMarks(y.invoices, w.invoices, i)
    BY <1>1, <1>4, MarksCompose
  <2> QED BY <1>4, <1>5, <2>1
<1>8. /\ v.deal.phase # "suspended" /\ v.deal.phase # "terminated"
      /\ v.deal.phase = "pending" => w.deal.phase = "pending"
      /\ SameTerm(v.deal, w.deal) /\ v.deal.backlog = w.deal.backlog
  BY <1>1, <1>4, <1>5
<1>9. Entered(v.deal)
  BY <1>8, SameTermEntered DEF Upheld
<1>10. ~Dark(v.invoices[i]) /\ Answered(v.invoices[i], t) /\ AtStage(v.invoices[i], t)
  BY <1>7 DEF Dark, Answered, AtStage
<1>11. Upheld(v, t)
  BY <1>7, <1>8, <1>9, <1>10, UpheldAfter
<1>12. VisitEffect(v, w, i, c, t)
  BY <1>5, <1>6, <1>7, <1>8, <1>10, <1>11 DEF VisitEffect, OnPace, OnStage
<1> QED BY <1>2, <1>12 DEF x

(* A visit that ends in a write-off.                                       *)
LEMMA WrittenOffEffect ==
  ASSUME BillingAssumption, NEW c \in Contract, NEW w \in Works, NEW t \in Nat, Upheld(w, t),
         w.deal.phase # "terminated", NEW i \in DOMAIN w.invoices, w.invoices[i].state = "failed",
         NEW stage \in Stage
  PROVE  VisitEffect(WrittenOff(Climbed(w, i, stage), i, c, t), w, i, c, t)
<1> DEFINE x == Climbed(w, i, stage)
           v == WrittenOff(x, i, c, t)
<1>1. /\ x \in Works /\ SameGaps(x, w, c) /\ x.deal = w.deal
      /\ OnlyMarks(x.invoices, w.invoices, i) /\ x.invoices[i].state = "failed"
  BY ClimbedFacts
<1> HIDE DEF x
<1>2. i \in DOMAIN x.invoices /\ IsOwed(x.invoices[i]) /\ Entered(x.deal)
  BY <1>1 DEF OnlyMarks, SameBills, IsOwed, Upheld
<1>3. /\ v \in Works /\ SameGaps(v, x, c) /\ v.deal.phase = "terminated" /\ Ended(v)
      /\ SameTerm(v.deal, x.deal)
      /\ OnlyMarks(v.invoices, x.invoices, i) /\ v.invoices[i].state = "written-off"
  BY <1>1, <1>2, WrittenOffFacts
<1> HIDE DEF v
<1>4. SameGaps(v, w, c) /\ OnlyMarks(v.invoices, w.invoices, i) /\ SameTerm(v.deal, w.deal)
  <2>1. SameGaps(v, w, c)
    BY <1>1, <1>3, GapsCompose
  <2>2. OnlyMarks(v.invoices, w.invoices, i)
    BY <1>1, <1>3, MarksCompose
  <2> QED BY <1>1, <1>3, <2>1, <2>2
<1>5. ~Dark(v.invoices[i]) /\ Entered(v.deal)
  BY <1>3 DEF Dark, Ended, Entered
<1>6. Upheld(v, t)
  <2>1. v.deal.phase # "suspended"
    BY <1>3
  <2> QED BY <1>3, <1>4, <1>5, <2>1, UpheldAfter
<1>7. VisitEffect(v, w, i, c, t)
  BY <1>3, <1>4, <1>6 DEF VisitEffect, OnPace, OnStage
<1> QED BY <1>7 DEF v, x

(* A visit that climbs the ladder, to a suspension or below it.            *)
LEMMA SteppedEffect ==
  ASSUME BillingAssumption, NEW c \in Contract, NEW w \in Works, NEW t \in Nat, Upheld(w, t),
         w.deal.phase # "terminated", NEW i \in DOMAIN w.invoices, w.invoices[i].state = "failed",
         NEW stage, stage = StageFor(t - w.invoices[i].due), stage # "terminate"
  PROVE  VisitEffect(IF stage = "suspend" THEN Turned(Climbed(w, i, stage), "active", "suspended")
                     ELSE Climbed(w, i, stage), w, i, c, t)
<1> DEFINE x == Climbed(w, i, stage)
           y == Turned(x, "active", "suspended")
           late == t - w.invoices[i].due
<1>0. late \in Int
  <2>1. w.invoices[i] \in Bill
    BY WorkFields, ListFacts
  <2> QED BY <2>1 DEF Bill
<1>1. /\ stage \in Stage
      /\ late >= StageOpens[4] => stage \in {"suspend", "terminate"}
      /\ stage = "suspend" => late >= StageOpens[4]
  <2> HIDE DEF late
  <2>1. stage = StageFor(late)
    BY DEF late
  <2> QED BY <1>0, <2>1, StageFacts
<1>2. /\ x \in Works /\ SameGaps(x, w, c) /\ x.deal = w.deal
      /\ OnlyMarks(x.invoices, w.invoices, i)
      /\ x.invoices[i].stage = stage /\ x.invoices[i].state = "failed"
  BY <1>1, ClimbedFacts
<1> HIDE DEF x
<1>3. Dark(w.invoices[i]) => late >= StageOpens[4]
  BY DEF Upheld, DarkIsLate
<1>4. x.invoices[i].due = w.invoices[i].due
  BY <1>2 DEF OnlyMarks, SameBills
<1>5. Answered(x.invoices[i], t) /\ AtStage(x.invoices[i], t)
  BY <1>2, <1>4 DEF Answered, AtStage
<1>10. /\ y \in Works /\ SameGaps(y, x, c) /\ y.invoices = x.invoices /\ SameTerm(y.deal, x.deal)
      /\ y.deal.backlog = x.deal.backlog
      /\ y.deal.phase = IF x.deal.phase = "active" THEN "suspended" ELSE x.deal.phase
  <2>1. x \in Works
    BY <1>2
  <2> HIDE DEF late
  <2> QED BY <2>1, TurnedOff
<1> HIDE DEF y
<1>6. CASE stage = "suspend"
  <2>2. Entered(y.deal) /\ SameTerm(y.deal, w.deal)
    BY <1>2, <1>10, SameTermEntered DEF Upheld
  <2>3. Dark(y.invoices[i]) /\ late >= StageOpens[4]
    BY <1>1, <1>2, <1>6, <1>10 DEF Dark
  <2>4. y.deal.phase # "terminated" /\ (y.deal.phase = "pending" => w.deal.phase = "pending")
    BY <1>2, <1>10
  <2>5. /\ OnlyMarks(y.invoices, w.invoices, i)
        /\ Answered(y.invoices[i], t) /\ AtStage(y.invoices[i], t)
    BY <1>2, <1>5, <1>10
  <2>6. Upheld(y, t)
    <3> HIDE DEF late
    <3>1. t - w.invoices[i].due >= StageOpens[4]
      BY <2>3 DEF late
    <3> QED BY <2>2, <2>3, <2>4, <2>5, <3>1, UpheldAfter
  <2>7. SameGaps(y, w, c)
    BY <1>2, <1>10, GapsCompose
  <2>8. VisitEffect(y, w, i, c, t)
    BY <1>10, <2>2, <2>4, <2>5, <2>6, <2>7 DEF VisitEffect, OnPace, OnStage, AtStage
  <2> QED BY <1>6, <2>8 DEF y, x
<1>7. CASE stage # "suspend"
  <2>1. ~Dark(x.invoices[i])
    BY <1>2, <1>7 DEF Dark
  <2>2. ~Dark(w.invoices[i])
    BY <1>1, <1>3, <1>7
  <2>3. Entered(x.deal) /\ SameTerm(x.deal, w.deal)
    BY <1>2 DEF Upheld, SameTerm
  <2>4. Upheld(x, t)
    BY <1>2, <2>1, <2>2, <2>3, UpheldAfter
  <2>5. VisitEffect(x, w, i, c, t)
    BY <1>2, <1>5, <2>3, <2>4 DEF VisitEffect, OnPace, OnStage
  <2> QED BY <1>7, <2>5 DEF x
<1> QED BY <1>6, <1>7

(* A visit to an invoice in dunning.                                       *)
LEMMA DunnedEffect ==
  ASSUME BillingAssumption, NEW c \in Contract, NEW w \in Works, NEW t \in Nat, Upheld(w, t),
         w.deal.phase # "terminated", NEW i \in DOMAIN w.invoices, w.invoices[i].state = "failed",
         NEW recovers \in BOOLEAN
  PROVE  VisitEffect(Dunned(w, i, c, t, recovers), w, i, c, t)
<1> DEFINE stage == StageFor(t - w.invoices[i].due)
           v == Dunned(w, i, c, t, recovers)
<1>1. stage \in Stage
  <2>1. w.invoices[i] \in Bill
    BY WorkFields, ListFacts
  <2>2. t - w.invoices[i].due \in Int
    BY <2>1 DEF Bill
  <2> QED BY <2>2, StageFacts
<1>2. CASE stage = w.invoices[i].stage
  <2>1. v = w
    BY <1>2 DEF Dunned
  <2>2. OnPace(w, i, t) /\ OnStage(w, i, t)
    BY <1>2 DEF OnPace, Answered, OnStage, AtStage
  <2> QED BY <2>1, <2>2, NothingVisited
<1>3. CASE stage # w.invoices[i].stage /\ recovers
  <2>1. v = Recovered(Climbed(w, i, stage), i, c, t)
    BY <1>3 DEF Dunned
  <2> HIDE DEF v, stage
  <2>2. VisitEffect(v, w, i, c, t)
    BY <1>1, <2>1, RecoveredEffect
  <2> QED BY <2>2 DEF v
<1>4. CASE stage # w.invoices[i].stage /\ ~recovers /\ stage = "terminate"
  <2>1. v = WrittenOff(Climbed(w, i, stage), i, c, t)
    BY <1>4 DEF Dunned
  <2> HIDE DEF v, stage
  <2>2. VisitEffect(v, w, i, c, t)
    BY <1>1, <2>1, WrittenOffEffect
  <2> QED BY <2>2 DEF v
<1>5. CASE stage # w.invoices[i].stage /\ ~recovers /\ stage # "terminate"
  <2>1. v = IF stage = "suspend" THEN Turned(Climbed(w, i, stage), "active", "suspended")
            ELSE Climbed(w, i, stage)
    <3>1. CASE stage = "suspend"
      BY <1>5, <3>1 DEF Dunned
    <3>2. CASE stage # "suspend"
      BY <1>5, <3>2 DEF Dunned
    <3> QED BY <3>1, <3>2
  <2>2. stage = StageFor(t - w.invoices[i].due)
    OBVIOUS
  <2> HIDE DEF v, stage
  <2>3. VisitEffect(v, w, i, c, t)
    BY <1>5, <2>1, <2>2, SteppedEffect
  <2> QED BY <2>3 DEF v
<1> QED BY <1>2, <1>3, <1>4, <1>5

(* A visit acts on one invoice, and brings it to its stage.                *)
LEMMA VisitFacts ==
  ASSUME BillingAssumption, NEW c \in Contract, NEW w \in Works, NEW t \in Nat, Upheld(w, t),
         NEW slot \in DOMAIN w.invoices, NEW declined, NEW recovered
  PROVE  /\ FirstTwin(w.invoices, slot) \in DOMAIN w.invoices
         /\ VisitEffect(Visit(w, slot, c, t, declined, recovered), w, FirstTwin(w.invoices, slot), c, t)
<1> DEFINE i == FirstTwin(w.invoices, slot)
           v == Visit(w, slot, c, t, declined, recovered)
<1>1. i \in DOMAIN w.invoices
  BY WorkFields, FirstTwinFacts
<1>2. w.invoices[i] \in Bill
  BY <1>1, WorkFields, ListFacts
<1>3. CASE w.deal.phase = "terminated"
  <2>1. v = w
    BY <1>3 DEF Visit
  <2>2. OnPace(w, i, t) /\ OnStage(w, i, t)
    BY <1>3 DEF OnPace, OnStage
  <2> HIDE DEF v, i
  <2>3. VisitEffect(v, w, i, c, t)
    BY <1>1, <2>1, <2>2, NothingVisited
  <2> QED BY <1>1, <2>3 DEF v, i
<1>4. CASE w.deal.phase # "terminated" /\ IsDue(w.invoices[i], t)
  <2>1. v = IF i \in declined THEN Declined(w, i) ELSE Collect(w, i, c, t)
    <3>1. w.invoices[i].state # "failed"
      BY <1>4 DEF IsDue
    <3> QED BY <1>4, <3>1 DEF Visit
  <2>2. w.invoices[i].state = "issued"
    BY <1>4 DEF IsDue
  <2> HIDE DEF v, i
  <2>3. VisitEffect(v, w, i, c, t)
    BY <1>1, <1>4, <2>1, <2>2, CollectEffect, DeclinedEffect
  <2> QED BY <1>1, <2>3 DEF v, i
<1>5. CASE w.deal.phase # "terminated" /\ w.invoices[i].state = "failed"
  <2>1. v = Dunned(w, i, c, t, i \in recovered)
    <3>1. ~IsDue(w.invoices[i], t)
      BY <1>5 DEF IsDue
    <3> QED BY <1>5, <3>1 DEF Visit
  <2> HIDE DEF v, i
  <2>3. VisitEffect(v, w, i, c, t)
    <3>1. (i \in recovered) \in BOOLEAN
      OBVIOUS
    <3> QED BY <1>1, <1>5, <2>1, <3>1, DunnedEffect
  <2> QED BY <1>1, <2>3 DEF v, i
<1>6. CASE w.deal.phase # "terminated" /\ ~IsDue(w.invoices[i], t) /\ w.invoices[i].state # "failed"
  <2>1. v = w
    BY <1>6 DEF Visit
  <2>2. OnPace(w, i, t) /\ (w.invoices[i].state # "issued" => OnStage(w, i, t))
    <3>1. w.invoices[i].due \in Nat
      BY <1>2 DEF Bill
    <3> QED BY <1>6, <3>1 DEF OnPace, Answered, OnStage, AtStage, IsDue
  <2> HIDE DEF v, i
  <2>3. VisitEffect(v, w, i, c, t)
    BY <1>1, <2>1, <2>2, NothingVisited
  <2> QED BY <1>1, <2>3 DEF v, i
<1> QED BY <1>3, <1>4, <1>5, <1>6

-----------------------------------------------------------------------------
(* The steps before the bills: a contract ends, renews, or stays.          *)
SameGrid(d, e) == d.termEnd = e.termEnd /\ d.anchor = e.anchor /\ d.cycles = e.cycles

(* A step that marks no invoice and does not suspend upholds the account.  *)
LEMMA StillUpheld ==
  ASSUME NEW w, NEW t, Upheld(w, t), NEW v, v.invoices = w.invoices, v.deal.phase # "suspended",
         Entered(v.deal), v.deal.phase = "terminated" => Ended(v)
  PROVE  Upheld(v, t)
  BY DEF Upheld

(* Churn ends the contract or leaves it alone.                             *)
LEMMA ChurnedFacts ==
  ASSUME NEW c, NEW w \in Works, NEW t \in Nat, Upheld(w, t), NEW churns \in BOOLEAN,
         NEW v, v = Churned(w, t, churns)
  PROVE  /\ v \in Works /\ SameGaps(v, w, c) /\ v.invoices = w.invoices
         /\ SameTerm(v.deal, w.deal) /\ Upheld(v, t)
         /\ v.deal.phase \in {w.deal.phase, "terminated"}
<1>1. CASE churns /\ w.deal.phase = "active"
  <2>1. v = Terminated(w, t) /\ Entered(w.deal)
    BY <1>1 DEF Churned, Upheld
  <2>2. /\ v \in Works /\ SameGaps(v, w, c) /\ v.invoices = w.invoices
        /\ v.deal.phase = "terminated" /\ Ended(v) /\ SameTerm(v.deal, w.deal)
    BY <2>1, TerminatedFacts
  <2>3. Upheld(v, t)
    <3>1. Entered(v.deal)
      BY <2>2 DEF Ended, Entered
    <3> QED BY <2>2, <3>1, StillUpheld
  <2> QED BY <2>2, <2>3
<1>2. CASE ~(churns /\ w.deal.phase = "active")
  <2>1. v = w
    BY <1>2 DEF Churned
  <2> QED BY <2>1 DEF SameGaps, SameTerm
<1> QED BY <1>1, <1>2

(* Over a term's end: a contract that is still active is inside its term,  *)
(* the old one or a new one with a new grid.                               *)
Renews(d, e, c, t) ==
  /\ d.phase = "active" /\ e.termEnd <= t
  /\ d.anchor = e.termEnd /\ d.cycles = 0 /\ d.termEnd = e.termEnd + (End[c] - Start[c])
Cliffed(d, e, c, t) == (SameGrid(d, e) /\ (d.phase = "active" => t < e.termEnd)) \/ Renews(d, e, c, t)

(* A cliff renews or ends an active contract, and touches no invoice.      *)
LEMMA OverCliffFacts ==
  ASSUME BillingAssumption, NEW c \in Contract, NEW w \in Works, NEW t \in Nat, Upheld(w, t),
         NEW renews \in BOOLEAN, NEW v, v = OverCliff(w, c, t, renews)
  PROVE  /\ v \in Works /\ SameGaps(v, w, c) /\ v.invoices = w.invoices /\ Upheld(v, t)
         /\ Cliffed(v.deal, w.deal, c, t)
         /\ v.deal.phase \in {w.deal.phase, "terminated"}
<1>0. w.deal.termEnd \in Nat
  BY WorkFields DEF Deal
<1>1. CASE ~AtCliff(w, t)
  <2>1. v = w
    BY <1>1 DEF OverCliff
  <2>2. Cliffed(w.deal, w.deal, c, t)
    BY <1>0, <1>1 DEF AtCliff, Cliffed, SameGrid
  <2> QED BY <2>1, <2>2 DEF SameGaps
<1>2. CASE AtCliff(w, t) /\ renews
  <2>1. v = Renewed(w, c) /\ w.deal.phase = "active" /\ w.deal.termEnd <= t
    BY <1>0, <1>2 DEF OverCliff, AtCliff
  <2>2. /\ v \in Works /\ SameGaps(v, w, c) /\ v.invoices = w.invoices /\ v.schedules = w.schedules
        /\ v.deal.phase = w.deal.phase /\ v.deal.backlog = w.deal.backlog /\ v.deal.signed = w.deal.signed
        /\ v.deal.anchor = w.deal.termEnd /\ v.deal.cycles = 0
        /\ v.deal.termEnd = w.deal.termEnd + (End[c] - Start[c])
    BY <2>1, RenewedFacts
  <2>3. Entered(v.deal)
    BY <2>2 DEF Upheld, Entered
  <2>4. Upheld(v, t)
    BY <2>1, <2>2, <2>3, StillUpheld
  <2>5. Cliffed(v.deal, w.deal, c, t)
    BY <2>1, <2>2 DEF Cliffed, Renews
  <2> QED BY <2>2, <2>4, <2>5
<1>3. CASE AtCliff(w, t) /\ ~renews
  <2>1. v = Terminated(w, t) /\ Entered(w.deal)
    BY <1>3 DEF OverCliff, Upheld
  <2>2. /\ v \in Works /\ SameGaps(v, w, c) /\ v.invoices = w.invoices
        /\ v.deal.phase = "terminated" /\ Ended(v) /\ SameTerm(v.deal, w.deal)
    BY <2>1, TerminatedFacts
  <2>3. Entered(v.deal)
    BY <2>2 DEF Ended, Entered
  <2>4. Upheld(v, t)
    BY <2>2, <2>3, StillUpheld
  <2>5. Cliffed(v.deal, w.deal, c, t)
    BY <2>2 DEF Cliffed, SameTerm, SameGrid
  <2> QED BY <2>2, <2>4, <2>5
<1> QED BY <1>1, <1>2, <1>3

(* New invoices are not late, and the old ones keep their places.          *)
LEMMA IssueUpheld ==
  ASSUME BillingAssumption, NEW c \in Contract, NEW w \in Works, NEW t \in Nat, Upheld(w, t),
         NEW v, v = IssueDue(w, c, t)
  PROVE  Upheld(v, t)
<1>0. Entered(w.deal)
  BY DEF Upheld
<1>1. Invoiced(v, w, c, t)
  BY <1>0, IssueDueFacts
<1>2. PICK count \in Nat : Adds(v, w, c, t, count)
  BY <1>1 DEF Invoiced
<1>3. PICK n \in Nat :
        /\ DOMAIN w.invoices = 1..n /\ DOMAIN v.invoices = 1..n + count
        /\ \A k \in 1..n : v.invoices[k] = w.invoices[k]
        /\ \A i \in 1..count : v.invoices[n + i] = Invoice(w.deal, c, w.deal.cycles + i - 1)
  BY <1>2 DEF Adds, Issued
<1>4. DarkIsLate(v.invoices, t)
  <2> SUFFICES ASSUME NEW k \in DOMAIN v.invoices, Dark(v.invoices[k])
               PROVE  t - v.invoices[k].due >= StageOpens[4]
    BY DEF DarkIsLate
  <2>1. k \in 1..n
    <3> SUFFICES ASSUME k \notin 1..n PROVE FALSE
      OBVIOUS
    <3> DEFINE i == k - n
    <3>0. k \in 1..n + count /\ n \in Nat /\ count \in Nat
      BY <1>3
    <3>1. i \in 1..count /\ k = n + i
      BY <3>0
    <3> HIDE DEF i
    <3>2. v.invoices[k] = Invoice(w.deal, c, w.deal.cycles + i - 1)
      BY <1>3, <3>1
    <3>3. v.invoices[k].state = "issued"
      BY <3>2 DEF Invoice
    <3> QED BY <3>3 DEF Dark
  <2> QED BY <1>3, <2>1 DEF Upheld, DarkIsLate
<1>5. w.deal.phase = "suspended" => \E k \in DOMAIN v.invoices : Dark(v.invoices[k])
  <2> SUFFICES ASSUME w.deal.phase = "suspended" PROVE \E k \in DOMAIN v.invoices : Dark(v.invoices[k])
    OBVIOUS
  <2>1. PICK k \in DOMAIN w.invoices : Dark(w.invoices[k])
    BY DEF Upheld
  <2>2. k \in 1..n /\ v.invoices[k] = w.invoices[k]
    BY <1>3, <2>1
  <2>3. k \in 1..n + count
    BY <2>2
  <2> QED BY <1>3, <2>1, <2>2, <2>3
<1>6. w.deal.phase = "terminated" => Ended(v)
  BY <1>1 DEF Invoiced, Upheld, Ended
<1> QED BY <1>1, <1>4, <1>5, <1>6 DEF Invoiced, Upheld

(* What holds of a contract between the ticks; it is upheld once a deal    *)
(* that waits for its start is signed.                                     *)
Account(w, t) ==
  /\ w.deal.phase # "pending" => Entered(w.deal)
  /\ w.deal.phase = "terminated" => Ended(w)
  /\ w.deal.phase = "suspended" => \E i \in DOMAIN w.invoices : Dark(w.invoices[i])
  /\ DarkIsLate(w.invoices, t)

(* Signing turns what holds between the ticks into what the tick upholds.  *)
LEMMA SignedIsUpheld ==
  ASSUME BillingAssumption, NEW c \in Contract, NEW w \in Works, NEW t \in Nat, Account(w, t),
         NEW v, v = SignAndStart(w, c, t)
  PROVE  Upheld(v, t)
<1>1. w.deal.phase # "pending" => Entered(w.deal)
  BY DEF Account
<1>2. /\ v.invoices = w.invoices /\ v.schedules = w.schedules
      /\ Entered(v.deal) /\ v.deal.backlog = w.deal.backlog
      /\ IF w.deal.phase = "pending"
         THEN v.deal.phase \in {"pending", "active"} /\ (v.deal.phase = "pending" <=> t < Start[c])
         ELSE v.deal.phase = w.deal.phase
  <2>1. SignedFrom(v, w, c, t)
    BY <1>1, SignAndStartFacts
  <2> QED BY <2>1 DEF SignedFrom
<1> QED BY <1>2 DEF Account, Upheld, Ended

(* The phase after the steps before the bills.                             *)
PhaseFrom(d, e, c, t) ==
  \/ d.phase = "terminated"
  \/ d.phase = e.phase /\ (d.phase = "pending" => t < Start[c])
  \/ d.phase = "active" /\ e.phase = "pending" /\ t >= Start[c]

(* What a tick has done before its sweep.                                  *)
BilledFrom(v, w, c, t) ==
  /\ v \in Works /\ SameGaps(v, w, c) /\ Upheld(v, t)
  /\ \E u \in Works, count \in Nat :
       /\ u.invoices = w.invoices
       /\ Cliffed(u.deal, w.deal, c, t) /\ PhaseFrom(u.deal, w.deal, c, t)
       /\ v.deal.phase = u.deal.phase /\ v.deal.termEnd = u.deal.termEnd
       /\ v.deal.anchor = u.deal.anchor
       /\ Adds(v, u, c, t, count)

(* The cliff sees term and grid alone.                                     *)
LEMMA CliffedFrom ==
  ASSUME NEW d, NEW e, NEW f, NEW c, NEW t, Cliffed(d, e, c, t), SameGrid(e, f)
  PROVE  Cliffed(d, f, c, t)
  BY DEF Cliffed, Renews, SameGrid

(* The steps before the sweep, one after the other.                        *)
LEMMA BilledFacts ==
  ASSUME BillingAssumption, NEW c \in Contract, NEW w \in Works, w = Working(c), NEW t \in Nat,
         Account(w, t), NEW churns \in BOOLEAN, NEW renews \in BOOLEAN
  PROVE  BilledFrom(Billed(c, t, churns, renews), w, c, t)
<1> DEFINE x == SignAndStart(w, c, t)
           y == Churned(x, t, churns)
           u == OverCliff(y, c, t, renews)
           v == IssueDue(u, c, t)
<1>0. v = Billed(c, t, churns, renews)
  BY DEF Billed
<1>1. Upheld(x, t)
  BY SignedIsUpheld
<1>2. /\ x \in Works /\ SameGaps(x, w, c) /\ x.invoices = w.invoices /\ SameGrid(x.deal, w.deal)
      /\ PhaseFrom(x.deal, w.deal, c, t)
  <2>1. w.deal.phase # "pending" => Entered(w.deal)
    BY DEF Account
  <2> HIDE DEF x
  <2>2. x = SignAndStart(w, c, t)
    BY DEF x
  <2>3. SignedFrom(x, w, c, t)
    BY <2>1, <2>2, SignAndStartFacts
  <2>4. Start[c] \in Nat
    BY ContractFacts
  <2> QED BY <2>3, <2>4 DEF SignedFrom, SameGrid, PhaseFrom
<1> HIDE DEF x
<1>3. /\ y \in Works /\ SameGaps(y, x, c) /\ y.invoices = x.invoices
      /\ SameTerm(y.deal, x.deal) /\ Upheld(y, t)
      /\ y.deal.phase \in {x.deal.phase, "terminated"}
  BY <1>1, <1>2, ChurnedFacts
<1> HIDE DEF y
<1>4. /\ u \in Works /\ SameGaps(u, y, c) /\ u.invoices = y.invoices /\ Upheld(u, t)
      /\ Cliffed(u.deal, y.deal, c, t)
      /\ u.deal.phase \in {y.deal.phase, "terminated"}
  BY <1>3, OverCliffFacts
<1> HIDE DEF u
<1>5. Invoiced(v, u, c, t)
  <2>1. Entered(u.deal)
    BY <1>4 DEF Upheld
  <2> QED BY <1>4, <2>1, IssueDueFacts
<1>6. Upheld(v, t)
  BY <1>4, IssueUpheld
<1> HIDE DEF v
<1>7. u.invoices = w.invoices /\ Cliffed(u.deal, w.deal, c, t) /\ PhaseFrom(u.deal, w.deal, c, t)
  <2>1. SameGrid(y.deal, w.deal)
    BY <1>2, <1>3 DEF SameTerm, SameGrid
  <2>2. u.deal.phase \in {x.deal.phase, "terminated"}
    BY <1>3, <1>4
  <2>3. PhaseFrom(u.deal, w.deal, c, t)
    BY <1>2, <2>2 DEF PhaseFrom
  <2> QED BY <1>2, <1>3, <1>4, <2>1, <2>3, CliffedFrom
<1>8. SameGaps(v, w, c)
  <2>1. SameGaps(v, u, c)
    BY <1>5 DEF Invoiced
  <2>2. SameGaps(v, y, c)
    BY <1>4, <2>1, GapsCompose
  <2>3. SameGaps(v, x, c)
    BY <1>3, <2>2, GapsCompose
  <2> QED BY <1>2, <2>3, GapsCompose
<1>9. PICK count \in Nat : Adds(v, u, c, t, count)
  BY <1>5 DEF Invoiced
<1>10. BilledFrom(v, w, c, t)
  BY <1>4, <1>5, <1>6, <1>7, <1>8, <1>9 DEF BilledFrom, Invoiced
<1> QED BY <1>0, <1>10

-----------------------------------------------------------------------------
(* The sweep visits the slots one after the other.                         *)
SweptFrom(v, w, c, t) ==
  /\ v \in Works /\ SameGaps(v, w, c) /\ SameTerm(v.deal, w.deal)
  /\ SameBills(v.invoices, w.invoices) /\ Upheld(v, t)
  /\ \A k \in DOMAIN w.invoices : w.invoices[k].state # "issued" => v.invoices[k].state # "issued"
  /\ w.deal.phase = "terminated" => v.deal.phase = "terminated"
  /\ v.deal.phase = "pending" => w.deal.phase = "pending"
PacedAt(v, w, i, t) ==
  OnPace(v, i, t) /\ (w.invoices[i].state # "issued" => OnStage(v, i, t))
Paced(v, w, k, t) == \A slot \in 1..k : PacedAt(v, w, FirstTwin(w.invoices, slot), t)

(* The sweep starts with nothing done.                                     *)
LEMMA NotYetSwept ==
  ASSUME NEW c, NEW w \in Works, NEW t, Upheld(w, t)
  PROVE  SweptFrom(w, w, c, t) /\ Paced(w, w, 0, t)
<1>1. SweptFrom(w, w, c, t)
  BY DEF SweptFrom, SameGaps, SameTerm, SameBills
<1>2. Paced(w, w, 0, t)
  <2>1. 1..0 = {}
    OBVIOUS
  <2> QED BY <2>1 DEF Paced
<1> QED BY <1>1, <1>2

(* A visit to one invoice does not put another off its pace.               *)
LEMMA PaceKept ==
  ASSUME NEW v, NEW x, NEW w, NEW i, NEW c, NEW t, VisitEffect(v, x, i, c, t), SweptFrom(x, w, c, t),
         NEW j \in DOMAIN w.invoices, PacedAt(x, w, j, t)
  PROVE  PacedAt(v, w, j, t)
<1>0. j \in DOMAIN x.invoices /\ (w.invoices[j].state # "issued" => x.invoices[j].state # "issued")
  BY DEF SweptFrom, SameBills
<1>1. CASE j = i
  BY <1>0, <1>1 DEF VisitEffect, PacedAt
<1>2. CASE j # i
  <2>1. v.invoices[j] = x.invoices[j] /\ (x.deal.phase = "terminated" => v.deal.phase = "terminated")
    BY <1>0, <1>2 DEF VisitEffect, OnlyMarks
  <2> QED BY <2>1 DEF PacedAt, OnPace, OnStage
<1> QED BY <1>1, <1>2

(* A slot up to the k-th is the k-th or an earlier one.                    *)
LEMMA EarlierSlot ==
  ASSUME NEW n \in Nat, NEW k \in 1..n, NEW s \in 1..k, s # k
  PROVE  s \in 1..k - 1 /\ s \in 1..n
  OBVIOUS

(* One more visit: the first twin of its slot is on pace as well.          *)
LEMMA VisitSweeps ==
  ASSUME BillingAssumption, NEW c \in Contract, NEW w \in Works, NEW t \in Nat, NEW x, SweptFrom(x, w, c, t),
         NEW slot \in DOMAIN w.invoices, NEW declined, NEW recovered,
         NEW v, v = Visit(x, slot, c, t, declined, recovered)
  PROVE  /\ SweptFrom(v, w, c, t)
         /\ Paced(x, w, slot - 1, t) => Paced(v, w, slot, t)
<1>1. /\ x \in Works /\ SameGaps(x, w, c) /\ SameTerm(x.deal, w.deal)
      /\ SameBills(x.invoices, w.invoices) /\ Upheld(x, t)
      /\ \A k \in DOMAIN w.invoices : w.invoices[k].state # "issued" => x.invoices[k].state # "issued"
      /\ w.deal.phase = "terminated" => x.deal.phase = "terminated"
      /\ x.deal.phase = "pending" => w.deal.phase = "pending"
  BY DEF SweptFrom
<1>2. slot \in DOMAIN x.invoices /\ DOMAIN x.invoices = DOMAIN w.invoices
  BY <1>1 DEF SameBills
<1> DEFINE i == FirstTwin(x.invoices, slot)
<1>3. i \in DOMAIN x.invoices /\ VisitEffect(v, x, i, c, t)
  BY <1>1, <1>2, VisitFacts
<1>4. i = FirstTwin(w.invoices, slot)
  BY <1>1, TwinsStay
<1> HIDE DEF i
<1>5. /\ v \in Works /\ SameGaps(v, x, c) /\ SameTerm(v.deal, x.deal)
      /\ OnlyMarks(v.invoices, x.invoices, i) /\ Upheld(v, t) /\ OnPace(v, i, t)
      /\ x.invoices[i].state # "issued" => v.invoices[i].state # "issued" /\ OnStage(v, i, t)
      /\ x.deal.phase = "terminated" => v.deal.phase = "terminated"
      /\ v.deal.phase = "pending" => x.deal.phase = "pending"
  BY <1>3 DEF VisitEffect
<1>6. SameGaps(v, w, c)
  BY <1>1, <1>5, GapsCompose
<1>7. SameBills(v.invoices, w.invoices) /\ SameTerm(v.deal, w.deal)
  BY <1>1, <1>5 DEF OnlyMarks, SameBills, SameTerm
<1>8. \A k \in DOMAIN w.invoices : w.invoices[k].state # "issued" => v.invoices[k].state # "issued"
  BY <1>1, <1>2, <1>5 DEF OnlyMarks
<1>9. PacedAt(v, w, i, t)
  BY <1>1, <1>2, <1>3, <1>5 DEF PacedAt
<1>10. SweptFrom(v, w, c, t)
  BY <1>1, <1>5, <1>6, <1>7, <1>8 DEF SweptFrom
<1>11. ASSUME Paced(x, w, slot - 1, t) PROVE Paced(v, w, slot, t)
  <2> SUFFICES ASSUME NEW s \in 1..slot PROVE PacedAt(v, w, FirstTwin(w.invoices, s), t)
    BY DEF Paced
  <2>1. CASE s = slot
    BY <1>4, <1>9, <2>1
  <2>2. CASE s # slot
    <3>1. IsList(w.invoices, Bill) /\ DOMAIN w.invoices = 1..Len(w.invoices) /\ Len(w.invoices) \in Nat
      BY WorkFields, ListSlots
    <3>2. s \in DOMAIN w.invoices /\ s \in 1..slot - 1
      <4>1. slot \in 1..Len(w.invoices)
        BY <3>1
      <4> QED BY <2>2, <3>1, <4>1, EarlierSlot
    <3>3. PacedAt(x, w, FirstTwin(w.invoices, s), t)
      BY <1>11, <3>2 DEF Paced
    <3>4. FirstTwin(w.invoices, s) \in DOMAIN w.invoices
      BY <3>1, <3>2, FirstTwinFacts
    <3> QED BY <1>3, <3>3, <3>4, PaceKept
  <2> QED BY <2>1, <2>2
<1> QED BY <1>10, <1>11

(* After the sweep every first twin is on pace.                            *)
LEMMA SweepFacts ==
  ASSUME BillingAssumption, NEW c \in Contract, NEW w \in Works, NEW t \in Nat, Upheld(w, t),
         NEW declined, NEW recovered, NEW v, v = Sweep(w, c, t, declined, recovered)
  PROVE  SweptFrom(v, w, c, t) /\ Paced(v, w, Len(w.invoices), t)
<1> DEFINE n == Len(w.invoices)
           A == {x \in Works : SweptFrom(x, w, c, t)}
           Visited(x, k) == Visit(x, k, c, t, declined, recovered)
           step == [k \in 1..n |-> [x \in A |-> Visited(x, k)]]
           Walk(f) == f = [slot \in 0..n |-> IF slot = 0 THEN w
                                             ELSE Visit(f[slot - 1], slot, c, t, declined, recovered)]
           swept == CHOOSE f : Walk(f)
<1>0. n \in Nat /\ DOMAIN w.invoices = 1..n
  BY WorkFields, ListSlots
<1>1. n \in Nat
  BY <1>0
<1>2. w \in A
  BY NotYetSwept
<1>3. ASSUME NEW x \in A, NEW k \in 1..n
      PROVE  /\ Visited(x, k) \in A
             /\ Paced(x, w, k - 1, t) => Paced(Visited(x, k), w, k, t)
  <2> DEFINE y == Visited(x, k)
  <2>1. y = Visit(x, k, c, t, declined, recovered)
    OBVIOUS
  <2> HIDE DEF y, Visited
  <2>2. SweptFrom(x, w, c, t) /\ k \in DOMAIN w.invoices
    BY <1>0
  <2> HIDE DEF A, n
  <2>3. /\ SweptFrom(y, w, c, t)
        /\ Paced(x, w, k - 1, t) => Paced(y, w, k, t)
    BY <2>1, <2>2, VisitSweeps
  <2>4. y \in A
    BY <2>3 DEF A, SweptFrom
  <2> QED BY <2>3, <2>4 DEF y
<1>4. step \in [1..n -> [A -> A]]
  <2> HIDE DEF A, Visited, n
  <2> QED BY <1>3
<1>5. \E f : Walk(f)
  <2>1. PICK f \in [0..n -> A] : f[0] = w /\ \A k \in 1..n : f[k] = step[k][f[k - 1]]
    <3> HIDE DEF step, n, A
    <3>1. step \in Steps(A, n)
      BY <1>4 DEF Steps
    <3>2. \E f : IsChain(f, A, w, n, step)
      BY <1>1, <1>2, <3>1, ChainExists
    <3> QED BY <3>2 DEF IsChain
  <2>2. ASSUME NEW k \in 1..n PROVE f[k] = Visited(f[k - 1], k)
    <3> HIDE DEF A, Visited, n
    <3>0. k - 1 \in 0..n
      BY <1>1
    <3>1. f[k - 1] \in A
      BY <2>1, <3>0
    <3>2. f[k] = step[k][f[k - 1]] /\ step[k] = [x \in A |-> Visited(x, k)]
      BY <2>1
    <3> QED BY <3>1, <3>2
  <2>3. Walk(f)
    <3> HIDE DEF step
    <3>1. \A k \in 0..n : f[k] = IF k = 0 THEN w ELSE Visited(f[k - 1], k)
      <4> HIDE DEF Visited, A, n
      <4> QED BY <2>1, <2>2, <1>1
    <3> HIDE DEF A
    <3> QED BY <2>1, <3>1
  <2> QED BY <2>3
<1>6. Walk(swept)
  <2> HIDE DEF Walk
  <2> QED BY <1>5
<1>7. swept[0] = w /\ \A k \in 0..n - 1 : swept[k + 1] = Visited(swept[k], k + 1)
  <2> HIDE DEF swept
  <2>1. \A k \in 0..n : swept[k] = IF k = 0 THEN w ELSE Visited(swept[k - 1], k)
    BY <1>6
  <2> HIDE DEF Visited, n
  <2>2. swept[0] = w
    <3>1. 0 \in 0..n
      BY <1>1
    <3> QED BY <2>1, <3>1
  <2>3. ASSUME NEW k \in 0..n - 1 PROVE swept[k + 1] = Visited(swept[k], k + 1)
    <3>1. k + 1 \in 0..n /\ k + 1 # 0 /\ k + 1 - 1 = k
      BY <1>1
    <3>2. swept[k + 1] = Visited(swept[k + 1 - 1], k + 1)
      BY <2>1, <3>1
    <3> QED BY <3>1, <3>2
  <2> QED BY <2>2, <2>3
<1>8. v = swept[n]
  BY DEF Sweep
<1> DEFINE Done == {k \in Nat : k <= n => swept[k] \in A /\ Paced(swept[k], w, k, t)}
<1> HIDE DEF swept, Visited
<1>9. \A k \in Nat : k \in Done
  <2>1. 0 \in Done
    BY <1>2, <1>7, NotYetSwept
  <2>2. ASSUME NEW k \in Nat, k \in Done PROVE k + 1 \in Done
    <3> HIDE DEF n
    <3> SUFFICES ASSUME k + 1 <= n PROVE swept[k + 1] \in A /\ Paced(swept[k + 1], w, k + 1, t)
      OBVIOUS
    <3> DEFINE x == swept[k]
    <3>1. x \in A /\ Paced(x, w, k, t)
      BY <1>1, <2>2
    <3>2. k + 1 \in 1..n /\ k \in 0..n - 1 /\ k + 1 - 1 = k
      BY <1>1
    <3>3. swept[k + 1] = Visited(x, k + 1)
      BY <1>7, <3>2
    <3> HIDE DEF x, A, n, Done
    <3>4. /\ Visited(x, k + 1) \in A
          /\ Paced(x, w, k + 1 - 1, t) => Paced(Visited(x, k + 1), w, k + 1, t)
      BY <1>3, <3>1, <3>2
    <3> QED BY <3>1, <3>2, <3>3, <3>4
  <2> HIDE DEF Done
  <2> QED BY <2>1, <2>2, SetInduction
<1>10. n <= n
  BY <1>1
<1>11. v \in A /\ Paced(v, w, n, t)
  BY <1>1, <1>8, <1>9, <1>10
<1> QED BY <1>11

(* What a tick leaves on the schedules has something left, and a contract  *)
(* that ended has nothing to recognize.                                    *)
Clean(w) ==
  /\ \A k \in DOMAIN w.schedules : Unreleased(w.schedules[k])
  /\ w.deal.phase = "terminated" => \A k \in DOMAIN w.schedules : w.schedules[k].reason # "recognition"

(* Releases leave schedules that have something left.                      *)
LEMMA ReleasedIsClean ==
  ASSUME NEW c, NEW w \in Works, NEW t \in Nat, Upheld(w, t), NEW v, v = ReleaseDue(w, t)
  PROVE  /\ v \in Works /\ SameGaps(v, w, c) /\ v.deal = w.deal /\ v.invoices = w.invoices
         /\ Clean(v) /\ Upheld(v, t)
<1>1. v \in Works /\ SameGaps(v, w, c) /\ v.deal = w.deal /\ v.invoices = w.invoices
  BY ReleaseDueFacts
<1>2. LeftOf(v.schedules, w.schedules)
  BY ReleaseDueFacts
<1>3. ASSUME v.deal.phase = "terminated", NEW k \in DOMAIN v.schedules
      PROVE  v.schedules[k].reason # "recognition"
  <2>1. PICK i \in DOMAIN w.schedules :
          w.schedules[i].reason = v.schedules[k].reason /\ Unreleased(w.schedules[i])
    BY <1>2 DEF LeftOf
  <2>2. Ended(w)
    BY <1>1, <1>3 DEF Upheld
  <2> QED BY <2>1, <2>2 DEF Ended
<1>4. Clean(v)
  BY <1>2, <1>3 DEF Clean, LeftOf
<1>5. Upheld(v, t)
  <2>1. v.deal.phase = "terminated" => Ended(v)
    BY <1>1, <1>4 DEF Clean, Ended, Upheld
  <2> QED BY <1>1, <2>1 DEF Upheld
<1> QED BY <1>1, <1>4, <1>5

(* The tick of one contract, from what it has before to what it leaves.    *)
TickOf(d, w, c, t) ==
  \E b : /\ BilledFrom(b, w, c, t)
         /\ SweptFrom(d, b, c, t) /\ Paced(d, b, Len(b.invoices), t)
         /\ Clean(d)

(* What runEconomyTick does to one contract.                               *)
LEMMA TickOfContract ==
  ASSUME BillingAssumption, NEW c \in Contract, NEW w \in Works, w = Working(c), NEW t \in Nat,
         Account(w, t), NEW churns \in BOOLEAN, NEW renews \in BOOLEAN, NEW declined, NEW recovered,
         NEW b, b = Billed(c, t, churns, renews),
         NEW d, d = ReleaseDue(Sweep(b, c, t, declined, recovered), t)
  PROVE  TickOf(d, w, c, t)
<1>1. BilledFrom(b, w, c, t)
  BY BilledFacts
<1>2. b \in Works /\ Upheld(b, t)
  BY <1>1 DEF BilledFrom
<1> DEFINE v == Sweep(b, c, t, declined, recovered)
<1>3. SweptFrom(v, b, c, t) /\ Paced(v, b, Len(b.invoices), t)
  BY <1>2, SweepFacts
<1> HIDE DEF v
<1>4. d = ReleaseDue(v, t)
  BY DEF v
<1>5. v \in Works /\ Upheld(v, t) /\ SameGaps(v, b, c)
  BY <1>3 DEF SweptFrom
<1>6. /\ d \in Works /\ SameGaps(d, v, c) /\ d.deal = v.deal /\ d.invoices = v.invoices
      /\ Clean(d) /\ Upheld(d, t)
  BY <1>4, <1>5, ReleasedIsClean
<1>7. SameGaps(d, b, c)
  BY <1>5, <1>6, GapsCompose
<1>8. SweptFrom(d, b, c, t)
  BY <1>3, <1>6, <1>7 DEF SweptFrom
<1>9. Paced(d, b, Len(b.invoices), t)
  BY <1>3, <1>6 DEF Paced, PacedAt, OnPace, OnStage
<1> QED BY <1>1, <1>6, <1>8, <1>9 DEF TickOf

(* What is kept of the invoices stands in the order it had, and everything *)
(* that is owed is kept.                                                   *)
KeptFrom(book, all) ==
  \E at \in [DOMAIN book -> DOMAIN all] :
    /\ \A i, j \in DOMAIN book : i < j => at[i] < at[j]
    /\ \A i \in DOMAIN book : book[i] = all[at[i]]
    /\ \A k \in DOMAIN all : IsOwed(all[k]) => \E i \in DOMAIN book : at[i] = k

(* A host may prune nothing.                                               *)
LEMMA AllKept ==
  ASSUME NEW book
  PROVE  KeptFrom(book, book)
<1> DEFINE at == [i \in DOMAIN book |-> i]
<1>1. at \in [DOMAIN book -> DOMAIN book] /\ \A i \in DOMAIN book : at[i] = i
  OBVIOUS
<1> HIDE DEF at
<1> QED BY <1>1 DEF KeptFrom

(* What is pruned is settled.                                              *)
LEMMA SomeKept ==
  ASSUME NEW all, IsList(all, Bill), NEW live
  PROVE  KeptFrom(Kept(all, live), all)
<1> DEFINE keep == {invoice \in ToSet(all) :
                     IsOwed(invoice) \/ \E k \in DOMAIN live : live[k].cycle = invoice.cycle}
           book == Selected(all, keep)
<1>1. Kept(all, live) = book
  BY DEF Kept
<1>2. DOMAIN all = 1..Len(all) /\ Len(all) \in Nat /\ all \in Seq(Bill)
  BY ListSlots DEF IsList
<1>3. \A k \in DOMAIN all : IsOwed(all[k]) => all[k] \in keep
  BY DEF ToSet
<1> HIDE DEF keep
<1>4. book \in Seq(Bill) /\ \E at : StandsAt(book, at, all, keep, Len(all))
  BY <1>2, SelectedStands
<1> HIDE DEF book
<1>5. PICK at : StandsAt(book, at, all, keep, Len(all))
  BY <1>4
<1>6. DOMAIN book = 1..Len(book)
  BY <1>4
<1>7. /\ at \in [DOMAIN book -> DOMAIN all]
      /\ \A i, j \in DOMAIN book : i < j => at[i] < at[j]
      /\ \A i \in DOMAIN book : book[i] = all[at[i]]
      /\ \A k \in DOMAIN all : all[k] \in keep => \E i \in DOMAIN book : at[i] = k
  BY <1>2, <1>5, <1>6 DEF StandsAt
<1>8. KeptFrom(book, all)
  BY <1>3, <1>7 DEF KeptFrom
<1> QED BY <1>1, <1>8

-----------------------------------------------------------------------------
(***************************************************************************)
(* The invariant of the accounts: every contract is a work with nothing    *)
(* posted, and what a tick left; and the buckets are the sums of the book. *)
(***************************************************************************)
AccountsOpen ==
  /\ now \in 0..MaxNow /\ Contracts \in Books /\ Contracts \subseteq Contract
  /\ DOMAIN invoices = Contracts /\ DOMAIN schedules = Contracts
  /\ cash \in [Bucket -> Int] /\ collected \in Nat /\ refunded \in Nat /\ dark \subseteq Contracts
AccountsHold ==
  \A c \in Contracts : Working(c) \in Works /\ Account(Working(c), now) /\ Clean(Working(c))
AccountsInv == AccountsOpen /\ AccountsHold /\ BucketsMatchTheBook

(* What a tick does, with the work it has done on each contract.           *)
LeavesOf(done, c) ==
  /\ econ'[c] = done[c].deal /\ schedules'[c] = done[c].schedules
  /\ invoices'[c] = done[c].invoices \/ invoices'[c] = Kept(done[c].invoices, done[c].schedules)
TickedTo(done) ==
  /\ now' \in Nat /\ now <= now' /\ now' <= MaxNow /\ now' - now \in Strides
  /\ \A c \in Contracts : TickOf(done[c], Working(c), c, now') /\ LeavesOf(done, c)
  /\ DOMAIN econ' = Contracts /\ DOMAIN invoices' = Contracts /\ DOMAIN schedules' = Contracts
  /\ cash' = [bucket \in Bucket |-> cash[bucket] + Posted(done, bucket)]
  /\ collected' = collected + Total([c \in Contracts |-> done[c].collected])
  /\ refunded' = refunded + Total([c \in Contracts |-> done[c].refunded])
  /\ dark' = dark \cup {c \in InPhase("suspended") : now' >= econ[c].termEnd}

(* Time alone keeps an account: what is dark only gets later.              *)
LEMMA AccountLater ==
  ASSUME BillingAssumption, NEW w \in Works, NEW t \in Nat, NEW s \in Nat, t <= s, Account(w, t)
  PROVE  Account(w, s)
<1> SUFFICES ASSUME NEW i \in DOMAIN w.invoices, Dark(w.invoices[i])
             PROVE  s - w.invoices[i].due >= StageOpens[4]
  BY DEF Account, DarkIsLate
<1>1. t - w.invoices[i].due >= StageOpens[4]
  BY DEF Account, DarkIsLate
<1>2. w.invoices[i] \in Bill
  BY WorkFields, ListFacts
<1>3. w.invoices[i].due \in Nat /\ StageOpens[4] \in Nat
  BY <1>2 DEF Bill, BillingAssumption
<1> DEFINE due == w.invoices[i].due
<1> HIDE DEF due
<1>4. due \in Nat /\ t - due >= StageOpens[4]
  BY <1>1, <1>3 DEF due
<1>5. s - due >= StageOpens[4]
  BY <1>3, <1>4
<1> QED BY <1>5 DEF due

(* A tick of the company is a tick of each contract.                       *)
LEMMA TickIsDone ==
  ASSUME BillingAssumption, AccountsOpen, AccountsHold, EconomyTick
  PROVE  \E done : TickedTo(done)
<1> DEFINE Effect(t, prune, done) ==
             /\ econ' = [c \in Contracts |-> done[c].deal]
             /\ invoices' = [c \in Contracts |->
                               IF prune THEN Kept(done[c].invoices, done[c].schedules) ELSE done[c].invoices]
             /\ schedules' = [c \in Contracts |-> done[c].schedules]
             /\ cash' = [bucket \in Bucket |-> cash[bucket] + Posted(done, bucket)]
             /\ collected' = collected + Total([c \in Contracts |-> done[c].collected])
             /\ refunded' = refunded + Total([c \in Contracts |-> done[c].refunded])
             /\ dark' = dark \cup {c \in InPhase("suspended") : t >= econ[c].termEnd}
           Rolling(t) == SUBSET (IF RollsAMonth(t) THEN Contracts \ InPhase("terminated") ELSE {})
           Over(t) == SUBSET {c \in Contracts : t >= econ[c].termEnd}
           ToBill(t, churned, renewing) ==
             {[c \in Contracts |-> Billed(c, t, c \in churned, c \in renewing)]}
           Work(t, billed, declined, recovered) ==
             {[c \in Contracts |-> ReleaseDue(Sweep(billed[c], c, t, Of(c, declined), Of(c, recovered)), t)]}
<1>1. PICK t \in {now + stride : stride \in Strides} :
        /\ t <= MaxNow
        /\ \E churned \in Rolling(t), renewing \in Over(t) :
           \E billed \in ToBill(t, churned, renewing) :
           \E declined \in SUBSET Asked(billed, t), prune \in Prunes :
           \E recovered \in SUBSET (Climbing(billed, t) \cup declined) :
           \E done \in Work(t, billed, declined, recovered) : Effect(t, prune, done)
        /\ now' = t
  BY DEF EconomyTick
<1> HIDE DEF Effect, Rolling, Over, ToBill, Work
<1>2. PICK churned \in Rolling(t), renewing \in Over(t) :
         \E billed \in ToBill(t, churned, renewing) :
         \E declined \in SUBSET Asked(billed, t), prune \in Prunes :
         \E recovered \in SUBSET (Climbing(billed, t) \cup declined) :
         \E done \in Work(t, billed, declined, recovered) : Effect(t, prune, done)
  BY <1>1
<1>3. PICK billed \in ToBill(t, churned, renewing) :
         \E declined \in SUBSET Asked(billed, t), prune \in Prunes :
         \E recovered \in SUBSET (Climbing(billed, t) \cup declined) :
         \E done \in Work(t, billed, declined, recovered) : Effect(t, prune, done)
  BY <1>2
<1>4. PICK declined \in SUBSET Asked(billed, t), prune \in Prunes :
         \E recovered \in SUBSET (Climbing(billed, t) \cup declined) :
         \E done \in Work(t, billed, declined, recovered) : Effect(t, prune, done)
  BY <1>3
<1>5. PICK recovered \in SUBSET (Climbing(billed, t) \cup declined) :
         \E done \in Work(t, billed, declined, recovered) : Effect(t, prune, done)
  BY <1>4
<1>6. PICK done \in Work(t, billed, declined, recovered) : Effect(t, prune, done)
  BY <1>5
<1>7. /\ billed = [c \in Contracts |-> Billed(c, t, c \in churned, c \in renewing)]
      /\ done = [c \in Contracts |->
                  ReleaseDue(Sweep(billed[c], c, t, Of(c, declined), Of(c, recovered)), t)]
  BY DEF ToBill, Work
<1>8. /\ econ' = [c \in Contracts |-> done[c].deal]
       /\ invoices' = [c \in Contracts |->
                         IF prune THEN Kept(done[c].invoices, done[c].schedules) ELSE done[c].invoices]
       /\ schedules' = [c \in Contracts |-> done[c].schedules]
       /\ cash' = [bucket \in Bucket |-> cash[bucket] + Posted(done, bucket)]
       /\ collected' = collected + Total([c \in Contracts |-> done[c].collected])
       /\ refunded' = refunded + Total([c \in Contracts |-> done[c].refunded])
       /\ dark' = dark \cup {c \in InPhase("suspended") : t >= econ[c].termEnd}
  BY <1>6 DEF Effect
<1>9. t \in Nat /\ now \in Nat /\ now <= t /\ t - now \in Strides /\ t <= MaxNow /\ now' = t
  <2>1. PICK stride \in Strides : t = now + stride
    BY <1>1
  <2>2. stride \in Nat /\ now \in Nat /\ MaxNow \in Nat
    BY DEF BillingAssumption, AccountsOpen
  <2>3. t \in Nat /\ now <= t /\ t - now = stride
    BY <2>1, <2>2
  <2> QED BY <1>1, <2>2, <2>3
<1>10. ASSUME NEW c \in Contracts PROVE TickOf(done[c], Working(c), c, t)
  <2> DEFINE w == Working(c)
             b == billed[c]
             d == done[c]
             churns == c \in churned
             renews == c \in renewing
  <2>1. c \in Contract /\ w \in Works /\ Account(w, now) /\ w = Working(c)
    BY DEF AccountsOpen, AccountsHold
  <2>2. churns \in BOOLEAN /\ renews \in BOOLEAN /\ b = Billed(c, t, churns, renews)
    BY <1>7
  <2>3. d = ReleaseDue(Sweep(b, c, t, Of(c, declined), Of(c, recovered)), t)
    BY <1>7
  <2> HIDE DEF w, b, d, churns, renews
  <2>4. Account(w, t)
    BY <1>9, <2>1, AccountLater
  <2>5. TickOf(d, w, c, t)
    BY <1>9, <2>1, <2>2, <2>3, <2>4, TickOfContract
  <2> QED BY <2>5 DEF d, w
<1>11. ASSUME NEW c \in Contracts PROVE LeavesOf(done, c)
  BY <1>8 DEF LeavesOf
<1>12. DOMAIN econ' = Contracts /\ DOMAIN invoices' = Contracts /\ DOMAIN schedules' = Contracts
  BY <1>8
<1>13. dark' = dark \cup {c \in InPhase("suspended") : now' >= econ[c].termEnd}
  BY <1>8, <1>9
<1>14. /\ cash' = [bucket \in Bucket |-> cash[bucket] + Posted(done, bucket)]
      /\ collected' = collected + Total([c \in Contracts |-> done[c].collected])
      /\ refunded' = refunded + Total([c \in Contracts |-> done[c].refunded])
  BY <1>8
<1>15. /\ now' \in Nat /\ now <= now' /\ now' <= MaxNow /\ now' - now \in Strides
      /\ \A c \in Contracts : TickOf(done[c], Working(c), c, now') /\ LeavesOf(done, c)
  BY <1>9, <1>10, <1>11
<1> QED BY <1>12, <1>13, <1>14, <1>15 DEF TickedTo

(* A contract after the tick.                                              *)
LEMMA DarkKept ==
  ASSUME NEW book, NEW all, KeptFrom(book, all), NEW t, DarkIsLate(all, t)
  PROVE  /\ DarkIsLate(book, t)
         /\ (\E k \in DOMAIN all : Dark(all[k])) => \E i \in DOMAIN book : Dark(book[i])
<1>1. PICK at \in [DOMAIN book -> DOMAIN all] :
        /\ \A i \in DOMAIN book : book[i] = all[at[i]]
        /\ \A k \in DOMAIN all : IsOwed(all[k]) => \E i \in DOMAIN book : at[i] = k
  BY DEF KeptFrom
<1>2. DarkIsLate(book, t)
  <2> SUFFICES ASSUME NEW i \in DOMAIN book, Dark(book[i]) PROVE t - book[i].due >= StageOpens[4]
    BY DEF DarkIsLate
  <2>1. at[i] \in DOMAIN all /\ book[i] = all[at[i]]
    BY <1>1
  <2> QED BY <2>1 DEF DarkIsLate
<1>3. ASSUME NEW k \in DOMAIN all, Dark(all[k]) PROVE \E i \in DOMAIN book : Dark(book[i])
  <2>1. IsOwed(all[k])
    BY <1>3 DEF Dark, IsOwed
  <2>2. PICK i \in DOMAIN book : at[i] = k
    BY <1>1, <2>1
  <2> QED BY <1>1, <1>3, <2>2
<1> QED BY <1>2, <1>3

(* What a contract has after the tick, pruned or not.                      *)
AfterTick(d, c) ==
  /\ Working(c)' \in Works /\ econ'[c] = d.deal /\ schedules'[c] = d.schedules
  /\ IsList(invoices'[c], Bill) /\ KeptFrom(invoices'[c], d.invoices)
  /\ OwedIn(invoices'[c], c) = OwedIn(d.invoices, c)

(* Pruning takes nothing that is owed.                                     *)
LEMMA ContractAfterTick ==
  ASSUME BillingAssumption, NEW c \in Contract, NEW done, LeavesOf(done, c), done[c] \in Works
  PROVE  AfterTick(done[c], c)
<1> DEFINE d == done[c]
<1>1. d \in Works
  OBVIOUS
<1>2. /\ econ'[c] = d.deal /\ schedules'[c] = d.schedules
      /\ invoices'[c] = d.invoices \/ invoices'[c] = Kept(d.invoices, d.schedules)
  BY DEF LeavesOf
<1> HIDE DEF d
<1>3. d.deal \in Deal /\ IsList(d.invoices, Bill) /\ IsList(d.schedules, Held)
  BY <1>1, WorkFields
<1>4. /\ IsList(invoices'[c], Bill) /\ KeptFrom(invoices'[c], d.invoices)
      /\ OwedIn(invoices'[c], c) = OwedIn(d.invoices, c)
  <2>1. CASE invoices'[c] = d.invoices
    BY <1>3, <2>1, AllKept
  <2>2. CASE invoices'[c] = Kept(d.invoices, d.schedules)
    BY <1>3, <2>2, SomeKept, OwedKept
  <2> QED BY <1>2, <2>1, <2>2
<1>5. Working(c)' \in Works
  <2>1. econ'[c] \in Deal /\ invoices'[c] \in Seq(Bill) /\ schedules'[c] \in Seq(Held)
    BY <1>2, <1>3, <1>4 DEF IsList
  <2> QED BY <2>1 DEF Working, Works
<1> QED BY <1>2, <1>4, <1>5 DEF AfterTick, d

(* A tick leaves an account.                                               *)
LEMMA AccountAfterTick ==
  ASSUME BillingAssumption, NEW c \in Contract, NEW w \in Works, NEW d, NEW t \in Nat, TickOf(d, w, c, t),
         AfterTick(d, c), NEW v, v = Working(c)'
  PROVE  Account(v, t) /\ Clean(v)
<1>1. PICK b : SweptFrom(d, b, c, t) /\ Clean(d)
  BY DEF TickOf
<1>2. Upheld(d, t)
  BY <1>1 DEF SweptFrom
<1>3. /\ v.deal = d.deal /\ v.schedules = d.schedules /\ KeptFrom(v.invoices, d.invoices)
  BY DEF AfterTick, Working
<1>4. Clean(v)
  BY <1>1, <1>3 DEF Clean
<1>5. DarkIsLate(d.invoices, t)
  BY <1>2 DEF Upheld
<1>6. /\ DarkIsLate(v.invoices, t)
      /\ (\E k \in DOMAIN d.invoices : Dark(d.invoices[k])) => \E i \in DOMAIN v.invoices : Dark(v.invoices[i])
  BY <1>3, <1>5, DarkKept
<1>7. Account(v, t)
  BY <1>2, <1>3, <1>6 DEF Account, Upheld, Ended
<1> QED BY <1>4, <1>7

(* The steps of a tick together open no gap.                               *)
LEMMA GapsOfTick ==
  ASSUME NEW c, NEW w, NEW d, NEW t, TickOf(d, w, c, t)
  PROVE  d \in Works /\ SameGaps(d, w, c)
<1>1. PICK b : BilledFrom(b, w, c, t) /\ SweptFrom(d, b, c, t)
  BY DEF TickOf
<1>2. d \in Works /\ SameGaps(d, b, c) /\ SameGaps(b, w, c)
  BY <1>1 DEF BilledFrom, SweptFrom
<1> QED BY <1>2, GapsCompose

(* What a tick posts is what it changes in the book.                       *)
PostedFor(d, c) ==
  /\ OwedIn(invoices'[c], c) = OwedIn(invoices[c], c) + d.receivable
  /\ Pledged(econ'[c]) = Pledged(econ[c]) + d.backlog
  /\ HeldIn(schedules'[c], "recognition") = HeldIn(schedules[c], "recognition") + d.deferred
  /\ HeldIn(schedules'[c], "reserve") = HeldIn(schedules[c], "reserve") + d.restricted
  /\ d.free + d.restricted + d.deferred + d.refunded = d.collected

(* So what a tick posts for a contract is what it changes in its book.     *)
LEMMA PostingsOfTick ==
  ASSUME BillingAssumption, NEW c \in Contract, Working(c) \in Works, NEW d, NEW t,
         TickOf(d, Working(c), c, t), AfterTick(d, c)
  PROVE  PostedFor(d, c)
<1> DEFINE w == Working(c)
<1>1. /\ w.deal = econ[c] /\ w.invoices = invoices[c] /\ w.schedules = schedules[c]
      /\ w.free = 0 /\ w.restricted = 0 /\ w.deferred = 0 /\ w.receivable = 0 /\ w.backlog = 0
      /\ w.collected = 0 /\ w.refunded = 0
  BY DEF Working
<1>2. w \in Works
  OBVIOUS
<1> HIDE DEF w
<1>3. d \in Works /\ SameGaps(d, w, c)
  BY GapsOfTick DEF w
<1>4. /\ IsList(d.invoices, Bill) /\ IsList(d.schedules, Held) /\ d.deal \in Deal
      /\ d.free \in Int /\ d.restricted \in Int /\ d.deferred \in Int /\ d.receivable \in Int
      /\ d.backlog \in Int /\ d.collected \in Nat /\ d.refunded \in Nat
  BY <1>3, WorkFields
<1>5. IsList(w.invoices, Bill) /\ IsList(w.schedules, Held) /\ w.deal \in Deal
  BY <1>2, WorkFields
<1>6. /\ OwedIn(d.invoices, c) \in Nat /\ OwedIn(w.invoices, c) \in Nat
      /\ HeldIn(d.schedules, "recognition") \in Nat /\ HeldIn(w.schedules, "recognition") \in Nat
      /\ HeldIn(d.schedules, "reserve") \in Nat /\ HeldIn(w.schedules, "reserve") \in Nat
  BY <1>4, <1>5, OwedType, HeldType
<1>7. Pledged(d.deal) \in Nat /\ Pledged(w.deal) \in Nat
  BY <1>4, <1>5 DEF Pledged, Deal
<1>8. /\ OwedIn(d.invoices, c) = OwedIn(w.invoices, c) + d.receivable
      /\ Pledged(d.deal) = Pledged(w.deal) + d.backlog
      /\ HeldIn(d.schedules, "recognition") = HeldIn(w.schedules, "recognition") + d.deferred
      /\ HeldIn(d.schedules, "reserve") = HeldIn(w.schedules, "reserve") + d.restricted
      /\ d.free + d.restricted + d.deferred + d.refunded = d.collected
  BY <1>1, <1>3, <1>4, <1>6, <1>7 DEF SameGaps
<1> QED BY <1>1, <1>8 DEF PostedFor, AfterTick

(* The sums over the contracts: the buckets match the book again.          *)
LEMMA BucketsAfterTick ==
  ASSUME AccountsOpen, BucketsMatchTheBook, IsFiniteSet(Contracts), NEW done, TickedTo(done),
         \A c \in Contracts : done[c] \in Works,
         \A c \in Contracts : PostedFor(done[c], c),
         \A c \in Contracts : Pledged(econ[c]) \in Nat /\ Pledged(econ'[c]) \in Nat,
         \A c \in Contracts : OwedIn(invoices[c], c) \in Nat /\ OwedIn(invoices'[c], c) \in Nat,
         \A reason : \A c \in Contracts :
           HeldIn(schedules[c], reason) \in Nat /\ HeldIn(schedules'[c], reason) \in Nat
  PROVE  BucketsMatchTheBook'
<1> DEFINE S == Contracts
           free == [c \in S |-> done[c].free]
           restricted == [c \in S |-> done[c].restricted]
           deferred == [c \in S |-> done[c].deferred]
           receivable == [c \in S |-> done[c].receivable]
           backlog == [c \in S |-> done[c].backlog]
           got == [c \in S |-> done[c].collected]
           back == [c \in S |-> done[c].refunded]
           owed == [c \in S |-> OwedIn(invoices[c], c)]
           owed1 == [c \in S |-> OwedIn(invoices'[c], c)]
           due == [c \in S |-> Pledged(econ[c])]
           due1 == [c \in S |-> Pledged(econ'[c])]
           held(reason) == [c \in S |-> HeldIn(schedules[c], reason)]
           held1(reason) == [c \in S |-> HeldIn(schedules'[c], reason)]
<1>0. IsFiniteSet(S)
  OBVIOUS
<1>1. /\ Contracts' = S
      /\ cash' = [bucket \in Bucket |-> cash[bucket] + Posted(done, bucket)]
      /\ collected' = collected + Total(got) /\ refunded' = refunded + Total(back)
  BY DEF TickedTo, Contracts
<1>2. /\ cash.receivable = Total(owed) /\ cash.backlog = Total(due)
      /\ cash.deferred = Total(held("recognition")) /\ cash.restricted = Total(held("reserve"))
      /\ cash.free + cash.restricted + cash.deferred = collected - refunded
  BY DEF BucketsMatchTheBook
<1>3. /\ cash'.receivable = cash.receivable + Total(receivable)
      /\ cash'.backlog = cash.backlog + Total(backlog)
      /\ cash'.deferred = cash.deferred + Total(deferred)
      /\ cash'.restricted = cash.restricted + Total(restricted)
      /\ cash'.free = cash.free + Total(free)
  BY <1>1 DEF Posted, Bucket
<1>4. /\ free \in [S -> Int] /\ restricted \in [S -> Int] /\ deferred \in [S -> Int]
      /\ receivable \in [S -> Int] /\ backlog \in [S -> Int]
      /\ got \in [S -> Int] /\ back \in [S -> Int]
  <2>1. \A c \in S : /\ done[c].free \in Int /\ done[c].restricted \in Int /\ done[c].deferred \in Int
                     /\ done[c].receivable \in Int /\ done[c].backlog \in Int
                     /\ done[c].collected \in Int /\ done[c].refunded \in Int
    BY WorkFields
  <2> QED BY <2>1
<1>5. /\ owed \in [S -> Int] /\ owed1 \in [S -> Int] /\ due \in [S -> Int] /\ due1 \in [S -> Int]
      /\ \A reason : held(reason) \in [S -> Int] /\ held1(reason) \in [S -> Int]
  OBVIOUS
<1>6. Total(owed1) = Total(owed) + Total(receivable)
  <2>1. \A c \in S : owed1[c] = owed[c] + receivable[c]
    BY DEF PostedFor
  <2> HIDE DEF owed, owed1, receivable, S
  <2> QED BY <1>0, <1>4, <1>5, <2>1, TotalOfSums
<1>7. Total(due1) = Total(due) + Total(backlog)
  <2>1. \A c \in S : due1[c] = due[c] + backlog[c]
    BY DEF PostedFor
  <2> HIDE DEF due, due1, backlog, S
  <2> QED BY <1>0, <1>4, <1>5, <2>1, TotalOfSums
<1>8. Total(held1("recognition")) = Total(held("recognition")) + Total(deferred)
  <2> DEFINE before == held("recognition")
             after == held1("recognition")
  <2>1. \A c \in S : after[c] = before[c] + deferred[c]
    BY DEF PostedFor
  <2>2. before \in [S -> Int] /\ after \in [S -> Int]
    BY <1>5
  <2> HIDE DEF before, after, deferred, S
  <2>3. Total(after) = Total(before) + Total(deferred)
    BY <1>0, <1>4, <2>1, <2>2, TotalOfSums
  <2> QED BY <2>3 DEF before, after
<1>9. Total(held1("reserve")) = Total(held("reserve")) + Total(restricted)
  <2> DEFINE before == held("reserve")
             after == held1("reserve")
  <2>1. \A c \in S : after[c] = before[c] + restricted[c]
    BY DEF PostedFor
  <2>2. before \in [S -> Int] /\ after \in [S -> Int]
    BY <1>5
  <2> HIDE DEF before, after, restricted, S
  <2>3. Total(after) = Total(before) + Total(restricted)
    BY <1>0, <1>4, <2>1, <2>2, TotalOfSums
  <2> QED BY <2>3 DEF before, after
<1>10. Total(free) + Total(restricted) + Total(deferred) + Total(back) = Total(got)
  <2> DEFINE one == [c \in S |-> free[c] + restricted[c]]
             two == [c \in S |-> one[c] + deferred[c]]
  <2>1. one \in [S -> Int] /\ \A c \in S : one[c] = free[c] + restricted[c]
    <3> HIDE DEF free, restricted, S
    <3> QED BY <1>4
  <2>2. two \in [S -> Int] /\ \A c \in S : two[c] = one[c] + deferred[c]
    <3> HIDE DEF one, deferred, S
    <3> QED BY <1>4, <2>1
  <2> HIDE DEF one, two
  <2>3. \A c \in S : got[c] = two[c] + back[c]
    <3> SUFFICES ASSUME NEW c \in S PROVE got[c] = two[c] + back[c]
      OBVIOUS
    <3>1. PostedFor(done[c], c)
      OBVIOUS
    <3>2. two[c] = done[c].free + done[c].restricted + done[c].deferred
      BY <2>1, <2>2
    <3> QED BY <3>1, <3>2 DEF PostedFor
  <2> HIDE DEF free, restricted, deferred, got, back, S
  <2>4. Total(one) = Total(free) + Total(restricted)
    BY <1>0, <1>4, <2>1, TotalOfSums
  <2>5. Total(two) = Total(one) + Total(deferred)
    <3>1. deferred \in [S -> Int] /\ one \in [S -> Int] /\ two \in [S -> Int]
      BY <1>4, <2>1, <2>2
    <3>2. \A c \in S : two[c] = one[c] + deferred[c]
      BY <2>2
    <3> QED BY <1>0, <3>1, <3>2, TotalOfSums
  <2>6. Total(got) = Total(two) + Total(back)
    BY <1>0, <1>4, <2>2, <2>3, TotalOfSums
  <2> QED BY <2>4, <2>5, <2>6
<1>11. /\ Total(free) \in Int /\ Total(restricted) \in Int /\ Total(deferred) \in Int
       /\ Total(got) \in Int /\ Total(back) \in Int
  <2> HIDE DEF free, restricted, deferred, got, back, S
  <2> QED BY <1>0, <1>4, TotalType
<1>12. /\ cash.free \in Int /\ cash.restricted \in Int /\ cash.deferred \in Int
       /\ collected \in Int /\ refunded \in Int
  BY DEF AccountsOpen, Bucket
<1>13. /\ cash'.receivable = Total(owed1) /\ cash'.backlog = Total(due1)
       /\ cash'.deferred = Total(held1("recognition")) /\ cash'.restricted = Total(held1("reserve"))
  BY <1>2, <1>3, <1>6, <1>7, <1>8, <1>9
<1>14. cash'.free + cash'.restricted + cash'.deferred = collected' - refunded'
  <2> HIDE DEF free, restricted, deferred, got, back, S
  <2> QED BY <1>1, <1>2, <1>3, <1>10, <1>11, <1>12
<1> QED BY <1>1, <1>13, <1>14 DEF BucketsMatchTheBook

(* A tick keeps the invariant.                                             *)
LEMMA AccountsAfterTick ==
  ASSUME BillingAssumption, AccountsInv, EconomyTick
  PROVE  AccountsInv'
<1>1. AccountsOpen /\ AccountsHold /\ BucketsMatchTheBook
  BY DEF AccountsInv
<1>2. PICK done : TickedTo(done)
  BY <1>1, TickIsDone
<1>3. \A c \in Contracts : c \in Contract /\ Working(c) \in Works
  BY <1>1 DEF AccountsOpen, AccountsHold
<1>4. now' \in Nat /\ Contracts' = Contracts
  BY <1>2 DEF TickedTo, Contracts
<1>5. ASSUME NEW c \in Contracts
      PROVE  /\ done[c] \in Works /\ AfterTick(done[c], c) /\ PostedFor(done[c], c)
             /\ Account(Working(c)', now') /\ Clean(Working(c)')
  <2> DEFINE d == done[c]
             w == Working(c)
             v == Working(c)'
  <2>1. TickOf(d, w, c, now') /\ LeavesOf(done, c)
    BY <1>2 DEF TickedTo
  <2>2. c \in Contract /\ w \in Works
    BY <1>3
  <2> HIDE DEF w
  <2>3. d \in Works
    <3> HIDE DEF d
    <3> QED BY <2>1, GapsOfTick
  <2>4. AfterTick(d, c)
    BY <2>1, <2>2, <2>3, ContractAfterTick
  <2>5. PostedFor(d, c)
    <3> HIDE DEF d
    <3> USE DEF w
    <3> QED BY <2>1, <2>2, <2>4, PostingsOfTick
  <2>6. v = Working(c)'
    OBVIOUS
  <2> HIDE DEF v, d
  <2>7. Account(v, now') /\ Clean(v)
    BY <1>4, <2>1, <2>2, <2>4, <2>6, AccountAfterTick
  <2> QED BY <2>3, <2>4, <2>5, <2>7 DEF v, d
<1>6. IsFiniteSet(Contracts)
  <2>1. Contracts \subseteq Contract /\ IsFiniteSet(Contract)
    BY <1>3 DEF BillingAssumption
  <2> QED BY <2>1, FS_Subset
<1>7. ASSUME NEW c \in Contracts
      PROVE  /\ Pledged(econ[c]) \in Nat /\ Pledged(econ'[c]) \in Nat
             /\ OwedIn(invoices[c], c) \in Nat /\ OwedIn(invoices'[c], c) \in Nat
             /\ \A reason : HeldIn(schedules[c], reason) \in Nat /\ HeldIn(schedules'[c], reason) \in Nat
  <2>1. /\ econ[c] \in Deal /\ IsList(invoices[c], Bill) /\ IsList(schedules[c], Held)
        /\ econ'[c] \in Deal /\ IsList(invoices'[c], Bill) /\ IsList(schedules'[c], Held)
    <3>1. Working(c) \in Works /\ Working(c)' \in Works
      BY <1>3, <1>5 DEF AfterTick
    <3> QED BY <3>1, WorkFields DEF Working
  <2>2. Pledged(econ[c]) \in Nat /\ Pledged(econ'[c]) \in Nat
    BY <2>1 DEF Pledged, Deal
  <2>3. c \in Contract
    BY <1>3
  <2> QED BY <2>1, <2>2, <2>3, OwedType, HeldType
<1>8. BucketsMatchTheBook'
  BY <1>1, <1>2, <1>5, <1>6, <1>7, BucketsAfterTick
<1>9. AccountsHold'
  <2>1. \A c \in Contracts : Working(c)' \in Works
    BY <1>5 DEF AfterTick
  <2> QED BY <1>4, <1>5, <2>1 DEF AccountsHold
<1>10. AccountsOpen'
  <2>1. TickedTo(done) /\ AccountsOpen
    BY <1>1, <1>2
  <2>2. now' \in 0..MaxNow
    BY <2>1 DEF TickedTo, BillingAssumption
  <2>3. cash' \in [Bucket -> Int]
    <3>1. \A bucket \in Bucket : Posted(done, bucket) \in Int
      <4> SUFFICES ASSUME NEW bucket \in Bucket PROVE Posted(done, bucket) \in Int
        OBVIOUS
      <4> DEFINE amount == [c \in Contracts |-> done[c][bucket]]
      <4>1. amount \in [Contracts -> Int]
        <5>1. \A c \in Contracts : done[c][bucket] \in Int
          BY <1>5, WorkFields DEF Bucket
        <5> QED BY <5>1
      <4> HIDE DEF amount
      <4>2. Total(amount) \in Int
        BY <1>6, <4>1, TotalType
      <4> QED BY <4>2 DEF amount, Posted
    <3>2. \A bucket \in Bucket : cash[bucket] \in Int
      BY <2>1 DEF AccountsOpen
    <3> QED BY <2>1, <3>1, <3>2 DEF TickedTo
  <2>4. collected' \in Nat /\ refunded' \in Nat
    <3> DEFINE got == [c \in Contracts |-> done[c].collected]
               back == [c \in Contracts |-> done[c].refunded]
    <3>1. got \in [Contracts -> Nat] /\ back \in [Contracts -> Nat]
      <4>1. \A c \in Contracts : done[c].collected \in Nat /\ done[c].refunded \in Nat
        BY <1>5, WorkFields
      <4> QED BY <4>1
    <3>2. collected' = collected + Total(got) /\ refunded' = refunded + Total(back)
      BY <2>1 DEF TickedTo
    <3> HIDE DEF got, back
    <3>3. Total(got) \in Nat /\ Total(back) \in Nat
      BY <1>6, <3>1, TotalOfNaturals
    <3> QED BY <2>1, <3>2, <3>3 DEF AccountsOpen
  <2>5. dark' \subseteq Contracts
    BY <2>1 DEF TickedTo, AccountsOpen, InPhase
  <2> QED BY <1>4, <2>1, <2>2, <2>3, <2>4, <2>5 DEF AccountsOpen, TickedTo
<1> QED BY <1>8, <1>9, <1>10 DEF AccountsInv

-----------------------------------------------------------------------------
(* The accounts are in order from the start, and every tick keeps them so. *)
LEMMA AccountsAtFirst ==
  ASSUME BillingAssumption, BillingInit
  PROVE  AccountsInv
<1>1. PICK book \in Books : econ = [c \in book |-> Opened(c)]
  BY DEF BillingInit
<1>2. /\ Contracts = book /\ Contracts \subseteq Contract /\ now = 0
      /\ invoices = [c \in Contracts |-> <<>>] /\ schedules = [c \in Contracts |-> <<>>]
      /\ cash = NoMoney /\ collected = 0 /\ refunded = 0 /\ dark = {}
  BY <1>1 DEF BillingInit, Contracts, BillingAssumption
<1>3. AccountsOpen
  <2>1. 0 \in 0..MaxNow
    BY DEF BillingAssumption
  <2>2. NoMoney \in [Bucket -> Int]
    BY DEF NoMoney
  <2> QED BY <1>2, <2>1, <2>2 DEF AccountsOpen
<1>4. ASSUME NEW c \in Contracts
      PROVE  /\ Working(c) \in Works /\ Account(Working(c), now) /\ Clean(Working(c))
             /\ econ[c] = Opened(c) /\ invoices[c] = <<>> /\ schedules[c] = <<>>
             /\ econ[c] \in Deal /\ ~econ[c].signed
  <2> DEFINE w == Working(c)
  <2>1. econ[c] = Opened(c) /\ invoices[c] = <<>> /\ schedules[c] = <<>> /\ c \in Contract
    BY <1>1, <1>2
  <2>2. Start[c] \in Nat /\ End[c] \in Nat /\ Promise[c] \in Nat
    BY <2>1, ContractFacts
  <2>3. econ[c] \in Deal
    <3> DEFINE phase == IF Start[c] > 0 THEN "pending" ELSE "active"
               backlog == IF Start[c] > 0 THEN Promise[c] ELSE 0
    <3>1. phase \in {"pending", "active"} /\ backlog \in Nat
      BY <2>2
    <3>2. econ[c] = [phase |-> phase, termEnd |-> End[c], anchor |-> Start[c], cycles |-> 0,
                     backlog |-> backlog, signed |-> FALSE]
      BY <2>1 DEF Opened
    <3> HIDE DEF phase, backlog
    <3> QED BY <2>2, <3>1, <3>2 DEF Deal
  <2>4. /\ econ[c].phase \in {"pending", "active"} /\ ~econ[c].signed
        /\ econ[c].phase # "pending" => econ[c].backlog = 0
    BY <2>1, <2>2 DEF Opened
  <2>5. <<>> \in Seq(Bill) /\ <<>> \in Seq(Held)
    OBVIOUS
  <2>6. w \in Works
    BY <2>1, <2>3, <2>5 DEF Working, Works
  <2>7. /\ w.deal = econ[c] /\ w.invoices = <<>> /\ w.schedules = <<>>
    BY <2>1 DEF Working
  <2> HIDE DEF w
  <2>8. Account(w, now)
    <3>1. DarkIsLate(w.invoices, now)
      BY <2>7 DEF DarkIsLate
    <3> QED BY <2>4, <2>7, <3>1 DEF Account, Entered
  <2>9. Clean(w)
    BY <2>7 DEF Clean
  <2> QED BY <2>1, <2>3, <2>4, <2>6, <2>8, <2>9 DEF w
<1>5. AccountsHold
  BY <1>4 DEF AccountsHold
<1>6. BucketsMatchTheBook
  <2>1. IsFiniteSet(Contracts)
    BY <1>2, FS_Subset DEF BillingAssumption
  <2>2. \A f \in [Contracts -> Int] : (\A c \in Contracts : f[c] = 0) => Total(f) = 0
    <3> SUFFICES ASSUME NEW f \in [Contracts -> Int], \A c \in Contracts : f[c] = 0 PROVE Total(f) = 0
      OBVIOUS
    <3>1. \A c \in Contracts : f[c] = f[c] + f[c]
      OBVIOUS
    <3>2. Total(f) = Total(f) + Total(f)
      BY <2>1, <3>1, TotalOfSums
    <3>3. Total(f) \in Int
      BY <2>1, TotalType
    <3> DEFINE sum == Total(f)
    <3> HIDE DEF sum
    <3>4. sum = sum + sum /\ sum \in Int
      BY <3>2, <3>3 DEF sum
    <3>5. sum = 0
      BY <3>4
    <3> QED BY <3>5 DEF sum
  <2>3. \A f : f \in [{} -> Int] => Total(f) = 0
    BY FS_EmptySet, TotalType
  <2>4. Total([c \in Contracts |-> OwedIn(invoices[c], c)]) = 0
    <3>1. \A c \in Contracts : OwedIn(invoices[c], c) = 0
      <4> SUFFICES ASSUME NEW c \in Contracts PROVE OwedIn(invoices[c], c) = 0
        OBVIOUS
      <4> DEFINE f == [i \in DOMAIN invoices[c] |-> IF IsOwed(invoices[c][i]) THEN Gross[c] ELSE 0]
      <4>1. f \in [{} -> Int]
        BY <1>4
      <4> HIDE DEF f
      <4>2. Total(f) = 0
        BY <2>3, <4>1
      <4> QED BY <4>2 DEF f, OwedIn
    <3> QED BY <2>2, <3>1
  <2>5. Total([c \in Contracts |-> Pledged(econ[c])]) = 0
    <3>1. \A c \in Contracts : Pledged(econ[c]) = 0
      BY <1>4 DEF Pledged
    <3> QED BY <2>2, <3>1
  <2>6. \A reason : Total([c \in Contracts |-> HeldIn(schedules[c], reason)]) = 0
    <3> TAKE reason
    <3>1. \A c \in Contracts : HeldIn(schedules[c], reason) = 0
      <4> SUFFICES ASSUME NEW c \in Contracts PROVE HeldIn(schedules[c], reason) = 0
        OBVIOUS
      <4> DEFINE f == [k \in DOMAIN schedules[c] |->
                        IF schedules[c][k].reason = reason THEN Rest(schedules[c][k]) ELSE 0]
      <4>1. f \in [{} -> Int]
        BY <1>4
      <4> HIDE DEF f
      <4>2. Total(f) = 0
        BY <2>3, <4>1
      <4> QED BY <4>2 DEF f, HeldIn
    <3> QED BY <2>2, <3>1
  <2>7. /\ cash.receivable = 0 /\ cash.backlog = 0 /\ cash.deferred = 0 /\ cash.restricted = 0
        /\ cash.free = 0
    BY <1>2 DEF NoMoney, Bucket
  <2>8. cash.free + cash.restricted + cash.deferred = collected - refunded
    BY <1>2, <2>7
  <2> QED BY <2>4, <2>5, <2>6, <2>7, <2>8 DEF BucketsMatchTheBook
<1> QED BY <1>3, <1>5, <1>6 DEF AccountsInv

(* So does a step that changes nothing.                                    *)
LEMMA AccountsUnchanged ==
  ASSUME AccountsInv, UNCHANGED billingVars
  PROVE  AccountsInv'
<1>1. /\ now' = now /\ econ' = econ /\ invoices' = invoices /\ schedules' = schedules /\ cash' = cash
      /\ collected' = collected /\ refunded' = refunded /\ dark' = dark /\ Contracts' = Contracts
  BY DEF billingVars, Contracts
<1>2. AccountsOpen' /\ AccountsHold'
  BY <1>1 DEF AccountsInv, AccountsOpen, AccountsHold, Working
<1>3. BucketsMatchTheBook'
  BY <1>1 DEF AccountsInv, BucketsMatchTheBook
<1> QED BY <1>2, <1>3 DEF AccountsInv

(* The accounts are in order in every state of every company, of any       *)
(* number of contracts and for any amounts, periods and terms.             *)
THEOREM AccountsAlways ==
  ASSUME BillingAssumption
  PROVE  BillingSpec => []AccountsInv
<1>1. BillingInit => AccountsInv
  BY AccountsAtFirst
<1>2. AccountsInv /\ [EconomyTick]_billingVars => AccountsInv'
  BY AccountsAfterTick, AccountsUnchanged
<1> QED BY <1>1, <1>2, PTL DEF BillingSpec

(* The buckets of the bank and the book of invoices, deals and schedules   *)
(* never disagree: every payment, bill, recovery, write-off, refund and    *)
(* release of economy/tick.ts posts what it changes.                       *)
THEOREM BucketsAlwaysMatch ==
  ASSUME BillingAssumption
  PROVE  BillingSpec => []BucketsMatchTheBook
<1>1. AccountsInv => BucketsMatchTheBook
  BY DEF AccountsInv
<1> QED BY <1>1, AccountsAlways, PTL

(* A contract that ended never has money deferred or backlog again.        *)
THEOREM NothingIsDeferredForTheDead ==
  ASSUME BillingAssumption
  PROVE  BillingSpec => []NothingDeferredForTheDead
<1>1. AccountsInv => NothingDeferredForTheDead
  <2> SUFFICES ASSUME AccountsInv, NEW c \in InPhase("terminated")
               PROVE  /\ econ[c].backlog = 0
                      /\ \A k \in DOMAIN schedules[c] : schedules[c][k].reason # "recognition"
    BY DEF NothingDeferredForTheDead
  <2>1. c \in Contracts /\ econ[c].phase = "terminated"
    BY DEF InPhase
  <2>2. Account(Working(c), now) /\ Clean(Working(c))
    BY <2>1 DEF AccountsInv, AccountsHold
  <2>3. Working(c).deal = econ[c] /\ Working(c).schedules = schedules[c]
    BY DEF Working
  <2> QED BY <2>1, <2>2, <2>3 DEF Account, Ended, Clean
<1> QED BY <1>1, AccountsAlways, PTL

(* A suspended contract has an invoice at the stage that turned it off:    *)
(* recoveries, write-offs, renewals and prunes included.                   *)
THEOREM SuspendedContractsAlwaysOwe ==
  ASSUME BillingAssumption
  PROVE  BillingSpec => []SuspendedContractsOwe
<1>1. AccountsInv => SuspendedContractsOwe
  <2> SUFFICES ASSUME AccountsInv, NEW c \in InPhase("suspended")
               PROVE  \E i \in DOMAIN invoices[c] :
                        invoices[c][i].state = "failed" /\ invoices[c][i].stage = "suspend"
    BY DEF SuspendedContractsOwe
  <2>1. c \in Contracts /\ econ[c].phase = "suspended"
    BY DEF InPhase
  <2>2. Account(Working(c), now)
    BY <2>1 DEF AccountsInv, AccountsHold
  <2>3. Working(c).deal = econ[c] /\ Working(c).invoices = invoices[c]
    BY DEF Working
  <2> QED BY <2>1, <2>2, <2>3 DEF Account, Dark
<1> QED BY <1>1, AccountsAlways, PTL

(* Types, with the buckets that are never overdrawn: all but the free one. *)
THEOREM BillingTypeAlways ==
  ASSUME BillingAssumption
  PROVE  BillingSpec => []BillingTypeOK
<1>1. AccountsInv => BillingTypeOK
  <2> SUFFICES ASSUME AccountsInv PROVE BillingTypeOK
    OBVIOUS
  <2>1. AccountsOpen /\ AccountsHold /\ BucketsMatchTheBook
    BY DEF AccountsInv
  <2>2. ASSUME NEW c \in Contracts
        PROVE  /\ c \in Contract /\ econ[c] \in Deal
               /\ IsList(invoices[c], Bill) /\ IsList(schedules[c], Held)
               /\ \A k \in DOMAIN schedules[c] : Unreleased(schedules[c][k])
    <3>1. Working(c) \in Works /\ Clean(Working(c)) /\ c \in Contract
      BY <2>1 DEF AccountsHold, AccountsOpen
    <3>2. /\ Working(c).deal = econ[c] /\ Working(c).invoices = invoices[c]
          /\ Working(c).schedules = schedules[c]
      BY DEF Working
    <3> QED BY <3>1, <3>2, WorkFields DEF Clean
  <2>3. IsFiniteSet(Contracts)
    BY <2>1, FS_Subset DEF AccountsOpen, BillingAssumption
  <2>4. cash.receivable >= 0
    <3> DEFINE f == [c \in Contracts |-> OwedIn(invoices[c], c)]
    <3>1. f \in [Contracts -> Nat]
      BY <2>2, OwedType
    <3> HIDE DEF f
    <3>2. Total(f) \in Nat
      BY <2>3, <3>1, TotalOfNaturals
    <3>3. cash.receivable = Total(f)
      BY <2>1 DEF BucketsMatchTheBook, f
    <3> QED BY <3>2, <3>3
  <2>5. cash.backlog >= 0
    <3> DEFINE f == [c \in Contracts |-> Pledged(econ[c])]
    <3>1. f \in [Contracts -> Nat]
      BY <2>2 DEF Pledged, Deal
    <3> HIDE DEF f
    <3>2. Total(f) \in Nat
      BY <2>3, <3>1, TotalOfNaturals
    <3>3. cash.backlog = Total(f)
      BY <2>1 DEF BucketsMatchTheBook, f
    <3> QED BY <3>2, <3>3
  <2>6. ASSUME NEW reason PROVE Total([c \in Contracts |-> HeldIn(schedules[c], reason)]) \in Nat
    <3> DEFINE f == [c \in Contracts |-> HeldIn(schedules[c], reason)]
    <3>1. f \in [Contracts -> Nat]
      BY <2>2, HeldType
    <3> HIDE DEF f
    <3>2. Total(f) \in Nat
      BY <2>3, <3>1, TotalOfNaturals
    <3> QED BY <3>2 DEF f
  <2>7. cash.deferred >= 0 /\ cash.restricted >= 0
    <3>1. /\ cash.deferred = Total([c \in Contracts |-> HeldIn(schedules[c], "recognition")])
          /\ cash.restricted = Total([c \in Contracts |-> HeldIn(schedules[c], "reserve")])
      BY <2>1 DEF BucketsMatchTheBook
    <3>2. cash.deferred \in Nat
      BY <2>6, <3>1
    <3>3. cash.restricted \in Nat
      BY <2>6, <3>1
    <3> QED BY <3>2, <3>3
  <2>8. \A bucket \in Bucket \ {"free"} : cash[bucket] >= 0
    BY <2>4, <2>5, <2>7 DEF Bucket
  <2>9. ASSUME NEW c \in Contracts
        PROVE  /\ econ[c] \in [phase : {"pending", "active", "suspended", "terminated"}, termEnd : Nat,
                               anchor : Nat, cycles : Nat, backlog : Nat, signed : BOOLEAN]
               /\ invoices[c] \in Seq([cycle : Nat, from : Nat, due : Nat, stage : Stage,
                                       state : {"issued", "failed", "paid", "written-off"}])
               /\ \A k \in DOMAIN schedules[c] :
                    Unreleased(schedules[c][k]) /\ schedules[c][k].released \in Nat
    <3>1. econ[c] \in Deal /\ IsList(invoices[c], Bill) /\ IsList(schedules[c], Held)
      BY <2>2
    <3>2. \A k \in DOMAIN schedules[c] : schedules[c][k] \in Held
      BY <3>1, ListFacts
    <3>3. \A k \in DOMAIN schedules[c] : schedules[c][k].released \in Nat
      BY <3>2 DEF Held, Schedule
    <3> QED BY <2>2, <3>1, <3>3 DEF Deal, IsList, Bill
  <2>10. {collected, refunded} \subseteq Nat
    BY <2>1 DEF AccountsOpen
  <2> QED BY <2>1, <2>8, <2>9, <2>10 DEF AccountsOpen, BillingTypeOK
<1> QED BY <1>1, AccountsAlways, PTL

-----------------------------------------------------------------------------
(***************************************************************************)
(* The grids: which periods the invoices of a contract are for.            *)
(***************************************************************************)
(* The grid an invoice is of, told by where it begins.                     *)
Base(bill, c) == bill.from - bill.cycle * Period[c]
Distinct(book) ==
  \A i, j \in DOMAIN book : book[i].cycle = book[j].cycle /\ book[i].from = book[j].from => i = j

(* A grid is never used again once it was left, and in the grid of the day *)
(* the cycles ascend: two invoices never have the number and the period    *)
(* both in common.                                                         *)
GridKept(d, book, c) ==
  /\ d.anchor < d.termEnd
  /\ \A k \in DOMAIN book : Base(book[k], c) <= d.anchor
                            /\ (Base(book[k], c) = d.anchor => book[k].cycle < d.cycles)
  /\ Distinct(book)

(* New invoices of one grid behind the ones that are there.                *)
Extends(after, book, n, count, deal, c) ==
  /\ DOMAIN book = 1..n /\ DOMAIN after = 1..n + count
  /\ \A k \in 1..n : after[k] = book[k]
  /\ \A k \in 1..n + count : k > n =>
       /\ after[k].cycle = deal.cycles + (k - n - 1)
       /\ after[k].from = deal.anchor + (deal.cycles + (k - n - 1)) * Period[c]

(* The calendar issues such invoices.                                      *)
LEMMA IssuedExtends ==
  ASSUME BillingAssumption, NEW c \in Contract, NEW deal \in Deal, NEW count \in Nat, NEW book, NEW after,
         Issued(after, book, deal, c, count)
  PROVE  \E n \in Nat : Extends(after, book, n, count, deal, c)
<1>1. PICK n \in Nat :
        /\ DOMAIN book = 1..n /\ DOMAIN after = 1..n + count
        /\ \A k \in 1..n : after[k] = book[k]
        /\ \A i \in 1..count : after[n + i] = Invoice(deal, c, deal.cycles + i - 1)
  BY DEF Issued
<1>2. ASSUME NEW k \in 1..n + count, k > n
      PROVE  /\ after[k].cycle = deal.cycles + (k - n - 1)
             /\ after[k].from = deal.anchor + (deal.cycles + (k - n - 1)) * Period[c]
  <2> DEFINE i == k - n
             cycle == deal.cycles + (k - n - 1)
  <2>1. i \in 1..count /\ n + i = k
    BY <1>2
  <2>2. deal.cycles \in Nat
    BY DEF Deal
  <2>3. cycle \in Nat /\ deal.cycles + i - 1 = cycle
    BY <1>2, <2>2
  <2> HIDE DEF i, cycle
  <2>4. after[k] = Invoice(deal, c, cycle)
    BY <1>1, <2>1, <2>3
  <2>5. /\ Invoice(deal, c, cycle).cycle = cycle
        /\ Invoice(deal, c, cycle).from = deal.anchor + cycle * Period[c]
    BY <2>3, InvoiceIsBill
  <2>6. after[k].cycle = cycle /\ after[k].from = deal.anchor + cycle * Period[c]
    BY <2>4, <2>5
  <2> QED BY <2>6 DEF cycle
<1> QED BY <1>1, <1>2 DEF Extends

(* A renewal opens a grid that starts after every grid before it.          *)
LEMMA GridAtCliff ==
  ASSUME BillingAssumption, NEW c \in Contract, NEW e \in Deal, NEW d \in Deal, NEW t, Cliffed(d, e, c, t),
         NEW book, IsList(book, Bill), GridKept(e, book, c)
  PROVE  GridKept(d, book, c)
<1>1. CASE SameGrid(d, e)
  BY <1>1 DEF GridKept, SameGrid
<1>2. CASE Renews(d, e, c, t)
  <2>1. d.anchor = e.termEnd /\ d.termEnd = e.termEnd + (End[c] - Start[c])
    BY <1>2 DEF Renews
  <2>2. e.termEnd \in Nat /\ e.anchor \in Nat /\ End[c] \in Nat /\ Start[c] \in Nat /\ Start[c] < End[c]
    BY ContractFacts DEF Deal
  <2>3. d.anchor < d.termEnd
    BY <2>1, <2>2
  <2>4. e.anchor < d.anchor
    BY <2>1 DEF GridKept
  <2>5. ASSUME NEW k \in DOMAIN book PROVE Base(book[k], c) \in Int /\ Base(book[k], c) < d.anchor
    <3>1. Base(book[k], c) <= e.anchor
      BY DEF GridKept
    <3>2. Base(book[k], c) \in Int
      <4>1. book[k] \in Bill /\ Period[c] \in Nat
        BY ListFacts, ContractFacts
      <4>2. book[k].from \in Nat /\ book[k].cycle \in Nat
        BY <4>1 DEF Bill
      <4> DEFINE span == book[k].cycle * Period[c]
      <4>3. span \in Nat
        BY <4>1, <4>2
      <4> HIDE DEF span
      <4>4. book[k].from - span \in Int
        BY <4>2, <4>3
      <4> QED BY <4>4 DEF Base, span
    <3> QED BY <2>1, <2>2, <2>4, <3>1, <3>2
  <2>6. \A k \in DOMAIN book : Base(book[k], c) <= d.anchor /\ Base(book[k], c) # d.anchor
    <3> SUFFICES ASSUME NEW k \in DOMAIN book
                 PROVE  Base(book[k], c) <= d.anchor /\ Base(book[k], c) # d.anchor
      OBVIOUS
    <3> DEFINE base == Base(book[k], c)
    <3>1. base \in Int /\ base < d.anchor /\ d.anchor \in Int
      BY <2>1, <2>2, <2>5
    <3> HIDE DEF base
    <3>2. base <= d.anchor /\ base # d.anchor
      BY <3>1
    <3> QED BY <3>2 DEF base
  <2> QED BY <2>3, <2>6 DEF GridKept
<1> QED BY <1>1, <1>2 DEF Cliffed

(* Invoices of the next cycles keep the grid.                              *)
LEMMA GridExtended ==
  ASSUME BillingAssumption, NEW c \in Contract, NEW e \in Deal, NEW d \in Deal, NEW count \in Nat,
         d.anchor = e.anchor, d.termEnd = e.termEnd, d.cycles = e.cycles + count,
         NEW book, IsList(book, Bill), NEW after, NEW n \in Nat, Extends(after, book, n, count, e, c),
         GridKept(e, book, c)
  PROVE  GridKept(d, after, c)
<1>0. e.cycles \in Nat /\ e.anchor \in Nat /\ Period[c] \in Nat
  BY ContractFacts DEF Deal
<1>1. /\ DOMAIN book = 1..n /\ DOMAIN after = 1..n + count
      /\ \A k \in 1..n : after[k] = book[k]
  BY DEF Extends
<1>2. ASSUME NEW k \in 1..n + count, k > n
      PROVE  /\ after[k].cycle = e.cycles + (k - n - 1)
             /\ Base(after[k], c) = e.anchor
  <2> DEFINE cycle == e.cycles + (k - n - 1)
  <2>1. after[k].cycle = cycle /\ after[k].from = e.anchor + cycle * Period[c]
    BY <1>2 DEF Extends
  <2>2. cycle \in Nat
    BY <1>0, <1>2
  <2> HIDE DEF cycle
  <2> DEFINE span == cycle * Period[c]
  <2>3. span \in Nat
    BY <1>0, <2>2
  <2>4. Base(after[k], c) = (e.anchor + span) - span
    BY <2>1 DEF Base
  <2> HIDE DEF span
  <2>5. Base(after[k], c) = e.anchor
    BY <1>0, <2>3, <2>4
  <2> QED BY <2>1, <2>5 DEF cycle
<1>3. ASSUME NEW k \in 1..n
      PROVE  /\ Base(after[k], c) <= e.anchor
             /\ Base(after[k], c) = e.anchor => after[k].cycle < e.cycles
  BY <1>1, <1>3 DEF GridKept
<1>4. ASSUME NEW k \in DOMAIN after
      PROVE  Base(after[k], c) <= d.anchor /\ (Base(after[k], c) = d.anchor => after[k].cycle < d.cycles)
  <2>1. k \in 1..n + count
    BY <1>1
  <2>2. CASE k > n
    <3>1. after[k].cycle = e.cycles + (k - n - 1) /\ Base(after[k], c) = e.anchor
      BY <1>2, <2>1, <2>2
    <3>2. e.cycles + (k - n - 1) < e.cycles + count
      BY <1>0, <2>1, <2>2
    <3> QED BY <1>0, <3>1, <3>2
  <2>3. CASE ~(k > n)
    <3>1. k \in 1..n
      BY <2>1, <2>3
    <3> DEFINE cycle == after[k].cycle
    <3>2. Base(after[k], c) <= e.anchor /\ (Base(after[k], c) = e.anchor => cycle < e.cycles)
      BY <1>3, <3>1
    <3> HIDE DEF cycle
    <3>3. cycle < e.cycles => cycle < e.cycles + count
      <4>1. book[k] \in Bill /\ after[k] = book[k]
        BY <1>1, <3>1, ListFacts
      <4>2. cycle \in Nat
        BY <4>1 DEF Bill, cycle
      <4> QED BY <1>0, <4>2
    <3> QED BY <3>2, <3>3 DEF cycle
  <2> QED BY <2>2, <2>3
<1>5. ASSUME NEW i \in DOMAIN after, NEW j \in DOMAIN after,
             after[i].cycle = after[j].cycle, after[i].from = after[j].from
      PROVE  i = j
  <2>0. i \in 1..n + count /\ j \in 1..n + count /\ Base(after[i], c) = Base(after[j], c)
    BY <1>1, <1>5 DEF Base
  <2>1. CASE i > n /\ j > n
    <3>1. e.cycles + (i - n - 1) = e.cycles + (j - n - 1)
      BY <1>2, <1>5, <2>0, <2>1
    <3> QED BY <1>0, <2>0, <3>1
  <2>2. CASE i > n /\ ~(j > n)
    <3>1. j \in 1..n
      BY <2>0, <2>2
    <3>2. after[j].cycle < e.cycles
      BY <1>2, <1>3, <2>0, <2>2, <3>1
    <3>3. after[j].cycle = e.cycles + (i - n - 1)
      BY <1>2, <1>5, <2>0, <2>2
    <3>4. e.cycles + (i - n - 1) >= e.cycles
      BY <1>0, <2>0, <2>2
    <3> QED BY <1>0, <2>0, <3>2, <3>3, <3>4
  <2>3. CASE ~(i > n) /\ j > n
    <3>1. i \in 1..n
      BY <2>0, <2>3
    <3>2. after[i].cycle < e.cycles
      BY <1>2, <1>3, <2>0, <2>3, <3>1
    <3>3. after[i].cycle = e.cycles + (j - n - 1)
      BY <1>2, <1>5, <2>0, <2>3
    <3>4. e.cycles + (j - n - 1) >= e.cycles
      BY <1>0, <2>0, <2>3
    <3> QED BY <1>0, <2>0, <3>2, <3>3, <3>4
  <2>4. CASE ~(i > n) /\ ~(j > n)
    <3>0. i \in 1..n /\ j \in 1..n
      BY <2>0, <2>4
    <3>1. i \in DOMAIN book /\ j \in DOMAIN book
      BY <1>1, <3>0
    <3>2. after[i] = book[i] /\ after[j] = book[j]
      BY <1>1, <3>1
    <3> QED BY <1>5, <3>1, <3>2 DEF GridKept, Distinct
  <2> QED BY <2>1, <2>2, <2>3, <2>4
<1> QED BY <1>4, <1>5 DEF GridKept, Distinct

(* The sweep changes neither numbers nor periods.                          *)
LEMMA GridSwept ==
  ASSUME NEW c, NEW d, NEW e, SameTerm(d, e), NEW book, NEW after, SameBills(after, book), GridKept(e, book, c)
  PROVE  GridKept(d, after, c)
<1>1. DOMAIN after = DOMAIN book
  BY DEF SameBills
<1>2. \A k \in DOMAIN book : /\ after[k].cycle = book[k].cycle /\ after[k].from = book[k].from
                             /\ Base(after[k], c) = Base(book[k], c)
  BY DEF SameBills, Base
<1> QED BY <1>1, <1>2 DEF GridKept, Distinct, SameTerm

(* Pruning keeps the order of what it keeps.                               *)
LEMMA GridPruned ==
  ASSUME NEW c, NEW d, NEW all, NEW book, KeptFrom(book, all), GridKept(d, all, c),
         IsList(all, Bill), IsList(book, Bill)
  PROVE  GridKept(d, book, c)
<1>1. PICK at \in [DOMAIN book -> DOMAIN all] :
        /\ \A i, j \in DOMAIN book : i < j => at[i] < at[j]
        /\ \A i \in DOMAIN book : book[i] = all[at[i]]
  BY DEF KeptFrom
<1>2. ASSUME NEW i \in DOMAIN book, NEW j \in DOMAIN book, at[i] = at[j] PROVE i = j
  <2>1. Len(book) \in Nat /\ DOMAIN book = 1..Len(book) /\ Len(all) \in Nat /\ DOMAIN all = 1..Len(all)
    BY ListSlots
  <2>2. i \in Int /\ j \in Int
    BY <2>1
  <2>3. at[i] \in DOMAIN all
    BY <1>1
  <2>4. at[i] \in Int /\ at[j] \in Int
    BY <1>2, <2>1, <2>3
  <2>5. ~(i < j) /\ ~(j < i)
    BY <1>1, <1>2, <2>4
  <2> QED BY <2>2, <2>5
<1> QED BY <1>1, <1>2 DEF GridKept, Distinct

(* A bill goes behind the invoices that are there, in the grid of the day: *)
(* no two of the new ones have a number in common.                         *)
Behind(after, book) ==
  /\ DOMAIN book \subseteq DOMAIN after
  /\ \A k \in DOMAIN book : after[k] = book[k]
  /\ \A i, k \in DOMAIN after \ DOMAIN book : after[i].cycle = after[k].cycle => i = k

(* The grid before the sweep.                                              *)
LEMMA GridBilled ==
  ASSUME BillingAssumption, NEW c \in Contract, NEW w \in Works, NEW t \in Nat, NEW b, BilledFrom(b, w, c, t),
         GridKept(w.deal, w.invoices, c)
  PROVE  b \in Works /\ GridKept(b.deal, b.invoices, c) /\ Behind(b.invoices, w.invoices)
<1>1. b \in Works
  BY DEF BilledFrom
<1>2. PICK u \in Works, count \in Nat :
        /\ u.invoices = w.invoices /\ Cliffed(u.deal, w.deal, c, t)
        /\ b.deal.termEnd = u.deal.termEnd /\ b.deal.anchor = u.deal.anchor
        /\ Adds(b, u, c, t, count)
  BY DEF BilledFrom
<1>3. /\ w.deal \in Deal /\ u.deal \in Deal /\ b.deal \in Deal
      /\ IsList(w.invoices, Bill) /\ IsList(u.invoices, Bill) /\ IsList(b.invoices, Bill)
  BY <1>1, <1>2, WorkFields
<1>4. GridKept(u.deal, u.invoices, c)
  <2>1. GridKept(u.deal, w.invoices, c)
    BY <1>2, <1>3, GridAtCliff
  <2> QED BY <1>2, <2>1
<1>5. PICK n \in Nat : Extends(b.invoices, u.invoices, n, count, u.deal, c)
  <2>1. Issued(b.invoices, u.invoices, u.deal, c, count)
    BY <1>2 DEF Adds
  <2> QED BY <1>3, <2>1, IssuedExtends
<1>6. GridKept(b.deal, b.invoices, c)
  <2>1. b.deal.cycles = u.deal.cycles + count
    BY <1>2 DEF Adds
  <2> QED BY <1>2, <1>3, <1>4, <1>5, <2>1, GridExtended
<1>7. Behind(b.invoices, w.invoices)
  <2>1. 1..n \subseteq 1..n + count
    OBVIOUS
  <2>2. /\ DOMAIN w.invoices = 1..n /\ DOMAIN b.invoices = 1..n + count
        /\ \A k \in 1..n : b.invoices[k] = w.invoices[k]
        /\ \A k \in 1..n + count : k > n => b.invoices[k].cycle = u.deal.cycles + (k - n - 1)
    BY <1>2, <1>5 DEF Extends
  <2>3. u.deal.cycles \in Nat
    BY <1>3 DEF Deal
  <2>4. ASSUME NEW i \in 1..n + count, i \notin 1..n, NEW k \in 1..n + count, k \notin 1..n,
               b.invoices[i].cycle = b.invoices[k].cycle
        PROVE  i = k
    <3>1. i > n /\ k > n /\ i \in Nat /\ k \in Nat
      BY <2>4
    <3>2. u.deal.cycles + (i - n - 1) = u.deal.cycles + (k - n - 1)
      BY <2>2, <2>4, <3>1
    <3> QED BY <2>3, <3>1, <3>2
  <2> QED BY <2>1, <2>2, <2>4 DEF Behind
<1> QED BY <1>1, <1>6, <1>7

(* The grid after the tick of one contract.                                *)
LEMMA GridAfterTick ==
  ASSUME BillingAssumption, NEW c \in Contract, NEW w \in Works, NEW t \in Nat, NEW d, TickOf(d, w, c, t),
         GridKept(w.deal, w.invoices, c), NEW after, IsList(after, Bill), KeptFrom(after, d.invoices)
  PROVE  GridKept(d.deal, after, c)
<1>1. PICK b : BilledFrom(b, w, c, t) /\ SweptFrom(d, b, c, t)
  BY DEF TickOf
<1>2. GridKept(b.deal, b.invoices, c)
  BY <1>1, GridBilled
<1>3. d \in Works /\ SameTerm(d.deal, b.deal) /\ SameBills(d.invoices, b.invoices)
  BY <1>1 DEF SweptFrom
<1>4. GridKept(d.deal, d.invoices, c)
  BY <1>2, <1>3, GridSwept
<1>5. IsList(d.invoices, Bill)
  BY <1>3, WorkFields
<1> QED BY <1>4, <1>5, GridPruned

(* An invoice that owns its id has no earlier twin when the sweep begins.  *)
LEMMA OwnerIsFirst ==
  ASSUME NEW w \in Works, NEW b \in Works, Behind(b.invoices, w.invoices), Distinct(b.invoices),
         NEW k \in DOMAIN b.invoices, NEW invoice,
         b.invoices[k].cycle = invoice.cycle, b.invoices[k].from = invoice.from,
         OwnsItsId(w.invoices, invoice)
  PROVE  IsFirst(b.invoices, k)
<1>1. /\ IsList(w.invoices, Bill) /\ DOMAIN w.invoices = 1..Len(w.invoices) /\ Len(w.invoices) \in Nat
      /\ DOMAIN b.invoices = 1..Len(b.invoices) /\ Len(b.invoices) \in Nat
  BY WorkFields, ListSlots
<1> SUFFICES ASSUME NEW m \in 1..k - 1, b.invoices[m].cycle = b.invoices[k].cycle PROVE FALSE
  BY DEF IsFirst
<1>2. m \in DOMAIN b.invoices /\ m \in Nat /\ k \in Nat /\ m < k
  <2> DEFINE n == Len(b.invoices)
  <2>1. n \in Nat /\ k \in 1..n /\ m \in 1..k - 1
    BY <1>1
  <2> HIDE DEF n
  <2>2. m \in 1..n /\ m \in Nat /\ k \in Nat /\ m < k
    BY <2>1
  <2> QED BY <1>1, <2>2 DEF n
<1>3. CASE m \in DOMAIN w.invoices
  <2> DEFINE i == FirstTwin(w.invoices, m)
  <2>1. /\ i \in DOMAIN w.invoices /\ i <= m /\ IsFirst(w.invoices, i)
        /\ w.invoices[i].cycle = w.invoices[m].cycle
    BY <1>1, <1>3, FirstTwinFacts
  <2> HIDE DEF i
  <2>2. w.invoices[i] = b.invoices[i] /\ w.invoices[m] = b.invoices[m] /\ i \in DOMAIN b.invoices
    BY <1>3, <2>1 DEF Behind
  <2>3. w.invoices[i].from = invoice.from
    BY <2>1, <2>2 DEF OwnsItsId
  <2>4. i = k
    BY <2>1, <2>2, <2>3 DEF Distinct
  <2>5. i \in Nat
    BY <1>1, <2>1
  <2> QED BY <1>2, <2>1, <2>4, <2>5
<1>4. CASE m \notin DOMAIN w.invoices
  <2>1. k \notin DOMAIN w.invoices
    <3> DEFINE n == Len(w.invoices)
    <3>1. n \in Nat /\ m \notin 1..n /\ m \in 1..k - 1
      BY <1>1, <1>4
    <3> HIDE DEF n
    <3>2. k \notin 1..n
      BY <1>2, <3>1
    <3> QED BY <1>1, <3>2 DEF n
  <2>2. m = k
    BY <1>2, <1>4, <2>1 DEF Behind
  <2> QED BY <1>2, <2>2
<1> QED BY <1>3, <1>4

(* An invoice that owns its id is the one that its id finds in the sweep;  *)
(* if it had failed before the tick, it is no longer issued there, and the *)
(* visit brings it to the stage of its day.                                *)
LEMMA PaceOfTick ==
  ASSUME BillingAssumption, NEW c \in Contract, NEW w \in Works, NEW t \in Nat, NEW d, TickOf(d, w, c, t),
         GridKept(w.deal, w.invoices, c), NEW after, IsList(after, Bill), KeptFrom(after, d.invoices),
         NEW j \in DOMAIN after, OwnsItsId(w.invoices, after[j]),
         after[j].due <= t, d.deal.phase # "terminated"
  PROVE  KeepsPace(w.invoices, after[j], t)
<1>1. PICK b : /\ BilledFrom(b, w, c, t) /\ SweptFrom(d, b, c, t)
               /\ Paced(d, b, Len(b.invoices), t)
  BY DEF TickOf
<1>2. b \in Works /\ GridKept(b.deal, b.invoices, c) /\ Behind(b.invoices, w.invoices)
  BY <1>1, GridBilled
<1>3. d \in Works /\ SameBills(d.invoices, b.invoices)
  BY <1>1 DEF SweptFrom
<1>4. PICK at \in [DOMAIN after -> DOMAIN d.invoices] :
        \A m \in DOMAIN after : after[m] = d.invoices[at[m]]
  BY DEF KeptFrom
<1> DEFINE k == at[j]
<1>5. /\ k \in DOMAIN b.invoices /\ after[j] = d.invoices[k]
      /\ b.invoices[k].cycle = after[j].cycle /\ b.invoices[k].from = after[j].from
  BY <1>3, <1>4 DEF SameBills
<1> HIDE DEF k
<1>6. Distinct(b.invoices)
  BY <1>2 DEF GridKept
<1>7. IsList(b.invoices, Bill) /\ DOMAIN b.invoices = 1..Len(b.invoices)
  BY <1>2, WorkFields, ListSlots
<1>8. FirstTwin(b.invoices, k) = k
  <2>1. IsFirst(b.invoices, k)
    BY <1>2, <1>5, <1>6, OwnerIsFirst
  <2> QED BY <1>5, <1>7, <2>1, FirstTwinFacts
<1>9. PacedAt(d, b, k, t)
  <2>1. k \in 1..Len(b.invoices)
    BY <1>5, <1>7
  <2>2. PacedAt(d, b, FirstTwin(b.invoices, k), t)
    BY <1>1, <2>1 DEF Paced
  <2> QED BY <1>8, <2>2
<1>10. Answered(after[j], t)
  <2>1. after[j] \in Bill
    BY ListFacts
  <2>2. after[j].due \in Nat
    BY <2>1 DEF Bill
  <2> QED BY <1>5, <1>9, <2>2 DEF PacedAt, OnPace
<1>11. ASSUME HadFailed(w.invoices, after[j]) PROVE AtStage(after[j], t)
  <2>1. PICK i \in DOMAIN w.invoices :
          /\ w.invoices[i].cycle = after[j].cycle /\ w.invoices[i].from = after[j].from
          /\ w.invoices[i].state = "failed"
    BY <1>11 DEF HadFailed
  <2>2. i \in DOMAIN b.invoices /\ b.invoices[i] = w.invoices[i]
    BY <1>2, <2>1 DEF Behind
  <2>3. i = k
    BY <1>5, <1>6, <2>1, <2>2 DEF Distinct
  <2> QED BY <1>5, <1>9, <2>1, <2>2, <2>3 DEF PacedAt, OnStage
<1> QED BY <1>10, <1>11 DEF KeepsPace, Answered, AtStage

(* Between the ticks.                                                      *)
GridsKept == \A c \in Contracts : GridKept(econ[c], invoices[c], c)

(* A tick of the company, seen from each contract.                         *)
LEMMA TickOfEach ==
  ASSUME BillingAssumption, AccountsInv, EconomyTick
  PROVE  /\ now' \in Nat /\ now \in Nat /\ now <= now' /\ now' - now \in Strides
         /\ DOMAIN econ' = Contracts
         /\ \A c \in Contracts : \E d :
              /\ c \in Contract /\ Working(c) \in Works
              /\ TickOf(d, Working(c), c, now') /\ AfterTick(d, c)
         /\ dark' = dark \cup {c \in InPhase("suspended") : now' >= econ[c].termEnd}
<1>1. AccountsOpen /\ AccountsHold
  BY DEF AccountsInv
<1>2. PICK done : TickedTo(done)
  BY <1>1, TickIsDone
<1>3. ASSUME NEW c \in Contracts
      PROVE  \E d : /\ c \in Contract /\ Working(c) \in Works
                    /\ TickOf(d, Working(c), c, now') /\ AfterTick(d, c)
  <2> DEFINE w == Working(c)
             d == done[c]
  <2>1. c \in Contract /\ w \in Works
    BY <1>1 DEF AccountsOpen, AccountsHold
  <2>2. TickOf(d, w, c, now') /\ LeavesOf(done, c)
    BY <1>2 DEF TickedTo
  <2> HIDE DEF w
  <2>3. d \in Works
    <3> HIDE DEF d
    <3> QED BY <2>2, GapsOfTick
  <2>4. AfterTick(d, c)
    BY <2>1, <2>2, <2>3, ContractAfterTick
  <2> QED BY <2>1, <2>2, <2>4 DEF w
<1>4. now \in Nat
  BY <1>1 DEF AccountsOpen
<1> QED BY <1>2, <1>3, <1>4 DEF TickedTo

(* A tick keeps the grids.                                                 *)
LEMMA GridsAfterTick ==
  ASSUME BillingAssumption, AccountsInv, GridsKept, EconomyTick
  PROVE  GridsKept'
<1>1. Contracts' = Contracts /\ now' \in Nat
  BY TickOfEach DEF Contracts
<1>2. ASSUME NEW c \in Contracts PROVE GridKept(econ'[c], invoices'[c], c)
  <2> DEFINE w == Working(c)
  <2>1. w.deal = econ[c] /\ w.invoices = invoices[c]
    BY DEF Working
  <2>2. PICK d : c \in Contract /\ w \in Works /\ TickOf(d, w, c, now') /\ AfterTick(d, c)
    BY TickOfEach
  <2> HIDE DEF w
  <2>3. GridKept(w.deal, w.invoices, c)
    BY <2>1 DEF GridsKept
  <2>4. econ'[c] = d.deal /\ IsList(invoices'[c], Bill) /\ KeptFrom(invoices'[c], d.invoices)
    BY <2>2 DEF AfterTick
  <2>5. GridKept(d.deal, invoices'[c], c)
    BY <1>1, <2>2, <2>3, <2>4, GridAfterTick
  <2> QED BY <2>4, <2>5
<1> QED BY <1>1, <1>2 DEF GridsKept

(* At first there are no invoices.                                         *)
LEMMA GridsAtFirst ==
  ASSUME BillingAssumption, BillingInit
  PROVE  GridsKept
<1>1. ASSUME NEW c \in Contracts PROVE GridKept(econ[c], invoices[c], c)
  <2>1. c \in Contract /\ econ[c] = Opened(c) /\ invoices[c] = <<>>
    BY DEF BillingInit, Contracts, BillingAssumption
  <2>2. Start[c] < End[c]
    BY <2>1, ContractFacts
  <2>3. econ[c].anchor < econ[c].termEnd
    BY <2>1, <2>2 DEF Opened
  <2> QED BY <2>1, <2>3 DEF GridKept, Distinct
<1> QED BY <1>1 DEF GridsKept

(* Accounts and grids are in order in every state.                         *)
LEMMA GridsAlways ==
  ASSUME BillingAssumption
  PROVE  BillingSpec => [](AccountsInv /\ GridsKept)
<1>1. BillingInit => GridsKept
  BY GridsAtFirst
<1>2. AccountsInv /\ GridsKept /\ [EconomyTick]_billingVars => GridsKept'
  <2> SUFFICES ASSUME AccountsInv, GridsKept, [EconomyTick]_billingVars PROVE GridsKept'
    OBVIOUS
  <2>1. CASE EconomyTick
    BY <2>1, GridsAfterTick
  <2>2. CASE UNCHANGED billingVars
    BY <2>2 DEF billingVars, GridsKept, Contracts
  <2> QED BY <2>1, <2>2
<1> QED BY <1>1, <1>2, AccountsAlways, PTL DEF BillingSpec

(* Dunning keeps pace: after every tick an invoice of a live contract that *)
(* is due, old or issued in this tick, was paid, was declined in this very *)
(* tick, or stands at the stage of its day, unless its id was an older     *)
(* invoice's: the sweep of tick.ts finds it by its id, whatever was paid,  *)
(* renewed and pruned around it.                                           *)
THEOREM OverdueIsAlwaysDunned ==
  ASSUME BillingAssumption
  PROVE  BillingSpec => OverdueIsDunned
<1> DEFINE Step ==
      \A c \in Contracts : \A j \in DOMAIN invoices'[c] :
        LET invoice == invoices'[c][j]
        IN  invoice.due <= now' /\ econ'[c].phase # "terminated" /\ OwnsItsId(invoices[c], invoice)
            => KeepsPace(invoices[c], invoice, now')
<1>1. AccountsInv /\ GridsKept /\ [EconomyTick]_billingVars => [Step]_billingVars
  <2> SUFFICES ASSUME AccountsInv, GridsKept, EconomyTick PROVE Step
    OBVIOUS
  <2> SUFFICES ASSUME NEW c \in Contracts, NEW j \in DOMAIN invoices'[c],
                      OwnsItsId(invoices[c], invoices'[c][j]),
                      invoices'[c][j].due <= now', econ'[c].phase # "terminated"
               PROVE  KeepsPace(invoices[c], invoices'[c][j], now')
    OBVIOUS
  <2> DEFINE w == Working(c)
             after == invoices'[c]
  <2>1. w.deal = econ[c] /\ w.invoices = invoices[c]
    BY DEF Working
  <2>2. PICK d : c \in Contract /\ w \in Works /\ TickOf(d, w, c, now') /\ AfterTick(d, c)
    BY TickOfEach
  <2>3. now' \in Nat
    BY TickOfEach
  <2> HIDE DEF w
  <2>4. GridKept(w.deal, w.invoices, c)
    BY <2>1 DEF GridsKept
  <2>5. econ'[c] = d.deal /\ IsList(after, Bill) /\ KeptFrom(after, d.invoices)
    BY <2>2 DEF AfterTick
  <2>6. /\ j \in DOMAIN after /\ OwnsItsId(w.invoices, after[j])
        /\ after[j].due <= now' /\ d.deal.phase # "terminated"
    BY <2>1, <2>5
  <2> HIDE DEF after
  <2>7. KeepsPace(w.invoices, after[j], now')
    BY <2>2, <2>3, <2>4, <2>5, <2>6, PaceOfTick
  <2> QED BY <2>1, <2>7 DEF after
<1> QED BY <1>1, GridsAlways, PTL DEF BillingSpec, OverdueIsDunned

-----------------------------------------------------------------------------
(***************************************************************************)
(* Periods inside the term.                                                *)
(***************************************************************************)
NextFrom(d, c) == d.anchor + d.cycles * Period[c]
Ascending(book) == \A i, j \in DOMAIN book : i < j => book[i].from < book[j].from

(* A contract that has not ended is inside its term, and so is every       *)
(* period it was billed for; the next one begins after them.               *)
InTerm(d, book, c, t) ==
  /\ d.phase # "terminated" => t < d.termEnd
  /\ d.phase = "pending" => d.termEnd = End[c]
  /\ \A i \in DOMAIN book : book[i].from < d.termEnd /\ book[i].from < NextFrom(d, c)
  /\ Ascending(book)

(* A contract that is still active is inside its term, the old or the new  *)
(* one.                                                                    *)
LEMMA TermAtCliff ==
  ASSUME BillingAssumption, NEW c \in Contract, NEW e \in Deal, NEW d \in Deal, NEW s \in Nat, NEW t \in Nat,
         t - s <= End[c] - Start[c], Cliffed(d, e, c, t), PhaseFrom(d, e, c, t),
         ~(e.phase = "suspended" /\ t >= e.termEnd),
         NEW book, IsList(book, Bill), InTerm(e, book, c, s)
  PROVE  InTerm(d, book, c, t)
<1>0. /\ End[c] \in Nat /\ Start[c] \in Nat /\ Start[c] < End[c] /\ Period[c] \in Nat
      /\ e.termEnd \in Nat /\ d.termEnd \in Nat
  BY ContractFacts DEF Deal
<1>1. CASE SameGrid(d, e) /\ (d.phase = "active" => t < e.termEnd)
  <2>1. d.termEnd = e.termEnd /\ NextFrom(d, c) = NextFrom(e, c)
    BY <1>1 DEF SameGrid, NextFrom
  <2>2. d.phase = "pending" => d.termEnd = End[c] /\ t < Start[c]
    BY <2>1 DEF InTerm, PhaseFrom
  <2>3. d.phase = "suspended" => t < e.termEnd
    BY <1>0 DEF PhaseFrom
  <2>4. d.phase \in {"pending", "active", "suspended", "terminated"}
    BY DEF Deal
  <2>5. d.phase = "pending" => t < d.termEnd
    BY <1>0, <2>2
  <2>6. d.phase # "terminated" => t < d.termEnd
    BY <1>1, <2>1, <2>3, <2>4, <2>5
  <2> QED BY <2>1, <2>2, <2>6 DEF InTerm
<1>2. CASE Renews(d, e, c, t)
  <2>1. /\ d.phase = "active" /\ d.anchor = e.termEnd /\ d.cycles = 0
        /\ d.termEnd = e.termEnd + (End[c] - Start[c])
    BY <1>2 DEF Renews
  <2>2. s < e.termEnd
    BY <2>1 DEF PhaseFrom, InTerm
  <2>3. t < d.termEnd
    BY <1>0, <2>1, <2>2
  <2>4. NextFrom(d, c) = e.termEnd
    <3>1. 0 * Period[c] = 0
      BY <1>0
    <3>2. NextFrom(d, c) = e.termEnd + 0
      BY <2>1, <3>1 DEF NextFrom
    <3> QED BY <1>0, <3>2
  <2>5. ASSUME NEW i \in DOMAIN book PROVE book[i].from < d.termEnd /\ book[i].from < NextFrom(d, c)
    <3>1. book[i].from \in Nat
      <4>1. book[i] \in Bill
        BY ListFacts
      <4> QED BY <4>1 DEF Bill
    <3>2. book[i].from < e.termEnd
      BY DEF InTerm
    <3> DEFINE from == book[i].from
    <3> HIDE DEF from
    <3>3. from \in Nat /\ from < e.termEnd
      BY <3>1, <3>2 DEF from
    <3>4. from < d.termEnd
      BY <1>0, <2>1, <3>3
    <3> QED BY <2>4, <3>3, <3>4 DEF from
  <2> QED BY <2>1, <2>3, <2>5 DEF InTerm
<1> QED BY <1>1, <1>2 DEF Cliffed

(* Multiples of a period are ordered as their factors.                     *)
LEMMA LaterPeriod ==
  ASSUME NEW p \in Nat \ {0}, NEW a \in Nat, NEW b \in Nat
  PROVE  a * p \in Nat /\ (a < b => a * p < b * p) /\ (a <= b => a * p <= b * p)
<1>1. a * p \in Nat /\ b * p \in Nat
  OBVIOUS
<1>2. ASSUME a <= b PROVE a * p <= b * p
  <2>1. PICK k \in Nat : b = a + k
    <3>1. b - a \in Nat /\ b = a + (b - a)
      BY <1>2
    <3> QED BY <3>1
  <2>2. (a + k) * p = a * p + k * p /\ k * p \in Nat
    OBVIOUS
  <2> QED BY <1>1, <2>1, <2>2
<1>3. ASSUME a < b PROVE a * p < b * p
  <2>1. PICK k \in Nat : b = a + 1 + k
    <3>1. b - a - 1 \in Nat /\ b = a + 1 + (b - a - 1)
      BY <1>3
    <3> QED BY <3>1
  <2>2. (a + 1 + k) * p = a * p + p + k * p /\ k * p \in Nat
    OBVIOUS
  <2> QED BY <1>1, <2>1, <2>2
<1> QED BY <1>1, <1>2, <1>3

(* A period that has begun before the term's end is inside the term.       *)
LEMMA TermExtended ==
  ASSUME BillingAssumption, NEW c \in Contract, NEW e \in Deal, NEW d \in Deal, NEW t \in Nat, NEW count \in Nat,
         d.phase = e.phase, d.anchor = e.anchor, d.termEnd = e.termEnd, d.cycles = e.cycles + count,
         count > 0 => /\ e.phase # "terminated" /\ e.anchor + (e.cycles + count - 1) * Period[c] <= t,
         NEW book, IsList(book, Bill), NEW after, NEW n \in Nat, Extends(after, book, n, count, e, c),
         InTerm(e, book, c, t)
  PROVE  InTerm(d, after, c, t)
<1>0. /\ e.cycles \in Nat /\ e.anchor \in Nat /\ e.termEnd \in Nat
      /\ Period[c] \in Nat \ {0}
  BY ContractFacts DEF Deal
<1>1. /\ DOMAIN book = 1..n /\ DOMAIN after = 1..n + count
      /\ \A k \in 1..n : after[k] = book[k]
  BY DEF Extends
<1> DEFINE Cycle(k) == e.cycles + (k - n - 1)
           From(k) == e.anchor + Cycle(k) * Period[c]
<1>2. \A k \in 1..n + count : k > n => after[k].from = From(k) /\ Cycle(k) \in Nat
  <2> SUFFICES ASSUME NEW k \in 1..n + count, k > n PROVE after[k].from = From(k) /\ Cycle(k) \in Nat
    OBVIOUS
  <2>1. Cycle(k) \in Nat
    BY <1>0
  <2>2. after[k].from = From(k)
    BY DEF Extends
  <2> QED BY <2>1, <2>2
<1>3. ASSUME NEW a \in Nat, NEW b \in Nat
      PROVE  /\ e.anchor + a * Period[c] \in Nat
             /\ a < b => e.anchor + a * Period[c] < e.anchor + b * Period[c]
             /\ a <= b => e.anchor + a * Period[c] <= e.anchor + b * Period[c]
  <2> DEFINE x == a * Period[c]
             y == b * Period[c]
  <2>1. x \in Nat /\ y \in Nat /\ (a < b => x < y) /\ (a <= b => x <= y)
    BY <1>0, LaterPeriod
  <2> HIDE DEF x, y
  <2>2. e.anchor + x \in Nat /\ (a < b => e.anchor + x < e.anchor + y) /\ (a <= b => e.anchor + x <= e.anchor + y)
    BY <1>0, <2>1
  <2> QED BY <2>2 DEF x, y
<1>4. NextFrom(d, c) = e.anchor + (e.cycles + count) * Period[c]
      /\ NextFrom(e, c) = e.anchor + e.cycles * Period[c]
  BY DEF NextFrom
<1>5. ASSUME NEW k \in 1..n + count, k > n
      PROVE  /\ after[k].from \in Nat /\ after[k].from < e.termEnd /\ after[k].from < NextFrom(d, c)
             /\ NextFrom(e, c) <= after[k].from
  <2> DEFINE a == Cycle(k)
             last == e.cycles + count - 1
  <2>1. count > 0 /\ a \in Nat /\ last \in Nat /\ a <= last /\ a < e.cycles + count /\ e.cycles <= a
    BY <1>0, <1>5
  <2>2. after[k].from = e.anchor + a * Period[c]
    BY <1>2, <1>5
  <2>3. e.anchor + last * Period[c] <= t /\ t < e.termEnd
    BY <2>1 DEF InTerm
  <2> HIDE DEF a, last
  <2> DEFINE from == e.anchor + a * Period[c]
             lastFrom == e.anchor + last * Period[c]
  <2>4. from \in Nat /\ lastFrom \in Nat /\ from <= lastFrom
    BY <1>3, <2>1
  <2>5. from < NextFrom(d, c)
    <3>1. e.cycles + count \in Nat
      BY <1>0
    <3> HIDE DEF from
    <3>2. e.anchor + a * Period[c] < e.anchor + (e.cycles + count) * Period[c]
      BY <1>3, <2>1, <3>1
    <3> QED BY <1>4, <3>2 DEF from
  <2>6. NextFrom(e, c) <= from
    <3> HIDE DEF from
    <3>1. e.anchor + e.cycles * Period[c] <= e.anchor + a * Period[c]
      BY <1>0, <1>3, <2>1
    <3> QED BY <1>4, <3>1 DEF from
  <2>7. from < e.termEnd
    <3>1. lastFrom <= t
      BY <2>3
    <3> HIDE DEF from, lastFrom
    <3> QED BY <1>0, <2>3, <2>4, <3>1
  <2> QED BY <2>2, <2>4, <2>5, <2>6, <2>7
<1>6. ASSUME NEW k \in 1..n
      PROVE  /\ after[k].from \in Nat /\ after[k].from < e.termEnd /\ after[k].from < NextFrom(e, c)
  <2>1. after[k] = book[k] /\ k \in DOMAIN book
    BY <1>1
  <2>2. book[k] \in Bill
    BY <2>1, ListFacts
  <2> QED BY <2>1, <2>2 DEF InTerm, Bill
<1>7. NextFrom(e, c) \in Nat /\ NextFrom(d, c) \in Nat /\ NextFrom(e, c) <= NextFrom(d, c)
  <2>1. e.cycles + count \in Nat /\ e.cycles <= e.cycles + count
    BY <1>0
  <2> QED BY <1>0, <1>3, <1>4, <2>1
<1>8. ASSUME NEW k \in DOMAIN after
      PROVE  after[k].from < d.termEnd /\ after[k].from < NextFrom(d, c)
  <2>1. k \in 1..n + count
    BY <1>1
  <2>2. CASE k > n
    BY <1>5, <2>1, <2>2
  <2>3. CASE ~(k > n)
    <3>1. k \in 1..n
      BY <2>1, <2>3
    <3> DEFINE from == after[k].from
    <3>2. from \in Nat /\ from < e.termEnd /\ from < NextFrom(e, c)
      BY <1>6, <3>1
    <3> HIDE DEF from
    <3>3. from < NextFrom(d, c)
      BY <1>7, <3>2
    <3> QED BY <3>2, <3>3 DEF from
  <2> QED BY <2>2, <2>3
<1>9. ASSUME NEW i \in DOMAIN after, NEW j \in DOMAIN after, i < j PROVE after[i].from < after[j].from
  <2>1. i \in 1..n + count /\ j \in 1..n + count
    BY <1>1
  <2>2. CASE i > n
    <3>1. j > n
      BY <1>9, <2>1, <2>2
    <3>2. Cycle(i) \in Nat /\ Cycle(j) \in Nat /\ Cycle(i) < Cycle(j)
      BY <1>0, <1>9, <2>1, <2>2, <3>1
    <3>3. after[i].from = From(i) /\ after[j].from = From(j)
      BY <1>2, <2>1, <2>2, <3>1
    <3> HIDE DEF Cycle
    <3>4. From(i) < From(j)
      BY <1>3, <3>2
    <3> QED BY <3>3, <3>4
  <2>3. CASE ~(i > n) /\ j > n
    <3>1. i \in 1..n
      BY <2>1, <2>3
    <3> DEFINE a == after[i].from
               b == after[j].from
    <3>2. a \in Nat /\ a < NextFrom(e, c)
      BY <1>6, <3>1
    <3>3. b \in Nat /\ NextFrom(e, c) <= b
      BY <1>5, <2>1, <2>3
    <3> HIDE DEF a, b
    <3>4. a < b
      BY <1>7, <3>2, <3>3
    <3> QED BY <3>4 DEF a, b
  <2>4. CASE ~(i > n) /\ ~(j > n)
    <3>1. i \in 1..n /\ j \in 1..n
      BY <2>1, <2>4
    <3>2. after[i] = book[i] /\ after[j] = book[j] /\ i \in DOMAIN book /\ j \in DOMAIN book
      BY <1>1, <3>1
    <3> QED BY <1>9, <3>2 DEF InTerm, Ascending
  <2> QED BY <2>2, <2>3, <2>4
<1> QED BY <1>8, <1>9 DEF InTerm, Ascending

(* The sweep moves no period.                                              *)
LEMMA TermSwept ==
  ASSUME NEW c, NEW d, NEW e, SameTerm(d, e), NEW book, NEW after, SameBills(after, book), NEW t,
         e.phase = "terminated" => d.phase = "terminated", d.phase = "pending" => e.phase = "pending",
         InTerm(e, book, c, t)
  PROVE  InTerm(d, after, c, t)
<1>1. DOMAIN after = DOMAIN book /\ \A k \in DOMAIN book : after[k].from = book[k].from
  BY DEF SameBills
<1>2. d.termEnd = e.termEnd /\ NextFrom(d, c) = NextFrom(e, c)
  BY DEF SameTerm, NextFrom
<1> QED BY <1>1, <1>2 DEF InTerm, Ascending

(* Pruning keeps the order of the periods.                                 *)
LEMMA TermPruned ==
  ASSUME NEW c, NEW d, NEW all, NEW book, KeptFrom(book, all), NEW t, InTerm(d, all, c, t)
  PROVE  InTerm(d, book, c, t)
<1>1. PICK at \in [DOMAIN book -> DOMAIN all] :
        /\ \A i, j \in DOMAIN book : i < j => at[i] < at[j]
        /\ \A i \in DOMAIN book : book[i] = all[at[i]]
  BY DEF KeptFrom
<1>2. \A i \in DOMAIN book : book[i].from < d.termEnd /\ book[i].from < NextFrom(d, c)
  BY <1>1 DEF InTerm
<1>3. ASSUME NEW i \in DOMAIN book, NEW j \in DOMAIN book, i < j PROVE book[i].from < book[j].from
  <2>1. at[i] < at[j] /\ at[i] \in DOMAIN all /\ at[j] \in DOMAIN all
    BY <1>1, <1>3
  <2>2. book[i] = all[at[i]] /\ book[j] = all[at[j]]
    BY <1>1
  <2> QED BY <2>1, <2>2 DEF InTerm, Ascending
<1> QED BY <1>2, <1>3 DEF InTerm, Ascending

(* The periods of one contract after a tick.                               *)
LEMMA TermAfterTick ==
  ASSUME BillingAssumption, NEW c \in Contract, NEW w \in Works, NEW s \in Nat, NEW t \in Nat,
         t - s <= End[c] - Start[c], NEW d, TickOf(d, w, c, t),
         ~(w.deal.phase = "suspended" /\ t >= w.deal.termEnd), InTerm(w.deal, w.invoices, c, s),
         NEW after, KeptFrom(after, d.invoices)
  PROVE  InTerm(d.deal, after, c, t)
<1>1. PICK b : BilledFrom(b, w, c, t) /\ SweptFrom(d, b, c, t)
  BY DEF TickOf
<1>2. b \in Works
  BY <1>1 DEF BilledFrom
<1>3. PICK u \in Works, count \in Nat :
        /\ u.invoices = w.invoices
        /\ Cliffed(u.deal, w.deal, c, t) /\ PhaseFrom(u.deal, w.deal, c, t)
        /\ b.deal.phase = u.deal.phase /\ b.deal.termEnd = u.deal.termEnd
        /\ b.deal.anchor = u.deal.anchor
        /\ Adds(b, u, c, t, count)
  BY <1>1 DEF BilledFrom
<1>4. /\ w.deal \in Deal /\ u.deal \in Deal /\ b.deal \in Deal
      /\ IsList(w.invoices, Bill) /\ IsList(u.invoices, Bill) /\ IsList(b.invoices, Bill)
  BY <1>2, <1>3, WorkFields
<1>5. InTerm(u.deal, u.invoices, c, t)
  <2> DEFINE e == w.deal
             f == u.deal
             book == w.invoices
  <2>1. /\ e \in Deal /\ f \in Deal /\ IsList(book, Bill) /\ InTerm(e, book, c, s)
        /\ Cliffed(f, e, c, t) /\ PhaseFrom(f, e, c, t)
        /\ ~(e.phase = "suspended" /\ t >= e.termEnd)
    BY <1>3, <1>4
  <2> HIDE DEF e, f, book
  <2>2. InTerm(f, book, c, t)
    BY <2>1, TermAtCliff
  <2> QED BY <1>3, <2>2 DEF f, book
<1>6. /\ b.deal.cycles = u.deal.cycles + count
      /\ Issued(b.invoices, u.invoices, u.deal, c, count)
      /\ count > 0 => /\ u.deal.phase # "terminated"
                      /\ u.deal.anchor + (u.deal.cycles + count - 1) * Period[c] <= t
  BY <1>3 DEF Adds
<1>7. PICK n \in Nat : Extends(b.invoices, u.invoices, n, count, u.deal, c)
  BY <1>4, <1>6, IssuedExtends
<1>8. InTerm(b.deal, b.invoices, c, t)
  <2> DEFINE e == u.deal
             f == b.deal
             book == u.invoices
             bills == b.invoices
  <2>1. /\ e \in Deal /\ f \in Deal /\ IsList(book, Bill) /\ InTerm(e, book, c, t)
        /\ f.phase = e.phase /\ f.anchor = e.anchor /\ f.termEnd = e.termEnd /\ f.cycles = e.cycles + count
        /\ Extends(bills, book, n, count, e, c)
    BY <1>3, <1>4, <1>5, <1>6, <1>7
  <2>2. count > 0 => /\ e.phase # "terminated" /\ e.anchor + (e.cycles + count - 1) * Period[c] <= t
    BY <1>6
  <2> HIDE DEF e, f, book, bills
  <2>3. InTerm(f, bills, c, t)
    BY <2>1, <2>2, TermExtended
  <2> QED BY <2>3 DEF f, bills
<1>9. InTerm(d.deal, d.invoices, c, t)
  <2>1. /\ SameTerm(d.deal, b.deal) /\ SameBills(d.invoices, b.invoices)
        /\ b.deal.phase = "terminated" => d.deal.phase = "terminated"
        /\ d.deal.phase = "pending" => b.deal.phase = "pending"
    BY <1>1 DEF SweptFrom
  <2> QED BY <1>8, <2>1, TermSwept
<1> QED BY <1>9, TermPruned

(* Between the ticks.  No stride is longer than a term: the tick renews a  *)
(* contract once.                                                          *)
StridesWithinTerms == \A stride \in Strides : \A c \in Contract : stride <= End[c] - Start[c]
TermsKept == \A c \in Contracts \ dark : InTerm(econ[c], invoices[c], c, now)

(* A tick keeps the periods inside the terms.                              *)
LEMMA TermsAfterTick ==
  ASSUME BillingAssumption, StridesWithinTerms, AccountsInv, TermsKept, EconomyTick
  PROVE  TermsKept'
<1>1. Contracts' = Contracts /\ now' \in Nat /\ now \in Nat /\ now' - now \in Strides
  BY TickOfEach DEF Contracts
<1>2. dark' = dark \cup {c \in InPhase("suspended") : now' >= econ[c].termEnd}
  BY TickOfEach
<1>3. ASSUME NEW c \in Contracts, c \notin dark' PROVE InTerm(econ'[c], invoices'[c], c, now')
  <2> DEFINE w == Working(c)
  <2>1. w.deal = econ[c] /\ w.invoices = invoices[c]
    BY DEF Working
  <2>2. c \notin dark /\ ~(w.deal.phase = "suspended" /\ now' >= w.deal.termEnd)
    BY <1>2, <1>3, <2>1 DEF InPhase
  <2>3. PICK d : c \in Contract /\ w \in Works /\ TickOf(d, w, c, now') /\ AfterTick(d, c)
    BY TickOfEach
  <2> HIDE DEF w
  <2>4. InTerm(w.deal, w.invoices, c, now)
    BY <2>1, <2>2 DEF TermsKept
  <2>5. now' - now <= End[c] - Start[c]
    BY <1>1, <2>3 DEF StridesWithinTerms
  <2>6. econ'[c] = d.deal /\ KeptFrom(invoices'[c], d.invoices)
    BY <2>3 DEF AfterTick
  <2> DEFINE t == now'
  <2>7. t \in Nat /\ now \in Nat /\ t - now <= End[c] - Start[c] /\ TickOf(d, w, c, t)
        /\ ~(w.deal.phase = "suspended" /\ t >= w.deal.termEnd)
    BY <1>1, <2>2, <2>3, <2>5
  <2> HIDE DEF t
  <2>8. InTerm(d.deal, invoices'[c], c, t)
    BY <2>3, <2>4, <2>6, <2>7, TermAfterTick
  <2> QED BY <2>6, <2>8 DEF t
<1> QED BY <1>1, <1>3 DEF TermsKept

(* At first no period was billed.                                          *)
LEMMA TermsAtFirst ==
  ASSUME BillingAssumption, BillingInit
  PROVE  TermsKept
<1>1. ASSUME NEW c \in Contracts PROVE InTerm(econ[c], invoices[c], c, now)
  <2>1. c \in Contract /\ econ[c] = Opened(c) /\ invoices[c] = <<>> /\ now = 0
    BY DEF BillingInit, Contracts, BillingAssumption
  <2>2. Start[c] \in Nat /\ End[c] \in Nat /\ Start[c] < End[c]
    BY <2>1, ContractFacts
  <2>3. econ[c].termEnd = End[c] /\ now < End[c]
    BY <2>1, <2>2 DEF Opened
  <2> QED BY <2>1, <2>3 DEF InTerm, Ascending
<1> QED BY <1>1 DEF TermsKept

(* No period is billed twice, and none beyond the term, as long as no      *)
(* pause is longer than a term and the contract was not suspended at its   *)
(* end: whatever is renewed, caught up and pruned.                         *)
THEOREM PeriodsAreAlwaysBilledOnce ==
  ASSUME BillingAssumption, StridesWithinTerms
  PROVE  BillingSpec => []PeriodsAreBilledOnce
<1>1. BillingInit => TermsKept
  BY TermsAtFirst
<1>2. AccountsInv /\ TermsKept /\ [EconomyTick]_billingVars => TermsKept'
  <2> SUFFICES ASSUME AccountsInv, TermsKept, [EconomyTick]_billingVars PROVE TermsKept'
    OBVIOUS
  <2>1. CASE EconomyTick
    BY <2>1, TermsAfterTick
  <2>2. CASE UNCHANGED billingVars
    BY <2>2 DEF billingVars, TermsKept, Contracts
  <2> QED BY <2>1, <2>2
<1>3. AccountsInv /\ TermsKept => PeriodsAreBilledOnce
  <2> SUFFICES ASSUME AccountsInv, TermsKept, NEW c \in Contracts \ dark,
                      NEW i \in DOMAIN invoices[c], NEW j \in DOMAIN invoices[c]
               PROVE  /\ invoices[c][i].from < econ[c].termEnd
                      /\ invoices[c][j].from = invoices[c][i].from => i = j
    BY DEF PeriodsAreBilledOnce
  <2>1. InTerm(econ[c], invoices[c], c, now)
    BY DEF TermsKept
  <2>2. IsList(invoices[c], Bill)
    <3>1. Working(c) \in Works
      BY DEF AccountsInv, AccountsHold
    <3> QED BY <3>1, WorkFields DEF Working
  <2>3. invoices[c][i] \in Bill /\ invoices[c][j] \in Bill
    BY <2>2, ListFacts
  <2>4. invoices[c][i].from \in Nat /\ invoices[c][j].from \in Nat
    BY <2>3 DEF Bill
  <2>5. i \in Int /\ j \in Int
    <3>1. DOMAIN invoices[c] = 1..Len(invoices[c])
      BY <2>2, ListSlots
    <3> QED BY <3>1
  <2>6. i < j => invoices[c][i].from < invoices[c][j].from
    BY <2>1 DEF InTerm, Ascending
  <2>7. j < i => invoices[c][j].from < invoices[c][i].from
    BY <2>1 DEF InTerm, Ascending
  <2>8. invoices[c][j].from = invoices[c][i].from => ~(i < j) /\ ~(j < i)
    BY <2>4, <2>6, <2>7
  <2>9. invoices[c][i].from < econ[c].termEnd
    BY <2>1 DEF InTerm
  <2> QED BY <2>5, <2>8, <2>9
<1> QED BY <1>1, <1>2, <1>3, AccountsAlways, PTL DEF BillingSpec
=============================================================================
