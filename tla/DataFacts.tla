------------------------------ MODULE DataFacts ------------------------------
(***************************************************************************)
(* Facts about numbers and sequences that the proofs of this project rest  *)
(* on.                                                                     *)
(***************************************************************************)
EXTENDS Integers, SequencesExt, Selections, Totals,
        WellFoundedInduction, SequenceTheorems, FiniteSetTheorems, TLAPS

(* A nonempty set of natural numbers has a least element.                  *)
LEMMA LeastNatural ==
  ASSUME NEW S \in SUBSET Nat, S # {}
  PROVE  \E k \in S : \A j \in S : k <= j
<1>1. PICK k \in S : \A j \in S : ~(<<j, k>> \in OpToRel(<, Nat))
  BY WFMin, NatLessThanWellFounded
<1>2. k \in Nat /\ \A j \in S : j \in Nat /\ ~(j < k)
  BY <1>1 DEF OpToRel
<1> QED BY <1>2

(* A nonempty set of natural numbers below a bound has a greatest element, *)
(* and it is what Max chooses.                                             *)
LEMMA MaxOfBounded ==
  ASSUME NEW n \in Nat, NEW S \in SUBSET (0..n), S # {}
  PROVE  Max(S) \in S /\ \A x \in S : x <= Max(S)
<1> DEFINE Gaps == {n - x : x \in S}
<1>1. Gaps \in SUBSET Nat /\ Gaps # {}
  <2>1. \A x \in S : x \in 0..n
    OBVIOUS
  <2>2. \A x \in S : n - x \in Nat /\ n - x \in Gaps
    BY <2>1
  <2> QED BY <2>2
<1>2. PICK gap \in Gaps : \A other \in Gaps : gap <= other
  <2> HIDE DEF Gaps
  <2> QED BY <1>1, LeastNatural
<1>3. PICK m \in S : gap = n - m
  BY <1>2
<1>4. \A x \in S : m >= x
  BY <1>2, <1>3
<1> QED BY <1>3, <1>4 DEF Max

(* Division by a positive number is monotone where it matters: a multiple  *)
(* that was reached is counted.                                            *)
LEMMA DivReaches ==
  ASSUME NEW a \in Nat, NEW r \in Nat \ {0}, NEW b \in Nat, a >= r * b
  PROVE  a \div r \in Nat /\ a \div r >= b
  OBVIOUS

(* A multiple that was counted was reached.                                *)
LEMMA DivBelow ==
  ASSUME NEW a \in Nat, NEW r \in Nat \ {0}, NEW b \in Nat, b <= a \div r
  PROVE  b * r <= a
<1> DEFINE q == a \div r
<1>1. q \in Nat /\ r * q <= a
  OBVIOUS
<1> HIDE DEF q
<1>2. b <= q
  BY DEF q
<1>3. b * r <= r * q
  <2>1. q - b \in Nat /\ q = b + (q - b)
    BY <1>1, <1>2
  <2>2. \A d \in Nat : r * (b + d) = r * b + r * d /\ r * d >= 0
    OBVIOUS
  <2>3. b * r = r * b
    OBVIOUS
  <2> QED BY <2>1, <2>2, <2>3
<1> QED BY <1>1, <1>3

(* Induction, stated about a set: the library's principle takes an         *)
(* operator.                                                               *)
LEMMA SetInduction ==
  ASSUME NEW S, 0 \in S, \A n \in Nat : n \in S => n + 1 \in S
  PROVE  \A n \in Nat : n \in S
<1> DEFINE Missing == Nat \ S
<1> SUFFICES ASSUME Missing # {} PROVE FALSE
  OBVIOUS
<1>1. PICK k \in Missing : \A j \in Missing : k <= j
  <2> HIDE DEF Missing
  <2>1. Missing \in SUBSET Nat
    BY DEF Missing
  <2> QED BY <2>1, LeastNatural
<1>2. k # 0 /\ k - 1 \in Nat
  OBVIOUS
<1>3. k - 1 \in S
  BY <1>1, <1>2
<1> QED BY <1>2, <1>3

(* A chain of n values, each a step from the one before: what a recursive  *)
(* function over 0..n denotes.                                             *)
IsChain(f, A, base, n, step) ==
  f \in [0..n -> A] /\ f[0] = base /\ \A k \in 1..n : f[k] = step[k][f[k - 1]]

Steps(A, n) == [1..n -> [A -> A]]

(* Every chain of steps exists: by induction over its length.              *)
LEMMA ChainExists ==
  ASSUME NEW A, NEW base \in A, NEW n \in Nat, NEW step \in Steps(A, n)
  PROVE  \E f : IsChain(f, A, base, n, step)
<1> DEFINE Chain(m, f) == f[0] = base /\ \A k \in 1..m : f[k] = step[k][f[k - 1]]
           Built == {m \in Nat : m <= n => \E f \in [0..m -> A] : Chain(m, f)}
<1> USE DEF Steps
<1>1. 0 \in Built
  <2> DEFINE f == [k \in 0..0 |-> base]
  <2>1. f \in [0..0 -> A] /\ Chain(0, f)
    OBVIOUS
  <2> QED BY <2>1
<1>2. ASSUME NEW m \in Nat, m \in Built PROVE m + 1 \in Built
  <2> SUFFICES ASSUME m + 1 <= n PROVE \E g \in [0..m + 1 -> A] : Chain(m + 1, g)
    OBVIOUS
  <2>1. PICK f \in [0..m -> A] : Chain(m, f)
    BY <1>2
  <2> DEFINE g == [k \in 0..m + 1 |-> IF k = m + 1 THEN step[m + 1][f[m]] ELSE f[k]]
  <2>2. g \in [0..m + 1 -> A]
    OBVIOUS
  <2>3. g[0] = base
    BY <2>1
  <2>4. ASSUME NEW k \in 1..m + 1 PROVE g[k] = step[k][g[k - 1]]
    <3>1. CASE k = m + 1
      BY <3>1
    <3>2. CASE k # m + 1
      BY <2>1, <3>2
    <3> QED BY <3>1, <3>2
  <2> QED BY <2>2, <2>3, <2>4
<1>3. n \in Built
  <2> HIDE DEF Built
  <2> QED BY <1>1, <1>2, SetInduction
<1>4. step \in [1..n -> [A -> A]] => \E f \in [0..n -> A] : Chain(n, f)
  BY <1>3
<1> QED BY <1>4 DEF IsChain, Steps

-----------------------------------------------------------------------------
(* A sequence without its i-th element.                                    *)
LEMMA RemovedAt ==
  ASSUME NEW T, NEW s \in Seq(T), NEW i \in 1..Len(s)
  PROVE  /\ RemoveAt(s, i) \in Seq(T)
         /\ Len(RemoveAt(s, i)) = Len(s) - 1
         /\ \A k \in 1..Len(s) - 1 : RemoveAt(s, i)[k] = IF k < i THEN s[k] ELSE s[k + 1]
<1>1. Len(s) \in Nat /\ i \in Int /\ \A k \in 1..Len(s) : s[k] \in T
  OBVIOUS
<1>2. /\ SubSeq(s, 1, i - 1) \in Seq(T)
      /\ Len(SubSeq(s, 1, i - 1)) = i - 1
      /\ \A k \in 1..i - 1 : SubSeq(s, 1, i - 1)[k] = s[k]
  OBVIOUS
<1>3. /\ SubSeq(s, i + 1, Len(s)) \in Seq(T)
      /\ Len(SubSeq(s, i + 1, Len(s))) = Len(s) - i
      /\ \A k \in 1..Len(s) - i : SubSeq(s, i + 1, Len(s))[k] = s[i + k]
  OBVIOUS
<1> DEFINE front == SubSeq(s, 1, i - 1)
           back == SubSeq(s, i + 1, Len(s))
<1>4. RemoveAt(s, i) = front \o back
  BY DEF RemoveAt
<1> HIDE DEF front, back
<1>5. /\ front \o back \in Seq(T)
      /\ Len(front \o back) = Len(front) + Len(back)
      /\ \A k \in 1..Len(front) + Len(back) :
           (front \o back)[k] = IF k <= Len(front) THEN front[k] ELSE back[k - Len(front)]
  BY <1>2, <1>3, ConcatProperties DEF front, back
<1>6. Len(front) = i - 1 /\ Len(back) = Len(s) - i
  BY <1>2, <1>3 DEF front, back
<1>7. ASSUME NEW k \in 1..Len(s) - 1
      PROVE  (front \o back)[k] = IF k < i THEN s[k] ELSE s[k + 1]
  <2>1. CASE k < i
    BY <1>1, <1>2, <1>5, <1>6, <2>1 DEF front
  <2>2. CASE k >= i
    <3>1. k - (i - 1) \in 1..Len(s) - i /\ (front \o back)[k] = back[k - (i - 1)]
      BY <1>1, <1>5, <1>6, <2>2
    <3>2. back[k - (i - 1)] = s[i + (k - (i - 1))] /\ i + (k - (i - 1)) = k + 1
      BY <1>1, <1>3, <3>1 DEF back
    <3> QED BY <1>1, <2>2, <3>1, <3>2
  <2>3. k \in Int
    BY <1>1
  <2>4. k < i \/ k >= i
    BY <1>1, <2>3
  <2> QED BY <2>1, <2>2, <2>4
<1> QED BY <1>1, <1>4, <1>5, <1>6, <1>7

(* The elements of two sequences in a row.                                 *)
LEMMA SetOfConcat ==
  ASSUME NEW T, NEW s \in Seq(T), NEW t \in Seq(T)
  PROVE  ToSet(s \o t) = ToSet(s) \cup ToSet(t)
<1> DEFINE n == Len(s)
           m == Len(t)
           u == s \o t
<1>1. /\ n \in Nat /\ m \in Nat /\ DOMAIN s = 1..n /\ DOMAIN t = 1..m /\ DOMAIN u = 1..n + m
      /\ \A i \in 1..n + m : u[i] = IF i <= n THEN s[i] ELSE t[i - n]
  BY ConcatProperties
<1> HIDE DEF n, m, u
<1>2. ASSUME NEW i \in DOMAIN u PROVE u[i] \in ToSet(s) \cup ToSet(t)
  <2>1. CASE i <= n
    <3>1. i \in DOMAIN s /\ u[i] = s[i]
      BY <1>1, <2>1
    <3> QED BY <3>1 DEF ToSet
  <2>2. CASE ~(i <= n)
    <3>1. i - n \in DOMAIN t /\ u[i] = t[i - n]
      BY <1>1, <2>2
    <3> QED BY <3>1 DEF ToSet
  <2> QED BY <2>1, <2>2
<1>3. ASSUME NEW i \in DOMAIN s PROVE s[i] \in ToSet(u)
  <2>1. i \in DOMAIN u /\ u[i] = s[i]
    BY <1>1
  <2> QED BY <2>1 DEF ToSet
<1>4. ASSUME NEW i \in DOMAIN t PROVE t[i] \in ToSet(u)
  <2>1. n + i \in DOMAIN u /\ ~(n + i <= n) /\ n + i - n = i
    BY <1>1
  <2>2. u[n + i] = t[i]
    BY <1>1, <2>1
  <2> QED BY <2>1, <2>2 DEF ToSet
<1>5. ToSet(u) \subseteq ToSet(s) \cup ToSet(t)
  BY <1>2 DEF ToSet
<1>6. ToSet(s) \subseteq ToSet(u) /\ ToSet(t) \subseteq ToSet(u)
  BY <1>3, <1>4 DEF ToSet
<1> QED BY <1>5, <1>6 DEF u

(* The elements of a sequence that lost one.                               *)
LEMMA SetOfRemoved ==
  ASSUME NEW T, NEW s \in Seq(T), NEW i \in 1..Len(s)
  PROVE  ToSet(s) = ToSet(RemoveAt(s, i)) \cup {s[i]}
<1> DEFINE n == Len(s)
           u == RemoveAt(s, i)
<1>1. /\ n \in Nat /\ i \in 1..n /\ DOMAIN s = 1..n /\ DOMAIN u = 1..n - 1
      /\ \A k \in 1..n - 1 : u[k] = IF k < i THEN s[k] ELSE s[k + 1]
  BY RemovedAt
<1> HIDE DEF n, u
<1>2. ASSUME NEW k \in DOMAIN u PROVE u[k] \in ToSet(s)
  <2>1. k \in DOMAIN s /\ k + 1 \in DOMAIN s /\ (u[k] = s[k] \/ u[k] = s[k + 1])
    BY <1>1
  <2> QED BY <2>1 DEF ToSet
<1>3. ASSUME NEW k \in DOMAIN s, k # i PROVE s[k] \in ToSet(u)
  <2>1. CASE k < i
    <3>1. k \in DOMAIN u /\ u[k] = s[k]
      BY <1>1, <2>1
    <3> QED BY <3>1 DEF ToSet
  <2>2. CASE k > i
    <3>1. k - 1 \in DOMAIN u /\ ~(k - 1 < i) /\ k - 1 + 1 = k
      BY <1>1, <2>2
    <3>2. u[k - 1] = s[k]
      BY <1>1, <3>1
    <3> QED BY <3>1, <3>2 DEF ToSet
  <2> QED BY <1>1, <1>3, <2>1, <2>2
<1>4. ToSet(u) \subseteq ToSet(s) /\ s[i] \in ToSet(s)
  BY <1>1, <1>2 DEF ToSet
<1>5. ToSet(s) \subseteq ToSet(u) \cup {s[i]}
  BY <1>3 DEF ToSet
<1> QED BY <1>4, <1>5 DEF u

-----------------------------------------------------------------------------
(* Selected is the last value of its chain.                                *)
Selects(f, s, keep, T) ==
  /\ f \in [0..Len(s) -> Seq(T)]
  /\ f[0] = <<>>
  /\ \A k \in 0..Len(s) - 1 : f[k + 1] = IF s[k + 1] \in keep THEN Append(f[k], s[k + 1]) ELSE f[k]

(* What Selected denotes: the recursion ends, with a sequence each time.   *)
LEMMA SelectedChain ==
  ASSUME NEW T, NEW s \in Seq(T), NEW keep
  PROVE  \E f : Selects(f, s, keep, T) /\ Selected(s, keep) = f[Len(s)]
<1> DEFINE n == Len(s)
           Next(k, a) == IF s[k] \in keep THEN Append(a, s[k]) ELSE a
           step == [k \in 1..n |-> [a \in Seq(T) |-> Next(k, a)]]
           Kept(f) == f = [k \in 0..n |-> IF k = 0 THEN <<>>
                                          ELSE IF s[k] \in keep THEN Append(f[k - 1], s[k]) ELSE f[k - 1]]
           kept == CHOOSE f : Kept(f)
<1>1. n \in Nat /\ \A k \in 1..n : s[k] \in T
  OBVIOUS
<1>2. step \in [1..n -> [Seq(T) -> Seq(T)]]
  BY <1>1
<1>3. \E f : Kept(f)
  <2>1. <<>> \in Seq(T)
    OBVIOUS
  <2>2. PICK f \in [0..n -> Seq(T)] : f[0] = <<>> /\ \A k \in 1..n : f[k] = step[k][f[k - 1]]
    <3> HIDE DEF step, n
    <3>1. step \in Steps(Seq(T), n)
      BY <1>2 DEF Steps
    <3>2. \E f : IsChain(f, Seq(T), <<>>, n, step)
      BY <1>1, <2>1, <3>1, ChainExists
    <3> QED BY <3>2 DEF IsChain
  <2>3. ASSUME NEW k \in 1..n PROVE f[k] = Next(k, f[k - 1])
    <3>1. f[k - 1] \in Seq(T)
      BY <1>1, <2>2
    <3>2. f[k] = step[k][f[k - 1]] /\ step[k] = [a \in Seq(T) |-> Next(k, a)]
      BY <2>2
    <3> QED BY <3>1, <3>2
  <2>4. Kept(f)
    <3> HIDE DEF step
    <3>1. \A k \in 0..n : f[k] = IF k = 0 THEN <<>> ELSE Next(k, f[k - 1])
      <4> HIDE DEF Next
      <4> QED BY <2>2, <2>3, <1>1
    <3> QED BY <2>2, <3>1
  <2> QED BY <2>4
<1>4. Kept(kept)
  <2> HIDE DEF Kept
  <2> QED BY <1>3
<1>5. kept[0] = <<>> /\ \A k \in 0..n - 1 : kept[k + 1] = Next(k + 1, kept[k])
  <2> HIDE DEF kept
  <2>1. \A k \in 0..n : kept[k] = IF k = 0 THEN <<>> ELSE Next(k, kept[k - 1])
    BY <1>4
  <2>2. kept[0] = <<>>
    BY <2>1, <1>1
  <2>3. ASSUME NEW k \in 0..n - 1 PROVE kept[k + 1] = Next(k + 1, kept[k])
    <3> HIDE DEF Next
    <3>1. k + 1 \in 0..n /\ k + 1 # 0 /\ k + 1 - 1 = k
      BY <1>1
    <3>2. kept[k + 1] = Next(k + 1, kept[k + 1 - 1])
      BY <2>1, <3>1
    <3> QED BY <3>1, <3>2
  <2> QED BY <2>2, <2>3
<1>6. \A k \in Nat : k \in {m \in Nat : m <= n => kept[m] \in Seq(T)}
  <2> DEFINE Typed == {m \in Nat : m <= n => kept[m] \in Seq(T)}
  <2> HIDE DEF kept
  <2>1. 0 \in Typed
    <3>1. <<>> \in Seq(T)
      OBVIOUS
    <3> QED BY <1>5, <3>1
  <2>2. ASSUME NEW m \in Nat, m \in Typed PROVE m + 1 \in Typed
    <3> SUFFICES ASSUME m + 1 <= n PROVE kept[m + 1] \in Seq(T)
      OBVIOUS
    <3>1. m \in 0..n - 1 /\ kept[m] \in Seq(T) /\ s[m + 1] \in T
      BY <2>2, <1>1
    <3>2. kept[m + 1] = Next(m + 1, kept[m])
      BY <3>1, <1>5
    <3>3. Append(kept[m], s[m + 1]) \in Seq(T)
      BY <3>1
    <3> QED BY <3>1, <3>2, <3>3
  <2> HIDE DEF Typed
  <2>3. \A m \in Nat : m \in Typed
    BY <2>1, <2>2, SetInduction
  <2> QED BY <2>3 DEF Typed
<1>7. DOMAIN kept = 0..n /\ kept = [k \in 0..n |-> kept[k]]
  <2> HIDE DEF kept
  <2> QED BY <1>4
<1>8. kept \in [0..n -> Seq(T)]
  <2> HIDE DEF kept
  <2> QED BY <1>1, <1>6, <1>7
<1>9. Selected(s, keep) = kept[n]
  BY DEF Selected
<1> HIDE DEF kept
<1> QED BY <1>5, <1>8, <1>9 DEF Selects

(* What is selected and where it stood: the positions ascend, and nothing  *)
(* that is to be kept is passed over.                                      *)
StandsAt(sel, at, s, keep, n) ==
  /\ at \in [1..Len(sel) -> 1..n]
  /\ \A i, j \in 1..Len(sel) : i < j => at[i] < at[j]
  /\ \A i \in 1..Len(sel) : sel[i] = s[at[i]] /\ sel[i] \in keep
  /\ \A k \in 1..n : s[k] \in keep => \E i \in 1..Len(sel) : at[i] = k

(* Selected takes what is to be kept from ascending positions.             *)
LEMMA SelectedStands ==
  ASSUME NEW T, NEW s \in Seq(T), NEW keep
  PROVE  /\ Selected(s, keep) \in Seq(T)
         /\ \E at : StandsAt(Selected(s, keep), at, s, keep, Len(s))
<1>0. PICK f : Selects(f, s, keep, T) /\ Selected(s, keep) = f[Len(s)]
  BY SelectedChain
<1>1. /\ f \in [0..Len(s) -> Seq(T)] /\ f[0] = <<>>
      /\ \A k \in 0..Len(s) - 1 : f[k + 1] = IF s[k + 1] \in keep THEN Append(f[k], s[k + 1]) ELSE f[k]
      /\ Selected(s, keep) = f[Len(s)]
  BY <1>0 DEF Selects
<1>2. Len(s) \in Nat /\ \A k \in 1..Len(s) : s[k] \in T
  OBVIOUS
<1> DEFINE n == Len(s)
           Found == {m \in Nat : m <= n => \E at : StandsAt(f[m], at, s, keep, m)}
<1>3. 0 \in Found
  <2> DEFINE at == [i \in 1..0 |-> 1]
  <2>1. StandsAt(f[0], at, s, keep, 0)
    BY <1>1 DEF StandsAt
  <2> QED BY <2>1
<1>4. ASSUME NEW m \in Nat, m \in Found PROVE m + 1 \in Found
  <2> SUFFICES ASSUME m + 1 <= n PROVE \E at : StandsAt(f[m + 1], at, s, keep, m + 1)
    OBVIOUS
  <2>1. PICK at : StandsAt(f[m], at, s, keep, m)
    BY <1>4, <1>2
  <2>2. m \in 0..n - 1 /\ f[m] \in Seq(T) /\ s[m + 1] \in T
    BY <1>1, <1>2
  <2>3. CASE s[m + 1] \notin keep
    <3>1. f[m + 1] = f[m]
      BY <1>1, <2>2, <2>3
    <3>2. StandsAt(f[m + 1], at, s, keep, m + 1)
      BY <2>1, <2>2, <2>3, <3>1 DEF StandsAt
    <3> QED BY <3>2
  <2>4. CASE s[m + 1] \in keep
    <3> DEFINE l == Len(f[m])
               wide == [i \in 1..l + 1 |-> IF i = l + 1 THEN m + 1 ELSE at[i]]
    <3>1. f[m + 1] = Append(f[m], s[m + 1])
      BY <1>1, <2>2, <2>4
    <3>2. /\ l \in Nat /\ Len(f[m + 1]) = l + 1 /\ f[m + 1][l + 1] = s[m + 1]
          /\ \A i \in 1..l : f[m + 1][i] = f[m][i]
      BY <2>2, <3>1
    <3>3. \A i \in 1..l : at[i] \in 1..m /\ f[m][i] = s[at[i]] /\ f[m][i] \in keep
      BY <2>1 DEF StandsAt
    <3>4. wide \in [1..l + 1 -> 1..m + 1]
      BY <3>2, <3>3
    <3>5. \A i, j \in 1..l + 1 : i < j => wide[i] < wide[j]
      BY <3>2, <3>3, <2>1 DEF StandsAt
    <3>6. \A i \in 1..l + 1 : f[m + 1][i] = s[wide[i]] /\ f[m + 1][i] \in keep
      <4> SUFFICES ASSUME NEW i \in 1..l + 1 PROVE f[m + 1][i] = s[wide[i]] /\ f[m + 1][i] \in keep
        OBVIOUS
      <4>1. CASE i = l + 1
        BY <3>2, <2>4, <4>1
      <4>2. CASE i # l + 1
        <5>1. i \in 1..l /\ wide[i] = at[i]
          BY <3>2, <4>2
        <5> HIDE DEF wide, l
        <5> QED BY <3>2, <3>3, <5>1
      <4> QED BY <4>1, <4>2
    <3>7. ASSUME NEW k \in 1..m + 1, s[k] \in keep PROVE \E i \in 1..l + 1 : wide[i] = k
      <4>1. CASE k = m + 1
        <5>1. l + 1 \in 1..l + 1 /\ wide[l + 1] = m + 1
          BY <3>2
        <5> QED BY <4>1, <5>1
      <4>2. CASE k # m + 1
        <5>1. PICK i \in 1..l : at[i] = k
          BY <4>2, <3>7, <2>1 DEF StandsAt
        <5>2. i \in 1..l + 1 /\ wide[i] = at[i]
          BY <3>2
        <5> QED BY <5>1, <5>2
      <4> QED BY <4>1, <4>2
    <3>8. StandsAt(f[m + 1], wide, s, keep, m + 1)
      <4> HIDE DEF wide
      <4> QED BY <3>2, <3>4, <3>5, <3>6, <3>7 DEF StandsAt
    <3> QED BY <3>8
  <2> QED BY <2>3, <2>4
<1>5. n \in Found
  <2> HIDE DEF Found
  <2> QED BY <1>2, <1>3, <1>4, SetInduction
<1>6. f[n] \in Seq(T) /\ \E at : StandsAt(f[n], at, s, keep, n)
  BY <1>1, <1>2, <1>5
<1> QED BY <1>1, <1>6

(* What is selected: the elements that are both in the sequence and to be  *)
(* kept.                                                                   *)
LEMMA SelectedSet ==
  ASSUME NEW T, NEW s \in Seq(T), NEW keep
  PROVE  Selected(s, keep) \in Seq(T) /\ ToSet(Selected(s, keep)) = ToSet(s) \cap keep
<1> DEFINE sel == Selected(s, keep)
           n == Len(s)
<1>1. sel \in Seq(T) /\ \E at : StandsAt(sel, at, s, keep, n)
  BY SelectedStands
<1>2. DOMAIN sel = 1..Len(sel) /\ DOMAIN s = 1..n
  BY <1>1
<1> HIDE DEF sel, n
<1>3. PICK at : StandsAt(sel, at, s, keep, n)
  BY <1>1
<1>4. ASSUME NEW x \in ToSet(sel) PROVE x \in ToSet(s) \cap keep
  <2>1. PICK i \in 1..Len(sel) : x = sel[i]
    BY <1>2 DEF ToSet
  <2>2. at[i] \in 1..n /\ x = s[at[i]] /\ x \in keep
    BY <1>3, <2>1 DEF StandsAt
  <2> QED BY <1>2, <2>2 DEF ToSet
<1>5. ASSUME NEW x \in ToSet(s), x \in keep PROVE x \in ToSet(sel)
  <2>1. PICK k \in 1..n : x = s[k]
    BY <1>2 DEF ToSet
  <2>2. PICK i \in 1..Len(sel) : at[i] = k
    BY <1>3, <1>5, <2>1 DEF StandsAt
  <2>3. sel[i] = x
    BY <1>3, <2>1, <2>2 DEF StandsAt
  <2> QED BY <1>2, <2>3 DEF ToSet
<1>6. ToSet(sel) = ToSet(s) \cap keep
  BY <1>4, <1>5
<1> QED BY <1>1, <1>6 DEF sel

(* What is selected of a sequence in which elements stand in an order      *)
(* stands in that order.                                                   *)
LEMMA SelectedInOrder ==
  ASSUME NEW T, NEW s \in Seq(T), NEW keep, NEW order,
         \A i, j \in DOMAIN s : i < j => <<s[i], s[j]>> \in order
  PROVE  LET sel == Selected(s, keep)
         IN  \A i, j \in DOMAIN sel : i < j => <<sel[i], sel[j]>> \in order
<1> DEFINE sel == Selected(s, keep)
           n == Len(s)
<1>1. sel \in Seq(T) /\ \E at : StandsAt(sel, at, s, keep, n)
  BY SelectedStands
<1>2. DOMAIN sel = 1..Len(sel) /\ DOMAIN s = 1..n
  BY <1>1
<1> HIDE DEF sel, n
<1>3. PICK at : StandsAt(sel, at, s, keep, n)
  BY <1>1
<1>4. ASSUME NEW i \in DOMAIN sel, NEW j \in DOMAIN sel, i < j PROVE <<sel[i], sel[j]>> \in order
  <2>1. at[i] \in DOMAIN s /\ at[j] \in DOMAIN s /\ at[i] < at[j] /\ sel[i] = s[at[i]] /\ sel[j] = s[at[j]]
    BY <1>2, <1>3, <1>4 DEF StandsAt
  <2> QED BY <2>1
<1> QED BY <1>4 DEF sel

(* Nothing is selected when nothing is to be kept.                         *)
LEMMA NothingSelected ==
  ASSUME NEW T, NEW s \in Seq(T), NEW keep, ToSet(s) \cap keep = {}
  PROVE  Selected(s, keep) = <<>>
<1> DEFINE sel == Selected(s, keep)
<1>1. sel \in Seq(T) /\ ToSet(sel) = {}
  BY SelectedSet
<1> HIDE DEF sel
<1>2. sel = <<>>
  <2>1. ASSUME NEW i \in 1..Len(sel) PROVE FALSE
    <3>1. sel[i] \in ToSet(sel)
      BY <1>1 DEF ToSet
    <3> QED BY <1>1, <3>1
  <2>2. Len(sel) = 0
    BY <1>1, <2>1
  <2> QED BY <1>1, <2>2
<1> QED BY <1>2 DEF sel

(* The elements of a sequence that gained one.                             *)
LEMMA SetOfAppended ==
  ASSUME NEW T, NEW s \in Seq(T), NEW x \in T
  PROVE  ToSet(Append(s, x)) = ToSet(s) \cup {x}
<1> DEFINE u == Append(s, x)
           n == Len(s)
<1>1. /\ n \in Nat /\ DOMAIN s = 1..n /\ DOMAIN u = 1..n + 1
      /\ \A k \in 1..n : u[k] = s[k]
      /\ u[n + 1] = x
  BY AppendProperties
<1> HIDE DEF u, n
<1>2. \A k \in 1..n + 1 : k \in 1..n \/ k = n + 1
  BY <1>1
<1>3. n + 1 \in 1..n + 1 /\ \A k \in 1..n : k \in 1..n + 1
  BY <1>1
<1>4. ToSet(u) = ToSet(s) \cup {x}
  BY <1>1, <1>2, <1>3 DEF ToSet
<1> QED BY <1>4 DEF u

(* A nonempty sequence is its head and the rest.                           *)
LEMMA SetOfRest ==
  ASSUME NEW T, NEW s \in Seq(T), s # <<>>
  PROVE  ToSet(s) = {Head(s)} \cup ToSet(Tail(s))
<1> DEFINE u == Tail(s)
           n == Len(s)
<1>1. /\ n \in Nat /\ n > 0 /\ DOMAIN s = 1..n /\ DOMAIN u = 1..n - 1 /\ Head(s) = s[1]
      /\ \A k \in 1..n - 1 : u[k] = s[k + 1]
  BY HeadTailProperties
<1> HIDE DEF u, n
<1>2. \A k \in 1..n - 1 : k + 1 \in 1..n
  BY <1>1
<1>3. \A k \in 1..n : k = 1 \/ \E j \in 1..n - 1 : k = j + 1
  <2> SUFFICES ASSUME NEW k \in 1..n, k # 1 PROVE \E j \in 1..n - 1 : k = j + 1
    OBVIOUS
  <2>1. k - 1 \in 1..n - 1 /\ k = (k - 1) + 1
    BY <1>1
  <2> QED BY <2>1
<1>4. 1 \in 1..n
  BY <1>1
<1>5. ToSet(u) \subseteq ToSet(s) /\ Head(s) \in ToSet(s)
  BY <1>1, <1>2, <1>4 DEF ToSet
<1>6. ToSet(s) \subseteq {Head(s)} \cup ToSet(u)
  <2> SUFFICES ASSUME NEW k \in 1..n, k # 1 PROVE s[k] \in ToSet(u)
    BY <1>1 DEF ToSet
  <2>1. PICK j \in 1..n - 1 : k = j + 1
    BY <1>3
  <2> QED BY <1>1, <2>1 DEF ToSet
<1> QED BY <1>5, <1>6 DEF u

Ascends(s, order) == \A i, j \in DOMAIN s : i < j => <<s[i], s[j]>> \in order

Asymmetric(order, T) == \A x, y \in T : <<x, y>> \in order => <<y, x>> \notin order

(* Two sequences that ascend in the same order and have the same elements  *)
(* are the same.                                                           *)
LEMMA AscendingIsUnique ==
  ASSUME NEW T, NEW s \in Seq(T), NEW t \in Seq(T), ToSet(s) = ToSet(t), NEW order,
         Asymmetric(order, T), Ascends(s, order), Ascends(t, order)
  PROVE  s = t
<1> USE DEF Asymmetric, Ascends
<1> DEFINE Agree(k) == k \in DOMAIN s /\ k \in DOMAIN t /\ s[k] = t[k]
           Odd == {k \in DOMAIN s \cup DOMAIN t : ~Agree(k)}
<1>1. /\ DOMAIN s = 1..Len(s) /\ DOMAIN t = 1..Len(t) /\ Len(s) \in Nat /\ Len(t) \in Nat
      /\ (\A k \in DOMAIN s : s[k] \in T) /\ (\A k \in DOMAIN t : t[k] \in T)
  OBVIOUS
<1>2. ASSUME Odd # {} PROVE FALSE
  <2>1. Odd \in SUBSET Nat
    BY <1>1
  <2> HIDE DEF Odd
  <2>2. PICK k \in Odd : \A j \in Odd : k <= j
    BY <1>2, <2>1, LeastNatural
  <2>3. /\ k \in Nat /\ k \in DOMAIN s \cup DOMAIN t /\ ~Agree(k)
        /\ \A j \in DOMAIN s \cup DOMAIN t : j < k => Agree(j)
    <3>1. \A j \in DOMAIN s \cup DOMAIN t : j \in Nat
      BY <1>1
    <3>2. \A j \in DOMAIN s \cup DOMAIN t : ~Agree(j) => k <= j
      BY <2>2 DEF Odd
    <3>3. \A j \in Nat : j < k => ~(k <= j)
      BY <2>1
    <3> QED BY <2>1, <3>1, <3>2, <3>3 DEF Odd
  <2> HIDE DEF Agree
  <2>4. ASSUME k \in DOMAIN s
        PROVE  \E j \in DOMAIN t : k < j /\ t[j] = s[k]
    <3>1. PICK j \in DOMAIN t : t[j] = s[k]
      <4>1. s[k] \in ToSet(t)
        BY <2>4 DEF ToSet
      <4> QED BY <4>1 DEF ToSet
    <3>2. ~(j < k)
      <4> SUFFICES ASSUME j < k PROVE FALSE
        OBVIOUS
      <4>1. j \in DOMAIN s /\ s[j] = t[j]
        BY <2>3 DEF Agree
      <4>2. <<s[j], s[k]>> \in order
        BY <2>4, <4>1
      <4> QED BY <1>1, <2>4, <3>1, <4>1, <4>2
    <3>3. j # k
      BY <2>3, <2>4, <3>1 DEF Agree
    <3>4. j \in Nat
      BY <1>1
    <3> QED BY <2>3, <3>1, <3>2, <3>3, <3>4
  <2>5. ASSUME k \in DOMAIN t
        PROVE  \E i \in DOMAIN s : k < i /\ s[i] = t[k]
    <3>1. PICK i \in DOMAIN s : s[i] = t[k]
      <4>1. t[k] \in ToSet(s)
        BY <2>5 DEF ToSet
      <4> QED BY <4>1 DEF ToSet
    <3>2. ~(i < k)
      <4> SUFFICES ASSUME i < k PROVE FALSE
        OBVIOUS
      <4>1. i \in DOMAIN t /\ s[i] = t[i]
        BY <2>3 DEF Agree
      <4>2. <<t[i], t[k]>> \in order
        BY <2>5, <4>1
      <4> QED BY <1>1, <2>5, <3>1, <4>1, <4>2
    <3>3. i # k
      BY <2>3, <2>5, <3>1 DEF Agree
    <3>4. i \in Nat
      BY <1>1
    <3> QED BY <2>3, <3>1, <3>2, <3>3, <3>4
  <2>6. k \in DOMAIN s /\ k \in DOMAIN t
    <3>1. k \in DOMAIN s => k \in DOMAIN t
      BY <1>1, <2>3, <2>4
    <3>2. k \in DOMAIN t => k \in DOMAIN s
      BY <1>1, <2>3, <2>5
    <3> QED BY <2>3, <3>1, <3>2
  <2>7. PICK j \in DOMAIN t : k < j /\ t[j] = s[k]
    BY <2>4, <2>6
  <2>8. PICK i \in DOMAIN s : k < i /\ s[i] = t[k]
    BY <2>5, <2>6
  <2>9. <<t[k], t[j]>> \in order /\ <<s[k], s[i]>> \in order
    BY <2>6, <2>7, <2>8
  <2> QED BY <1>1, <2>6, <2>7, <2>8, <2>9
<1>3. \A k \in DOMAIN s \cup DOMAIN t : k \in DOMAIN s /\ k \in DOMAIN t /\ s[k] = t[k]
  BY <1>2
<1>4. DOMAIN s = DOMAIN t
  BY <1>3
<1>5. Len(s) = Len(t)
  <2>1. \A m, n \in Nat : 1..m = 1..n => m = n
    <3>1. ASSUME NEW m \in Nat, NEW n \in Nat, 1..m = 1..n, m < n PROVE FALSE
      <4>1. n \in 1..n /\ n \notin 1..m
        BY <3>1
      <4> QED BY <3>1, <4>1
    <3> QED BY <3>1
  <2> QED BY <1>1, <1>4, <2>1
<1> QED BY <1>1, <1>3, <1>5

-----------------------------------------------------------------------------
(* The parts of a finite set, by size.                                     *)
LEMMA PartSizes ==
  ASSUME NEW S, IsFiniteSet(S)
  PROVE  /\ Cardinality(S) \in Nat
         /\ \A T \in SUBSET S : /\ IsFiniteSet(T)
                                /\ Cardinality(T) \in Nat /\ Cardinality(T) <= Cardinality(S)
                                /\ Cardinality(T) = 0 <=> T = {}
                                /\ \A x \in T : Cardinality(T \ {x}) = Cardinality(T) - 1
<1>1. Cardinality(S) \in Nat
  BY FS_CardinalityType
<1>2. ASSUME NEW T \in SUBSET S
      PROVE  /\ IsFiniteSet(T)
             /\ Cardinality(T) \in Nat /\ Cardinality(T) <= Cardinality(S)
             /\ Cardinality(T) = 0 <=> T = {}
             /\ \A x \in T : Cardinality(T \ {x}) = Cardinality(T) - 1
  <2>1. IsFiniteSet(T) /\ Cardinality(T) <= Cardinality(S)
    BY FS_Subset
  <2>2. Cardinality(T) \in Nat
    BY <2>1, FS_CardinalityType
  <2>3. Cardinality(T) = 0 <=> T = {}
    BY <2>1, FS_EmptySet
  <2>4. \A x \in T : Cardinality(T \ {x}) = Cardinality(T) - 1
    BY <2>1, FS_RemoveElement
  <2> QED BY <2>1, <2>2, <2>3, <2>4
<1> QED BY <1>1, <1>2

(* What holds of a part as soon as it holds of the part without any one of *)
(* its elements holds of every part of a finite set.                       *)
LEMMA PartsInduction ==
  ASSUME NEW S, IsFiniteSet(S), NEW B,
         \A T \in SUBSET S : (\A x \in T : T \ {x} \in B) => T \in B
  PROVE  \A T \in SUBSET S : T \in B
<1> DEFINE Sized(n) == \A T \in SUBSET S : Cardinality(T) = n => T \in B
           Good == {n \in Nat : Sized(n)}
<1>1. 0 \in Good
  BY PartSizes
<1>2. ASSUME NEW n \in Nat, n \in Good PROVE n + 1 \in Good
  <2> SUFFICES ASSUME NEW T \in SUBSET S, Cardinality(T) = n + 1 PROVE T \in B
    OBVIOUS
  <2>1. ASSUME NEW x \in T PROVE T \ {x} \in B
    <3>1. Cardinality(T \ {x}) = n
      BY PartSizes
    <3> QED BY <1>2, <3>1
  <2> QED BY <2>1
<1>3. \A n \in Nat : n \in Good
  <2> HIDE DEF Good
  <2> QED BY <1>1, <1>2, SetInduction
<1> QED BY <1>3, PartSizes

(* g adds up f over the parts of S.                                        *)
IsTotal(g, f, S) ==
  /\ g \in [SUBSET S -> Int]
  /\ \A T \in SUBSET S : g[T] = IF T = {} THEN 0 ELSE f[OneOf(T)] + g[T \ {OneOf(T)}]

(* What Total denotes, for a finite family of integers.                    *)
LEMMA TotalDenotes ==
  ASSUME NEW S, IsFiniteSet(S), NEW f \in [S -> Int]
  PROVE  \E g : IsTotal(g, f, S) /\ Total(f) = g[S]
<1> DEFINE Body(h, T) == IF T = {} THEN 0 ELSE f[OneOf(T)] + h[T \ {OneOf(T)}]
           Upto(n) == {T \in SUBSET S : Cardinality(T) <= n}
           Added(n, h) == h \in [Upto(n) -> Int] /\ \A T \in Upto(n) : h[T] = Body(h, T)
           Built == {n \in Nat : \E h : Added(n, h)}
           Sum(h) == h = [T \in SUBSET S |-> Body(h, T)]
           sum == CHOOSE h : Sum(h)
<1>1. ASSUME NEW T \in SUBSET S, T # {}
      PROVE  OneOf(T) \in T /\ f[OneOf(T)] \in Int /\ T \ {OneOf(T)} \in SUBSET S
  BY <1>1 DEF OneOf
<1>2. 0 \in Built
  <2> DEFINE h == [T \in Upto(0) |-> 0]
  <2>1. \A T \in Upto(0) : T = {}
    BY PartSizes
  <2>2. Added(0, h)
    BY <2>1
  <2> QED BY <2>2
<1>3. ASSUME NEW n \in Nat, n \in Built PROVE n + 1 \in Built
  <2>1. PICK h : Added(n, h)
    BY <1>3
  <2> DEFINE k == [T \in Upto(n + 1) |-> IF Cardinality(T) <= n THEN h[T]
                                         ELSE f[OneOf(T)] + h[T \ {OneOf(T)}]]
  <2>2. ASSUME NEW T \in Upto(n + 1) PROVE k[T] \in Int /\ k[T] = Body(k, T)
    <3>1. Cardinality(T) \in Nat /\ (Cardinality(T) = 0 <=> T = {})
      BY PartSizes
    <3>2. CASE T = {}
      <4>1. T \in Upto(n)
        BY <3>1, <3>2
      <4>2. k[T] = h[T]
        BY <4>1
      <4>3. h[T] \in Int /\ h[T] = 0
        BY <2>1, <3>2, <4>1
      <4> HIDE DEF k
      <4> QED BY <3>2, <4>2, <4>3
    <3>3. CASE T # {}
      <4> DEFINE x == OneOf(T)
                 R == T \ {x}
      <4>1. x \in T /\ f[x] \in Int /\ R \in SUBSET S
        BY <1>1, <3>3
      <4>2. Cardinality(R) = Cardinality(T) - 1
        BY <4>1, PartSizes
      <4>3. R \in Upto(n) /\ R \in Upto(n + 1) /\ Cardinality(R) <= n
        BY <3>1, <4>1, <4>2
      <4>4. k[R] = h[R] /\ h[R] \in Int
        BY <2>1, <4>3
      <4>5. CASE Cardinality(T) <= n
        <5>1. k[T] = h[T] /\ T \in Upto(n)
          BY <4>5
        <5>2. h[T] = f[x] + h[R]
          BY <2>1, <3>3, <5>1
        <5> HIDE DEF k, R, x
        <5>3. Body(k, T) = f[x] + k[R]
          BY <3>3 DEF R, x
        <5> QED BY <4>1, <4>4, <5>1, <5>2, <5>3
      <4>6. CASE ~(Cardinality(T) <= n)
        <5>1. k[T] = f[x] + h[R]
          BY <4>6
        <5> HIDE DEF k, R, x
        <5>2. Body(k, T) = f[x] + k[R]
          BY <3>3 DEF R, x
        <5> QED BY <4>1, <4>4, <5>1, <5>2
      <4> QED BY <4>5, <4>6
    <3> QED BY <3>2, <3>3
  <2>3. k \in [Upto(n + 1) -> Int]
    <3>1. k = [T \in Upto(n + 1) |-> k[T]]
      OBVIOUS
    <3> HIDE DEF k
    <3> QED BY <2>2, <3>1
  <2>4. Added(n + 1, k)
    <3> HIDE DEF k, Body, Upto
    <3> QED BY <2>2, <2>3
  <2>5. \E q : Added(n + 1, q)
    <3> HIDE DEF k, Added
    <3> QED BY <2>4
  <2>6. n + 1 \in Nat
    OBVIOUS
  <2> HIDE DEF Added
  <2> QED BY <2>5, <2>6
<1>4. Cardinality(S) \in Built
  <2> HIDE DEF Built
  <2> QED BY <1>2, <1>3, SetInduction, PartSizes
<1>5. PICK h : Added(Cardinality(S), h)
  BY <1>4
<1>6. Upto(Cardinality(S)) = SUBSET S
  BY PartSizes
<1>7. Sum(h)
  <2>1. h \in [SUBSET S -> Int] /\ \A T \in SUBSET S : h[T] = Body(h, T)
    <3> HIDE DEF Upto, Body
    <3> QED BY <1>5, <1>6
  <2> HIDE DEF Body
  <2> QED BY <2>1
<1>8. Sum(sum)
  <2> HIDE DEF Sum
  <2> QED BY <1>7
<1>9. \A T \in SUBSET S : sum[T] = Body(sum, T)
  <2> HIDE DEF sum, Body
  <2> QED BY <1>8
<1>10. \A T \in SUBSET S : T \in {R \in SUBSET S : sum[R] \in Int}
  <2> DEFINE B == {R \in SUBSET S : sum[R] \in Int}
  <2> HIDE DEF sum
  <2>1. ASSUME NEW T \in SUBSET S, \A x \in T : T \ {x} \in B PROVE T \in B
    <3>1. CASE T = {}
      <4>1. sum[T] = 0
        BY <1>9, <3>1
      <4> QED BY <4>1
    <3>2. CASE T # {}
      <4>1. OneOf(T) \in T /\ f[OneOf(T)] \in Int
        BY <1>1, <3>2
      <4>2. sum[T \ {OneOf(T)}] \in Int
        BY <2>1, <4>1
      <4>3. sum[T] = f[OneOf(T)] + sum[T \ {OneOf(T)}]
        BY <1>9, <3>2
      <4> QED BY <4>1, <4>2, <4>3
    <3> QED BY <3>1, <3>2
  <2> HIDE DEF B
  <2>2. \A T \in SUBSET S : T \in B
    BY <2>1, PartsInduction
  <2> QED BY <2>2 DEF B
<1>11. IsTotal(sum, f, S)
  <2>1. sum = [T \in SUBSET S |-> Body(sum, T)]
    <3> HIDE DEF sum, Body
    <3> QED BY <1>8
  <2>2. sum \in [SUBSET S -> Int]
    <3> HIDE DEF sum, Body
    <3> QED BY <1>10, <2>1
  <2> HIDE DEF sum
  <2> QED BY <1>9, <2>2 DEF IsTotal
<1>12. Total(f) = sum[S]
  <2>1. DOMAIN f = S
    OBVIOUS
  <2> QED BY <2>1 DEF Total
<1> QED BY <1>11, <1>12

(* Any term may be added last.                                             *)
LEMMA AnyTermLast ==
  ASSUME NEW S, IsFiniteSet(S), NEW f \in [S -> Int], NEW g, IsTotal(g, f, S)
  PROVE  \A T \in SUBSET S : \A y \in T : g[T] = f[y] + g[T \ {y}]
<1> DEFINE B == {T \in SUBSET S : \A y \in T : g[T] = f[y] + g[T \ {y}]}
<1>1. ASSUME NEW T \in SUBSET S, \A x \in T : T \ {x} \in B PROVE T \in B
  <2> SUFFICES ASSUME NEW y \in T PROVE g[T] = f[y] + g[T \ {y}]
    OBVIOUS
  <2> DEFINE x == OneOf(T)
  <2>1. x \in T /\ g[T] = f[x] + g[T \ {x}]
    BY DEF OneOf, IsTotal
  <2> HIDE DEF x
  <2>2. CASE x # y
    <3>1. g[T \ {x}] = f[y] + g[(T \ {x}) \ {y}]
      BY <1>1, <2>1, <2>2
    <3>2. g[T \ {y}] = f[x] + g[(T \ {y}) \ {x}]
      BY <1>1, <2>1, <2>2
    <3>3. (T \ {x}) \ {y} = (T \ {y}) \ {x}
      OBVIOUS
    <3>4. f[x] \in Int /\ f[y] \in Int
      BY <2>1
    <3>5. (T \ {x}) \ {y} \in SUBSET S
      OBVIOUS
    <3> DEFINE rest == g[(T \ {x}) \ {y}]
    <3>6. rest \in Int
      BY <3>5 DEF IsTotal
    <3>7. g[T] = f[x] + (f[y] + rest) /\ g[T \ {y}] = f[x] + rest
      BY <2>1, <3>1, <3>2, <3>3
    <3> HIDE DEF rest
    <3> QED BY <3>4, <3>6, <3>7
  <2> QED BY <2>1, <2>2
<1> HIDE DEF B
<1>2. \A T \in SUBSET S : T \in B
  BY <1>1, PartsInduction
<1> QED BY <1>2 DEF B

(* The total of a part does not depend on the family beyond it.            *)
LEMMA TotalsAgree ==
  ASSUME NEW S, NEW R, R \subseteq S, IsFiniteSet(R), NEW f, NEW e, NEW g, NEW h,
         IsTotal(g, f, S), IsTotal(h, e, R), \A x \in R : f[x] = e[x]
  PROVE  g[R] = h[R]
<1> DEFINE B == {T \in SUBSET R : g[T] = h[T]}
<1>1. ASSUME NEW T \in SUBSET R, \A x \in T : T \ {x} \in B PROVE T \in B
  <2>1. CASE T = {}
    BY <2>1 DEF IsTotal
  <2>2. CASE T # {}
    <3>1. OneOf(T) \in T
      BY <2>2 DEF OneOf
    <3>2. /\ g[T] = f[OneOf(T)] + g[T \ {OneOf(T)}]
          /\ h[T] = e[OneOf(T)] + h[T \ {OneOf(T)}]
      BY <2>2 DEF IsTotal
    <3>3. g[T \ {OneOf(T)}] = h[T \ {OneOf(T)}] /\ f[OneOf(T)] = e[OneOf(T)]
      BY <1>1, <3>1
    <3> QED BY <3>2, <3>3
  <2> QED BY <2>1, <2>2
<1> HIDE DEF B
<1>2. R \in B
  BY <1>1, PartsInduction
<1> QED BY <1>2 DEF B

(* A total is an integer, and nothing adds up to zero.                     *)
LEMMA TotalType ==
  ASSUME NEW S, IsFiniteSet(S), NEW f \in [S -> Int]
  PROVE  Total(f) \in Int /\ (S = {} => Total(f) = 0)
<1>1. PICK g : IsTotal(g, f, S) /\ Total(f) = g[S]
  BY TotalDenotes
<1> QED BY <1>1 DEF IsTotal

(* A total is any of its terms and the total of the others.                *)
LEMMA TotalWithTerm ==
  ASSUME NEW S, IsFiniteSet(S), NEW f \in [S -> Int], NEW y \in S
  PROVE  Total(f) = f[y] + Total([x \in S \ {y} |-> f[x]])
<1> DEFINE R == S \ {y}
           e == [x \in R |-> f[x]]
<1>1. IsFiniteSet(R) /\ e \in [R -> Int] /\ R \subseteq S
  BY FS_RemoveElement
<1>2. PICK g : IsTotal(g, f, S) /\ Total(f) = g[S]
  BY TotalDenotes
<1>3. PICK h : IsTotal(h, e, R) /\ Total(e) = h[R]
  <2> HIDE DEF R, e
  <2> QED BY <1>1, TotalDenotes
<1>4. g[R] = h[R]
  <2>1. \A x \in R : f[x] = e[x]
    OBVIOUS
  <2> HIDE DEF R, e
  <2> QED BY <1>1, <1>2, <1>3, <2>1, TotalsAgree
<1>5. g[S] = f[y] + g[R]
  BY <1>2, AnyTermLast
<1> QED BY <1>2, <1>3, <1>4, <1>5

(* Totals add up term by term.                                             *)
LEMMA TotalOfSums ==
  ASSUME NEW S, IsFiniteSet(S), NEW f \in [S -> Int], NEW e \in [S -> Int], NEW k \in [S -> Int],
         \A x \in S : k[x] = f[x] + e[x]
  PROVE  Total(k) = Total(f) + Total(e)
<1>1. PICK g : IsTotal(g, f, S) /\ Total(f) = g[S]
  BY TotalDenotes
<1>2. PICK h : IsTotal(h, e, S) /\ Total(e) = h[S]
  BY TotalDenotes
<1>3. PICK j : IsTotal(j, k, S) /\ Total(k) = j[S]
  BY TotalDenotes
<1> DEFINE B == {T \in SUBSET S : j[T] = g[T] + h[T]}
<1>4. ASSUME NEW T \in SUBSET S, \A x \in T : T \ {x} \in B PROVE T \in B
  <2>1. CASE T = {}
    <3>1. g[T] = 0 /\ h[T] = 0 /\ j[T] = 0
      BY <1>1, <1>2, <1>3, <2>1 DEF IsTotal
    <3> QED BY <3>1
  <2>2. CASE T # {}
    <3> DEFINE x == OneOf(T)
               R == T \ {x}
    <3>1. x \in T /\ R \in SUBSET S
      BY <2>2 DEF OneOf
    <3>2. g[T] = f[x] + g[R] /\ h[T] = e[x] + h[R] /\ j[T] = k[x] + j[R]
      BY <1>1, <1>2, <1>3, <2>2 DEF IsTotal
    <3>3. g[R] \in Int /\ h[R] \in Int
      BY <1>1, <1>2, <3>1 DEF IsTotal
    <3>4. f[x] \in Int /\ e[x] \in Int /\ k[x] = f[x] + e[x] /\ j[R] = g[R] + h[R]
      BY <1>4, <3>1
    <3> HIDE DEF x, R
    <3>5. j[T] = g[T] + h[T]
      BY <3>2, <3>3, <3>4
    <3> QED BY <3>5
  <2> QED BY <2>1, <2>2
<1> HIDE DEF B
<1>5. S \in B
  <2>1. \A T \in SUBSET S : T \in B
    BY <1>4, PartsInduction
  <2> QED BY <2>1
<1> QED BY <1>1, <1>2, <1>3, <1>5 DEF B

(* A family that is nowhere greater has no greater total.                  *)
LEMMA TotalAtMost ==
  ASSUME NEW S, IsFiniteSet(S), NEW f \in [S -> Int], NEW e \in [S -> Int],
         \A x \in S : f[x] <= e[x]
  PROVE  Total(f) <= Total(e)
<1>1. PICK g : IsTotal(g, f, S) /\ Total(f) = g[S]
  BY TotalDenotes
<1>2. PICK h : IsTotal(h, e, S) /\ Total(e) = h[S]
  BY TotalDenotes
<1> DEFINE B == {T \in SUBSET S : g[T] <= h[T]}
<1>3. ASSUME NEW T \in SUBSET S, \A x \in T : T \ {x} \in B PROVE T \in B
  <2>1. CASE T = {}
    <3>1. g[T] = 0 /\ h[T] = 0
      BY <1>1, <1>2, <2>1 DEF IsTotal
    <3> QED BY <3>1
  <2>2. CASE T # {}
    <3> DEFINE x == OneOf(T)
               R == T \ {x}
    <3>1. x \in T /\ R \in SUBSET S
      BY <2>2 DEF OneOf
    <3>2. g[T] = f[x] + g[R] /\ h[T] = e[x] + h[R]
      BY <1>1, <1>2, <2>2 DEF IsTotal
    <3>3. g[R] \in Int /\ h[R] \in Int
      BY <1>1, <1>2, <3>1 DEF IsTotal
    <3>4. f[x] \in Int /\ e[x] \in Int /\ f[x] <= e[x] /\ g[R] <= h[R]
      BY <1>3, <3>1
    <3> HIDE DEF x, R
    <3>5. g[T] <= h[T]
      BY <3>2, <3>3, <3>4
    <3> QED BY <3>5
  <2> QED BY <2>1, <2>2
<1> HIDE DEF B
<1>4. S \in B
  BY <1>3, PartsInduction
<1> QED BY <1>1, <1>2, <1>4 DEF B

(* The same share for every member of a part.                              *)
LEMMA TotalOfShares ==
  ASSUME NEW S, IsFiniteSet(S), NEW M \in SUBSET S, NEW share \in Nat, NEW f \in [S -> Int],
         \A x \in S : f[x] = IF x \in M THEN share ELSE 0
  PROVE  Total(f) = Cardinality(M) * share
<1>1. PICK g : IsTotal(g, f, S) /\ Total(f) = g[S]
  BY TotalDenotes
<1> DEFINE B == {T \in SUBSET S : g[T] = Cardinality(T \cap M) * share}
<1>2. ASSUME NEW T \in SUBSET S, \A x \in T : T \ {x} \in B PROVE T \in B
  <2>1. CASE T = {}
    <3>1. T \cap M = {}
      BY <2>1
    <3>2. Cardinality({}) = 0
      BY FS_EmptySet
    <3>3. g[T] = 0
      BY <1>1, <2>1 DEF IsTotal
    <3>4. 0 * share = 0
      OBVIOUS
    <3>5. Cardinality(T \cap M) = 0
      BY <3>1, <3>2
    <3> QED BY <3>3, <3>4, <3>5
  <2>2. CASE T # {}
    <3> DEFINE x == OneOf(T)
               R == T \ {x}
    <3>1. x \in T /\ x \in S /\ R \in SUBSET S
      BY <2>2 DEF OneOf
    <3>2. g[T] = f[x] + g[R]
      BY <1>1, <2>2 DEF IsTotal
    <3>3. g[R] = Cardinality(R \cap M) * share
      BY <1>2, <3>1
    <3>4. /\ Cardinality(T \cap M) \in Nat /\ Cardinality(R \cap M) \in Nat
          /\ x \in M => Cardinality((T \cap M) \ {x}) = Cardinality(T \cap M) - 1
      BY <3>1, PartSizes
    <3>5. CASE x \in M
      <4>1. R \cap M = (T \cap M) \ {x}
        OBVIOUS
      <4>2. Cardinality(T \cap M) = Cardinality(R \cap M) + 1
        BY <3>4, <3>5, <4>1
      <4> DEFINE a == Cardinality(R \cap M)
      <4>3. g[T] = share + a * share /\ Cardinality(T \cap M) = a + 1 /\ a \in Nat
        BY <3>1, <3>2, <3>3, <3>4, <3>5, <4>2
      <4> HIDE DEF a, x, R
      <4>4. (a + 1) * share = share + a * share
        BY <4>3
      <4> QED BY <4>3, <4>4
    <3>6. CASE x \notin M
      <4>1. R \cap M = T \cap M
        BY <3>6
      <4>2. f[x] = 0
        BY <3>1, <3>6
      <4>3. g[R] \in Int
        BY <1>1, <3>1 DEF IsTotal
      <4> HIDE DEF x, R
      <4>4. g[T] = g[R]
        BY <3>2, <4>2, <4>3
      <4> QED BY <3>3, <4>1, <4>4
    <3> QED BY <3>5, <3>6
  <2> QED BY <2>1, <2>2
<1> HIDE DEF B
<1>3. S \in B
  BY <1>2, PartsInduction
<1>4. S \cap M = M
  OBVIOUS
<1> QED BY <1>1, <1>3, <1>4 DEF B

-----------------------------------------------------------------------------
(* A strict order in which any two members of M are comparable.            *)
Ordered(before, M) ==
  /\ \A a \in M : <<a, a>> \notin before
  /\ \A a, b, c \in M : <<a, b>> \in before /\ <<b, c>> \in before => <<a, c>> \in before
  /\ \A a, b \in M : a = b \/ <<a, b>> \in before \/ <<b, a>> \in before

AheadOf(before, M, t) == {u \in M : <<u, t>> \in before}
Turns(before, M, t) == Cardinality(AheadOf(before, M, t))
Foremost(before, M, k) == {t \in M : Turns(before, M, t) < k}

(* The foremost k of a finite ordered set are k.                           *)
LEMMA ForemostCount ==
  ASSUME NEW M, IsFiniteSet(M), NEW before, Ordered(before, M), NEW k \in Nat, k <= Cardinality(M)
  PROVE  Cardinality(Foremost(before, M, k)) = k
<1> DEFINE Behind(t) == AheadOf(before, M, t)
           rank == [t \in M |-> Turns(before, M, t)]
           First(j) == {t \in M : rank[t] < j}
           Good == {j \in Nat : j <= Cardinality(M) => Cardinality(First(j)) = j}
<1>1. rank \in [M -> Nat]
  <2>1. ASSUME NEW t \in M PROVE Turns(before, M, t) \in Nat
    <3>1. Behind(t) \in SUBSET M
      BY DEF AheadOf
    <3> QED BY <3>1, PartSizes DEF Turns
  <2> QED BY <2>1
<1>2. ASSUME NEW u \in M, NEW t \in M, <<u, t>> \in before PROVE rank[u] < rank[t]
  <2>1. Behind(u) \subseteq Behind(t) /\ u \in Behind(t) /\ u \notin Behind(u) /\ Behind(t) \in SUBSET M
    BY <1>2 DEF AheadOf, Ordered
  <2>2. IsFiniteSet(Behind(t))
    BY <2>1, FS_Subset
  <2>3. Cardinality(Behind(u)) <= Cardinality(Behind(t)) /\ Cardinality(Behind(u)) # Cardinality(Behind(t))
    BY <2>1, <2>2, FS_Subset
  <2>4. rank[u] = Cardinality(Behind(u)) /\ rank[t] = Cardinality(Behind(t))
    BY DEF Turns
  <2> HIDE DEF Behind, rank
  <2> QED BY <1>1, <2>3, <2>4
<1> HIDE DEF rank
<1>3. 0 \in Good
  <2>1. First(0) = {}
    BY <1>1
  <2> QED BY <2>1, FS_EmptySet
<1>4. ASSUME NEW j \in Nat, j \in Good PROVE j + 1 \in Good
  <2> SUFFICES ASSUME j + 1 <= Cardinality(M) PROVE Cardinality(First(j + 1)) = j + 1
    OBVIOUS
  <2>1. Cardinality(M) \in Nat /\ IsFiniteSet(First(j)) /\ First(j) \in SUBSET M
    BY PartSizes
  <2>2. Cardinality(First(j)) = j
    BY <1>4, <2>1
  <2> DEFINE Rest == M \ First(j)
             Ranks == {rank[t] : t \in Rest}
  <2>3. Rest # {}
    <3> SUFFICES ASSUME Rest = {} PROVE FALSE
      OBVIOUS
    <3>1. First(j) = M
      OBVIOUS
    <3> HIDE DEF First
    <3> QED BY <2>1, <2>2, <3>1
  <2>4. PICK low \in Ranks : \A r \in Ranks : low <= r
    <3>1. Ranks \in SUBSET Nat /\ Ranks # {}
      BY <1>1, <2>3
    <3> HIDE DEF Ranks
    <3> QED BY <3>1, LeastNatural
  <2>5. PICK m \in Rest : rank[m] = low
    OBVIOUS
  <2>6. m \in M /\ rank[m] \in Nat /\ rank[m] >= j /\ \A t \in Rest : rank[m] <= rank[t]
    BY <1>1, <2>4, <2>5
  <2>7. Behind(m) = First(j)
    <3>1. ASSUME NEW u \in Behind(m) PROVE u \in First(j)
      <4>1. u \in M /\ rank[u] < rank[m] /\ rank[u] \in Nat
        BY <1>1, <1>2, <2>6 DEF AheadOf
      <4> QED BY <2>6, <4>1
    <3>2. ASSUME NEW u \in First(j) PROVE u \in Behind(m)
      <4>1. u \in M /\ rank[u] < j /\ rank[u] \in Nat
        BY <1>1
      <4>2. u # m /\ ~(rank[m] < rank[u])
        BY <2>6, <4>1
      <4>3. <<m, u>> \notin before
        BY <1>2, <2>6, <4>1, <4>2
      <4> QED BY <2>6, <4>1, <4>2, <4>3 DEF Ordered, AheadOf
    <3> HIDE DEF First, Behind
    <3> QED BY <3>1, <3>2
  <2>8. rank[m] = j
    <3>1. rank[m] = Cardinality(Behind(m))
      BY <2>6 DEF rank, Turns
    <3> HIDE DEF Behind, First
    <3> QED BY <2>2, <2>7, <3>1
  <2>9. First(j + 1) = First(j) \cup {m}
    <3>1. ASSUME NEW t \in First(j + 1), t \notin First(j) PROVE t = m
      <4>1. t \in M /\ rank[t] = j
        BY <1>1, <3>1
      <4>2. <<t, m>> \notin before /\ <<m, t>> \notin before
        BY <1>2, <2>6, <2>8, <4>1
      <4> QED BY <2>6, <4>1, <4>2 DEF Ordered
    <3>2. \A t \in First(j) : t \in First(j + 1)
      BY <1>1
    <3>3. m \in First(j + 1)
      BY <2>6, <2>8
    <3> HIDE DEF First
    <3> QED BY <3>1, <3>2, <3>3
  <2>10. m \notin First(j)
    BY <2>5
  <2> HIDE DEF First
  <2> QED BY <2>1, <2>2, <2>9, <2>10, FS_AddElement
<1>5. k \in Good
  <2> HIDE DEF Good
  <2> QED BY <1>3, <1>4, SetInduction
<1>6. Foremost(before, M, k) = First(k)
  BY DEF Foremost, rank
<1> QED BY <1>5, <1>6

(* The lesser and the greater of two numbers.                              *)
LEMMA MinMaxOfTwo ==
  ASSUME NEW a \in Int, NEW b \in Int
  PROVE  /\ Min({a, b}) = IF a <= b THEN a ELSE b
         /\ Max({a, b}) = IF a >= b THEN a ELSE b
<1>1. Min({a, b}) \in {a, b} /\ Min({a, b}) <= a /\ Min({a, b}) <= b
  <2>1. \E x \in {a, b} : \A y \in {a, b} : x <= y
    BY a <= b \/ b <= a
  <2> QED BY <2>1 DEF Min
<1>2. Max({a, b}) \in {a, b} /\ Max({a, b}) >= a /\ Max({a, b}) >= b
  <2>1. \E x \in {a, b} : \A y \in {a, b} : x >= y
    BY a <= b \/ b <= a
  <2> QED BY <2>1 DEF Max
<1> QED BY <1>1, <1>2

-----------------------------------------------------------------------------
(* Totals of the same terms under other names.                             *)
LEMMA TotalRenamed ==
  ASSUME NEW S, IsFiniteSet(S), NEW R, IsFiniteSet(R), NEW at \in [S -> R],
         \A x, y \in S : at[x] = at[y] => x = y, \A r \in R : \E x \in S : at[x] = r,
         NEW e \in [S -> Int], NEW f \in [R -> Int], \A x \in S : e[x] = f[at[x]]
  PROVE  Total(e) = Total(f)
<1>1. PICK g : IsTotal(g, e, S) /\ Total(e) = g[S]
  BY TotalDenotes
<1>2. PICK h : IsTotal(h, f, R) /\ Total(f) = h[R]
  BY TotalDenotes
<1> DEFINE Image(P) == {at[x] : x \in P}
           B == {P \in SUBSET S : g[P] = h[Image(P)]}
<1>3. ASSUME NEW P \in SUBSET S, \A x \in P : P \ {x} \in B PROVE P \in B
  <2>1. CASE P = {}
    <3>1. Image(P) = {}
      BY <2>1
    <3>2. g[P] = 0 /\ h[Image(P)] = 0
      BY <1>1, <1>2, <2>1, <3>1 DEF IsTotal
    <3> QED BY <3>2
  <2>2. CASE P # {}
    <3>1. PICK x \in P : TRUE
      BY <2>2
    <3>2. Image(P) \in SUBSET R /\ at[x] \in Image(P) /\ Image(P \ {x}) = Image(P) \ {at[x]}
      OBVIOUS
    <3>3. g[P] = e[x] + g[P \ {x}]
      BY <1>1, AnyTermLast
    <3>4. h[Image(P)] = f[at[x]] + h[Image(P) \ {at[x]}]
      <4> HIDE DEF Image
      <4> QED BY <1>2, <3>2, AnyTermLast
    <3>5. g[P \ {x}] = h[Image(P \ {x})]
      BY <1>3, <3>1
    <3>6. g[P] = h[Image(P)]
      <4> HIDE DEF Image
      <4> QED BY <3>1, <3>2, <3>3, <3>4, <3>5
    <3> QED BY <3>6
  <2> QED BY <2>1, <2>2
<1>4. S \in B
  <2> HIDE DEF B
  <2>1. \A P \in SUBSET S : P \in B
    BY <1>3, PartsInduction
  <2> QED BY <2>1
<1>5. Image(S) = R
  OBVIOUS
<1> QED BY <1>1, <1>2, <1>4, <1>5

(* Terms that are zero may be left out of a total.                         *)
LEMMA TotalOfPart ==
  ASSUME NEW S, IsFiniteSet(S), NEW R \in SUBSET S, NEW f \in [S -> Int],
         \A x \in S \ R : f[x] = 0, NEW e \in [R -> Int], \A x \in R : e[x] = f[x]
  PROVE  Total(f) = Total(e)
<1>0. IsFiniteSet(R)
  BY FS_Subset
<1>1. PICK g : IsTotal(g, f, S) /\ Total(f) = g[S]
  BY TotalDenotes
<1>2. PICK h : IsTotal(h, e, R) /\ Total(e) = h[R]
  <2> QED BY <1>0, TotalDenotes
<1> DEFINE B == {P \in SUBSET S : g[P] = h[P \cap R]}
<1>3. ASSUME NEW P \in SUBSET S, \A x \in P : P \ {x} \in B PROVE P \in B
  <2>1. CASE P = {}
    <3>1. g[P] = 0 /\ h[P \cap R] = 0
      BY <1>1, <1>2, <2>1 DEF IsTotal
    <3> QED BY <3>1
  <2>2. CASE P # {}
    <3>1. PICK x \in P : TRUE
      BY <2>2
    <3>2. g[P] = f[x] + g[P \ {x}] /\ g[P \ {x}] = h[(P \ {x}) \cap R]
      BY <1>1, <1>3, AnyTermLast
    <3>3. h[(P \ {x}) \cap R] \in Int
      BY <1>2 DEF IsTotal
    <3>4. CASE x \in R
      <4>1. (P \ {x}) \cap R = (P \cap R) \ {x} /\ x \in P \cap R /\ e[x] = f[x]
        BY <3>4
      <4>2. h[P \cap R] = e[x] + h[(P \cap R) \ {x}]
        BY <1>0, <1>2, <4>1, AnyTermLast
      <4> QED BY <3>2, <4>1, <4>2
    <3>5. CASE x \notin R
      <4>1. (P \ {x}) \cap R = P \cap R /\ f[x] = 0
        BY <3>5
      <4>2. h[(P \ {x}) \cap R] = h[P \cap R]
        BY <4>1, Zenon
      <4>3. g[P] = h[(P \ {x}) \cap R]
        BY <3>2, <3>3, <4>1
      <4> QED BY <4>2, <4>3
    <3> QED BY <3>4, <3>5
  <2> QED BY <2>1, <2>2
<1>4. S \in B
  <2> HIDE DEF B
  <2>1. \A P \in SUBSET S : P \in B
    BY <1>3, PartsInduction
  <2> QED BY <2>1
<1>5. S \cap R = R
  OBVIOUS
<1> QED BY <1>1, <1>2, <1>4, <1>5

(* A total of which one term changes.                                      *)
LEMMA TotalUpdated ==
  ASSUME NEW S, IsFiniteSet(S), NEW f \in [S -> Int], NEW e \in [S -> Int], NEW y \in S,
         \A x \in S \ {y} : e[x] = f[x]
  PROVE  Total(e) = Total(f) - f[y] + e[y]
<1> DEFINE R == S \ {y}
<1>1. Total(f) = f[y] + Total([x \in R |-> f[x]]) /\ Total(e) = e[y] + Total([x \in R |-> e[x]])
  BY TotalWithTerm
<1>2. [x \in R |-> f[x]] = [x \in R |-> e[x]]
  OBVIOUS
<1>3. Total([x \in R |-> f[x]]) \in Int
  <2>1. IsFiniteSet(R) /\ [x \in R |-> f[x]] \in [R -> Int]
    BY FS_RemoveElement
  <2> HIDE DEF R
  <2> QED BY <2>1, TotalType
<1> HIDE DEF R
<1>4. f[y] \in Int /\ e[y] \in Int
  OBVIOUS
<1> QED BY <1>1, <1>2, <1>3, <1>4

(* A total of natural numbers is one.                                      *)
LEMMA TotalOfNaturals ==
  ASSUME NEW S, IsFiniteSet(S), NEW f \in [S -> Nat]
  PROVE  Total(f) \in Nat
<1> DEFINE zero == [x \in S |-> 0]
<1>1. zero \in [S -> Int] /\ f \in [S -> Int] /\ \A x \in S : zero[x] <= f[x] /\ zero[x] = IF x \in {} THEN 0 ELSE 0
  OBVIOUS
<1>2. Total(zero) = Cardinality({}) * 0
  <2> HIDE DEF zero
  <2>1. {} \in SUBSET S /\ 0 \in Nat
    OBVIOUS
  <2> QED BY <1>1, <2>1, TotalOfShares
<1>3. Total(zero) <= Total(f) /\ Total(f) \in Int
  <2> HIDE DEF zero
  <2> QED BY <1>1, TotalAtMost, TotalType
<1> QED BY <1>2, <1>3, FS_EmptySet

(* A total in which the terms of a part are equal.                         *)
Splits(S, M, L) == M \in SUBSET S /\ L = S \ M

LEMMA TotalWithShares ==
  ASSUME NEW S, IsFiniteSet(S), NEW M, NEW L, Splits(S, M, L), NEW share \in Nat, NEW f \in [S -> Int],
         \A k \in M : f[k] = share, NEW e \in [L -> Int], \A k \in L : e[k] = f[k]
  PROVE  Total(f) = Total(e) + Cardinality(M) * share
<1> DEFINE low == [k \in S |-> IF k \in L THEN f[k] ELSE 0]
           high == [k \in S |-> IF k \in M THEN share ELSE 0]
<1>1. low \in [S -> Int] /\ high \in [S -> Int] /\ \A k \in S : f[k] = low[k] + high[k]
  BY DEF Splits
<1>2. Total(f) = Total(low) + Total(high)
  <2> HIDE DEF low, high
  <2> QED BY <1>1, TotalOfSums
<1>3. Total(high) = Cardinality(M) * share
  <2>1. M \in SUBSET S /\ \A k \in S : high[k] = IF k \in M THEN share ELSE 0
    BY DEF Splits
  <2> HIDE DEF high, low
  <2> QED BY <1>1, <2>1, TotalOfShares
<1>4. Total(low) = Total(e)
  <2>1. /\ L \in SUBSET S /\ e \in [L -> Int]
        /\ \A k \in S \ L : low[k] = 0
        /\ \A k \in L : e[k] = low[k]
    BY DEF Splits
  <2> HIDE DEF low, high
  <2> QED BY <1>1, <2>1, TotalOfPart
<1> QED BY <1>2, <1>3, <1>4

(* The total over a selection is the total of what is kept.                *)
IsList(s, T) == s \in Seq(T)

LEMMA TotalOfSelected ==
  ASSUME NEW T, NEW s, IsList(s, T), NEW keep, NEW amount \in [T -> Int]
  PROVE  LET sel == Selected(s, keep)
         IN  Total([i \in DOMAIN sel |-> amount[sel[i]]])
               = Total([k \in DOMAIN s |-> IF s[k] \in keep THEN amount[s[k]] ELSE 0])
<1> DEFINE sel == Selected(s, keep)
           Sel == DOMAIN sel
           Slots == DOMAIN s
           Kept == {k \in Slots : s[k] \in keep}
           part == [i \in Sel |-> amount[sel[i]]]
           all == [k \in Slots |-> IF s[k] \in keep THEN amount[s[k]] ELSE 0]
<1>1. sel \in Seq(T) /\ \E pos : StandsAt(sel, pos, s, keep, Len(s))
  BY SelectedStands DEF IsList
<1>2. PICK pos : StandsAt(sel, pos, s, keep, Len(s))
  BY <1>1
<1> HIDE DEF sel
<1>3. /\ Len(sel) \in Nat /\ 1..Len(sel) = Sel /\ \A i \in Sel : sel[i] \in T
      /\ Len(s) \in Nat /\ 1..Len(s) = Slots /\ \A k \in Slots : s[k] \in T
  BY <1>1 DEF IsList
<1>4. part \in [Sel -> Int] /\ all \in [Slots -> Int]
  BY <1>3
<1>5. IsFiniteSet(Sel) /\ IsFiniteSet(Slots) /\ IsFiniteSet(Kept)
  <2>1. IsFiniteSet(Sel) /\ IsFiniteSet(Slots)
    <3>1. IsFiniteSet(1..Len(sel)) /\ IsFiniteSet(1..Len(s))
      BY <1>3, FS_Interval
    <3> QED BY <1>3, <3>1
  <2>2. Kept \in SUBSET Slots
    OBVIOUS
  <2> QED BY <2>1, <2>2, FS_Subset
<1> DEFINE r == [k \in Kept |-> all[k]]
<1>6. Total(all) = Total(r)
  <2>1. Kept \in SUBSET Slots /\ \A k \in Slots \ Kept : all[k] = 0
    OBVIOUS
  <2>2. r \in [Kept -> Int] /\ \A k \in Kept : r[k] = all[k]
    BY <1>4
  <2> HIDE DEF part, all, Kept, Slots, r, Sel
  <2>3. IsFiniteSet(Slots) /\ all \in [Slots -> Int]
    BY <1>4, <1>5
  <2> QED BY <2>1, <2>2, <2>3, TotalOfPart
<1>7. Total(part) = Total(r)
  <2>1. pos \in [Sel -> Kept]
    BY <1>2, <1>3 DEF StandsAt
  <2>2. ASSUME NEW x \in Sel, NEW y \in Sel, pos[x] = pos[y] PROVE x = y
    <3>1. x \in Nat /\ y \in Nat /\ pos[x] \in Nat /\ pos[y] \in Nat
      BY <1>2, <1>3 DEF StandsAt
    <3>2. ~(x < y) /\ ~(y < x)
      BY <1>2, <2>2, <3>1 DEF StandsAt
    <3> QED BY <3>1, <3>2
  <2>3. \A k \in Kept : \E x \in Sel : pos[x] = k
    BY <1>2, <1>3 DEF StandsAt
  <2>4. r \in [Kept -> Int]
    BY <1>4
  <2>5. ASSUME NEW x \in Sel PROVE part[x] = r[pos[x]]
    <3>1. sel[x] = s[pos[x]] /\ sel[x] \in keep
      BY <1>2, <1>3 DEF StandsAt
    <3>2. pos[x] \in Kept
      BY <2>1
    <3> QED BY <3>1, <3>2
  <2>6. IsFiniteSet(Kept) /\ part \in [Sel -> Int]
    BY <1>4, <1>5
  <2> HIDE DEF r, part, Kept, Sel, all, Slots
  <2> QED BY <1>5, <2>6, <2>1, <2>2, <2>3, <2>4, <2>5, TotalRenamed
<1> QED BY <1>3, <1>6, <1>7 DEF sel
=============================================================================
