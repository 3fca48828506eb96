----------------------- MODULE PolicyAndVersus_proofs -----------------------
(***************************************************************************)
(* Theorems about the policy book, a Versus draft and the runner of a      *)
(* duel, for every value of their constants.                               *)
(***************************************************************************)
EXTENDS PolicyBook, VersusDraft, VersusRunner, DataFacts, FiniteSetTheorems

(***************************************************************************)
(* The policy book.  A rule that is not latched has not been decided since *)
(* the last run that found its WHEN false, and the clock of a debounced    *)
(* rule started after that run.  The cards are typed, so that a window is  *)
(* a number.                                                               *)
(***************************************************************************)
CardsTyped ==
  /\ book \in Seq(Rule) /\ InBook \subseteq DOMAIN card
  /\ \A r \in DOMAIN card : card[r] \in Card

ClocksFollowCalm ==
  /\ policyMinute \in Nat
  /\ calm \in [Rule -> 0..policyMinute] /\ decided \in [Rule -> 0..policyMinute]
  /\ \A r \in Rule : decided[r] = 0 \/ calm[r] > decided[r] \/ r \in latched
  /\ \A r \in Rule \cap DOMAIN sustained : sustained[r] \in calm[r] + 1 .. policyMinute

PolicyIInv == CardsTyped /\ ClocksFollowCalm

(* Parts of a sequence, and two sequences end to end, bring in no element. *)
LEMMA PartElements ==
  ASSUME NEW S, NEW s \in Seq(S), NEW from \in 1..Len(s) + 1, NEW to \in 0..Len(s)
  PROVE  /\ SubSeq(s, from, to) \in Seq(S)
         /\ ToSet(SubSeq(s, from, to)) \subseteq ToSet(s)
<1>1. SubSeq(s, from, to) \in Seq(S)
  OBVIOUS
<1>2. \A i \in DOMAIN SubSeq(s, from, to) :
        /\ from + i - 1 \in DOMAIN s
        /\ SubSeq(s, from, to)[i] = s[from + i - 1]
  OBVIOUS
<1>3. QED  BY <1>1, <1>2 DEF ToSet

(* A concatenation has no other elements than its parts.                   *)
LEMMA JoinedElements ==
  ASSUME NEW S, NEW s \in Seq(S), NEW t \in Seq(S)
  PROVE  s \o t \in Seq(S) /\ ToSet(s \o t) \subseteq ToSet(s) \cup ToSet(t)
<1>1. \A i \in DOMAIN (s \o t) : (s \o t)[i] \in ToSet(s) \cup ToSet(t)
  <2> TAKE i \in DOMAIN (s \o t)
  <2>1. CASE i <= Len(s)
    BY <2>1 DEF ToSet
  <2>2. CASE ~(i <= Len(s))
    <3>1. i - Len(s) \in DOMAIN t /\ (s \o t)[i] = t[i - Len(s)]
      BY <2>2
    <3>2. QED  BY <3>1 DEF ToSet
  <2>3. QED  BY <2>1, <2>2
<1>2. ToSet(s \o t) = {(s \o t)[i] : i \in DOMAIN (s \o t)}
  BY DEF ToSet
<1>3. QED  BY <1>1, <1>2

(* An insertion adds one element.                                          *)
LEMMA InsertedElements ==
  ASSUME NEW S, NEW s \in Seq(S), NEW e \in S, NEW i \in 1..Len(s) + 1
  PROVE  /\ InsertAt(s, i, e) \in Seq(S)
         /\ ToSet(InsertAt(s, i, e)) \subseteq ToSet(s) \cup {e}
<1> DEFINE head == SubSeq(s, 1, i-1)
           tail == SubSeq(s, i, Len(s))
<1>1. /\ head \in Seq(S) /\ ToSet(head) \subseteq ToSet(s)
      /\ tail \in Seq(S) /\ ToSet(tail) \subseteq ToSet(s)
  BY PartElements
<1>2. <<e>> \in Seq(S) /\ ToSet(<<e>>) = {e}
  BY DEF ToSet
<1> HIDE DEF head, tail
<1>3. head \o <<e>> \in Seq(S) /\ ToSet(head \o <<e>>) \subseteq ToSet(s) \cup {e}
  BY <1>1, <1>2, JoinedElements
<1> DEFINE joined == head \o <<e>>
<1> HIDE DEF joined
<1>4. joined \in Seq(S) /\ ToSet(joined) \subseteq ToSet(s) \cup {e}
  BY <1>3 DEF joined
<1>5. /\ joined \o tail \in Seq(S)
      /\ ToSet(joined \o tail) \subseteq ToSet(joined) \cup ToSet(tail)
  BY <1>1, <1>4, JoinedElements
<1>6. QED  BY <1>1, <1>4, <1>5 DEF InsertAt, joined, head, tail

(* A removal adds none.                                                    *)
LEMMA RemovedElements ==
  ASSUME NEW S, NEW s \in Seq(S), NEW i \in 1..Len(s)
  PROVE  /\ RemoveAt(s, i) \in Seq(S)
         /\ ToSet(RemoveAt(s, i)) \subseteq ToSet(s)
         /\ Len(RemoveAt(s, i)) = Len(s) - 1
<1> DEFINE head == SubSeq(s, 1, i-1)
           tail == SubSeq(s, i+1, Len(s))
<1>1. /\ head \in Seq(S) /\ ToSet(head) \subseteq ToSet(s)
      /\ tail \in Seq(S) /\ ToSet(tail) \subseteq ToSet(s)
  BY PartElements
<1>2. Len(head) = i - 1 /\ Len(tail) = Len(s) - i
  OBVIOUS
<1> HIDE DEF head, tail
<1>3. /\ head \o tail \in Seq(S)
      /\ ToSet(head \o tail) \subseteq ToSet(head) \cup ToSet(tail)
  BY <1>1, JoinedElements
<1>4. Len(head \o tail) = Len(head) + Len(tail)
  BY <1>1
<1>5. Len(head \o tail) = Len(s) - 1
  BY <1>2, <1>4
<1>6. QED  BY <1>1, <1>3, <1>5 DEF RemoveAt, head, tail

(* The invariant of the policy book holds at the start.                    *)
LEMMA PolicyInitHolds == PolicyInit => PolicyIInv
<1> SUFFICES ASSUME PolicyInit PROVE PolicyIInv
  OBVIOUS
<1>1. CardsTyped
  BY PolicyAssumption DEF PolicyInit, CardsTyped, StartCards, InBook, ToSet
<1>2. ClocksFollowCalm
  BY DEF PolicyInit, ClocksFollowCalm, Nothing
<1>3. QED  BY <1>1, <1>2 DEF PolicyIInv

(* A run of the rule phase keeps the clocks, and what it decides was earned.*)
LEMMA RulePhaseEarns ==
  ASSUME PolicyIInv, NEW view, NEW feasible, RulePhase(view, feasible)
  PROVE  /\ ClocksFollowCalm'
         /\ \A r \in Rule : decided'[r] # decided[r] =>
              /\ decided[r] = 0 \/ calm[r] > decided[r]
              /\ policyMinute' - calm[r] > card[r].window
<1> DEFINE at == policyMinute + 1
           false == {r \in Evaluated : ~Asserted(r, view)}
           now == Decided(view, at, feasible)
<1>1. /\ policyMinute \in Nat /\ policyMinute' = at
      /\ calm \in [Rule -> 0..policyMinute] /\ decided \in [Rule -> 0..policyMinute]
      /\ \A r \in Rule : decided[r] = 0 \/ calm[r] > decided[r] \/ r \in latched
      /\ \A r \in Rule \cap DOMAIN sustained :
           sustained[r] \in calm[r] + 1 .. policyMinute
  BY DEF PolicyIInv, ClocksFollowCalm, RulePhase
<1>2. /\ latched' = (latched \ false) \cup now
      /\ sustained' = SustainedNow(view, at)
      /\ calm' = [r \in Rule |-> IF r \in false THEN at ELSE calm[r]]
      /\ decided' = [r \in Rule |-> IF r \in now THEN at ELSE decided[r]]
  BY DEF RulePhase
<1>3. \A r \in now : /\ r \in Evaluated /\ r \notin latched
                   /\ Asserted(r, view) /\ Sustained(r, at)
  BY DEF Decided, Adjudicated
<1>4. now \cap false = {}
  BY <1>3
<1> HIDE DEF now
<1>5. ClocksFollowCalm'
  <2>1. /\ policyMinute' \in Nat
        /\ calm' \in [Rule -> 0..policyMinute'] /\ decided' \in [Rule -> 0..policyMinute']
    BY <1>1, <1>2
  <2>2. \A r \in Rule : decided'[r] = 0 \/ calm'[r] > decided'[r] \/ r \in latched'
    BY <1>1, <1>2, <1>4
  <2>3. ASSUME NEW r \in Rule \cap DOMAIN sustained'
        PROVE  sustained'[r] \in calm'[r] + 1 .. policyMinute'
    <3>1. CASE r \in false
      BY <1>2, <2>3, <3>1 DEF SustainedNow, Since, Starting
    <3>2. CASE r \notin false
      <4>1. calm'[r] = calm[r] /\ calm[r] \in 0..policyMinute
        BY <1>1, <1>2, <3>2
      <4>2. CASE r \in DOMAIN sustained
        BY <1>1, <1>2, <2>3, <4>1, <4>2 DEF SustainedNow, Since
      <4>3. CASE r \notin DOMAIN sustained
        BY <1>1, <1>2, <2>3, <4>1, <4>3 DEF SustainedNow, Since
      <4>4. QED  BY <4>2, <4>3
    <3>3. QED  BY <3>1, <3>2
  <2>4. QED  BY <2>1, <2>2, <2>3 DEF ClocksFollowCalm
<1>6. ASSUME NEW r \in Rule, decided'[r] # decided[r]
      PROVE  /\ decided[r] = 0 \/ calm[r] > decided[r]
             /\ policyMinute' - calm[r] > card[r].window
  <2>1. r \in now
    BY <1>2, <1>6
  <2>2. card[r].window \in Nat
    BY <1>3, <2>1 DEF PolicyIInv, CardsTyped, Evaluated, Card
  <2>3. calm[r] \in 0..policyMinute
    BY <1>1
  <2>4. CASE card[r].window = 0
    BY <1>1, <1>3, <2>1, <2>3, <2>4
  <2>5. CASE card[r].window # 0
    <3>1. r \in DOMAIN sustained /\ at - sustained[r] >= card[r].window
      BY <1>3, <2>1, <2>5 DEF Sustained
    <3>2. sustained[r] \in calm[r] + 1 .. policyMinute
      BY <1>1, <3>1
    <3>3. QED  BY <1>1, <1>3, <2>1, <2>2, <2>3, <3>1, <3>2
  <2>6. QED  BY <2>4, <2>5
<1>7. QED  BY <1>5, <1>6

(* The cards stay typed under every edit of the book.                      *)
LEMMA EditsKeepCards ==
  ASSUME CardsTyped, PolicyNext
  PROVE  CardsTyped'
<1>1. ASSUME NEW r \in Rule, NEW saved \in Cards[r], NEW position \in 1..Len(book) + 1,
             Insert(r, saved, position)
      PROVE  CardsTyped'
  <2>1. /\ book' \in Seq(Rule) /\ InBook' \subseteq InBook \cup {r}
    BY <1>1, InsertedElements DEF CardsTyped, Insert, InBook
  <2>2. saved \in Card
    BY PolicyAssumption
  <2>3. QED  BY <1>1, <2>1, <2>2 DEF CardsTyped, Insert
<1>2. ASSUME NEW r \in Rule, NEW saved \in Cards[r], Revise(r, saved)
      PROVE  CardsTyped'
  BY <1>2, PolicyAssumption DEF CardsTyped, Revise, InBook
<1>3. ASSUME NEW from \in DOMAIN book, NEW to \in DOMAIN book, Move(from, to)
      PROVE  CardsTyped'
  <2> DEFINE rest == RemoveAt(book, from)
  <2>1. /\ book \in Seq(Rule) /\ from \in 1..Len(book) /\ to \in 1..Len(book)
        /\ book[from] \in Rule /\ book[from] \in InBook
    BY <1>3 DEF CardsTyped, InBook, ToSet
  <2>2. /\ rest \in Seq(Rule) /\ ToSet(rest) \subseteq ToSet(book)
        /\ Len(rest) = Len(book) - 1
    BY <2>1, RemovedElements
  <2> HIDE DEF rest
  <2>3. /\ InsertAt(rest, to, book[from]) \in Seq(Rule)
        /\ ToSet(InsertAt(rest, to, book[from])) \subseteq ToSet(rest) \cup {book[from]}
    <3>1. to \in 1..Len(rest) + 1
      BY <2>1, <2>2
    <3>2. QED  BY <2>1, <2>2, <3>1, InsertedElements
  <2>4. QED  BY <1>3, <2>1, <2>2, <2>3 DEF CardsTyped, Move, InBook, rest
<1>4. ASSUME UNCHANGED <<book, card>> PROVE CardsTyped'
  BY <1>4 DEF CardsTyped, InBook
<1>5. QED
  BY <1>1, <1>2, <1>3, <1>4
  DEF PolicyNext, FrozenRun, RulePhase, Resolve, SetSuspended, SetFrozen, SetShadow, storeVars

(* Nothing but the rule phase touches the clocks and the decisions.        *)
LEMMA PolicyStep ==
  ASSUME PolicyIInv, [PolicyNext]_policyVars
  PROVE  /\ PolicyIInv'
         /\ \A r \in Rule : decided'[r] # decided[r] =>
              /\ decided[r] = 0 \/ calm[r] > decided[r]
              /\ policyMinute' - calm[r] > card[r].window
<1> DEFINE Earned == \A r \in Rule : decided'[r] # decided[r] =>
                       /\ decided[r] = 0 \/ calm[r] > decided[r]
                       /\ policyMinute' - calm[r] > card[r].window
<1>1. CardsTyped'
  <2>1. CASE PolicyNext
    BY <2>1, EditsKeepCards DEF PolicyIInv
  <2>2. CASE UNCHANGED policyVars
    BY <2>2 DEF PolicyIInv, CardsTyped, InBook, policyVars, storeVars
  <2>3. QED  BY <2>1, <2>2
<1>2. ClocksFollowCalm' /\ Earned
  <2>1. ASSUME UNCHANGED <<latched, sustained, calm, decided>>,
               policyMinute' \in {policyMinute, policyMinute + 1}
        PROVE  ClocksFollowCalm' /\ Earned
    <3>1. ClocksFollowCalm
      BY DEF PolicyIInv
    <3>2. /\ policyMinute' \in Nat
          /\ calm' \in [Rule -> 0..policyMinute'] /\ decided' \in [Rule -> 0..policyMinute']
      BY <2>1, <3>1 DEF ClocksFollowCalm
    <3>3. \A r \in Rule \cap DOMAIN sustained' :
            sustained'[r] \in calm'[r] + 1 .. policyMinute'
      BY <2>1, <3>1 DEF ClocksFollowCalm
    <3>4. QED  BY <2>1, <3>1, <3>2, <3>3 DEF ClocksFollowCalm
  <2>2. ASSUME NEW view, NEW feasible, RulePhase(view, feasible)
        PROVE  ClocksFollowCalm' /\ Earned
    BY <2>2, RulePhaseEarns
  <2>3. CASE \/ FrozenRun
             \/ \E i \in DOMAIN pending, approve \in BOOLEAN : Resolve(i, approve)
             \/ UNCHANGED phaseVars
    BY <2>1, <2>3 DEF FrozenRun, Resolve, phaseVars, runtimeVars, storyVars
  <2>4. QED
    BY <2>2, <2>3 DEF PolicyNext, Insert, Revise, Move, SetSuspended, SetFrozen, SetShadow, policyVars
<1>3. QED  BY <1>1, <1>2 DEF PolicyIInv

(* A rule is decided once per assertion, and a debounced one only after a  *)
(* whole window without a run that found its WHEN false, whatever the      *)
(* player edits, suspends, freezes or tries out meanwhile.                 *)
THEOREM DecisionsAreEarnedAlways == PolicySpec => DecisionsAreEarned
<1>1. PolicyInit => PolicyIInv
  BY PolicyInitHolds
<1>2. PolicyIInv /\ [PolicyNext]_policyVars => PolicyIInv'
  BY PolicyStep
<1>3. PolicyIInv /\ [PolicyNext]_policyVars =>
        [\A r \in Rule : decided'[r] # decided[r] =>
           /\ decided[r] = 0 \/ calm[r] > decided[r]
           /\ policyMinute' - calm[r] > card[r].window]_policyVars
  BY PolicyStep
<1>4. QED  BY <1>1, <1>2, <1>3, PTL DEF PolicySpec, DecisionsAreEarned

(***************************************************************************)
(* Consultations.  Each one raised is in one place: open, held back with   *)
(* its verdict, or over.                                                   *)
(***************************************************************************)
OpenConsult == [rule : Rule, raisedAt : Nat, expiresAt : Nat]
HeldAnswer == [rule : Rule, raisedAt : Nat, approve : BOOLEAN]

NamesOf(consults) == {Named(c) : c \in ToSet(consults)}
NamedApart(consults) ==
  \A i, j \in DOMAIN consults : i < j => Named(consults[i]) # Named(consults[j])

Over == {end.consult : end \in ends}
EndedApart == \A e, f \in ends : e.consult = f.consult => e = f

(* How a consultation ends.                                                *)
EndsWell(end) ==
  IF end.consult \in DOMAIN verdict THEN end.how = How(verdict[end.consult])
  ELSE end.how = "expired" /\ end.at >= end.consult.raisedAt + ConsultTTL

ConsultsTyped ==
  /\ policyMinute \in Nat
  /\ book \in Seq(Rule) /\ IsInjective(book)
  /\ pending \in Seq(OpenConsult) /\ deferred \in Seq(HeldAnswer)
  /\ \A name \in raised : name.raisedAt \in Nat /\ name.raisedAt <= policyMinute

OneEach == NamedApart(pending) /\ NamedApart(deferred) /\ EndedApart

OnePlace ==
  /\ raised = NamesOf(pending) \cup NamesOf(deferred) \cup Over
  /\ NamesOf(pending) \cap NamesOf(deferred) = {}
  /\ NamesOf(pending) \cap Over = {}
  /\ NamesOf(deferred) \cap Over = {}

Answered ==
  /\ DOMAIN verdict \subseteq raised
  /\ \A c \in ToSet(pending) : Named(c) \notin DOMAIN verdict /\ c.expiresAt = c.raisedAt + ConsultTTL
  /\ \A d \in ToSet(deferred) : Named(d) \in DOMAIN verdict /\ verdict[Named(d)] = d.approve
  /\ \A end \in ends : EndsWell(end)

ConsultInv == ConsultsTyped /\ OneEach /\ OnePlace /\ Answered

(* A consultation that stands in a list is known by its name.              *)
LEMMA NameDecides ==
  ASSUME NEW T, NEW s \in Seq(T), NamedApart(s)
  PROVE  \A c, d \in ToSet(s) : Named(c) = Named(d) => c = d
<1> SUFFICES ASSUME NEW i \in DOMAIN s, NEW j \in DOMAIN s, Named(s[i]) = Named(s[j])
             PROVE  s[i] = s[j]
  BY DEF ToSet
<1>1. i \in Nat /\ j \in Nat
  OBVIOUS
<1>2. i = j
  BY <1>1 DEF NamedApart
<1> QED BY <1>2

(* A part of a list names its consultations apart.                         *)
LEMMA ApartSelected ==
  ASSUME NEW T, NEW s \in Seq(T), NEW keep, NamedApart(s)
  PROVE  NamedApart(Selected(s, keep))
<1> DEFINE sel == Selected(s, keep)
<1>1. sel \in Seq(T) /\ \E at : StandsAt(sel, at, s, keep, Len(s))
  BY SelectedStands
<1> HIDE DEF sel
<1>2. PICK at : StandsAt(sel, at, s, keep, Len(s))
  BY <1>1
<1>3. DOMAIN sel = 1..Len(sel) /\ DOMAIN s = 1..Len(s)
  BY <1>1
<1>4. ASSUME NEW i \in DOMAIN sel, NEW j \in DOMAIN sel, i < j PROVE Named(sel[i]) # Named(sel[j])
  <2>1. at[i] \in DOMAIN s /\ at[j] \in DOMAIN s /\ at[i] < at[j] /\ sel[i] = s[at[i]] /\ sel[j] = s[at[j]]
    BY <1>2, <1>3, <1>4 DEF StandsAt
  <2> QED BY <2>1 DEF NamedApart
<1> QED BY <1>4 DEF NamedApart, sel

(* Two lists with different names, end to end.                             *)
LEMMA ApartJoined ==
  ASSUME NEW T, NEW s \in Seq(T), NEW t \in Seq(T), NamedApart(s), NamedApart(t),
         NamesOf(s) \cap NamesOf(t) = {}
  PROVE  NamedApart(s \o t) /\ NamesOf(s \o t) = NamesOf(s) \cup NamesOf(t)
<1> DEFINE n == Len(s)
           m == Len(t)
           u == s \o t
<1>1. /\ n \in Nat /\ m \in Nat /\ DOMAIN s = 1..n /\ DOMAIN t = 1..m /\ DOMAIN u = 1..n + m
      /\ \A i \in 1..n + m : u[i] = IF i <= n THEN s[i] ELSE t[i - n]
  BY ConcatProperties
<1>2. ToSet(u) = ToSet(s) \cup ToSet(t)
  BY SetOfConcat
<1> HIDE DEF n, m, u
<1>3. ASSUME NEW i \in DOMAIN u, NEW j \in DOMAIN u, i < j PROVE Named(u[i]) # Named(u[j])
  <2>1. i \in 1..n + m /\ j \in 1..n + m
    BY <1>1
  <2>2. CASE j <= n
    <3>1. i \in DOMAIN s /\ j \in DOMAIN s /\ u[i] = s[i] /\ u[j] = s[j]
      BY <1>1, <1>3, <2>1, <2>2
    <3> QED BY <1>3, <3>1 DEF NamedApart
  <2>3. CASE i > n
    <3>1. i - n \in DOMAIN t /\ j - n \in DOMAIN t /\ u[i] = t[i - n] /\ u[j] = t[j - n] /\ i - n < j - n
      BY <1>1, <1>3, <2>1, <2>3
    <3> QED BY <3>1 DEF NamedApart
  <2>4. CASE i <= n /\ j > n
    <3>1. i \in DOMAIN s /\ j - n \in DOMAIN t /\ u[i] = s[i] /\ u[j] = t[j - n]
      BY <1>1, <2>1, <2>4
    <3>2. Named(s[i]) \in NamesOf(s) /\ Named(t[j - n]) \in NamesOf(t)
      BY <3>1 DEF NamesOf, ToSet
    <3> QED BY <3>1, <3>2
  <2>5. i \in Int /\ j \in Int /\ n \in Int
    BY <1>1, <2>1
  <2> QED BY <2>2, <2>3, <2>4, <2>5
<1>4. NamedApart(u)
  BY <1>3 DEF NamedApart
<1>5. NamesOf(u) = NamesOf(s) \cup NamesOf(t)
  BY <1>2 DEF NamesOf
<1> QED BY <1>4, <1>5 DEF u

(* A list without one of its consultations.                                *)
LEMMA ApartRemoved ==
  ASSUME NEW T, NEW s \in Seq(T), NEW i \in 1..Len(s), NamedApart(s)
  PROVE  /\ RemoveAt(s, i) \in Seq(T) /\ NamedApart(RemoveAt(s, i))
         /\ ToSet(RemoveAt(s, i)) \subseteq ToSet(s)
         /\ Named(s[i]) \notin NamesOf(RemoveAt(s, i))
         /\ NamesOf(s) = NamesOf(RemoveAt(s, i)) \cup {Named(s[i])}
<1> DEFINE n == Len(s)
           u == RemoveAt(s, i)
<1>0. u \in Seq(T)
  BY RemovedAt
<1>1. /\ n \in Nat /\ i \in 1..n /\ DOMAIN s = 1..n /\ DOMAIN u = 1..n - 1
      /\ \A k \in 1..n - 1 : u[k] = IF k < i THEN s[k] ELSE s[k + 1]
  BY RemovedAt
<1>2. ToSet(s) = ToSet(u) \cup {s[i]}
  BY SetOfRemoved
<1> HIDE DEF n, u
<1>3. NamesOf(s) = NamesOf(u) \cup {Named(s[i])} /\ ToSet(u) \subseteq ToSet(s)
  BY <1>2 DEF NamesOf
<1>4. ASSUME NEW j \in DOMAIN u PROVE Named(u[j]) # Named(s[i])
  <2>1. j \in Int /\ i \in Int /\ n \in Int /\ j \in 1..n - 1
    BY <1>1
  <2>2. CASE j < i
    <3>1. j \in DOMAIN s /\ i \in DOMAIN s /\ u[j] = s[j]
      BY <1>1, <2>1, <2>2
    <3> QED BY <2>2, <3>1 DEF NamedApart
  <2>3. CASE ~(j < i)
    <3>1. j + 1 \in DOMAIN s /\ i \in DOMAIN s /\ u[j] = s[j + 1] /\ i < j + 1
      BY <1>1, <2>1, <2>3
    <3> QED BY <3>1 DEF NamedApart
  <2> QED BY <2>2, <2>3
<1>5. Named(s[i]) \notin NamesOf(u)
  BY <1>4 DEF NamesOf, ToSet
<1>6. ASSUME NEW j \in DOMAIN u, NEW k \in DOMAIN u, j < k PROVE Named(u[j]) # Named(u[k])
  <2>1. j \in Int /\ k \in Int /\ i \in Int /\ n \in Int /\ j \in 1..n - 1 /\ k \in 1..n - 1
    BY <1>1
  <2> DEFINE jj == IF j < i THEN j ELSE j + 1
             kk == IF k < i THEN k ELSE k + 1
  <2>2. jj \in 1..n /\ kk \in 1..n /\ jj < kk
    BY <1>6, <2>1
  <2>3. u[j] = s[jj] /\ u[k] = s[kk]
    BY <1>1, <2>1
  <2> QED BY <1>1, <2>2, <2>3 DEF NamedApart
<1> QED BY <1>0, <1>3, <1>5, <1>6 DEF NamedApart, u

(* An insertion of a new element keeps a sequence                          *)
(* injective.                                                              *)
LEMMA InsertedInjective ==
  ASSUME NEW T, NEW s \in Seq(T), IsInjective(s), NEW x \in T, x \notin ToSet(s), NEW i \in 1..Len(s) + 1
  PROVE  IsInjective(InsertAt(s, i, x))
<1> DEFINE n == Len(s)
           u == InsertAt(s, i, x)
<1>1. n \in Nat /\ i \in 1..n + 1 /\ DOMAIN s = 1..n
  OBVIOUS
<1>2. DOMAIN u = 1..n + 1 /\ \A k \in 1..n + 1 : u[k] = IF k < i THEN s[k] ELSE IF k = i THEN x ELSE s[k - 1]
  <2> DEFINE a == SubSeq(s, 1, i - 1)
             b == SubSeq(s, i, n)
  <2>1. /\ a \in Seq(T) /\ Len(a) = i - 1 /\ \A k \in 1..i - 1 : a[k] = s[k]
        /\ b \in Seq(T) /\ Len(b) = n - i + 1 /\ \A k \in 1..n - i + 1 : b[k] = s[i + k - 1]
    BY <1>1
  <2> HIDE DEF a, b
  <2> DEFINE c == a \o <<x>>
  <2>2. c \in Seq(T) /\ Len(c) = i /\ \A k \in 1..i : c[k] = IF k < i THEN a[k] ELSE x
    BY <1>1, <2>1
  <2> HIDE DEF c
  <2>3. u = c \o b
    BY DEF InsertAt, a, b, c
  <2>4. /\ DOMAIN (c \o b) = 1..n + 1
        /\ \A k \in 1..n + 1 : (c \o b)[k] = IF k <= i THEN c[k] ELSE b[k - i]
    BY <1>1, <2>1, <2>2
  <2>5. ASSUME NEW k \in 1..n + 1
        PROVE  u[k] = IF k < i THEN s[k] ELSE IF k = i THEN x ELSE s[k - 1]
    <3>1. CASE k <= i
      <4>1. k \in 1..i /\ u[k] = c[k]
        BY <1>1, <2>3, <2>4, <3>1
      <4>2. k < i => k \in 1..i - 1
        BY <1>1, <4>1
      <4>3. CASE k < i
        BY <2>1, <2>2, <4>1, <4>2, <4>3
      <4>4. CASE k = i
        BY <2>2, <4>1, <4>4
      <4> QED BY <1>1, <3>1, <4>3, <4>4
    <3>2. CASE k > i
      <4>1. k - i \in 1..n - i + 1 /\ i + (k - i) - 1 = k - 1
        BY <1>1, <3>2
      <4> QED BY <1>1, <2>1, <2>3, <2>4, <3>2, <4>1
    <3> QED BY <1>1, <3>1, <3>2
  <2> QED BY <2>3, <2>4, <2>5
<1> HIDE DEF n, u
<1>3. \A k \in 1..n : s[k] # x
  BY <1>1 DEF ToSet
<1>4. ASSUME NEW j \in DOMAIN u, NEW k \in DOMAIN u, j < k PROVE u[j] # u[k]
  <2>1. j \in Int /\ k \in Int /\ i \in Int /\ n \in Int /\ j \in 1..n + 1 /\ k \in 1..n + 1
    BY <1>1, <1>2
  <2>2. CASE j = i
    BY <1>1, <1>2, <1>3, <1>4, <2>1, <2>2
  <2>3. CASE k = i
    BY <1>1, <1>2, <1>3, <1>4, <2>1, <2>3
  <2>4. CASE j # i /\ k # i
    <3> DEFINE jj == IF j < i THEN j ELSE j - 1
               kk == IF k < i THEN k ELSE k - 1
    <3>1. jj \in 1..n /\ kk \in 1..n /\ jj # kk
      BY <1>1, <1>4, <2>1, <2>4
    <3>2. u[j] = s[jj] /\ u[k] = s[kk]
      BY <1>2, <2>1, <2>4
    <3> HIDE DEF jj, kk
    <3> QED BY <1>1, <3>1, <3>2 DEF IsInjective
  <2> QED BY <2>2, <2>3, <2>4
<1>5. \A j \in DOMAIN u : j \in Int
  BY <1>2
<1> QED BY <1>4, <1>5 DEF IsInjective, u

(* A removal keeps a sequence injective, and takes the element out.        *)
LEMMA RemovedInjective ==
  ASSUME NEW T, NEW s \in Seq(T), IsInjective(s), NEW i \in 1..Len(s)
  PROVE  IsInjective(RemoveAt(s, i)) /\ s[i] \notin ToSet(RemoveAt(s, i))
<1> DEFINE n == Len(s)
           u == RemoveAt(s, i)
<1>1. /\ n \in Nat /\ i \in 1..n /\ DOMAIN s = 1..n /\ DOMAIN u = 1..n - 1
      /\ \A k \in 1..n - 1 : u[k] = IF k < i THEN s[k] ELSE s[k + 1]
  BY RemovedAt
<1> HIDE DEF n, u
<1>2. ASSUME NEW j \in DOMAIN u
      PROVE  \E k \in 1..n : u[j] = s[k] /\ k # i /\ k = IF j < i THEN j ELSE j + 1
  BY <1>1
<1>3. s[i] \notin ToSet(u)
  BY <1>1, <1>2 DEF ToSet, IsInjective
<1>4. ASSUME NEW j \in DOMAIN u, NEW k \in DOMAIN u, u[j] = u[k] PROVE j = k
  <2>1. j \in Int /\ k \in Int /\ i \in Int
    BY <1>1
  <2> DEFINE jj == IF j < i THEN j ELSE j + 1
             kk == IF k < i THEN k ELSE k + 1
  <2>2. jj \in DOMAIN s /\ kk \in DOMAIN s /\ u[j] = s[jj] /\ u[k] = s[kk]
    BY <1>1, <1>2
  <2>3. jj = kk
    <3> HIDE DEF jj, kk
    <3> QED BY <1>4, <2>2 DEF IsInjective
  <2> QED BY <2>1, <2>3
<1> QED BY <1>3, <1>4 DEF IsInjective, u

(* What a run raises: one consultation for each rule, with the name of     *)
(* this minute.                                                            *)
LEMMA RaisedApart ==
  ASSUME ConsultsTyped, NEW view, NEW feasible, NEW at \in Nat
  PROVE  LET raising == Raising(view, at, feasible)
         IN  /\ raising \in Seq(OpenConsult) /\ NamedApart(raising)
             /\ \A c \in ToSet(raising) : c.raisedAt = at /\ c.expiresAt = c.raisedAt + ConsultTTL
<1> DEFINE asking == Consulting(view, at, feasible)
           raising == Raising(view, at, feasible)
           order == {pair \in Rule \X Rule : pair[1] # pair[2]}
<1>0. ConsultTTL \in Nat
  BY PolicyAssumption
<1>1. asking \in Seq(Rule)
  BY SelectedSet DEF Consulting, ConsultsTyped
<1>2. \A i, j \in DOMAIN asking : i < j => asking[i] # asking[j]
  <2>1. \A i, j \in DOMAIN book : i < j => <<book[i], book[j]>> \in order
    BY DEF ConsultsTyped, IsInjective
  <2> HIDE DEF order
  <2>2. \A i, j \in DOMAIN asking : i < j => <<asking[i], asking[j]>> \in order
    BY <2>1, SelectedInOrder DEF Consulting, ConsultsTyped
  <2> QED BY <2>2 DEF order
<1>3. /\ DOMAIN asking = 1..Len(asking) /\ Len(asking) \in Nat
      /\ \A i \in DOMAIN asking : asking[i] \in Rule
  BY <1>1
<1>4. raising = [i \in DOMAIN asking |-> ConsultOf(asking[i], at)]
  BY DEF Raising
<1> HIDE DEF asking, raising
<1>5. \A i \in DOMAIN asking : ConsultOf(asking[i], at) \in OpenConsult
  BY <1>0, <1>3 DEF ConsultOf, OpenConsult
<1>6. raising \in Seq(OpenConsult) /\ DOMAIN raising = DOMAIN asking
  <2>1. DOMAIN raising = 1..Len(asking) /\ \A i \in 1..Len(asking) : raising[i] \in OpenConsult
    BY <1>3, <1>4, <1>5
  <2>2. raising \in [1..Len(asking) -> OpenConsult]
    BY <1>3, <1>4, <1>5
  <2> QED BY <1>3, <2>1, <2>2
<1>7. NamedApart(raising)
  BY <1>2, <1>4, <1>6 DEF NamedApart, Named, ConsultOf
<1>8. \A c \in ToSet(raising) : c.raisedAt = at /\ c.expiresAt = c.raisedAt + ConsultTTL
  BY <1>4, <1>6 DEF ToSet, ConsultOf
<1> QED BY <1>6, <1>7, <1>8 DEF raising

(* A run leaves every consultation in one place.                           *)
LEMMA RunKeepsConsults ==
  ASSUME ConsultInv, NEW view, NEW feasible, RulePhase(view, feasible)
  PROVE  ConsultInv'
<1> DEFINE at == policyMinute + 1
           raising == IF shadow THEN <<>> ELSE Raising(view, at, feasible)
           still == Still(at)
           lapsed == {c \in ToSet(pending) : ~(c.expiresAt > at)}
           lapsedNames == {Named(c) : c \in lapsed}
           settled == IF shadow THEN {} ELSE Verdicts(at)
           settledNames == IF shadow THEN {} ELSE NamesOf(deferred)
<1>0. /\ policyMinute' = at /\ pending' = still \o raising
      /\ raised' = raised \cup NamesOf(raising)
      /\ deferred' = (IF shadow THEN deferred ELSE <<>>)
      /\ ends' = ends \cup Expiries(at) \cup settled
      /\ verdict' = verdict /\ book' = book
  BY DEF RulePhase, SettleConsults, storeVars, NamesOf
<1>1. at \in Nat /\ ConsultTTL \in Nat
  BY PolicyAssumption DEF ConsultInv, ConsultsTyped
<1>2. /\ raising \in Seq(OpenConsult) /\ NamedApart(raising)
      /\ \A c \in ToSet(raising) : c.raisedAt = at /\ c.expiresAt = c.raisedAt + ConsultTTL
  <2>1. CASE shadow
    BY <2>1 DEF NamedApart, ToSet
  <2>2. CASE ~shadow
    BY <1>1, <2>2, RaisedApart DEF ConsultInv
  <2> QED BY <2>1, <2>2
<1>3. /\ still \in Seq(OpenConsult) /\ ToSet(still) = ToSet(pending) \ lapsed /\ NamedApart(still)
  <2>1. pending \in Seq(OpenConsult) /\ NamedApart(pending)
    BY DEF ConsultInv, ConsultsTyped, OneEach
  <2> QED BY <2>1, SelectedSet, ApartSelected DEF Still
<1>4. \A c \in ToSet(pending) : c \in OpenConsult
  BY DEF ConsultInv, ConsultsTyped, ToSet
<1>5. Expiries(at) = {End(c, "expired", at) : c \in lapsed}
  <2>1. \A i \in DOMAIN pending : pending[i].expiresAt \in Nat /\ pending[i] \in ToSet(pending)
    BY <1>4 DEF ToSet, OpenConsult
  <2>2. \A i \in DOMAIN pending : i \in Expired(at) <=> pending[i] \in lapsed
    BY <1>1, <2>1 DEF Expired
  <2>3. \A c \in lapsed : \E i \in DOMAIN pending : c = pending[i]
    BY DEF ToSet
  <2>4. Expired(at) \subseteq DOMAIN pending
    BY DEF Expired
  <2> HIDE DEF lapsed
  <2> QED BY <2>2, <2>3, <2>4 DEF Expiries
<1>6. \A c, d \in ToSet(pending) : Named(c) = Named(d) => c = d
  BY NameDecides DEF ConsultInv, ConsultsTyped, OneEach
<1>7. /\ NamesOf(pending) = NamesOf(still) \cup lapsedNames
      /\ NamesOf(still) \cap lapsedNames = {}
  BY <1>3, <1>6 DEF NamesOf
<1>8. NamesOf(raising) \cap raised = {}
  <2>1. \A c \in ToSet(raising) : Named(c).raisedAt = at
    BY <1>2 DEF Named
  <2>2. \A name \in raised : name.raisedAt # at
    BY <1>1 DEF ConsultInv, ConsultsTyped
  <2> QED BY <2>1, <2>2 DEF NamesOf
<1>9. NamesOf(still) \subseteq raised
  BY <1>7 DEF ConsultInv, OnePlace
<1>10. /\ pending' \in Seq(OpenConsult) /\ NamedApart(pending')
       /\ NamesOf(pending') = NamesOf(still) \cup NamesOf(raising)
       /\ ToSet(pending') = ToSet(still) \cup ToSet(raising)
  <2> HIDE DEF still, raising
  <2>1. NamesOf(still) \cap NamesOf(raising) = {}
    BY <1>8, <1>9
  <2> QED BY <1>0, <1>2, <1>3, <2>1, ApartJoined, SetOfConcat, ConcatProperties
<1>11. /\ deferred' \in Seq(HeldAnswer) /\ NamedApart(deferred')
       /\ NamesOf(deferred') = NamesOf(deferred) \ settledNames
       /\ ToSet(deferred') \subseteq ToSet(deferred)
  <2>1. deferred \in Seq(HeldAnswer) /\ NamedApart(deferred)
    BY DEF ConsultInv, ConsultsTyped, OneEach
  <2>2. CASE shadow
    BY <1>0, <2>1, <2>2
  <2>3. CASE ~shadow
    <3>1. deferred' = <<>> /\ ToSet(<<>>) = {}
      BY <1>0, <2>3 DEF ToSet
    <3>2. <<>> \in Seq(HeldAnswer) /\ NamedApart(<<>>) /\ NamesOf(<<>>) = {}
      BY <3>1 DEF NamedApart, NamesOf
    <3> QED BY <2>3, <3>1, <3>2
  <2> QED BY <2>2, <2>3
<1>12. \A end \in settled : end.consult \in settledNames
  BY DEF Verdicts, End, NamesOf
<1>13. \A name \in settledNames : \E end \in settled : end.consult = name
  <2>1. \A d : End(d, How(d.approve), at).consult = Named(d)
    BY DEF End
  <2>2. \A d \in ToSet(deferred) : End(d, How(d.approve), at) \in Verdicts(at)
    BY DEF Verdicts
  <2> QED BY <2>1, <2>2 DEF NamesOf
<1>14. \A end \in Expiries(at) : end.consult \in lapsedNames
  BY <1>5 DEF End
<1>15. \A name \in lapsedNames : \E end \in Expiries(at) : end.consult = name
  <2>1. \A c : End(c, "expired", at).consult = Named(c)
    BY DEF End
  <2> HIDE DEF lapsed
  <2> QED BY <1>5, <2>1
<1>16. \A e, f \in Expiries(at) : e.consult = f.consult => e = f
  BY <1>5, <1>6 DEF End
<1>17. \A e, f \in settled : e.consult = f.consult => e = f
  <2>1. \A c, d \in ToSet(deferred) : Named(c) = Named(d) => c = d
    BY NameDecides DEF ConsultInv, ConsultsTyped, OneEach
  <2> QED BY <2>1 DEF Verdicts, End
<1>18. \A end \in Expiries(at) : EndsWell(end)
  <2>1. ASSUME NEW c \in lapsed PROVE EndsWell(End(c, "expired", at))
    <3>1. Named(c) \notin DOMAIN verdict /\ c.expiresAt = c.raisedAt + ConsultTTL
      BY DEF ConsultInv, Answered
    <3>2. at >= Named(c).raisedAt + ConsultTTL
      BY <1>1, <1>4, <3>1 DEF Named, OpenConsult
    <3> QED BY <3>1, <3>2 DEF EndsWell, End
  <2> QED BY <1>5, <2>1
<1>19. \A end \in settled : EndsWell(end)
  BY DEF ConsultInv, Answered, Verdicts, EndsWell, End
<1>20. \A e, f : e \in ends' /\ f \in ends' => (e.consult = f.consult => e = f)
  <2>1. \A e \in ends : e.consult \in Over
    BY DEF Over
  <2>2. EndedApart /\ lapsedNames \cap Over = {} /\ settledNames \cap Over = {} /\ lapsedNames \cap settledNames = {}
    BY <1>7 DEF ConsultInv, OneEach, OnePlace
  <2> HIDE DEF lapsedNames, settledNames, settled, at
  <2> QED BY <1>0, <1>12, <1>14, <1>16, <1>17, <2>1, <2>2 DEF EndedApart
<1>21. Over' = Over \cup lapsedNames \cup settledNames
  <2>1. \A e \in ends : e.consult \in Over
    BY DEF Over
  <2>2. Over' = {end.consult : end \in ends'}
    BY DEF Over
  <2> HIDE DEF lapsedNames, settledNames, settled, at
  <2>3. \A name \in Over' : name \in Over \cup lapsedNames \cup settledNames
    BY <1>0, <1>12, <1>14, <2>1, <2>2
  <2>4. \A name \in Over : \E end \in ends : end.consult = name
    BY DEF Over
  <2>5. \A name \in Over \cup lapsedNames \cup settledNames : name \in Over'
    BY <1>0, <1>13, <1>15, <2>2, <2>4
  <2> QED BY <2>3, <2>5
<1> HIDE DEF raising, still, lapsed, settled
<1>22. ConsultsTyped'
  <2>1. \A name \in raised' : name.raisedAt \in Nat /\ name.raisedAt <= policyMinute'
    <3>1. \A name \in NamesOf(raising) : name.raisedAt = at
      BY <1>2 DEF NamesOf, Named
    <3>2. \A name \in raised : name.raisedAt \in Nat /\ name.raisedAt <= at
      BY DEF ConsultInv, ConsultsTyped
    <3> QED BY <1>0, <1>1, <3>1, <3>2
  <2> QED BY <1>0, <1>1, <1>10, <1>11, <2>1 DEF ConsultInv, ConsultsTyped
<1>23. OneEach'
  BY <1>10, <1>11, <1>20 DEF OneEach, EndedApart
<1>24. OnePlace'
  <2>1. raised = NamesOf(still) \cup lapsedNames \cup NamesOf(deferred) \cup Over
    BY <1>7 DEF ConsultInv, OnePlace
  <2>2. settledNames \subseteq NamesOf(deferred)
    OBVIOUS
  <2>3. /\ (NamesOf(still) \cup lapsedNames) \cap NamesOf(deferred) = {}
        /\ (NamesOf(still) \cup lapsedNames) \cap Over = {}
        /\ NamesOf(deferred) \cap Over = {}
    BY <1>7 DEF ConsultInv, OnePlace
  <2> HIDE DEF lapsedNames, settledNames
  <2>4. raised' = NamesOf(pending') \cup NamesOf(deferred') \cup Over'
    BY <1>0, <1>10, <1>11, <1>21, <2>1, <2>2
  <2>5. /\ NamesOf(pending') \cap NamesOf(deferred') = {}
        /\ NamesOf(pending') \cap Over' = {}
        /\ NamesOf(deferred') \cap Over' = {}
    BY <1>7, <1>8, <1>10, <1>11, <1>21, <2>1, <2>2, <2>3
  <2> QED BY <2>4, <2>5 DEF OnePlace, NamesOf
<1>25. Answered'
  <2>1. DOMAIN verdict' \subseteq raised'
    BY <1>0 DEF ConsultInv, Answered
  <2>2. \A c \in ToSet(pending') : Named(c) \notin DOMAIN verdict' /\ c.expiresAt = c.raisedAt + ConsultTTL
    <3>1. \A c \in ToSet(still) : Named(c) \notin DOMAIN verdict /\ c.expiresAt = c.raisedAt + ConsultTTL
      BY <1>3 DEF ConsultInv, Answered
    <3>2. \A c \in ToSet(raising) : Named(c) \notin DOMAIN verdict
      BY <1>8 DEF ConsultInv, Answered, NamesOf
    <3> QED BY <1>0, <1>2, <1>10, <3>1, <3>2
  <2>3. \A d \in ToSet(deferred') : Named(d) \in DOMAIN verdict' /\ verdict'[Named(d)] = d.approve
    BY <1>0, <1>11 DEF ConsultInv, Answered
  <2>4. \A end \in ends' : EndsWell(end)
    BY <1>0, <1>18, <1>19 DEF ConsultInv, Answered
  <2>5. \A end \in ends' : EndsWell(end)'
    BY <1>0, <2>4 DEF EndsWell
  <2> QED BY <2>1, <2>2, <2>3, <2>5 DEF Answered
<1> QED BY <1>22, <1>23, <1>24, <1>25 DEF ConsultInv

(* An answer takes a consultation from one place to another.               *)
LEMMA ResolveKeepsConsults ==
  ASSUME ConsultInv, NEW i \in DOMAIN pending, NEW approve \in BOOLEAN, Resolve(i, approve)
  PROVE  ConsultInv'
<1> DEFINE c == pending[i]
           name == Named(c)
           rest == RemoveAt(pending, i)
           held == [rule |-> c.rule, raisedAt |-> c.raisedAt, approve |-> approve]
           end == End(c, How(approve), policyMinute)
<1>0. pending \in Seq(OpenConsult) /\ NamedApart(pending) /\ i \in 1..Len(pending)
  BY DEF ConsultInv, ConsultsTyped, OneEach
<1>1. c \in OpenConsult /\ c \in ToSet(pending)
  BY <1>0 DEF ToSet
<1>2. /\ policyMinute' = policyMinute /\ pending' = rest /\ raised' = raised /\ book' = book
      /\ verdict' = [n \in DOMAIN verdict \cup {name} |-> IF n = name THEN approve ELSE verdict[n]]
      /\ IF frozen THEN deferred' = Append(deferred, held) /\ ends' = ends
         ELSE deferred' = deferred /\ ends' = ends \cup {end}
  BY DEF Resolve, storeVars
<1>3. /\ rest \in Seq(OpenConsult) /\ NamedApart(rest) /\ ToSet(rest) \subseteq ToSet(pending)
      /\ name \notin NamesOf(rest) /\ NamesOf(pending) = NamesOf(rest) \cup {name}
  BY <1>0, ApartRemoved
<1>4. held \in HeldAnswer /\ Named(held) = name
  BY <1>1 DEF HeldAnswer, OpenConsult, Named
<1>5. end.consult = name /\ end.how = How(approve)
  BY DEF End
<1> HIDE DEF rest, held, end
<1>6. name \notin DOMAIN verdict /\ name \in raised /\ name \notin NamesOf(deferred) /\ name \notin Over
  BY <1>1, <1>3 DEF ConsultInv, Answered, OnePlace
<1> HIDE DEF name, c
<1>7. /\ deferred' \in Seq(HeldAnswer) /\ NamedApart(deferred')
      /\ NamesOf(deferred') = NamesOf(deferred) \cup (IF frozen THEN {name} ELSE {})
      /\ ToSet(deferred') = ToSet(deferred) \cup (IF frozen THEN {held} ELSE {})
  <2>1. deferred \in Seq(HeldAnswer) /\ NamedApart(deferred)
    BY DEF ConsultInv, ConsultsTyped, OneEach
  <2>2. CASE ~frozen
    BY <1>2, <2>1, <2>2
  <2>3. CASE frozen
    <3> DEFINE one == <<held>>
    <3>1. one \in Seq(HeldAnswer) /\ NamedApart(one) /\ ToSet(one) = {held}
      BY <1>4 DEF NamedApart, ToSet
    <3>2. NamesOf(one) = {name}
      BY <1>4, <3>1 DEF NamesOf
    <3>3. Append(deferred, held) = deferred \o one
      BY <1>4, <2>1
    <3>4. Append(deferred, held) \in Seq(HeldAnswer)
      BY <1>4, <2>1
    <3> HIDE DEF one
    <3>5. NamedApart(deferred \o one) /\ NamesOf(deferred \o one) = NamesOf(deferred) \cup {name}
      BY <1>6, <2>1, <3>1, <3>2, ApartJoined
    <3>6. ToSet(deferred \o one) = ToSet(deferred) \cup {held}
      BY <2>1, <3>1, SetOfConcat
    <3> QED BY <1>2, <2>3, <3>3, <3>4, <3>5, <3>6
  <2> QED BY <2>2, <2>3
<1>8. Over' = Over \cup (IF frozen THEN {} ELSE {name})
  BY <1>2, <1>5 DEF Over
<1>9. ConsultsTyped'
  BY <1>2, <1>3, <1>7 DEF ConsultInv, ConsultsTyped
<1>10. OneEach'
  <2>1. \A e \in ends : e.consult \in Over
    BY DEF Over
  <2>2. EndedApart
    BY DEF ConsultInv, OneEach
  <2>3. EndedApart'
    BY <1>2, <1>5, <1>6, <2>1, <2>2 DEF EndedApart
  <2> QED BY <1>2, <1>3, <1>7, <2>3 DEF OneEach
<1>11. OnePlace'
  <2>1. /\ raised = NamesOf(pending) \cup NamesOf(deferred) \cup Over
        /\ NamesOf(pending) \cap NamesOf(deferred) = {}
        /\ NamesOf(pending) \cap Over = {} /\ NamesOf(deferred) \cap Over = {}
    BY DEF ConsultInv, OnePlace
  <2>2. raised' = NamesOf(rest) \cup NamesOf(deferred') \cup Over'
    BY <1>2, <1>3, <1>7, <1>8, <2>1
  <2>3. /\ NamesOf(rest) \cap NamesOf(deferred') = {}
        /\ NamesOf(rest) \cap Over' = {} /\ NamesOf(deferred') \cap Over' = {}
    BY <1>3, <1>6, <1>7, <1>8, <2>1
  <2> QED BY <1>2, <2>2, <2>3 DEF OnePlace, NamesOf
<1>12. Answered'
  <2>1. DOMAIN verdict' = DOMAIN verdict \cup {name} /\ verdict'[name] = approve
    BY <1>2
  <2>2. \A n \in DOMAIN verdict : n # name /\ verdict'[n] = verdict[n]
    BY <1>2, <1>6
  <2>3. DOMAIN verdict' \subseteq raised'
    BY <1>2, <1>6, <2>1 DEF ConsultInv, Answered
  <2>4. \A d \in ToSet(pending') : Named(d) \notin DOMAIN verdict' /\ d.expiresAt = d.raisedAt + ConsultTTL
    <3>1. \A d \in ToSet(rest) : Named(d) # name
      BY <1>3 DEF NamesOf
    <3> QED BY <1>2, <1>3, <2>1, <3>1 DEF ConsultInv, Answered
  <2>5. held.approve = approve
    BY DEF held
  <2>6. \A d \in ToSet(deferred) : Named(d) \in DOMAIN verdict /\ verdict[Named(d)] = d.approve
    BY DEF ConsultInv, Answered
  <2>7. \A d \in ToSet(deferred') : Named(d) \in DOMAIN verdict' /\ verdict'[Named(d)] = d.approve
    <3>1. \A d \in ToSet(deferred) : Named(d) \in DOMAIN verdict' /\ verdict'[Named(d)] = d.approve
      BY <2>1, <2>2, <2>6
    <3>2. Named(held) \in DOMAIN verdict' /\ verdict'[Named(held)] = held.approve
      BY <1>4, <2>1, <2>5
    <3> QED BY <1>7, <3>1, <3>2
  <2>8. ASSUME NEW e \in ends' PROVE EndsWell(e)'
    <3>1. CASE e \in ends
      <4>1. e.consult # name
        BY <1>6, <3>1 DEF Over
      <4>2. EndsWell(e)
        BY <3>1 DEF ConsultInv, Answered
      <4>3. e.consult \in DOMAIN verdict' <=> e.consult \in DOMAIN verdict
        BY <2>1, <4>1
      <4> QED BY <2>2, <4>2, <4>3 DEF EndsWell
    <3>2. CASE e = end
      BY <1>5, <2>1, <3>2 DEF EndsWell
    <3> QED BY <1>2, <3>1, <3>2
  <2> QED BY <2>3, <2>4, <2>7, <2>8 DEF Answered
<1> QED BY <1>9, <1>10, <1>11, <1>12 DEF ConsultInv

(* The book keeps each rule once.                                          *)
LEMMA BookStaysInjective ==
  ASSUME book \in Seq(Rule), IsInjective(book), PolicyNext
  PROVE  book' \in Seq(Rule) /\ IsInjective(book')
<1>1. ASSUME NEW r \in Rule, NEW saved \in Cards[r], NEW position \in 1..Len(book) + 1,
             Insert(r, saved, position)
      PROVE  book' \in Seq(Rule) /\ IsInjective(book')
  BY <1>1, InsertedElements, InsertedInjective DEF Insert, InBook
<1>2. ASSUME NEW from \in DOMAIN book, NEW to \in DOMAIN book, Move(from, to)
      PROVE  book' \in Seq(Rule) /\ IsInjective(book')
  <2> DEFINE rest == RemoveAt(book, from)
  <2>1. from \in 1..Len(book) /\ to \in 1..Len(book) /\ book[from] \in Rule
    OBVIOUS
  <2>2. /\ rest \in Seq(Rule) /\ Len(rest) = Len(book) - 1
        /\ IsInjective(rest) /\ book[from] \notin ToSet(rest)
    BY <2>1, RemovedElements, RemovedInjective
  <2> HIDE DEF rest
  <2>3. to \in 1..Len(rest) + 1
    BY <2>1, <2>2
  <2>4. /\ InsertAt(rest, to, book[from]) \in Seq(Rule)
        /\ IsInjective(InsertAt(rest, to, book[from]))
    BY <2>1, <2>2, <2>3, InsertedElements, InsertedInjective
  <2> QED BY <1>2, <2>4 DEF Move, rest
<1>3. CASE book' = book
  BY <1>3
<1> QED
  BY <1>1, <1>2, <1>3
  DEF PolicyNext, FrozenRun, RulePhase, Resolve, Revise, SetSuspended, SetFrozen, SetShadow, storeVars

(* Every step keeps the consultations in their places.                     *)
LEMMA ConsultStep ==
  ASSUME ConsultInv, [PolicyNext]_policyVars
  PROVE  ConsultInv'
<1>1. ASSUME UNCHANGED <<pending, deferred, raised, verdict, ends>>,
             policyMinute' \in {policyMinute, policyMinute + 1},
             book' \in Seq(Rule), IsInjective(book')
      PROVE  ConsultInv'
  <2>1. ConsultsTyped'
    <3>1. /\ policyMinute \in Nat /\ pending' \in Seq(OpenConsult) /\ deferred' \in Seq(HeldAnswer)
          /\ \A name \in raised' : name.raisedAt \in Nat /\ name.raisedAt <= policyMinute
      BY <1>1 DEF ConsultInv, ConsultsTyped
    <3>2. policyMinute' \in Nat /\ policyMinute <= policyMinute'
      BY <1>1, <3>1
    <3>3. \A name \in raised' : name.raisedAt <= policyMinute'
      BY <3>1, <3>2
    <3> QED BY <1>1, <3>1, <3>2, <3>3 DEF ConsultsTyped
  <2>2. OneEach'
    BY <1>1 DEF ConsultInv, OneEach, NamedApart, EndedApart
  <2>3. OnePlace'
    <3>1. NamesOf(pending)' = NamesOf(pending) /\ NamesOf(deferred)' = NamesOf(deferred) /\ Over' = Over
      BY <1>1 DEF NamesOf, Over, ToSet
    <3> QED BY <1>1, <3>1 DEF ConsultInv, OnePlace
  <2>4. Answered'
    BY <1>1 DEF ConsultInv, Answered, EndsWell, ToSet
  <2> QED BY <2>1, <2>2, <2>3, <2>4 DEF ConsultInv
<1>2. book' \in Seq(Rule) /\ IsInjective(book')
  <2>1. book \in Seq(Rule) /\ IsInjective(book)
    BY DEF ConsultInv, ConsultsTyped
  <2>2. CASE PolicyNext
    BY <2>1, <2>2, BookStaysInjective
  <2>3. CASE UNCHANGED policyVars
    BY <2>1, <2>3 DEF policyVars, storeVars
  <2> QED BY <2>2, <2>3
<1>3. ASSUME NEW view, NEW feasible, RulePhase(view, feasible) PROVE ConsultInv'
  BY <1>3, RunKeepsConsults
<1>4. ASSUME NEW i \in DOMAIN pending, NEW approve \in BOOLEAN, Resolve(i, approve) PROVE ConsultInv'
  BY <1>4, ResolveKeepsConsults
<1>5. CASE FrozenRun \/ UNCHANGED phaseVars
  BY <1>1, <1>2, <1>5 DEF FrozenRun, phaseVars, runtimeVars, storyVars
<1> QED
  BY <1>3, <1>4, <1>5
  DEF PolicyNext, Insert, Revise, Move, SetSuspended, SetFrozen, SetShadow, policyVars

(* A name stands in a list at one position.                                *)
LEMMA OccursOnce ==
  ASSUME NEW T, NEW s \in Seq(T), NamedApart(s), NEW name \in NamesOf(s)
  PROVE  \E i : Occurrences(s, name) = {i}
<1>1. PICK i \in DOMAIN s : Named(s[i]) = name
  BY DEF NamesOf, ToSet
<1>2. \A j \in DOMAIN s : j \in Int
  OBVIOUS
<1>3. \A j \in DOMAIN s : Named(s[j]) = name => j = i
  BY <1>1, <1>2 DEF NamedApart
<1>4. Occurrences(s, name) = {i}
  BY <1>1, <1>3 DEF Occurrences
<1> QED BY <1>4

(* Every consultation raised is open, held back with its verdict, or over, *)
(* one of them and once; it ends as it was answered, or expires            *)
(* unanswered, not before its time (evaluator.ts, expireConsults,          *)
(* dispatchDeferred and resolveConsultation).                              *)
THEOREM ConsultsEndOnceAlways == PolicySpec => []ConsultsEndOnce
<1>1. PolicyInit => ConsultInv
  <2> SUFFICES ASSUME PolicyInit PROVE ConsultInv
    OBVIOUS
  <2>1. ToSet(<<>>) = {} /\ DOMAIN Nothing = {} /\ <<>> \in Seq(OpenConsult) /\ <<>> \in Seq(HeldAnswer)
    BY DEF ToSet, Nothing
  <2>2. NamedApart(<<>>) /\ NamesOf(<<>>) = {}
    BY <2>1 DEF NamedApart, NamesOf
  <2>3. ConsultsTyped
    BY <2>1, PolicyAssumption DEF PolicyInit, ConsultsTyped
  <2>4. OneEach /\ OnePlace
    BY <2>2 DEF PolicyInit, OneEach, OnePlace, EndedApart, Over
  <2>5. Answered
    BY <2>1 DEF PolicyInit, Answered
  <2> QED BY <2>3, <2>4, <2>5 DEF ConsultInv
<1>2. ConsultInv /\ [PolicyNext]_policyVars => ConsultInv'
  BY ConsultStep
<1>3. ConsultInv => ConsultsEndOnce
  <2> SUFFICES ASSUME ConsultInv, NEW name \in raised
               PROVE  /\ Cardinality(Occurrences(pending, name))
                           + Cardinality(Occurrences(deferred, name))
                           + Cardinality(EndsOf(name)) = 1
                      /\ name \in DOMAIN verdict => Occurrences(pending, name) = {}
                      /\ \A end \in EndsOf(name) :
                           IF name \in DOMAIN verdict THEN end.how = How(verdict[name])
                           ELSE end.how = "expired" /\ end.at >= name.raisedAt + ConsultTTL
    BY DEF ConsultsEndOnce
  <2>1. /\ name \notin NamesOf(pending) => Occurrences(pending, name) = {}
        /\ name \notin NamesOf(deferred) => Occurrences(deferred, name) = {}
        /\ name \notin Over => EndsOf(name) = {}
    BY DEF Occurrences, EndsOf, NamesOf, ToSet, Over
  <2>2. name \in NamesOf(pending) => \E i : Occurrences(pending, name) = {i}
    BY OccursOnce DEF ConsultInv, ConsultsTyped, OneEach
  <2>3. name \in NamesOf(deferred) => \E i : Occurrences(deferred, name) = {i}
    BY OccursOnce DEF ConsultInv, ConsultsTyped, OneEach
  <2>4. name \in Over => \E end : EndsOf(name) = {end}
    BY DEF EndsOf, Over, ConsultInv, OneEach, EndedApart
  <2>5. /\ name \in NamesOf(pending) \cup NamesOf(deferred) \cup Over
        /\ NamesOf(pending) \cap NamesOf(deferred) = {}
        /\ NamesOf(pending) \cap Over = {} /\ NamesOf(deferred) \cap Over = {}
    BY DEF ConsultInv, OnePlace
  <2>6. /\ Cardinality({}) = 0 /\ \A x : Cardinality({x}) = 1
    BY FS_EmptySet, FS_Singleton
  <2>7. /\ Cardinality(Occurrences(pending, name)) = IF name \in NamesOf(pending) THEN 1 ELSE 0
        /\ Cardinality(Occurrences(deferred, name)) = IF name \in NamesOf(deferred) THEN 1 ELSE 0
        /\ Cardinality(EndsOf(name)) = IF name \in Over THEN 1 ELSE 0
    BY <2>1, <2>2, <2>3, <2>4, <2>6
  <2>8. Cardinality(Occurrences(pending, name)) + Cardinality(Occurrences(deferred, name))
          + Cardinality(EndsOf(name)) = 1
    <3>1. CASE name \in NamesOf(pending)
      BY <2>5, <2>7, <3>1
    <3>2. CASE name \in NamesOf(deferred)
      BY <2>5, <2>7, <3>2
    <3>3. CASE name \in Over
      BY <2>5, <2>7, <3>3
    <3> QED BY <2>5, <3>1, <3>2, <3>3
  <2>9. name \in DOMAIN verdict => Occurrences(pending, name) = {}
    BY <2>1 DEF ConsultInv, Answered, NamesOf
  <2>10. \A end \in EndsOf(name) :
           IF name \in DOMAIN verdict THEN end.how = How(verdict[name])
           ELSE end.how = "expired" /\ end.at >= name.raisedAt + ConsultTTL
    BY DEF ConsultInv, Answered, EndsOf, EndsWell
  <2> QED BY <2>8, <2>9, <2>10
<1> QED BY <1>1, <1>2, <1>3, PTL DEF PolicySpec

(***************************************************************************)
(* The draft.  The bank after a pick is the bank before, the slot more and *)
(* the cost less; no affix costs less than eight tenths of its slot.       *)
(***************************************************************************)
DraftIInv ==
  /\ draftAsk \in DraftAsks
  /\ left \in Nat /\ left <= draftAsk.budget
  /\ banked \in Int
  /\ BankIsSound

(* An affix costs eight tenths of its slot at least.                       *)
LEMMA CostBounds ==
  ASSUME NEW w \in Nat, NEW m \in 8..20
  PROVE  AffixCost(w, m) \in Nat /\ 10 * AffixCost(w, m) >= 8 * w
<1>1. w * m \in Nat /\ w * m >= 8 * w
  <2>1. w * m = 8 * w + w * (m - 8)
    OBVIOUS
  <2>2. w * (m - 8) \in Nat
    OBVIOUS
  <2>3. QED  BY <2>1, <2>2
<1> DEFINE p == w * m
<1>2. p \in Nat /\ p >= 8 * w
  BY <1>1
<1> HIDE DEF p
<1>3. (p + 10 - 1) \div 10 \in Nat /\ 10 * ((p + 10 - 1) \div 10) >= p
  BY <1>2
<1>4. QED  BY <1>2, <1>3 DEF AffixCost, CeilDiv, p

(* A pick keeps the bank sound.                                            *)
LEMMA TakeKeepsBank ==
  ASSUME DraftIInv, NEW threat \in Threat, NEW multiplier \in Multiplier \cup {10},
         Take(threat, multiplier)
  PROVE  DraftIInv'
<1> DEFINE weight == SlotWeight
           cost == Presented(multiplier)
<1>1. /\ draftAsk \in DraftAsks /\ left \in Nat /\ left <= draftAsk.budget
      /\ draftAsk.budget \in Nat /\ draftAsk.slot \in Nat
      /\ banked \in Int /\ 0 <= banked /\ 5 * banked <= draftAsk.budget - left
  BY DraftAssumption DEF DraftIInv, BankIsSound
<1>2. weight \in Nat /\ weight <= left
  BY <1>1 DEF SlotWeight
<1>3. multiplier \in 8..20
  BY DraftAssumption
<1>4. cost \in Nat /\ cost <= weight + banked /\ 5 * cost >= 4 * weight
  <2>1. AffixCost(weight, multiplier) \in Nat /\ 10 * AffixCost(weight, multiplier) >= 8 * weight
    BY <1>2, <1>3, CostBounds
  <2>2. cost = IF AffixCost(weight, multiplier) > weight + banked
                 THEN weight ELSE AffixCost(weight, multiplier)
    BY DEF Presented
  <2> HIDE DEF weight, cost
  <2>3. QED  BY <1>1, <1>2, <2>1, <2>2
<1>5. /\ banked' = banked + weight - cost /\ left' = left - weight
      /\ draftAsk' = draftAsk
  BY DEF Take
<1> HIDE DEF weight, cost
<1>6. QED  BY <1>1, <1>2, <1>4, <1>5 DEF DraftIInv, BankIsSound

(* Whatever is taken, under whatever affix, the picks so far cost no more  *)
(* than their slots and no less than four fifths of them: the walk starts  *)
(* with a budget that is not overspent.                                    *)
THEOREM BankStaysSound == DraftSpec => []BankIsSound
<1>1. DraftInit => DraftIInv
  BY DraftAssumption DEF DraftInit, DraftIInv, BankIsSound
<1>2. DraftIInv /\ [DraftNext]_draftVars => DraftIInv'
  <2> SUFFICES ASSUME DraftIInv, [DraftNext]_draftVars PROVE DraftIInv'
    OBVIOUS
  <2>1. CASE UNCHANGED <<draftAsk, left, banked>>
    BY <2>1 DEF DraftIInv, BankIsSound
  <2>2. QED
    BY <2>1, TakeKeepsBank DEF DraftNext, BulkLap, PartialLap, Commit, draftVars
<1>3. DraftIInv => BankIsSound
  BY DEF DraftIInv
<1>4. QED  BY <1>1, <1>2, <1>3, PTL DEF DraftSpec

(* The deck so far.  Weights make up what the budget has given out, costs  *)
(* fall short of it by the bank; the walk starts from the costs, stays     *)
(* under the caps, and has left to spread what is missing to the budget.   *)
Weights == [t \in DeckThreats |-> taken[t].weight]
Costs == [t \in DeckThreats |-> taken[t].cost]

SoundPick(pick) ==
  /\ pick.weight \in Nat /\ pick.weight > 0
  /\ pick.cost \in Nat /\ pick.cost > 0
  /\ 5 * pick.cost >= 4 * pick.weight

PicksAddUp ==
  /\ DeckThreats \subseteq Threat
  /\ \A t \in DeckThreats : SoundPick(taken[t])
  /\ Total(Weights) = draftAsk.budget - left
  /\ Total(Costs) = draftAsk.budget - left - banked

WalkAddsUp ==
  /\ delta \in Nat
  /\ stage \in {"picking", "walking", "deck"}
  /\ stage = "picking" => left > 0 /\ delta = 0
  /\ stage # "picking" =>
       /\ left = 0
       /\ walked \in [DeckThreats -> Int]
       /\ \A t \in DeckThreats : taken[t].cost <= walked[t] /\ walked[t] <= Cap(t)
       /\ Total(walked) = draftAsk.budget - delta
  /\ stage = "deck" => delta = 0

DeckInv == DraftIInv /\ PicksAddUp /\ WalkAddsUp

(* Only finitely many threats are in a deck, and its sums are numbers.     *)
LEMMA DeckSums ==
  ASSUME PicksAddUp
  PROVE  /\ IsFiniteSet(DeckThreats)
         /\ Weights \in [DeckThreats -> Int] /\ Costs \in [DeckThreats -> Int]
         /\ \A t \in DeckThreats : taken[t].cost \in Nat /\ Cap(t) \in Nat
<1>1. IsFiniteSet(DeckThreats)
  BY DraftAssumption, FS_Subset DEF PicksAddUp
<1>2. \A t \in DeckThreats : taken[t].cost \in Nat /\ taken[t].weight \in Nat
  BY DEF PicksAddUp, SoundPick
<1> QED BY <1>1, <1>2 DEF Weights, Costs, Cap

(* What a pick adds to the sums.                                           *)
LEMMA TakeAddsUp ==
  ASSUME DeckInv, NEW threat \in Threat, NEW multiplier \in Multiplier \cup {10},
         Take(threat, multiplier)
  PROVE  PicksAddUp' /\ WalkAddsUp'
<1> DEFINE weight == SlotWeight
           cost == Presented(multiplier)
           costs == [t \in DeckThreats \cup {threat} |->
                       IF t = threat THEN [weight |-> weight, cost |-> cost] ELSE taken[t]]
           deck == DeckThreats \cup {threat}
<1>1. /\ draftAsk \in DraftAsks /\ left \in Nat /\ left <= draftAsk.budget
      /\ draftAsk.budget \in Nat /\ draftAsk.slot \in Nat /\ draftAsk.slot > 0
      /\ banked \in Int /\ 0 <= banked /\ 5 * banked <= draftAsk.budget - left
  BY DraftAssumption DEF DeckInv, DraftIInv, BankIsSound
<1>2. /\ stage = "picking" /\ threat \notin DeckThreats
      /\ taken' = costs /\ banked' = banked + weight - cost /\ left' = left - weight
      /\ draftAsk' = draftAsk
      /\ IF left' = 0
           THEN /\ walked' = [t \in DOMAIN costs |-> costs[t].cost]
                /\ delta' = draftAsk.budget - Total([t \in DOMAIN costs |-> costs[t].cost])
                /\ stage' = "walking"
           ELSE walked' = walked /\ delta' = delta /\ stage' = stage
  BY DEF Take
<1>3. left > 0 /\ delta = 0
  BY <1>2 DEF DeckInv, WalkAddsUp
<1>4. weight \in Nat /\ weight > 0 /\ weight <= left
  BY <1>1, <1>3 DEF SlotWeight
<1>5. cost \in Nat /\ cost <= weight + banked /\ 5 * cost >= 4 * weight
  <2>1. multiplier \in 8..20
    BY DraftAssumption
  <2>2. AffixCost(weight, multiplier) \in Nat /\ 10 * AffixCost(weight, multiplier) >= 8 * weight
    BY <1>4, <2>1, CostBounds
  <2>3. cost = IF AffixCost(weight, multiplier) > weight + banked THEN weight ELSE AffixCost(weight, multiplier)
    BY DEF Presented
  <2> HIDE DEF weight, cost
  <2> QED BY <1>1, <1>4, <2>2, <2>3
<1> HIDE DEF weight, cost
<1>6. cost > 0
  BY <1>4, <1>5
<1>7. DeckThreats' = deck /\ deck \subseteq Threat /\ IsFiniteSet(deck) /\ deck \ {threat} = DeckThreats
  <2>1. DeckThreats \subseteq Threat /\ DOMAIN costs = deck
    BY DEF DeckInv, PicksAddUp
  <2>2. DeckThreats' = DOMAIN costs
    BY <1>2 DEF DeckThreats
  <2> HIDE DEF costs
  <2>3. deck \subseteq Threat /\ deck \ {threat} = DeckThreats
    BY <1>2, <2>1
  <2>4. IsFiniteSet(deck)
    BY <2>3, DraftAssumption, FS_Subset
  <2> QED BY <2>1, <2>2, <2>3, <2>4
<1>8. /\ costs[threat].weight = weight /\ costs[threat].cost = cost
      /\ \A t \in DeckThreats : costs[t] = taken[t]
  BY <1>2
<1>9. \A t \in deck : SoundPick(costs[t])
  <2>1. \A t \in DeckThreats : SoundPick(taken[t])
    BY DEF DeckInv, PicksAddUp
  <2>2. SoundPick(costs[threat])
    BY <1>4, <1>5, <1>6, <1>8 DEF SoundPick
  <2> HIDE DEF costs
  <2> QED BY <1>8, <2>1, <2>2
<1> DEFINE newWeights == [t \in deck |-> costs[t].weight]
           newCosts == [t \in deck |-> costs[t].cost]
<1>10. newWeights \in [deck -> Int] /\ newCosts \in [deck -> Int]
  <2> HIDE DEF costs, deck
  <2>1. \A t \in deck : costs[t].weight \in Int /\ costs[t].cost \in Int
    BY <1>9 DEF SoundPick
  <2> QED BY <2>1
<1>11. DOMAIN costs = deck
  OBVIOUS
<1> HIDE DEF costs
<1>12. Total(newWeights) = weight + Total(Weights)
  <2>1. [t \in deck \ {threat} |-> newWeights[t]] = Weights
    BY <1>7, <1>8 DEF Weights
  <2>2. newWeights[threat] = weight
    BY <1>8
  <2> HIDE DEF newWeights
  <2> QED BY <1>7, <1>10, <2>1, <2>2, TotalWithTerm
<1>13. Total(newCosts) = cost + Total(Costs)
  <2>1. [t \in deck \ {threat} |-> newCosts[t]] = Costs
    BY <1>7, <1>8 DEF Costs
  <2>2. newCosts[threat] = cost
    BY <1>8
  <2> HIDE DEF newCosts
  <2> QED BY <1>7, <1>10, <2>1, <2>2, TotalWithTerm
<1>14. Weights' = newWeights /\ Costs' = newCosts
  BY <1>2, <1>7 DEF Weights, Costs
<1>15. /\ Total(Weights) = draftAsk.budget - left
       /\ Total(Costs) = draftAsk.budget - left - banked
  BY DEF DeckInv, PicksAddUp
<1>16. PicksAddUp'
  <2>1. Total(Weights)' = draftAsk'.budget - left'
    <3>1. Total(Weights') = weight + (draftAsk.budget - left)
      BY <1>12, <1>14, <1>15
    <3> QED BY <1>1, <1>2, <1>4, <3>1
  <2>2. Total(Costs)' = draftAsk'.budget - left' - banked'
    <3>1. Total(Costs') = cost + (draftAsk.budget - left - banked)
      BY <1>13, <1>14, <1>15
    <3> QED BY <1>1, <1>2, <1>4, <1>5, <3>1
  <2> QED BY <1>2, <1>7, <1>9, <2>1, <2>2 DEF PicksAddUp
<1>17. WalkAddsUp'
  <2>1. CASE left' = 0
    <3>1. walked' = newCosts /\ delta' = draftAsk.budget - Total(newCosts) /\ stage' = "walking"
      BY <1>2, <1>11, <2>1
    <3>2. delta' = banked' /\ banked' \in Nat
      <4>1. Total(newCosts) = cost + (draftAsk.budget - left - banked)
        BY <1>13, <1>15
      <4>2. left = weight
        BY <1>1, <1>2, <1>4, <2>1
      <4> QED BY <1>1, <1>2, <1>4, <1>5, <3>1, <4>1, <4>2
    <3>3. Total(walked') = draftAsk'.budget - delta'
      <4>1. Total(newCosts) \in Int
        BY <1>7, <1>10, TotalType
      <4> QED BY <1>1, <1>2, <3>1, <4>1
    <3>4. ASSUME NEW t \in deck PROVE taken'[t].cost <= walked'[t] /\ walked'[t] <= 2 * taken'[t].cost
      BY <1>2, <1>9, <3>1 DEF SoundPick
    <3>5. \A t \in DeckThreats' : taken'[t].cost <= walked'[t] /\ walked'[t] <= Cap(t)'
      BY <1>7, <3>4 DEF Cap
    <3>6. walked' \in [DeckThreats' -> Int]
      BY <1>7, <1>10, <3>1
    <3> QED BY <2>1, <3>1, <3>2, <3>3, <3>5, <3>6 DEF WalkAddsUp
  <2>2. CASE left' # 0
    BY <1>1, <1>2, <1>3, <1>4, <2>2 DEF WalkAddsUp
  <2> QED BY <2>1, <2>2
<1> QED BY <1>16, <1>17

(* What a lap adds: each entry something within its room, and all of it    *)
(* out of what was left to spread.                                         *)
LEMMA LapAddsUp ==
  ASSUME DeckInv, stage = "walking", NEW applied \in [DeckThreats -> Int],
         \A t \in DeckThreats : 0 <= applied[t] /\ applied[t] <= Cap(t) - walked[t],
         Total(applied) <= delta,
         walked' = [t \in DeckThreats |-> walked[t] + applied[t]],
         delta' = delta - Total(applied),
         UNCHANGED <<draftAsk, left, banked, taken, stage>>
  PROVE  DeckInv'
<1>1. IsFiniteSet(DeckThreats) /\ \A t \in DeckThreats : taken[t].cost \in Nat /\ Cap(t) \in Nat
  BY DeckSums DEF DeckInv
<1>2. /\ left = 0 /\ walked \in [DeckThreats -> Int] /\ delta \in Nat
      /\ \A t \in DeckThreats : taken[t].cost <= walked[t] /\ walked[t] <= Cap(t)
      /\ Total(walked) = draftAsk.budget - delta
  BY DEF DeckInv, WalkAddsUp
<1>3. DeckThreats' = DeckThreats /\ \A t : Cap(t)' = Cap(t)
  BY DEF DeckThreats, Cap
<1>4. walked' \in [DeckThreats -> Int]
  BY <1>2
<1>5. Total(walked') = Total(walked) + Total(applied)
  <2>1. \A t \in DeckThreats : walked'[t] = walked[t] + applied[t]
    OBVIOUS
  <2> QED BY <1>1, <1>2, <1>4, <2>1, TotalOfSums
<1>6. Total(applied) \in Int /\ draftAsk.budget \in Int
  BY <1>1, TotalType, DraftAssumption DEF DeckInv, DraftIInv
<1> DEFINE spread == Total(applied)
           before == Total(walked)
<1>7. delta' \in Nat /\ Total(walked') = draftAsk'.budget - delta'
  <2>1. /\ spread \in Int /\ spread <= delta /\ delta \in Nat
        /\ before = draftAsk.budget - delta /\ draftAsk.budget \in Int
        /\ Total(walked') = before + spread /\ delta' = delta - spread
        /\ draftAsk' = draftAsk
    BY <1>2, <1>5, <1>6
  <2> HIDE DEF spread, before
  <2>2. delta' \in Nat
    BY <2>1
  <2>3. before + spread = draftAsk.budget - (delta - spread)
    BY <2>1
  <2> QED BY <2>1, <2>2, <2>3
<1>8. \A t \in DeckThreats : taken[t].cost <= walked'[t] /\ walked'[t] <= Cap(t)
  <2> TAKE t \in DeckThreats
  <2>1. walked[t] \in Int /\ applied[t] \in Int /\ walked'[t] = walked[t] + applied[t]
    BY <1>2
  <2> QED BY <1>1, <1>2, <2>1
<1>9. WalkAddsUp'
  BY <1>2, <1>3, <1>4, <1>7, <1>8 DEF WalkAddsUp
<1>10. PicksAddUp'
  BY DEF DeckInv, PicksAddUp, SoundPick, Weights, Costs, DeckThreats
<1>11. DraftIInv'
  BY DEF DeckInv, DraftIInv, BankIsSound
<1> QED BY <1>9, <1>10, <1>11 DEF DeckInv

(* While there is something to spread, some entry has room: the caps       *)
(* together are beyond the budget.                                         *)
LEMMA RoomIsLeft ==
  ASSUME DeckInv, stage = "walking", delta # 0
  PROVE  Mobile # {}
<1> SUFFICES ASSUME Mobile = {} PROVE FALSE
  OBVIOUS
<1>1. /\ IsFiniteSet(DeckThreats) /\ Costs \in [DeckThreats -> Int]
      /\ \A t \in DeckThreats : taken[t].cost \in Nat
  BY DeckSums DEF DeckInv
<1>2. /\ left = 0 /\ delta \in Nat /\ delta > 0 /\ walked \in [DeckThreats -> Int]
      /\ Total(walked) = draftAsk.budget - delta
      /\ Total(Costs) = draftAsk.budget - left - banked
  BY DEF DeckInv, WalkAddsUp, PicksAddUp
<1>3. /\ draftAsk.budget \in Nat /\ draftAsk.budget > 0
      /\ banked \in Int /\ 5 * banked <= draftAsk.budget - left
  BY DraftAssumption DEF DeckInv, DraftIInv, BankIsSound
<1> DEFINE twice == [t \in DeckThreats |-> Costs[t] + Costs[t]]
<1>4. twice \in [DeckThreats -> Int]
  BY <1>1
<1>5. Total(twice) = Total(Costs) + Total(Costs)
  <2>1. \A t \in DeckThreats : twice[t] = Costs[t] + Costs[t]
    OBVIOUS
  <2> HIDE DEF twice
  <2> QED BY <1>1, <1>4, <2>1, TotalOfSums
<1>6. \A t \in DeckThreats : twice[t] <= walked[t]
  <2> TAKE t \in DeckThreats
  <2>1. ~(Cap(t) - walked[t] > 0)
    BY <1>2 DEF Mobile, Room, Growing
  <2>2. twice[t] = taken[t].cost + taken[t].cost /\ Cap(t) = 2 * taken[t].cost
    BY DEF Costs, Cap
  <2>3. walked[t] \in Int /\ taken[t].cost \in Nat
    BY <1>1, <1>2
  <2> HIDE DEF twice
  <2> QED BY <2>1, <2>2, <2>3
<1>7. Total(twice) <= Total(walked)
  <2> HIDE DEF twice
  <2> QED BY <1>1, <1>2, <1>4, <1>6, TotalAtMost
<1> HIDE DEF twice
<1> QED BY <1>2, <1>3, <1>5, <1>7

(* A full lap spreads no more than there is.                               *)
LEMMA BulkLapKeeps ==
  ASSUME DeckInv, BulkLap
  PROVE  DeckInv'
<1> DEFINE lap == Magnitude \div Cardinality(Mobile)
           Applied(t) == IF t \in Mobile THEN Min({lap, Room(t)}) ELSE 0
           applied == [t \in DeckThreats |-> Applied(t)]
<1>1. IsFiniteSet(DeckThreats) /\ \A t \in DeckThreats : Cap(t) \in Nat
  BY DeckSums DEF DeckInv
<1>2. /\ stage = "walking" /\ Mobile # {} /\ lap >= 1
      /\ walked' = [t \in DeckThreats |-> walked[t] + Signed(Applied(t))]
      /\ delta' = delta - Signed(Total(applied))
      /\ UNCHANGED <<draftAsk, left, banked, taken, stage>>
  BY DEF BulkLap
<1>3. /\ delta \in Nat /\ walked \in [DeckThreats -> Int]
      /\ \A t \in DeckThreats : walked[t] <= Cap(t)
  BY <1>2 DEF DeckInv, WalkAddsUp
<1>4. Mobile \in SUBSET DeckThreats /\ Cardinality(Mobile) \in Nat /\ Cardinality(Mobile) > 0
  <2>1. Mobile \in SUBSET DeckThreats
    BY DEF Mobile
  <2>2. Cardinality(Mobile) \in Nat /\ Cardinality(Mobile) # 0
    BY <1>1, <1>2, <2>1, PartSizes
  <2> QED BY <2>1, <2>2
<1>5. Growing /\ Magnitude = delta
  <2>1. Magnitude = delta \/ Magnitude = -delta
    BY DEF Magnitude
  <2>2. CASE delta = 0
    <3>1. Magnitude = 0
      BY <2>1, <2>2
    <3>2. 0 \div Cardinality(Mobile) = 0
      BY <1>4
    <3> QED BY <1>2, <3>1, <3>2
  <2>3. CASE delta # 0
    BY <1>3, <2>3 DEF Growing, Magnitude
  <2> QED BY <2>2, <2>3
<1>6. lap \in Nat /\ Cardinality(Mobile) * lap <= delta
  <2> DEFINE m == Cardinality(Mobile)
  <2>1. m \in Nat /\ m > 0 /\ lap = delta \div m
    BY <1>4, <1>5
  <2> HIDE DEF m
  <2>2. delta \div m \in Nat /\ m * (delta \div m) <= delta
    BY <1>3, <2>1
  <2> QED BY <2>1, <2>2 DEF m
<1>7. \A t \in DeckThreats : Room(t) = Cap(t) - walked[t]
  BY <1>5 DEF Room
<1> HIDE DEF lap
<1>8. ASSUME NEW t \in DeckThreats
      PROVE  /\ Applied(t) \in Int /\ 0 <= Applied(t) /\ Applied(t) <= Cap(t) - walked[t]
             /\ Applied(t) <= IF t \in Mobile THEN lap ELSE 0
  <2>1. Cap(t) \in Nat /\ walked[t] \in Int /\ walked[t] <= Cap(t) /\ Room(t) = Cap(t) - walked[t]
    BY <1>1, <1>3, <1>7
  <2>2. CASE t \in Mobile
    <3>1. Min({lap, Room(t)}) = IF lap <= Room(t) THEN lap ELSE Room(t)
      BY <1>6, <2>1, MinMaxOfTwo
    <3>2. Applied(t) = IF lap <= Room(t) THEN lap ELSE Room(t)
      BY <2>2, <3>1
    <3> HIDE DEF Applied
    <3> QED BY <1>6, <2>1, <2>2, <3>2
  <2>3. CASE t \notin Mobile
    BY <2>1, <2>3
  <2> QED BY <2>2, <2>3
<1>9. applied \in [DeckThreats -> Int] /\ \A t \in DeckThreats : applied[t] = Applied(t)
  BY <1>8
<1>10. Total(applied) <= delta
  <2> DEFINE shares == [t \in DeckThreats |-> IF t \in Mobile THEN lap ELSE 0]
  <2>1. shares \in [DeckThreats -> Int] /\ \A t \in DeckThreats : shares[t] = IF t \in Mobile THEN lap ELSE 0
    BY <1>6
  <2>2. \A t \in DeckThreats : applied[t] <= shares[t]
    BY <1>8, <1>9, <2>1
  <2> HIDE DEF shares, applied, Applied
  <2>3. Total(shares) = Cardinality(Mobile) * lap
    BY <1>1, <1>4, <1>6, <2>1, TotalOfShares
  <2>4. Total(applied) <= Total(shares)
    BY <1>1, <1>9, <2>1, <2>2, TotalAtMost
  <2>5. Total(applied) \in Int
    BY <1>1, <1>9, TotalType
  <2> DEFINE c == Cardinality(Mobile) * lap
  <2>6. c \in Int /\ c <= delta /\ Total(applied) <= c
    BY <1>4, <1>6, <2>3, <2>4
  <2> HIDE DEF c
  <2> QED BY <1>3, <2>5, <2>6
<1>11. walked' = [t \in DeckThreats |-> walked[t] + applied[t]] /\ delta' = delta - Total(applied)
  BY <1>2, <1>5, <1>9 DEF Signed
<1>12. \A t \in DeckThreats : 0 <= applied[t] /\ applied[t] <= Cap(t) - walked[t]
  BY <1>8, <1>9
<1> HIDE DEF applied, Applied
<1> QED BY <1>2, <1>9, <1>10, <1>11, <1>12, LapAddsUp

(* The last points go to as many entries, one each.                        *)
LEMMA PartialLapKeeps ==
  ASSUME DeckInv, PartialLap
  PROVE  DeckInv'
<1> DEFINE Turn(t) == Cardinality({u \in Mobile : WalkedBefore(u, t)})
           Applied(t) == IF t \in Mobile /\ Turn(t) < Magnitude THEN 1 ELSE 0
           applied == [t \in DeckThreats |-> Applied(t)]
           before == {pair \in Mobile \X Mobile : WalkedBefore(pair[1], pair[2])}
           front == Foremost(before, Mobile, delta)
<1>1. IsFiniteSet(DeckThreats) /\ \A t \in DeckThreats : Cap(t) \in Nat
  BY DeckSums DEF DeckInv
<1>2. /\ stage = "walking" /\ delta # 0 /\ Magnitude < Cardinality(Mobile)
      /\ walked' = [t \in DeckThreats |-> walked[t] + Signed(Applied(t))]
      /\ delta' = 0
      /\ UNCHANGED <<draftAsk, left, banked, taken, stage>>
  BY DEF PartialLap
<1>3. /\ delta \in Nat /\ walked \in [DeckThreats -> Int]
      /\ \A t \in DeckThreats : walked[t] <= Cap(t)
  BY <1>2 DEF DeckInv, WalkAddsUp
<1>4. Growing /\ Magnitude = delta
  BY <1>2, <1>3 DEF Growing, Magnitude
<1>5. Mobile \in SUBSET DeckThreats /\ IsFiniteSet(Mobile) /\ Cardinality(Mobile) \in Nat
  <2>1. Mobile \in SUBSET DeckThreats
    BY DEF Mobile
  <2> QED BY <1>1, <2>1, PartSizes
<1>6. Ordered(before, Mobile)
  <2>1. \A a, b \in Mobile : <<a, b>> \in before <=> WalkedBefore(a, b)
    OBVIOUS
  <2>2. \A a \in Mobile : a \in Nat /\ taken[a].weight \in Nat
    BY <1>5, DraftAssumption DEF DeckInv, PicksAddUp, SoundPick
  <2> HIDE DEF before
  <2>3. \A a \in Mobile : <<a, a>> \notin before
    BY <2>1, <2>2 DEF WalkedBefore
  <2>4. \A a, b, c \in Mobile : <<a, b>> \in before /\ <<b, c>> \in before => <<a, c>> \in before
    <3> SUFFICES ASSUME NEW a \in Mobile, NEW b \in Mobile, NEW c \in Mobile,
                        WalkedBefore(a, b), WalkedBefore(b, c)
                 PROVE  WalkedBefore(a, c)
      BY <2>1
    <3>1. /\ a \in Nat /\ b \in Nat /\ c \in Nat
          /\ taken[a].weight \in Nat /\ taken[b].weight \in Nat /\ taken[c].weight \in Nat
      BY <2>2
    <3> QED BY <3>1 DEF WalkedBefore
  <2>5. \A a, b \in Mobile : a = b \/ <<a, b>> \in before \/ <<b, a>> \in before
    <3> SUFFICES ASSUME NEW a \in Mobile, NEW b \in Mobile
                 PROVE  a = b \/ WalkedBefore(a, b) \/ WalkedBefore(b, a)
      BY <2>1
    <3>1. a \in Nat /\ b \in Nat /\ taken[a].weight \in Nat /\ taken[b].weight \in Nat
      BY <2>2
    <3> QED BY <3>1 DEF WalkedBefore
  <2> QED BY <2>3, <2>4, <2>5 DEF Ordered
<1>7. \A t \in Mobile : Turns(before, Mobile, t) = Turn(t)
  <2> TAKE t \in Mobile
  <2>1. AheadOf(before, Mobile, t) = {u \in Mobile : WalkedBefore(u, t)}
    BY DEF AheadOf
  <2> QED BY <2>1 DEF Turns
<1>8. front \in SUBSET DeckThreats /\ Cardinality(front) = delta
      /\ \A t \in DeckThreats : Applied(t) = IF t \in front THEN 1 ELSE 0
  <2>1. \A t \in DeckThreats : t \in front <=> t \in Mobile /\ Turn(t) < delta
    <3> HIDE DEF before, Turn
    <3> QED BY <1>5, <1>7 DEF Foremost
  <2>2. Cardinality(front) = delta
    <3> HIDE DEF before
    <3> QED BY <1>2, <1>3, <1>4, <1>5, <1>6, ForemostCount
  <2>3. front \in SUBSET DeckThreats
    BY <1>5 DEF Foremost
  <2> HIDE DEF front, Turn
  <2> QED BY <1>4, <2>1, <2>2, <2>3
<1> HIDE DEF before, front
<1>9. applied \in [DeckThreats -> Int] /\ \A t \in DeckThreats : applied[t] = IF t \in front THEN 1 ELSE 0
  BY <1>8
<1>10. Total(applied) = delta
  <2> HIDE DEF applied, Applied
  <2>1. Total(applied) = Cardinality(front) * 1
    BY <1>1, <1>8, <1>9, TotalOfShares
  <2> QED BY <1>3, <1>8, <2>1
<1>11. walked' = [t \in DeckThreats |-> walked[t] + applied[t]] /\ delta' = delta - Total(applied)
  <2>1. walked' = [t \in DeckThreats |-> walked[t] + applied[t]]
    BY <1>2, <1>4 DEF Signed
  <2>2. delta' = delta - delta
    BY <1>2, <1>3
  <2> QED BY <1>10, <2>1, <2>2
<1>12. \A t \in DeckThreats : 0 <= applied[t] /\ applied[t] <= Cap(t) - walked[t]
  <2> TAKE t \in DeckThreats
  <2>1. Cap(t) \in Nat /\ walked[t] \in Int /\ walked[t] <= Cap(t)
    BY <1>1, <1>3
  <2>2. t \in Mobile => Cap(t) - walked[t] > 0
    BY <1>4 DEF Mobile, Room
  <2>3. applied[t] = 0 \/ (applied[t] = 1 /\ t \in Mobile)
    OBVIOUS
  <2> HIDE DEF applied, Applied
  <2> QED BY <2>1, <2>2, <2>3
<1> HIDE DEF applied, Applied
<1>13. Total(applied) <= delta
  BY <1>3, <1>10
<1> QED BY <1>2, <1>9, <1>11, <1>12, <1>13, LapAddsUp

(* "Any sequence of picks produces a budget-clean deck" (draft.ts, head):  *)
(* whatever is taken, the walk only adds, always finds room, and ends on a *)
(* deck that costs the budget to the point.                                *)
THEOREM EveryDraftIsBudgetCleanAlways == DraftSpec => []EveryDraftIsBudgetClean
<1>1. DraftInit => DeckInv
  <2> SUFFICES ASSUME DraftInit PROVE DeckInv
    OBVIOUS
  <2>1. DraftIInv /\ draftAsk.budget \in Nat /\ draftAsk.budget > 0
    BY DraftAssumption DEF DraftInit, DraftIInv, BankIsSound
  <2>2. DeckThreats = {}
    BY DEF DraftInit, NoThreat, DeckThreats
  <2>3. Weights \in [{} -> Int] /\ Costs \in [{} -> Int]
    BY <2>2 DEF Weights, Costs
  <2>4. Total(Weights) = 0 /\ Total(Costs) = 0
    BY <2>3, FS_EmptySet, TotalType
  <2>5. PicksAddUp
    BY <2>1, <2>2, <2>4 DEF DraftInit, PicksAddUp
  <2>6. WalkAddsUp
    BY <2>1 DEF DraftInit, WalkAddsUp
  <2> QED BY <2>1, <2>5, <2>6 DEF DeckInv
<1>2. DeckInv /\ [DraftNext]_draftVars => DeckInv'
  <2> SUFFICES ASSUME DeckInv, [DraftNext]_draftVars PROVE DeckInv'
    OBVIOUS
  <2>1. ASSUME NEW threat \in Threat, NEW multiplier \in Multiplier \cup {10}, Take(threat, multiplier)
        PROVE  DeckInv'
    <3>1. DraftIInv'
      BY <2>1, TakeKeepsBank DEF DeckInv
    <3> QED BY <2>1, <3>1, TakeAddsUp DEF DeckInv
  <2>2. CASE BulkLap
    BY <2>2, BulkLapKeeps
  <2>3. CASE PartialLap
    BY <2>3, PartialLapKeeps
  <2>4. ASSUME UNCHANGED <<draftAsk, left, banked, taken, walked, delta>>,
               stage' = stage \/ (stage = "walking" /\ delta = 0 /\ stage' = "deck")
        PROVE  DeckInv'
    <3>1. DraftIInv' /\ PicksAddUp'
      BY <2>4 DEF DeckInv, DraftIInv, BankIsSound, PicksAddUp, SoundPick, Weights, Costs, DeckThreats
    <3>2. WalkAddsUp'
      BY <2>4 DEF DeckInv, WalkAddsUp, Cap, DeckThreats
    <3> QED BY <3>1, <3>2 DEF DeckInv
  <2> QED BY <2>1, <2>2, <2>3, <2>4 DEF DraftNext, Commit, draftVars
<1>3. DeckInv => EveryDraftIsBudgetClean
  <2> SUFFICES ASSUME DeckInv PROVE EveryDraftIsBudgetClean
    OBVIOUS
  <2>1. BankIsSound /\ delta >= 0
    BY DEF DeckInv, DraftIInv, WalkAddsUp
  <2>2. ~Unfeasible
    BY RoomIsLeft DEF Unfeasible
  <2>3. ASSUME stage = "deck"
        PROVE  /\ Total(walked) = draftAsk.budget
               /\ Total(Weights) = draftAsk.budget
               /\ \A t \in DeckThreats : walked[t] \in Floor(t)..Cap(t)
    <3>1. draftAsk.budget \in Nat
      BY DraftAssumption DEF DeckInv, DraftIInv
    <3>2. Total(walked) = draftAsk.budget /\ Total(Weights) = draftAsk.budget
      BY <2>3, <3>1 DEF DeckInv, WalkAddsUp, PicksAddUp
    <3>3. ASSUME NEW t \in DeckThreats PROVE walked[t] \in Floor(t)..Cap(t)
      <4>1. /\ taken[t].weight \in Nat /\ taken[t].cost \in Nat /\ taken[t].cost > 0
            /\ 5 * taken[t].cost >= 4 * taken[t].weight
            /\ walked[t] \in Int /\ taken[t].cost <= walked[t] /\ walked[t] <= Cap(t) /\ Cap(t) \in Nat
        BY <2>3, DeckSums DEF DeckInv, WalkAddsUp, PicksAddUp, SoundPick
      <4>2. taken[t].weight \div 2 \in Nat /\ taken[t].weight \div 2 <= taken[t].cost
        BY <4>1
      <4>3. Floor(t) \in Nat /\ Floor(t) <= taken[t].cost
        <5> DEFINE half == taken[t].weight \div 2
        <5>1. half \in Int /\ 1 \in Int /\ Floor(t) = Max({1, half})
          BY <4>2 DEF Floor
        <5>2. half \in Nat /\ half <= taken[t].cost
          BY <4>2
        <5> HIDE DEF half
        <5>3. Floor(t) = IF 1 >= half THEN 1 ELSE half
          BY <5>1, MinMaxOfTwo
        <5> QED BY <4>1, <5>2, <5>3
      <4> QED BY <4>1, <4>3
    <3> QED BY <3>2, <3>3
  <2> QED BY <2>1, <2>2, <2>3 DEF EveryDraftIsBudgetClean, Weights
<1> QED BY <1>1, <1>2, <1>3, PTL DEF DraftSpec

(***************************************************************************)
(* The runner of a duel.  While the memo is on, the snapshot of every tick *)
(* up to the cursor is the state a fresh run of the watermark reaches      *)
(* (Memo).  A request is served from it only if its log and the watermark  *)
(* fire the same on every tick up to the one asked for, which is what the  *)
(* three law checks decide (SameTicks).                                    *)
(***************************************************************************)
Memo == memoOn => \A t \in 0..cursor : snapshots[t] = Naive(t, watermark)

RunnerIInv == RunnerTypeOK /\ Memo /\ MemoAnswersNaive

(* Two logs that agree where both have an entry, and where the one longer  *)
(* has none stamped at tick t, fire the same intents on tick t.            *)
LEMMA SameTicks ==
  ASSUME NEW short \in Logs, NEW long \in Logs, NEW t \in Nat,
         Len(short) <= Len(long),
         \A i \in DOMAIN short \cap DOMAIN long : short[i] = long[i],
         \A i \in DOMAIN long \ DOMAIN short : TickOf[long[i]] # t
  PROVE  Fired(short, t) = Fired(long, t)
<1> DEFINE In(log) == {j \in DOMAIN log : TickOf[log[j]] = t}
<1>1. DOMAIN short \subseteq DOMAIN long
  BY DEF Logs
<1>2. In(short) = In(long)
  BY <1>1
<1>3. \A i \in In(short) : short[i] = long[i]
  BY <1>1
<1>4. QED  BY <1>2, <1>3 DEF Fired

(* An engine whose snapshots are those of a log, and that advances with a  *)
(* queue that fires the same up to where it is, has the snapshots of the   *)
(* queue.                                                                  *)
LEMMA AdvancedIsNaive ==
  ASSUME NEW captured, NEW from \in Nat, NEW to \in Nat, NEW queue,
         from <= to,
         \A t \in 0..from : captured[t] = Naive(t, queue)
  PROVE  \A t \in 0..to : Advanced(captured, from, to, queue)[t] = Naive(t, queue)
<1> SUFFICES ASSUME NEW t \in 0..to
             PROVE  Advanced(captured, from, to, queue)[t] = Naive(t, queue)
  OBVIOUS
<1>1. CASE t <= from
  BY <1>1 DEF Advanced
<1>2. CASE ~(t <= from)
  <2>1. captured[from] = Naive(from, queue)
    OBVIOUS
  <2>2. \A u \in 1..t : u <= from => captured[from][u] = Fired(queue, u)
    BY <2>1 DEF Naive
  <2>3. Advanced(captured, from, to, queue)[t]
          = [u \in 1..t |-> IF u <= from THEN captured[from][u] ELSE Fired(queue, u)]
    BY <1>2 DEF Advanced
  <2>4. QED  BY <2>2, <2>3 DEF Naive
<1>3. QED  BY <1>1, <1>2

(* Naive states of two logs that fire the same up to a tick are the same.  *)
LEMMA NaiveAgrees ==
  ASSUME NEW tick \in Nat, NEW one, NEW other,
         \A t \in 1..tick : Fired(one, t) = Fired(other, t)
  PROVE  Naive(tick, one) = Naive(tick, other)
BY DEF Naive

(* The invariant of the runner holds at the start.                         *)
LEMMA RunnerInitHolds == RunnerInit => RunnerIInv
<1> SUFFICES ASSUME RunnerInit PROVE RunnerIInv
  OBVIOUS
<1>1. <<>> \in Logs
  BY DEF Logs
<1>2. RunnerTypeOK
  BY <1>1 DEF RunnerInit, RunnerTypeOK
<1>3. Memo /\ MemoAnswersNaive
  BY DEF RunnerInit, Memo, MemoAnswersNaive
<1>4. QED  BY <1>2, <1>3 DEF RunnerIInv

(* What Serve keeps, from an engine that is right about the longer log up  *)
(* to `from`, when both logs fire the same up to the tick asked for.       *)
LEMMA ServeKeepsInvariant ==
  ASSUME RunnerTypeOK, memoOn,
         NEW request, request.tick \in Nat, request.log \in Logs,
         NEW captured, NEW from \in Nat, 0..from \subseteq DOMAIN captured,
         Serve(request, captured, from),
         \A t \in 0..from : captured[t] =
            Naive(t, Longer(request.log)),
         \A t \in 1..request.tick : Fired(request.log, t) =
            Fired(Longer(request.log), t)
  PROVE  RunnerIInv'
<1> DEFINE queue == Longer(request.log)
           to == Furthest(from, request.tick)
           now == Advanced(captured, from, to, queue)
<1>1. /\ to \in Nat /\ from <= to /\ request.tick \in 0..to
      /\ queue \in Logs
  BY DEF Furthest, Longer, RunnerTypeOK
<1>2. /\ watermark' = queue /\ cursor' = to /\ snapshots' = now /\ memoOn' = memoOn
      /\ answer' = [tick |-> request.tick, log |-> request.log, state |-> now[request.tick]]
  BY DEF Serve, Answer
<1> HIDE DEF to
<1>3. \A t \in 0..to : now[t] = Naive(t, queue)
  <2> HIDE DEF queue
  <2>1. \A t \in 0..from : captured[t] = Naive(t, queue)
    BY DEF queue
  <2>2. QED  BY <1>1, <2>1, AdvancedIsNaive
<1>4. 0..to \subseteq DOMAIN now
  BY DEF Advanced
<1> HIDE DEF now
<1>5. RunnerTypeOK'
  BY <1>1, <1>2, <1>4 DEF RunnerTypeOK
<1>6. Memo'
  BY <1>2, <1>3 DEF Memo
<1>7. MemoAnswersNaive'
  <2>1. Naive(request.tick, request.log) = Naive(request.tick, queue)
    BY NaiveAgrees
  <2>2. QED  BY <1>1, <1>2, <1>3, <2>1 DEF MemoAnswersNaive
<1>8. QED  BY <1>5, <1>6, <1>7 DEF RunnerIInv

(* A request the memo can answer keeps the invariant of the runner.        *)
LEMMA ProbeKeepsInvariant ==
  ASSUME RunnerIInv, NEW request \in Requests, Probe(request)
  PROVE  RunnerIInv'
<1> DEFINE log == request.log
           queue == Longer(log)
<1>1. /\ RunnerTypeOK /\ memoOn /\ Memo
      /\ request.tick \in Nat /\ log \in Logs
      /\ OneLog(log) /\ ~LateReveal(log) /\ ~RivalPrefix(request)
      /\ Serve(request, snapshots, cursor)
      /\ watermark \in Logs /\ cursor \in Nat
  BY RunnerAssumption DEF RunnerIInv, Probe, RunnerTypeOK
<1>2. \A s \in Logs : /\ Len(s) \in Nat /\ DOMAIN s = 1..Len(s)
                      /\ \A i \in DOMAIN s : TickOf[s[i]] \in Nat
  BY RunnerAssumption DEF Logs
<1>3. \A t \in 0..cursor : snapshots[t] = Naive(t, queue)
  <2>1. CASE Len(log) > Len(watermark)
    <3>1. \A i \in DOMAIN log \ DOMAIN watermark : TickOf[log[i]] > cursor
      BY <1>1, <1>2 DEF LateReveal
    <3>2. \A i \in DOMAIN watermark \cap DOMAIN log : watermark[i] = log[i]
      BY <1>1 DEF OneLog
    <3>3. \A t \in 0..cursor : Fired(watermark, t) = Fired(log, t)
      <4> TAKE t \in 0..cursor
      <4>1. \A i \in DOMAIN log \ DOMAIN watermark : TickOf[log[i]] # t
        BY <1>1, <1>2, <3>1
      <4>2. QED  BY <1>1, <1>2, <2>1, <3>2, <4>1, SameTicks
    <3>4. \A t \in 0..cursor : Naive(t, watermark) = Naive(t, log)
      BY <1>1, <3>3 DEF Naive
    <3>5. QED  BY <1>1, <2>1, <3>4 DEF Memo, Longer
  <2>2. CASE ~(Len(log) > Len(watermark))
    BY <1>1, <2>2 DEF Memo, Longer
  <2>3. QED  BY <2>1, <2>2
<1>4. \A t \in 1..request.tick : Fired(log, t) = Fired(queue, t)
  <2>1. CASE Len(log) > Len(watermark)
    BY <2>1 DEF Longer
  <2>2. CASE ~(Len(log) > Len(watermark))
    <3>1. \A i \in DOMAIN watermark \ DOMAIN log : TickOf[watermark[i]] > request.tick
      BY <1>1, <1>2 DEF RivalPrefix
    <3>2. \A i \in DOMAIN log \cap DOMAIN watermark : log[i] = watermark[i]
      BY <1>1 DEF OneLog
    <3>3. \A t \in 1..request.tick : Fired(log, t) = Fired(watermark, t)
      <4> TAKE t \in 1..request.tick
      <4>1. \A i \in DOMAIN watermark \ DOMAIN log : TickOf[watermark[i]] # t
        BY <1>1, <1>2, <3>1
      <4>2. Len(log) <= Len(watermark) /\ t \in Nat
        BY <1>1, <1>2, <2>2
      <4>3. QED  BY <1>1, <3>2, <4>1, <4>2, SameTicks
    <3>4. QED  BY <2>2, <3>3 DEF Longer
  <2>3. QED  BY <2>1, <2>2
<1>5. 0..cursor \subseteq DOMAIN snapshots
  BY <1>1 DEF RunnerTypeOK
<1>6. QED  BY <1>1, <1>3, <1>4, <1>5, ServeKeepsInvariant

(* A request that makes the runner start over keeps it as well.            *)
LEMMA RebuildKeepsInvariant ==
  ASSUME RunnerIInv, NEW request \in Requests, Rebuild(request)
  PROVE  RunnerIInv'
<1> DEFINE log == request.log
           start == [t \in {0} |-> Naive(0, <<>>)]
<1>1. /\ RunnerTypeOK /\ memoOn
      /\ request.tick \in Nat /\ log \in Logs /\ watermark \in Logs
      /\ LateReveal(log)
      /\ Serve(request, start, 0)
  BY RunnerAssumption DEF RunnerIInv, Rebuild, RunnerTypeOK
<1>2. Len(log) > Len(watermark)
  <2>1. PICK i \in DOMAIN log \ DOMAIN watermark : TRUE
    BY <1>1 DEF LateReveal
  <2>2. /\ Len(log) \in Nat /\ DOMAIN log = 1..Len(log)
        /\ Len(watermark) \in Nat /\ DOMAIN watermark = 1..Len(watermark)
    BY <1>1 DEF Logs
  <2>3. QED  BY <2>1, <2>2
<1>3. \A t \in 0..0 : start[t] = Naive(t, log)
  BY DEF Naive
<1>4. 0..0 \subseteq DOMAIN start
  OBVIOUS
<1> HIDE DEF start
<1>5. Longer(log) = log
  BY <1>2 DEF Longer
<1>6. QED  BY <1>1, <1>3, <1>4, <1>5, ServeKeepsInvariant

(* Whatever was asked before, with whatever logs, a request is answered    *)
(* with the state a fresh run of its own log reaches.                      *)
THEOREM RunnerAnswersNaive == RunnerSpec => []MemoAnswersNaive
<1>1. RunnerInit => RunnerIInv
  BY RunnerInitHolds
<1>2. RunnerIInv /\ [RunnerNext]_runnerVars => RunnerIInv'
  <2> SUFFICES ASSUME RunnerIInv, [RunnerNext]_runnerVars PROVE RunnerIInv'
    OBVIOUS
  <2>1. ASSUME NEW request \in Requests, Probe(request) PROVE RunnerIInv'
    BY <2>1, ProbeKeepsInvariant
  <2>2. ASSUME NEW request \in Requests, Rebuild(request) PROVE RunnerIInv'
    BY <2>2, RebuildKeepsInvariant
  <2>3. ASSUME NEW request \in Requests, Degrade(request) PROVE RunnerIInv'
    BY <2>3 DEF RunnerIInv, RunnerTypeOK, Memo, MemoAnswersNaive, Degrade, Answer
  <2>4. ASSUME NEW request \in Requests, AskNaive(request) PROVE RunnerIInv'
    BY <2>4 DEF RunnerIInv, RunnerTypeOK, Memo, MemoAnswersNaive, AskNaive, Answer
  <2>5. CASE UNCHANGED runnerVars
    BY <2>5 DEF RunnerIInv, RunnerTypeOK, Memo, MemoAnswersNaive, runnerVars
  <2>6. QED  BY <2>1, <2>2, <2>3, <2>4, <2>5 DEF RunnerNext
<1>3. RunnerIInv => MemoAnswersNaive
  BY DEF RunnerIInv
<1>4. QED  BY <1>1, <1>2, <1>3, PTL DEF RunnerSpec
=============================================================================
