----------------------------- MODULE PolicyBook -----------------------------
(***************************************************************************)
(* The policy book and its interpreter: packages/sim-core/src/policy,      *)
(* store.ts and evaluator.ts.  The host runs the rule phase once a tick,   *)
(* slot 12.5 of the pipeline, on the observed cells of that tick; between  *)
(* two ticks the player edits the book, freezes it, suspends rules,        *)
(* switches to a dry run and answers consultations.                        *)
(*                                                                         *)
(* One metric is observed.  A cell without a readable value (missing,      *)
(* null or of unknown status) is not in the view.  A clause of a card is a *)
(* set of tests on the metric.  Targets, actions, money and the journal    *)
(* of firings are left out.                                                *)
(***************************************************************************)
EXTENDS Integers, SequencesExt, FiniteSetsExt, Selections

CONSTANTS Rule,        \* ids of rules
          Entity,      \* ids of entities, numbers in codepoint order
          Level,       \* values of the metric
          Cards,       \* per rule, the cards a player may save under its id
          Priced,      \* rules whose actions the player may not afford
          StartBook,   \* the book a save is loaded with
          ConsultTTL,  \* consultExpiryUs, in minutes
          MaxMinutes,  \* bound: minutes of a behaviour
          MaxEdits     \* bound: changes to the book and its switches

Test == {"above", "advanced", "changed"}
Band == {"inform", "consult", "execute"}

(* What ELSE does when the guard holds; "block" is a card without one.     *)
OnGuard == Band \cup {"block", "page"}

Card == [when : (SUBSET Test) \ {{}}, unless : SUBSET Test, window : Nat,
         band : Band, onGuard : OnGuard]

ASSUME PolicyAssumption ==
  /\ Entity \subseteq Nat
  /\ Level \subseteq Nat
  /\ Cards \in [Rule -> SUBSET Card]
  /\ Priced \subseteq Rule
  /\ StartBook \in Seq(Rule) /\ IsInjective(StartBook)
  /\ {ConsultTTL, MaxMinutes, MaxEdits} \subseteq Nat

VARIABLES policyMinute,  \* simUs of the last rule phase
          edits,         \* changes the player made to the store
          book,          \* rule ids in canonical order
          card,          \* per rule in the book, its live card
          suspended, frozen, shadow,
          sustained,     \* per debounced rule, since when its WHEN holds
          latched,       \* rules that have been adjudicated for this assertion
          snapshot,      \* per rule, the values it last saw, by entity
          pending,       \* consultations that wait for the player
          deferred,      \* verdicts given while frozen
          \* What happened, for the properties below.
          raised,        \* consultations raised so far
          verdict,       \* what the player answered
          ends,          \* how consultations ended
          calm,          \* per rule, the last run that found its WHEN false
          decided        \* per rule, the last run that decided it

storeVars == <<edits, book, card, suspended, frozen, shadow>>
runtimeVars == <<sustained, latched, snapshot, pending, deferred>>
storyVars == <<raised, verdict, ends, calm, decided>>
phaseVars == <<policyMinute, runtimeVars, storyVars>>
policyVars == <<storeVars, phaseVars>>

Nothing == [x \in {} |-> x]
InBook == ToSet(book)
StartCards ==
  {cards \in [ToSet(StartBook) -> UNION {Cards[r] : r \in Rule}] :
     \A r \in ToSet(StartBook) : cards[r] \in Cards[r]}

PolicyInit ==
  /\ policyMinute = 0 /\ edits = 0
  /\ book = StartBook
  /\ card \in StartCards
  /\ suspended = {} /\ frozen = FALSE /\ shadow = FALSE
  /\ sustained = Nothing /\ latched = {}
  /\ snapshot = [r \in Rule |-> Nothing]
  /\ pending = <<>> /\ deferred = <<>>
  /\ raised = {} /\ verdict = Nothing /\ ends = {}
  /\ calm = [r \in Rule |-> 0] /\ decided = [r \in Rule |-> 0]

-----------------------------------------------------------------------------
(* Clauses.  A view maps the entities with a readable cell to its value.   *)

Passes(test, r, view, e) ==
  IF test = "above" THEN view[e] > 0
  ELSE /\ e \in DOMAIN snapshot[r]
       /\ test = "advanced" => view[e] > snapshot[r][e]
       /\ test = "changed" => view[e] # snapshot[r][e]

Hits(test, r, view) == {e \in DOMAIN view : Passes(test, r, view, e)}

(* A test stops at the first entity that passes: the ones behind it keep   *)
(* the snapshot they have.                                                 *)
Visited(test, r, view) ==
  {e \in DOMAIN view : \A hit \in Hits(test, r, view) : e <= hit}

(* No test of a clause is cut short by another that fails.                 *)
Holds(clause, r, view) == \A test \in clause : Hits(test, r, view) # {}

Seen(clause, r, view) == UNION {Visited(test, r, view) : test \in clause}

-----------------------------------------------------------------------------
(* The rule phase of minute `at` on a view.                                *)

Evaluated == InBook \ suspended

Asserted(r, view) == Holds(card[r].when, r, view)

(* The window of FOR is over; a rule that starts it waits.                 *)
Sustained(r, at) ==
  \/ card[r].window = 0
  \/ r \in DOMAIN sustained /\ at - sustained[r] >= card[r].window

(* Rules of this run that come to a decision, if they can afford it.       *)
Adjudicated(view, at) ==
  {r \in Evaluated \ latched : Asserted(r, view) /\ Sustained(r, at)}

Guarded(r, view) == card[r].unless # {} /\ Holds(card[r].unless, r, view)

(* Where an adjudication leads; "infeasible" is tried again next minute.   *)
Ruling(r, view, feasible) ==
  IF Guarded(r, view) THEN card[r].onGuard
  ELSE IF r \in feasible THEN card[r].band ELSE "infeasible"

Decided(view, at, feasible) ==
  {r \in Adjudicated(view, at) : Ruling(r, view, feasible) # "infeasible"}

(* In the order of the book.                                               *)
Consulting(view, at, feasible) ==
  Selected(book, {r \in Decided(view, at, feasible) : Ruling(r, view, feasible) = "consult"})

ConsultOf(r, at) ==
  [rule |-> r, raisedAt |-> at, expiresAt |-> at + ConsultTTL]
Named(consult) == [rule |-> consult.rule, raisedAt |-> consult.raisedAt]
End(consult, how, at) == [consult |-> Named(consult), how |-> how, at |-> at]

Starting(view) ==
  {r \in Evaluated \ latched : Asserted(r, view) /\ card[r].window # 0}

Since(rules, at) ==
  [r \in rules |-> IF r \in DOMAIN sustained THEN sustained[r] ELSE at]

(* Faulty variant: a rule forgets nothing while its WHEN is false.         *)
SustainAlways(view, at) == Since(DOMAIN sustained \cup Starting(view), at)

SustainedNow(view, at) ==
  LET Stays == {r \in DOMAIN sustained : r \in Evaluated => Asserted(r, view)}
  IN  Since(Stays \cup Starting(view), at)

(* WHEN and UNLESS read the snapshots of the previous run, and what they   *)
(* saw replaces them after both.                                           *)
SnapshotNow(r, view, at) ==
  LET asked == IF r \in Adjudicated(view, at)
                 THEN card[r].when \cup card[r].unless
               ELSE IF r \in Evaluated THEN card[r].when ELSE {}
      seen == Seen(asked, r, view)
  IN  [e \in seen \cup DOMAIN snapshot[r] |->
         IF e \in seen THEN view[e] ELSE snapshot[r][e]]

Expired(at) == {i \in DOMAIN pending : pending[i].expiresAt <= at}

Still(at) == Selected(pending, {consult \in ToSet(pending) : consult.expiresAt > at})

Raising(view, at, feasible) ==
  LET asking == Consulting(view, at, feasible)
  IN  [i \in DOMAIN asking |-> ConsultOf(asking[i], at)]

How(approve) == IF approve THEN "dispatched" ELSE "denied"

Expiries(at) == {End(pending[i], "expired", at) : i \in Expired(at)}
Verdicts(at) == {End(d, How(d.approve), at) : d \in ToSet(deferred)}

(* Faulty variant: a dry run takes the verdicts and sends nothing out.     *)
DryRunTakesVerdicts(at) ==
  /\ deferred' = <<>>
  /\ ends' = ends \cup Expiries(at) \cup (IF shadow THEN {} ELSE Verdicts(at))

(* expireConsults and dispatchDeferred: a dry run expires consultations    *)
(* too, and leaves the player's verdicts alone.                            *)
SettleConsults(at) ==
  /\ deferred' = IF shadow THEN deferred ELSE <<>>
  /\ ends' = ends \cup Expiries(at) \cup (IF shadow THEN {} ELSE Verdicts(at))

(* A run of the kill switch changes nothing at all.                        *)
FrozenRun ==
  /\ frozen /\ policyMinute < MaxMinutes  \* bound
  /\ policyMinute' = policyMinute + 1
  /\ UNCHANGED <<storeVars, runtimeVars, storyVars>>

RulePhase(view, feasible) ==
  LET at == policyMinute + 1
      raising == IF shadow THEN <<>> ELSE Raising(view, at, feasible)
      false == {r \in Evaluated : ~Asserted(r, view)}
  IN  /\ ~frozen /\ policyMinute < MaxMinutes  \* bound
      /\ policyMinute' = at
      /\ SettleConsults(at)
      /\ sustained' = SustainedNow(view, at)
      /\ latched' = (latched \ false) \cup Decided(view, at, feasible)
      /\ snapshot' = [r \in Rule |-> SnapshotNow(r, view, at)]
      /\ pending' = Still(at) \o raising
      /\ raised' = raised \cup {Named(c) : c \in ToSet(raising)}
      /\ calm' = [r \in Rule |-> IF r \in false THEN at ELSE calm[r]]
      /\ decided' = [r \in Rule |->
                       IF r \in Decided(view, at, feasible) THEN at
                       ELSE decided[r]]
      /\ UNCHANGED <<storeVars, verdict>>

-----------------------------------------------------------------------------
(* What the player does between two runs.                                  *)

Edit == edits < MaxEdits /\ edits' = edits + 1  \* bound

(* resolveConsultation: frozen, the verdict is kept; otherwise it takes    *)
(* effect at once, in a dry run as well.                                   *)
Resolve(i, approve) ==
  /\ pending' = RemoveAt(pending, i)
  /\ verdict' = [c \in DOMAIN verdict \cup {Named(pending[i])} |->
                   IF c = Named(pending[i]) THEN approve ELSE verdict[c]]
  /\ IF frozen
       THEN /\ deferred' = Append(deferred, [rule |-> pending[i].rule,
                                             raisedAt |-> pending[i].raisedAt,
                                             approve |-> approve])
            /\ ends' = ends
       ELSE /\ deferred' = deferred
            /\ ends' = ends \cup {End(pending[i], How(approve), policyMinute)}
  /\ UNCHANGED <<policyMinute, storeVars, sustained, latched, snapshot>>
  /\ UNCHANGED <<raised, calm, decided>>

Insert(r, saved, position) ==
  /\ Edit
  /\ r \notin InBook
  /\ book' = InsertAt(book, position, r)
  /\ card' = [s \in InBook \cup {r} |-> IF s = r THEN saved ELSE card[s]]
  /\ UNCHANGED <<suspended, frozen, shadow, phaseVars>>

(* The new version inherits the place, the suspension and, by its id, all  *)
(* the runtime state of the old one.                                       *)
Revise(r, saved) ==
  /\ Edit
  /\ r \in InBook /\ saved # card[r]
  /\ card' = [card EXCEPT ![r] = saved]
  /\ UNCHANGED <<book, suspended, frozen, shadow, phaseVars>>

Move(from, to) ==
  /\ Edit
  /\ from # to
  /\ book' = InsertAt(RemoveAt(book, from), to, book[from])
  /\ UNCHANGED <<card, suspended, frozen, shadow, phaseVars>>

SetSuspended(r) ==
  /\ Edit
  /\ r \in InBook
  /\ suspended' = SymDiff(suspended, {r})
  /\ UNCHANGED <<book, card, frozen, shadow, phaseVars>>

SetFrozen ==
  /\ Edit
  /\ frozen' = ~frozen
  /\ UNCHANGED <<book, card, suspended, shadow, phaseVars>>

SetShadow ==
  /\ Edit
  /\ shadow' = ~shadow
  /\ UNCHANGED <<book, card, suspended, frozen, phaseVars>>

Views == UNION {[entities -> Level] : entities \in SUBSET Entity}

PolicyNext ==
  \/ FrozenRun
  \/ \E view \in Views, poor \in SUBSET Priced : RulePhase(view, Rule \ poor)
  \/ \E i \in DOMAIN pending, approve \in BOOLEAN : Resolve(i, approve)
  \/ \E r \in Rule : \E saved \in Cards[r] :
       \/ \E position \in 1..Len(book) + 1 : Insert(r, saved, position)
       \/ Revise(r, saved)
  \/ \E from, to \in DOMAIN book : Move(from, to)
  \/ \E r \in Rule : SetSuspended(r)
  \/ SetFrozen
  \/ SetShadow

PolicySpec == PolicyInit /\ [][PolicyNext]_policyVars

-----------------------------------------------------------------------------
ConsultName == [rule : Rule, raisedAt : 1..MaxMinutes]

PolicyTypeOK ==
  /\ policyMinute \in 0..MaxMinutes
  /\ IsInjective(book) /\ InBook \subseteq Rule /\ suspended \subseteq InBook
  /\ card \in [InBook -> Card]
  /\ frozen \in BOOLEAN /\ shadow \in BOOLEAN
  /\ DOMAIN sustained \cup latched \subseteq InBook
  /\ \A r \in DOMAIN sustained : sustained[r] \in 1..policyMinute
  /\ \A r \in Rule : DOMAIN snapshot[r] \subseteq Entity
  /\ raised \subseteq ConsultName

Occurrences(consults, name) ==
  {i \in DOMAIN consults : Named(consults[i]) = name}
EndsOf(name) == {end \in ends : end.consult = name}

(* A consultation is open, or its verdict is held, or it has ended, one of *)
(* them and once, whatever freezes, dry runs, suspensions, revisions and   *)
(* verdicts lie in between.  It ends as the player answered; without an    *)
(* answer it expires, and not before its time.                             *)
ConsultsEndOnce ==
  \A name \in raised :
    /\ Cardinality(Occurrences(pending, name))
         + Cardinality(Occurrences(deferred, name))
         + Cardinality(EndsOf(name)) = 1
    /\ name \in DOMAIN verdict => Occurrences(pending, name) = {}
    /\ \A end \in EndsOf(name) :
         IF name \in DOMAIN verdict THEN end.how = How(verdict[name])
         ELSE end.how = "expired" /\ end.at >= name.raisedAt + ConsultTTL

(* A rule is decided once per assertion, dry or live: between two          *)
(* decisions a run found its WHEN false.  And no run inside the window of  *)
(* FOR found it false, however the card and its suspension changed.        *)
DecisionsAreEarned ==
  [][\A r \in Rule : decided'[r] # decided[r] =>
       /\ decided[r] = 0 \/ calm[r] > decided[r]
       /\ policyMinute' - calm[r] > card[r].window]_policyVars
=============================================================================
