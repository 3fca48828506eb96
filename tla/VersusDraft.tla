---------------------------- MODULE VersusDraft ----------------------------
(***************************************************************************)
(* The draft of a Versus threat deck and the walk that tunes its costs:    *)
(* draftThreatDeck and compensateExactCostSum,                             *)
(* packages/sim-core/src/versus/draft.ts.                                  *)
(*                                                                         *)
(* A draft is one presentation after another; the dice decide what is      *)
(* offered, the drafter what is taken, so a pick is any threat still in    *)
(* the pool under any affix the dice may roll.  An affix is its cost       *)
(* multiplier, in tenths; 10 is the plain card.  Safe-integer limits, the  *)
(* options that are refused before the first roll and the offers that are  *)
(* not taken are left out.                                                 *)
(***************************************************************************)
EXTENDS Integers, FiniteSetsExt, Totals

CONSTANTS Threat,      \* the pool: numbers in code-unit order of their ids
          Multiplier,  \* of the affixes in the affix pool, in tenths
          DraftAsks    \* budgets and slot weights a draft is asked for

CeilDiv(a, b) == (a + b - 1) \div b
PickCount(asked) == CeilDiv(asked.budget, asked.slot)

ASSUME DraftAssumption ==
  /\ Threat \subseteq Nat /\ IsFiniteSet(Threat)
  /\ Multiplier \subseteq 8..20
  /\ \A asked \in DraftAsks :
       /\ asked.budget \in Nat \ {0} /\ asked.slot \in Nat \ {0}
       /\ PickCount(asked) <= Cardinality(Threat)

VARIABLES draftAsk,  \* options.budgetBps and options.slotWeightBps
          left,      \* budget the slots to come divide
          banked,    \* discount of the picks so far
          taken,     \* per threat taken, its slot weight and cost as presented
          walked,    \* per threat taken, its cost as walked so far
          delta,     \* what the walk has yet to spread
          stage      \* "picking", "walking" or "deck"

draftVars == <<draftAsk, left, banked, taken, walked, delta, stage>>

NoThreat == [threat \in {} |-> 0]
DeckThreats == DOMAIN taken

DraftInit ==
  /\ draftAsk \in DraftAsks
  /\ left = draftAsk.budget /\ banked = 0
  /\ taken = NoThreat /\ walked = NoThreat
  /\ delta = 0
  /\ stage = "picking"

-----------------------------------------------------------------------------
AffixCost(weight, multiplier) == CeilDiv(weight * multiplier, 10)

SlotWeight == IF draftAsk.slot < left THEN draftAsk.slot ELSE left

(* Faulty variant: an affix may cost what the budget has left.             *)
PresentedFromBudget(multiplier) ==
  LET cost == AffixCost(SlotWeight, multiplier)
  IN  IF cost > left + banked THEN SlotWeight ELSE cost

(* The affordability-downgrade law: an affix that costs more than the slot *)
(* and the bank together is presented as its plain twin.                   *)
Presented(multiplier) ==
  LET cost == AffixCost(SlotWeight, multiplier)
  IN  IF cost > SlotWeight + banked THEN SlotWeight ELSE cost

(* The last pick leaves nothing of the budget and starts the walk.         *)
Take(threat, multiplier) ==
  LET cost == Presented(multiplier)
      costs == [t \in DeckThreats \cup {threat} |->
                  IF t = threat THEN [weight |-> SlotWeight, cost |-> cost]
                  ELSE taken[t]]
  IN  /\ stage = "picking" /\ threat \notin DeckThreats
      /\ taken' = costs
      /\ banked' = banked + SlotWeight - cost
      /\ left' = left - SlotWeight
      /\ IF left' = 0
           THEN /\ walked' = [t \in DOMAIN costs |-> costs[t].cost]
                /\ delta' = draftAsk.budget
                         - Total([t \in DOMAIN costs |-> costs[t].cost])
                /\ stage' = "walking"
           ELSE UNCHANGED <<walked, delta, stage>>
      /\ UNCHANGED draftAsk

-----------------------------------------------------------------------------
(* The walk.  Entries are walked weight-descending, then by threat.        *)

WalkedBefore(a, b) ==
  \/ taken[a].weight > taken[b].weight
  \/ taken[a].weight = taken[b].weight /\ a < b

Floor(t) == Max({1, taken[t].weight \div 2})
Cap(t) == 2 * taken[t].cost
Growing == delta > 0
Magnitude == IF Growing THEN delta ELSE -delta

Room(t) == IF Growing THEN Cap(t) - walked[t] ELSE walked[t] - Floor(t)
Mobile == {t \in DeckThreats : Room(t) > 0}
Signed(amount) == IF Growing THEN amount ELSE -amount

(* One lap: every mobile entry takes what its room allows of an equal      *)
(* share.                                                                  *)
BulkLap ==
  LET lap == Magnitude \div Cardinality(Mobile)
      Applied(t) == IF t \in Mobile THEN Min({lap, Room(t)}) ELSE 0
  IN  /\ stage = "walking" /\ Mobile # {} /\ lap >= 1
      /\ walked' = [t \in DeckThreats |-> walked[t] + Signed(Applied(t))]
      /\ delta' = delta - Signed(Total([t \in DeckThreats |-> Applied(t)]))
      /\ UNCHANGED <<draftAsk, left, banked, taken, stage>>

(* Fewer bps than mobile entries: one each, to the first in walk order.    *)
PartialLap ==
  LET Turn(t) == Cardinality({u \in Mobile : WalkedBefore(u, t)})
      Applied(t) == IF t \in Mobile /\ Turn(t) < Magnitude THEN 1 ELSE 0
  IN  /\ stage = "walking" /\ delta # 0 /\ Magnitude < Cardinality(Mobile)
      /\ walked' = [t \in DeckThreats |-> walked[t] + Signed(Applied(t))]
      /\ delta' = 0
      /\ UNCHANGED <<draftAsk, left, banked, taken, stage>>

(* Every entry is pinned: compensateExactCostSum throws                    *)
(* AFFIX_COST_UNFEASIBLE and there is no deck.                             *)
Unfeasible == stage = "walking" /\ delta # 0 /\ Mobile = {}

Commit ==
  /\ stage = "walking" /\ delta = 0
  /\ stage' = "deck"
  /\ UNCHANGED <<draftAsk, left, banked, taken, walked, delta>>

DraftNext ==
  \/ \E threat \in Threat, multiplier \in Multiplier \cup {10} :
       Take(threat, multiplier)
  \/ BulkLap
  \/ PartialLap
  \/ Commit

DraftSpec == DraftInit /\ [][DraftNext]_draftVars

-----------------------------------------------------------------------------
DraftTypeOK ==
  /\ draftAsk \in DraftAsks
  /\ left \in 0..draftAsk.budget
  /\ banked \in Int /\ delta \in Int
  /\ DeckThreats \subseteq Threat
  /\ \A t \in DeckThreats : taken[t].weight \in Nat /\ taken[t].cost \in Nat
  /\ DOMAIN walked \subseteq DeckThreats
  /\ stage \in {"picking", "walking", "deck"}

(* The picks so far never cost more than their slots, nor less than four   *)
(* fifths of them.                                                         *)
BankIsSound == 0 <= banked /\ 5 * banked <= draftAsk.budget - left

(* "Any sequence of picks produces a budget-clean deck" (draft.ts, head):  *)
(* whatever is taken, the walk only adds and always ends; the deck it ends *)
(* on costs the budget to the point, weighs the budget, and no entry costs *)
(* less than half its slot or more than twice what was presented.          *)
EveryDraftIsBudgetClean ==
  /\ BankIsSound
  /\ delta >= 0
  /\ ~Unfeasible
  /\ stage = "deck" =>
       /\ Total(walked) = draftAsk.budget
       /\ Total([t \in DeckThreats |-> taken[t].weight]) = draftAsk.budget
       /\ \A t \in DeckThreats : walked[t] \in Floor(t)..Cap(t)
=============================================================================
