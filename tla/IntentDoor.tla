----------------------------- MODULE IntentDoor -----------------------------
(***************************************************************************)
(* The intent door: applyIntentDoor (packages/sim-core/src/pipeline/       *)
(* intent-door.ts) with the pool of attention (attention.ts).  A pass at   *)
(* the top of a tick first pulls the cables whose drain is over, then      *)
(* executes the due intents one after the other.  An intent is paid with   *)
(* hands, some verbs with a hand of attention as well, before its handler  *)
(* looks at it; a refusal gives back what was paid.                        *)
(*                                                                         *)
(* A pass works on a draft that starts empty and is laid over the state at *)
(* its end: draftHands and draftPool are that draft (<<>> and NoPool while *)
(* nothing was drafted).  Devices and cables have no such undo and are     *)
(* written at once.  A cause is <<kind, number>>.  The verbs that only     *)
(* write a book or a setting are one verb, "order", whose handler says yes *)
(* or no; what the books of a node do is in NodeCapacity.                  *)
(***************************************************************************)
EXTENDS Naturals, SequencesExt

CONSTANTS Device,         \* ids of nodes
          PlacedAtStart,
          Cable,          \* edges the players may plug, by number
          CableFrom, CableTo, CableSocket,
          PowerCable,     \* the edges of relation "power"
          HandCapacity,   \* config.handCapacity
          HandCost,       \* verb -> hands it takes
          Occupancy,      \* verb -> ticks it holds them
          DrainTicks,
          DrainModes,     \* values of config.drain.enabled over the passes
          AttentionVerbs, \* config.attentionCost
          AttentionCapacity,
          PoolSeeded,     \* whether the host seeds a pool of attention
          Speeds,         \* speeds that are asked for
          MaxDoorTicks,   \* bound: passes
          MaxIntents      \* bound: intents that are fed

Verb == {"place-device", "connect-ports", "disconnect-drain", "communicate", "toggle-speed", "order"}

ASSUME DoorAssumption ==
  /\ PlacedAtStart \subseteq Device
  /\ Cable \subseteq Nat /\ PowerCable \subseteq Cable
  /\ CableFrom \in [Cable -> Device] /\ CableTo \in [Cable -> Device]
  /\ HandCapacity \in Nat \ {0} /\ AttentionCapacity \in Nat \ {0}
  /\ HandCost \in [Verb -> Nat] /\ Occupancy \in [Verb -> Nat] /\ DrainTicks \in Nat \ {0}
  /\ HandCost["disconnect-drain"] > 0
  /\ DrainModes \subseteq BOOLEAN /\ PoolSeeded \in BOOLEAN
  /\ AttentionVerbs \subseteq Verb

VARIABLES doorTick,
          doorOpen,   \* a pass is under way
          drainMode,  \* the drain policy of this pass
          fed,        \* intents fed so far; the number of the last one
          devices, cables,
          hands,      \* the tokens of GameState.hands
          draftHands,
          pool,       \* GameState.attention
          draftPool,
          standing,   \* history: what executed intents hold, until when
          begun, pulled \* history: drains begun and cables pulled by them

doorVars == <<doorTick, doorOpen, drainMode, fed, devices, cables, hands, draftHands, pool, draftPool,
              standing, begun, pulled>>

NoCause == <<"none", 0>>
DrainOf(cable) == <<"drain", cable>>
Intent(seq) == <<"intent", seq>>
NoPool == [seeded |-> FALSE, tokens |-> <<>>, debt |-> 0, ledger |-> <<>>, window |-> 0]

mintHandState == [i \in 1..HandCapacity |-> [until |-> 0, cause |-> NoCause]]
createAttentionState == [NoPool EXCEPT !.seeded = TRUE]

DoorInit ==
  /\ doorTick = 0 /\ doorOpen = FALSE /\ drainMode = FALSE /\ fed = 0
  /\ devices = PlacedAtStart /\ cables = {}
  /\ hands = mintHandState /\ draftHands = <<>>
  /\ pool = IF PoolSeeded THEN createAttentionState ELSE NoPool
  /\ draftPool = NoPool
  /\ standing = {}
  /\ begun = [c \in Cable |-> 0] /\ pulled = [c \in Cable |-> 0]

-----------------------------------------------------------------------------
(***************************************************************************)
(* The tokens of either denomination.                                      *)
(***************************************************************************)
(* Faulty variant: a token is free a tick before its time is up.           *)
SweepEarly(tokens) ==
  [i \in DOMAIN tokens |->
     IF tokens[i].until <= doorTick + 1 THEN [tokens[i] EXCEPT !.cause = NoCause] ELSE tokens[i]]

(* A token is free again at the tick it was taken until.                   *)
Sweep(tokens) ==
  [i \in DOMAIN tokens |->
     IF tokens[i].until <= doorTick THEN [tokens[i] EXCEPT !.cause = NoCause] ELSE tokens[i]]

FreeTokens(tokens) == {i \in DOMAIN tokens : tokens[i].cause = NoCause}

(* The first free tokens are taken.                                        *)
Occupy(tokens, cost, cause, until) ==
  LET taken == {i \in FreeTokens(tokens) : Cardinality({j \in FreeTokens(tokens) : j <= i}) <= cost}
  IN  [i \in DOMAIN tokens |-> IF i \in taken THEN [until |-> until, cause |-> cause] ELSE tokens[i]]

(* The draft of the hands once something asked for it: the sweep is kept   *)
(* only if it changed a token.                                             *)
KeptHands ==
  IF draftHands = <<>> /\ Sweep(hands) # hands THEN Sweep(hands) ELSE draftHands
HandsNow == IF draftHands = <<>> THEN hands ELSE draftHands
HandsSwept == IF draftHands = <<>> THEN Sweep(hands) ELSE draftHands

attentionRelease(state) == [state EXCEPT !.tokens = Sweep(state.tokens)]
KeptPool ==
  IF ~draftPool.seeded /\ attentionRelease(pool) # pool THEN attentionRelease(pool) ELSE draftPool
PoolNow == IF draftPool.seeded THEN draftPool ELSE pool

(* Faulty variant: the matured drains keep their tokens.                   *)
OpenPassWithoutSweep ==
  LET due == {i \in DOMAIN hands : hands[i].cause[1] = "drain" /\ hands[i].until <= doorTick}
      dueAt == [i \in due |-> hands[i].cause[2]]
  IN  /\ ~doorOpen
      /\ doorOpen' = TRUE
      /\ drainMode' \in DrainModes
      /\ cables' = cables \ {dueAt[i] : i \in due}
      /\ pulled' = [c \in Cable |-> pulled[c] + Cardinality({i \in due : dueAt[i] = c})]
      /\ UNCHANGED <<doorTick, fed, devices, hands, draftHands, pool, draftPool, standing, begun>>

(* processMaturedDrains, before any intent of the pass: the drains are the *)
(* tokens of the state the pass began with.  The policy of this pass is    *)
(* not asked.                                                              *)
OpenPass ==
  LET due == {i \in DOMAIN hands : hands[i].cause[1] = "drain" /\ hands[i].until <= doorTick}
      dueAt == [i \in due |-> hands[i].cause[2]]
  IN  /\ ~doorOpen
      /\ doorOpen' = TRUE
      /\ drainMode' \in DrainModes
      /\ cables' = cables \ {dueAt[i] : i \in due}
      /\ draftHands' = IF due = {} THEN draftHands ELSE KeptHands
      /\ pulled' = [c \in Cable |-> pulled[c] + Cardinality({i \in due : dueAt[i] = c})]
      /\ UNCHANGED <<doorTick, fed, devices, hands, pool, draftPool, standing, begun>>

-----------------------------------------------------------------------------
(***************************************************************************)
(* One entry: hands, attention, handler.  `carrier` says that the verb     *)
(* stands for a rule of the book, which pays no attention; `ok` is the     *)
(* handler's verdict, and devicesAfter and cablesAfter what it writes.     *)
(* An entry the host's canExecute refuses changes nothing.                 *)
(***************************************************************************)
Affordable(verb, cause) ==
  HandCost[verb] > 0 =>
    /\ Cardinality(FreeTokens(HandsSwept)) >= HandCost[verb]
    /\ cause[1] = "drain" => \A i \in DOMAIN HandsSwept : HandsSwept[i].cause # cause

PaysAttention(verb, carrier) == verb \in AttentionVerbs /\ ~carrier
AttentionAffordable == PoolNow.seeded /\ FreeTokens(Sweep(PoolNow.tokens)) # {}

BusyUntil(verb, cause) ==
  IF HandCost[verb] = 0 THEN doorTick
  ELSE doorTick + (IF cause[1] = "drain" THEN DrainTicks ELSE Occupancy[verb])

(* hands-exhausted and edge-draining.                                      *)
RefuseUnpaid(verb, cause) ==
  /\ ~Affordable(verb, cause)
  /\ draftHands' = KeptHands
  /\ UNCHANGED <<devices, cables, draftPool, standing, begun>>

(* attention-debt: the hands are given back.                               *)
RefuseAttention(verb, carrier, cause) ==
  /\ Affordable(verb, cause) /\ PaysAttention(verb, carrier) /\ ~AttentionAffordable
  /\ draftHands' = IF HandCost[verb] > 0 THEN KeptHands ELSE draftHands
  /\ draftPool' = KeptPool
  /\ UNCHANGED <<devices, cables, standing, begun>>

Paid(verb, carrier, cause) ==
  Affordable(verb, cause) /\ (PaysAttention(verb, carrier) => AttentionAffordable)

(* The handler refuses: the draft goes back to the snapshot, which a verb  *)
(* without a cost in hands never took.                                     *)
RefuseByHandler(verb, carrier, cause) ==
  /\ Paid(verb, carrier, cause)
  /\ draftHands' = IF HandCost[verb] > 0 THEN KeptHands ELSE <<>>
  /\ draftPool' = IF PaysAttention(verb, carrier) THEN KeptPool ELSE draftPool
  /\ UNCHANGED <<devices, cables, standing, begun>>

Execute(verb, carrier, cause, devicesAfter, cablesAfter) ==
  LET until == BusyUntil(verb, cause)
      attentive == PaysAttention(verb, carrier)
  IN  /\ Paid(verb, carrier, cause)
      /\ draftHands' = IF HandCost[verb] > 0 THEN Occupy(HandsSwept, HandCost[verb], cause, until)
                       ELSE draftHands
      /\ draftPool' = IF attentive
                      THEN [PoolNow EXCEPT !.tokens = Occupy(Sweep(@), 1, cause, until)]
                      ELSE draftPool
      /\ devices' = devicesAfter /\ cables' = cablesAfter
      /\ standing' = standing \cup
           {[cause |-> cause, until |-> until, cost |-> HandCost[verb], attention |-> attentive]}
      /\ begun' = [c \in Cable |-> begun[c] + IF cause = DrainOf(c) THEN 1 ELSE 0]

Entry(verb, carrier, cause, ok, devicesAfter, cablesAfter) ==
  /\ doorOpen
  /\ fed < MaxIntents  \* bound
  /\ fed' = fed + 1
  /\ \/ RefuseUnpaid(verb, cause)
     \/ RefuseAttention(verb, carrier, cause)
     \/ ~ok /\ RefuseByHandler(verb, carrier, cause)
     \/ ok /\ Execute(verb, carrier, cause, devicesAfter, cablesAfter)
  /\ UNCHANGED <<doorTick, doorOpen, drainMode, hands, pool, pulled>>

PlaceDevice ==
  \E device \in Device :
    Entry("place-device", FALSE, Intent(fed + 1), device \notin devices, devices \cup {device}, cables)

(* powerCycle: the walk from a device up its suppliers.                    *)
SuppliersOf(some) == {CableFrom[c] : c \in {d \in cables \cap PowerCable : CableTo[d] \in some}}

(* Faulty variant: only the direct suppliers are looked at.                *)
PowerCycleOfTwo(from, to) == to \in SuppliersOf({from})

PowerCycle(from, to) ==
  LET upstream[k \in 0..Cardinality(Device)] ==
        IF k = 0 THEN SuppliersOf({from}) ELSE upstream[k - 1] \cup SuppliersOf(upstream[k - 1])
  IN  to \in upstream[Cardinality(Device)]

MayConnect(c) ==
  /\ {CableFrom[c], CableTo[c]} \subseteq devices /\ CableFrom[c] # CableTo[c] /\ c \notin cables
  /\ c \in PowerCable =>
       /\ \A d \in cables \cap PowerCable : <<CableTo[d], CableSocket[d]>> # <<CableTo[c], CableSocket[c]>>
       /\ ~PowerCycle(CableFrom[c], CableTo[c])

ConnectPorts ==
  \E c \in Cable :
    Entry("connect-ports", FALSE, Intent(fed + 1), MayConnect(c), devices, cables \cup {c})

(* Under the drain policy the cable stays plugged in until the hand that   *)
(* is booked for it is free; otherwise it is pulled now.                   *)
DisconnectDrain ==
  \E c \in Cable :
    IF drainMode THEN Entry("disconnect-drain", FALSE, DrainOf(c), c \in cables, devices, cables)
    ELSE Entry("disconnect-drain", FALSE, Intent(fed + 1), c \in cables, devices, cables \ {c})

Communicate ==
  \E ok \in BOOLEAN : Entry("communicate", FALSE, Intent(fed + 1), ok, devices, cables)

ToggleSpeed ==
  \E speed \in Speeds :
    Entry("toggle-speed", FALSE, Intent(fed + 1), speed \in {1, 2, 4}, devices, cables)

(* The verbs that write a book or a setting, for a player or a rule.       *)
Order ==
  \E carrier \in BOOLEAN, ok \in BOOLEAN :
    Entry("order", carrier, Intent(fed + 1), ok, devices, cables)

(* buildState: what was drafted becomes the state.                         *)
ClosePass ==
  /\ doorOpen /\ doorTick < MaxDoorTicks  \* bound
  /\ hands' = HandsNow /\ draftHands' = <<>>
  /\ pool' = PoolNow /\ draftPool' = NoPool
  /\ doorOpen' = FALSE /\ doorTick' = doorTick + 1
  /\ standing' = {hold \in standing : hold.until > doorTick}
  /\ UNCHANGED <<drainMode, fed, devices, cables, begun, pulled>>

-----------------------------------------------------------------------------
(***************************************************************************)
(* The host lends attention and services the loans, between two passes.    *)
(***************************************************************************)
(* A window mints a token only while the pool has room for one.            *)
attentionWindowEntry ==
  /\ ~doorOpen /\ pool.seeded /\ pool.debt < AttentionCapacity
  /\ pool.window < MaxDoorTicks  \* bound
  /\ pool' = [pool EXCEPT
       !.debt = @ + 1, !.window = @ + 1,
       !.ledger = Append(@, [repayAtWindow |-> pool.window + 1, repaid |-> FALSE]),
       !.tokens = IF Len(@) < AttentionCapacity THEN Append(@, [until |-> 0, cause |-> NoCause]) ELSE @]
  /\ UNCHANGED <<doorTick, doorOpen, drainMode, fed, devices, cables, hands, draftHands, draftPool,
                 standing, begun, pulled>>

Unrepaid == {i \in DOMAIN pool.ledger : ~pool.ledger[i].repaid}

(* The roll of a month services the oldest loan.                           *)
replenishAtBusinessMonth ==
  /\ ~doorOpen /\ pool.seeded /\ Unrepaid # {}
  /\ pool' = [pool EXCEPT !.debt = @ - 1, !.ledger[Min(Unrepaid)].repaid = TRUE]
  /\ UNCHANGED <<doorTick, doorOpen, drainMode, fed, devices, cables, hands, draftHands, draftPool,
                 standing, begun, pulled>>

DoorNext ==
  \/ OpenPass \/ PlaceDevice \/ ConnectPorts \/ DisconnectDrain \/ Communicate \/ ToggleSpeed \/ Order
  \/ ClosePass \/ attentionWindowEntry \/ replenishAtBusinessMonth

DoorSpec == DoorInit /\ [][DoorNext]_doorVars

-----------------------------------------------------------------------------
(* The rail and the pool keep their size and their tokens name a cause     *)
(* that was fed; the debt is the number of loans nobody has serviced.      *)
DoorTypeOK ==
  /\ Len(HandsNow) = HandCapacity /\ Len(PoolNow.tokens) <= AttentionCapacity
  /\ \A i \in DOMAIN HandsNow :
       HandsNow[i].cause \in {NoCause} \cup {DrainOf(c) : c \in Cable} \cup {Intent(n) : n \in 1..fed}
  /\ devices \subseteq Device /\ cables \subseteq Cable
  /\ pool.debt = Cardinality(Unrepaid) /\ pool.debt <= AttentionCapacity

(* An intent that was executed holds the hands it cost, and its hand of    *)
(* attention, until the tick it was told; so no hand is lent twice,        *)
(* whatever is refused before or after it.                                 *)
ExecutedIntentsHoldTheirHands ==
  \A hold \in standing : hold.until > doorTick =>
    LET Held(tokens) == {i \in DOMAIN tokens : tokens[i] = [until |-> hold.until, cause |-> hold.cause]}
    IN  /\ Cardinality(Held(HandsNow)) = hold.cost
        /\ hold.attention => Cardinality(Held(PoolNow.tokens)) = 1

(* A drain that was begun pulls its cable once, in the pass in which its   *)
(* hand is free again, whatever the policy is by then.                     *)
DrainsPullOnce ==
  \A c \in Cable :
    begun[c] = pulled[c] +
      Cardinality({hold \in standing : /\ hold.cause = DrainOf(c)
                                       /\ hold.until > doorTick \/ (hold.until = doorTick /\ ~doorOpen)})

(* However devices are plugged, drained and plugged again: every socket    *)
(* has one supplier and nothing feeds itself, directly or not.             *)
PowerIsATree ==
  /\ \A c, d \in cables \cap PowerCable :
       CableTo[c] = CableTo[d] /\ CableSocket[c] = CableSocket[d] => c = d
  /\ \A loop \in (SUBSET Device) \ {{}} : ~ loop \subseteq
       {CableTo[c] : c \in {d \in cables \cap PowerCable : CableFrom[d] \in loop}}
=============================================================================
