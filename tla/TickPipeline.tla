---------------------------- MODULE TickPipeline ----------------------------
(***************************************************************************)
(* The tick of the simulation: createTickDriver(...).advance with the      *)
(* default steps (packages/sim-core/src/pipeline/driver.ts, defaults.ts).  *)
(* A tick re-mints the visitors whose backoff is over, admits arrivals,    *)
(* serves the queues of the board, asks patience and inspection who is     *)
(* turned away, purges the board of the visitors that are done, and        *)
(* schedules their next attempts.                                          *)
(*                                                                         *)
(* The dice (arrivals, route, patience, inspection, referrals) are         *)
(* choices.  Time is counted in ticks, money and latency are left out, and *)
(* so is the jitter of a backoff, which a run may purchase.                *)
(* The driver purges the nodes its attribution index names, instead of the *)
(* whole board; the index and its fallbacks are modelled in full.          *)
(***************************************************************************)
EXTENDS Naturals, Integers, SequencesExt, Selections, Totals

CONSTANTS Node,             \* the nodes that serve visitors, 1..n in id order
          Slots,            \* node -> number of slots
          Downstream,       \* node -> node it depends on, or NoNode
          NoNode,
          HardCeiling,      \* nodes that shed the queue they cannot admit
          Edges,            \* dependency edges <<upstream, downstream>> of the tick's inputs
          Paths,            \* the hop lists the route step hands out
          Sizes,            \* slots a visitor may need
          Regimes,          \* what operator verbs impose on a tick's serve step
          ServiceTicks,     \* node -> service time
          MaxRetries,       \* retryPolicy.maxRetries
          BackoffBase,      \* retryPolicy.backoffBaseUs, in 1/BackoffUnit of a tick
          BackoffUnit,
          PurgeProbeCap,    \* options.purgeProbeCap
          PurgeVerifyTicks, \* options.purgeVerifyTicks
          IndexedAtStart,   \* whether the first board is large enough for the index
          GrowsInUse,       \* TRUE: it may become so while visitors are on it
          ReturningVisitors, \* TRUE: served customers may return or refer
          MaxUnits,         \* bound: visitors minted
          MaxTicks          \* bound: ticks

ASSUME PipelineAssumption ==
  /\ Node \subseteq Nat \ {0} /\ NoNode \notin Node
  /\ Slots \in [Node -> Nat \ {0}]
  /\ Downstream \in [Node -> Node \cup {NoNode}]
  /\ ServiceTicks \in [Node -> Nat \ {0}]
  /\ Paths \subseteq Seq(Node)
  /\ Sizes \subseteq Nat \ {0}
  /\ MaxRetries \in Nat /\ BackoffUnit \in Nat \ {0} /\ MaxUnits \in Nat
  /\ IndexedAtStart \subseteq BOOLEAN /\ GrowsInUse \in BOOLEAN

VARIABLES tick,      \* context.tick
          units,     \* GameState.units: id -> visitor; ids count up in roster order
          queue,     \* node -> ids waiting
          seats,     \* node -> occupied slots, one record per visitor
          pending,   \* the driver's re-entry schedule
          depth,     \* retryDepthById, 0 where it has no entry
          indexed,   \* the board is large enough for the attribution index
          member,    \* memberNodeOf: id -> nodes it is attributed to
          signature, \* queueSigById: node -> length and head last seen
          eyes,      \* firstAdvanceSeen, bootSweep, indexingWasActive, purgeTicks
          minted,    \* ids handed out so far
          ends       \* history: id -> how often an outcome was recorded for it

boardVars == <<units, queue, seats>>
driverVars == <<pending, depth, member, signature, eyes>>
pipelineVars == <<tick, boardVars, driverVars, indexed, minted, ends>>

NoSignature == [len |-> -1, head |-> 0]
FreshEyes == [seenFirst |-> FALSE, bootSweep |-> FALSE, wasActive |-> TRUE, purgeTicks |-> 0]
SignatureOf(q) == [len |-> Len(q), head |-> IF q = <<>> THEN 0 ELSE q[1]]
NowhereYet == [id \in 1..MaxUnits |-> {}]

PipelineInit ==
  /\ tick = 0
  /\ units = [id \in {} |-> 0]
  /\ queue = [n \in Node |-> <<>>]
  /\ seats = [n \in Node |-> {}]
  /\ pending = <<>>
  /\ depth = [id \in 1..MaxUnits |-> 0]
  /\ indexed \in IndexedAtStart
  /\ member = NowhereYet
  /\ signature = [n \in Node |-> NoSignature]
  /\ eyes = FreshEyes
  /\ minted = 0
  /\ ends = [id \in 1..MaxUnits |-> 0]

SlotsTaken(occupied) == Total([seat \in occupied |-> seat.size])
Full(n) == SlotsTaken(seats[n]) >= Slots[n]
SeatedIn(occupied) == {seat.unit : seat \in occupied}
Ascending(ids) == Selected([id \in 1..MaxUnits |-> id], ids)

-----------------------------------------------------------------------------
(***************************************************************************)
(* Arrivals: new visitors, then the re-entries that have matured.  `first` *)
(* is the original visitor a chain of retries began with and `attempt`     *)
(* counts its retries; the code keeps neither.                             *)
(***************************************************************************)
Early(now) == {entry \in ToSet(pending) : entry.readyAt > now}
Ready(now) == Selected(pending, ToSet(pending) \ Early(now))
StillPending(now) == Selected(pending, Early(now))

Arrival(kind, id) ==
  [path |-> kind.path, size |-> kind.size, benign |-> kind.benign, retryOf |-> 0, first |-> id, attempt |-> 0]

Reentry(entry, path, id) ==
  [path |-> path, size |-> entry.size, benign |-> TRUE, retryOf |-> entry.retryOf,
   first |-> IF entry.retryOf = 0 THEN id ELSE entry.first, attempt |-> entry.attempt]

(***************************************************************************)
(* Serve.  A node first releases the visitors whose service is over, or    *)
(* holds them while the node it depends on is full, then admits the head   *)
(* of its queue as long as it fits.                                        *)
(***************************************************************************)
Queued == UNION {ToSet(queue[n]) : n \in Node}
Seated == UNION {SeatedIn(seats[n]) : n \in Node}

(* Faulty variant: a visitor that waits joins its queue again.             *)
JoinersAgain(roster, n) ==
  Ascending({id \in DOMAIN roster \ Seated : roster[id].path # <<>> /\ roster[id].path[1] = n})

JoinersOf(roster, n) ==
  Ascending({id \in DOMAIN roster \ (Seated \cup Queued) :
               roster[id].path # <<>> /\ roster[id].path[1] = n})

DueAt(n, now) == {seat \in seats[n] : seat.until <= now \/ seat.held}
HeldAt(n, now) ==
  IF Downstream[n] # NoNode /\ Full(Downstream[n]) THEN DueAt(n, now) ELSE {}
ReleasedAt(n, now) == DueAt(n, now) \ HeldAt(n, now)
StayingAt(n, now) ==
  (seats[n] \ DueAt(n, now)) \cup {[seat EXCEPT !.held = TRUE] : seat \in HeldAt(n, now)}

(* Faulty variant: a slot that is held counts as free.                     *)
RoomBesideHolds(n, now, regime) ==
  Slots[n] - (IF n \in regime.throttled THEN 1 ELSE 0) - SlotsTaken(seats[n] \ DueAt(n, now))

(* The slots a node may still fill, fewer under a throttle.                *)
RoomAt(n, now, regime) ==
  Slots[n] - (IF n \in regime.throttled THEN 1 ELSE 0) - SlotsTaken(StayingAt(n, now))

(* What the first i of a line need.  An entry that is not in the roster is *)
(* dropped when it comes up.                                               *)
Needed(roster, line, i) ==
  Total([j \in 1..i |-> IF line[j] \in DOMAIN roster THEN roster[line[j]].size ELSE 0])

(* Where the admissions stop: at once behind a fence, else at the first    *)
(* visitor that does not fit beside those before it.                       *)
StopAt(roster, line, n, now, regime) ==
  IF n \in regime.fenced THEN 1
  ELSE Min({Len(line) + 1} \cup
           {i \in DOMAIN line : /\ line[i] \in DOMAIN roster
                                /\ Needed(roster, line, i) > RoomAt(n, now, regime)})

ServeNode(roster, n, now, regime) ==
  LET joined == queue[n] \o JoinersOf(roster, n)
      stop == StopAt(roster, joined, n, now, regime)
      admitted == {joined[i] : i \in {j \in 1..stop - 1 : joined[j] \in DOMAIN roster}}
      rest == SubSeq(joined, stop, Len(joined))
      sheds == n \in regime.dropped \cup HardCeiling
  IN  [released |-> SeatedIn(ReleasedAt(n, now)),
       held     |-> SeatedIn(HeldAt(n, now)),
       admitted |-> admitted,
       shed     |-> IF sheds THEN rest ELSE <<>>,
       queue    |-> IF sheds THEN <<>> ELSE rest,
       seats    |-> StayingAt(n, now) \cup
                    {[unit |-> id, size |-> roster[id].size, until |-> now + ServiceTicks[n],
                      held |-> FALSE] : id \in admitted}]

AdmittedIn(served) == UNION {served[n].admitted : n \in Node}
WaitingIn(served) == UNION {ToSet(served[n].queue) : n \in Node}
ShedIn(served) == UNION {ToSet(served[n].shed) : n \in Node}

(* The hop a visitor has completed is sliced off its path.                 *)
Progress(roster, served) ==
  [id \in DOMAIN roster |->
     IF roster[id].path # <<>> /\ id \in served[roster[id].path[1]].released
     THEN [roster[id] EXCEPT !.path = Tail(@)] ELSE roster[id]]

(* Holds without a dependency edge in the tick's inputs lose their flag.   *)
ReleaseOrphanHolds(n, occupied) ==
  IF <<n, Downstream[n]>> \in Edges THEN occupied
  ELSE {[seat EXCEPT !.held = FALSE] : seat \in occupied}

-----------------------------------------------------------------------------
(***************************************************************************)
(* The attribution index: where the driver has seen each visitor.  Only    *)
(* the assignments of the serve step and the length and head of each queue *)
(* are looked at; every PurgeVerifyTicks all waiting visitors are.         *)
(***************************************************************************)
ByAssignments(served) ==
  [id \in DOMAIN member |->
     (member[id] \ {n \in Node : id \in served[n].released})
       \cup {n \in Node : id \in served[n].admitted \cup served[n].held}]

AssignmentsContradict(served) ==
  \E n \in Node :
    \/ \E id \in served[n].admitted \cup served[n].held : member[id] \notin {{}, {n}} /\ n \notin member[id]
    \/ \E id \in served[n].released : member[id] \ {n} # {}

Joins(served, n) == Len(served[n].queue) - signature[n].len + Cardinality(served[n].admitted)

HeadSwapped(served, n) ==
  /\ served[n].admitted = {} /\ signature[n].len > 0
  /\ served[n].queue # <<>> /\ served[n].queue[1] # signature[n].head

(* Faulty variant: joiners are counted without the admissions.             *)
TailSeenWithoutAdmits(served, n) ==
  LET q == served[n].queue
      joins == Len(q) - signature[n].len
  IN  IF signature[n] = NoSignature \/ joins < 0 \/ HeadSwapped(served, n) THEN ToSet(q)
      ELSE {q[i] : i \in {j \in DOMAIN q : j > Len(q) - joins}}

(* The visitors of a queue that a tick attributes to its node: all of them *)
(* when the arithmetic cannot explain the queue, else the joiners.         *)
TailSeen(served, n) ==
  LET q == served[n].queue
      joins == Joins(served, n)
  IN  IF signature[n] = NoSignature \/ joins < 0 \/ HeadSwapped(served, n) THEN ToSet(q)
      ELSE {q[i] : i \in {j \in DOMAIN q : j > Len(q) - joins}}

VerifyNow == PurgeVerifyTicks > 0 /\ (eyes.purgeTicks + 1) % PurgeVerifyTicks = 0

(* At a verify tick a waiting or shed visitor is attributed to its hop.    *)
SeenAt(roster, served, n) ==
  TailSeen(served, n) \cup
    {id \in WaitingIn(served) \cup ShedIn(served) :
       VerifyNow /\ id \in DOMAIN roster /\ roster[id].path # <<>> /\ roster[id].path[1] = n}

Attributed(roster, served) ==
  [id \in DOMAIN member |->
     ByAssignments(served)[id] \cup {n \in Node : id \in SeenAt(roster, served, n)}]

Contradiction(roster, served, known) ==
  \/ AssignmentsContradict(served)
  \/ \E n \in Node : \E id \in SeenAt(roster, served, n) : known[id] # {n}
  \/ VerifyNow /\ \E id \in WaitingIn(served) : id \notin DOMAIN roster

(***************************************************************************)
(* The purge of the visitors that are done: of the nodes the index names,  *)
(* or of the whole board when the driver cannot rely on the index.         *)
(***************************************************************************)
ProbeOf(known, doomed) == UNION {known[id] : id \in doomed}

(* The eyes of the driver when a tick begins to purge: the first tick of a *)
(* run that was handed visitors, and the first indexed tick after ticks    *)
(* without the index, owe one sweep.                                       *)
BootSweepDue ==
  \/ eyes.bootSweep
  \/ ~eyes.seenFirst /\ DOMAIN units # {}
  \/ indexed /\ ~eyes.wasActive

SweepsBoard(known, doomed, contradiction) ==
  \/ ~indexed
  \/ PurgeProbeCap = 0 \/ BootSweepDue \/ contradiction
  \/ Cardinality(ProbeOf(known, doomed)) > PurgeProbeCap

(* A sweep of an indexed board pays the debt.                              *)
EyesAfter(paid) ==
  [seenFirst |-> TRUE, bootSweep |-> BootSweepDue /\ ~paid, wasActive |-> indexed,
   purgeTicks |-> IF indexed THEN eyes.purgeTicks + 1 ELSE eyes.purgeTicks]

(***************************************************************************)
(* Next attempts.  A benign visitor that was turned away tries again after *)
(* its backoff until its retries are used up; a served customer may send   *)
(* or be a new visitor of the same size (`returns`), one of the two here.  *)
(***************************************************************************)
BackoffTicks(retries) ==
  (BackoffBase * 2^(IF retries > 20 THEN 20 ELSE retries) + BackoffUnit - 1) \div BackoffUnit

(* Faulty variant: the retries of a visitor are not limited.               *)
RetriesOfAll(roster, depths, refused) == {id \in refused : roster[id].benign}

RetriesOf(roster, depths, refused) == {id \in refused : roster[id].benign /\ depths[id] < MaxRetries}

Retry(roster, depths, id, now) ==
  [retryOf |-> id, retryDepth |-> depths[id] + 1,
   readyAt |-> now + BackoffTicks(depths[id] + 1), size |-> roster[id].size,
   first |-> roster[id].first, attempt |-> roster[id].attempt + 1]

Return(roster, id, now) ==
  [retryOf |-> 0, retryDepth |-> 0, readyAt |-> now, size |-> roster[id].size,
   first |-> 0, attempt |-> 0]

-----------------------------------------------------------------------------
(* Faulty variant: only queues are purged.                                 *)
PurgeQueues(n, served, doomed) ==
  [queue |-> Selected(served[n].queue, ToSet(served[n].queue) \ doomed),
   seats |-> ReleaseOrphanHolds(n, served[n].seats)]

PurgeNode(n, served, doomed) ==
  [queue |-> Selected(served[n].queue, ToSet(served[n].queue) \ doomed),
   seats |-> {seat \in ReleaseOrphanHolds(n, served[n].seats) : seat.unit \notin doomed}]

(* The board, the index and the eyes after the visitors in `doomed` ended. *)
Purge(roster, served, doomed) ==
  \E known \in {IF indexed THEN Attributed(roster, served) ELSE member} :
  LET sweep == SweepsBoard(known, doomed, indexed /\ Contradiction(roster, served, known))
      walked == IF doomed = {} THEN {} ELSE IF sweep THEN Node ELSE ProbeOf(known, doomed)
      board == [n \in Node |-> PurgeNode(n, served, IF n \in walked THEN doomed ELSE {})]
  IN  /\ queue' = [n \in Node |-> board[n].queue]
      /\ seats' = [n \in Node |-> board[n].seats]
      /\ member' = [id \in DOMAIN member |-> IF id \in doomed THEN {} ELSE known[id]]
      /\ signature' = [n \in Node |->
           IF indexed \/ n \in walked THEN SignatureOf(queue'[n]) ELSE signature[n]]
      /\ eyes' = EyesAfter(indexed /\ doomed # {} /\ sweep)

(* The visitors that leave the pipeline in a tick, by what ended them.     *)
Refused(served, impatient, blocked) == ShedIn(served) \cup impatient \cup blocked
Completed(roster, served) ==
  {id \in DOMAIN roster : roster[id].path # <<>> /\ Progress(roster, served)[id].path = <<>>}

(* Faulty variant: who completed its path stays in the roster.             *)
StaysUnlessRefused(roster, served, refused) == DOMAIN roster \ refused

Stays(roster, served, refused) == DOMAIN roster \ (refused \cup Completed(roster, served))

(* The rest of a tick once its arrivals and dice are given: impatient are  *)
(* waiting or parked visitors, blocked are among the newly admitted, and   *)
(* `returns` are served visitors that send a new one.                      *)
Settle(roster, depths, served, impatient, blocked, returns) ==
  LET now == tick + 1
      refused == Refused(served, impatient, blocked)
      doomed == refused \cup Completed(roster, served)
      stays == Stays(roster, served, refused)
      after == Progress(roster, served)
      again == Ascending(RetriesOf(roster, depths, refused))
      anew == Ascending(returns)
  IN  /\ Purge(roster, served, doomed)
      /\ units' = [id \in stays |-> after[id]]
      /\ pending' = StillPending(now)
                      \o [i \in DOMAIN again |-> Retry(roster, depths, again[i], now)]
                      \o [i \in DOMAIN anew |-> Return(roster, anew[i], now)]
      /\ depth' = [id \in DOMAIN depth |-> IF id \in doomed THEN 0 ELSE depths[id]]
      /\ ends' = [id \in DOMAIN ends |-> IF id \in doomed THEN ends[id] + 1 ELSE ends[id]]
      /\ tick' = now

Kinds == [path : Paths, size : Sizes, benign : BOOLEAN]

(* A tick: at most one new visitor, the matured re-entries, and the dice.  *)
Advance(regime, matured, fresh) ==
  LET born == {minted + i : i \in DOMAIN fresh}
      Late(id) == id - minted - (Len(fresh) - Len(matured))
  IN  \E roster \in {[id \in DOMAIN units \cup born |-> IF id \in born THEN fresh[id - minted] ELSE units[id]]},
         depths \in {[id \in DOMAIN depth |->
                        IF id \in born /\ Late(id) > 0 THEN matured[Late(id)].retryDepth ELSE depth[id]]} :
      \E served \in {[n \in Node |-> ServeNode(roster, n, tick + 1, regime)]} :
      \E impatient \in SUBSET (WaitingIn(served) \cup {id \in DOMAIN roster : roster[id].path = <<>>}),
         blocked \in SUBSET AdmittedIn(served),
         returns \in SUBSET {id \in Completed(roster, served) : roster[id].benign /\ ReturningVisitors} :
        Settle(roster, depths, served, impatient, blocked, returns)

Tick ==
  /\ tick < MaxTicks  \* bound
  /\ \E regime \in Regimes, news \in {<<>>} \cup {<<kind>> : kind \in Kinds}, matured \in {Ready(tick + 1)} :
     \E paths \in [DOMAIN matured -> Paths] :
       LET fresh == [i \in 1..Len(news) |-> Arrival(news[i], minted + i)] \o
                    [i \in DOMAIN matured |-> Reentry(matured[i], paths[i], minted + Len(news) + i)]
       IN  /\ minted + Len(fresh) <= MaxUnits  \* bound
           /\ minted' = minted + Len(fresh)
           /\ Advance(regime, matured, fresh)
  /\ UNCHANGED indexed

(* A verb of the door places the device that makes the board large enough, *)
(* at any time, or only while nobody is on the board.                      *)
Grow ==
  /\ ~indexed
  /\ GrowsInUse \/ DOMAIN units = {}
  /\ indexed' = TRUE
  /\ UNCHANGED <<tick, boardVars, driverVars, minted, ends>>

(* Faulty variant: the depths of the visitors in flight are not exported.  *)
RestoreWithoutDepths ==
  /\ eyes # FreshEyes
  /\ depth' = [id \in DOMAIN depth |-> 0]
  /\ member' = NowhereYet
  /\ signature' = [n \in Node |-> NoSignature]
  /\ eyes' = FreshEyes
  /\ UNCHANGED <<tick, boardVars, pending, indexed, minted, ends>>

(* exportPending, and importPending into a new driver: the schedule and    *)
(* the depths come along, the index and the eyes start anew.               *)
Restore ==
  /\ eyes # FreshEyes
  /\ member' = NowhereYet
  /\ signature' = [n \in Node |-> NoSignature]
  /\ eyes' = FreshEyes
  /\ UNCHANGED <<tick, boardVars, pending, depth, indexed, minted, ends>>

PipelineNext == Tick \/ Grow \/ Restore
PipelineSpec == PipelineInit /\ [][PipelineNext]_pipelineVars

-----------------------------------------------------------------------------
(* The driver's memory stays in its types, and a node never has more slots *)
(* taken than it has.                                                      *)
PipelineTypeOK ==
  /\ DOMAIN units \subseteq 1..minted
  /\ \A n \in Node : queue[n] \in Seq(1..minted) /\ SlotsTaken(seats[n]) <= Slots[n]
  /\ \A id \in DOMAIN member : member[id] \subseteq Node
  /\ \A i \in DOMAIN pending : pending[i].readyAt >= tick

(* The purge leaves nobody behind: whoever stands in a queue or holds a    *)
(* slot is a visitor of the roster, although most purges walk only the     *)
(* nodes the index names.                                                  *)
NoGhosts == \A n \in Node : ToSet(queue[n]) \cup SeatedIn(seats[n]) \subseteq DOMAIN units

(* A visitor stands in one place only, once, and it is the place its path  *)
(* names next.                                                             *)
PlacedOnceAtItsHop ==
  \A n \in Node :
    /\ \A i, j \in DOMAIN queue[n] : queue[n][i] = queue[n][j] => i = j
    /\ \A a, b \in seats[n] : a.unit = b.unit => a = b
    /\ ToSet(queue[n]) \cap SeatedIn(seats[n]) = {}
    /\ \A id \in (ToSet(queue[n]) \cup SeatedIn(seats[n])) \cap DOMAIN units :
         units[id].path # <<>> /\ units[id].path[1] = n

(* Whatever the steps of a tick say of a visitor, it gets one outcome, in  *)
(* the tick in which it leaves the roster.                                 *)
EndsExactlyOnce ==
  \A id \in 1..minted : ends[id] = IF id \in DOMAIN units THEN 0 ELSE 1

(* The attempts of one original visitor follow each other, and there are   *)
(* at most MaxRetries of them, checkpoints in between or not.              *)
AttemptsAreBounded ==
  /\ \A id \in DOMAIN units : units[id].attempt <= MaxRetries
  /\ \A i \in DOMAIN pending : pending[i].attempt <= MaxRetries
  /\ \A i, j \in DOMAIN pending :
       pending[i].first = pending[j].first /\ pending[i].first # 0 => i = j
  /\ \A id \in DOMAIN units : \A i \in DOMAIN pending : pending[i].first # units[id].first

(* The index knows where everyone waits, so that a purge can find them,    *)
(* unless a sweep of the whole board is owed.  This, and with it the       *)
(* absence of ghosts, is claimed of boards that become large enough for    *)
(* the index only while nobody is on them.                                 *)
WaitersAreIndexed ==
  indexed /\ ~BootSweepDue => \A n \in Node : \A id \in ToSet(queue[n]) : n \in member[id]
=============================================================================
