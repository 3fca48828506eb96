# Hosting Hero: a specification of its rooms and of the simulation in them

Hosting Hero is a TypeScript simulation of running a hosting company. One part
of it is distributed: several players share an *incident room*. A host process
stamps what they do into one shared log; every seat reads that log through a
carrier that may delay, repeat, reorder or lose frames; seats come, go, die and
come back. What the players do reaches a deterministic simulation, tick after
tick: a door that executes intents, a board of nodes that serve visitors,
policies that act on what is observed, and an economy that bills for it.

This directory holds TLA+ modules of these parts, the TLC runs that check them
on small instances, and theorems about them, proved with TLAPS for every value
of the constants.

## The system

| component | code | state | operations |
|---|---|---|---|
| seat ledger | `packages/sim-core/src/save/coop.ts` | none: pure functions on a node's `seatHolders` | seat, vacate, seated at, validate |
| relay | `tools/relay/src/relay.ts` | stamp clock, seq counter, ledger, shared log, one inbox per participant | advance, join, leave, submit, page |
| hub | `tools/transport/src/server.ts` | a mailbox of frames; it drives the relay | drain (join, leave, submit, catch-up request), publish |
| carrier | `tools/transport/src/{port,inMemory}.ts`, `tools/host/src/wsHubPort.ts` | frames in flight; for sockets the route table and per-socket flags | send, deliver, lose, connect, close |
| client | `tools/transport/src/client.ts` | records, newest stamp, catching-up flag, last seat state | join, leave, submit, catch up, handle a frame |
| WebSocket host | `tools/host/src/server.ts` | the relay and hub of one room, a timer | pump |
| host simulation | `tools/host/src/simLoop.ts` | game state, cursor into the log | step |
| browser seat | `apps/proto/src/chrome/coopRoomWire.ts` | a client and a local simulation | open, pump, catch up |
| intent door | `packages/sim-core/src/pipeline/{intent-door,attention}.ts` | hands, attention, drains, cables, devices | a pass over the due intents |
| tick pipeline | `packages/sim-core/src/pipeline/{driver,defaults}.ts` | roster, queues, slots, retry schedule, attribution index | advance, checkpoint and restore |
| node capacity | `packages/sim-core/src/pipeline/{recovery,reclaim}.ts` | roster of a node, recovery record, reservations, tombstones | struggle, climb, book, reclaim |
| policy rules | `packages/sim-core/src/policy/{store,evaluator}.ts` | book, suspensions, kill switch; latches, debounce clocks, snapshots, consultations | rule phase, resolve, edit |
| economy | `packages/sim-core/src/economy/*.ts` | contracts, invoices, schedules, cash buckets | tick |
| versus | `packages/sim-core/src/versus/*.ts` | a draft; the engine and snapshots of a duel | draft, run up to a tick |
| the rest of the simulation | `packages/sim-core/src` | content, waves, topology, saves, scenarios | |
| the rest of the browser | `apps/proto/src` | view state, IndexedDB, one worker | user interface |

A call or a frame travels: client → carrier → hub mailbox → `drain()` → relay →
ledger; and back: relay log → hub broadcast, page or seat state → carrier →
client. In the *relay-only* topology each browser runs its own simulation on
what its client received. In the *host-simulation* topology the host's own
`step()` feeds the log to the intent door and publishes what each seat may see.
Inside a tick the door comes first, then the board serves, then the economy and
the rule phase look at the result; what the rules decide is fed to the door of
the next tick.

What is hard here:

- **ordering**: records of all seats share one (tick, seq) order; broadcast and
  catch-up both write a late joiner's inbox; churn, the end of a term, billing
  and dunning meet in one tick on one contract;
- **delivery**: frames toward a seat are at-least-once at best, in any order;
- **partial failure**: a refused ledger operation is a `SaveError`, which leaves
  `drain()` and whatever called it between two state changes; a refused intent
  has already paid;
- **death and return**: a socket may die at any moment, and its seat is rejoined
  by another one, or by the same one; a visitor who is turned away comes back;
- **stale state**: pages are asked for after the newest stamp seen, while
  broadcasts keep arriving; the purge walks the nodes an index names; clocks and
  latches outlive the rule version they were made for; snapshots of a duel serve
  later requests;
- **long sequences**: recovery, warmth and tombstones all write one roster.

The hazards in `PROJECT.json` list these line by line.

## Modules

| module | models | extends |
|---|---|---|
| `SeatLedger` | the ledger functions | |
| `CoopRelay` | the relay | `SeatLedger` |
| `SharedTimeline` | what a room promises: one timeline, seen whole by whoever is in | |
| `RelayHub` | mailbox, batch and the relay half of every handler | `CoopRelay` |
| `CoopRoom` | hub and clients joined by a carrier | `RelayHub` |
| `SeatSims` | the room and the simulation each seat runs | `CoopRoom` |
| `WsHost` | hub, sockets, routes, auto-leave, pump | `RelayHub` |
| `HostSim` | hub and the host's own simulation | `RelayHub` |
| `IntentDoor` | passes, hands, attention, drains, cables | |
| `NodeCapacity` | the roster of one node | |
| `TickPipeline` | visitors on a board of nodes | |
| `Billing` | contracts, invoices, cash | |
| `PolicyBook` | the rule phase and the book it reads | |
| `VersusDraft` | a draft and its compensation walk | |
| `VersusRunner` | the memoized runner of a duel | |
| `MCRelay`, `MCRoom`, `MCSeatSims` | small instances of the room | the module of that name |
| `MCServer` | small instances of server parts, one subject per behaviour | `WsHost`, `TickPipeline`, `Billing` |
| `MCDesk` | the same for the parts around the host's desk | `HostSim`, `IntentDoor`, `NodeCapacity`, `PolicyBook`, `VersusDraft`, `VersusRunner` |
| `Selections` | `Array.prototype.filter`; used by `CoopRoom`, `HostSim`, `TickPipeline`, `Billing`, `PolicyBook` | |
| `Totals` | sums over a set, as loops build them; used by `TickPipeline`, `Billing`, `VersusDraft` | |
| `DataFacts` | lemmas about numbers, sequences and sums | `Selections`, `Totals` |
| `CoopRelay_proofs` | theorems about ledger, relay and the timeline it implements | `CoopRelay`, `DataFacts` |
| `CoopRoom_proofs` | theorems about carriers, clients and the simulations of the seats | `SeatSims`, `CoopRelay_proofs` |
| `WsHost_proofs` | theorems about the socket host | `WsHost`, `CoopRelay_proofs` |
| `Desk_proofs` | theorems about the host's simulation and the door it feeds | `HostSim`, `IntentDoor`, `CoopRelay_proofs` |
| `Board_proofs` | theorems about the roster of a node and the visitors of a board | `NodeCapacity`, `TickPipeline`, `DataFacts` |
| `Billing_proofs` | theorems about contracts, invoices and cash | `Billing`, `DataFacts` |
| `PolicyAndVersus_proofs` | theorems about rules, drafts and duels | `PolicyBook`, `VersusDraft`, `VersusRunner`, `DataFacts` |

### The room

**SeatLedger.** A ledger is a sequence of rows, a row one tenure
`[joinedAtTick, leftAtTick)`. Participant ids, compared by code unit in the
code, are their ranks. `ValidLedger` is the conjunction of the laws the code
checks, one operator each; `CanSeat` and `CanVacate` say when the code does not
throw.

**CoopRelay.** One action per public operation of the relay: `AdvanceTo`,
`JoinSeat`, `LeaveSeat`, `Submit`, `CatchUpPage`. A call that throws changes
nothing and is no step. Payloads are left out; of an action's payload the model
keeps the verdict of the envelope check. `AutoCatchUpOnJoin` is the option of
that name: with it a join delivers the missed history, without it the tenure
opens dry and pages are pumped.

**RelayHub.** `hubInbox` is the mailbox, `batch` the frames that the drain in
progress has polled. The thread is never given up inside a drain, so other
actions wait for `Idle`; each dispatch is one step. `Faults` are the refusals
the hub answers with a fault frame (`RelayError`, `TransportError`), `Escapes`
those it rethrows (`SaveError`), with which the rest of the batch is lost.

**CoopRoom.** `mail[p]` holds the frames on their way to seat `p`, `received[p]`
is the client's inbox, `known[p]` its last seat state. `Deliver` is one
`handleFrame`. `carrier` is what the carrier of this behaviour does to a seat's
frames: a subset of "reorders", "duplicates", "loses", one of `Carriers`; the
empty set is a FIFO wire. The clients use what `ClientCalls` names; `OpenRoom`
is the back-to-back join and catch-up of a browser seat.

**SeatSims.** In the relay-only topology a seat's clock moves when its user
pumps. `localTick[p]` is that clock, `performed[p]` the actions its door was
given. Every pump hands the door the whole feed and the door takes what is
stamped at the current tick, so a record that arrives later is never executed
there; the code's header calls it a dead frame. `pump()` first drains the
mailbox: those are the `Deliver` steps of `CoopRoom` before a `Pump`. The verb
builders throw on arguments without the shape of the door before a frame
leaves, hence `BuildersPass`. The limit of 10,000 steps of one catch-up is out of
the bounds.

**WsHost.** Sockets connect, send frames in any seat's name and close. `routes`,
`joined` and `left` are the carrier's tables. Pumps advance the clock and drain.
`Close` is the close handler: a socket may die at any time between two drains,
with frames of its own still waiting, and the leaves it owes queue behind them.
`CutOff` is the ledger's error that leaves `drain()`; `cut` remembers that it
happened. `orderly` says of a behaviour whether its clients own one seat each
and send the next frame when the last one is through, or do what they like: a
bound on the environment, which the host does not enforce. `Disciplines` are the
values it may start from, and `UnrulyBound` bounds the unruly ones.

**HostSim.** `step()` is `StepBegins`, the dispatches, and `StepEnds` or
`FeedFails`; `DrainFails` is the `SaveError` in between. `DrainBetweenSteps` is
a drain its caller starts outside a step. A record of kind "garbled" is an
action whose arguments the door cannot read.

### The simulation

**IntentDoor.** `OpenPass` pulls the cables whose drain is over, each intent is
one step, `ClosePass` lays the draft over the state. An intent is paid before
its handler looks at it; `RefuseByHandler` gives back as the code does, from a
snapshot that a verb without a cost in hands never takes. Devices and cables
are not part of the draft. The verbs that only write a book are one verb,
"order", with a verdict.

**NodeCapacity.** `CapacityTick` is what the driver does to one node in a tick:
throttle by recovery, warmth in force, release and seating, then struggle or
quiet. `ScaleNode` and `ReclaimNode` are the intents. Guests, holds by a node
downstream and bounces are choices.

**TickPipeline.** `Tick` is one `advance`: matured retries and arrivals, the
serve steps in node order, shedding, patience, inspection and completion, the
purge, and the next attempts. The attribution index is modelled in full: its
signatures, the growth of the board past the limit (`Grow`, at any time or, with
`GrowsInUse` false, only while nobody is on the board), the verify tick, the boot
sweep. `Restore` is a checkpoint handed to a new driver: depths and schedule
survive, the index is rebuilt. The jitter a player can buy for a backoff
(`driver.ts:1167`) is left out, and a served visitor comes back at most once
(`Return`), where a referral and a return may both fire (`defaults.ts:1651-1674`).

**Billing.** `EconomyTick` is one tick in the order of the code: deals start,
churn, terms end or renew, invoices are issued, visited, collected, dunned or
written off, schedules are released, settled invoices pruned. The dice are
choices; `Strides` are the times the host may let pass between two ticks. The
code loops over the contracts once per step; the module takes the contracts one
by one and the steps inside (`Billed`, `Sweep`, `ReleaseDue`). That is the same
tick: no step reads another contract's deal, invoices or schedules (an invoice
id carries its contract), and cash is only added to. The one reader of free cash
in between is the ledger's check of an overdraft, whose throw the host answers
by keeping what it had; the module lets such a tick go through, so free cash may
be any integer there. A renewal lasts as long as the term that was signed:
negotiated extensions (`termExtensionMonths`) and the evergreen fallback of
`contract.ts:388-397` are left out.

**PolicyBook.** `RulePhase` is one run on an observed view: consultations
expire, verdicts held back are dispatched, and the rules of the book are
evaluated in order. A clause is a set of tests on one metric: "above" (the
comparator for "below" reads the same and is left out), "advanced" ("fails" and
"completes") and "changed". `FrozenRun` is a
run under the kill switch. The player resolves a consultation (`Resolve`),
inserts, revises, moves and suspends rules, and flips the kill switch and the
dry run. `raised`, `verdict`, `ends`, `calm` and `decided` only record what
happened.

**VersusDraft.** `Take` is one presentation with the pick made of it, the last
one starts the walk; `BulkLap` and `PartialLap` are the laps of
`compensateExactCostSum`, `Commit` its return. What is offered and not taken
changes nothing, so the dice are a choice of threat and affix.

**VersusRunner.** The state of a duel after a tick is what fired on each tick
up to it. `Probe`, `Rebuild`, `Degrade` and `AskNaive` are the four ways the
runner answers.

## Runs

Every run is exhaustive within its bounds. Bounds are the constants marked
"bound" in the modules, and each guard that applies one is marked too.

`MCServer` and `MCDesk` put parts together that share no variable: a behaviour
is one of a single subject, chosen at the start, and the rest stands still. The
parts interact through data (an intent, a resized roster, a verdict) that each
module takes as a choice, so a joint behaviour would show no more than the
parts do.

Passing runs:

- `relay`: three participants, two seats, two ticks, two records. Two seats are
  the least with a competitor refused for capacity and another admitted after a
  leave; two ticks allow a tenure to end and a second one to begin. Pages of one
  and two records start in front of, inside and behind the tail. The relay
  implements `SharedTimeline`.
- `room`: FIFO carrier, history that fits one page. Every seat whose mailbox is
  empty knows ledger and newest stamp; a caught-up client is whole.
- `room_carriers`: one record per page; a carrier that reorders and duplicates,
  one that loses, and an orderly one, one per behaviour. Clients keep each
  record once and true to the log; over the orderly carrier a chain of pages
  ends, under weak fairness of drain, dispatch and delivery. The host's timer
  keeps draining, a drain is a loop without await, and every seat drains its
  mailbox on its own pump: weak fairness of each is what these loops give.
  Nothing is assumed of the users.
- `seat_sims`: two seats, two ticks, two actions, a carrier that reorders: the
  least with which actions of one tick arrive in either order and seats pump on
  both sides of them. Seats that hold the same records at the same local tick,
  none of them dead, executed the same actions in the same order.
- `server`, sockets: three sockets for two seats, orderly clients that die at
  any moment over four ticks, their frames still waiting or not, and unruly ones
  within a bound of two. A waiting leave that nothing of its seat follows is the
  word of the seat's last claimant, so a dying socket never ends the tenure of a
  newer one. Until an error cuts a drain off no seat stays taken behind a dead
  socket, and of orderly clients only a tenure of length zero cuts one off: the
  join and the leave of a socket that died, polled in one drain. Orderly clients
  here do not rejoin on the same socket; `ws_host_rejoin` shows why.
- `server`, tick: two nodes in a row, the first with two slots and waiting for
  the second, three visitors of one or two slots, one retry, six ticks, a probe
  cap of one and a verify tick every three, so that index, fallback and sweep
  all occur. Nobody is left on the board, stands in two places, ends twice or
  retries for ever, checkpoints in between or not. The board is large enough
  for the index from the start, or never, or grows into it while nobody is on
  it; `pipeline_growth` has the growth in traffic.
- `server`, billing: a contract by card, one with net terms, one prepaid, one
  per behaviour, two terms, ticks of one time unit or four. Four units skip
  whole dunning stages and a period with its invoice.
- `desk`, host: steps fail in the drain (a `SaveError`) and in the door (an
  unreadable action). Nothing is executed twice, and until the first failure
  nothing behind the cursor is lost.
- `desk`, door: two hands, one hand of attention, three passes and four intents
  over three devices and five cables, enough for a loop of three and for a
  drain that spans two passes.
- `desk`, node: seven ticks, two bookings or tombstones; a struggle, a lock, a
  climb and a second struggle fit, with warmth starting and collected inside.
- `desk`, policy: a rule that consults and one that acts after two minutes,
  guarded, or in another version consults when the metric grows; one entity, a
  TTL of two minutes, four minutes, three edits. A consultation can be raised,
  frozen, answered, thawed into a dry run and dispatched; a rule can be revised
  or suspended inside its window. With a single entity the early stop of a test at
  its first hit does not show; the theorem about decisions holds for any number.
- `desk`, draft: drafts of three to five picks, with a last slot of two thirds,
  half or one point, and affixes below and above the plain price. Every
  sequence of picks ends in a deck that costs its budget.
- `desk`, duel: logs of up to three intents in any order, asked for at ticks 0
  to 2, any request after any other.

Runs that end in a violation show where the code does something else than a
comment, a document or a test of the repository says:

- `room_paged_history`: the cursor of the next page is the newest stamp
  received. A broadcast that overtakes the missed pages moves that cursor past
  them, and the client's history keeps a hole, where the hub's header promises
  a byte-identical inbox.
- `ws_host_rejoin`: join, leave, join on one socket; its death leaves the second
  tenure open.
- `pipeline_growth`: the board grows past the limit of the index while visitors
  wait; the first targeted purge behind the paid boot sweep misses one.
- `billing_zombie`: a contract that is suspended when its term ends is billed on.
- `door_refund`: a refused toggle-speed gives back what it never paid: the hands
  of the intents before it are free again.
- `reclaim_capacity`: collected warmth stays in the stored roster.

Deadlock is not checked: a room whose clock and log have reached their bounds
stops, and so does a room where nobody does anything.

### Observations without a run

Reading the code for these modules showed more. None of it is checked.

- *Room.* The leave of a dead socket is said to land at a tick after its join's
  (`wsHubPort.ts:53-55`). A join and a close between two pumps are polled
  together and stamped alike; the ledger refuses a tenure of length zero, the
  error leaves `drain()`, and the seat stays taken. Without `~cut` in
  `NoSeatIsStranded`, TLC finds these seven states in `MCServer`. A `SaveError`
  takes the frames polled behind it along (`Escape`). A
  catch-up request answered with a fault leaves `catchingUp` set (`ApplyFault`).
  `publish()` in a room nobody ever joined throws, because it asks the relay for
  a ledger before it looks for live seats (`tools/transport/src/server.ts:164`).
  `step()` advances the stamp clock before a drain that may throw, and the
  simulation stays behind it from then on. A replica's `append` pushes a record
  before it throws on its order, so a record mirrored by broadcast and page
  breaks the shadow (`server.ts`, `createReplica`).
- *Pipeline.* From the third retry on the lineage walk ends at the attempt
  before the last (`driver.ts:1615`). A second reclaim with a future stamp
  brings voided bookings back, although the door says the tombstone never
  expires. A first booking during recovery anchors at the throttled roster. A
  throttle accepted on a warm roster is total once the warmth is gone. A drain
  whose hands cost more than one gives two events; a drain policy switched off
  during a drain lets an old drain pull a new cable.
- *Economy.* Twins of an invoice after a renewal are never collected (the
  `Working` docblock in `tick.ts` knows). A pause longer than a period before a
  renewal leaves the last periods unbilled. After a pause over two term ends the
  cliff renews once, the calendar bills past the new term's end, and the next
  renewal starts its grid there and bills the same periods again. Dunning jumps to the stage of the
  day with one roll, where the docblock speaks of one per stage. A monthly
  contract with prepaid annual terms bills a year every month. `planRefund`
  never takes from free cash.
- *Policy.* `evaluator.ts:240` says consult expiry clocks stop while frozen, and
  :780 that debounce clocks stay parked. Both compare absolute times, so a
  consultation frozen past its TTL expires in the first run after the thaw (a
  test pins it), and frozen or suspended minutes count toward FOR; this is why
  `DecisionsAreEarned` speaks of runs that found a condition false, not of
  minutes that found it true. A rule that re-asserts within the TTL has two
  consultations pending, where :708 says one. A new version of a rule inherits
  latch, clock and snapshots. Dry runs share latches and expire consultations.
- *Versus and replay.* The subtraction leg of the walk and its refusal are
  unreachable in drafts: `delta >= 0` and `~Unfeasible` are part of
  `EveryDraftIsBudgetClean`. In `replay/verify.ts` the bisection never has
  anything to do, since every ring tick is itself a checked point.

## Proofs

All assumptions are those of the modules, named `...Assumption` there, unless a
theorem states one of its own. Those it states are listed with it below; each
but the finiteness of a set marks a place where the code stops keeping the
property, mostly one that a run shows.

**Data** (`DataFacts`). A set of naturals has a least element (`LeastNatural`,
from the well-foundedness of `<`), hence induction over a set of naturals
(`SetInduction`), and with it what `Selected` and concatenation do to the
elements, the order and the length of a sequence. The library's own induction
theorems take an operator, which the provers cannot instantiate; a set of
numbers is an ordinary parameter and serves as well. Induction over the finite
subsets of a set (`PartsInduction`) is the same, on their sizes. `Total` is a
recursive function, so what it computes is proved from its definition: it does
not depend on the order of the summands, it grows by a new summand and is
monotone. `ForemostCount` counts the first `n` elements of a strict order.

**The relay** (`CoopRelay_proofs`). `TypeOK` is inductive once `seatParticipant`
is known to return a ledger: `LeastNatural` and `InsertPositionType` show that
an insert position exists, `SeatParticipantRows` and `VacateSeatRows` what rows
the new ledger has. `StampsAscend` is inductive with `TypeOK`: a submit stamps
at the clock and the counter, which bound every stamp of the log.
`AuthorsHeldTenure` needs `StampsAscend`: a leave closes a tenure at the current
tick, which is not before any stamp of the log, so the tenures that covered
records still do. `LedgerOK` says that every ledger the relay holds is valid and
its tenures begin in the past; from it `CapacityAtEveryTick` derives
`NeverOverCapacity` at ticks the code never looks at: of the tenures that hold
at a tick the one that began last was checked when it began. `LedgerIsHistory`
is about a step: the old rows have places in the new ledger in their old order,
open ones may have ended now, and a row in another place is a tenure that begins
now. `InboxesFollowLog` carries the invariant that a live inbox is the log and
that a departed one is a prefix of it up to the end of a tenure. Then every step
of the relay with catch-up on join is a step of `SharedTimeline` or a stutter
(`RelayImplementsTimeline`).

**The room and its seats** (`CoopRoom_proofs`). Every step of the room is a step
of the relay or none (`RoomRunsTheRelay`), so the relay's invariants hold in it.
`ReceivedOnceFromLog` is inductive once every record under way is one of the
log: the stamp of a record identifies it (`StampsAscend`), and a client keeps
only stamps it has not seen. Nothing is assumed of the carrier.
`SettledSeatsKnowTheRoom` has the invariant `SeatsAreTold`: what a live seat
will know, once its mailbox is empty, is the room as it is, so the last seat
state under way is the newest. It assumes a carrier that neither reorders nor
loses. `CaughtUpHistoryIsWhole` has `HistoryInv`: a client that is neither
whole nor waiting for its first page has every record in hand or under way. It
assumes that the log fits one page, that clients do not call `resume`, and a
carrier that loses nothing; `room_paged_history` shows why one page.
`PerformedOnceInOrder` follows from the records being ones of the log and the
local clock passing each tick once. For `InTimeSeatsAgree` the feed of a tick
is *the* stamp-ordered enumeration of a set (`InStampOrder`), and two such
enumerations of one set are equal; the ticks are joined by induction.

**The hosts** (`WsHost_proofs`, `Desk_proofs`). Every step of either host is a
step of the relay or none, so both specifications imply `RelaySpec` and the
relay's invariants hold inside them; the socket host needs `UnrulyBound` within
`MaxTick`. `LeavesComeFromTheLastClaim` is inductive with the types of the host
(`ClaimInv`): a frame makes its socket the seat's route, and a dying socket owes
a leave only where it still is. `NoSeatIsStranded` has `OrderlyInv`, which
follows one seat through its life: until a drain is cut off the relay's ledger
and the carrier's bookkeeping agree about it, up to the frames of the seat in
the mailbox or the batch: one join or leave, or a join and the leave of its dead
socket. It assumes that nobody rejoins on the same socket (`ws_host_rejoin`). A
refused join is a `SaveError` too, so `OnlyShortTenuresStrandASeat`, which adds
what cuts a drain off, assumes besides that there is a place for every
participant; the rest is the same invariant. For `FedExactlyOnceInOrder` what
was executed ascends and lies behind the cursor; while the clock of the stamps
is not ahead of the simulation no step has failed, and then every action behind
the cursor was due in the step that fed it.

**The door** (`Desk_proofs`). `DoorInv` has three parts: types and sizes;
`HoldInv`, which relates every token of the rail and the pool, of the state, of
the draft and of the snapshot that a refusal restores, to the intent or drain
it was lent to; and `PoolOwes`, by which the debt counts the loans nobody has
serviced. The hard step is the refusal: the snapshot is the rail *before* this
intent only if the intent took one, so `EveryOrderCosts` assumes that
each verb that can be refused costs a hand, apart from the toggle of speed
between admissible speeds, which is never refused. The default costs satisfy
it; `door_refund` shows a state that breaks the property when they do not.
`DrainsPullOnce` adds that the tokens of a cable's drains are the drains begun
less those pulled; it assumes that a drain costs one hand, as it does in the
default costs, because the door emits one pull for each token that matures.
`PowerIsATree` needs none of this: a new cable feeds a device with no feed, from
outside everything that device feeds, so a set that is closed under feeding was
closed before.

**Node capacity** (`Board_proofs`). The inductive invariant `IInv` has six
parts: types; while a node recovers its roster is within what the recovery
remembers, and it serves at least one slot (`WindowFits`); the climb is a
function of the time since the window opened (`Climbs`); locks and the quiet
time before a window (`Locks`); how long an episode may still take (`Episodes`,
the measure behind `RecoveryIsBounded`); and what a booking is anchored to
(`Anchors`). The throttled, warmed and served rosters of a tick are followed one
after the other (`RosterOfTick`), as the code applies them.

**The tick** (`Board_proofs`). `VisitorInv` has four parts. `BoardInv`: whoever
waits or is served is in the roster, at the node its path names, once. `IndexInv`:
the index is in step with a queue, or has not looked at it yet; then it owes a
sweep. `EndsExact`: one outcome for whoever left, none for the others. `ChainInv`:
the depth table holds the attempts of an original visitor, of which one is under
way or scheduled, not both. The first two need each other: a targeted purge finds
whoever is done only because the index knows it, and the arithmetic of the index
(what a queue holds now, less what it held, plus the admissions, are the joiners:
`WaitersAreKnown`) is right only while nobody stands in a line twice. A step of
the serve loop is described by where the admissions stop (`ServedWell`); what was
admitted in the tick and what still waits is all a purge can meet
(`DoomedOnBoard`), since a seat that was taken earlier is never refused. The
theorems are about the behaviours of `PipelineSpec` in which the board grows past
the limit of the index only while nobody is on it (`GrowsOnlyEmpty`, a hypothesis
about the behaviour and not about a constant). The code grows it whenever the
door places devices; `pipeline_growth` shows that joiners are lost then.

**Rules, drafts, duels** (`PolicyAndVersus_proofs`). `DecisionsAreEarned` rests
on `ClocksFollowCalm`: a rule decided since it was last found false is latched,
and a debounce clock starts behind the last run that found it false. A revision
may change the window at any time, hence the window in the theorem is the one
of the card that decides. `ConsultsEndOnce` has
`ConsultInv`: a consultation that was raised and has not ended is in exactly one
of the two queues, once; a run raises each at most once because the book holds
a card at one place, and under a name nobody had because the name has the tick
in it. `BankIsSound` (nothing owed, at most a fifth of the
slots banked) is inductive by the downgrade law and the cheapest affix; it is
why the walk only adds and has room. `EveryDraftIsBudgetClean` adds the sums
(`PicksAddUp`, `WalkAddsUp`): weights are what the budget has given out, costs
that less the bank, the walk the budget less what is left to spread. Room never
runs out because the caps add up to twice the costs, which is more than the
budget; a partial lap ends the walk because exactly as many entries are foremost
in the order as there are points left. `RunnerAnswersNaive` has the invariant
that every snapshot up to the cursor is the naive run of the watermark; an
answer to a shorter log is right because law check 3 leaves only intents that
fire later.

**Billing** (`Billing_proofs`). The invariant `AccountsInv` says of every
contract that it is an *account*: its deal, invoices and schedules are of their
types; what ended has nothing deferred and no backlog; what is suspended has an
invoice at the stage that turned it off, which is late enough to stay there or
to go further; a schedule that is kept has something left. And the buckets are
the sums of the book. It is inductive by one idea: no step of a tick opens a
*gap* (`SameGaps`) between what has been posted for a contract and what its book
says. The calendar adds as many times the gross as it adds invoices
(`OwedGrown`), a payment moves its net to where its schedules say it is, a
release takes from a schedule what it pays out, and the end of a contract splits
what its schedules hold into earned and refunded. The sweep is a recursive
function over the slots, hence an induction over them (`VisitSweeps`): a visit
acts on the first twin of its slot, marks one invoice and puts it on the pace of
its day, and does not put another one off it. The postings of the contracts are
then summed (`BucketsAfterTick`); the sum of a total is a total of sums, so one
gapless tick for each contract is one for the company. From the invariant follow
`BucketsMatchTheBook`, `NothingDeferredForTheDead`, `SuspendedContractsOwe` and
`BillingTypeOK`, the last with the buckets that are never overdrawn.

`OverdueIsDunned` speaks of every invoice that is overdue after a tick, issued
in it or before, and of the same invoice before the tick, across pruning: none
is left unvisited, one whose collection had failed before stands at the stage of
its day unless it is collected or written off, and "failed" is only what fails
now. It leaves out the later twins of an id, since an id's visits go to the
first (`OwnerIsFirst`). That an invoice is *the same* when cycle and period are
needs `GridsKept`: a renewal opens a grid that begins after every grid before
it, and in one grid the cycles ascend, so no two invoices of a contract agree in
both. `PeriodsAreBilledOnce` needs more (`TermsKept`): every period that was
billed begins inside the term and before the next one that will be. It assumes
`StridesWithinTerms`, that no pause between two ticks is longer than a term,
since a tick renews a contract once. The hypothesis is needed: `MCServer.cfg`
with `Subjects = {"billing"}`, `Strides = {1, 20}` and `MaxNow = 46` violates
the invariant. The exception of contracts that were suspended at their term's
end is `billing_zombie`.

Only model-checked: that money and times stay in their types as a whole.
`ServerTypeOK` and `DeskTypeOK` are conjunctions over parts that share no
variable. `BillingTypeOK`, `SimTypeOK`, `DoorTypeOK`, `RunnerTypeOK` and the
types of a node are proved with the theorems above; `PipelineTypeOK` holds a
backoff that is a power of two, and the remaining ones say nothing that the
theorems about their parts need. Liveness (`CatchUpEnds`) and `ENABLED` stay
with TLC.

## Not modelled

`PROJECT.json` gives a reason for each component. In short: frame encoding and
authorisation are stateless; waves, content, coverage and scenarios are driven
by data; random streams and fixed-point arithmetic are pure functions on 64-bit
ranges; the browser is presentation, apart from its worker protocol and storage.
Of the modelled parts, prices, negotiation, reputation and the death of the
company are left out of `Billing`, with negotiated extensions and the evergreen
fallback; latency, money, purchased jitter and a second re-entry of
`TickPipeline`; role routing, conflicts and the journal of `PolicyBook`; deck
commitments and the outcome of a match of the versus modules; the replica
witness and the attribution batch of a co-op save of the room.

## Plan

1. The worker protocol of the browser and the IndexedDB slots behind it.
2. The versus commitments, and the verification of a match by replay.
3. The replica witness, with the order of broadcasts and pages it may see.
4. Unattended fast-forward with its guard rails.
5. The overdraft of free cash as a tick that fails, with the host that keeps what
   it had.
