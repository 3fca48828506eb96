------------------------------- MODULE Billing ------------------------------
(***************************************************************************)
(* Contracts, invoices and cash: the billing half of runEconomyTick        *)
(* (packages/sim-core/src/economy/tick.ts with contract.ts, billing.ts and *)
(* dunning.ts).  A tick signs and starts deals, rolls the month's churn,   *)
(* takes contracts over their term's end, issues invoices, collects or     *)
(* duns them, and releases money that is held back.                        *)
(*                                                                         *)
(* Each of these steps reads and writes one contract, its invoices and its *)
(* schedules; the contracts meet in the cash alone, to which every posting *)
(* adds.  A tick of the company is therefore written contract by contract, *)
(* with the steps in the order of the code, and the postings are summed.   *)
(*                                                                         *)
(* The dice (churn, renewal, payment, recovery) are choices.  Amounts are  *)
(* those of the contract; escalators, discounts, negotiated prices and     *)
(* negotiated extensions are left out (a renewal lasts as long as the term *)
(* that was signed), and so are the folds of the tick that move no         *)
(* contract and no invoice (budgets, reputation, runway, death).  A        *)
(* posting that would overdraw free cash throws, and the host keeps what   *)
(* it had: here such a tick goes through, so free cash may be any integer. *)
(* The host may pass several units of time between two ticks.              *)
(***************************************************************************)
EXTENDS Integers, SequencesExt, Selections, Totals

CONSTANTS Contract,
          Start, End,      \* contract -> its term when it was signed, in whole months
          Period,          \* contract -> cyclePeriodMinutes
          Credit,          \* contract -> net terms with their slip, 0 for a card
          Prepaid,         \* contract -> its invoices are recognized over months
          Gross, Fee,      \* contract -> amounts of an invoice
          Promise,         \* contract -> backlog of a deal that has not started
          Month,
          Slices,          \* months a prepaid invoice is recognized over
          ReserveOf(_),    \* the part of a card payment that is parked
          ReserveHold,     \* how long
          StageOpens,      \* days past due that open retry .. terminate
          MaxCatchUp,      \* billing.maxCatchUpInvoicesPerTick
          Books,           \* the sets of contracts a company may have
          Prunes,          \* whether the host lets settled invoices go
          Strides,         \* time between two ticks
          MaxNow           \* bound: time

ASSUME BillingAssumption ==
  /\ IsFiniteSet(Contract) /\ Books \subseteq SUBSET Contract
  /\ {Start, End, Credit, Promise} \subseteq [Contract -> Nat]
  /\ {Period, Gross} \subseteq [Contract -> Nat \ {0}] /\ Prepaid \in [Contract -> BOOLEAN]
  /\ \A c \in Contract : Start[c] < End[c] /\ Fee[c] \in 0..Gross[c]
  /\ {Month, Slices, ReserveHold, MaxCatchUp} \subseteq Nat \ {0} /\ MaxNow \in Nat /\ Strides \subseteq Nat
  /\ \A c \in Contract : ReserveOf(Gross[c] - Fee[c]) \in 0..Gross[c]
  /\ StageOpens \in [1..5 -> Nat] /\ \A i \in 1..4 : StageOpens[i] <= StageOpens[i + 1]

VARIABLES now,         \* EconomyState.lastBusinessMin
          econ,        \* contractEconomy
          invoices,    \* of a contract, in the order they were issued
          schedules,   \* unlockSchedules of a contract, in the order they were opened
          cash,        \* the buckets
          collected,   \* history: net receipts
          refunded,    \* history: prepaid money given back
          dark         \* history: contracts that were suspended at their term's end

billingVars == <<now, econ, invoices, schedules, cash, collected, refunded, dark>>

Contracts == DOMAIN econ
Bucket == {"free", "restricted", "deferred", "receivable", "backlog"}
NoMoney == [bucket \in Bucket |-> 0]
Net(c) == Gross[c] - Fee[c]

(* openContractEconomy: a deal that starts later is pending.               *)
Opened(c) ==
  [phase |-> IF Start[c] > 0 THEN "pending" ELSE "active",
   termEnd |-> End[c], anchor |-> Start[c], cycles |-> 0,
   backlog |-> IF Start[c] > 0 THEN Promise[c] ELSE 0, signed |-> FALSE]

BillingInit ==
  /\ now = 0
  /\ econ \in {[c \in book |-> Opened(c)] : book \in Books}
  /\ invoices = [c \in Contracts |-> <<>>] /\ schedules = [c \in Contracts |-> <<>>]
  /\ cash = NoMoney /\ collected = 0 /\ refunded = 0 /\ dark = {}

(* What a tick works on (the Working of tick.ts), as far as it is of c,    *)
(* with what the tick has posted for c so far.                             *)
Working(c) ==
  [deal |-> econ[c], invoices |-> invoices[c], schedules |-> schedules[c],
   free |-> 0, restricted |-> 0, deferred |-> 0, receivable |-> 0, backlog |-> 0,
   collected |-> 0, refunded |-> 0]

InPhase(phase) == {c \in Contracts : econ[c].phase = phase}

-----------------------------------------------------------------------------
(***************************************************************************)
(* Money that is held back: a prepaid invoice is recognized a slice a      *)
(* month, the reserve of a card payment comes free at once.                *)
(***************************************************************************)
Recognition(c, cycle, t) ==
  [cycle |-> cycle, reason |-> "recognition", total |-> Net(c), released |-> 0,
   slices |-> Slices, every |-> Month, next |-> t + Month]
Reserve(c, cycle, t) ==
  [cycle |-> cycle, reason |-> "reserve", total |-> ReserveOf(Net(c)), released |-> 0,
   slices |-> 1, every |-> ReserveHold, next |-> t + ReserveHold]

(* All releases that are due at t: slices are rounded half up.             *)
Rest(schedule) == schedule.total - schedule.released
Unreleased(schedule) == schedule.released < schedule.total
Slice(schedule) == (2 * schedule.total + schedule.slices) \div (2 * schedule.slices)
SlicesDue(schedule, t) ==
  IF t < schedule.next THEN 0 ELSE (t - schedule.next) \div schedule.every + 1
Due(schedule, t) ==
  LET due == SlicesDue(schedule, t) * Slice(schedule)
  IN  IF due < Rest(schedule) THEN due ELSE Rest(schedule)
Released(schedule, t) ==
  [schedule EXCEPT !.released = @ + Due(schedule, t), !.next = @ + SlicesDue(schedule, t) * schedule.every]

DueIn(book, reason, t) ==
  Total([k \in DOMAIN book |-> IF book[k].reason = reason THEN Due(book[k], t) ELSE 0])
HeldIn(book, reason) ==
  Total([k \in DOMAIN book |-> IF book[k].reason = reason THEN Rest(book[k]) ELSE 0])
AllReleased(book, t) == [k \in DOMAIN book |-> Released(book[k], t)]

(* releaseDueSchedules                                                     *)
ReleaseDue(work, t) ==
  LET earned == DueIn(work.schedules, "recognition", t)
      freed == DueIn(work.schedules, "reserve", t)
      after == AllReleased(work.schedules, t)
  IN  [work EXCEPT
         !.deferred = @ - earned, !.restricted = @ - freed, !.free = @ + earned + freed,
         !.schedules = Selected(after, {schedule \in ToSet(after) : Unreleased(schedule)})]

-----------------------------------------------------------------------------
(***************************************************************************)
(* The end of a contract: what was delivered is earned, the rest of what   *)
(* was prepaid goes back, and its backlog is gone.                         *)
(***************************************************************************)
ToClose(book) == {schedule \in ToSet(book) : schedule.reason = "recognition" /\ Unreleased(schedule)}
Closing(work) == Selected(work.schedules, ToClose(work.schedules))

(* Faulty variant: the refund forgets what is earned at the end.           *)
RefundOfAll(work, t) == HeldIn(Closing(work), "recognition")

RefundOf(work, t) == HeldIn(AllReleased(Closing(work), t), "recognition")

Terminated(work, t) ==
  LET earned == DueIn(Closing(work), "recognition", t)
      refund == RefundOf(work, t)
  IN  [work EXCEPT !.deal = [@ EXCEPT !.phase = "terminated", !.backlog = 0],
                   !.backlog = @ - work.deal.backlog,
                   !.deferred = @ - earned - refund, !.free = @ + earned,
                   !.schedules = Selected(@, ToSet(@) \ ToClose(@)), !.refunded = @ + refund]

(* Steps 1.5 to 5 of the tick: a pending deal is signed once and starts on *)
(* its day, churned contracts end, and an active contract whose term is    *)
(* over ends too or renews, with a new grid of cycles.                     *)
SignAndStart(work, c, t) ==
  LET deal == work.deal
      signing == ~deal.signed /\ deal.backlog > 0
  IN  IF deal.phase # "pending" THEN work
      ELSE [work EXCEPT !.backlog = IF signing THEN @ + deal.backlog ELSE @,
                        !.deal = [@ EXCEPT !.signed = deal.signed \/ signing,
                                           !.phase = IF t >= Start[c] THEN "active" ELSE "pending"]]

Churned(work, t, churns) ==
  IF churns /\ work.deal.phase = "active" THEN Terminated(work, t) ELSE work

Renewed(work, c) ==
  [work EXCEPT !.deal = [@ EXCEPT !.anchor = work.deal.termEnd, !.cycles = 0,
                                  !.termEnd = work.deal.termEnd + End[c] - Start[c]]]

AtCliff(work, t) == work.deal.phase = "active" /\ t >= work.deal.termEnd

OverCliff(work, c, t, renews) ==
  CASE ~AtCliff(work, t) -> work
    [] AtCliff(work, t) /\ renews -> Renewed(work, c)
    [] AtCliff(work, t) /\ ~renews -> Terminated(work, t)

(* Step 6, the invoice calendar: every cycle that has begun is billed, the *)
(* ones of a suspended contract included; the bill drains the backlog.     *)
CyclesDue(deal, c, t) ==
  LET begun == (t - deal.anchor) \div Period[c] + 1
  IN  IF t < deal.anchor \/ begun < deal.cycles THEN 0 ELSE begun - deal.cycles

Invoice(deal, c, cycle) ==
  [cycle |-> cycle, from |-> deal.anchor + cycle * Period[c],
   due |-> deal.anchor + cycle * Period[c] + Credit[c], state |-> "issued", stage |-> "none"]

Batch(deal, c, count) == [i \in 1..count |-> Invoice(deal, c, deal.cycles + i - 1)]

IssueDue(work, c, t) ==
  LET deal == work.deal
      due == CyclesDue(deal, c, t)
      count == IF due < MaxCatchUp THEN due ELSE MaxCatchUp
      drain == IF deal.backlog < count * Gross[c] THEN deal.backlog ELSE count * Gross[c]
  IN  IF deal.phase = "terminated" THEN work
      ELSE [work EXCEPT !.invoices = @ \o Batch(deal, c, count),
                        !.deal = [@ EXCEPT !.cycles = deal.cycles + count, !.backlog = deal.backlog - drain],
                        !.receivable = @ + count * Gross[c], !.backlog = @ - drain]

(* Faulty variant: the calendar runs before the terms are looked at.       *)
BilledBeforeCliffs(c, t, churns, renews) ==
  OverCliff(IssueDue(Churned(SignAndStart(Working(c), c, t), t, churns), c, t), c, t, renews)

Billed(c, t, churns, renews) ==
  IssueDue(OverCliff(Churned(SignAndStart(Working(c), c, t), t, churns), c, t, renews), c, t)

-----------------------------------------------------------------------------
(***************************************************************************)
(* Steps 7 and 8: every invoice is visited, and a visit acts on the first  *)
(* invoice that carries the same id: after a renewal the cycle numbers,    *)
(* and with them the ids, begin anew.                                      *)
(***************************************************************************)
Twins(book, slot) == {i \in DOMAIN book : book[i].cycle = book[slot].cycle}

(* Faulty variant: the index keeps the last place of an id.                *)
LastTwin(book, slot) == Max(Twins(book, slot))

FirstTwin(book, slot) == Min(Twins(book, slot))

(* settleInvoice: the net lands free or deferred, a card's reserve is      *)
(* parked.                                                                 *)
Parked(c) == IF Credit[c] = 0 THEN ReserveOf(Net(c)) ELSE 0

Marked(book, i, state) == [book EXCEPT ![i] = [@ EXCEPT !.state = state]]
Staged(book, i, stage) == [book EXCEPT ![i] = [@ EXCEPT !.stage = stage]]

Parking(book, c, cycle, t) == IF Parked(c) > 0 THEN Append(book, Reserve(c, cycle, t)) ELSE book
Deferring(book, c, cycle, t) == IF Prepaid[c] THEN Append(book, Recognition(c, cycle, t)) ELSE book

Collect(work, i, c, t) ==
  LET cycle == work.invoices[i].cycle
  IN  [work EXCEPT !.invoices = Marked(@, i, "paid"),
                   !.receivable = @ - Gross[c],
                   !.free = IF Prepaid[c] THEN @ - Parked(c) ELSE @ + Net(c) - Parked(c),
                   !.deferred = IF Prepaid[c] THEN @ + Net(c) ELSE @,
                   !.restricted = @ + Parked(c),
                   !.schedules = Deferring(Parking(@, c, cycle, t), c, cycle, t),
                   !.collected = @ + Net(c)]

Stage == {"none", "failed", "retry", "reminder", "warning", "suspend", "terminate"}

(* stageForDaysPastDue                                                     *)
StageFor(pastDue) ==
  CASE pastDue >= StageOpens[5] -> "terminate"
    [] pastDue \in StageOpens[4]..StageOpens[5] - 1 -> "suspend"
    [] pastDue \in StageOpens[3]..StageOpens[4] - 1 -> "warning"
    [] pastDue \in StageOpens[2]..StageOpens[3] - 1 -> "reminder"
    [] pastDue \in StageOpens[1]..StageOpens[2] - 1 -> "retry"
    [] pastDue < StageOpens[1] -> "failed"

(* Faulty variant: a recovery leaves the service suspended.                *)
RecoveredInTheDark(work, i, c, t) == Collect(work, i, c, t)

Turned(work, from, to) ==
  IF work.deal.phase = from THEN [work EXCEPT !.deal = [@ EXCEPT !.phase = to]] ELSE work

(* A recovered invoice brings a suspended contract back.                   *)
Recovered(work, i, c, t) == Turned(Collect(work, i, c, t), "suspended", "active")

WithoutDebt(work, i, c) ==
  [work EXCEPT !.invoices = Marked(@, i, "written-off"), !.receivable = @ - Gross[c]]
WrittenOff(work, i, c, t) == Terminated(WithoutDebt(work, i, c), t)

Climbed(work, i, stage) == [work EXCEPT !.invoices = Staged(@, i, stage)]

(* advanceDunningLadder: the ladder goes straight to the stage of the day, *)
(* and one roll decides whether the payer comes back.                      *)
Dunned(work, i, c, t, recovers) ==
  LET invoice == work.invoices[i]
      stage == StageFor(t - invoice.due)
      stepped == Climbed(work, i, stage)
  IN  CASE stage = invoice.stage -> work
        [] stage # invoice.stage /\ recovers -> Recovered(stepped, i, c, t)
        [] stage # invoice.stage /\ ~recovers /\ stage = "terminate" -> WrittenOff(stepped, i, c, t)
        [] stage # invoice.stage /\ ~recovers /\ stage = "suspend" ->
             Turned(stepped, "active", "suspended")
        [] stage # invoice.stage /\ ~recovers /\ stage \notin {"suspend", "terminate"} -> stepped

IsDue(invoice, t) == invoice.state = "issued" /\ invoice.due <= t
Declined(work, i) == [work EXCEPT !.invoices = Staged(Marked(@, i, "failed"), i, "failed")]

(* Faulty variant: contracts that ended are asked to pay.                  *)
VisitTheDead(work, slot, c, t, declined, recovered) ==
  LET i == FirstTwin(work.invoices, slot)
      invoice == work.invoices[i]
  IN  CASE IsDue(invoice, t) /\ i \notin declined -> Collect(work, i, c, t)
        [] IsDue(invoice, t) /\ i \in declined -> Declined(work, i)
        [] invoice.state = "failed" -> Dunned(work, i, c, t, i \in recovered)
        [] OTHER -> work

Visit(work, slot, c, t, declined, recovered) ==
  LET i == FirstTwin(work.invoices, slot)
      invoice == work.invoices[i]
  IN  CASE work.deal.phase = "terminated" -> work
        [] work.deal.phase # "terminated" /\ IsDue(invoice, t) ->
             IF i \in declined THEN Declined(work, i) ELSE Collect(work, i, c, t)
        [] work.deal.phase # "terminated" /\ invoice.state = "failed" ->
             Dunned(work, i, c, t, i \in recovered)
        [] work.deal.phase # "terminated" /\ ~IsDue(invoice, t) /\ invoice.state # "failed" -> work

Sweep(work, c, t, declined, recovered) ==
  LET swept[slot \in 0..Len(work.invoices)] ==
        IF slot = 0 THEN work ELSE Visit(swept[slot - 1], slot, c, t, declined, recovered)
  IN  swept[Len(work.invoices)]

(* partitionPrunableInvoices: what is settled and no schedule names goes.  *)
IsOwed(invoice) == invoice.state \in {"issued", "failed"}
Kept(book, live) ==
  LET Needed(invoice) == IsOwed(invoice) \/ \E k \in DOMAIN live : live[k].cycle = invoice.cycle
  IN  Selected(book, {invoice \in ToSet(book) : Needed(invoice)})

-----------------------------------------------------------------------------
RollsAMonth(t) == t \div Month > now \div Month

(* The dice that are rolled, as pairs of a contract and a slot.            *)
Asked(work, t) ==
  UNION {{c} \X {i \in DOMAIN work[c].invoices : IsDue(work[c].invoices[i], t)} : c \in Contracts}
Climbs(invoice, t) == invoice.state = "failed" /\ StageFor(t - invoice.due) # invoice.stage
Climbing(work, t) ==
  UNION {{c} \X {i \in DOMAIN work[c].invoices : Climbs(work[c].invoices[i], t)} : c \in Contracts}
Of(c, rolled) == {roll[2] : roll \in {r \in rolled : r[1] = c}}

Posted(work, bucket) == Total([c \in Contracts |-> work[c][bucket]])

EconomyTick ==
  \E t \in {now + stride : stride \in Strides} :
    /\ t <= MaxNow  \* bound
    /\ \E churned \in SUBSET (IF RollsAMonth(t) THEN Contracts \ InPhase("terminated") ELSE {}),
          renewing \in SUBSET {c \in Contracts : t >= econ[c].termEnd} :
       \E billed \in {[c \in Contracts |-> Billed(c, t, c \in churned, c \in renewing)]} :
       \E declined \in SUBSET Asked(billed, t), prune \in Prunes :
       \E recovered \in SUBSET (Climbing(billed, t) \cup declined) :
       \E done \in {[c \in Contracts |->
                     ReleaseDue(Sweep(billed[c], c, t, Of(c, declined), Of(c, recovered)), t)]} :
         /\ econ' = [c \in Contracts |-> done[c].deal]
         /\ invoices' = [c \in Contracts |->
                           IF prune THEN Kept(done[c].invoices, done[c].schedules) ELSE done[c].invoices]
         /\ schedules' = [c \in Contracts |-> done[c].schedules]
         /\ cash' = [bucket \in Bucket |-> cash[bucket] + Posted(done, bucket)]
         /\ collected' = collected + Total([c \in Contracts |-> done[c].collected])
         /\ refunded' = refunded + Total([c \in Contracts |-> done[c].refunded])
         /\ dark' = dark \cup {c \in InPhase("suspended") : t >= econ[c].termEnd}
    /\ now' = t

BillingSpec == BillingInit /\ [][EconomyTick]_billingVars

-----------------------------------------------------------------------------
(* Types: the money of every bucket but the free one is a natural number,  *)
(* and a schedule that is kept has something left to release.              *)
BillingTypeOK ==
  /\ now \in 0..MaxNow /\ {collected, refunded} \subseteq Nat /\ dark \subseteq Contracts
  /\ Contracts \in Books /\ DOMAIN invoices = Contracts /\ DOMAIN schedules = Contracts
  /\ cash \in [Bucket -> Int] /\ \A bucket \in Bucket \ {"free"} : cash[bucket] >= 0
  /\ \A c \in Contracts :
       /\ econ[c] \in [phase : {"pending", "active", "suspended", "terminated"}, termEnd : Nat,
                        anchor : Nat, cycles : Nat, backlog : Nat, signed : BOOLEAN]
       /\ invoices[c] \in Seq([cycle : Nat, from : Nat, due : Nat, stage : Stage,
                                state : {"issued", "failed", "paid", "written-off"}])
       /\ \A k \in DOMAIN schedules[c] : Unreleased(schedules[c][k]) /\ schedules[c][k].released \in Nat

OwedIn(book, c) == Total([i \in DOMAIN book |-> IF IsOwed(book[i]) THEN Gross[c] ELSE 0])
Pledged(deal) == IF deal.signed THEN deal.backlog ELSE 0

(* The buckets and the book never disagree: receivables are the open       *)
(* invoices, twins included, backlog is what signed deals have not been    *)
(* billed, deferred and restricted money is what the schedules have not    *)
(* released, and the bank holds what was collected and not refunded.       *)
BucketsMatchTheBook ==
  /\ cash.receivable = Total([c \in Contracts |-> OwedIn(invoices[c], c)])
  /\ cash.backlog = Total([c \in Contracts |-> Pledged(econ[c])])
  /\ cash.deferred = Total([c \in Contracts |-> HeldIn(schedules[c], "recognition")])
  /\ cash.restricted = Total([c \in Contracts |-> HeldIn(schedules[c], "reserve")])
  /\ cash.free + cash.restricted + cash.deferred = collected - refunded

(* A contract that ended has nothing deferred and no backlog left: no      *)
(* payment, release or bill after its end brings either back.              *)
NothingDeferredForTheDead ==
  \A c \in InPhase("terminated") :
    econ[c].backlog = 0 /\ \A k \in DOMAIN schedules[c] : schedules[c][k].reason # "recognition"

(* A service is dark only as long as one of its invoices is at the stage   *)
(* that turned it off.                                                     *)
SuspendedContractsOwe ==
  \A c \in InPhase("suspended") : \E i \in DOMAIN invoices[c] :
    invoices[c][i].state = "failed" /\ invoices[c][i].stage = "suspend"

(* Dunning keeps pace: after a tick every invoice of a live contract that  *)
(* is due, the ones issued in the tick included, was paid, was declined in *)
(* this very tick, or stands at the stage of its day, whatever is paid,    *)
(* renewed or pruned around it.  One that shares its id with an older      *)
(* invoice of the contract is excepted.                                    *)
IsFirst(book, i) == \A k \in 1..i - 1 : book[k].cycle # book[i].cycle
OwnsItsId(book, invoice) ==
  \A i \in DOMAIN book : book[i].cycle = invoice.cycle /\ IsFirst(book, i) => book[i].from = invoice.from
HadFailed(book, invoice) ==
  \E i \in DOMAIN book :
    book[i].cycle = invoice.cycle /\ book[i].from = invoice.from /\ book[i].state = "failed"
KeepsPace(book, invoice, t) ==
  /\ invoice.state # "issued"
  /\ invoice.state = "failed" =>
       \/ invoice.stage = StageFor(t - invoice.due)
       \/ invoice.stage = "failed" /\ ~HadFailed(book, invoice)
OverdueIsDunned ==
  [][\A c \in Contracts : \A j \in DOMAIN invoices'[c] :
       LET invoice == invoices'[c][j]
       IN  invoice.due <= now' /\ econ'[c].phase # "terminated" /\ OwnsItsId(invoices[c], invoice)
           => KeepsPace(invoices[c], invoice, now')
    ]_billingVars

(* A period is billed once and inside the term, over renewals and pauses,  *)
(* as long as the contract was not suspended when its term ended.          *)
PeriodsAreBilledOnce ==
  \A c \in Contracts \ dark : \A i, j \in DOMAIN invoices[c] :
    /\ invoices[c][i].from < econ[c].termEnd
    /\ invoices[c][j].from = invoices[c][i].from => i = j

(* A lapse never writes a zombie invoice: a contract that ended without a  *)
(* write-off has no invoice for a period after its term.                   *)
NoZombieInvoice ==
  \A c \in InPhase("terminated") :
    (\A k \in DOMAIN invoices[c] : invoices[c][k].state # "written-off")
    => \A i \in DOMAIN invoices[c] : invoices[c][i].from < econ[c].termEnd
=============================================================================
