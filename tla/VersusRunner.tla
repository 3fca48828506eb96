---------------------------- MODULE VersusRunner ----------------------------
(***************************************************************************)
(* The memoized runner of a Versus duel: createVersusRunner and the engine *)
(* it keeps, packages/sim-core/src/versus/match.ts.  The replay harness    *)
(* asks it for the state of a run at a tick, given the log of stamped      *)
(* intents, and takes the runner for a pure function of its request.  The  *)
(* runner keeps one engine at the furthest tick asked for and a snapshot   *)
(* of every tick on the way.                                               *)
(*                                                                         *)
(* The state of a duel after a tick is what fired on every tick up to it,  *)
(* which tells apart all that any simulation could.  Entries of a log are  *)
(* distinct objects, so what enqueueIntents has not seen is what lies      *)
(* behind the watermark: the queue of the engine is the watermark.         *)
(***************************************************************************)
EXTENDS Integers, Sequences

CONSTANTS StampedIntent,     \* stamped intents
          TickOf,         \* per intent, the tick it is stamped at
          Requests        \* bound: the requests, a tick and a log

Logs ==
  {log \in Seq(StampedIntent) :
     \A i, j \in DOMAIN log : log[i] = log[j] => i = j}

ASSUME RunnerAssumption ==
  /\ TickOf \in [StampedIntent -> Nat]
  /\ \A request \in Requests : request.tick \in Nat /\ request.log \in Logs

VARIABLES memoOn, watermark, cursor, snapshots,
          answer  \* the last request and the state it was answered with

runnerVars == <<memoOn, watermark, cursor, snapshots, answer>>

(* What tick t fires, in the order of the log.                             *)
Fired(log, t) == [i \in {j \in DOMAIN log : TickOf[log[j]] = t} |-> log[i]]

(* simulateVersus: a run from the start with the whole log.                *)
Naive(tick, log) == [t \in 1..tick |-> Fired(log, t)]

RunnerInit ==
  /\ memoOn = TRUE
  /\ watermark = <<>> /\ cursor = 0
  /\ snapshots = [t \in {0} |-> Naive(0, <<>>)]
  /\ answer = [tick |-> 0, log |-> <<>>, state |-> Naive(0, <<>>)]

-----------------------------------------------------------------------------
Answer(request, state) ==
  answer' = [tick |-> request.tick, log |-> request.log, state |-> state]

(* Law check 1: the shared heads of the two logs are the same objects.     *)
OneLog(log) ==
  \A i \in DOMAIN log \cap DOMAIN watermark : log[i] = watermark[i]

(* Law check 2: an intent shows up whose tick the engine is past.          *)
LateReveal(log) ==
  \E i \in DOMAIN log \ DOMAIN watermark : TickOf[log[i]] <= cursor

(* Faulty variant of law check 3: the tick asked for has not fired yet.    *)
RivalBefore(request) ==
  \E i \in DOMAIN watermark \ DOMAIN request.log :
    TickOf[watermark[i]] < request.tick

(* Law check 3: the engine knows an intent the request denies.             *)
RivalPrefix(request) ==
  \E i \in DOMAIN watermark \ DOMAIN request.log :
    TickOf[watermark[i]] <= request.tick

(* The engine at tick `from` advances to `to`; a snapshot after each tick. *)
Advanced(captured, from, to, queue) ==
  [t \in DOMAIN captured \cup 0..to |->
     IF t <= from THEN captured[t]
     ELSE [u \in 1..t |->
             IF u <= from THEN captured[from][u] ELSE Fired(queue, u)]]

Longer(log) == IF Len(log) > Len(watermark) THEN log ELSE watermark
Furthest(a, b) == IF a < b THEN b ELSE a

(* The answer comes from the engine, that starts from `captured` at tick   *)
(* `from` and knows the longer of the two logs.                            *)
Serve(request, captured, from) ==
  LET queue == Longer(request.log)
      now == Advanced(captured, from, Furthest(from, request.tick), queue)
  IN  /\ watermark' = queue
      /\ cursor' = Furthest(from, request.tick)
      /\ snapshots' = now
      /\ Answer(request, now[request.tick])
      /\ UNCHANGED memoOn

Probe(request) ==
  /\ memoOn /\ OneLog(request.log)
  /\ ~LateReveal(request.log) /\ ~RivalPrefix(request)
  /\ Serve(request, snapshots, cursor)

(* A late reveal replaces the engine and its snapshots.                    *)
Rebuild(request) ==
  /\ memoOn /\ OneLog(request.log)
  /\ LateReveal(request.log)
  /\ Serve(request, [t \in {0} |-> Naive(0, <<>>)], 0)

(* Two logs: the runner is naive from now on.                              *)
Degrade(request) ==
  /\ memoOn
  /\ ~OneLog(request.log) \/ RivalPrefix(request)
  /\ memoOn' = FALSE
  /\ Answer(request, Naive(request.tick, request.log))
  /\ UNCHANGED <<watermark, cursor, snapshots>>

AskNaive(request) ==
  /\ ~memoOn
  /\ Answer(request, Naive(request.tick, request.log))
  /\ UNCHANGED <<memoOn, watermark, cursor, snapshots>>

RunnerNext ==
  \E request \in Requests :
    Probe(request) \/ Rebuild(request) \/ Degrade(request) \/ AskNaive(request)

RunnerSpec == RunnerInit /\ [][RunnerNext]_runnerVars

-----------------------------------------------------------------------------
RunnerTypeOK ==
  /\ memoOn \in BOOLEAN
  /\ watermark \in Logs
  /\ cursor \in Nat
  /\ 0..cursor \subseteq DOMAIN snapshots

(* "The caller pays time, never a wrong answer" (match.ts, the intent-log  *)
(* law): whatever was asked before, with whatever logs, a request is       *)
(* answered with the state a fresh run of its own log reaches.             *)
MemoAnswersNaive == answer.state = Naive(answer.tick, answer.log)
=============================================================================
