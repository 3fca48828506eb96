------------------------------ MODULE HostSim -------------------------------
(***************************************************************************)
(* The host-sim topology of tools/host/src/simLoop.ts: the host owns the   *)
(* simulation.  step() advances the relay clock, drains the hub, feeds the *)
(* records stamped since the last step to the intent door, advances the    *)
(* tick driver and publishes fresh seat states.  An error anywhere leaves  *)
(* step() where it is; the caller of pump() may go on.                     *)
(*                                                                         *)
(* A record of kind "garbled" is an action whose verb is known and whose   *)
(* arguments the door's parseEntry refuses to read: the relay stamps it    *)
(* (it looks at the verb only), the door throws.                           *)
(***************************************************************************)
EXTENDS RelayHub, SequencesExt, Selections

CONSTANTS Frames,    \* the frames clients send
          MaxQueue   \* bound: frames waiting at the hub

ASSUME HostSimAssumption == MaxQueue \in Nat /\ ~AutoCatchUpOnJoin

VARIABLES simTick,          \* tick of the host's game state
          lastConsumedSeq,  \* cursor into the shared log
          executed,         \* records the door executed, in order
          refused,          \* records the door refused as stamped in the future
          stepping          \* step() has advanced the clock and not returned

simVars == <<simTick, lastConsumedSeq, executed, refused, stepping>>
hostSimVars == <<hubVars, simVars>>

IsAction(record) == record.kind \in {"action", "garbled"}

SimInit ==
  /\ HubInit
  /\ simTick = 0
  /\ lastConsumedSeq = -1
  /\ executed = <<>>
  /\ refused = <<>>
  /\ stepping = FALSE

(* A client's frame arrives. *)
Arrive(frame) ==
  /\ Idle
  /\ ~stepping
  /\ Len(hubInbox) < MaxQueue  \* bound
  /\ hubInbox' = Append(hubInbox, frame)
  /\ UNCHANGED <<relayVars, batch, simVars>>

(* drain() called between two steps: records are stamped at the clock of   *)
(* the last step.                                                          *)
DrainBetweenSteps == ~stepping /\ Poll /\ UNCHANGED <<relayVars, simVars>>

StepBegins ==
  /\ Idle
  /\ ~stepping
  /\ currentTick < MaxTick  \* bound
  /\ AdvanceTo(currentTick + 1)
  /\ batch' = hubInbox
  /\ hubInbox' = <<>>
  /\ stepping' = TRUE
  /\ UNCHANGED <<simTick, lastConsumedSeq, executed, refused>>

Dispatch ==
  /\ \/ \E p \in Participant : HandleJoin(p)
     \/ \E p \in Participant : HandleLeave(p)
     \/ \E p \in Participant, kind \in Kind, doorShaped \in BOOLEAN : HandleSubmit(p, kind, doorShaped)
     \/ RecordFault
  /\ UNCHANGED simVars

(* A SaveError leaves drain(), and step() with it. *)
DrainFails == Escape /\ stepping' = FALSE /\ UNCHANGED <<simTick, lastConsumedSeq, executed, refused>>

Fresh == Selected(log, {record \in ToSet(log) : record.seq > lastConsumedSeq})

Feed == Selected(Fresh, {record \in ToSet(Fresh) : IsAction(record)})

(* Faulty variant: the cursor is the next seq expected. *)
CursorPast(fresh) == IF fresh = <<>> THEN lastConsumedSeq ELSE fresh[Len(fresh)].seq + 1

CursorAfter(fresh) == IF fresh = <<>> THEN lastConsumedSeq ELSE fresh[Len(fresh)].seq

(* The door executes what is due at the tick it advances to and refuses    *)
(* what is stamped later.                                                  *)
Due == {record \in ToSet(Feed) : record.tick <= simTick + 1}

(* Faulty variant: the cursor stays where it was. *)
StepEndsWithoutCursor ==
  /\ stepping /\ Idle
  /\ stepping' = FALSE
  /\ simTick' = simTick + 1
  /\ executed' = executed \o Selected(Feed, Due)
  /\ refused' = refused \o Selected(Feed, ToSet(Feed) \ Due)
  /\ UNCHANGED <<hubVars, lastConsumedSeq>>

(* Feed, advance, publish.  publish() finds no ledger in a room nobody     *)
(* ever joined, and throws: the state it leaves behind is the same.        *)
StepEnds ==
  /\ stepping /\ Idle
  /\ stepping' = FALSE
  /\ lastConsumedSeq' = CursorAfter(Fresh)
  /\ \A i \in DOMAIN Feed : Feed[i].kind # "garbled"
  /\ simTick' = simTick + 1
  /\ executed' = executed \o Selected(Feed, Due)
  /\ refused' = refused \o Selected(Feed, ToSet(Feed) \ Due)
  /\ UNCHANGED hubVars

(* The door throws on a garbled record before anything executed; the       *)
(* cursor has moved already.                                               *)
FeedFails ==
  /\ stepping /\ Idle
  /\ stepping' = FALSE
  /\ lastConsumedSeq' = CursorAfter(Fresh)
  /\ \E i \in DOMAIN Feed : Feed[i].kind = "garbled"
  /\ UNCHANGED <<hubVars, simTick, executed, refused>>

SimNext ==
  \/ \E frame \in Frames : Arrive(frame)
  \/ DrainBetweenSteps
  \/ StepBegins
  \/ Dispatch
  \/ DrainFails
  \/ StepEnds
  \/ FeedFails

SimSpec == SimInit /\ [][SimNext]_hostSimVars

-----------------------------------------------------------------------------
(* The door's two record lists and the cursor stay in their types.         *)
SimTypeOK ==
  /\ executed \in Seq(Record) /\ refused \in Seq(Record)
  /\ simTick \in 0..currentTick
  /\ lastConsumedSeq \in -1..(nextSeq - 1)

(* Ticks the stamp clock has gained on the simulation outside a step.      *)
Skew == currentTick - simTick - (IF stepping THEN 1 ELSE 0)

(* The door sees a record at most once, in stamp order, and never one the  *)
(* cursor has not passed - whatever was drained inside or between the      *)
(* steps, and whichever steps failed.  As long as no step failed it sees   *)
(* each at least once: every action behind the cursor was executed, and    *)
(* none was refused as stamped in the future.                              *)
FedExactlyOnceInOrder ==
  /\ \A i, j \in DOMAIN executed : i < j => executed[i].seq < executed[j].seq
  /\ \A i \in DOMAIN executed : executed[i] \in ToSet(log) /\ executed[i].seq <= lastConsumedSeq
  /\ Skew = 0 =>
       /\ refused = <<>>
       /\ \A i \in DOMAIN log :
            log[i].kind = "action" /\ log[i].seq <= lastConsumedSeq => log[i] \in ToSet(executed)
=============================================================================
