------------------------------- MODULE MCDesk -------------------------------
(***************************************************************************)
(* The host's simulation, the door, the capacity of a node, the policy     *)
(* book, a draft and the runner of a duel, each with variables of its own. *)
(* A behaviour is one of a single subject, chosen at its start; the        *)
(* variables of the others keep their initial values.                      *)
(*                                                                         *)
(* HostSim: one participant that comes and goes, acts, writes notes and    *)
(* acts with arguments the door cannot read; who wrote a record is nothing *)
(* to the feed.  IntentDoor: three devices, the third not placed yet, and  *)
(* cables that can close a loop of two or three.  NodeCapacity: one node.  *)
(* PolicyBook: a rule that asks and one that acts after a while or asks    *)
(* when the metric grows.  VersusDraft: drafts of three to five picks,    *)
(* some with a last slot of one point.  VersusRunner: the logs of one      *)
(* intent at tick 1 and two at tick 2, asked for ticks up to 2.            *)
(***************************************************************************)
EXTENDS HostSim, IntentDoor, NodeCapacity, PolicyBook, VersusDraft, VersusRunner

CONSTANT Subjects
VARIABLE subject

MCParticipant == {1}
MCFrames ==
  {JoinFrame(1), LeaveFrame(1), SubmitFrame(1, "action", TRUE), SubmitFrame(1, "note", TRUE),
   SubmitFrame(1, "garbled", TRUE)}

MCDevice == {"a", "b", "c"}
MCCable == 1..5
MCCableFrom == <<"a", "b", "c", "c", "a">>
MCCableTo == <<"b", "c", "a", "b", "b">>
MCCableSocket == <<1, 1, 1, 1, 2>>
MCPowerCable == {1, 2, 3, 4}
MCHandCost == [verb \in Verb |-> IF verb = "toggle-speed" THEN 0 ELSE 1]
MCOccupancy ==
  [verb \in Verb |-> CASE verb \in {"place-device", "connect-ports"} -> 3
                       [] verb \in {"disconnect-drain", "communicate"} -> 2
                       [] verb = "toggle-speed" -> 0
                       [] OTHER -> 1]

MCCard(when, unless, window, band, onGuard) ==
  [when |-> when, unless |-> unless, window |-> window, band |-> band, onGuard |-> onGuard]
MCCards ==
  [r \in Rule |->
     IF r = "ask" THEN {MCCard({"above"}, {}, 0, "consult", "block")}
     ELSE {MCCard({"above"}, {"changed"}, 2, "execute", "consult"),
           MCCard({"advanced"}, {}, 0, "consult", "block")}]
MCStartBook == <<"ask">>

MCThreat == 1..5
MCDraftAsks ==
  {[budget |-> 45, slot |-> 10], [budget |-> 41, slot |-> 20],
   [budget |-> 40, slot |-> 15], [budget |-> 9, slot |-> 2]}

MCTickOf == [intent \in StampedIntent |-> IF intent = "first" THEN 1 ELSE 2]
MCLogs ==
  {intents \in UNION {[1..n -> StampedIntent] : n \in 0..3} :
     \A i, j \in DOMAIN intents : intents[i] = intents[j] => i = j}
MCRequests == [tick : 0..2, log : MCLogs]

DeskInit ==
  /\ subject \in Subjects
  /\ SimInit /\ DoorInit /\ CapInit
  /\ PolicyInit /\ DraftInit /\ RunnerInit
  /\ subject # "draft" => draftAsk = [budget |-> 45, slot |-> 10]

DeskNext ==
  /\ UNCHANGED subject
  /\ \/ /\ subject = "host" /\ SimNext
        /\ UNCHANGED <<doorVars, capVars, policyVars, draftVars, runnerVars>>
     \/ /\ subject = "door" /\ DoorNext
        /\ UNCHANGED <<hostSimVars, capVars, policyVars, draftVars, runnerVars>>
     \/ /\ subject = "node" /\ CapNext
        /\ UNCHANGED <<hostSimVars, doorVars, policyVars, draftVars, runnerVars>>
     \/ /\ subject = "policy" /\ PolicyNext
        /\ UNCHANGED <<hostSimVars, doorVars, capVars, draftVars, runnerVars>>
     \/ /\ subject = "draft" /\ DraftNext
        /\ UNCHANGED <<hostSimVars, doorVars, capVars, policyVars, runnerVars>>
     \/ /\ subject = "duel" /\ RunnerNext
        /\ UNCHANGED <<hostSimVars, doorVars, capVars, policyVars, draftVars>>

deskVars ==
  <<subject, hostSimVars, doorVars, capVars, policyVars, draftVars, runnerVars>>

DeskSpec == DeskInit /\ [][DeskNext]_deskVars

(* The cursor and the lists of the host's door, the rail and the pool, the *)
(* roster and the recovery record of a node, the clocks of the policy      *)
(* book, the costs of a draft and the snapshots of a duel stay in their    *)
(* types.                                                                  *)
DeskTypeOK ==
  /\ SimTypeOK /\ DoorTypeOK /\ CapTypeOK
  /\ PolicyTypeOK /\ DraftTypeOK /\ RunnerTypeOK
=============================================================================
