------------------------------ MODULE MCServer ------------------------------
(***************************************************************************)
(* The socket host, the tick of the simulation and the billing of its      *)
(* economy, each with variables of its own.  A behaviour is one of a       *)
(* single subject, chosen at its start; the variables of the others keep   *)
(* their initial values, of which one is taken.                            *)
(*                                                                         *)
(* WsHost: two seats, interchangeable sockets, one kind of record.         *)
(* TickPipeline: two nodes in a row, the first one depending on the        *)
(* second.  Billing: a contract paid by card, one with net terms that      *)
(* starts later, and one prepaid for its whole term, one per behaviour.    *)
(***************************************************************************)
EXTENDS WsHost, TickPipeline, Billing

CONSTANT Subjects
VARIABLE subject

MCParticipant == 1..2
MCSymmetry == Permutations(Socket)

MCNode == {1, 2}
MCSlots == [n \in MCNode |-> IF n = 1 THEN 2 ELSE 1]
MCDownstream == [n \in MCNode |-> IF n = 1 THEN 2 ELSE 0]
MCServiceTicks == [n \in MCNode |-> n]
MCEdges == {<<1, 2>>}
MCPaths == {<<1, 2>>}
MCShortPath == {<<2>>}
MCSlowService == [n \in MCNode |-> 5]
MCQuiet == {[fenced |-> {}, throttled |-> {}, dropped |-> {}]}
MCRegimes == MCQuiet \cup
  {[fenced |-> {1}, throttled |-> {}, dropped |-> {1}],
   [fenced |-> {}, throttled |-> {1}, dropped |-> {}]}

MCContract == {"card", "invoiced", "prepaid"}
MCStart == [c \in MCContract |-> IF c = "invoiced" THEN 3 ELSE 0]
MCEnd == [c \in MCContract |-> IF c = "invoiced" THEN 15 ELSE 12]
MCPeriod == [c \in MCContract |-> IF c = "prepaid" THEN 12 ELSE 6]
MCCredit == [c \in MCContract |-> IF c = "card" THEN 0 ELSE 9]
MCPrepaid == [c \in MCContract |-> c = "prepaid"]
MCGross == [c \in MCContract |-> 7]
MCFee == [c \in MCContract |-> 1]
MCPromise == [c \in MCContract |-> 10]
MCReserveOf(net) == 1
MCStageOpens == <<1, 1, 2, 2, 4>>

ServerInit ==
  /\ subject \in Subjects /\ HostInit /\ PipelineInit /\ BillingInit
  /\ subject # "sockets" => orderly
  /\ subject # "tick" => indexed
  /\ subject # "billing" => Contracts = {"card"}

ServerNext ==
  /\ UNCHANGED subject
  /\ \/ subject = "sockets" /\ HostNext /\ UNCHANGED <<pipelineVars, billingVars>>
     \/ subject = "tick" /\ PipelineNext /\ UNCHANGED <<hostVars, billingVars>>
     \/ subject = "billing" /\ EconomyTick /\ UNCHANGED <<hostVars, pipelineVars>>

ServerSpec == ServerInit /\ [][ServerNext]_<<subject, hostVars, pipelineVars, billingVars>>

(* The board and the memory of the driver, and the buckets, contracts and  *)
(* invoices of the economy stay in their types.                            *)
ServerTypeOK == PipelineTypeOK /\ BillingTypeOK
=============================================================================
