------------------------------- MODULE MCRelay -------------------------------
(* The relay on a small room: three participants compete for two seats. *)
EXTENDS CoopRelay

MCParticipant == 1..3
MCKind == {"action", "note"}
=============================================================================
