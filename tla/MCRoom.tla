------------------------------- MODULE MCRoom -------------------------------
(***************************************************************************)
(* Rooms of two participants with one kind of record.                      *)
(***************************************************************************)
EXTENDS CoopRoom

MCParticipant == 1..2
=============================================================================
