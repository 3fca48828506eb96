----------------------------- MODULE MCSeatSims -----------------------------
(***************************************************************************)
(* Two seats with a simulation each.                                       *)
(***************************************************************************)
EXTENDS SeatSims

MCParticipant == 1..2
=============================================================================
