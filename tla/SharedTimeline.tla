--------------------------- MODULE SharedTimeline ---------------------------
(***************************************************************************)
(* What a co-op room promises its seats: one append-only timeline; whoever *)
(* is in the room sees all of it, in order, and whoever left keeps the     *)
(* part that was there when they left.  CoopRelay with catch-up on join    *)
(* implements this specification.                                          *)
(***************************************************************************)
EXTENDS Naturals, Sequences, FiniteSets

CONSTANTS Reader, Entry, Capacity

VARIABLES timeline, view, live

vars == <<timeline, view, live>>

Init ==
  /\ timeline = <<>>
  /\ view = [p \in Reader |-> <<>>]
  /\ live = {}

(* An author who is in the room writes an entry no slot of which is taken. *)
Write(e) ==
  /\ e.participantId \in live
  /\ \A i \in DOMAIN timeline : timeline[i].seq < e.seq
  /\ timeline' = Append(timeline, e)
  /\ view' = [p \in Reader |-> IF p \in live THEN timeline' ELSE view[p]]
  /\ UNCHANGED live

Enter(p) ==
  /\ p \notin live
  /\ Cardinality(live) < Capacity
  /\ live' = live \cup {p}
  /\ view' = [view EXCEPT ![p] = timeline]
  /\ UNCHANGED timeline

Leave(p) ==
  /\ p \in live
  /\ live' = live \ {p}
  /\ UNCHANGED <<timeline, view>>

Next ==
  \/ \E e \in Entry : Write(e)
  \/ \E p \in Reader : Enter(p) \/ Leave(p)

Spec == Init /\ [][Next]_vars
=============================================================================
