------------------------------ MODULE Selections ------------------------------
(***************************************************************************)
(* Array.prototype.filter, as the code uses it on arrays of records.       *)
(***************************************************************************)
EXTENDS Integers, Sequences

(* The elements of s that are in keep, in the order in which s has them.   *)
Selected(s, keep) ==
  LET kept[k \in 0..Len(s)] ==
        IF k = 0 THEN <<>>
        ELSE IF s[k] \in keep THEN Append(kept[k - 1], s[k]) ELSE kept[k - 1]
  IN  kept[Len(s)]
=============================================================================
