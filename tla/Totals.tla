-------------------------------- MODULE Totals --------------------------------
(***************************************************************************)
(* The sum of a family of integers, as the code builds it by adding its    *)
(* members one after the other.  It is a recursive function, not a fold,   *)
(* so that the provers can follow it.                                      *)
(***************************************************************************)
EXTENDS Integers

OneOf(part) == CHOOSE x \in part : TRUE

(* The sum of amount over its domain.                                      *)
Total(amount) ==
  LET total[part \in SUBSET DOMAIN amount] ==
        IF part = {} THEN 0
        ELSE amount[OneOf(part)] + total[part \ {OneOf(part)}]
  IN  total[DOMAIN amount]
=============================================================================
