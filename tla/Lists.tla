-------------------------------- MODULE Lists --------------------------------
(***************************************************************************)
(* The loop over a list.                                                   *)
(***************************************************************************)
EXTENDS Integers, Sequences

(* agios_list_for_each_entry: what base has become when op was done with    *)
(* each element of s in turn.  A recursive function, not a fold of the      *)
(* community modules, so that a proof can go from one element to the next.  *)
ForEach(op(_, _), base, s) ==
  LET after[k \in 0..Len(s)] ==
        IF k = 0 THEN base ELSE op(after[k - 1], s[k])
  IN after[Len(s)]
=============================================================================
