------------------------------- MODULE MCTwins -------------------------------
(* Two requests of each of two servers and one of a third.                   *)
EXTENDS Twins, TLC

CONSTANTS r1, r2, r3, r4, r5

ServerOfMC == r1 :> 0 @@ r2 :> 0 @@ r3 :> 1 @@ r4 :> 1 @@ r5 :> 2
=============================================================================
