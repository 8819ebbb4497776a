------------------------------ MODULE Averages ------------------------------
(***************************************************************************)
(* update_iterative_average of common_functions.c, which the statistics    *)
(* and the performance module are made of.                                 *)
(***************************************************************************)
EXTENDS Integers

(* Division of C: towards zero.                                             *)
Quotient(n, d) == IF n >= 0 THEN n \div d ELSE -((-n) \div d)

update_iterative_average(avg, value, count) ==
  IF count = 1 THEN value ELSE avg + Quotient(value - avg, count)
=============================================================================
