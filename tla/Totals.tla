-------------------------------- MODULE Totals --------------------------------
(***************************************************************************)
(* Sums of natural numbers, as sizes: each member of a set stands for as   *)
(* many units as a function gives it.  (A fold says the same; a size can   *)
(* be reasoned about with the facts on finite sets.)                       *)
(***************************************************************************)
EXTENDS Integers, FiniteSets

Units(f, S) == UNION {{x} \X (1 .. f[x]) : x \in S}

Total(f, S) == Cardinality(Units(f, S))
===============================================================================
