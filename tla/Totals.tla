-------------------------------- MODULE Totals --------------------------------
(***************************************************************************)
(* The sum of a function to naturals, as a number of pairs: the provers     *)
(* reason about cardinalities and cannot about a fold.                      *)
(***************************************************************************)
EXTENDS Integers, FiniteSets

\* f[x] pairs for each x.
Units(f) == UNION {{x} \X (1..f[x]) : x \in DOMAIN f}

Total(f) == Cardinality(Units(f))
===============================================================================
