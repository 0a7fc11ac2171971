------------------------------- MODULE Totals -------------------------------
(***************************************************************************)
(* Sums of finite functions into the naturals.  A sum is the number of     *)
(* unit tokens that the function hands out, which keeps it within the      *)
(* theorems on cardinalities (no recursion), and the sums here are small.  *)
(***************************************************************************)
EXTENDS Integers, FiniteSets

\* The f[x] distinguishable units held at x.
Units(f, x) == {x} \X (1..f[x])

\* The sum of f[x] over the domain of f.
Total(f) == Cardinality(UNION {Units(f, x) : x \in DOMAIN f})
=============================================================================
