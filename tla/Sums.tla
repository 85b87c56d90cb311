--------------------------------- MODULE Sums ---------------------------------
(***************************************************************************)
(* The sum of a function over a finite domain, as the size of a set: the   *)
(* finite sets come with theorems, a fold does not.                        *)
(***************************************************************************)
EXTENDS Naturals, FiniteSets

(* The pairs of an x and one of f[x] things.                               *)
Pairs(f) == UNION {{x} \X (1 .. f[x]) : x \in DOMAIN f}
Total(f) == Cardinality(Pairs(f))
=============================================================================
