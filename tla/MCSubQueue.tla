------------------------------ MODULE MCSubQueue ------------------------------
EXTENDS SubQueue, TLC

(* Blocks are interchangeable, and so are consumers.                       *)
Symmetry == Permutations(Blocks) \union Permutations(Consumers)
=============================================================================
