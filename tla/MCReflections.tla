---------------------------- MODULE MCReflections ----------------------------
(* Reflections with transactions that can be exchanged for each other.       *)
EXTENDS Reflections, TLC

Symmetry == Permutations(Actors)
=============================================================================
