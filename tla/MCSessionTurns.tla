---------------------------- MODULE MCSessionTurns ----------------------------
(* SessionTurns with coroutines that can be exchanged for each other.         *)
EXTENDS SessionTurns, TLC

Symmetry == Permutations(Calls)
=============================================================================
