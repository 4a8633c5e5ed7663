---------------------------- MODULE MCTargetPool ----------------------------
(* TargetPool with model values for TLC. *)
EXTENDS TargetPool, TLC

CallSymmetry == Permutations(Calls)
=============================================================================
