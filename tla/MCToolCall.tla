----------------------------- MODULE MCToolCall -----------------------------
(* ToolCall with model values for TLC. *)
EXTENDS ToolCall, TLC

RowSymmetry == Permutations(Requests)
=============================================================================
