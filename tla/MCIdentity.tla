----------------------------- MODULE MCIdentity -----------------------------
(* Identity on instances small enough for TLC. *)
EXTENDS Identity, TLC

IdentitySymmetry == Permutations(Browsers) \cup Permutations(Flows)
                    \cup Permutations(Requests) \cup Permutations(Subjects)
                    \cup Permutations(Allowed)
=============================================================================
