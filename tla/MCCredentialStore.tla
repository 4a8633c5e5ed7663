-------------------------- MODULE MCCredentialStore --------------------------
(* CredentialStore with model values for TLC. *)
EXTENDS CredentialStore, TLC

RequestSymmetry == Permutations(Requests)
=============================================================================
