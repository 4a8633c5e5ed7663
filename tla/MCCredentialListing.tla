------------------------ MODULE MCCredentialListing ------------------------
(* CredentialListing with symmetric row ids for TLC.  Readers do not read  *)
(* the history, so that states which differ in it alone, and in no number  *)
(* of its events, are one.                                                 *)
EXTENDS CredentialListing, TLC

RowSymmetry == Permutations(Requests)

ReadersView == <<rows, Cardinality(history), list, summary>>
=============================================================================
