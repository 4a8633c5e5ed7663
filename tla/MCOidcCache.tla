----------------------------- MODULE MCOidcCache -----------------------------
(* OidcCache with model values for TLC: the browsers and Null.  The run     *)
(* checks liveness, so no symmetry is declared.                             *)
EXTENDS OidcCache, TLC
=============================================================================
