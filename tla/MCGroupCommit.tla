--------------------------- MODULE MCGroupCommit ---------------------------
(* Model-checking instances of GroupCommit.                                *)
EXTENDS GroupCommit
=============================================================================
