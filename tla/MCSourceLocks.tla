--------------------------- MODULE MCSourceLocks ---------------------------
(* Model checking SourceLocks: see the .cfg files for who takes part.      *)
EXTENDS SourceLocks
=============================================================================
