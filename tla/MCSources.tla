----------------------------- MODULE MCSources -----------------------------
(* Model checking Sources: see the .cfg files for what each run includes.  *)
EXTENDS Sources
=============================================================================
