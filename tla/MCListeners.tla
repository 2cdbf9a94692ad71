---------------------------- MODULE MCListeners ----------------------------
(* Model checking Listeners: see the .cfg files for who takes part.        *)
EXTENDS Listeners, TLC

Symmetric == Permutations(Clients)
=============================================================================
