------------------------------ MODULE MCRelays ------------------------------
(* Model checking Relays: see the .cfg files for the relays.               *)
EXTENDS Relays
=============================================================================
