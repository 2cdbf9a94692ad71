----------------------------- MODULE MCRelayPool -----------------------------
(* Model checking RelayPool: see pool.cfg for the instance.                *)
EXTENDS RelayPool
=============================================================================
