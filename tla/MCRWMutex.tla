----------------------------- MODULE MCRWMutex -----------------------------
(* Model checking RWMutexClients: a few threads on one lock.               *)
EXTENDS RWMutexClients, TLC

Symmetric == Permutations(Threads)
=============================================================================
