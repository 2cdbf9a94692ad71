----------------------------- MODULE MCBufRing -----------------------------
(* Model checking BufRing: a ring of a few short pages, for both formats.  *)
(* A behaviour is followed to the end of the first event that the counts   *)
(* do not survive, and through what comes after it until a second one.     *)
EXTENDS BufRing, TLC

Symmetric == Permutations(Clients)

OneEdge == Cardinality(edge) <= 1
=============================================================================
