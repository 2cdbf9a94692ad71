--------------------------- MODULE MCConfiguration ---------------------------
(* Model checking Configuration: see config.cfg for the instance.          *)
EXTENDS Configuration

(* Either the program starts again, or templates are looked up.            *)
MCBounds == {[changes |-> 2, starts |-> 2, lookups |-> 0],
             [changes |-> 1, starts |-> 1, lookups |-> 2]}
=============================================================================
