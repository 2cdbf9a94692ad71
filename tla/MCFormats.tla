----------------------------- MODULE MCFormats -----------------------------
(* Model checking Formats: a few listeners of either kind.  A behaviour is *)
(* followed to the end of the first event that the titles or the streams   *)
(* do not survive.                                                         *)
EXTENDS Formats, TLC

(* the last title is too long for its length byte *)
MCLengths == <<1, 0, 1, 3>>

Symmetric == Permutations(MP3Clients) \cup Permutations(OGGClients) \cup Permutations(Serials)

NoEdge == ~mixed /\ Cardinality(mp3edge) <= 1
=============================================================================
