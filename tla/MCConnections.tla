--------------------------- MODULE MCConnections ---------------------------
(* Model checking Connections.                                             *)
EXTENDS Connections, TLC

AllRequests == {"source", "post", "page", "file", "stream", "log", "meta"}
=============================================================================
