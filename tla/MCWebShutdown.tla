--------------------------- MODULE MCWebShutdown ---------------------------
(* Small instances of WebShutdown. *)
EXTENDS WebShutdown

CONSTANTS b1, b2
=============================================================================
