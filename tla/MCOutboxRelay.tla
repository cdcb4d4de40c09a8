---------------------------- MODULE MCOutboxRelay ----------------------------
(* Model-checking instance of OutboxRelay: two activations of runOnce that could *)
(* overlap, and rows of every kind; the values are in the .cfg files.            *)
EXTENDS OutboxRelay
=============================================================================
