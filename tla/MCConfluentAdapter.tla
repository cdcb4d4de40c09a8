------------------------- MODULE MCConfluentAdapter -------------------------
(* Model-checking instance of ConfluentAdapter. *)
EXTENDS ConfluentAdapter

\* Two curated subjects, registered in this order.
TwoSubjects == <<"orders.created", "customers">>
=============================================================================
