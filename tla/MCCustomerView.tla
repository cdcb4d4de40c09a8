--------------------------- MODULE MCCustomerView ---------------------------
(* Small instances of CustomerView. *)
EXTENDS CustomerView

CONSTANTS ann, bob
=============================================================================
