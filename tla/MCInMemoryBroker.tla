-------------------------- MODULE MCInMemoryBroker --------------------------
(* A small instance of InMemoryBroker. *)
EXTENDS InMemoryBroker, TLC

CONSTANTS t1, k1, k2, pooled

\* One key hashes to a negative number.
MCHash == [k \in Keys |-> IF k = k1 THEN -3 ELSE 4]

\* A pool of two handlers.
MCLimit == [s \in Subs |-> 2]
=============================================================================
