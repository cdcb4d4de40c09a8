--------------------------- MODULE OutboxDelivery ---------------------------
(***************************************************************************)
(* What the transactional outbox promises its readers, whatever the relay  *)
(* does inside: the topic only grows; it holds only rows that were         *)
(* accepted; a row is first delivered after every deliverable row accepted *)
(* before it; and a row is settled (never sent again by a fresh process)   *)
(* only when it is on the topic.  Duplicates are allowed: the promise is   *)
(* at-least-once (README.md, "Transactional outbox").                      *)
(***************************************************************************)
EXTENDS Integers, Sequences, Functions

VARIABLES
    outbox,   \* the accepted rows in id order: the kind of payload each holds
    settled,  \* ids the store has marked as published
    log       \* ids on the topic, as a read_committed consumer sees them

vars == <<outbox, settled, log>>

\* A row whose stored text does not parse cannot be delivered by anyone.
Deliverable == {r \in DOMAIN outbox : outbox[r] # "corrupt"}

\* The first delivery of each row follows that of all earlier deliverable rows.
FirstDeliveriesInOrder(l) ==
    \A i \in DOMAIN l : \A q \in Deliverable :
        q < l[i] => \E j \in DOMAIN l : j < i /\ l[j] = q

Init ==
    /\ outbox = << >>
    /\ settled = {}
    /\ log = << >>

\* A writer commits one more row.
Accept ==
    /\ \E kind \in {"good", "corrupt", "poison"} : outbox' = Append(outbox, kind)
    /\ UNCHANGED <<settled, log>>

\* Rows reach the topic, or are settled, or both at once.
Deliver ==
    /\ Len(log) <= Len(log')
    /\ \A i \in DOMAIN log : log'[i] = log[i]
    /\ Range(log') \subseteq Deliverable
    /\ FirstDeliveriesInOrder(log')
    /\ settled \subseteq settled'
    /\ settled' \subseteq Range(log')
    /\ UNCHANGED outbox

Next == Accept \/ Deliver

Spec == Init /\ [][Next]_vars
=============================================================================
