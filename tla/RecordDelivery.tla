--------------------------- MODULE RecordDelivery ---------------------------
(***************************************************************************)
(* What a broker of the process promises its subscriptions, whatever it    *)
(* does inside with partitions, codecs and pools of handlers: a record is  *)
(* given to every subscription that listens to its topic in the step that  *)
(* stores it; a subscription that is opened is given all the stored        *)
(* records of its topics, or none; nothing that was given is taken back    *)
(* or reordered; and handlers begin in the order in which the records were *)
(* given.                                                                  *)
(***************************************************************************)
EXTENDS Integers, Sequences, Functions

CONSTANTS Topics, Subs

VARIABLES
    stored,     \* the stored records, each with its topic and its number
    next,       \* number of the next record
    listening,  \* subscriptions that get the records to come
    subs,       \* the topics of each subscription, none before it is opened
    given,      \* per subscription, the numbers of the records it was given
    begun       \* per subscription, how many of those have begun to be handled

vars == <<stored, next, listening, subs, given, begun>>

Init ==
    /\ stored = {} /\ next = 0
    /\ listening = {} /\ subs = [s \in Subs |-> {}]
    /\ given = [s \in Subs |-> << >>] /\ begun = [s \in Subs |-> 0]

\* Handlers begin in the order given, at any pace.
HandlersBegin ==
    /\ begun' \in [Subs -> Nat]
    /\ \A s \in Subs : begun[s] <= begun'[s] /\ begun'[s] <= Len(given'[s])

Produce(t) ==
    /\ stored' = stored \cup {[topic |-> t, sequence |-> next]}
    /\ next' = next + 1
    /\ given' = [s \in Subs |-> IF s \in listening /\ t \in subs[s]
                                THEN Append(given[s], next) ELSE given[s]]
    /\ HandlersBegin
    /\ UNCHANGED <<listening, subs>>

\* The numbers of the stored records of some topics.
Past(ts) == {r.sequence : r \in {q \in stored : q.topic \in ts}}

Open(s, ts) ==
    /\ subs[s] = {}
    /\ subs' = [subs EXCEPT ![s] = ts]
    /\ listening' = listening \cup {s}
    /\ given' = [given EXCEPT ![s] = given'[s]]
    /\ \A i, j \in DOMAIN given'[s] : i < j => given'[s][i] < given'[s][j]
    /\ Range(given'[s]) \in {{}, Past(ts)}
    /\ HandlersBegin
    /\ UNCHANGED <<stored, next>>

Detach(s) ==
    /\ listening' = listening \ {s}
    /\ UNCHANGED <<stored, next, subs, given, begun>>

\* The broker is closed: its records and listeners are gone, and what was given stays.
Forget ==
    /\ stored' = {} /\ listening' = {}
    /\ UNCHANGED <<next, subs, given, begun>>

Begin ==
    /\ HandlersBegin
    /\ UNCHANGED <<stored, next, listening, subs, given>>

Next ==
    \/ \E t \in Topics : Produce(t)
    \/ \E s \in Subs : \/ \E ts \in (SUBSET Topics) \ {{}} : Open(s, ts)
                       \/ Detach(s)
    \/ Forget
    \/ Begin

Spec == Init /\ [][Next]_vars
=============================================================================
