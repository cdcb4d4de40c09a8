---------------------------- MODULE InMemoryBroker ----------------------------
(***************************************************************************)
(* The in-memory driver of the broker port,                                *)
(* packages/broker/src/adapters/in-memory.ts: topics and records kept in   *)
(* the process, subscriptions that get the past records and then the live  *)
(* ones, and a pool of handlers per subscription.                          *)
(*                                                                         *)
(* Produce calls interleave at the await of codec.serialize, handlers at   *)
(* their own awaits.  Each action is the code between two awaits.          *)
(***************************************************************************)
EXTENDS Integers, Sequences, FiniteSets, Functions

CONSTANTS
    Topics,          \* topic names
    Keys,            \* keys of the produced messages
    Hash,            \* hash of each key: a signed 32-bit integer
    Calls,           \* produce calls that can be awaiting the codec at one time
    Subs,            \* subscriptions
    Limit,           \* ConsumeOptions.concurrency of each subscription
    MaxPartitions,   \* bound: TopicConfig.numPartitions
    MaxRecords,      \* bound: records ever produced
    MaxDisconnects   \* bound: disconnects

ASSUME DriverAssumption ==
    /\ Hash \in [Keys -> Int]
    /\ Limit \in [Subs -> Nat \ {0}]
    /\ MaxPartitions \in Nat \ {0} /\ MaxRecords \in Nat /\ MaxDisconnects \in Nat

VARIABLES
    partitions,    \* partitions of each topic; 0 where the topic does not exist
    records,       \* the stored records
    nextSequence,  \* sequence number of the next record
    calls,         \* per produce call, the record it prepares, or Idle
    listening,     \* subscriptions whose listener is attached
    subs,          \* per subscription, what it reads and from where, or Closed
    active,        \* per subscription, Subscription.active
    waiting,       \* per subscription, Subscription.queue, as sequence numbers
    running,       \* per subscription, the records whose dispatch has not ended
    started,       \* history: per subscription, the records in dispatch order
    disconnects    \* number of disconnects so far

store == <<partitions, records, nextSequence, disconnects>>
pool  == <<active, waiting, running, started>>
vars  == <<store, calls, listening, subs, pool>>

Idle == [topic |-> "none"]
Closed == [topics |-> {}, from |-> 0, beginning |-> FALSE]

-----------------------------------------------------------------------------
(* Partitions and offsets *)

\* JavaScript's remainder: it takes the sign of the dividend.
Rem(a, b) == IF a >= 0 THEN a % b ELSE -((-a) % b)

\* Mutant: the remainder of a negative hash is left negative.
PartitionForKeySigned(key, n) == Rem(Hash[key], n)

\* A hash may be negative, a partition may not.
PartitionForKey(key, n) == Rem(Rem(Hash[key], n) + n, n)

Offsets(t, p) == {r.offset : r \in {q \in Range(records) : q.topic = t /\ q.partition = p}}

\* One more than the largest offset of the partition.
NextOffset(t, p) == CHOOSE o \in 0 .. MaxRecords :
                        /\ \A q \in Offsets(t, p) : q < o
                        /\ o = 0 \/ o - 1 \in Offsets(t, p)

-----------------------------------------------------------------------------
(* The handler pool of a subscription *)

\* Mutant: the pool has room for one more than its limit.
EnqueueOneMore(s, batch) ==
    LET room == IF Limit[s] = 1 THEN Len(batch) ELSE Limit[s] + 1 - active[s]
        size == IF Len(batch) <= room THEN Len(batch) ELSE room
        now  == SubSeq(batch, 1, size)
        rest == SubSeq(batch, size + 1, Len(batch))
    IN  [active  |-> IF Limit[s] = 1 THEN active[s] ELSE active[s] + Len(now),
         waiting |-> waiting[s] \o rest,
         running |-> running[s] \cup Range(now),
         started |-> started[s] \o now]

\* enqueueDispatch for the records of a sequence, one after the other: dispatch
\* while there is room, queue the rest.  A limit of 1 dispatches without a pool.
Enqueue(s, batch) ==
    LET room == IF Limit[s] = 1 THEN Len(batch) ELSE Limit[s] - active[s]
        size == IF Len(batch) <= room THEN Len(batch) ELSE room
        now  == SubSeq(batch, 1, size)
        rest == SubSeq(batch, size + 1, Len(batch))
    IN  [active  |-> IF Limit[s] = 1 THEN active[s] ELSE active[s] + Len(now),
         waiting |-> waiting[s] \o rest,
         running |-> running[s] \cup Range(now),
         started |-> started[s] \o now]

\* Every subscription of `to` gets the records of a batch.
EnqueueAll(to, batch) ==
    LET got == [s \in to |-> Enqueue(s, batch)]
    IN  /\ active'  = [s \in Subs |-> IF s \in to THEN got[s].active  ELSE active[s]]
        /\ waiting' = [s \in Subs |-> IF s \in to THEN got[s].waiting ELSE waiting[s]]
        /\ running' = [s \in Subs |-> IF s \in to THEN got[s].running ELSE running[s]]
        /\ started' = [s \in Subs |-> IF s \in to THEN got[s].started ELSE started[s]]

\* Mutant: the slot is released without a look at the queue.
DispatchEndsAlone(s, n) ==
    /\ n \in running[s]
    /\ running' = [running EXCEPT ![s] = @ \ {n}]
    /\ active' = [active EXCEPT ![s] = IF Limit[s] > 1 THEN @ - 1 ELSE @]
    /\ UNCHANGED <<store, calls, listening, subs, started, waiting>>

\* A dispatch ends, whatever its handler did, and its slot takes the next record.
DispatchEnds(s, n) ==
    /\ n \in running[s]
    /\ IF Limit[s] > 1 /\ waiting[s] # << >>
       THEN /\ running' = [running EXCEPT ![s] = (@ \ {n}) \cup {Head(waiting[s])}]
            /\ started' = [started EXCEPT ![s] = Append(@, Head(waiting[s]))]
            /\ waiting' = [waiting EXCEPT ![s] = Tail(@)]
            /\ UNCHANGED active
       ELSE /\ running' = [running EXCEPT ![s] = @ \ {n}]
            /\ active' = [active EXCEPT ![s] = IF Limit[s] > 1 THEN @ - 1 ELSE @]
            /\ UNCHANGED <<started, waiting>>
    /\ UNCHANGED <<store, calls, listening, subs>>

-----------------------------------------------------------------------------
(* The operations of the port *)

\* createTopics: a topic that exists keeps its partitions.
CreateTopic(t, n) ==
    /\ partitions' = [partitions EXCEPT ![t] = IF @ = 0 THEN n ELSE @]
    /\ UNCHANGED <<records, nextSequence, disconnects, calls, listening, subs, pool>>

\* Mutant: the listeners stay attached.
DisconnectKeepsListeners ==
    /\ disconnects < MaxDisconnects
    /\ disconnects' = disconnects + 1
    /\ records' = << >>
    /\ partitions' = [t \in Topics |-> 0]
    /\ UNCHANGED <<nextSequence, calls, listening, subs, pool>>

\* disconnect: drops records, topics and listeners.  Running and queued handlers
\* go on, and so does a produce call that is awaiting the codec.
Disconnect ==
    /\ disconnects < MaxDisconnects
    /\ disconnects' = disconnects + 1
    /\ records' = << >>
    /\ partitions' = [t \in Topics |-> 0]
    /\ listening' = {}
    /\ UNCHANGED <<nextSequence, calls, subs, pool>>

\* produce up to the await of codec.serialize: it already fixes the offset.
ProduceStart(c, t, k) ==
    /\ calls[c] = Idle /\ nextSequence < MaxRecords
    /\ partitions[t] > 0
    /\ LET p == PartitionForKey(k, partitions[t])
       IN  calls' = [calls EXCEPT ![c] = [topic |-> t, key |-> k, partition |-> p,
                                          offset |-> NextOffset(t, p)]]
    /\ UNCHANGED <<store, listening, subs, pool>>

\* The codec rejects the value, and so does produce.
ProduceFails(c) ==
    /\ calls[c] # Idle
    /\ calls' = [calls EXCEPT ![c] = Idle]
    /\ UNCHANGED <<store, listening, subs, pool>>

\* Mutant: the first record after the subscription is left out.
TakesLater(s, t, n) == s \in listening /\ t \in subs[s].topics /\ n > subs[s].from

\* Whether the listener of s takes a record: onMessage.
Takes(s, t, n) == s \in listening /\ t \in subs[s].topics /\ n >= subs[s].from

\* Mutant: the listeners hear both the general event and that of the topic.
ProduceEndTwice(c) ==
    /\ calls[c] # Idle /\ nextSequence < MaxRecords
    /\ nextSequence' = nextSequence + 1
    /\ records' = Append(records, [topic |-> calls[c].topic, key |-> calls[c].key,
                                   partition |-> calls[c].partition, offset |-> calls[c].offset,
                                   sequence |-> nextSequence])
    /\ calls' = [calls EXCEPT ![c] = Idle]
    /\ EnqueueAll({s \in Subs : Takes(s, calls[c].topic, nextSequence)},
                  <<nextSequence, nextSequence>>)
    /\ UNCHANGED <<partitions, disconnects, listening, subs>>

\* produce after the await: the record is numbered, stored and emitted, and the
\* listeners run synchronously.
ProduceEnd(c) ==
    /\ calls[c] # Idle /\ nextSequence < MaxRecords
    /\ nextSequence' = nextSequence + 1
    /\ records' = Append(records, [topic |-> calls[c].topic, key |-> calls[c].key,
                                   partition |-> calls[c].partition, offset |-> calls[c].offset,
                                   sequence |-> nextSequence])
    /\ calls' = [calls EXCEPT ![c] = Idle]
    /\ EnqueueAll({s \in Subs : Takes(s, calls[c].topic, nextSequence)}, <<nextSequence>>)
    /\ UNCHANGED <<partitions, disconnects, listening, subs>>

\* Where the stored records of some topics are.
Matches(ts) == {i \in DOMAIN records : records[i].topic \in ts}

\* The stored records a subscription from the beginning is given, in their order:
\* the k-th is the match with k matches up to it.
History(ts) ==
    LET upTo(i) == Cardinality({j \in Matches(ts) : j <= i})
    IN  [k \in 1 .. Cardinality(Matches(ts)) |->
           records[CHOOSE i \in Matches(ts) : upTo(i) = k].sequence]

\* consume attaches the listener and delivers the history in one step.
Consume(s, ts, beginning) ==
    /\ subs[s] = Closed
    /\ subs' = [subs EXCEPT ![s] = [topics |-> ts, from |-> nextSequence, beginning |-> beginning]]
    /\ listening' = listening \cup {s}
    /\ EnqueueAll({s}, IF beginning THEN History(ts) ELSE << >>)
    /\ UNCHANGED <<store, calls>>

\* The disposer detaches the listener.  It sets `disposed`, which nothing reads:
\* what is queued will still be dispatched.
Dispose(s) ==
    /\ s \in listening
    /\ listening' = listening \ {s}
    /\ UNCHANGED <<store, calls, subs, pool>>

Init ==
    /\ partitions = [t \in Topics |-> 0]
    /\ records = << >> /\ nextSequence = 0 /\ disconnects = 0
    /\ calls = [c \in Calls |-> Idle]
    /\ listening = {} /\ subs = [s \in Subs |-> Closed]
    /\ active = [s \in Subs |-> 0] /\ running = [s \in Subs |-> {}]
    /\ waiting = [s \in Subs |-> << >>] /\ started = [s \in Subs |-> << >>]

Next ==
    \/ \E t \in Topics, n \in 1 .. MaxPartitions : CreateTopic(t, n)
    \/ Disconnect
    \/ \E c \in Calls : \/ \E t \in Topics, k \in Keys : ProduceStart(c, t, k)
                        \/ ProduceFails(c)
                        \/ ProduceEnd(c)
    \/ \E s \in Subs : \/ \E ts \in (SUBSET Topics) \ {{}}, b \in BOOLEAN : Consume(s, ts, b)
                       \/ Dispose(s)
                       \/ \E n \in 0 .. MaxRecords - 1 : DispatchEnds(s, n)

Spec == Init /\ [][Next]_vars

\* The handlers return: the runners of the consumer bound their attempts.
FairSpec == Spec /\ \A s \in Subs, n \in 0 .. MaxRecords - 1 : WF_vars(DispatchEnds(s, n))

-----------------------------------------------------------------------------
(* What the driver promises *)

Sequences == 0 .. MaxRecords - 1
Prepared == [topic : Topics, key : Keys, partition : 0 .. MaxPartitions - 1, offset : 0 .. MaxRecords]

\* Every variable keeps its type; in particular a negative hash still gives a
\* partition of the topic.
TypeOK ==
    /\ partitions \in [Topics -> 0 .. MaxPartitions]
    /\ \A r \in Range(records) :
          /\ r.sequence \in Sequences
          /\ [topic |-> r.topic, key |-> r.key, partition |-> r.partition, offset |-> r.offset] \in Prepared
    /\ nextSequence \in 0 .. MaxRecords /\ disconnects \in 0 .. MaxDisconnects
    /\ calls \in [Calls -> Prepared \cup {Idle}]
    /\ listening \subseteq Subs
    /\ subs \in [Subs -> [topics : SUBSET Topics, from : 0 .. MaxRecords, beginning : BOOLEAN]]
    /\ active \in [Subs -> Nat] /\ running \in [Subs -> SUBSET Sequences]
    /\ \A s \in Subs : Range(waiting[s]) \cup Range(started[s]) \subseteq Sequences

\* The records a subscription was given, dispatched or queued.
Given(s) == started[s] \o waiting[s]

\* A subscription gets a record at most once and in the order of production,
\* through the history, the listener and the queue of the pool alike.
GivenInOrder ==
    \A s \in Subs : \A i, j \in DOMAIN Given(s) : i < j => Given(s)[i] < Given(s)[j]

\* While its listener is attached, a subscription has been given exactly the
\* records of its topics produced since it was opened, or all of them: none
\* falls between the history and the listener, and none comes from both.
NothingSkipped ==
    \A s \in listening :
        Range(Given(s)) = {r.sequence : r \in {q \in Range(records) :
                              /\ q.topic \in subs[s].topics
                              /\ subs[s].beginning \/ q.sequence >= subs[s].from}}

\* The driver keeps the promise of a broker to its subscriptions: overlapping
\* produce calls, pools and disconnects included, it looks like one log.
Promise == INSTANCE RecordDelivery WITH
    stored <- {[topic |-> r.topic, sequence |-> r.sequence] : r \in Range(records)},
    next   <- nextSequence,
    subs   <- [s \in Subs |-> subs[s].topics],
    given  <- [s \in Subs |-> Given(s)],
    begun  <- [s \in Subs |-> Len(started[s])]
RefinesRecordDelivery == Promise!Spec

\* A pool counts its running handlers, never exceeds its limit, and queues
\* records only while it is full.
PoolIsExact ==
    \A s \in Subs : Limit[s] > 1 =>
        /\ active[s] = Cardinality(running[s]) /\ active[s] <= Limit[s]
        /\ waiting[s] # << >> => active[s] = Limit[s]

\* Every queued record is eventually dispatched, its subscription disposed of or
\* the broker disconnected or not.
QueueDrains ==
    \A s \in Subs, n \in Sequences : n \in Range(waiting[s]) ~> n \in Range(started[s])
=============================================================================
