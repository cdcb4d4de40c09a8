----------------------------- MODULE CustomerView -----------------------------
(***************************************************************************)
(* The customer-360 read model from end to end: apps/web aggregates the    *)
(* orders it stores (order-store.ts) and puts a full snapshot of the       *)
(* customer in the outbox, its relay publishes the snapshots, apps/producer *)
(* publishes snapshots of its own, and apps/customer-view keeps the last   *)
(* record of each key in a map that its REST API reads and deletes from.   *)
(*                                                                         *)
(* A snapshot is its order count: order and payment are applied together.  *)
(* The records of a customer are in one partition, so the topic is one log *)
(* per customer.  Marking and retrying of the outbox are those of          *)
(* OutboxRelay, seen by one customer.                                      *)
(***************************************************************************)
EXTENDS Naturals, Sequences, FiniteSets

CONSTANTS
    Customers,     \* customer ids
    MaxOrders,     \* bound: orders stored by the web app, per customer
    MaxProduced,   \* bound: records of the producer and of other programs, per customer
    MaxDeletes,    \* bound: DELETE requests
    MaxFaults,     \* bound: rollbacks, restarts and retries of the relay
    Avro,          \* SCHEMA_REGISTRY_URL is set: `customers` has an Avro schema
    Foreign        \* other programs write to the topic, too

ASSUME BoundsAssumption == MaxOrders \in Nat /\ MaxProduced \in Nat /\ MaxDeletes \in Nat /\ MaxFaults \in Nat
ASSUME SettingsAssumption == Avro \in BOOLEAN /\ Foreign \in BOOLEAN

VARIABLES
    orders,       \* committed rows of the orders table, per customer
    totals,       \* OrderStore.customerStates, in memory; 0 when there is none
    outbox,       \* outbox rows of the topic `customers`, oldest first
    sent,         \* how many of them the relay has published in this attempt
    marked,       \* how many of them are marked as published
    produced,     \* the aggregate apps/producer keeps in memory
    log,          \* the topic: records [by, row, value]
    store,        \* CustomerStore.customers; Absent where it has no entry
    position,     \* records applied by the view since its start or its commit
    committed,    \* the offset the group has committed
    deleting,     \* DELETEs between their produce and their answer, per customer
    deletes,      \* number of DELETE requests
    \* History, per customer, of the running view.
    answered,     \* its position when a DELETE was last answered
    resumed,      \* its position when it started
    rollbacks,    \* number of transactions rolled back after the aggregation
    webStarts,    \* number of restarts of the web app
    viewStarts,   \* number of restarts of the view
    retries       \* number of batches the relay published again

web    == <<orders, totals, outbox>>
relay  == <<sent, marked>>
view   == <<store, position, committed, deleting, deletes, answered, resumed>>
faults == <<rollbacks, webStarts, viewStarts, retries>>
vars   == <<web, relay, produced, log, view, faults>>

Absent == 0       \* no entry in a map, and the value of a tombstone

\* applyOrder and applyPayment on a snapshot, or on none, and toCustomerUpdated.
Applied(count) == count + 1

Faulty == rollbacks + webStarts + viewStarts + retries < MaxFaults

-----------------------------------------------------------------------------
(* apps/web *)

\* Mutant: the snapshot is taken before the order is applied.
CreateOrderStale(c) ==
    /\ orders[c] < MaxOrders
    /\ orders' = [orders EXCEPT ![c] = @ + 1]
    /\ totals' = [totals EXCEPT ![c] = @ + 1]
    /\ outbox' = [outbox EXCEPT ![c] = Append(@, totals[c])]
    /\ UNCHANGED <<relay, produced, log, view, faults>>

\* createOrderWithOutbox commits: the order and the snapshot of the customer.
CreateOrder(c) ==
    /\ orders[c] < MaxOrders
    /\ orders' = [orders EXCEPT ![c] = @ + 1]
    /\ totals' = [totals EXCEPT ![c] = Applied(@)]
    /\ outbox' = [outbox EXCEPT ![c] = Append(@, Applied(totals[c]))]
    /\ UNCHANGED <<relay, produced, log, view, faults>>

\* The insert of the snapshot or the COMMIT throws.  ROLLBACK undoes the rows,
\* not the aggregate in memory.
CreateOrderRollsBack(c) ==
    /\ Faulty
    /\ totals' = [totals EXCEPT ![c] = Applied(@)]
    /\ rollbacks' = rollbacks + 1
    /\ UNCHANGED <<orders, outbox, relay, produced, log, view, webStarts, viewStarts, retries>>

\* The process ends and starts again: the aggregates are gone, the tables stay,
\* and what was published and not marked will be published again.
RestartWeb ==
    /\ Faulty
    /\ totals' = [c \in Customers |-> 0]
    /\ sent' = marked
    /\ webStarts' = webStarts + 1
    /\ UNCHANGED <<orders, outbox, marked, produced, log, view, rollbacks, viewStarts, retries>>

\* Mutant: the newest row first.
PublishNewest(c) ==
    /\ sent[c] < Len(outbox[c])
    /\ LET i == Len(outbox[c]) - sent[c]
       IN  log' = [log EXCEPT ![c] = Append(@, [by |-> "web", row |-> i, value |-> outbox[c][i]])]
    /\ sent' = [sent EXCEPT ![c] = @ + 1]
    /\ UNCHANGED <<web, marked, produced, view, faults>>

\* The relay publishes the oldest row it has not published.
Publish(c) ==
    /\ sent[c] < Len(outbox[c])
    /\ log' = [log EXCEPT ![c] = Append(@, [by |-> "web", row |-> sent[c] + 1,
                                            value |-> outbox[c][sent[c] + 1]])]
    /\ sent' = [sent EXCEPT ![c] = @ + 1]
    /\ UNCHANGED <<web, marked, produced, view, faults>>

\* Mutant: marks rows that were not published.
MarkPublishedEarly(c) ==
    /\ marked[c] < Len(outbox[c])
    /\ marked' = [marked EXCEPT ![c] = @ + 1]
    /\ UNCHANGED <<web, sent, produced, log, view, faults>>

\* ... and marks it.
MarkPublished(c) ==
    /\ marked[c] < sent[c]
    /\ marked' = [marked EXCEPT ![c] = @ + 1]
    /\ UNCHANGED <<web, sent, produced, log, view, faults>>

\* A commit reports a failure after it took place: the batch is published again.
RetryBatch ==
    /\ Faulty
    /\ sent' = marked
    /\ retries' = retries + 1
    /\ UNCHANGED <<web, marked, produced, log, view, rollbacks, webStarts, viewStarts>>

-----------------------------------------------------------------------------
(* apps/producer *)

\* The bound on the records that neither the relay nor a DELETE writes.
RoomForMore(c) == Cardinality({i \in DOMAIN log[c] : log[c][i].by \in {"producer", "other"}}) < MaxProduced

\* One turn of the loop for a customer.
ProduceSample(c) ==
    /\ RoomForMore(c)
    /\ produced' = [produced EXCEPT ![c] = Applied(@)]
    /\ log' = [log EXCEPT ![c] = Append(@, [by |-> "producer", row |-> 0, value |-> Applied(produced[c])])]
    /\ UNCHANGED <<web, relay, view, faults>>

-----------------------------------------------------------------------------
(* Other programs *)

\* An operator or another program puts a record on the partition of c that the view
\* cannot take: one without a key or, with Avro, null or no wire format.
ProduceForeign(c) ==
    /\ Foreign /\ RoomForMore(c)
    /\ log' = [log EXCEPT ![c] = Append(@, [by |-> "other", row |-> 0, value |-> Absent])]
    /\ UNCHANGED <<web, relay, produced, view, faults>>

-----------------------------------------------------------------------------
(* apps/customer-view *)

\* The record the driver delivers next.
Incoming(c) == log[c][position[c] + 1]

\* deserialize refuses the value or apply the missing key: either throws, and the
\* driver seeks back to the record and delivers it again.
Refused(record) == record.by = "other"

Deliverable(c) == position[c] < Len(log[c]) /\ ~Refused(Incoming(c))

\* Mutant: a tombstone is skipped.
ApplySkipsTombstones(c) ==
    /\ Deliverable(c)
    /\ LET value == Incoming(c).value
       IN  store' = [store EXCEPT ![c] = IF value = Absent THEN @ ELSE value]
    /\ position' = [position EXCEPT ![c] = @ + 1]
    /\ UNCHANGED <<web, relay, produced, log, committed, deleting, deletes, answered, resumed, faults>>

\* Mutant: apply throws on a tombstone, and the driver delivers it again for ever.
ApplyRejectsTombstones(c) ==
    /\ Deliverable(c) /\ Incoming(c).value # Absent
    /\ store' = [store EXCEPT ![c] = Incoming(c).value]
    /\ position' = [position EXCEPT ![c] = @ + 1]
    /\ UNCHANGED <<web, relay, produced, log, committed, deleting, deletes, answered, resumed, faults>>

\* The consumer applies the next record; a tombstone deletes the entry.
Apply(c) ==
    /\ Deliverable(c)
    /\ store' = [store EXCEPT ![c] = Incoming(c).value]
    /\ position' = [position EXCEPT ![c] = @ + 1]
    /\ UNCHANGED <<web, relay, produced, log, committed, deleting, deletes, answered, resumed, faults>>

\* The driver commits what was applied (manualCommit: false).
AutoCommit(c) ==
    /\ committed[c] < position[c]
    /\ committed' = [committed EXCEPT ![c] = position[c]]
    /\ UNCHANGED <<web, relay, produced, log, store, position, deleting, deletes, answered, resumed, faults>>

\* The process ends, and starts again with an empty map.  fromBeginning only tells
\* where a group without a committed offset starts.
StartAgain ==
    /\ Faulty
    /\ store' = [c \in Customers |-> Absent]
    /\ position' = committed
    /\ deleting' = [c \in Customers |-> 0]
    /\ answered' = [c \in Customers |-> 0]
    /\ resumed' = committed
    /\ viewStarts' = viewStarts + 1
    /\ UNCHANGED <<web, relay, produced, log, committed, rollbacks, webStarts, retries>>

\* Also when the produce of a DELETE in progress rejects after it was applied.
RestartView == StartAgain /\ UNCHANGED deletes

\* A DELETE whose tombstone the broker or, with Avro, the codec refuses.  Express 4
\* leaves a rejected handler to nobody, and that ends the process.
DeleteRejects ==
    /\ deletes < MaxDeletes
    /\ deletes' = deletes + 1
    /\ StartAgain

\* DELETE /customers/:id up to the acknowledgement of its tombstone.  AvroCodec does
\* not encode null for a topic with a schema.
DeleteStart(c) ==
    /\ ~Avro /\ deletes < MaxDeletes
    /\ log' = [log EXCEPT ![c] = Append(@, [by |-> "view", row |-> 0, value |-> Absent])]
    /\ deleting' = [deleting EXCEPT ![c] = @ + 1]
    /\ deletes' = deletes + 1
    /\ UNCHANGED <<web, relay, produced, store, position, committed, answered, resumed, faults>>

\* ... and after it, whatever the consumer applied in between.
DeleteEnd(c) ==
    /\ deleting[c] > 0
    /\ store' = [store EXCEPT ![c] = Absent]
    /\ deleting' = [deleting EXCEPT ![c] = @ - 1]
    /\ answered' = [answered EXCEPT ![c] = position[c]]
    /\ UNCHANGED <<web, relay, produced, log, position, committed, deletes, resumed, faults>>

Init ==
    /\ orders = [c \in Customers |-> 0] /\ totals = orders /\ produced = orders
    /\ outbox = [c \in Customers |-> << >>] /\ log = outbox
    /\ sent = [c \in Customers |-> 0] /\ marked = sent
    /\ store = [c \in Customers |-> Absent]
    /\ position = [c \in Customers |-> 0] /\ committed = position
    /\ deleting = position /\ deletes = 0
    /\ answered = position /\ resumed = position
    /\ rollbacks = 0 /\ webStarts = 0 /\ viewStarts = 0 /\ retries = 0

Next ==
    \/ \E c \in Customers :
          \/ CreateOrder(c) \/ CreateOrderRollsBack(c) \/ Publish(c) \/ MarkPublished(c)
          \/ ProduceSample(c) \/ ProduceForeign(c)
          \/ Apply(c) \/ AutoCommit(c) \/ DeleteStart(c) \/ DeleteEnd(c)
    \/ RestartWeb \/ RetryBatch \/ RestartView \/ DeleteRejects

Spec == Init /\ [][Next]_vars

\* The relay polls for ever and the consumer is driven by the broker.
FairSpec == Spec /\ \A c \in Customers : WF_vars(Publish(c)) /\ WF_vars(Apply(c))

-----------------------------------------------------------------------------
(* What the read model promises *)

Record == [by : {"web", "producer", "view", "other"}, row : Nat, value : Nat]

Types ==
    /\ orders \in [Customers -> Nat] /\ totals \in [Customers -> Nat] /\ produced \in [Customers -> Nat]
    /\ outbox \in [Customers -> Seq(Nat)] /\ log \in [Customers -> Seq(Record)]
    /\ sent \in [Customers -> Nat] /\ marked \in [Customers -> Nat]
    /\ store \in [Customers -> Nat] /\ position \in [Customers -> Nat] /\ committed \in [Customers -> Nat]
    /\ deleting \in [Customers -> Nat] /\ deletes \in Nat
    /\ answered \in [Customers -> Nat] /\ resumed \in [Customers -> Nat]
    /\ rollbacks \in Nat /\ webStarts \in Nat /\ viewStarts \in Nat /\ retries \in Nat

PointersInside(c) ==
    /\ marked[c] <= sent[c] /\ sent[c] <= Len(outbox[c])
    /\ committed[c] <= position[c] /\ position[c] <= Len(log[c])

\* Every variable keeps its type, and the pointers into the outbox and the topic
\* stay inside them.
TypeOK == Types /\ \A c \in Customers : PointersInside(c)

\* What the first n records of a log leave for a reader that applies them all.
Latest(c, n) == IF n = 0 THEN Absent ELSE log[c][n].value

CaughtUp(c) == position[c] = Len(log[c])

\* A view that has read the whole topic shows the last record of a customer: never an
\* older snapshot, never one behind a tombstone.  It shows nothing instead in two
\* cases only: the running view started behind that record, or a DELETE of that
\* customer was answered after the record was applied, and so raced with it.
CaughtUpShowsLast ==
    \A c \in Customers : CaughtUp(c) =>
        \/ store[c] = Latest(c, Len(log[c]))
        \/ store[c] = Absent /\ Len(log[c]) \in {resumed[c], answered[c]}

\* While the web app is not restarted, a snapshot counts every stored order of the
\* customer, and one more at most for each transaction that was rolled back.
SnapshotsAccumulate ==
    webStarts = 0 => \A c \in Customers : outbox[c] # << >> =>
        LET last == outbox[c][Len(outbox[c])]
        IN  orders[c] <= last /\ last <= orders[c] + rollbacks

\* Whatever is published again, once the relay has published every row the last
\* record it left on the topic is the newest snapshot.
NewestSnapshotWins ==
    \A c \in Customers : outbox[c] # << >> /\ sent[c] = Len(outbox[c]) =>
        \E i \in 1 .. Len(log[c]) :
            /\ log[c][i].by = "web" /\ log[c][i].row = Len(outbox[c])
            /\ \A j \in i + 1 .. Len(log[c]) : log[c][j].by # "web"

\* Every snapshot reaches the topic and the view reads the whole of it, or all that is
\* before a record it cannot take: nothing skips or dead-letters such a record.
ViewCatchesUp ==
    \A c \in Customers : <>[](sent[c] = Len(outbox[c]) /\ (CaughtUp(c) \/ Refused(Incoming(c))))

\* docs/guides/compacted-topics.md:32 on the start of the view: "replays the
\* changelog from the earliest offset and rebuilds the snapshot".
Rebuilt ==
    \A c \in Customers : deletes = 0 /\ CaughtUp(c) => store[c] = Latest(c, Len(log[c]))

\* README.md:259: a snapshot has the orders "accumulated across every order you
\* place for that customer", and no other.
SnapshotsAreExact ==
    \A c \in Customers : outbox[c] # << >> => outbox[c][Len(outbox[c])] = orders[c]
=============================================================================
