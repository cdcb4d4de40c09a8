# A verification project for typekafka

typekafka is a TypeScript demo of an order system on Kafka: a web app stores
orders with a transactional outbox, a relay publishes them, a consumer processes
them with retries and a dead-letter queue, and a read model shows customers.
This directory holds TLA+ modules of the parts that are hard to get right, TLC
configurations that check them on small instances, and TLAPS proofs of the
properties that matter most. Paths below are relative to the repository.

- [Inventory](#inventory)
- [Modules and how they correspond to the code](#modules-and-how-they-correspond-to-the-code)
- [Runs](#runs)
- [Where code and documentation disagree](#where-code-and-documentation-disagree)
- [Fairness](#fairness)
- [Proofs](#proofs)
- [What is only model-checked, and what is not modelled](#what-is-only-model-checked-and-what-is-not-modelled)
- [Plan](#plan)

## Inventory

### Components, their state and their operations

| Component | State | Operations | What makes it correct |
|---|---|---|---|
| Outbox store (`packages/infra/src/outbox.ts`, `OutboxStore`) | SQLite table: rows with a payload and `published_at` | insert, peek (oldest N), mark, count | a row is pending until it is marked; peek keeps the id order |
| Outbox relay (same file, `OutboxRelay`) | `publishedIds`, `running`, `stopped`, the batch in flight | tick, one batch (transactional or row by row), disposer | nothing is marked before it is on the topic; order kept; duplicates only after a fault; every good row gets there |
| Order store (`apps/web/src/order-store.ts`) | orders table, `customerStates` in memory | `createOrderWithOutbox` | order and outbox rows commit together; snapshots count the orders |
| Web API and SSE hub (`apps/web/src/app.ts`, `sse.ts`) | connections, streams, heartbeat, customer counter | POST an order, open a stream, close | the hub pings while it has streams; closing leaves nothing that uses the broker |
| Consumer: source runner (`apps/consumer/src/handler-runner.ts`) | the message it works on | parse, skip a duplicate, handle, schedule or dead-letter, commit | the offset is committed last: no silent loss |
| Consumer: retry runner (`apps/consumer/src/retry-runner.ts`) | the same | park and requeue, handle, escalate or dead-letter | backoff is kept, retries end, hops are throttled |
| Retry scheduler, DLQ (`packages/infra/src/retry-topic.ts`, `dlq.ts`) | headers on the messages | schedule, requeue, dead-letter | delay ladder, maximum of deliveries |
| Idempotency filter (`packages/infra/src/idempotency.ts`) | ordered map of event ids, bounded | isDuplicate, mark | suppresses only finished events |
| Customer view (`apps/customer-view`) | map of the last snapshots, group offset | apply, DELETE with tombstone, reads | shows the last record of each key |
| Sample producer (`apps/producer`) | aggregates in memory | publish a sample order, payment, snapshot | - |
| In-memory driver (`packages/broker/src/adapters/in-memory.ts`) | topics, records, listeners, pools | create, produce, consume, dispose, disconnect | each subscription gets each record once, in order; pools are exact |
| Confluent driver (`packages/broker/src/adapters/confluent.ts`) | lazily connected clients and flags | connect, produce, consume, transactions, disconnect | flags say what is open; handlers keep their producer until they end; disconnect leaves nothing; every call returns |
| Avro codec (`packages/broker/src/codec/avro.ts`) | the promise of its registration; subjects in the schema registry | register the curated schemas on first use, encode, decode | nothing is encoded before every schema is registered and pinned |
| Reveal loop of the UI (`apps/web/src/ui/App.tsx`) | stages arrived and revealed, `dirty`, `playing`, a timer | event, order, timer, unmount | one loop; nothing that arrived is forgotten; canonical order unless late |
| Graceful shutdown (`packages/infra/src/shutdown.ts`) | `shuttingDown`, timer | signal handler | reverse order, always ends |
| JSON codec, schemas, telemetry, metrics, tracing, rendering, configuration | next to none | | |

### Interactions

The web app writes orders, payments and customer snapshots into one SQLite
outbox, in the transaction of the order. The relay polls the outbox from a timer
and produces to `orders.created`, `payments.completed` and `customers`; its
produced hook emits telemetry. The consumer reads the first two topics with a
source runner and `orders.retry` with the retry runner; both share one
idempotency filter and publish to `orders.retry` and `orders.dlq`. The customer view
reads `customers` and writes tombstones to it. The web app reads
`telemetry.events` and forwards it to browsers over SSE. Only the relay uses
transactions; every consumer reads committed records.

### What is hard

Everything is asynchronous JavaScript: one callback runs at a time and anything
may happen at an `await`. The hard parts are (1) a crash, a lost acknowledgement or a
failing write between "it is on the topic" and "it is marked or committed"; (2)
two runners that share a filter, or a timer tick that meets a slow run; (3)
messages requeued and redelivered while another copy climbs the ladder; (4)
memory that survives what the database rolled back, or is lost when offsets are
kept; (5) first calls that meet at a client that is not connected yet, and a
disconnect under them; (6) a shutdown in the middle of all that; (7) a record that is refused before any
error handling sees it. `PROJECT.json` lists each hazard at
its line, with the properties that cover it or the reason why none does.

## Modules and how they correspond to the code

An action is the code between two awaits: the reply to the awaited call arrives,
everything up to the next await happens, and the actor waits at its new `pc`.
Operators that a comment calls a mutant are plausible slips of the definition below
them, used to check that a property can fail; no specification uses them.

| Module | Models | Notes |
|---|---|---|
| `OutboxDelivery` | the promise of the outbox | rows are accepted and delivered in order; a settled row is on the topic and never delivered again |
| `OutboxRelay` | `OutboxStore`, `OutboxRelay`, the timer and the disposer | refines `OutboxDelivery` with `settled <- marked` |
| `RecordDelivery` | the promise of a broker to its subscriptions | one log; what a subscription was given only grows, and handlers begin in that order |
| `ConsumerPipeline` | both runners, the scheduler, the DLQ and the filter | two consumers: `source` (a source topic) and `retry` |
| `CustomerView` | order store, snapshots in the outbox, producer, view | one log per customer, since a key has one partition |
| `InMemoryBroker` | the in-memory driver | refines `RecordDelivery`; produce calls overlap at the codec, handlers at their ends |
| `WebShutdown` | the web app while it shuts down | signals, SSE streams, relay, consumer, server, broker |
| `ConfluentAdapter` | the clients, consumers and calls of the Confluent driver, and the registration of the Avro codec | the client library and the registry settle each promise as an action of their own |
| `FlowReveal` | the reveal loop of the UI | an action is a callback up to the next await of the loop |
| `MC...` | small instances | model values, ladder, schemas, stages |
| `...Proofs`, `ConsumerPipelineCounts` | TLAPS proofs | see [Proofs](#proofs) |

**OutboxRelay.** `outbox` and `marked` are the table, `log` the topic as a
`read_committed` reader sees it. `pc`, `todo` and `sent` are the local state of an
activation of `runOnce`; there are `Slots` of them, so that the model could run two at
a time if `running` did not prevent it. `Tick` peeks the batch (the `LIMIT`
applies before rows that do not parse are dropped and before `publishedIds` is consulted,
as in the code) and each `Send...`, `Commit...`, `Abort` and `Notify...` is one
outcome of the call that is awaited. `Transactional` selects the branch of
`runOnce`. Rows are `good`, `corrupt` (not JSON) or `poison` (refused by the codec).
Faults: a crash, a call that was applied and still rejects, a `markPublished` that
throws.

**ConsumerPipeline.** `queue[c]` holds the messages of a partition that are not
committed; its head is the one being worked on. A runner that throws, or a process
that dies, delivers the head again (`Rejects`, `AckLost`, `Restart`), which is what
the driver's seek-back and the committed offset do. Both source topics are one
consumer here, since their runners are two instances of one function with
disjoint messages. Time is counted in hops of the throttled sleep (one second
in the code). `WithRetryTopic` says that `HandlerConfig.retryScheduler` is set, as
`apps/consumer/src/main.ts:72` does exactly with the Kafka driver; `FALSE` is the runner as
`HandlerConfig` also allows it, on the same redelivering driver, and is covered by the proofs
only. It is not the in-memory driver, which swallows what a handler throws
(`in-memory.ts:237-245`) and never delivers a record twice. `Refused` are the events whose
record on a source topic the codec does not decode: the driver calls `deserialize` before the
runner (`confluent.ts:292`), so such a record (`Decoded`) enables no action; the driver delivers it
for ever, and the process keeps no trace of it. With the JSON codec there are none, and a payload that is
not JSON is one of `Invalid`. `orders.retry` is JSON always, so that the same event can be replayed
there. A commit whose
acknowledgement is lost is a commit: the runner then throws, but nothing of the message is
left to do.

**CustomerView.** A snapshot is its order count, `Applied` adds an order to it.
`CreateOrder` and `CreateOrderRollsBack` differ in what survives: the aggregate
in memory is updated either way. `sent` and `marked` follow the relay row by row;
`RetryBatch` and the restarts put published rows back on the topic, as the relay does
after a fault. `DeleteStart` and `DeleteEnd` are the two halves of the DELETE
handler around its await; several may overlap. When the produce of its tombstone rejects,
the promise of the async handler does, Express 4 leaves that to nobody, and Node ends the process:
`DeleteRejects`, a fault like the other restarts. With `Avro` (a registry is configured)
every DELETE ends so, because `customers` has an Avro schema (`avro-schemas.ts:86`), which null is not an instance
of. A record that `deserialize` or `apply` refuses (with Avro a tombstone or
no wire format, otherwise one without a key) is put on the topic by other programs only
(`ProduceForeign`); the view stops before it (`Deliverable`). `answered` and `resumed` are
history variables: the position of the running view when it last answered a DELETE of the customer, and when
it started. Log compaction is left out: it keeps the last record
of each key, which is the one the properties are about.

**InMemoryBroker.** `calls[c]` is a produce call between the computation of its
offset and the storing of its record. `Enqueue` is `enqueueDispatch` for a batch; a
limit of 1 bypasses the pool, as in the code. `started` is a history of dispatches.
`History` ranks the matching records instead of filtering the sequence: the k-th is the
one with k matches up to it. The code's filter on `fromSequence` lets all of
them through, since no await lies between its assignment and the loop. `DetachedForGood`
(in the proofs module) is the step property of a disposer.

**WebShutdown.** `step` is the call `registerGracefulShutdown` awaits. Browsers come
and go and the relay ticks in between; a kept-alive connection may open a stream
again after the hub was closed, which is why `HttpCloses` may never happen and the
timer matters.

**ConfluentAdapter.** `client[k]` is the producer, the transactional producer or the
admin client as the library sees it and `flag[k]` the adapter's `...Connected`;
between the two lie the awaits of `connect()` and `disconnect()`. `call[a]` is the call of an
actor and what it awaits: the import of the driver (`load`), `connect()` of its
client, `init()` of the codec, or the request itself (`use`). Actors are `Callers`, the
pending calls of the process, and the consumers, whose message handlers produce
retries and dead letters. `Encode` is `AvroCodec.serialize` with the memo of `init`:
a registration in progress is awaited, one that failed rejects each later call for
good. `closing` is what `disconnect()` awaits: the consumers, then each
connected client. What is assumed of the library: a second `connect()` on a client
that connects either joins the first or is refused; `consumer.disconnect()`
resolves when the message in progress is done; a client whose `connect()` failed is
closed and may be connected again. `Disconnect` comes when no
`consume()` or disposer is pending, which the order of the shutdown list of the
consumer process ensures (`apps/consumer/src/main.ts:234-258`, shut down from the
last to the first). The import of the driver may reject (`LoadFails`). `Answered` is the
answer to a request, of whichever client: a transaction or an admin request is one
opaque call here, and `OutboxRelay` takes the former apart. `consume()` does not await
`consumer.run()`; a rejection of it has no handler and ends the process, which is no action here. `alone` is a history variable: no call of the process
overlapped the last `disconnect()`.

**FlowReveal.** `arrived`, `revealed`, `dirty`, `playing` and `mounted` are the refs of
the component; `timers` counts the pending sleeps of its loops, so that the model
could have two loops if `playing` did not prevent it. `Iterate` is the loop from the top
of its body to its next await. `OrderPlaced` resets the refs under a loop that
may be asleep, as `onPlaced` does, and `Receive` takes telemetry of any order, because
the code reads no order id. `late` is a history variable.

## Runs

Every run ends within a minute and a half with two workers.

| Run | Question | Bounds |
|---|---|---|
| `outbox_tx` | the transactional relay: safety, refinement, and settlement of every row that nothing blocks | 3 rows of all kinds, batches of 2, 3 faults, 2 process starts, 2 activations |
| `outbox_each` | the row-by-row relay: order and delivery | 3 rows, good or corrupt, batch 3, 2 faults, 2 starts |
| `outbox_stuck_marks` | violation: see below | 3 rows, batch 2, one failing mark |
| `pipeline_kafka` | safety of the consumer, and that the topics drain | 2 valid events, 1 invalid, 1 whose record does not decode, 2 messages, ladder of 2, filter of 1, one fault |
| `pipeline_dup` | violation: see below | 1 event, 2 copies, no fault |
| `inmem` | the in-memory driver: safety, refinement, that queues drain | 1 topic, 2 keys (one with a negative hash), 2 overlapping calls, 3 records, a pool of 2, 1 disconnect |
| `view` | the read model | 1 customer, 2 orders, 1 record of the producer or another program, 2 deletes, 1 fault, JSON codec |
| `view_restart`, `view_totals` | violations: see below | 1 customer, 2 orders, 1 fault |
| `shutdown` | the shutdown of the web app | 2 browsers |
| `adapter` | the Confluent driver: what is open, what handlers may use, what disconnect leaves, that calls return | 2 callers, 1 consumer, producer and admin client, 2 subjects and a JSON topic; no bound on calls or disconnects |
| `reveal` | the reveal loop: one loop, order, nothing forgotten | 6 stages, any number of events and orders |

Why these bounds are enough for the interesting cases: a batch of 2 with 3
rows has two rows in the window and one behind it that starves if the window is
stuck; three faults allow a crash during the recovery from
a failed mark after a lost commit. A filter of one entry evicts with two events.
Two copies of an event are what one fault of the outbox makes, and a copy on each
topic is the smallest case in which the two runners meet. A ladder of two has a first rung, a
last rung and a clamp. Three records overflow a pool of two. Two deletes of a customer
overlap, or one meets a refused one, a rollback, a republished batch or a restart; two orders are
what it takes for an older snapshot to come after a newer one. A run with Avro would show
`DeleteRejects` alone, which this one has. Two callers and a
handler make two first calls meet while a third holds the client; the
transactional producer runs the same code as the producer, so that one of the two is
enough. Six stages have a retry in the middle and stages before and behind it. For the safety
properties the proofs lift the bounds altogether, except where noted below.

What the properties say:

- *Outbox*: `SettledAreDelivered` (marked, remembered or announced rows are on the
  topic), `DeliveredInOrder`, `DuplicatesNeedFaults` (one copy plus one per
  fault), `NeverResent` (an action property), `RefinesOutboxDelivery`,
  `EveryRowDelivered`, and `EveryRowSettled`: a row is marked in the end unless a
  poison row, a window full of corrupt rows or a failed mark blocks it, and these are the
  only three ways (`Unblocked`).
- *Pipeline*: `NoLoss`, `RetriesBeforeDlq` (no event is dead-lettered before a whole
  ladder has failed), `RetriesAreBounded`, `OneOutcomePerDelivery`, `HopsAreThrottled`,
  `MetricCountsAttempts` (how far `dlqTotal` may be ahead of the dead-letter topic),
  `TopicsDrain` (a partition stops at a record that does not decode, and at no other).
- *In-memory driver*: `GivenInOrder`, `NothingSkipped`, `PoolIsExact`, `QueueDrains`,
  `RefinesRecordDelivery`.
- *Read model*: `CaughtUpShowsLast` (a view that has read everything shows the last record of each
  customer; it shows nothing instead only where it started behind that record, or where a DELETE of that
  customer was answered after it), `SnapshotsAccumulate`, `NewestSnapshotWins`,
  `ViewCatchesUp`.
- *Shutdown*: `UsersGoFirst`, `ClosedInReverse`, `SignalEndsProcess`.
- *Confluent driver*: `HandlersKeepTheirClients`, `CleanDisconnect` (when no call overlaps
  it; one that does may leave an open client behind), `FlagsAreExact` (which is why
  another disconnect would still close that client), `EncodedAreRegistered`,
  `CallsReturn`.
- *Reveal loop* (its `TypeOK` is proved only): `OneLoop`, `OutOfOrderIsLate`, `DiagramSettles`.

`AnnouncedAreSettled`, `SeenWereHandled`, `PingsWhileStreaming` and `DetachedForGood` are defined and proved,
and no run repeats them.

## Where code and documentation disagree

1. `outbox_stuck_marks`: `outbox.ts:144` calls `publishedIds` "a safety net if
   `markPublished` itself throws". It prevents the second publication, but the rows
   stay pending and are filtered after the `LIMIT`: once they fill the window the
   relay publishes nothing until the process restarts.
2. `pipeline_dup`: `docs/adr/0002-idempotent-consumer-eventid.md:59` says
   "effectively exactly-once". The filter is read before the handler and marked after
   it, and two runners share it: two copies of an event on the two topics both
   run the handler, without any crash.
3. `view_restart`: `docs/guides/compacted-topics.md:32` says that the view replays the
   changelog on restart. Its group commits offsets, so a restarted view starts behind
   them with an empty map.
4. `view_totals`: `README.md:259` says that a snapshot accumulates the orders placed. A
   rolled back order stays in the aggregate and is counted by the next snapshot.

Three that the properties name as exceptions, so that the passing runs show that there are no others:

- `README.md:164` says "Invalid messages go straight to the DLQ", and
  `docs/guides/schema-registry.md:108` that with a registry the pipeline and the DLQ behave
  identically. With the Avro codec a record that does not decode never reaches the runner or the
  DLQ and blocks its partition; `json.ts:6-9` and `packages/broker/test/confluent.test.ts:464` show what
  was meant ("raw text so Zod can route it to the DLQ"). `TopicsDrain` excuses such a record
  (`~Decoded`), and `ViewCatchesUp` one that the view refuses.
- `docs/guides/compacted-topics.md:14` ("you always end up with the current snapshot") and `:31`
  ("latest record per key wins"). A DELETE whose tombstone is followed by a new snapshot
  removes the entry after its await (`app.ts:69`), when the view may have applied that snapshot: it is gone
  from the view until the next record of the customer. `CaughtUpShowsLast` excuses this customer
  at this record, and no other.
- `docs/guides/compacted-topics.md:52` and `:97` say that `customers` has no Avro schema and "still
  works" with a registry. It has one (`avro-schemas.ts:86`): a DELETE is refused and ends the
  process (`DeleteRejects`), and a tombstone of another program stops the view (`Refused`).

Smaller ones that no run shows: the comment at `in-memory.ts:250` says that a
concurrency of 1 is serialized, while every record is dispatched at once; two
overlapping produce calls of that driver get one offset; `dlqTotal` counts a dead
letter before it is written, and again when it is redelivered; ADR-0003:63 bounds the number of
hops by `maxDeliveries`, while a message makes one for each second of its
delay; a message that is dead-lettered by the retry runner is recorded with
`orders.retry` as its original topic; `idempotency.ts:14` calls
first-in-first-out eviction "LRU"; the `payment-recorded` event of README.md:255 has
partition -1, which its schema refuses; `App.tsx:13` says that steps are always revealed in
the logical sequence regardless of arrival order, while a stage that arrives after a
later one was revealed is appended behind it; `App.tsx:41` says that the types are those
of the current order, while telemetry of any order is taken.

## Fairness

- `OutboxRelay`: `setInterval` ticks while the relay is up (`WF` of some `Tick`) and an
  awaited call settles (`WF` of some `Reply`). Delivery also needs that a call that is
  tried for ever succeeds at some time (`SF` of begin, of commit, and of the send of each
  row): a broker that is down for good delivers nothing. Which activation runs does
  not matter. Nothing makes a process restart; liveness is stated for runs in which it
  stays up from some point on.
- `ConsumerPipeline`: time passes, and the driver delivers the head of a partition
  (`WF` of `Tick`, `Park` and `Step`), which includes that the registry answers when a
  record is decoded. A handler may fail for ever.
- `InMemoryBroker`: handlers return.
- `CustomerView`: the relay publishes and the view applies. Nothing answers a DELETE.
- `WebShutdown`: only the timer of the shutdown is fair; exporters, brokers and
  browsers may never answer.
- `ConfluentAdapter`: the import, the library and the registry settle every promise, either way, and a
  message handler ends after finitely many calls (`SF(Return)`, since it may call
  again and again). Nothing makes anyone call, consume or disconnect.
- `FlowReveal`: the timers of the browser fire. `DiagramSettles` is stated for runs in
  which orders, and for its second half events, stop coming.

## Proofs

The seven `...Proofs` modules and `ConsumerPipelineCounts` prove, for every value of the
constants that the named assumptions admit (payload kinds, number of activations, batch
sizes, events, ladders, filters, customers, browsers, callers, consumers, schemas, stages,
topics, subscriptions, hashes, pool limits, faults and bounds). Every invariant that a
run checks is the subject of a theorem here:

| Theorem | Statement |
|---|---|
| `OutboxRelayProofs!TypeCorrect`, `NothingLost`, `OrderKept`, `HookAfterMark`, `FewDuplicates` | `TypeOK`, `SettledAreDelivered`, `DeliveredInOrder`, `AnnouncedAreSettled`, `DuplicatesNeedFaults` are invariants |
| `OutboxRelayProofs!NoResend` | `NeverResent`, as an action property |
| `OutboxRelayProofs!Refinement` | the relay implements `OutboxDelivery` |
| `ConsumerPipelineProofs!TypeCorrect`, `NothingLost`, `FilterIsSound`, `LadderIsUsed` | `TypeOK`, `NoLoss`, `SeenWereHandled`, `RetriesBeforeDlq` |
| `ConsumerPipelineCounts!OutcomesAreCounted`, `RetriesEnd`, `ParkingIsThrottled`, `MetricIsBounded` | `OneOutcomePerDelivery`, `RetriesAreBounded`, `HopsAreThrottled`, `MetricCountsAttempts` |
| `InMemoryBrokerProofs!TypeCorrect`, `OrderIsKept`, `HistoryMeetsListener`, `PoolsAreExact` | `TypeOK`, `GivenInOrder`, `NothingSkipped`, `PoolIsExact` |
| `InMemoryBrokerProofs!Refinement` | the driver implements `RecordDelivery` |
| `InMemoryBrokerProofs!DetachingIsFinal` | `DetachedForGood`, as an action property |
| `CustomerViewProofs!TypeCorrect`, `ViewShowsLast`, `NoOrderIsMissing`, `NewestComesLast` | `TypeOK`, `CaughtUpShowsLast`, `SnapshotsAccumulate`, `NewestSnapshotWins` |
| `WebShutdownProofs!TypeCorrect`, `BrokerClosesLast`, `ReverseOrder`, `HeartbeatFollowsStreams` | `TypeOK`, `UsersGoFirst`, `ClosedInReverse`, `PingsWhileStreaming` |
| `ConfluentAdapterProofs!TypeSafety`, `FlagSafety`, `HandlerSafety`, `DisconnectSafety`, `EncodeSafety` | `TypeOK`, `FlagsAreExact`, `HandlersKeepTheirClients`, `CleanDisconnect`, `EncodedAreRegistered` |
| `FlowRevealProofs!TypeSafety`, `LoopSafety`, `OrderSafety` | `TypeOK`, `OneLoop`, `OutOfOrderIsLate` |

Each module defines an inductive invariant, proves that it holds initially and that
every action preserves it, and derives the properties. The strengthened invariants were
checked with TLC on small instances before they were proved.

Two of the assumptions about the consumer are there for the proofs. `EventsAssumption`:
there are finitely many events, without which `Total` and `Cardinality` say
nothing. `ReplayAssumption`: a message is published to `orders.retry` directly only
where that topic has a consumer, which `apps/consumer/src/main.ts:188` creates together with
the scheduler; without it such a message would stay there for ever, but the model's
retry runner would take it.

- *Outbox.* The properties are not inductive by themselves, because a batch is
  spread over `todo`, `sent`, `publishedIds` and the table while it is in flight. The
  invariant says in addition that at most the activation that holds `running` is away from
  `idle`; what its batch may still contain at each `pc`; that what it has staged and
  what it has still to produce are in id order and adjacent among the pending rows;
  and that a row with a smaller id than one on the topic is on the topic too. Order needs
  the single-flight guard, the refinement needs order, and "no resend" needs
  that a batch never holds a marked or remembered row. The bound on duplicates is a second
  invariant on top of it: each copy of a row is paid for by its mark or by a fault
  (`CopiesCounted`), which needs that a transaction stages a row once (`StagedOnce`).
- *Pipeline.* `NoLoss` needs to know what each `pc` stands for: at `commit` the outcome
  has happened, at any other one the message is still at the head of its queue.
  `RetriesBeforeDlq` needs that the failures of an event are at least the retry count of
  each of its messages, plus one where a failure was just counted.
- *Pipeline, counts.* A bound on a count is not inductive: a message in flight may still
  raise it. So each published copy and each delivery that ends without a commit buys an
  event a credit (`Credit`), and each message in a partition is worth what it can still
  cause: one outcome (`Copy`), the failures left on its ladder (`Attempts`), or the ticks left
  in its delays (`Ticks`). The invariant says that what was counted is at most the
  credits times their price, minus the worth of all queues, minus what the `pc` of a runner owes
  (`Balance`). A runner that has published the follow-up of a message and not yet
  committed it is paid: its head has no worth. The worths are sums over a queue,
  about which nothing can be proved by induction here; a sum is shown to be the
  cardinality of a set of tokens instead (`Tokens`), so that the
  library's facts on cardinalities give what a head removed or a message appended
  changes. `CountsInRange` and `WaitsInRange` say that a retry count stays below the last rung
  and that a message waits no longer than the rung it came from; `ParkWaits` that a runner
  sleeps only while its message is not due, which pays for the hop that follows.
- *View.* The store of a view is the record before its position, or empty at a position where
  it started or a DELETE was answered (`StoreFollowsPosition`), whether or not it has caught up. The
  aggregate lies between the stored orders and those plus the rollbacks. `LastIsAhead` says
  that the web app's last record on the topic is never behind what the relay has published
  in this attempt, also after a batch is set back to be published again.
- *In-memory driver.* What a subscription has is `started` followed by `waiting`
  (`Given`), and every fact about it is one about that concatenation: `Sound` says that it
  increases, that running records were started, that slots are counted, and that records wait
  only in a full pool. `EnqueueSound` needs the last of these: a record is dispatched at
  once only if none waits, so that what is started and what waits may be joined in either order
  (`ConcatSwap`). `EndedSound` moves the head of the queue across. The
  log is in the order of its numbers and an offset is not beyond the number of its record
  (`LogInOrder`, `CallsInOrder`), for calls that overlap at the codec and across a
  disconnect too; without it the next offset might not exist (`LeastAbove`). `HistoryProperties`
  shows that the ranks of the matching records are a bijection, hence that the history is
  increasing and complete, which is what `NothingSkipped` needs when a listener is
  attached. A double remainder is a partition for a hash of either sign
  (`PartitionProperties`). The refinement follows from the same lemmas: each of them also
  says what the step gives and that no dispatch is taken back (`Begins`). Its mapping hides
  the partitions, the calls at the codec and the pools: `given` is what was started
  followed by what waits, `begun` the length of the former.
- *Shutdown.* `UsersGoFirst` speaks of the last await only. `DoneSoFar` says what every
  await leaves behind, and that nothing that was stopped can start again while a
  later one is pending; `ClosedByStep` ties the list of closed resources to the await.
- *Confluent driver.* A handler that sends has a flagged client (`CallClient`), a
  consumer at a message is running or closing (`ConsumerOK`), and once `disconnect()` is at
  a client no consumer is left, so the client it closes has no handler. `CleanDisconnect`
  needs that a connecting client is awaited by some call (`Awaited`) and that the stages
  already passed stay closed while no call overlaps (`AloneOK`). `CodecOK` ties the memo to the
  progress of the registration, which is what `EncodedAreRegistered` rests on.
- *Reveal loop.* The order of what is shown is not inductive: `Journey` adds that a
  stage that waits behind a later one already revealed is late, which each event and each reveal of
  the first waiting stage keeps.

## What is only model-checked, and what is not modelled

Liveness under fairness is out of the prover's reach and is checked by TLC only:
`EveryRowSettled`, `EveryRowDelivered`, `TopicsDrain`, `QueueDrains`, `ViewCatchesUp`,
`SignalEndsProcess`, `CallsReturn` and `DiagramSettles`. So is that the code breaks the four
statements of [the documents](#where-code-and-documentation-disagree): these are
counterexamples. Some of the bounds that TLC needs are constants of the models
and are arbitrary in the proofs, so that a theorem holds for each of them.

Not modelled: the encodings and the validation of payloads (pure; that each of them, decoding
included, can refuse one is modelled), telemetry, metrics other than `dlqTotal`, and logs (they change no state that
is read), the TTL of the filter (the consumer does not set one), the idle batch of the
relay, requests that only read, log compaction, rebalances of a consumer group, the
event log, the form and the drawing of the UI (`FlowDiagram.tsx` draws the stages
it is given), and a transactional producer whose abort failed: whether its next
transaction begins is up to the client library. Records of the in-memory driver that do not
decode: its values were written by the same codec. A rejected `consumer.run()` of the Confluent
driver. The `connected` flag of the in-memory
driver is left out because no operation reads it. Duplicate source partitions are left
out: a partition is worked through by one runner at a time, and partitions share only the
filter, whose races the two consumers of the model already show.

## Plan

Order of the work, the most important behaviour first:

1. `OutboxDelivery`, `OutboxRelay`, runs, proofs. Done.
2. `ConsumerPipeline`, runs, proofs of its safety. Done.
3. `InMemoryBroker`, `CustomerView` (composes order store, relay and view),
   `WebShutdown`, with proofs. Done.
4. `ConfluentAdapter` (with the codec's registration and the shutdown order of the consumer)
   and `FlowReveal`, runs, proofs of their safety. Done.
5. `OrderFlow`: the outbox composed with the pipeline, to state end to end that each
   stored order is handled or dead-lettered.
6. Proofs of `InMemoryBroker` and of the counting bounds of the pipeline. Done.
7. The transactional producer after a failed abort, once the behaviour of the
   client library is pinned down.
8. `RecordDelivery`, the promise of a broker to its subscriptions, implemented by
   `InMemoryBroker`. Done. The Confluent driver keeps a weaker one (records are given
   again after a rejection or a rebalance), which `ConsumerPipeline` assumes.
