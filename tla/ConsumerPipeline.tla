-------------------------- MODULE ConsumerPipeline --------------------------
(***************************************************************************)
(* The consumer service of apps/consumer: the handler runner on the source *)
(* topics (handler-runner.ts), the retry-topic runner (retry-runner.ts),   *)
(* the retry scheduler and the dead-letter queue they publish to           *)
(* (packages/infra: retry-topic.ts, dlq.ts), and the idempotency filter    *)
(* the runners share (idempotency.ts), over a broker that redelivers what  *)
(* was not committed.                                                      *)
(*                                                                         *)
(* Each runner works through its partition one message at a time; the two  *)
(* interleave at every await.  Each action is the code between two awaits. *)
(***************************************************************************)
EXTENDS Integers, Sequences, FiniteSets, Functions

CONSTANTS
    Events,         \* event ids
    Invalid,        \* the events whose payload fails its schema
    Refused,        \* the events whose record the codec of a source topic refuses
    WithRetryTopic, \* HandlerConfig.retryScheduler is set; main.ts sets it with Kafka
    Replay,         \* an operator also publishes straight to orders.retry
    Delays,         \* RetryTopicPolicy.delaysMs, in clock ticks
    MaxDeliveries,  \* RetryTopicPolicy.maxDeliveries
    FilterSize,     \* IdempotencyFilterOptions.maxSize
    MaxPublished,   \* bound: messages ever published
    MaxFaults       \* bound: deliveries that end without a commit

ASSUME EventsAssumption == IsFiniteSet(Events)
ASSUME InvalidAssumption == Invalid \subseteq Events
\* Avro refuses what is not in the registry's wire format; JSON refuses nothing.
ASSUME RefusedAssumption == Refused \subseteq Events
ASSUME PolicyAssumption ==
    /\ Delays \in Seq(Nat \ {0}) /\ Delays # << >>
    /\ MaxDeliveries \in Nat \ {0} /\ FilterSize \in Nat \ {0}
    /\ WithRetryTopic \in BOOLEAN /\ Replay \in BOOLEAN
    /\ MaxPublished \in Nat /\ MaxFaults \in Nat
\* orders.retry has a consumer only where the handlers have a retry scheduler.
ASSUME ReplayAssumption == Replay => WithRetryTopic

Consumers == {"source", "retry"}

\* A message: its event, the retry-count header and the ticks until its
\* next-deliver-at header (parkDelayMs).
Messages == [event : Events, count : Nat, wait : Nat]

VARIABLES
    queue,        \* per consumer, the messages of its partition not yet committed
    pc,           \* per consumer, what it awaits for the message at the head
    seen,         \* the idempotency filter: ids in order of insertion
    dlqTotal,     \* the dlqTotal metric of this process
    dlq,          \* per event, records in the dead-letter topic
    \* History, per event.
    published,    \* copies written to the topics by others
    redelivered,  \* deliveries to a runner that ended without a commit
    handled,      \* business handler completions
    failures,     \* runs of the handler that exhausted their attempts
    hops          \* requeues onto the retry topic

history == <<published, redelivered, handled, failures, hops>>
vars    == <<queue, pc, seen, dlqTotal, dlq, history>>

\* idle: ready for the next message.  park: asleep until a hop is over.
\* requeue, schedule, deadLetter: awaiting that produce.  handle: awaiting the
\* handler and its in-process retries.  commit: awaiting the offset commit.
PCs == {"idle", "park", "requeue", "handle", "schedule", "deadLetter", "commit"}

Current(c) == Head(queue[c])

\* The driver decodes a record before it calls the runner.  When deserialize throws,
\* the driver seeks back and delivers it again: no runner, no DLQ, no commit.  The
\* retry topic has no Avro schema.
Decoded(c) == c = "source" => Current(c).event \notin Refused

Bump(tally, e) == [tally EXCEPT ![e] = @ + 1]
GoTo(c, label) == pc' = [pc EXCEPT ![c] = label]
Total(tally) == SumFunction(tally)

-----------------------------------------------------------------------------
(* The idempotency filter *)

IsDuplicate(e) == e \in Range(seen)

\* Mutant of Mark: the capacity is checked off by one.
MarkOverfills(e) ==
    IF IsDuplicate(e) THEN seen
    ELSE IF Len(seen) <= FilterSize THEN Append(seen, e)
    ELSE Append(Tail(seen), e)

\* A known id keeps its place; a new one evicts the oldest beyond the capacity.
Mark(e) ==
    IF IsDuplicate(e) THEN seen
    ELSE IF Len(seen) < FilterSize THEN Append(seen, e)
    ELSE Append(Tail(seen), e)

-----------------------------------------------------------------------------
(* The retry scheduler *)

\* The delay ladder, clamped at its last rung.
NextDelay(prior) == Delays[IF prior < Len(Delays) THEN prior + 1 ELSE Len(Delays)]

\* Mutant of IsMaxRetries: the last delivery of the ladder is lost.
IsMaxRetriesEarly(count) == count + 1 >= MaxDeliveries

IsMaxRetries(count) == count >= MaxDeliveries

\* Mutant of Scheduled: the retry count of the message is not escalated.
ScheduledAgain(m) == [event |-> m.event, count |-> m.count, wait |-> NextDelay(m.count)]

Scheduled(m) == [event |-> m.event, count |-> m.count + 1, wait |-> NextDelay(m.count)]

-----------------------------------------------------------------------------
(* Messages arrive *)

\* The producer, the outbox relay (twice, after a crash) or an operator who
\* replays a message to the retry topic, without its headers.
Publish(e) ==
    /\ Total(published) < MaxPublished
    /\ \E c \in {"source"} \cup (IF Replay THEN {"retry"} ELSE {}) :
         queue' = [queue EXCEPT ![c] = Append(@, [event |-> e, count |-> 0, wait |-> 0])]
    /\ published' = Bump(published, e)
    /\ UNCHANGED <<pc, seen, dlqTotal, dlq, redelivered, handled, failures, hops>>

Sooner(m) == [m EXCEPT !.wait = IF @ > 0 THEN @ - 1 ELSE 0]

\* One hop of the clock: every due time is nearer and every throttled sleep ends.
Tick ==
    /\ pc["retry"] = "park" \/ \E i \in DOMAIN queue["retry"] : queue["retry"][i].wait > 0
    /\ queue' = [queue EXCEPT !["retry"] = [i \in DOMAIN @ |-> Sooner(@[i])]]
    /\ pc' = [pc EXCEPT !["retry"] = IF @ = "park" THEN "requeue" ELSE @]
    /\ UNCHANGED <<seen, dlqTotal, dlq, history>>

-----------------------------------------------------------------------------
(* The runners, from the delivery of a message to the commit of its offset *)

\* Mutant of Park: requeues at once, without the throttled sleep.
ParkUnthrottled ==
    /\ pc["retry"] = "idle" /\ queue["retry"] # << >>
    /\ Current("retry").wait > 0
    /\ GoTo("retry", "requeue")
    /\ UNCHANGED <<queue, seen, dlqTotal, dlq, history>>

\* The retry runner parks a message that is not due.
Park ==
    /\ pc["retry"] = "idle" /\ queue["retry"] # << >>
    /\ Current("retry").wait > 0
    /\ GoTo("retry", "park")
    /\ UNCHANGED <<queue, seen, dlqTotal, dlq, history>>

\* parse fails: the message goes straight to the dead-letter topic.
ReceiveInvalid(c) ==
    /\ pc[c] = "idle" /\ queue[c] # << >>
    /\ Decoded(c) /\ Current(c).wait = 0
    /\ Current(c).event \in Invalid
    /\ dlqTotal' = dlqTotal + 1
    /\ GoTo(c, "deadLetter")
    /\ UNCHANGED <<queue, seen, dlq, history>>

\* Mutant of ReceiveDuplicate: returns without the commit.
ReceiveDuplicateUncommitted(c) ==
    /\ pc[c] = "idle" /\ queue[c] # << >>
    /\ Decoded(c) /\ Current(c).wait = 0
    /\ Current(c).event \notin Invalid /\ IsDuplicate(Current(c).event)
    /\ UNCHANGED vars

\* The event was already processed: skip to the commit.
ReceiveDuplicate(c) ==
    /\ pc[c] = "idle" /\ queue[c] # << >>
    /\ Decoded(c) /\ Current(c).wait = 0
    /\ Current(c).event \notin Invalid /\ IsDuplicate(Current(c).event)
    /\ GoTo(c, "commit")
    /\ UNCHANGED <<queue, seen, dlqTotal, dlq, history>>

Receive(c) ==
    /\ pc[c] = "idle" /\ queue[c] # << >>
    /\ Decoded(c) /\ Current(c).wait = 0
    /\ Current(c).event \notin Invalid /\ ~IsDuplicate(Current(c).event)
    /\ GoTo(c, "handle")
    /\ UNCHANGED <<queue, seen, dlqTotal, dlq, history>>

\* The handler resolves; the event is marked before the commit is sent.
HandlerSucceeds(c) ==
    /\ pc[c] = "handle"
    /\ handled' = Bump(handled, Current(c).event)
    /\ seen' = Mark(Current(c).event)
    /\ GoTo(c, "commit")
    /\ UNCHANGED <<queue, dlqTotal, dlq, published, redelivered, failures, hops>>

\* Whether this failure of the handler is the last one.
Exhausted(c) == IF c = "source" THEN ~WithRetryTopic ELSE IsMaxRetries(Current(c).count)

\* Mutant of HandlerFails: every failure is counted as a dead letter.
HandlerFailsCounts(c) ==
    /\ pc[c] = "handle"
    /\ failures' = Bump(failures, Current(c).event)
    /\ dlqTotal' = dlqTotal + 1
    /\ GoTo(c, IF Exhausted(c) THEN "deadLetter" ELSE "schedule")
    /\ UNCHANGED <<queue, seen, dlq, published, redelivered, handled, hops>>

\* The in-process attempts are exhausted: to the retry topic, or to the DLQ.
HandlerFails(c) ==
    /\ pc[c] = "handle"
    /\ failures' = Bump(failures, Current(c).event)
    /\ IF Exhausted(c)
       THEN dlqTotal' = dlqTotal + 1 /\ GoTo(c, "deadLetter")
       ELSE UNCHANGED dlqTotal /\ GoTo(c, "schedule")
    /\ UNCHANGED <<queue, seen, dlq, published, redelivered, handled, hops>>

\* What the produce a runner awaits puts on its topic.
Append1(m) == queue' = [queue EXCEPT !["retry"] = Append(@, m)]

Produce(c) ==
    \/ /\ pc[c] = "requeue"
       /\ Append1(Current(c))
       /\ hops' = Bump(hops, Current(c).event)
       /\ UNCHANGED dlq
    \/ /\ pc[c] = "schedule"
       /\ Append1(Scheduled(Current(c)))
       /\ UNCHANGED <<dlq, hops>>
    \/ /\ pc[c] = "deadLetter"
       /\ dlq' = Bump(dlq, Current(c).event)
       /\ UNCHANGED <<queue, hops>>

\* Mutant of Produced: returns without the commit.
ProducedUncommitted(c) ==
    /\ Produce(c)
    /\ GoTo(c, "idle")
    /\ UNCHANGED <<seen, dlqTotal, published, redelivered, handled, failures>>

\* The produce is acknowledged and the runner commits.
Produced(c) ==
    /\ Produce(c)
    /\ GoTo(c, "commit")
    /\ UNCHANGED <<seen, dlqTotal, published, redelivered, handled, failures>>

\* The commit resolves and the partition moves on.
Commit(c) ==
    /\ pc[c] = "commit"
    /\ queue' = [queue EXCEPT ![c] = Tail(@)]
    /\ GoTo(c, "idle")
    /\ UNCHANGED <<seen, dlqTotal, dlq, history>>

-----------------------------------------------------------------------------
(* Failures: the message at the head is delivered again *)

Faulty == Total(redelivered) < MaxFaults

\* Mutant of Rejects: a failed produce is swallowed and the offset committed.
RejectsSwallowed(c) ==
    /\ Faulty
    /\ pc[c] \in {"requeue", "schedule", "deadLetter", "commit"}
    /\ redelivered' = Bump(redelivered, Current(c).event)
    /\ GoTo(c, "commit")
    /\ UNCHANGED <<queue, seen, dlqTotal, dlq, published, handled, failures, hops>>

\* The awaited produce or commit rejects, nothing was applied, the handler throws.
Rejects(c) ==
    /\ Faulty
    /\ pc[c] \in {"requeue", "schedule", "deadLetter", "commit"}
    /\ redelivered' = Bump(redelivered, Current(c).event)
    /\ GoTo(c, "idle")
    /\ UNCHANGED <<queue, seen, dlqTotal, dlq, published, handled, failures, hops>>

\* The awaited produce rejects although the record was appended.
AckLost(c) ==
    /\ Faulty
    /\ Produce(c)
    /\ redelivered' = Bump(redelivered, Current(c).event)
    /\ GoTo(c, "idle")
    /\ UNCHANGED <<seen, dlqTotal, published, handled, failures>>

InFlight(e) == {c \in Consumers : pc[c] # "idle" /\ Current(c).event = e}

\* The process is killed and started again: it resumes at the committed offsets
\* with an empty filter and fresh metrics.
Restart ==
    /\ Faulty
    /\ redelivered' = [e \in Events |-> redelivered[e] + Cardinality(InFlight(e))]
    /\ Total(redelivered') <= MaxFaults
    /\ pc' = [c \in Consumers |-> "idle"]
    /\ seen' = << >>
    /\ dlqTotal' = 0
    /\ UNCHANGED <<queue, dlq, published, handled, failures, hops>>

-----------------------------------------------------------------------------
Zero == [e \in Events |-> 0]

Init ==
    /\ queue = [c \in Consumers |-> << >>]
    /\ pc = [c \in Consumers |-> "idle"]
    /\ seen = << >>
    /\ dlqTotal = 0
    /\ dlq = Zero
    /\ published = Zero /\ redelivered = Zero /\ handled = Zero
    /\ failures = Zero /\ hops = Zero

\* The runner of consumer c takes its next step without a fault.
Step(c) ==
    \/ ReceiveInvalid(c) \/ ReceiveDuplicate(c) \/ Receive(c)
    \/ HandlerSucceeds(c) \/ HandlerFails(c)
    \/ Produced(c) \/ Commit(c)

Next ==
    \/ \E e \in Events : Publish(e)
    \/ Tick \/ Park \/ Restart
    \/ \E c \in Consumers : Step(c) \/ Rejects(c) \/ AckLost(c)

Spec == Init /\ [][Next]_vars

\* Time passes and the broker keeps delivering; the handler may fail for ever.
FairSpec == Spec /\ WF_vars(Tick) /\ WF_vars(Park) /\ \A c \in Consumers : WF_vars(Step(c))

-----------------------------------------------------------------------------
(* Properties *)

\* The types of the variables; the filter stays within its capacity.
TypeOK ==
    /\ queue \in [Consumers -> Seq(Messages)]
    /\ pc \in [Consumers -> PCs]
    /\ seen \in Seq(Events) /\ Len(seen) <= FilterSize
    /\ dlqTotal \in Nat
    /\ \A tally \in {dlq, published, redelivered, handled, failures, hops} :
         tally \in [Events -> Nat]

Live(e) == \E c \in Consumers : \E i \in DOMAIN queue[c] : queue[c][i].event = e

\* No silent loss: a published event was handled, is in the dead-letter topic, or
\* still is on a topic with an uncommitted offset, so that the broker delivers it
\* again.  This is what "commit last" in both runners and the rethrow of
\* safeDeadLetter are for.
NoLoss ==
    \A e \in Events :
        published[e] > 0 => handled[e] > 0 \/ dlq[e] > 0 \/ Live(e)

\* The filter suppresses only events whose handler completed ("only marked on
\* success"), so that a retry in progress is never skipped.
SeenWereHandled == \A e \in Range(seen) : handled[e] > 0

Budget == IF WithRetryTopic THEN MaxDeliveries + 1 ELSE 1

\* A valid event is dead-lettered only after the whole ladder of deliveries, the
\* source's and MaxDeliveries on the retry topic, whatever is redelivered.
RetriesBeforeDlq ==
    \A e \in Events \ Invalid : dlq[e] > 0 => failures[e] >= Budget

\* Retries end: each copy, and each redelivery, buys at most one ladder.
RetriesAreBounded ==
    \A e \in Events : failures[e] <= Budget * (published[e] + redelivered[e])

\* One outcome per delivery: a copy is handled or dead-lettered at most once,
\* and each delivery that ends without a commit adds at most one outcome.
OneOutcomePerDelivery ==
    \A e \in Events : handled[e] + dlq[e] <= published[e] + redelivered[e]

\* The throttled sleep keeps a parked message from spinning on the retry topic:
\* a ladder has at most one hop per tick of delay.
HopsAreThrottled ==
    LET ladder == SumFunction([prior \in 0 .. MaxDeliveries - 1 |-> NextDelay(prior)])
    IN  \A e \in Events : hops[e] <= ladder * (published[e] + redelivered[e])

\* The dlqTotal metric of this process is ahead of the dead-letter topic by no
\* more than the writes in progress and the deliveries that ended without a
\* commit, although both runners increment it before the write they await.
MetricCountsAttempts ==
    dlqTotal <= Total(dlq) + Total(redelivered)
                + Cardinality({c \in Consumers : pc[c] = "deadLetter"})

\* The topics drain, even when a handler never succeeds: every message is
\* eventually committed and no retry or requeue goes on for ever.  A partition stops
\* at one kind of record only, one its codec refuses: README.md:164 says "Invalid
\* messages go straight to the DLQ", and this one never does.
TopicsDrain == <>[](\A c \in Consumers : queue[c] = << >> \/ ~Decoded(c))

\* ADR-0002: "At-least-once delivery is made effectively exactly-once for the
\* notification / read-model side effects".
EffectivelyOnce == \A e \in Events : handled[e] <= 1
=============================================================================
