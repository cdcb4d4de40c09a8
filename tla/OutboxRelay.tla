----------------------------- MODULE OutboxRelay -----------------------------
(***************************************************************************)
(* The transactional outbox of packages/infra/src/outbox.ts: the SQLite    *)
(* table (OutboxStore), the relay that polls it and publishes through the  *)
(* broker (OutboxRelay.runOnce), and the timer that drives the relay and   *)
(* its disposer (OutboxRelay.start), in a process that may be killed and   *)
(* started again.                                                          *)
(*                                                                         *)
(* JavaScript runs one callback at a time, so each action is the code      *)
(* between two awaits: a reply of the broker arrives, everything up to the *)
(* next await happens, and the run waits again at the new pc.              *)
(***************************************************************************)
EXTENDS Integers, Sequences, FiniteSets, Functions

CONSTANTS
    Kinds,          \* payload kinds the writers insert, see KindsAssumption
    Slots,          \* runOnce activations that could be pending at one time
    Transactional,  \* OutboxRelayOptions.transactional
    BatchSize,      \* OutboxRelayOptions.batchSize
    Faults,         \* faults the environment injects, see FaultsAssumption
    MaxRows,        \* bound: rows ever inserted
    MaxFaults,      \* bound: faults that may put a row on the topic twice
    MaxStarts       \* bound: times the process is started

\* "corrupt": the stored text is not JSON (an external writer or bit rot).
\* "poison": the payload parses but the codec refuses it, as Avro refuses a
\* quantity beyond 32 bits.
ASSUME KindsAssumption == Kinds \subseteq {"good", "corrupt", "poison"}
\* "crash": the process is killed.  "lostAck": the broker applies a produce or
\* a commit and the call still rejects.  "markFails": markPublished throws.
ASSUME FaultsAssumption == Faults \subseteq {"crash", "lostAck", "markFails"}
ASSUME BoundsAssumption ==
    /\ Transactional \in BOOLEAN
    /\ BatchSize \in Nat \ {0}
    /\ MaxRows \in Nat /\ MaxFaults \in Nat /\ MaxStarts \in Nat

VARIABLES
    \* In SQLite: survive a crash.
    outbox,        \* payload kind of each row, by id
    marked,        \* ids with published_at set
    \* In Kafka.
    log,           \* ids on the topic, as a read_committed consumer sees them
    \* In the process: lost in a crash.
    up,            \* the process runs
    running,       \* start(): a tick is in progress
    stopped,       \* start(): the disposer was called
    publishedIds,  \* ids dispatched by this process
    pc,            \* where each runOnce activation waits
    todo,          \* rows of its batch it has still to produce
    sent,          \* rows it has produced whose onPublished is outstanding
    \* History.
    announced,     \* ids passed to onPublished
    faults,        \* faults so far that may put a row on the topic twice
    starts         \* times the process was started

store   == <<outbox, marked>>
process == <<up, stopped, starts>>
run     == <<running, pc, todo, sent>>
vars    == <<store, log, process, publishedIds, run, announced, faults>>

PCs == {"idle", "begin", "send", "commit", "notify", "abort"}

Rows         == DOMAIN outbox
Delivered    == Range(log)
SentRows(s)  == Range(sent[s])

-----------------------------------------------------------------------------
(* OutboxStore *)

Pending == Rows \ marked

\* Mutant: the SELECT takes the newest rows first.
WindowNewestFirst == {r \in Pending : Cardinality({q \in Pending : q >= r}) <= BatchSize}

\* The SELECT of peekPending: the LIMIT applies before rows are parsed.
Window == {r \in Pending : Cardinality({q \in Pending : q <= r}) <= BatchSize}

\* peekPending drops the rows that do not parse.
PeekPending == {r \in Window : outbox[r] # "corrupt"}

\* A writer's transaction commits one more row with a fresh id.
InsertPending ==
    /\ up
    /\ Len(outbox) < MaxRows
    /\ \E kind \in Kinds : outbox' = Append(outbox, kind)
    /\ UNCHANGED <<marked, log, process, publishedIds, run, announced, faults>>

-----------------------------------------------------------------------------
(* OutboxRelay.runOnce, as activation s of the relay *)

\* Mutant: publishedIds is not consulted.
BatchUnfiltered == PeekPending

Batch == PeekPending \ publishedIds

\* Mutant: rows are produced in any order.
NextRowUnordered(s, r) == r \in todo[s]

\* The next row of the for loop: rows are produced in id order.
NextRow(s, r) == r \in todo[s] /\ \A q \in todo[s] : r <= q

GoTo(s, label) == pc' = [pc EXCEPT ![s] = label]

\* Mutant: no finally, so `running` stays set.
FinishKeepsRunning(s) ==
    /\ GoTo(s, "idle")
    /\ todo' = [todo EXCEPT ![s] = {}]
    /\ sent' = [sent EXCEPT ![s] = << >>]
    /\ UNCHANGED running

\* runOnce returns and the finally of tick clears `running`.
Finish(s) ==
    /\ GoTo(s, "idle")
    /\ todo' = [todo EXCEPT ![s] = {}]
    /\ sent' = [sent EXCEPT ![s] = << >>]
    /\ running' = FALSE

\* The catch block: with a transaction open, abort it first.
Fail(s) ==
    IF Transactional /\ pc[s] # "begin"
    THEN GoTo(s, "abort") /\ UNCHANGED <<todo, sent, running>>
    ELSE Finish(s)

\* Mutant: a tick does not look at `running`.
TickOverlaps(s) ==
    /\ up /\ ~stopped /\ pc[s] = "idle"
    /\ Batch # {}
    /\ running' = TRUE
    /\ todo' = [todo EXCEPT ![s] = Batch]
    /\ GoTo(s, IF Transactional THEN "begin" ELSE "send")
    /\ UNCHANGED <<store, log, process, publishedIds, sent, announced, faults>>

\* A timer tick starts runOnce, which peeks the batch and makes its first call.
\* An empty batch changes nothing, and a tick that peekPending rejects is an
\* unhandled rejection, which ends the process: see Crash.
Tick(s) ==
    /\ up /\ ~running /\ ~stopped /\ pc[s] = "idle"
    /\ Batch # {}
    /\ running' = TRUE
    /\ todo' = [todo EXCEPT ![s] = Batch]
    /\ GoTo(s, IF Transactional THEN "begin" ELSE "send")
    /\ UNCHANGED <<store, log, process, publishedIds, sent, announced, faults>>

Begin(s) ==
    /\ pc[s] = "begin"
    /\ GoTo(s, "send")
    /\ UNCHANGED <<store, log, process, publishedIds, running, todo, sent,
                   announced, faults>>

BeginFails(s) ==
    /\ pc[s] = "begin"
    /\ Fail(s)
    /\ UNCHANGED <<store, log, process, publishedIds, announced, faults>>

\* Mutant: the row is marked when it is staged, before the commit.
SendInTxMarksEarly(s, r) ==
    /\ Transactional
    /\ pc[s] = "send" /\ NextRow(s, r) /\ outbox[r] # "poison"
    /\ marked' = marked \cup {r}
    /\ sent' = [sent EXCEPT ![s] = Append(@, r)]
    /\ todo' = [todo EXCEPT ![s] = @ \ {r}]
    /\ GoTo(s, IF todo[s] = {r} THEN "commit" ELSE "send")
    /\ UNCHANGED <<outbox, log, process, publishedIds, running, announced, faults>>

\* tx.produce is acknowledged: the row is staged in the open transaction.
SendInTx(s, r) ==
    /\ Transactional
    /\ pc[s] = "send" /\ NextRow(s, r) /\ outbox[r] # "poison"
    /\ sent' = [sent EXCEPT ![s] = Append(@, r)]
    /\ todo' = [todo EXCEPT ![s] = @ \ {r}]
    /\ GoTo(s, IF todo[s] = {r} THEN "commit" ELSE "send")
    /\ UNCHANGED <<store, log, process, publishedIds, running, announced, faults>>

\* broker.produce is acknowledged: the row is remembered and marked at once.
SendAlone(s, r) ==
    /\ ~Transactional
    /\ pc[s] = "send" /\ NextRow(s, r) /\ outbox[r] # "poison"
    /\ log' = Append(log, r)
    /\ publishedIds' = publishedIds \cup {r}
    /\ marked' = marked \cup {r}
    /\ sent' = [sent EXCEPT ![s] = Append(@, r)]
    /\ todo' = [todo EXCEPT ![s] = @ \ {r}]
    /\ GoTo(s, "notify")
    /\ UNCHANGED <<outbox, process, running, announced, faults>>

\* The same, and markPublished throws: the batch ends in the catch block.
SendAloneMarkFails(s, r) ==
    /\ ~Transactional /\ "markFails" \in Faults /\ faults < MaxFaults
    /\ pc[s] = "send" /\ NextRow(s, r) /\ outbox[r] # "poison"
    /\ log' = Append(log, r)
    /\ publishedIds' = publishedIds \cup {r}
    /\ faults' = faults + 1
    /\ Fail(s)
    /\ UNCHANGED <<store, process, announced>>

\* The produce rejects and nothing reached the topic.
SendFails(s) ==
    /\ pc[s] = "send"
    /\ Fail(s)
    /\ UNCHANGED <<store, log, process, publishedIds, announced, faults>>

\* The produce rejects although the record was appended.
SendAckLost(s, r) ==
    /\ ~Transactional /\ "lostAck" \in Faults /\ faults < MaxFaults
    /\ pc[s] = "send" /\ NextRow(s, r) /\ outbox[r] # "poison"
    /\ log' = Append(log, r)
    /\ faults' = faults + 1
    /\ Fail(s)
    /\ UNCHANGED <<store, process, publishedIds, announced>>

\* Mutant: published_at is set on the rows after the ones sent.
CommitMarksNext(s) ==
    /\ pc[s] = "commit"
    /\ log' = log \o sent[s]
    /\ publishedIds' = publishedIds \cup SentRows(s)
    /\ marked' = marked \cup {r + 1 : r \in SentRows(s)}
    /\ GoTo(s, "notify")
    /\ UNCHANGED <<outbox, process, running, todo, sent, announced, faults>>

\* tx.commit resolves; the batch is remembered and marked before the next await.
Commit(s) ==
    /\ pc[s] = "commit"
    /\ log' = log \o sent[s]
    /\ publishedIds' = publishedIds \cup SentRows(s)
    /\ marked' = marked \cup SentRows(s)
    /\ GoTo(s, "notify")
    /\ UNCHANGED <<outbox, process, running, todo, sent, announced, faults>>

\* The same, and markPublished throws: the committed transaction is "aborted".
CommitMarkFails(s) ==
    /\ "markFails" \in Faults /\ faults < MaxFaults
    /\ pc[s] = "commit"
    /\ log' = log \o sent[s]
    /\ publishedIds' = publishedIds \cup SentRows(s)
    /\ faults' = faults + 1
    /\ Fail(s)
    /\ UNCHANGED <<store, process, announced>>

\* tx.commit rejects and the transaction is not committed.
CommitFails(s) ==
    /\ pc[s] = "commit"
    /\ Fail(s)
    /\ UNCHANGED <<store, log, process, publishedIds, announced, faults>>

\* tx.commit rejects although the transaction is committed.
CommitAckLost(s) ==
    /\ "lostAck" \in Faults /\ faults < MaxFaults
    /\ pc[s] = "commit"
    /\ log' = log \o sent[s]
    /\ faults' = faults + 1
    /\ Fail(s)
    /\ UNCHANGED <<store, process, publishedIds, announced>>

\* tx.abort settles; its own rejection is swallowed.
Abort(s) ==
    /\ pc[s] = "abort"
    /\ Finish(s)
    /\ UNCHANGED <<store, log, process, publishedIds, announced, faults>>

\* onPublished resolves for the next row; then the next hook, row or return.
Notify(s) ==
    /\ pc[s] = "notify"
    /\ announced' = announced \cup {Head(sent[s])}
    /\ IF Len(sent[s]) = 1 /\ todo[s] = {}
       THEN Finish(s)
       ELSE /\ sent' = [sent EXCEPT ![s] = Tail(@)]
            /\ GoTo(s, IF Len(sent[s]) = 1 THEN "send" ELSE "notify")
            /\ UNCHANGED <<todo, running>>
    /\ UNCHANGED <<store, log, process, publishedIds, faults>>

\* onPublished rejects: the remaining hooks, or rows, of the batch are skipped.
NotifyFails(s) ==
    /\ pc[s] = "notify"
    /\ announced' = announced \cup {Head(sent[s])}
    /\ Fail(s)
    /\ UNCHANGED <<store, log, process, publishedIds, faults>>

-----------------------------------------------------------------------------
(* OutboxRelay.start: the timer's disposer, and the process around it *)

\* The disposer clears the timer; it resolves when no run is in flight.
Dispose ==
    /\ up /\ ~stopped
    /\ stopped' = TRUE
    /\ UNCHANGED <<store, log, up, starts, publishedIds, run, announced, faults>>

\* The process is gone: its memory with it, and an open transaction is fenced.
Die ==
    /\ up' = FALSE
    /\ stopped' = FALSE
    /\ running' = FALSE
    /\ publishedIds' = {}
    /\ pc' = [s \in Slots |-> "idle"]
    /\ todo' = [s \in Slots |-> {}]
    /\ sent' = [s \in Slots |-> << >>]
    /\ UNCHANGED <<store, log, starts, announced>>

\* A graceful shutdown exits once the disposer has awaited the run in flight.
Exit ==
    /\ up /\ stopped /\ ~running
    /\ Die
    /\ UNCHANGED faults

\* The process is killed.  Only a run in flight makes this a fault.
Crash ==
    /\ up /\ "crash" \in Faults
    /\ running => faults < MaxFaults
    /\ Die
    /\ faults' = IF running THEN faults + 1 ELSE faults

Restart ==
    /\ ~up /\ starts < MaxStarts
    /\ up' = TRUE
    /\ starts' = starts + 1
    /\ UNCHANGED <<store, log, stopped, publishedIds, run, announced, faults>>

-----------------------------------------------------------------------------
Init ==
    /\ outbox = << >> /\ marked = {} /\ log = << >>
    /\ up = TRUE /\ running = FALSE /\ stopped = FALSE
    /\ publishedIds = {}
    /\ pc = [s \in Slots |-> "idle"]
    /\ todo = [s \in Slots |-> {}]
    /\ sent = [s \in Slots |-> << >>]
    /\ announced = {} /\ faults = 0 /\ starts = 1

\* A reply, of whatever outcome, to the call activation s is waiting for.
Reply(s) ==
    \/ Begin(s) \/ BeginFails(s)
    \/ \E r \in todo[s] : \/ SendInTx(s, r) \/ SendAlone(s, r)
                          \/ SendAloneMarkFails(s, r) \/ SendAckLost(s, r)
    \/ SendFails(s)
    \/ Commit(s) \/ CommitMarkFails(s) \/ CommitFails(s) \/ CommitAckLost(s)
    \/ Abort(s)
    \/ Notify(s) \/ NotifyFails(s)

Next ==
    \/ InsertPending
    \/ \E s \in Slots : Tick(s) \/ Reply(s)
    \/ Dispose \/ Exit \/ Crash \/ Restart

Spec == Init /\ [][Next]_vars

\* setInterval keeps ticking, every awaited call settles, and a call that is
\* retried for ever eventually succeeds.  Nothing makes the process restart.
Fairness ==
    /\ WF_vars(\E s \in Slots : Tick(s))
    /\ WF_vars(\E s \in Slots : Reply(s))
    /\ SF_vars(\E s \in Slots : Begin(s))
    /\ SF_vars(\E s \in Slots : Commit(s))
    /\ \A r \in 1..MaxRows : SF_vars(\E s \in Slots : SendInTx(s, r) \/ SendAlone(s, r))

FairSpec == Spec /\ Fairness

-----------------------------------------------------------------------------
(* Properties *)

\* The values the variables take.
TypeOK ==
    /\ outbox \in Seq(Kinds) /\ Len(outbox) <= MaxRows
    /\ marked \subseteq Rows
    /\ log \in Seq(Rows)
    /\ up \in BOOLEAN /\ running \in BOOLEAN /\ stopped \in BOOLEAN
    /\ publishedIds \subseteq Rows
    /\ pc \in [Slots -> PCs]
    /\ todo \in [Slots -> SUBSET Rows]
    /\ sent \in [Slots -> Seq(Rows)]
    /\ announced \subseteq Rows
    /\ faults \in 0..MaxFaults
    /\ starts \in Nat

\* No row is lost silently: whatever the store marks as published, the process
\* remembers as dispatched or the hook announces is on the topic, across aborted
\* batches, rejected commits, crashes and shutdowns (runOnce marks after commit).
SettledAreDelivered == marked \cup publishedIds \cup announced \subseteq Delivered

\* Rows are first delivered in id order: a row is on the topic only after every
\* earlier row that can be parsed (peekPending's ORDER BY id, the sequential
\* loop of runOnce and the single-flight guard of tick together).
DeliveredInOrder ==
    \A i \in DOMAIN log : \A q \in Rows :
        q < log[i] /\ outbox[q] # "corrupt" => \E j \in 1..(i - 1) : log[j] = q

Copies(r) == Cardinality({i \in DOMAIN log : log[i] = r})

\* Duplicates have a cause: a row is on the topic once, plus at most once for
\* each crash of a run in flight, lost acknowledgement or failed mark.  Ticks that
\* overlap a slow run, aborted batches and graceful restarts cause none.
DuplicatesNeedFaults == \A r \in Rows : Copies(r) <= 1 + faults

\* The produced hook (onPublished, the telemetry of apps/web) announces only rows
\* the store has settled, so an announced row is never sent again.
AnnouncedAreSettled == announced \subseteq marked

\* A row that is marked, or that this process has dispatched, is never sent
\* again: the guarantee publishedIds gives when markPublished throws.
NeverResent ==
    [][\A i \in DOMAIN log' \ DOMAIN log : log'[i] \notin marked \cup publishedIds]_vars

\* The relay keeps the promise of the outbox to its readers.
Promise == INSTANCE OutboxDelivery WITH settled <- marked
RefinesOutboxDelivery == Promise!Spec

RelayStaysUp == <>[](up /\ ~stopped)

\* While the relay keeps running, every row that can be published is eventually
\* on the topic ("never dropped", outbox.ts: each poll retries what is pending).
EveryRowDelivered ==
    RelayStaysUp =>
        \A r \in 1..MaxRows : (r \in Rows /\ outbox[r] = "good") ~> (r \in Delivered)

\* What keeps the batches moving: no row the codec refuses, a window with room
\* for a row that parses, and no dispatched row left pending by a failed mark.
Unblocked ==
    /\ \A r \in Rows : outbox[r] # "poison"
    /\ Cardinality({r \in Rows : outbox[r] = "corrupt"}) < BatchSize
    /\ publishedIds \subseteq marked

\* A row is also marked, so that no later process sends it again, and the three
\* ways in which a batch can be blocked for ever (runOnce, peekPending) are the
\* only ones: crashes, aborted batches and lost acknowledgements block nothing.
EveryRowSettled ==
    RelayStaysUp /\ <>[]Unblocked =>
        \A r \in 1..MaxRows : (r \in Rows /\ outbox[r] = "good") ~> (r \in marked)
=============================================================================
