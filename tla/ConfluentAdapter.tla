-------------------------- MODULE ConfluentAdapter --------------------------
(***************************************************************************)
(* The Kafka driver, packages/broker/src/adapters/confluent.ts: the lazy   *)
(* connections of its producer, transactional producer and admin clients,  *)
(* its consumers and their disposers, and disconnect(), all used at once   *)
(* by the calls of the process and by the message handlers; with the lazy  *)
(* schema registration of the codec it sends through, codec/avro.ts.       *)
(*                                                                         *)
(* The client library and the schema registry are external: they settle    *)
(* each call, in any order and with either outcome, as actions of their    *)
(* own.  Such an action includes what the adapter does when the awaited    *)
(* promise settles, up to its next await.                                  *)
(***************************************************************************)
EXTENDS Integers, Sequences, Functions

CONSTANTS
    Callers,      \* pending calls the process makes outside message handlers
    Consumers,    \* consume() calls
    Kinds,        \* the clients the process uses, see KindsAssumption
    Subjects,     \* the curated subjects, in the order of AvroCodecOptions.schemas
    AutoConnect   \* BrokerConfig.autoConnect

ASSUME KindsAssumption == Kinds \subseteq {"producer", "tx", "admin"}
ASSUME SubjectsAssumption ==
    /\ Subjects \in Seq(Range(Subjects))
    /\ \A i, j \in DOMAIN Subjects : Subjects[i] = Subjects[j] => i = j
    /\ "json" \notin Range(Subjects)
ASSUME OtherAssumption == AutoConnect \in BOOLEAN /\ Callers \cap Consumers = {}

\* Whoever makes calls: a consumer does so from its message handler.
Actors == Callers \cup Consumers

\* What a record is produced on: a curated subject, or a topic left to JSON.
Topics == Range(Subjects) \cup {"json"}

VARIABLES
    connected,  \* this.connected
    client,     \* this.producer, txProducer and admin, as the library sees them
    flag,       \* this.producerConnected, txProducerConnected, adminConnected
    handles,    \* this.consumers
    consumer,   \* each consumer, as the library sees it
    handling,   \* the consumers whose handler is at a message
    call,       \* per actor, what its call awaits
    closing,    \* what disconnect() awaits
    memo,       \* initPromise of the codec
    \* In the schema registry: survives the codec.
    registry,   \* the subjects registered, in order of their registration
    pinned,     \* the subjects whose compatibility was set to BACKWARD, in order
    \* History.
    encoded,    \* the subjects the Avro serializer was used on
    alone       \* no call of the process overlapped the last disconnect()

consumers == <<handles, consumer, handling>>
codec     == <<memo, registry, pinned, encoded>>
vars      == <<connected, client, flag, consumers, call, closing, codec, alone>>

ClientStates   == {"none", "connecting", "open", "closing", "closed"}
ConsumerStates == {"none", "connecting", "running", "closing", "closed"}

\* load: the driver's module.  connect: the client's connect().  init: the
\* registration of the schemas.  use: the request to the broker.
Idle  == [kind |-> "none", topic |-> "json", at |-> "idle"]
Calls == [kind : Kinds \cup {"none", "connect"}, topic : Topics,
          at : {"idle", "load", "connect", "init", "use"}]

Awaiting(a, label) == call[a].at = label
Pending(a) == call[a].at # "idle"

-----------------------------------------------------------------------------
(* AvroCodec *)

\* Mutant of Encode: a registration in progress is not awaited.
EncodeEarly(c) ==
    CASE c.topic = "json" \/ memo \in {"ok", "pending"} -> [c EXCEPT !.at = "use"]
      [] memo = "failed" -> Idle
      [] OTHER -> [c EXCEPT !.at = "init"]

\* Mutant of Encode: a failed registration is awaited as if it were in progress.
EncodeWaits(c) ==
    IF c.topic = "json" \/ memo = "ok" THEN [c EXCEPT !.at = "use"]
    ELSE [c EXCEPT !.at = "init"]

\* serialize: where call c gets with the record of its topic.  The memo of a
\* registration that failed is kept, and rejects each later call at once.
Encode(c) ==
    CASE c.topic = "json" \/ memo = "ok" -> [c EXCEPT !.at = "use"]
      [] memo = "failed" -> Idle
      [] OTHER -> [c EXCEPT !.at = "init"]

\* Mutant of Proceed: records without a curated schema are encoded as Avro too.
ProceedInAvro(after) ==
    /\ call' = after
    /\ memo' = IF memo = "none" /\ \E a \in Actors : after[a].at = "init" THEN "pending" ELSE memo
    /\ encoded' = encoded \cup {after[a].topic : a \in {b \in Actors : after[b].at = "use"}}

\* The calls move to `after`.  The first of them that has to await init starts
\* it; the Avro serializer encodes the records of those that now send.
Proceed(after) ==
    /\ call' = after
    /\ memo' = IF memo = "none" /\ \E a \in Actors : after[a].at = "init" THEN "pending" ELSE memo
    /\ encoded' = encoded \cup
         ({after[a].topic : a \in {b \in Actors : after[b].at = "use"}} \ {"json"})

\* The subject registerAll is at.
Current == Subjects[Len(pinned) + 1]

\* registerAll: the registration of the current subject is acknowledged.
Registered ==
    /\ memo = "pending" /\ Len(registry) = Len(pinned)
    /\ registry' = Append(registry, Current)
    /\ UNCHANGED <<connected, client, flag, consumers, call, closing,
                   memo, pinned, encoded, alone>>

\* Its compatibility is pinned; after the last subject init resolves.
Pinned ==
    /\ memo = "pending" /\ Len(registry) > Len(pinned)
    /\ pinned' = Append(pinned, Current)
    /\ IF Len(pinned') = Len(Subjects)
       THEN /\ memo' = "ok"
            /\ call' = [a \in Actors |-> IF Awaiting(a, "init") THEN [call[a] EXCEPT !.at = "use"]
                                         ELSE call[a]]
            /\ encoded' = encoded \cup {call[a].topic : a \in {b \in Actors : Awaiting(b, "init")}}
       ELSE UNCHANGED <<memo, call, encoded>>
    /\ UNCHANGED <<connected, client, flag, consumers, closing, registry, alone>>

\* The registry refuses a request or is down: init rejects, and stays rejected.
RegistryFails ==
    /\ memo = "pending"
    /\ memo' = "failed"
    /\ call' = [a \in Actors |-> IF Awaiting(a, "init") THEN Idle ELSE call[a]]
    /\ UNCHANGED <<connected, client, flag, consumers, closing,
                   registry, pinned, encoded, alone>>

-----------------------------------------------------------------------------
(* connect, getProducer, getTransactionalProducer, getAdmin *)

\* A call of actor a for the client c.kind.  A client that was not used before,
\* or that connects, is awaited; one whose connect() was called before may also
\* refuse the second call, and the call rejects.
GetClient(a, c) ==
    LET k == c.kind IN
    \/ flag[k] /\ Proceed([call EXCEPT ![a] = Encode(c)]) /\ UNCHANGED client
    \/ /\ ~flag[k]
       /\ client' = [client EXCEPT ![k] = "connecting"]
       /\ Proceed([call EXCEPT ![a] = [c EXCEPT !.at = "connect"]])
    \/ /\ ~flag[k] /\ client[k] # "none"
       /\ Proceed([call EXCEPT ![a] = Idle])
       /\ UNCHANGED client

\* A message handler makes its calls while it is at a message, and only produces.
MayCall(a, k) == a \in Callers \/ (a \in handling /\ k = "producer")

\* createTopics, listTopics, produce and beginTransaction: without a connection
\* ensureReady loads the driver, or rejects, which changes nothing.
Call(a, k, topic) ==
    /\ ~Pending(a) /\ MayCall(a, k)
    /\ k = "admin" => topic = "json"
    /\ LET c == [kind |-> k, topic |-> topic, at |-> "load"] IN
       \/ connected /\ GetClient(a, c)
       \/ ~connected /\ AutoConnect /\ Proceed([call EXCEPT ![a] = c]) /\ UNCHANGED client
    /\ alone' = (alone /\ a \notin Callers)
    /\ UNCHANGED <<connected, flag, consumers, closing, registry, pinned>>

\* connect() on its own.
Connect(a) ==
    /\ ~Pending(a) /\ a \in Callers /\ ~connected
    /\ Proceed([call EXCEPT ![a] = [kind |-> "connect", topic |-> "json", at |-> "load"]])
    /\ alone' = FALSE
    /\ UNCHANGED <<connected, client, flag, consumers, closing, registry, pinned>>

\* The import resolves.  Only connect() is done; the others get their client.
Loaded(a) ==
    /\ Awaiting(a, "load")
    /\ connected' = TRUE
    /\ \/ call[a].kind = "connect" /\ Proceed([call EXCEPT ![a] = Idle]) /\ UNCHANGED client
       \/ call[a].kind \in Kinds /\ GetClient(a, call[a])
    /\ UNCHANGED <<flag, consumers, closing, registry, pinned, alone>>

\* The import rejects, and the call with it, unconnected as before.
LoadFails(a) ==
    /\ Awaiting(a, "load")
    /\ Proceed([call EXCEPT ![a] = Idle])
    /\ UNCHANGED <<connected, client, flag, consumers, closing,
                   registry, pinned, alone>>

Waiters(k) == {a \in Actors : Awaiting(a, "connect") /\ call[a].kind = k}

\* Mutant of ClientConnects: the flag is forgotten.
ClientConnectsUnflagged(k) ==
    /\ client[k] = "connecting"
    /\ client' = [client EXCEPT ![k] = "open"]
    /\ Proceed([a \in Actors |-> IF a \in Waiters(k) THEN Encode(call[a]) ELSE call[a]])
    /\ UNCHANGED <<connected, flag, consumers, closing, registry, pinned, alone>>

\* The awaited connect() resolves: the flag is set and the calls go on.
ClientConnects(k) ==
    /\ client[k] = "connecting"
    /\ client' = [client EXCEPT ![k] = "open"]
    /\ flag' = [flag EXCEPT ![k] = TRUE]
    /\ Proceed([a \in Actors |-> IF a \in Waiters(k) THEN Encode(call[a]) ELSE call[a]])
    /\ UNCHANGED <<connected, consumers, closing, registry, pinned, alone>>

\* It rejects, and so do the calls; the client object is kept.
ClientFails(k) ==
    /\ client[k] = "connecting"
    /\ client' = [client EXCEPT ![k] = "closed"]
    /\ Proceed([a \in Actors |-> IF a \in Waiters(k) THEN Idle ELSE call[a]])
    /\ UNCHANGED <<connected, flag, consumers, closing, registry, pinned, alone>>

\* The broker acknowledges the request, or it rejects: the call returns.
Answered(a) ==
    /\ Awaiting(a, "use")
    /\ Proceed([call EXCEPT ![a] = Idle])
    /\ UNCHANGED <<connected, client, flag, consumers, closing,
                   registry, pinned, alone>>

-----------------------------------------------------------------------------
(* consume, its disposer, and the consumers of the library *)

\* consume() gets as far as consumer.connect(); the processes connect first.
Consume(s) ==
    /\ connected /\ consumer[s] = "none" /\ closing = "no"
    /\ consumer' = [consumer EXCEPT ![s] = "connecting"]
    /\ handles' = handles \cup {s}
    /\ UNCHANGED <<connected, client, flag, handling, call, closing, codec, alone>>

\* It connected and subscribed: consume() runs it and returns the disposer.
ConsumerConnects(s) ==
    /\ consumer[s] = "connecting"
    /\ consumer' = [consumer EXCEPT ![s] = "running"]
    /\ UNCHANGED <<connected, client, flag, handles, handling, call, closing, codec, alone>>

\* consume() or the disposer drops the handle and disconnects the consumer.
Drop(s) ==
    /\ handles' = handles \ {s}
    /\ consumer' = [consumer EXCEPT ![s] = "closing"]
    /\ UNCHANGED <<connected, client, flag, handling, call, closing, codec, alone>>

\* connect() or subscribe() rejects, and consume() with it.
ConsumerFails(s) == consumer[s] = "connecting" /\ Drop(s)

\* The disposer that consume() returned.
Dispose(s) == consumer[s] = "running" /\ Drop(s)

\* eachMessage: a message is given to the handler, which returns in the end.
Deliver(s) ==
    /\ consumer[s] = "running" /\ s \notin handling
    /\ handling' = handling \cup {s}
    /\ UNCHANGED <<connected, client, flag, handles, consumer, call, closing, codec, alone>>

Return(s) ==
    /\ s \in handling /\ ~Pending(s)
    /\ handling' = handling \ {s}
    /\ UNCHANGED <<connected, client, flag, handles, consumer, call, closing, codec, alone>>

\* consumer.disconnect() resolves once the message in progress is done.
ConsumerCloses(s) ==
    /\ consumer[s] = "closing" /\ s \notin handling
    /\ consumer' = [consumer EXCEPT ![s] = "closed"]
    /\ UNCHANGED <<connected, client, flag, handles, handling, call, closing, codec, alone>>

-----------------------------------------------------------------------------
(* disconnect *)

Stage == [consumers |-> 0, producer |-> 1, tx |-> 2, admin |-> 3]

\* The connected clients disconnect() still has to close after stage `from`.
Left(from, flags) == {k \in Kinds : Stage[k] > Stage[from] /\ flags[k]}

\* After stage `from` it disconnects the next connected client, or is done.
CloseNext(from, clients, flags) ==
    /\ flag' = flags
    /\ IF Left(from, flags) = {}
       THEN closing' = "done" /\ connected' = FALSE /\ client' = clients
       ELSE \E k \in Left(from, flags) :
              /\ \A j \in Left(from, flags) : Stage[k] <= Stage[j]
              /\ closing' = k
              /\ client' = [clients EXCEPT ![k] = "closing"]
              /\ UNCHANGED connected

\* Shutdown lists call it when consume() and the disposers have returned.
Disconnect ==
    /\ closing \in {"no", "done"}
    /\ \A s \in Consumers : consumer[s] \notin {"connecting", "closing"}
    /\ closing' = "consumers"
    /\ consumer' = [s \in Consumers |-> IF s \in handles THEN "closing" ELSE consumer[s]]
    /\ handles' = {}
    /\ alone' = \A a \in Callers : ~Pending(a)
    /\ UNCHANGED <<connected, client, flag, handling, call, codec>>

\* Mutant of ConsumersClosed: the disconnects of the consumers are not awaited.
ConsumersClosing ==
    /\ closing = "consumers"
    /\ CloseNext("consumers", client, flag)
    /\ UNCHANGED <<consumers, call, codec, alone>>

\* Every consumer has settled.
ConsumersClosed ==
    /\ closing = "consumers"
    /\ \A s \in Consumers : consumer[s] # "closing"
    /\ CloseNext("consumers", client, flag)
    /\ UNCHANGED <<consumers, call, codec, alone>>

\* flush() and disconnect() of the client have settled.
ClientClosed(k) ==
    /\ closing = k
    /\ CloseNext(k, [client EXCEPT ![k] = "closed"], [flag EXCEPT ![k] = FALSE])
    /\ UNCHANGED <<consumers, call, codec, alone>>

-----------------------------------------------------------------------------
Init ==
    /\ connected = FALSE
    /\ client = [k \in Kinds |-> "none"]
    /\ flag = [k \in Kinds |-> FALSE]
    /\ handles = {} /\ handling = {}
    /\ consumer = [s \in Consumers |-> "none"]
    /\ call = [a \in Actors |-> Idle]
    /\ closing = "no"
    /\ memo = "none" /\ registry = << >> /\ pinned = << >> /\ encoded = {}
    /\ alone = TRUE

\* A promise of the library or of the registry settles.
Settles ==
    \/ \E a \in Actors : Loaded(a) \/ LoadFails(a) \/ Answered(a)
    \/ \E k \in Kinds : ClientConnects(k) \/ ClientFails(k) \/ ClientClosed(k)
    \/ \E s \in Consumers : ConsumerConnects(s) \/ ConsumerFails(s) \/ ConsumerCloses(s)
    \/ Registered \/ Pinned \/ RegistryFails \/ ConsumersClosed

Next ==
    \/ \E a \in Actors, k \in Kinds, topic \in Topics : Call(a, k, topic)
    \/ \E a \in Callers : Connect(a)
    \/ \E s \in Consumers : Consume(s) \/ Dispose(s) \/ Deliver(s) \/ Return(s)
    \/ Disconnect
    \/ Settles

Spec == Init /\ [][Next]_vars

\* The library and the registry settle every promise, one way or the other, and
\* a message handler ends after finitely many calls.
Fairness ==
    /\ \A a \in Actors : WF_vars(Loaded(a) \/ LoadFails(a)) /\ WF_vars(Answered(a))
    /\ \A k \in Kinds : /\ WF_vars(ClientConnects(k) \/ ClientFails(k))
                        /\ WF_vars(ClientClosed(k))
    /\ \A s \in Consumers : WF_vars(ConsumerCloses(s)) /\ SF_vars(Return(s))
    /\ WF_vars(Registered \/ Pinned \/ RegistryFails)
    /\ WF_vars(ConsumersClosed)

FairSpec == Spec /\ Fairness

-----------------------------------------------------------------------------
(* Properties *)

\* The values the variables take.
TypeOK ==
    /\ connected \in BOOLEAN /\ alone \in BOOLEAN
    /\ client \in [Kinds -> ClientStates] /\ flag \in [Kinds -> BOOLEAN]
    /\ consumer \in [Consumers -> ConsumerStates]
    /\ handles \subseteq Consumers /\ handling \subseteq Consumers
    /\ call \in [Actors -> Calls]
    /\ closing \in {"no", "consumers", "done"} \cup Kinds
    /\ memo \in {"none", "pending", "ok", "failed"}
    /\ registry \in Seq(Range(Subjects)) /\ pinned \in Seq(Range(Subjects))
    /\ encoded \subseteq Range(Subjects)

\* A message handler never sends through a client that disconnect() has closed or
\* is closing: disconnect() awaits every consumer, and with it the messages in
\* progress, before it touches the producer (confluent.ts:147-160).
HandlersKeepTheirClients ==
    \A s \in Consumers : Awaiting(s, "use") => client[call[s].kind] = "open"

\* A disconnect() that no call of the process overlaps leaves nothing behind: no
\* client, consumer or handler, whatever connected, failed or was closed before.
CleanDisconnect ==
    closing = "done" /\ alone =>
        /\ ~connected
        /\ \A k \in Kinds : client[k] \in {"none", "closed"} /\ ~flag[k]
        /\ \A s \in Consumers : consumer[s] \in {"none", "closed"}
        /\ \A a \in Actors : ~Pending(a)

\* What a call opens while disconnect() runs is not lost: an open client is
\* flagged, so that a further disconnect() would close it, and a flagged client
\* is open unless disconnect() is just closing it (the flags of getProducer,
\* getTransactionalProducer and getAdmin against those of disconnect).
FlagsAreExact ==
    \A k \in Kinds : flag[k] <=> client[k] \in {"open", "closing"}

\* No record is encoded before every curated schema is registered, once, in order
\* and with its compatibility pinned, although the first calls come together.
EncodedAreRegistered ==
    encoded # {} => registry = Subjects /\ pinned = Subjects

\* Every call and every disconnect() returns, also those that wait for a client
\* that fails to connect, for a registration that fails, or for a handler.
CallsReturn ==
    /\ \A a \in Actors : Pending(a) ~> ~Pending(a)
    /\ closing # "no" ~> closing = "done"
=============================================================================
