------------------------ MODULE ConfluentAdapterProofs ------------------------
(***************************************************************************)
(* Safety of the Kafka driver, for every set of callers, consumers,        *)
(* clients and schemas: types, exact flags, handlers that keep their       *)
(* producer, a clean disconnect and registration before encoding.          *)
(***************************************************************************)
EXTENDS ConfluentAdapter, TLAPS

USE KindsAssumption, SubjectsAssumption, OtherAssumption

\* What a call awaits, and what that says of the codec.
CallCodec ==
    \A a \in Actors :
        /\ Awaiting(a, "init") => call[a].topic # "json" /\ memo = "pending"
        /\ Awaiting(a, "use") /\ call[a].topic # "json" => memo = "ok"

\* The progress of the registration.
CodecOK ==
    /\ Len(pinned) <= Len(registry) /\ Len(registry) <= Len(pinned) + 1
    /\ Len(registry) <= Len(Subjects)
    /\ \A i \in 1..Len(registry) : registry[i] = Subjects[i]
    /\ \A i \in 1..Len(pinned) : pinned[i] = Subjects[i]
    /\ memo = "none" => Len(registry) = 0
    /\ memo = "pending" => Len(pinned) < Len(Subjects)
    /\ memo = "ok" => Len(pinned) = Len(Subjects)
    /\ encoded # {} => memo = "ok"

\* What a call awaits, and what that says of its client: a connecting client is
\* awaited, and a message handler that got past getProducer has a flagged one.
CallClient ==
    \A a \in Actors :
        /\ call[a].at \in {"connect", "init", "use"} => call[a].kind \in Kinds
        /\ Awaiting(a, "connect") => client[call[a].kind] = "connecting"
        /\ a \in Consumers /\ Pending(a) => a \in handling /\ call[a].kind = "producer"
        /\ a \in Consumers /\ call[a].at \in {"init", "use"} => flag[call[a].kind]

Awaited == \A k \in Kinds : client[k] = "connecting" => Waiters(k) # {}

\* How far disconnect() is, and what that says of the consumers and clients.
ConsumerOK ==
    /\ \A s \in handling : consumer[s] \in {"running", "closing"}
    /\ \A s \in Consumers :
         /\ consumer[s] \in {"connecting", "running"} => s \in handles
         /\ closing = "consumers" => consumer[s] \notin {"connecting", "running"}
         /\ closing \in Kinds \cup {"done"} => consumer[s] \in {"none", "closed"}

ClosingOK == \A k \in Kinds : client[k] = "closing" <=> closing = k

\* What a disconnect() that nothing overlaps has already achieved.
AloneOK ==
    alone /\ closing # "no" =>
        /\ \A a \in Callers : ~Pending(a)
        /\ closing \in Kinds => \A j \in Kinds : Stage[j] < Stage[closing] => ~flag[j]
        /\ closing = "done" => ~connected /\ \A j \in Kinds : ~flag[j]

IInv == /\ TypeOK /\ FlagsAreExact
        /\ CallCodec /\ CodecOK
        /\ CallClient /\ Awaited
        /\ ConsumerOK /\ ClosingOK /\ AloneOK

-----------------------------------------------------------------------------
(* The codec *)

\* serialize: the three places a call can get to.
LEMMA EncodeResult ==
    ASSUME memo \in {"none", "pending", "ok", "failed"}, NEW c \in Calls
    PROVE  /\ Encode(c) \in Calls
           /\ \/ Encode(c) = Idle
              \/ /\ Encode(c) = [c EXCEPT !.at = "use"]
                 /\ c.topic = "json" \/ memo = "ok"
              \/ /\ Encode(c) = [c EXCEPT !.at = "init"]
                 /\ c.topic # "json" /\ memo \in {"none", "pending"}
BY DEF Encode, Calls, Idle, Topics

\* Calls that move to where serialize lets them keep the facts of the codec.
LEMMA ProceedCodec ==
    ASSUME IInv, NEW after \in [Actors -> Calls], Proceed(after),
           UNCHANGED <<registry, pinned>>,
           \A a \in Actors :
              /\ after[a].at = "init" => after[a].topic # "json" /\ memo \in {"none", "pending"}
              /\ after[a].at = "use" /\ after[a].topic # "json" => memo = "ok"
    PROVE  /\ call' \in [Actors -> Calls]
           /\ memo' \in {"none", "pending", "ok", "failed"}
           /\ encoded' \subseteq Range(Subjects)
           /\ CallCodec' /\ CodecOK'
<1>1. call' = after /\ call' \in [Actors -> Calls]
  BY DEF Proceed
<1>2. \A a \in Actors : after[a].topic \in Range(Subjects) \cup {"json"}
  BY DEF Calls, Topics
<1>3. encoded' \subseteq Range(Subjects)
  BY <1>2 DEF Proceed, IInv, TypeOK
<1>4. memo' \in {"none", "pending", "ok", "failed"}
  BY DEF Proceed, IInv, TypeOK
<1>5. CallCodec'
  BY <1>1 DEF Proceed, CallCodec, Awaiting
<1>6. encoded' # {} => memo' = "ok"
  BY DEF Proceed, IInv, CodecOK
<1>7. memo' = "pending" => Len(pinned) < Len(Subjects)
  <2>1. CASE memo = "pending"
    BY <2>1 DEF IInv, CodecOK
  <2>2. CASE memo # "pending" /\ memo' = "pending"
    <3>1. memo = "none" /\ \E a \in Actors : after[a].at = "init"
      BY <2>2 DEF Proceed
    <3>2. \E s : s \in Range(Subjects)
      BY <1>2, <3>1
    <3>3. Len(Subjects) > 0
      BY <3>2 DEF Range
    <3> QED BY <3>1, <3>3 DEF IInv, CodecOK, TypeOK
  <2> QED BY <2>1, <2>2
<1>8. memo' \in {"none", "ok"} => memo = memo'
  BY DEF Proceed
<1>9. CodecOK'
  BY <1>6, <1>7, <1>8 DEF IInv, CodecOK
<1> QED BY <1>1, <1>3, <1>4, <1>5, <1>9

-----------------------------------------------------------------------------
(* The calls *)

\* A handler at a message, or any activity while a disconnect() that nothing
\* overlaps goes on, means that it is still waiting for the consumers.
LEMMA HandlingStage ==
    ASSUME IInv, NEW s \in Consumers, s \in handling
    PROVE  closing \in {"no", "consumers"}
BY DEF IInv, ConsumerOK, TypeOK

\* getProducer, getTransactionalProducer and getAdmin, from wherever they run.
LEMMA GetClientStep ==
    ASSUME IInv, NEW a \in Actors, NEW c \in Calls,
           c.kind \in Kinds, call[a].at \in {"idle", "load"},
           a \in Consumers => a \in handling /\ c.kind = "producer",
           GetClient(a, c),
           UNCHANGED <<flag, consumers, closing, registry, pinned>>,
           connected' \in BOOLEAN, alone' \in BOOLEAN,
           alone' /\ closing # "no" => alone /\ a \in Consumers
    PROVE  IInv'
<1> DEFINE k == c.kind
<1>1. client[k] \in ClientStates /\ flag[k] \in BOOLEAN /\ call \in [Actors -> Calls]
      /\ memo \in {"none", "pending", "ok", "failed"}
  BY DEF IInv, TypeOK
<1>2. PICK d \in Calls :
        /\ Proceed([call EXCEPT ![a] = d])
        /\ \/ /\ d = Idle /\ UNCHANGED client
           \/ /\ d = [c EXCEPT !.at = "connect"] /\ ~flag[k]
              /\ client' = [client EXCEPT ![k] = "connecting"]
           \/ /\ d = [c EXCEPT !.at = "use"] /\ flag[k] /\ UNCHANGED client
              /\ c.topic = "json" \/ memo = "ok"
           \/ /\ d = [c EXCEPT !.at = "init"] /\ flag[k] /\ UNCHANGED client
              /\ c.topic # "json" /\ memo \in {"none", "pending"}
  <2>1. CASE flag[k] /\ Proceed([call EXCEPT ![a] = Encode(c)]) /\ UNCHANGED client
    BY <2>1, <1>1, EncodeResult
  <2>2. CASE /\ ~flag[k] /\ client' = [client EXCEPT ![k] = "connecting"]
             /\ Proceed([call EXCEPT ![a] = [c EXCEPT !.at = "connect"]])
    <3>1. [c EXCEPT !.at = "connect"] \in Calls
      BY DEF Calls
    <3> QED BY <2>2, <3>1
  <2>3. CASE ~flag[k] /\ Proceed([call EXCEPT ![a] = Idle]) /\ UNCHANGED client
    <3>1. Idle \in Calls
      BY DEF Calls, Idle, Topics
    <3> QED BY <2>3, <3>1
  <2> QED BY <2>1, <2>2, <2>3 DEF GetClient
<1> DEFINE after == [call EXCEPT ![a] = d]
<1>3. after \in [Actors -> Calls]
  BY <1>1
<1>4. /\ d.at \in {"idle", "connect", "init", "use"}
      /\ d.at # "idle" => d.kind = k
      /\ d.at = "idle" => UNCHANGED client
      /\ d.at = "connect" => ~flag[k] /\ client' = [client EXCEPT ![k] = "connecting"]
      /\ d.at \in {"init", "use"} => flag[k] /\ UNCHANGED client
      /\ d.at = "init" => d.topic # "json" /\ memo \in {"none", "pending"}
      /\ d.at = "use" /\ d.topic # "json" => memo = "ok"
  BY <1>2 DEF Idle, Calls
<1>5. \A b \in Actors :
         /\ after[b].at = "init" => after[b].topic # "json" /\ memo \in {"none", "pending"}
         /\ after[b].at = "use" /\ after[b].topic # "json" => memo = "ok"
  BY <1>1, <1>4 DEF IInv, CallCodec, Awaiting
<1>6. /\ call' \in [Actors -> Calls]
      /\ memo' \in {"none", "pending", "ok", "failed"}
      /\ encoded' \subseteq Range(Subjects)
      /\ CallCodec' /\ CodecOK'
  <2> HIDE DEF after
  <2> QED BY <1>2, <1>3, <1>5, ProceedCodec DEF after
<1>7. call' = after
  BY <1>2 DEF Proceed
<1>8. client' \in [Kinds -> ClientStates]
  BY <1>4 DEF IInv, TypeOK, ClientStates
<1>9. TypeOK'
  BY <1>6, <1>8 DEF IInv, TypeOK, consumers
<1>10. FlagsAreExact'
  BY <1>4 DEF IInv, FlagsAreExact, TypeOK
<1>11. CallClient'
  <2> SUFFICES ASSUME NEW b \in Actors
               PROVE  /\ call'[b].at \in {"connect", "init", "use"} => call'[b].kind \in Kinds
                      /\ call'[b].at = "connect" => client'[call'[b].kind] = "connecting"
                      /\ b \in Consumers /\ call'[b].at # "idle" =>
                           b \in handling' /\ call'[b].kind = "producer"
                      /\ b \in Consumers /\ call'[b].at \in {"init", "use"} => flag'[call'[b].kind]
    BY DEF CallClient, Awaiting, Pending
  <2>1. CASE b = a
    <3>1. call'[b] = d
      BY <2>1, <1>1, <1>7
    <3>2. d.at = "connect" => client'[k] = "connecting"
      BY <1>4 DEF IInv, TypeOK
    <3> QED BY <2>1, <3>1, <3>2, <1>4 DEF consumers
  <2>2. CASE b # a
    <3>1. call'[b] = call[b]
      BY <2>2, <1>1, <1>7
    <3>2. client[call[b].kind] = "connecting" /\ call[b].kind \in Kinds =>
            client'[call[b].kind] = "connecting"
      BY <1>4 DEF IInv, TypeOK
    <3> QED BY <3>1, <3>2 DEF IInv, CallClient, Awaiting, Pending, consumers
  <2> QED BY <2>1, <2>2
<1>12. Awaited'
  <2> SUFFICES ASSUME NEW j \in Kinds, client'[j] = "connecting"
               PROVE  \E b \in Actors : call'[b].at = "connect" /\ call'[b].kind = j
    BY DEF Awaited, Waiters, Awaiting
  <2>1. CASE client[j] = "connecting"
    <3>1. PICK b \in Actors : call[b].at = "connect" /\ call[b].kind = j
      BY <2>1 DEF IInv, Awaited, Waiters, Awaiting
    <3>2. b # a /\ call'[b] = call[b]
      BY <3>1, <1>1, <1>7
    <3> QED BY <3>1, <3>2
  <2>2. CASE client[j] # "connecting"
    <3>1. d.at = "connect" /\ j = k
      BY <2>2, <1>4 DEF IInv, TypeOK
    <3> QED BY <3>1, <1>1, <1>4, <1>7
  <2> QED BY <2>1, <2>2
<1>13. ConsumerOK' /\ ClosingOK'
  BY <1>4 DEF IInv, ConsumerOK, ClosingOK, consumers, TypeOK, FlagsAreExact
<1>14. AloneOK'
  <2> SUFFICES ASSUME alone', closing # "no" PROVE AloneOK'
    BY DEF AloneOK
  <2>1. alone /\ a \in Consumers /\ closing = "consumers"
    BY HandlingStage
  <2> QED BY <2>1, <1>1, <1>7 DEF IInv, AloneOK, Pending, consumers
<1> QED BY <1>6, <1>9, <1>10, <1>11, <1>12, <1>13, <1>14 DEF IInv

\* A call that loads the driver, returns or is refused before it has a client.
LEMMA MoveStep ==
    ASSUME IInv, NEW a \in Actors, NEW d \in Calls,
           d.at \in {"idle", "load"}, call[a].at \in {"idle", "load", "use"},
           a \in Consumers /\ d.at = "load" => a \in handling /\ d.kind = "producer",
           Proceed([call EXCEPT ![a] = d]),
           UNCHANGED <<client, flag, consumers, closing, registry, pinned>>,
           connected' \in BOOLEAN, connected' = connected \/ Pending(a), alone' \in BOOLEAN,
           alone' /\ closing # "no" => alone /\ (a \in Consumers \/ d.at = "idle")
    PROVE  IInv'
<1> DEFINE after == [call EXCEPT ![a] = d]
<1>1. call \in [Actors -> Calls] /\ after \in [Actors -> Calls]
  BY DEF IInv, TypeOK
<1>2. \A b \in Actors : after[b] = IF b = a THEN d ELSE call[b]
  BY <1>1
<1>3. \A b \in Actors :
         /\ after[b].at = "init" => after[b].topic # "json" /\ memo \in {"none", "pending"}
         /\ after[b].at = "use" /\ after[b].topic # "json" => memo = "ok"
  BY <1>2 DEF IInv, CallCodec, Awaiting
<1>4. /\ call' \in [Actors -> Calls]
      /\ memo' \in {"none", "pending", "ok", "failed"}
      /\ encoded' \subseteq Range(Subjects)
      /\ CallCodec' /\ CodecOK'
  <2> HIDE DEF after
  <2> QED BY <1>1, <1>3, ProceedCodec DEF after
<1>5. \A b \in Actors : call'[b] = IF b = a THEN d ELSE call[b]
  BY <1>2 DEF Proceed
<1> HIDE DEF after
<1>6. TypeOK' /\ FlagsAreExact'
  BY <1>4 DEF IInv, TypeOK, FlagsAreExact, consumers
<1>7. CallClient'
  BY <1>5 DEF IInv, CallClient, Awaiting, Pending, consumers
<1>8. Awaited'
  <2> SUFFICES ASSUME NEW j \in Kinds, client[j] = "connecting"
               PROVE  \E b \in Actors : call'[b].at = "connect" /\ call'[b].kind = j
    BY DEF Awaited, Waiters, Awaiting
  <2>1. PICK b \in Actors : call[b].at = "connect" /\ call[b].kind = j
    BY DEF IInv, Awaited, Waiters, Awaiting
  <2> QED BY <2>1, <1>5
<1>9. ConsumerOK' /\ ClosingOK'
  BY DEF IInv, ConsumerOK, ClosingOK, consumers
<1>10. AloneOK'
  <2> SUFFICES ASSUME alone', closing # "no" PROVE AloneOK'
    BY DEF AloneOK
  <2>1. alone /\ (a \in Consumers \/ d.at = "idle")
    OBVIOUS
  <2>2. a \in Callers => ~Pending(a)
    BY <2>1 DEF IInv, AloneOK
  <2>3. closing = "done" => connected' = connected
    BY <2>2, HandlingStage DEF IInv, CallClient, Actors
  <2>4. \A b \in Callers : ~(Pending(b)')
    BY <2>1, <1>5 DEF IInv, AloneOK, Pending, Actors
  <2> QED BY <2>1, <2>3, <2>4 DEF IInv, AloneOK
<1> QED BY <1>4, <1>6, <1>7, <1>8, <1>9, <1>10 DEF IInv

LEMMA CallStep ==
    ASSUME IInv, NEW a \in Actors, NEW k \in Kinds, NEW topic \in Topics, Call(a, k, topic)
    PROVE  IInv'
<1> DEFINE c == [kind |-> k, topic |-> topic, at |-> "load"]
<1>1. c \in Calls /\ c.kind = k /\ c.at = "load"
  BY DEF Calls
<1>2. call[a].at = "idle" /\ (a \in Consumers => a \in handling /\ k = "producer")
  BY DEF Call, MayCall, Pending
<1>3. alone' \in BOOLEAN /\ (alone' => alone /\ a \in Consumers)
  BY DEF Call, IInv, TypeOK, Actors
<1>4. connected' = connected /\ connected' \in BOOLEAN
  BY DEF Call, IInv, TypeOK
<1>5. UNCHANGED <<flag, consumers, closing, registry, pinned>>
  BY DEF Call
<1>6. CASE GetClient(a, c)
  <2> HIDE DEF c
  <2> QED BY <1>1, <1>2, <1>3, <1>4, <1>5, <1>6, GetClientStep
<1>7. CASE Proceed([call EXCEPT ![a] = c]) /\ UNCHANGED client
  <2> HIDE DEF c
  <2> QED BY <1>1, <1>2, <1>3, <1>4, <1>5, <1>7, MoveStep
<1> QED BY <1>6, <1>7 DEF Call

LEMMA ConnectStep ==
    ASSUME IInv, NEW a \in Callers, Connect(a)
    PROVE  IInv'
<1> DEFINE d == [kind |-> "connect", topic |-> "json", at |-> "load"]
<1>1. d \in Calls /\ d.at = "load" /\ a \in Actors /\ a \notin Consumers
  BY DEF Calls, Topics, Actors
<1>2. call[a].at = "idle" /\ alone' = FALSE /\ connected' = connected /\ connected' \in BOOLEAN
  BY DEF Connect, Pending, IInv, TypeOK
<1>3. /\ Proceed([call EXCEPT ![a] = d])
      /\ UNCHANGED <<client, flag, consumers, closing, registry, pinned>>
  BY DEF Connect
<1> HIDE DEF d
<1> QED BY <1>1, <1>2, <1>3, MoveStep

LEMMA IdleIsCall == Idle \in Calls /\ Idle.at = "idle"
BY DEF Idle, Calls, Topics

LEMMA LoadedStep ==
    ASSUME IInv, NEW a \in Actors, Loaded(a)
    PROVE  IInv'
<1>1. call[a].at = "load" /\ call[a] \in Calls
  BY DEF Loaded, Awaiting, IInv, TypeOK
<1>2. a \in Consumers => a \in handling /\ call[a].kind = "producer"
  BY <1>1 DEF IInv, CallClient, Pending
<1>3. /\ UNCHANGED <<flag, consumers, closing, registry, pinned, alone>>
      /\ connected' \in BOOLEAN /\ alone' \in BOOLEAN
  BY DEF Loaded, IInv, TypeOK
<1>4. alone' /\ closing # "no" => alone /\ a \in Consumers
  BY <1>1, <1>3 DEF IInv, AloneOK, Pending, Actors
<1>5. CASE Proceed([call EXCEPT ![a] = Idle]) /\ UNCHANGED client
  BY <1>1, <1>3, <1>4, <1>5, IdleIsCall, MoveStep DEF Pending
<1>6. CASE call[a].kind \in Kinds /\ GetClient(a, call[a])
  BY <1>1, <1>2, <1>3, <1>4, <1>6, GetClientStep
<1> QED BY <1>5, <1>6 DEF Loaded

LEMMA AnsweredStep ==
    ASSUME IInv, NEW a \in Actors, LoadFails(a) \/ Answered(a)
    PROVE  IInv'
<1>1. call[a].at \in {"load", "use"} /\ Proceed([call EXCEPT ![a] = Idle])
  BY DEF LoadFails, Answered, Awaiting
<1>2. /\ UNCHANGED <<connected, client, flag, consumers, closing, registry, pinned, alone>>
      /\ connected' \in BOOLEAN /\ alone' \in BOOLEAN
  BY DEF LoadFails, Answered, IInv, TypeOK
<1> QED BY <1>1, <1>2, IdleIsCall, MoveStep

\* A client that connects, or fails to, and the calls that awaited it.
LEMMA ClientStep ==
    ASSUME IInv, NEW k \in Kinds, ClientConnects(k) \/ ClientFails(k)
    PROVE  IInv'
<1>1. /\ client[k] = "connecting" /\ ~flag[k] /\ closing # k
      /\ call \in [Actors -> Calls] /\ memo \in {"none", "pending", "ok", "failed"}
      /\ UNCHANGED <<connected, consumers, closing, registry, pinned, alone>>
  BY DEF ClientConnects, ClientFails, IInv, FlagsAreExact, ClosingOK, TypeOK
<1>2. PICK after \in [Actors -> Calls] :
        /\ Proceed(after)
        /\ \A b \in Actors :
             IF b \notin Waiters(k) THEN after[b] = call[b]
             ELSE \/ after[b] = Idle
                  \/ /\ flag'[k] /\ after[b] = [call[b] EXCEPT !.at = "use"]
                     /\ call[b].topic = "json" \/ memo = "ok"
                  \/ /\ flag'[k] /\ after[b] = [call[b] EXCEPT !.at = "init"]
                     /\ call[b].topic # "json" /\ memo \in {"none", "pending"}
  <2>1. CASE ClientConnects(k)
    <3> DEFINE f == [b \in Actors |-> IF b \in Waiters(k) THEN Encode(call[b]) ELSE call[b]]
    <3>1. f \in [Actors -> Calls]
      BY <1>1, EncodeResult
    <3>2. Proceed(f) /\ flag'[k]
      BY <2>1 DEF ClientConnects, IInv, TypeOK
    <3>3. \A b \in Actors : f[b] = IF b \in Waiters(k) THEN Encode(call[b]) ELSE call[b]
      OBVIOUS
    <3> HIDE DEF f
    <3> QED BY <1>1, <3>1, <3>2, <3>3, EncodeResult
  <2>2. CASE ClientFails(k)
    <3> DEFINE f == [b \in Actors |-> IF b \in Waiters(k) THEN Idle ELSE call[b]]
    <3>1. f \in [Actors -> Calls]
      BY <1>1, IdleIsCall
    <3>2. Proceed(f)
      BY <2>2 DEF ClientFails
    <3> QED BY <3>1, <3>2
  <2> QED BY <2>1, <2>2
<1>3. \A b \in Actors :
         /\ b \in Waiters(k) <=> call[b].at = "connect" /\ call[b].kind = k
         /\ b \notin Waiters(k) => after[b] = call[b]
         /\ b \in Waiters(k) => /\ after[b].at \in {"idle", "init", "use"}
                                /\ after[b].at # "idle" => flag'[k] /\ after[b].kind = k
                                /\ after[b].at = "init" => after[b].topic # "json" /\ memo \in {"none", "pending"}
                                /\ after[b].at = "use" /\ after[b].topic # "json" => memo = "ok"
  <2> TAKE b \in Actors
  <2>1. b \in Waiters(k) <=> call[b].at = "connect" /\ call[b].kind = k
    BY DEF Waiters, Awaiting
  <2> QED BY <2>1, <1>1, <1>2 DEF Calls, Idle
<1>4. \A b \in Actors :
         /\ after[b].at = "init" => after[b].topic # "json" /\ memo \in {"none", "pending"}
         /\ after[b].at = "use" /\ after[b].topic # "json" => memo = "ok"
  BY <1>3 DEF IInv, CallCodec, Awaiting
<1>5. /\ call' \in [Actors -> Calls]
      /\ memo' \in {"none", "pending", "ok", "failed"}
      /\ encoded' \subseteq Range(Subjects)
      /\ CallCodec' /\ CodecOK'
  BY <1>1, <1>2, <1>4, ProceedCodec
<1>6. call' = after
  BY <1>2 DEF Proceed
<1>7. /\ client' \in [Kinds -> ClientStates] /\ flag' \in [Kinds -> BOOLEAN]
      /\ \A j \in Kinds \ {k} : client'[j] = client[j] /\ flag'[j] = flag[j]
      /\ \/ client'[k] = "open" /\ flag'[k]
         \/ client'[k] = "closed" /\ ~flag'[k]
  <2>0. client \in [Kinds -> ClientStates] /\ flag \in [Kinds -> BOOLEAN]
    BY DEF IInv, TypeOK
  <2>1. CASE ClientConnects(k)
    <3>1. client' = [client EXCEPT ![k] = "open"] /\ flag' = [flag EXCEPT ![k] = TRUE]
      BY <2>1 DEF ClientConnects
    <3> QED BY <2>0, <3>1 DEF ClientStates
  <2>2. CASE ClientFails(k)
    <3>1. client' = [client EXCEPT ![k] = "closed"] /\ flag' = flag
      BY <2>2 DEF ClientFails
    <3> QED BY <1>1, <2>0, <3>1 DEF ClientStates
  <2> QED BY <2>1, <2>2
<1>8. TypeOK'
  BY <1>1, <1>5, <1>7 DEF IInv, TypeOK, consumers
<1>9. FlagsAreExact' /\ ClosingOK'
  BY <1>1, <1>7 DEF IInv, FlagsAreExact, ClosingOK
<1>10. CallClient'
  <2> SUFFICES ASSUME NEW b \in Actors
               PROVE  /\ call'[b].at \in {"connect", "init", "use"} => call'[b].kind \in Kinds
                      /\ call'[b].at = "connect" => client'[call'[b].kind] = "connecting"
                      /\ b \in Consumers /\ call'[b].at # "idle" =>
                           b \in handling' /\ call'[b].kind = "producer"
                      /\ b \in Consumers /\ call'[b].at \in {"init", "use"} => flag'[call'[b].kind]
    BY DEF CallClient, Awaiting, Pending
  <2>1. CASE b \in Waiters(k)
    <3>1. /\ call'[b].at \in {"idle", "init", "use"}
          /\ call'[b].at # "idle" => flag'[k] /\ call'[b].kind = k
      BY <2>1, <1>3, <1>6
    <3>2. b \in Consumers => b \in handling' /\ k = "producer"
      BY <2>1, <1>1, <1>3 DEF IInv, CallClient, Pending, consumers
    <3> QED BY <3>1, <3>2
  <2>2. CASE b \notin Waiters(k)
    <3>1. call'[b] = call[b]
      BY <2>2, <1>3, <1>6
    <3>2. call[b].at = "connect" => call[b].kind # k
      BY <2>2, <1>3
    <3>3. flag[call[b].kind] /\ call[b].kind \in Kinds => flag'[call[b].kind]
      BY <1>1, <1>7
    <3>4. handling' = handling
      BY <1>1 DEF consumers
    <3>5. call[b].kind \in Kinds /\ call[b].kind # k => client'[call[b].kind] = client[call[b].kind]
      BY <1>7
    <3> QED BY <3>1, <3>2, <3>3, <3>4, <3>5 DEF IInv, CallClient, Awaiting, Pending
  <2> QED BY <2>1, <2>2
<1>11. Awaited'
  <2> SUFFICES ASSUME NEW j \in Kinds, client'[j] = "connecting"
               PROVE  \E b \in Actors : call'[b].at = "connect" /\ call'[b].kind = j
    BY DEF Awaited, Waiters, Awaiting
  <2>1. j # k /\ client[j] = "connecting"
    BY <1>7
  <2>2. PICK b \in Actors : call[b].at = "connect" /\ call[b].kind = j
    BY <2>1 DEF IInv, Awaited, Waiters, Awaiting
  <2> QED BY <2>1, <2>2, <1>3, <1>6
<1>12. ConsumerOK'
  BY <1>1 DEF IInv, ConsumerOK, consumers
<1>13. AloneOK'
  <2> SUFFICES ASSUME alone, closing # "no" PROVE AloneOK'
    BY <1>1 DEF AloneOK
  <2>0. UNCHANGED <<closing, connected, alone>>
    BY <1>1
  <2>1. PICK b \in Actors : call[b].at = "connect" /\ call[b].kind = k
    BY <1>1 DEF IInv, Awaited, Waiters, Awaiting
  <2>2. b \in Consumers
    BY <2>1 DEF IInv, AloneOK, Pending, Actors
  <2>3. closing = "consumers"
    BY <2>1, <2>2, HandlingStage DEF IInv, CallClient, Pending
  <2>4. \A c \in Callers : call'[c].at = "idle"
    BY <1>3, <1>6 DEF IInv, AloneOK, Pending, Actors
  <2>5. closing' = "consumers" /\ closing' \notin Kinds
    BY <2>0, <2>3
  <2> QED BY <2>4, <2>5 DEF AloneOK, Pending
<1> QED BY <1>5, <1>8, <1>9, <1>10, <1>11, <1>12, <1>13 DEF IInv

-----------------------------------------------------------------------------
(* The registration *)

\* The subject registerAll is at is one of the curated ones.
LEMMA CurrentIsSubject ==
    ASSUME IInv, memo = "pending"
    PROVE  /\ Len(pinned) + 1 \in 1..Len(Subjects)
           /\ Current = Subjects[Len(pinned) + 1] /\ Current \in Range(Subjects)
<1>1. Len(pinned) \in Nat /\ Len(pinned) < Len(Subjects) /\ Len(Subjects) \in Nat
  BY DEF IInv, CodecOK, TypeOK
<1>2. Len(pinned) + 1 \in 1..Len(Subjects)
  BY <1>1
<1> QED BY <1>2 DEF Current

LEMMA RegisteredStep ==
    ASSUME IInv, Registered
    PROVE  IInv'
<1>1. memo = "pending" /\ Len(registry) = Len(pinned) /\ registry' = Append(registry, Current)
      /\ UNCHANGED <<connected, client, flag, consumers, call, closing, memo, pinned, encoded, alone>>
  BY DEF Registered
<1>2. registry' \in Seq(Range(Subjects)) /\ Len(registry') = Len(registry) + 1
      /\ \A i \in 1..Len(registry') : registry'[i] = Subjects[i]
  BY <1>1, CurrentIsSubject DEF IInv, CodecOK, TypeOK
<1>3. CodecOK'
  BY <1>1, <1>2, CurrentIsSubject DEF IInv, CodecOK, TypeOK
<1>4. TypeOK'
  BY <1>1, <1>2 DEF IInv, TypeOK, consumers
<1> QED BY <1>1, <1>3, <1>4 DEF IInv, FlagsAreExact, CallCodec, CallClient, Awaited, Waiters,
           ConsumerOK, ClosingOK, AloneOK, Awaiting, Pending, consumers

\* init settles the calls that awaited it, and moves no other.
LEMMA InitSettles ==
    ASSUME IInv, call' \in [Actors -> Calls],
           UNCHANGED <<connected, client, flag, consumers, closing, alone>>,
           \A b \in Actors :
             IF Awaiting(b, "init")
             THEN call'[b] = Idle \/ call'[b] = [call[b] EXCEPT !.at = "use"]
             ELSE call'[b] = call[b]
    PROVE  FlagsAreExact' /\ CallClient' /\ Awaited' /\ ConsumerOK' /\ ClosingOK' /\ AloneOK'
<1>1. \A b \in Actors :
         /\ call'[b].at # "idle" => call[b].at # "idle" /\ call'[b].kind = call[b].kind
         /\ call'[b].at \in {"connect", "load"} => call'[b] = call[b]
         /\ call[b].at = "connect" => call'[b] = call[b]
         /\ call'[b].at \in {"init", "use"} => call[b].at \in {"init", "use"}
  BY DEF Awaiting, Idle, IInv, TypeOK, Calls
<1>2. CallClient'
  <2> SUFFICES ASSUME NEW b \in Actors
               PROVE  /\ call'[b].at \in {"connect", "init", "use"} => call'[b].kind \in Kinds
                      /\ call'[b].at = "connect" => client'[call'[b].kind] = "connecting"
                      /\ b \in Consumers /\ call'[b].at # "idle" =>
                           b \in handling' /\ call'[b].kind = "producer"
                      /\ b \in Consumers /\ call'[b].at \in {"init", "use"} => flag'[call'[b].kind]
    BY DEF CallClient, Awaiting, Pending
  <2> QED BY <1>1 DEF IInv, CallClient, Awaiting, Pending, consumers
<1>3. Awaited'
  <2> SUFFICES ASSUME NEW j \in Kinds, client[j] = "connecting"
               PROVE  \E b \in Actors : call'[b].at = "connect" /\ call'[b].kind = j
    BY DEF Awaited, Waiters, Awaiting
  <2>1. PICK b \in Actors : call[b].at = "connect" /\ call[b].kind = j
    BY DEF IInv, Awaited, Waiters, Awaiting
  <2> QED BY <2>1, <1>1
<1>4. AloneOK'
  BY <1>1 DEF IInv, AloneOK, Pending, Actors
<1> QED BY <1>2, <1>3, <1>4 DEF IInv, FlagsAreExact, ConsumerOK, ClosingOK, consumers

LEMMA PinnedStep ==
    ASSUME IInv, Pinned
    PROVE  IInv'
<1>1. /\ memo = "pending" /\ Len(registry) > Len(pinned) /\ pinned' = Append(pinned, Current)
      /\ UNCHANGED <<connected, client, flag, consumers, closing, registry, alone>>
  BY DEF Pinned
<1>2. /\ pinned' \in Seq(Range(Subjects)) /\ Len(pinned') = Len(pinned) + 1
      /\ Len(pinned') = Len(registry)
      /\ \A i \in 1..Len(pinned') : pinned'[i] = Subjects[i]
  BY <1>1, CurrentIsSubject DEF IInv, CodecOK, TypeOK
<1>3. CASE Len(pinned') = Len(Subjects)
  <2>1. /\ memo' = "ok"
        /\ call' = [a \in Actors |-> IF Awaiting(a, "init") THEN [call[a] EXCEPT !.at = "use"]
                                     ELSE call[a]]
        /\ encoded' = encoded \cup {call[a].topic : a \in {b \in Actors : Awaiting(b, "init")}}
    BY <1>3 DEF Pinned
  <2>2. call' \in [Actors -> Calls]
    <3>1. \A c \in Calls : [c EXCEPT !.at = "use"] \in Calls
      BY DEF Calls
    <3>2. call \in [Actors -> Calls]
      BY DEF IInv, TypeOK
    <3> QED BY <2>1, <3>1, <3>2
  <2>3. encoded' \subseteq Range(Subjects)
    BY <2>1 DEF IInv, TypeOK, Calls, Topics, CallCodec
  <2>4. CodecOK'
    BY <1>1, <1>2, <1>3, <2>1 DEF IInv, CodecOK, TypeOK
  <2>5. CallCodec'
    BY <2>1 DEF IInv, CallCodec, Awaiting, TypeOK, Calls
  <2>6. TypeOK'
    BY <1>1, <1>2, <2>1, <2>2, <2>3 DEF IInv, TypeOK, consumers
  <2>7. FlagsAreExact' /\ CallClient' /\ Awaited' /\ ConsumerOK' /\ ClosingOK' /\ AloneOK'
    BY <1>1, <2>1, <2>2, InitSettles
  <2> QED BY <2>4, <2>5, <2>6, <2>7 DEF IInv
<1>4. CASE Len(pinned') # Len(Subjects)
  <2>1. UNCHANGED <<memo, call, encoded>>
    BY <1>4 DEF Pinned
  <2>2. CodecOK'
    BY <1>1, <1>2, <1>4, <2>1 DEF IInv, CodecOK, TypeOK
  <2>3. TypeOK'
    BY <1>1, <1>2, <2>1 DEF IInv, TypeOK, consumers
  <2> QED BY <1>1, <2>1, <2>2, <2>3 DEF IInv, FlagsAreExact, CallCodec, CallClient, Awaited,
             Waiters, ConsumerOK, ClosingOK, AloneOK, Awaiting, Pending, consumers
<1> QED BY <1>3, <1>4

LEMMA RegistryFailsStep ==
    ASSUME IInv, RegistryFails
    PROVE  IInv'
<1>1. /\ memo = "pending" /\ memo' = "failed"
      /\ call' = [a \in Actors |-> IF Awaiting(a, "init") THEN Idle ELSE call[a]]
      /\ UNCHANGED <<connected, client, flag, consumers, closing, registry, pinned, encoded, alone>>
  BY DEF RegistryFails
<1>2. call' \in [Actors -> Calls]
  BY <1>1, IdleIsCall DEF IInv, TypeOK
<1>3. CodecOK'
  BY <1>1 DEF IInv, CodecOK
<1>4. CallCodec'
  BY <1>1 DEF IInv, CallCodec, Awaiting, Idle
<1>5. TypeOK'
  BY <1>1, <1>2 DEF IInv, TypeOK, consumers
<1>6. FlagsAreExact' /\ CallClient' /\ Awaited' /\ ConsumerOK' /\ ClosingOK' /\ AloneOK'
  BY <1>1, <1>2, InitSettles
<1> QED BY <1>3, <1>4, <1>5, <1>6 DEF IInv

-----------------------------------------------------------------------------
(* The consumers *)

\* Steps that move only consumers and handlers need only what concerns them.
LEMMA ConsumerFrame ==
    ASSUME IInv, UNCHANGED <<connected, client, flag, call, closing, codec, alone>>,
           handles' \subseteq Consumers, handling' \subseteq Consumers,
           consumer' \in [Consumers -> ConsumerStates], ConsumerOK',
           \A s \in handling : Pending(s) => s \in handling'
    PROVE  IInv'
<1>1. TypeOK' /\ FlagsAreExact' /\ CallCodec' /\ CodecOK' /\ Awaited' /\ ClosingOK' /\ AloneOK'
  BY DEF IInv, TypeOK, FlagsAreExact, CallCodec, CodecOK, Awaited, Waiters, ClosingOK, AloneOK,
         Awaiting, Pending, codec
<1>2. CallClient'
  BY DEF IInv, CallClient, Awaiting, Pending
<1> QED BY <1>1, <1>2 DEF IInv

LEMMA ConsumerStep ==
    ASSUME IInv, NEW s \in Consumers,
           \/ Consume(s) \/ ConsumerConnects(s) \/ ConsumerFails(s) \/ Dispose(s)
           \/ Deliver(s) \/ Return(s) \/ ConsumerCloses(s)
    PROVE  IInv'
<1>0. /\ handles \subseteq Consumers /\ handling \subseteq Consumers
      /\ consumer \in [Consumers -> ConsumerStates]
      /\ \A t \in handling : consumer[t] \in {"running", "closing"}
      /\ \A t \in Consumers :
           /\ consumer[t] \in {"connecting", "running"} => t \in handles
           /\ closing = "consumers" => consumer[t] \notin {"connecting", "running"}
           /\ closing \in Kinds \cup {"done"} => consumer[t] \in {"none", "closed"}
  BY DEF IInv, TypeOK, ConsumerOK
<1>1. CASE Consume(s)
  BY <1>0, <1>1, ConsumerFrame DEF Consume, ConsumerOK, ConsumerStates
<1>2. CASE ConsumerConnects(s)
  BY <1>0, <1>2, ConsumerFrame DEF ConsumerConnects, ConsumerOK, ConsumerStates
<1>3. CASE ConsumerFails(s) \/ Dispose(s)
  BY <1>0, <1>3, ConsumerFrame DEF ConsumerFails, Dispose, Drop, ConsumerOK, ConsumerStates
<1>4. CASE Deliver(s)
  BY <1>0, <1>4, ConsumerFrame DEF Deliver, ConsumerOK
<1>5. CASE Return(s)
  BY <1>0, <1>5, ConsumerFrame DEF Return, ConsumerOK
<1>6. CASE ConsumerCloses(s)
  BY <1>0, <1>6, ConsumerFrame DEF ConsumerCloses, ConsumerOK, ConsumerStates
<1> QED BY <1>1, <1>2, <1>3, <1>4, <1>5, <1>6
-----------------------------------------------------------------------------
(* disconnect *)

LEMMA DisconnectStep ==
    ASSUME IInv, Disconnect
    PROVE  IInv'
<1>1. /\ closing \in {"no", "done"} /\ closing' = "consumers" /\ handles' = {}
      /\ \A s \in Consumers : consumer[s] \notin {"connecting", "closing"}
      /\ consumer' = [s \in Consumers |-> IF s \in handles THEN "closing" ELSE consumer[s]]
      /\ alone' = \A a \in Callers : ~Pending(a)
      /\ UNCHANGED <<connected, client, flag, handling, call, codec>>
  BY DEF Disconnect
<1>2. consumer \in [Consumers -> ConsumerStates] /\ handling \subseteq Consumers
  BY DEF IInv, TypeOK
<1>3. TypeOK'
  <2>1. consumer' \in [Consumers -> ConsumerStates]
    BY <1>1, <1>2 DEF ConsumerStates
  <2> QED BY <1>1, <2>1 DEF IInv, TypeOK, codec
<1>4. ConsumerOK'
  <2>1. \A s \in Consumers : consumer'[s] \notin {"connecting", "running"}
    BY <1>1, <1>2 DEF IInv, ConsumerOK
  <2>2. \A s \in handling : consumer[s] = "running" /\ s \in handles
    BY <1>1, <1>2 DEF IInv, ConsumerOK
  <2>3. \A s \in handling' : consumer'[s] = "closing"
    BY <1>1, <1>2, <2>2
  <2>4. closing' \notin Kinds \cup {"done"}
    BY <1>1
  <2> QED BY <2>1, <2>3, <2>4 DEF ConsumerOK
<1>5. ClosingOK'
  <2>1. closing \notin Kinds /\ closing' \notin Kinds
    BY <1>1
  <2> QED BY <1>1, <2>1 DEF IInv, ClosingOK
<1>6. AloneOK'
  BY <1>1 DEF AloneOK, Pending
<1> QED BY <1>1, <1>3, <1>4, <1>5, <1>6 DEF IInv, FlagsAreExact, CallCodec, CodecOK, CallClient,
           Awaited, Waiters, Awaiting, Pending, codec

\* CloseNext goes to the first client that is left, or is done when none is.
LEMMA CloseNextResult ==
    ASSUME NEW from \in {"consumers"} \cup Kinds, NEW clients \in [Kinds -> ClientStates],
           NEW flags \in [Kinds -> BOOLEAN], connected \in BOOLEAN,
           \A k \in Kinds : flags[k] <=> clients[k] = "open",
           CloseNext(from, clients, flags)
    PROVE  /\ flag' = flags /\ client' \in [Kinds -> ClientStates]
           /\ closing' \in Kinds \cup {"done"} /\ connected' \in BOOLEAN
           /\ \A k \in Kinds : client'[k] = IF k = closing' THEN "closing" ELSE clients[k]
           /\ closing' \in Kinds => flags[closing'] /\ UNCHANGED connected
           /\ closing' = "done" => ~connected'
           /\ \A j \in Kinds : flags[j] /\ Stage[j] > Stage[from] =>
                closing' \in Kinds /\ ~(Stage[j] < Stage[closing'])
<1>1. CASE Left(from, flags) = {}
  BY <1>1 DEF CloseNext, Left
<1>2. CASE Left(from, flags) # {}
  <2>1. PICK k \in Left(from, flags) :
          /\ \A j \in Left(from, flags) : Stage[k] <= Stage[j]
          /\ closing' = k /\ client' = [clients EXCEPT ![k] = "closing"] /\ UNCHANGED connected
    BY <1>2 DEF CloseNext
  <2>2. k \in Kinds /\ flags[k] /\ k # "done"
    BY DEF Left
  <2>3. \A j \in Kinds : Stage[j] \in Int
    BY DEF Stage
  <2>4. \A j \in Kinds : flags[j] /\ Stage[j] > Stage[from] => ~(Stage[j] < Stage[k])
    BY <2>1, <2>2, <2>3 DEF Left
  <2>5. client' \in [Kinds -> ClientStates]
        /\ \A j \in Kinds : client'[j] = IF j = k THEN "closing" ELSE clients[j]
    BY <2>1, <2>2 DEF ClientStates
  <2>6. flag' = flags
    BY DEF CloseNext
  <2> QED BY <2>1, <2>2, <2>4, <2>5, <2>6
<1> QED BY <1>1, <1>2

\* Whatever disconnect() awaited has settled; `from` is the stage it was at.
LEMMA CloseStep ==
    ASSUME IInv, NEW from \in {"consumers"} \cup Kinds, closing = from,
           NEW clients \in [Kinds -> ClientStates], NEW flags \in [Kinds -> BOOLEAN],
           CloseNext(from, clients, flags),
           \A k \in Kinds : IF k = from THEN clients[k] = "closed" /\ ~flags[k]
                                        ELSE clients[k] = client[k] /\ flags[k] = flag[k],
           \A s \in Consumers : consumer[s] # "closing",
           UNCHANGED <<consumers, call, codec, alone>>
    PROVE  IInv'
<1>0. \A s \in Consumers : s \notin handling /\ consumer[s] \in {"none", "closed"}
  BY DEF IInv, ConsumerOK, TypeOK, ConsumerStates
<1>1. \A k \in Kinds : flags[k] <=> clients[k] = "open"
  BY DEF IInv, FlagsAreExact, ClosingOK
<1>2. /\ flag' = flags /\ client' \in [Kinds -> ClientStates]
      /\ closing' \in Kinds \cup {"done"} /\ connected' \in BOOLEAN
      /\ \A k \in Kinds : client'[k] = IF k = closing' THEN "closing" ELSE clients[k]
      /\ closing' \in Kinds => flags[closing'] /\ UNCHANGED connected
      /\ closing' = "done" => ~connected'
      /\ \A j \in Kinds : flags[j] /\ Stage[j] > Stage[from] =>
           closing' \in Kinds /\ ~(Stage[j] < Stage[closing'])
  BY <1>1, CloseNextResult DEF IInv, TypeOK
<1>3. TypeOK'
  BY <1>2 DEF IInv, TypeOK, consumers, codec
<1>11. \A k \in Kinds : clients[k] # "closing"
  <2> TAKE k \in Kinds
  <2>1. CASE k = from
    BY <2>1
  <2>2. CASE k # from
    BY <2>2 DEF IInv, ClosingOK
  <2> QED BY <2>1, <2>2
<1>4. FlagsAreExact'
  <2> SUFFICES ASSUME NEW k \in Kinds PROVE flags[k] <=> client'[k] \in {"open", "closing"}
    BY <1>2 DEF FlagsAreExact
  <2>1. CASE k = closing'
    BY <2>1, <1>2
  <2>2. CASE k # closing'
    <3>1. client'[k] = clients[k]
      BY <2>2, <1>2
    <3> QED BY <3>1, <1>1, <1>11
  <2> QED BY <2>1, <2>2
<1>5. ClosingOK'
  <2> SUFFICES ASSUME NEW k \in Kinds PROVE client'[k] = "closing" <=> closing' = k
    BY DEF ClosingOK
  <2> QED BY <1>2, <1>11
<1>6. ConsumerOK'
  <2>1. handling = {} /\ UNCHANGED <<handles, consumer, handling>>
    BY <1>0 DEF IInv, TypeOK, consumers
  <2>2. closing' # "consumers"
    BY <1>2
  <2> QED BY <1>0, <2>1, <2>2 DEF ConsumerOK
<1>7. CallClient'
  <2>1. \A a \in Actors : a \in Consumers => ~Pending(a)
    BY <1>0 DEF IInv, CallClient
  <2>2. \A a \in Actors : call[a].at \in {"connect", "init", "use"} => call[a].kind \in Kinds
    BY DEF IInv, CallClient
  <2>3. \A k \in Kinds : client[k] = "connecting" => client'[k] = "connecting"
    BY <1>2 DEF IInv, ClosingOK, FlagsAreExact
  <2>4. \A a \in Actors : Awaiting(a, "connect") => client[call[a].kind] = "connecting"
    BY DEF IInv, CallClient
  <2> QED BY <2>1, <2>2, <2>3, <2>4 DEF CallClient, Awaiting, Pending, consumers
<1>8. Awaited'
  <2>1. \A k \in Kinds : client'[k] = "connecting" => client[k] = "connecting"
    BY <1>2
  <2> QED BY <2>1 DEF IInv, Awaited, Waiters, Awaiting
<1>9. AloneOK'
  <2> SUFFICES ASSUME alone PROVE AloneOK'
    BY DEF AloneOK
  <2>1. \A j \in Kinds : Stage[j] < Stage[from] => ~flags[j]
    BY DEF IInv, AloneOK, Stage
  <2>2. \A j \in Kinds : Stage[j] = Stage[from] => ~flags[j]
    BY DEF Stage
  <2>3. \A j \in Kinds : Stage[j] \in Int /\ Stage[from] \in Int
    BY DEF Stage
  <2>4. \A j \in Kinds : flags[j] => Stage[j] > Stage[from]
    BY <2>1, <2>2, <2>3
  <2>5. closing' = "done" => ~connected' /\ \A j \in Kinds : ~flag'[j]
    BY <1>2, <2>4
  <2>6. closing' \in Kinds => \A j \in Kinds : Stage[j] < Stage[closing'] => ~flag'[j]
    BY <1>2, <2>4
  <2>7. \A a \in Callers : ~Pending(a)'
    BY DEF IInv, AloneOK, Pending
  <2> QED BY <2>5, <2>6, <2>7 DEF AloneOK
<1>10. CallCodec' /\ CodecOK'
  BY DEF IInv, CallCodec, CodecOK, Awaiting, codec
<1> QED BY <1>3, <1>4, <1>5, <1>6, <1>7, <1>8, <1>9, <1>10 DEF IInv

LEMMA ConsumersClosedStep ==
    ASSUME IInv, ConsumersClosed
    PROVE  IInv'
<1>1. "consumers" \notin Kinds /\ client \in [Kinds -> ClientStates] /\ flag \in [Kinds -> BOOLEAN]
  BY DEF IInv, TypeOK
<1>2. /\ closing = "consumers" /\ \A s \in Consumers : consumer[s] # "closing"
      /\ CloseNext("consumers", client, flag) /\ UNCHANGED <<consumers, call, codec, alone>>
  BY DEF ConsumersClosed
<1> QED BY <1>1, <1>2, CloseStep

LEMMA ClientClosedStep ==
    ASSUME IInv, NEW k \in Kinds, ClientClosed(k)
    PROVE  IInv'
<1> DEFINE clients == [client EXCEPT ![k] = "closed"]
           flags == [flag EXCEPT ![k] = FALSE]
<1>1. /\ clients \in [Kinds -> ClientStates] /\ flags \in [Kinds -> BOOLEAN]
      /\ \A j \in Kinds : IF j = k THEN clients[j] = "closed" /\ ~flags[j]
                                   ELSE clients[j] = client[j] /\ flags[j] = flag[j]
  BY DEF IInv, TypeOK, ClientStates
<1>2. closing = k /\ CloseNext(k, clients, flags) /\ UNCHANGED <<consumers, call, codec, alone>>
  BY DEF ClientClosed
<1>3. \A s \in Consumers : consumer[s] # "closing"
  BY <1>2 DEF IInv, ConsumerOK
<1> HIDE DEF clients, flags
<1> QED BY <1>1, <1>2, <1>3, CloseStep

-----------------------------------------------------------------------------
(* The invariant and what follows from it *)

LEMMA InitInv == Init => IInv
<1> SUFFICES ASSUME Init PROVE IInv
  OBVIOUS
<1>1. \A a \in Actors : call[a] = Idle
  BY DEF Init
<1>2. TypeOK
  <2>1. call \in [Actors -> Calls]
    BY IdleIsCall DEF Init
  <2>2. registry \in Seq(Range(Subjects)) /\ pinned \in Seq(Range(Subjects))
    BY DEF Init
  <2> QED BY <2>1, <2>2 DEF Init, TypeOK, ClientStates, ConsumerStates
<1>3. CallCodec /\ CallClient
  BY <1>1 DEF CallCodec, CallClient, Awaiting, Pending, Idle
<1>4. CodecOK
  BY DEF Init, CodecOK
<1>5. FlagsAreExact /\ Awaited /\ ConsumerOK /\ ClosingOK /\ AloneOK
  BY DEF Init, FlagsAreExact, Awaited, ConsumerOK, ClosingOK, AloneOK
<1> QED BY <1>2, <1>3, <1>4, <1>5 DEF IInv

LEMMA StutterStep ==
    ASSUME IInv, UNCHANGED vars
    PROVE  IInv'
BY DEF IInv, TypeOK, FlagsAreExact, CallCodec, CodecOK, CallClient, Awaited, Waiters, ConsumerOK,
       ClosingOK, AloneOK, Awaiting, Pending, vars, consumers, codec

LEMMA NextInv == IInv /\ [Next]_vars => IInv'
<1> SUFFICES ASSUME IInv, [Next]_vars PROVE IInv'
  OBVIOUS
<1>1. CASE \E a \in Actors, k \in Kinds, topic \in Topics : Call(a, k, topic)
  BY <1>1, CallStep
<1>2. CASE \E a \in Callers : Connect(a)
  BY <1>2, ConnectStep
<1>3. CASE \E s \in Consumers : Consume(s) \/ Dispose(s) \/ Deliver(s) \/ Return(s)
  BY <1>3, ConsumerStep
<1>4. CASE Disconnect
  BY <1>4, DisconnectStep
<1>5. CASE Settles
  <2>1. CASE \E a \in Actors : Loaded(a) \/ LoadFails(a) \/ Answered(a)
    BY <2>1, LoadedStep, AnsweredStep
  <2>2. CASE \E k \in Kinds : ClientConnects(k) \/ ClientFails(k) \/ ClientClosed(k)
    BY <2>2, ClientStep, ClientClosedStep
  <2>3. CASE \E s \in Consumers : ConsumerConnects(s) \/ ConsumerFails(s) \/ ConsumerCloses(s)
    BY <2>3, ConsumerStep
  <2>4. CASE Registered \/ Pinned \/ RegistryFails \/ ConsumersClosed
    BY <2>4, RegisteredStep, PinnedStep, RegistryFailsStep, ConsumersClosedStep
  <2> QED BY <1>5, <2>1, <2>2, <2>3, <2>4 DEF Settles
<1>6. CASE UNCHANGED vars
  BY <1>6, StutterStep
<1> QED BY <1>1, <1>2, <1>3, <1>4, <1>5, <1>6 DEF Next

LEMMA SpecInv == Spec => []IInv
<1> QED BY InitInv, NextInv, PTL DEF Spec

LEMMA HandlersKeep == IInv => HandlersKeepTheirClients
<1> SUFFICES ASSUME IInv, NEW s \in Consumers, Awaiting(s, "use")
             PROVE  client[call[s].kind] = "open"
  BY DEF HandlersKeepTheirClients
<1>1. s \in Actors /\ s \in handling /\ call[s].kind = "producer" /\ "producer" \in Kinds
      /\ flag["producer"]
  BY DEF IInv, CallClient, Awaiting, Pending, Actors
<1>2. closing \in {"no", "consumers"}
  BY <1>1, HandlingStage
<1>3. closing # "producer"
  BY <1>2
<1> QED BY <1>1, <1>3 DEF IInv, FlagsAreExact, ClosingOK

LEMMA Disconnected == IInv => CleanDisconnect
<1> SUFFICES ASSUME IInv, closing = "done", alone
             PROVE  /\ ~connected
                    /\ \A k \in Kinds : client[k] \in {"none", "closed"} /\ ~flag[k]
                    /\ \A s \in Consumers : consumer[s] \in {"none", "closed"}
                    /\ \A a \in Actors : ~Pending(a)
  BY DEF CleanDisconnect
<1>1. ~connected /\ (\A k \in Kinds : ~flag[k]) /\ \A a \in Callers : ~Pending(a)
  BY DEF IInv, AloneOK
<1>2. \A s \in Consumers : consumer[s] \in {"none", "closed"} /\ s \notin handling
  BY DEF IInv, ConsumerOK
<1>3. \A a \in Actors : ~Pending(a)
  BY <1>1, <1>2 DEF IInv, CallClient, Actors
<1>4. \A k \in Kinds : client[k] \in {"none", "closed"}
  <2> TAKE k \in Kinds
  <2>1. client[k] \notin {"open", "closing"}
    BY <1>1 DEF IInv, FlagsAreExact
  <2>2. client[k] # "connecting"
    BY <1>3 DEF IInv, Awaited, Waiters, Awaiting, Pending
  <2> QED BY <2>1, <2>2 DEF IInv, TypeOK, ClientStates
<1> QED BY <1>1, <1>2, <1>3, <1>4

LEMMA EncodedRegistered == IInv => EncodedAreRegistered
<1> SUFFICES ASSUME IInv, encoded # {}
             PROVE  registry = Subjects /\ pinned = Subjects
  BY DEF EncodedAreRegistered
<1>1. /\ Len(pinned) = Len(Subjects) /\ Len(registry) = Len(Subjects)
      /\ \A i \in 1..Len(registry) : registry[i] = Subjects[i]
      /\ \A i \in 1..Len(pinned) : pinned[i] = Subjects[i]
      /\ registry \in Seq(Range(Subjects)) /\ pinned \in Seq(Range(Subjects))
  BY DEF IInv, CodecOK, TypeOK
<1> QED BY <1>1

\* The variables of the driver keep their types, whatever the library does.
THEOREM TypeSafety == Spec => []TypeOK
BY SpecInv, PTL DEF IInv

\* The flags of getProducer, getTransactionalProducer and getAdmin say exactly
\* which clients are open, in spite of calls and disconnect() that overlap.
THEOREM FlagSafety == Spec => []FlagsAreExact
BY SpecInv, PTL DEF IInv

\* disconnect() leaves the producer to the messages in progress: no handler ever
\* sends through a client that is closed or closing.
THEOREM HandlerSafety == Spec => []HandlersKeepTheirClients
BY SpecInv, HandlersKeep, PTL

\* A disconnect() that no call of the process overlaps leaves no client, consumer,
\* handler or call behind.
THEOREM DisconnectSafety == Spec => []CleanDisconnect
BY SpecInv, Disconnected, PTL

\* serialize encodes only after init has registered every curated schema and
\* pinned its compatibility, whatever calls come first and together.
THEOREM EncodeSafety == Spec => []EncodedAreRegistered
BY SpecInv, EncodedRegistered, PTL
=============================================================================
