-------------------------- MODULE WebShutdownProofs --------------------------
(***************************************************************************)
(* Proofs about WebShutdown, for every set of browsers.  The invariant     *)
(* says what the shutdown has dealt with at each await.                    *)
(***************************************************************************)
EXTENDS WebShutdown, SequenceTheorems, TLAPS

\* What each await of the shutdown leaves behind, in their order.
DoneSoFar ==
    /\ step > 1 => stopped
    /\ step > 2 => ~inFlight
    /\ step > 3 => ~consumerOpen /\ ~listening
    /\ step > 4 => conns = {}

\* The resources shut down, by the await the process has reached or left with.
ClosedByStep ==
    /\ step < 2 => closed = << >>
    /\ step \in 2 .. 4 => closed = <<"tracing">>
    /\ step = 5 /\ exit # 0 => closed = <<"tracing", "web-server">>
    /\ exit = 0 => step = 5 /\ closed = <<"tracing", "web-server", "broker", "outbox-db">>

IInv == TypeOK /\ DoneSoFar /\ ClosedByStep /\ PingsWhileStreaming

-----------------------------------------------------------------------------
\* The awaits by their place: step is a number between 0 and 5.
LEMMA AwaitsProperties ==
    /\ Len(Awaits) = 5
    /\ Awaits[1] = "tracing" /\ Awaits[2] = "relay" /\ Awaits[3] = "consumer"
    /\ Awaits[4] = "http" /\ Awaits[5] = "broker"
BY DEF Awaits

\* An await is the one at its place.
LEMMA StepOfAwait ==
    ASSUME step \in 0 .. Len(Awaits)
    PROVE  /\ Await("tracing") => step = 1
           /\ Await("relay") => step = 2
           /\ Await("consumer") => step = 3
           /\ Await("http") => step = 4
           /\ Await("broker") => step = 5
<1>1. step \in {0, 1, 2, 3, 4, 5}
  BY AwaitsProperties
<1> QED BY <1>1, AwaitsProperties DEF Await

\* The resources of main.ts.
Names == {"outbox-db", "broker", "web-server", "tracing"}

\* Appending one name to another.
LEMMA AppendToOne ==
    ASSUME NEW a \in Names, NEW b \in Names
    PROVE  Append(<<a>>, b) = <<a, b>>
<1>1. <<a>> \in Seq(Names) /\ Len(<<a>>) = 1 /\ <<a>>[1] = a
  OBVIOUS
<1>2. <<a, b>> \in Seq(Names) /\ Len(<<a, b>>) = 2 /\ <<a, b>>[1] = a /\ <<a, b>>[2] = b
  OBVIOUS
<1>3. /\ Append(<<a>>, b) \in Seq(Names) /\ Len(Append(<<a>>, b)) = 2
      /\ Append(<<a>>, b)[1] = a /\ Append(<<a>>, b)[2] = b
  BY <1>1, AppendProperties
<1>4. \A i \in 1 .. 2 : Append(<<a>>, b)[i] = <<a, b>>[i]
  BY <1>2, <1>3
<1> QED BY <1>2, <1>3, <1>4, SeqEqual

\* Two names after two others.
LEMMA TwoAndTwo ==
    ASSUME NEW a \in Names, NEW b \in Names, NEW c \in Names, NEW d \in Names
    PROVE  <<a, b>> \o <<c, d>> = <<a, b, c, d>>
<1> DEFINE p == <<a, b>>
           q == <<c, d>>
           r == <<a, b, c, d>>
<1>1. p \in Seq(Names) /\ Len(p) = 2 /\ p[1] = a /\ p[2] = b
  OBVIOUS
<1>2. q \in Seq(Names) /\ Len(q) = 2 /\ q[1] = c /\ q[2] = d
  OBVIOUS
<1>3. r \in Seq(Names) /\ Len(r) = 4 /\ r[1] = a /\ r[2] = b /\ r[3] = c /\ r[4] = d
  OBVIOUS
<1> HIDE DEF p, q, r
<1>4. /\ p \o q \in Seq(Names) /\ Len(p \o q) = 4
      /\ \A i \in 1 .. 4 : (p \o q)[i] = IF i <= 2 THEN p[i] ELSE q[i - 2]
  BY <1>1, <1>2, ConcatProperties
<1>5. \A i \in 1 .. 4 : i = 1 \/ i = 2 \/ i = 3 \/ i = 4
  OBVIOUS
<1>6. \A i \in 1 .. 4 : (p \o q)[i] = r[i]
  BY <1>1, <1>2, <1>3, <1>4, <1>5
<1>7. p \o q = r
  BY <1>3, <1>4, <1>6, SeqEqual
<1> QED BY <1>7 DEF p, q, r

\* The lists of resources a shutdown builds.
LEMMA ClosedLists ==
    /\ << >> \in Seq(Names) /\ <<"tracing">> \in Seq(Names)
    /\ <<"tracing", "web-server">> \in Seq(Names)
    /\ <<"tracing", "web-server", "broker", "outbox-db">> \in Seq(Names)
    /\ Append(<< >>, "tracing") = <<"tracing">>
    /\ Append(<<"tracing">>, "web-server") = <<"tracing", "web-server">>
    /\ <<"tracing", "web-server">> \o <<"broker", "outbox-db">>
           = <<"tracing", "web-server", "broker", "outbox-db">>
<1>1. "tracing" \in Names /\ "web-server" \in Names /\ "broker" \in Names /\ "outbox-db" \in Names
  BY DEF Names
<1>2. << >> \in Seq(Names) /\ <<"tracing">> \in Seq(Names)
  BY <1>1
<1>3. <<"tracing", "web-server">> \in Seq(Names)
  BY <1>1
<1>4. <<"tracing", "web-server", "broker", "outbox-db">> \in Seq(Names)
  BY <1>1
<1>5. Append(<< >>, "tracing") = <<"tracing">>
  OBVIOUS
<1> QED BY <1>1, <1>2, <1>3, <1>4, <1>5, AppendToOne, TwoAndTwo

\* Initially nothing is shut down and nobody is connected.
LEMMA InitIInv == Init => IInv
<1> SUFFICES ASSUME Init PROVE IInv
  OBVIOUS
<1>1. TypeOK
  <2>1. step \in 0 .. Len(Awaits) /\ exit \in {0, 1, Running}
    BY AwaitsProperties DEF Init
  <2>2. closed \in Seq(Names)
    BY ClosedLists DEF Init
  <2>3. {stopped, inFlight, consumerOpen, listening, heartbeat, brokerOpen} \subseteq BOOLEAN
    BY DEF Init
  <2>4. conns \subseteq Browsers /\ clients \subseteq conns
    BY DEF Init
  <2> QED BY <2>1, <2>2, <2>3, <2>4 DEF TypeOK, Names
<1>2. DoneSoFar /\ ClosedByStep /\ PingsWhileStreaming
  BY DEF Init, DoneSoFar, ClosedByStep, PingsWhileStreaming, Running
<1> QED BY <1>1, <1>2 DEF IInv

\* The awaits of the relay, the consumer and the browsers, at any time.
LEMMA WorkKeepsIInv ==
    ASSUME IInv,
           \/ RelayTick \/ RelayRunEnds
           \/ \E b \in Browsers : Connect(b) \/ OpenEvents(b) \/ Leave(b)
    PROVE  IInv'
<1>0. TypeOK /\ DoneSoFar /\ ClosedByStep /\ PingsWhileStreaming /\ step \in 0 .. 5
  BY AwaitsProperties DEF IInv, TypeOK
<1> USE DEF IInv, TypeOK, DoneSoFar, ClosedByStep, PingsWhileStreaming, Alive, Running, server
<1>1. CASE RelayTick
  BY <1>0, <1>1 DEF RelayTick
<1>2. CASE RelayRunEnds
  BY <1>0, <1>2 DEF RelayRunEnds
<1>3. ASSUME NEW b \in Browsers, Connect(b) PROVE IInv'
  BY <1>0, <1>3 DEF Connect
<1>4. ASSUME NEW b \in Browsers, OpenEvents(b) PROVE IInv'
  BY <1>0, <1>4 DEF OpenEvents
<1>5. ASSUME NEW b \in Browsers, Leave(b) PROVE IInv'
  BY <1>0, <1>5 DEF Leave
<1> QED BY <1>1, <1>2, <1>3, <1>4, <1>5

\* The steps of the shutdown, each at its await.
LEMMA ShutdownKeepsIInv ==
    ASSUME IInv,
           \/ Signal \/ CloseFails \/ Timeout
           \/ TracingCloses \/ RelayCloses \/ ConsumerCloses \/ HttpCloses \/ BrokerCloses
    PROVE  IInv'
<1>0. TypeOK /\ DoneSoFar /\ ClosedByStep /\ PingsWhileStreaming /\ step \in 0 .. 5
  BY AwaitsProperties DEF IInv, TypeOK
<1>a. step \in 0 .. Len(Awaits)
  BY AwaitsProperties, <1>0
<1> USE AwaitsProperties
<1> USE DEF IInv, TypeOK, DoneSoFar, ClosedByStep, PingsWhileStreaming, Running, server
<1>1. CASE Signal
  BY <1>0, <1>1 DEF Signal, Alive
<1>2. CASE CloseFails
  BY <1>0, <1>2 DEF CloseFails, Alive, Await
<1>3. CASE Timeout
  BY <1>0, <1>3 DEF Timeout, Alive
<1>4. CASE TracingCloses
  <2>1. step = 1 /\ Alive
    BY <1>4, <1>a, StepOfAwait DEF TracingCloses, Await
  <2> QED BY <1>0, <1>4, <2>1 DEF TracingCloses, Alive
<1>5. CASE RelayCloses
  <2>1. step = 2 /\ Alive
    BY <1>5, <1>a, StepOfAwait DEF RelayCloses, Await
  <2> QED BY <1>0, <1>5, <2>1 DEF RelayCloses, Alive
<1>6. CASE ConsumerCloses
  <2>1. step = 3 /\ Alive
    BY <1>6, <1>a, StepOfAwait DEF ConsumerCloses, Await
  <2>2. conns' \subseteq Browsers /\ clients' \subseteq conns'
    BY <1>0, <1>6 DEF ConsumerCloses
  <2>3. step' \in 0 .. Len(Awaits)
    BY <1>6 DEF ConsumerCloses
  <2>4. {stopped', inFlight', consumerOpen', listening', heartbeat', brokerOpen'} \subseteq BOOLEAN
    BY <1>0, <1>6 DEF ConsumerCloses
  <2>5. exit' \in {0, 1, 2} /\ closed' \in Seq({"outbox-db", "broker", "web-server", "tracing"})
    BY <1>0, <1>6 DEF ConsumerCloses
  <2>6. TypeOK'
    BY <2>2, <2>3, <2>4, <2>5
  <2>7. DoneSoFar' /\ ClosedByStep' /\ PingsWhileStreaming'
    BY <1>0, <1>6, <2>1 DEF ConsumerCloses, Alive
  <2> QED BY <2>6, <2>7
<1>7. CASE HttpCloses
  <2>1. step = 4 /\ Alive
    BY <1>7, <1>a, StepOfAwait DEF HttpCloses, Await
  <2>0. closed = <<"tracing">>
    BY <1>0, <2>1
  <2>2. closed' = <<"tracing", "web-server">>
    BY <1>7, <2>0, ClosedLists DEF HttpCloses
  <2>3. TypeOK'
    BY <1>0, <1>7, <2>2, ClosedLists DEF HttpCloses, Names
  <2>4. step' = 5 /\ exit' = exit /\ exit = 2
    BY <1>7, <2>1 DEF HttpCloses, Alive
  <2>5. ClosedByStep'
    BY <2>2, <2>4
  <2>6. DoneSoFar'
    BY <1>0, <1>7, <2>1, <2>4 DEF HttpCloses
  <2>7. PingsWhileStreaming'
    BY <1>0, <1>7 DEF HttpCloses
  <2> QED BY <2>3, <2>5, <2>6, <2>7
<1>8. CASE BrokerCloses
  <2>1. step = 5 /\ Alive
    BY <1>8, <1>a, StepOfAwait DEF BrokerCloses, Await
  <2>2. closed = <<"tracing", "web-server">>
    BY <1>0, <2>1 DEF Alive
  <2>3. closed' = <<"tracing", "web-server", "broker", "outbox-db">>
    BY <1>8, <2>2, ClosedLists DEF BrokerCloses
  <2>4. TypeOK'
    BY <1>0, <1>8, <2>3, ClosedLists DEF BrokerCloses, Names
  <2>5. step' = 5 /\ exit' = 0
    BY <1>8, <2>1 DEF BrokerCloses
  <2>6. ClosedByStep'
    BY <2>3, <2>5
  <2>7. DoneSoFar'
    BY <1>0, <1>8, <2>1, <2>5 DEF BrokerCloses
  <2>8. PingsWhileStreaming'
    BY <1>0, <1>8 DEF BrokerCloses
  <2> QED BY <2>4, <2>6, <2>7, <2>8
<1> QED BY <1>1, <1>2, <1>3, <1>4, <1>5, <1>6, <1>7, <1>8

\* Every step preserves the invariant.
LEMMA NextIInv == IInv /\ [Next]_vars => IInv'
<1>1. ASSUME IInv, Next PROVE IInv'
  BY <1>1, WorkKeepsIInv, ShutdownKeepsIInv DEF Next
<1>2. ASSUME IInv, UNCHANGED vars PROVE IInv'
  BY <1>2 DEF IInv, TypeOK, DoneSoFar, ClosedByStep, PingsWhileStreaming, vars, server
<1> QED BY <1>1, <1>2

\* The invariant holds throughout.
LEMMA AlwaysIInv == Spec => []IInv
BY InitIInv, NextIInv, PTL DEF Spec

-----------------------------------------------------------------------------
\* The variables keep their types, and a stream needs a connection, whatever
\* browsers connect and leave (SseHub.clients).
THEOREM TypeCorrect == Spec => []TypeOK
<1>1. IInv => TypeOK
  BY DEF IInv
<1> QED BY <1>1, AlwaysIInv, PTL

\* The relay, the consumer, the connections and the streams are gone, and none can
\* start, when the broker is asked to disconnect (close of app.ts, main.ts).
THEOREM BrokerClosesLast == Spec => []UsersGoFirst
<1>1. IInv => UsersGoFirst
  BY AwaitsProperties DEF IInv, DoneSoFar, TypeOK, UsersGoFirst
<1> QED BY <1>1, AlwaysIInv, PTL

\* registerGracefulShutdown goes through the resources backwards and once.
THEOREM ReverseOrder == Spec => []ClosedInReverse
<1>1. Reverse(Resources) = <<"tracing", "web-server", "broker", "outbox-db">>
  BY DEF Reverse, Resources
<1>2. ASSUME IInv PROVE ClosedInReverse
  <2>1. step \in 0 .. 5
    BY <1>2, AwaitsProperties DEF IInv, TypeOK
  <2>2. \/ closed = << >> \/ closed = <<"tracing">> \/ closed = <<"tracing", "web-server">>
        \/ closed = <<"tracing", "web-server", "broker", "outbox-db">>
    BY <1>2, <2>1 DEF IInv, ClosedByStep
  <2>3. IsPrefix(closed, Reverse(Resources))
    <3>1. CASE closed = << >>
      BY <1>1, <3>1 DEF IsPrefix
    <3>2. CASE closed = <<"tracing">>
      BY <1>1, <3>2 DEF IsPrefix
    <3>3. CASE closed = <<"tracing", "web-server">>
      BY <1>1, <3>3 DEF IsPrefix
    <3>4. CASE closed = <<"tracing", "web-server", "broker", "outbox-db">>
      BY <1>1, <3>4 DEF IsPrefix
    <3> QED BY <2>2, <3>1, <3>2, <3>3, <3>4
  <2> QED BY <1>1, <1>2, <2>3 DEF IInv, ClosedByStep, ClosedInReverse
<1> QED BY <1>2, AlwaysIInv, PTL

\* SseHub pings exactly while it has streams.
THEOREM HeartbeatFollowsStreams == Spec => []PingsWhileStreaming
<1>1. IInv => PingsWhileStreaming
  BY DEF IInv
<1> QED BY <1>1, AlwaysIInv, PTL
=============================================================================
