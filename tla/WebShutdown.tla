----------------------------- MODULE WebShutdown -----------------------------
(***************************************************************************)
(* The running web app and its graceful shutdown: registerGracefulShutdown *)
(* (packages/infra/src/shutdown.ts) over the resources of                  *)
(* apps/web/src/main.ts, the close of the web server (app.ts), the SSE hub *)
(* (sse.ts) and the disposer of the outbox relay (outbox.ts).  Browsers    *)
(* connect and the relay polls while the process goes down; each action is *)
(* the code between two awaits.                                            *)
(***************************************************************************)
EXTENDS Naturals, Sequences, SequencesExt

CONSTANTS Browsers     \* browsers, each with one connection

VARIABLES
    step,          \* index in Awaits of what shutdown awaits; 0 before a signal
    exit,          \* exit code of the process, or Running
    closed,        \* history: the resources shut down, in order
    stopped,       \* the relay was disposed of: no tick starts a run
    inFlight,      \* a run of the relay awaits the broker
    consumerOpen,  \* the telemetry consumer is subscribed
    listening,     \* the HTTP server accepts connections
    conns,         \* browsers with an open connection
    clients,       \* SseHub.clients
    heartbeat,     \* SseHub.heartbeat is set
    brokerOpen     \* the broker is connected

server == <<listening, conns, clients, heartbeat>>
vars == <<step, exit, closed, stopped, inFlight, consumerOpen, server, brokerOpen>>

Running == 2       \* not an exit code of the code

\* Registration order in main.ts; shutdown goes through it backwards.
Resources == <<"outbox-db", "broker", "web-server", "tracing">>

\* What it awaits: tracing, the three awaits of the server's close, the broker.
Awaits == <<"tracing", "relay", "consumer", "http", "broker">>

Alive == exit = Running
Await(a) == Alive /\ step > 0 /\ Awaits[step] = a

-----------------------------------------------------------------------------
(* The app at work, before and during its shutdown *)

\* Mutant: a tick does not look at `stopped`.
RelayTickUnstopped ==
    /\ Alive /\ ~inFlight
    /\ inFlight' = TRUE
    /\ UNCHANGED <<step, exit, closed, stopped, consumerOpen, server, brokerOpen>>

RelayTick ==
    /\ Alive /\ ~stopped /\ ~inFlight
    /\ inFlight' = TRUE
    /\ UNCHANGED <<step, exit, closed, stopped, consumerOpen, server, brokerOpen>>

RelayRunEnds ==
    /\ Alive /\ inFlight
    /\ inFlight' = FALSE
    /\ UNCHANGED <<step, exit, closed, stopped, consumerOpen, server, brokerOpen>>

Connect(b) ==
    /\ Alive /\ listening /\ b \notin conns
    /\ conns' = conns \cup {b}
    /\ UNCHANGED <<step, exit, closed, stopped, inFlight, consumerOpen, listening, clients, heartbeat, brokerOpen>>

\* Mutant: the stream outlives a hub without a connection.
OpenEventsAnywhere(b) ==
    /\ Alive /\ b \notin clients
    /\ clients' = clients \cup {b}
    /\ heartbeat' = TRUE
    /\ UNCHANGED <<step, exit, closed, stopped, inFlight, consumerOpen, listening, conns, brokerOpen>>

\* GET /api/events on an open connection, which may be one kept alive.
OpenEvents(b) ==
    /\ Alive /\ b \in conns \ clients
    /\ clients' = clients \cup {b}
    /\ heartbeat' = TRUE
    /\ UNCHANGED <<step, exit, closed, stopped, inFlight, consumerOpen, listening, conns, brokerOpen>>

\* The connection closes: the hub forgets a stream, and the last one stops the pings.
Leave(b) ==
    /\ Alive /\ b \in conns
    /\ conns' = conns \ {b}
    /\ clients' = clients \ {b}
    /\ heartbeat' = (heartbeat /\ clients' # {})
    /\ UNCHANGED <<step, exit, closed, stopped, inFlight, consumerOpen, listening, brokerOpen>>

-----------------------------------------------------------------------------
(* The shutdown *)

\* Mutant: a second signal starts the shutdown again.
SignalAgain ==
    /\ Alive
    /\ step' = 1
    /\ UNCHANGED <<exit, closed, stopped, inFlight, consumerOpen, server, brokerOpen>>

\* The first SIGINT or SIGTERM; `shuttingDown` makes the handler ignore the others.
Signal ==
    /\ Alive /\ step = 0
    /\ step' = 1
    /\ UNCHANGED <<exit, closed, stopped, inFlight, consumerOpen, server, brokerOpen>>

\* tracing has shut down; the close of the server disposes of the relay.
TracingCloses ==
    /\ Await("tracing")
    /\ closed' = Append(closed, "tracing")
    /\ stopped' = TRUE
    /\ step' = 2
    /\ UNCHANGED <<exit, inFlight, consumerOpen, server, brokerOpen>>

\* The run in flight has ended; its error, if any, is ignored.
RelayCloses ==
    /\ Await("relay") /\ ~inFlight
    /\ step' = 3
    /\ UNCHANGED <<exit, closed, stopped, inFlight, consumerOpen, server, brokerOpen>>

\* The consumer has disconnected; the hub ends its streams and the server stops
\* listening.  The connections that are idle are closed, others may be kept alive.
ConsumerCloses ==
    /\ Await("consumer")
    /\ consumerOpen' = FALSE
    /\ clients' = {} /\ heartbeat' = FALSE
    /\ listening' = FALSE
    /\ conns' \in SUBSET conns
    /\ step' = 4
    /\ UNCHANGED <<exit, closed, stopped, inFlight, brokerOpen>>

\* The last connection is gone, and disconnect is called on the broker.
HttpCloses ==
    /\ Await("http") /\ conns = {}
    /\ closed' = Append(closed, "web-server")
    /\ step' = 5
    /\ UNCHANGED <<exit, stopped, inFlight, consumerOpen, server, brokerOpen>>

\* disconnect settles, whatever the driver answers; the database closes without an
\* await, and the process exits.
BrokerCloses ==
    /\ Await("broker")
    /\ brokerOpen' = FALSE
    /\ closed' = closed \o <<"broker", "outbox-db">>
    /\ exit' = 0
    /\ UNCHANGED <<step, stopped, inFlight, consumerOpen, server>>

\* What is awaited rejects: the rest is skipped.
CloseFails ==
    /\ Await("tracing") \/ Await("consumer")
    /\ exit' = 1
    /\ UNCHANGED <<step, closed, stopped, inFlight, consumerOpen, server, brokerOpen>>

\* Mutant: the timer covers the first resource only.
TimeoutOfOne ==
    /\ Alive /\ step = 1
    /\ exit' = 1
    /\ UNCHANGED <<step, closed, stopped, inFlight, consumerOpen, server, brokerOpen>>

\* timeoutMs after the signal.
Timeout ==
    /\ Alive /\ step > 0
    /\ exit' = 1
    /\ UNCHANGED <<step, closed, stopped, inFlight, consumerOpen, server, brokerOpen>>

Init ==
    /\ step = 0 /\ exit = Running /\ closed = << >>
    /\ stopped = FALSE /\ inFlight = FALSE /\ consumerOpen = TRUE
    /\ listening = TRUE /\ conns = {} /\ clients = {} /\ heartbeat = FALSE
    /\ brokerOpen = TRUE

Next ==
    \/ RelayTick \/ RelayRunEnds
    \/ \E b \in Browsers : Connect(b) \/ OpenEvents(b) \/ Leave(b)
    \/ Signal
    \/ TracingCloses \/ RelayCloses \/ ConsumerCloses \/ HttpCloses \/ BrokerCloses
    \/ CloseFails \/ Timeout

Spec == Init /\ [][Next]_vars

\* Only the timer of the shutdown is sure to fire: a broker, an exporter or a browser
\* may never answer.
FairSpec == Spec /\ WF_vars(Timeout)

-----------------------------------------------------------------------------
(* What the shutdown promises *)

\* Every variable keeps its type, and a stream needs a connection.
TypeOK ==
    /\ step \in 0 .. Len(Awaits) /\ exit \in {0, 1, Running}
    /\ closed \in Seq({"outbox-db", "broker", "web-server", "tracing"})
    /\ {stopped, inFlight, consumerOpen, listening, heartbeat, brokerOpen} \subseteq BOOLEAN
    /\ conns \subseteq Browsers /\ clients \subseteq conns

\* By the time the broker is asked to disconnect, nothing that uses it is left: no
\* run of the relay, consumer, connection or stream, and none can start.
UsersGoFirst ==
    step = Len(Awaits) => /\ ~inFlight /\ stopped
                          /\ ~consumerOpen
                          /\ ~listening /\ conns = {} /\ clients = {}

\* Each resource is shut down once, in reverse registration order, whatever signals
\* arrive; an exit with code 0 has shut down all of them.
ClosedInReverse ==
    /\ IsPrefix(closed, Reverse(Resources))
    /\ exit = 0 => closed = Reverse(Resources)

\* The hub pings exactly while it has streams, also those opened during a shutdown,
\* so that neither an idle hub keeps a timer nor a stream goes without pings.
PingsWhileStreaming == heartbeat <=> clients # {}

\* A signal ends the process, even if a resource or a browser never answers.
SignalEndsProcess == step > 0 ~> exit # Running
=============================================================================
