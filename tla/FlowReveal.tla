----------------------------- MODULE FlowReveal -----------------------------
(***************************************************************************)
(* The live diagram of the browser, apps/web/src/ui/App.tsx: the stages of *)
(* the telemetry events are revealed one by one, a pause apart, by the     *)
(* loop of play(), which the event stream, the answers to orders and the   *)
(* loop's own timers all run into.                                         *)
(*                                                                         *)
(* The browser is single-threaded: an action is a callback, up to the next *)
(* await of the loop.  trail and current are set with revealedRef and hold *)
(* the same list and its last element, so that `revealed` stands for them. *)
(***************************************************************************)
EXTENDS Integers, Sequences, Functions

CONSTANT Canonical   \* CANONICAL: the telemetry types in the order of the journey

ASSUME CanonicalAssumption ==
    /\ Canonical \in Seq(Range(Canonical)) /\ IsInjective(Canonical)
    /\ "retrying" \in Range(Canonical)

Stages == Range(Canonical)
Place(t) == CHOOSE i \in DOMAIN Canonical : Canonical[i] = t

VARIABLES
    arrived,    \* arrivedRef
    revealed,   \* revealedRef, trail and current
    dirty,      \* dirtyRef
    playing,    \* playingRef
    mounted,    \* mountedRef
    timers,     \* pending timers of the loops that await sleep(), per duration
    late        \* history: the stages that arrived after a later one was revealed

vars == <<arrived, revealed, dirty, playing, mounted, timers, late>>

\* STEP_DELAY_MS after a reveal, 150 ms after the loop found nothing to reveal.
Durations == {"step", "poll"}

-----------------------------------------------------------------------------
(* play *)

\* Mutant of Unrevealed: the loop takes the last of them.
UnrevealedLast(arr, rev) ==
    LET places == {i \in DOMAIN Canonical : Canonical[i] \in arr \ Range(rev)}
    IN  {i \in places : \A j \in places : j <= i}

\* The places of the stages that arrived and are not revealed.
Unrevealed(arr, rev) == {i \in DOMAIN Canonical : Canonical[i] \in arr \ Range(rev)}

\* The loop from the top of its body to its next await, or to its end, with the
\* refs as the callback left them and the timers of the other loops.
Iterate(arr, rev, d, pending) ==
    /\ arrived' = arr
    /\ \/ \E i \in Unrevealed(arr, rev) :
          /\ mounted /\ \A j \in Unrevealed(arr, rev) : i <= j
          /\ revealed' = Append(rev, Canonical[i])
          /\ timers' = [pending EXCEPT !["step"] = @ + 1]
          /\ dirty' = d /\ playing' = TRUE
       \/ /\ mounted /\ Unrevealed(arr, rev) = {} /\ d
          /\ timers' = [pending EXCEPT !["poll"] = @ + 1]
          /\ dirty' = FALSE /\ playing' = TRUE /\ revealed' = rev
       \/ /\ ~mounted \/ (Unrevealed(arr, rev) = {} /\ ~d)
          /\ playing' = FALSE
          /\ timers' = pending /\ dirty' = d /\ revealed' = rev

\* Mutant of Play: a second loop starts while one plays.
PlayAgain(arr, rev, d) == Iterate(arr, rev, d, timers)

\* play(): a loop that plays goes on with the refs as they now are.
Play(arr, rev, d) ==
    \/ /\ playing
       /\ arrived' = arr /\ revealed' = rev /\ dirty' = d
       /\ UNCHANGED <<playing, timers>>
    \/ ~playing /\ Iterate(arr, rev, d, timers)

\* Mutant of Wake: the loop ends after an idle turn without looking again.
WakeEnds(duration) ==
    /\ timers[duration] > 0
    /\ \/ /\ duration = "poll" /\ playing' = FALSE
          /\ timers' = [timers EXCEPT ![duration] = @ - 1]
          /\ UNCHANGED <<arrived, revealed, dirty>>
       \/ /\ duration = "step"
          /\ Iterate(arrived, revealed, dirty, [timers EXCEPT ![duration] = @ - 1])
    /\ UNCHANGED <<mounted, late>>

\* A timer of the loop fires.
Wake(duration) ==
    /\ timers[duration] > 0
    /\ Iterate(arrived, revealed, dirty, [timers EXCEPT ![duration] = @ - 1])
    /\ UNCHANGED <<mounted, late>>

-----------------------------------------------------------------------------
(* What runs into it *)

\* onmessage: telemetry of any order, in any order and repeated, while the stream
\* of the mounted component is open.
Receive(t) ==
    /\ mounted
    /\ Play(arrived \cup {t}, revealed, TRUE)
    /\ late' = IF t \notin arrived /\ \E r \in Range(revealed) : Place(t) < Place(r)
               THEN late \cup {t} ELSE late
    /\ UNCHANGED mounted

\* onPlaced: a fresh journey, also when the answer finds the component unmounted or
\* the loop of the journey before asleep; an oversized order is known to retry.
OrderPlaced(oversized) ==
    /\ \/ oversized /\ Play({"retrying"}, << >>, TRUE)
       \/ /\ ~oversized
          /\ arrived' = {} /\ revealed' = << >> /\ dirty' = FALSE
          /\ UNCHANGED <<playing, timers>>
    /\ late' = {}
    /\ UNCHANGED mounted

\* The clean-up of the effects: the stream is closed, the loop ends when it wakes.
Unmount ==
    /\ mounted
    /\ mounted' = FALSE
    /\ UNCHANGED <<arrived, revealed, dirty, playing, timers, late>>

Init ==
    /\ arrived = {} /\ revealed = << >> /\ late = {}
    /\ dirty = FALSE /\ playing = FALSE /\ mounted = TRUE
    /\ timers = [duration \in Durations |-> 0]

Next ==
    \/ \E t \in Stages : Receive(t)
    \/ \E oversized \in BOOLEAN : OrderPlaced(oversized)
    \/ \E duration \in Durations : Wake(duration)
    \/ Unmount

Spec == Init /\ [][Next]_vars

\* The timers of the browser fire.
FairSpec == Spec /\ \A duration \in Durations : WF_vars(Wake(duration))

-----------------------------------------------------------------------------
(* Properties *)

\* The values the variables take.
TypeOK ==
    /\ arrived \subseteq Stages /\ late \subseteq Stages
    /\ revealed \in Seq(Stages)
    /\ dirty \in BOOLEAN /\ playing \in BOOLEAN /\ mounted \in BOOLEAN
    /\ timers \in [Durations -> Nat]

\* There is one loop and one timer while playing is set, and none otherwise: the
\* events, orders and timers that meet never start a second loop, which would
\* reveal two stages within one pause, nor leave the flag set without a loop.
OneLoop == timers["step"] + timers["poll"] = IF playing THEN 1 ELSE 0

\* App.tsx:10-15, as far as it is true: the journey shows each stage once, only
\* stages that arrived since the order, and an earlier one after a later one only
\* if it arrived too late for its place.
OutOfOrderIsLate ==
    /\ Range(revealed) \subseteq arrived /\ IsInjective(revealed)
    /\ \A i, j \in DOMAIN revealed :
          i < j /\ Place(revealed[j]) < Place(revealed[i]) => revealed[j] \in late

OrdersEnd == <>[][\A oversized \in BOOLEAN : ~OrderPlaced(oversized)]_vars
EventsEnd == <>[][\A t \in Stages : ~Receive(t)]_vars

\* No wake-up is lost: after the last order the diagram ends up with all that
\* arrived, although an event may find the loop asleep, just ended or resumed after
\* a reset; and after the last event the loop and its timers come to rest.
DiagramSettles ==
    OrdersEnd =>
        /\ <>[](mounted => Range(revealed) = arrived)
        /\ EventsEnd => <>[]~playing
=============================================================================
