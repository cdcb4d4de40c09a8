----------------------- MODULE ConsumerPipelineProofs -----------------------
(***************************************************************************)
(* Proofs about ConsumerPipeline, for every set of events, retry policy,   *)
(* filter capacity and bound on the faults.                                *)
(***************************************************************************)
EXTENDS ConsumerPipeline, FiniteSetTheorems, SequenceTheorems, TLAPS

\* A runner that awaits something awaits it for the message at the head.
BusyHasHead == \A c \in Consumers : pc[c] # "idle" => queue[c] # << >>

\* A copy of the head of c that c's commit does not remove.  It is on the retry
\* topic: schedule and requeue append there, behind the head.
Requeued(c) ==
    \E i \in DOMAIN queue["retry"] :
        /\ queue["retry"][i].event = Current(c).event
        /\ c = "retry" => i > 1

\* Commit last: an offset is committed only once its event has an outcome.
CommitIsSafe ==
    \A c \in Consumers :
        pc[c] = "commit" =>
            \/ handled[Current(c).event] > 0
            \/ dlq[Current(c).event] > 0
            \/ Requeued(c)

\* The retry count of a message never exceeds the failures of its event.
CountsAreEarned ==
    /\ \A c \in Consumers : \A i \in DOMAIN queue[c] :
          queue[c][i].count <= failures[queue[c][i].event]
    /\ \A c \in Consumers :
          pc[c] = "schedule" => Current(c).count < failures[Current(c).event]

\* A valid event on its way to the dead-letter topic has used its deliveries.
DlqIsEarned ==
    \A c \in Consumers :
        pc[c] = "deadLetter" /\ Current(c).event \notin Invalid =>
            failures[Current(c).event] >= Budget

IInv ==
    /\ TypeOK
    /\ BusyHasHead
    /\ SeenWereHandled
    /\ CommitIsSafe
    /\ NoLoss
    /\ CountsAreEarned
    /\ DlqIsEarned
    /\ RetriesBeforeDlq

-----------------------------------------------------------------------------
(* Facts about the operators *)

\* The head of a busy runner's partition is a message, at index 1.
LEMMA CurrentProperties ==
    ASSUME TypeOK, NEW c \in Consumers, queue[c] # << >>
    PROVE  /\ Current(c) \in Messages
           /\ 1 \in DOMAIN queue[c]
           /\ Current(c) = queue[c][1]
<1>1. queue[c] \in Seq(Messages)
  BY DEF TypeOK
<1> QED BY <1>1, HeadTailProperties DEF Current

\* Bumping a tally raises one entry by one and leaves the others alone.
LEMMA BumpProperties ==
    ASSUME NEW tally \in [Events -> Nat], NEW e \in Events
    PROVE  /\ Bump(tally, e) \in [Events -> Nat]
           /\ Bump(tally, e)[e] = tally[e] + 1
           /\ \A f \in Events : Bump(tally, e)[f] >= tally[f]
           /\ \A f \in Events : f # e => Bump(tally, e)[f] = tally[f]
BY DEF Bump

\* A rung of the ladder is a positive delay.
LEMMA NextDelayProperties ==
    ASSUME NEW prior \in Nat
    PROVE  NextDelay(prior) \in Nat \ {0}
<1>1. Delays \in Seq(Nat \ {0}) /\ Delays # << >>
  BY PolicyAssumption
<1>2. Len(Delays) \in Nat \ {0}
  BY <1>1, EmptySeq
<1>3. \A i \in 1..Len(Delays) : Delays[i] \in Nat \ {0}
  BY <1>1
<1>4. CASE prior < Len(Delays)
  BY <1>2, <1>3, <1>4 DEF NextDelay
<1>5. CASE ~(prior < Len(Delays))
  BY <1>2, <1>3, <1>5 DEF NextDelay
<1> QED BY <1>4, <1>5

\* The message a schedule publishes.
LEMMA ScheduledProperties ==
    ASSUME NEW m \in Messages
    PROVE  /\ Scheduled(m) \in Messages
           /\ Scheduled(m).event = m.event
           /\ Scheduled(m).count = m.count + 1
<1>1. NextDelay(m.count) \in Nat
  BY NextDelayProperties DEF Messages
<1> QED BY <1>1 DEF Scheduled, Messages

\* Appending to a partition keeps what is there, the heads included.
LEMMA AppendKeeps ==
    ASSUME TypeOK, NEW c \in Consumers, NEW m \in Messages,
           queue' = [queue EXCEPT ![c] = Append(@, m)]
    PROVE  /\ queue' \in [Consumers -> Seq(Messages)]
           /\ \A d \in Consumers : \A i \in DOMAIN queue[d] :
                 i \in DOMAIN queue'[d] /\ queue'[d][i] = queue[d][i]
           /\ \A d \in Consumers : queue[d] # << >> =>
                 queue'[d] # << >> /\ Current(d)' = Current(d)
           /\ Len(queue[c]) + 1 \in DOMAIN queue'[c]
           /\ queue'[c][Len(queue[c]) + 1] = m
           /\ \A d \in Consumers : \A i \in DOMAIN queue'[d] :
                 \/ i \in DOMAIN queue[d] /\ queue'[d][i] = queue[d][i]
                 \/ d = c /\ queue'[d][i] = m
<1>1. /\ queue \in [Consumers -> Seq(Messages)]
      /\ queue[c] \in Seq(Messages)
      /\ Len(queue[c]) \in Nat
  BY DEF TypeOK
<1>2. /\ queue'[c] = Append(queue[c], m)
      /\ \A d \in Consumers : d # c => queue'[d] = queue[d]
  BY <1>1
<1>3. /\ queue'[c] \in Seq(Messages)
      /\ Len(queue'[c]) = Len(queue[c]) + 1
      /\ queue'[c][Len(queue[c]) + 1] = m
      /\ \A i \in 1..Len(queue[c]) : queue'[c][i] = queue[c][i]
  BY <1>1, <1>2, AppendProperties
<1>4. DOMAIN queue'[c] = 1..(Len(queue[c]) + 1) /\ DOMAIN queue[c] = 1..Len(queue[c])
  BY <1>1, <1>3
<1>5. queue' \in [Consumers -> Seq(Messages)]
  BY <1>1, <1>3
<1>6. \A d \in Consumers : \A i \in DOMAIN queue[d] :
         i \in DOMAIN queue'[d] /\ queue'[d][i] = queue[d][i]
  BY <1>1, <1>2, <1>3, <1>4
<1>7. ASSUME NEW d \in Consumers, queue[d] # << >>
      PROVE  queue'[d] # << >> /\ Current(d)' = Current(d)
  <2>1. 1 \in DOMAIN queue[d] /\ Current(d) = queue[d][1]
    BY <1>7, CurrentProperties
  <2>2. 1 \in DOMAIN queue'[d] /\ queue'[d][1] = queue[d][1]
    BY <1>6, <2>1
  <2>3. queue'[d] \in Seq(Messages)
    BY <1>5
  <2>4. Head(queue'[d]) = queue'[d][1]
    BY <2>2, <2>3
  <2>5. queue'[d] # << >>
    BY <2>2, <2>3
  <2> QED BY <2>1, <2>2, <2>4, <2>5 DEF Current
<1>8. \A d \in Consumers : \A i \in DOMAIN queue'[d] :
         \/ i \in DOMAIN queue[d] /\ queue'[d][i] = queue[d][i]
         \/ d = c /\ queue'[d][i] = m
  BY <1>1, <1>2, <1>3, <1>4
<1> QED BY <1>3, <1>4, <1>5, <1>6, <1>7, <1>8

\* A commit removes the head of one partition and shifts what is behind it.
LEMMA CommitKeeps ==
    ASSUME TypeOK, NEW c \in Consumers, queue[c] # << >>,
           queue' = [queue EXCEPT ![c] = Tail(@)]
    PROVE  /\ queue' \in [Consumers -> Seq(Messages)]
           /\ \A d \in Consumers : d # c => queue'[d] = queue[d]
           /\ \A i \in DOMAIN queue[c] : i > 1 =>
                 i - 1 \in DOMAIN queue'[c] /\ queue'[c][i - 1] = queue[c][i]
           /\ \A i \in DOMAIN queue'[c] :
                 i + 1 \in DOMAIN queue[c] /\ queue'[c][i] = queue[c][i + 1]
<1>1. /\ queue \in [Consumers -> Seq(Messages)]
      /\ queue[c] \in Seq(Messages)
      /\ Len(queue[c]) \in Nat
  BY DEF TypeOK
<1>2. /\ queue'[c] = Tail(queue[c])
      /\ \A d \in Consumers : d # c => queue'[d] = queue[d]
  BY <1>1
<1>3. /\ queue'[c] \in Seq(Messages)
      /\ Len(queue'[c]) = Len(queue[c]) - 1
      /\ \A i \in 1..Len(queue'[c]) : queue'[c][i] = queue[c][i + 1]
  BY <1>1, <1>2, HeadTailProperties
<1>4. DOMAIN queue'[c] = 1..Len(queue'[c]) /\ DOMAIN queue[c] = 1..Len(queue[c])
  BY <1>1, <1>3
<1>5. queue' \in [Consumers -> Seq(Messages)]
  BY <1>1, <1>2, <1>3
<1> QED BY <1>1, <1>2, <1>3, <1>4, <1>5

\* The clock changes only the ticks a parked message still waits.
LEMMA TickKeeps ==
    ASSUME TypeOK, Tick
    PROVE  /\ queue' \in [Consumers -> Seq(Messages)]
           /\ \A d \in Consumers :
                 /\ DOMAIN queue'[d] = DOMAIN queue[d]
                 /\ queue[d] # << >> => queue'[d] # << >>
                 /\ \A i \in DOMAIN queue[d] :
                       /\ queue'[d][i].event = queue[d][i].event
                       /\ queue'[d][i].count = queue[d][i].count
<1> DEFINE retry == queue["retry"]
           older == [i \in DOMAIN retry |-> Sooner(retry[i])]
<1>1. /\ queue \in [Consumers -> Seq(Messages)]
      /\ "retry" \in Consumers
      /\ retry \in Seq(Messages)
  BY DEF TypeOK, Consumers
<1>2. queue' = [queue EXCEPT !["retry"] = older]
  BY DEF Tick
<1>3. /\ queue'["retry"] = older
      /\ \A d \in Consumers : d # "retry" => queue'[d] = queue[d]
  BY <1>1, <1>2
<1>4. \A m \in Messages :
         Sooner(m) \in Messages /\ Sooner(m).event = m.event /\ Sooner(m).count = m.count
  BY DEF Messages, Sooner
<1>5. \A i \in DOMAIN retry :
         older[i] \in Messages /\ older[i].event = retry[i].event /\ older[i].count = retry[i].count
  BY <1>1, <1>4
<1>6. Len(retry) \in Nat /\ DOMAIN retry = 1..Len(retry)
  BY <1>1
<1>7. older \in Seq(Messages)
  <2>1. older \in [1..Len(retry) -> Messages]
    BY <1>5, <1>6
  <2> HIDE DEF older
  <2> QED BY <1>6, <2>1
<1>8. retry # << >> => older # << >>
  <2>1. retry # << >> => 1 \in DOMAIN retry
    BY <1>1
  <2>2. 1 \notin DOMAIN << >>
    OBVIOUS
  <2> QED BY <2>1, <2>2
<1>9. queue' \in [Consumers -> Seq(Messages)]
  BY <1>1, <1>2, <1>7
<1> QED BY <1>1, <1>3, <1>5, <1>8, <1>9

\* What a produce leaves behind: a copy on the retry topic, or a dead letter.
LEMMA ProduceOutcome ==
    ASSUME TypeOK, BusyHasHead, NEW c \in Consumers, Produce(c)
    PROVE  \/ /\ pc[c] \in {"requeue", "schedule"}
              /\ \E m \in Messages :
                    /\ queue' = [queue EXCEPT !["retry"] = Append(@, m)]
                    /\ m.event = Current(c).event
                    /\ \/ m.count = Current(c).count
                       \/ pc[c] = "schedule" /\ m.count = Current(c).count + 1
              /\ dlq' = dlq
              /\ hops' \in [Events -> Nat]
           \/ /\ pc[c] = "deadLetter"
              /\ dlq' = Bump(dlq, Current(c).event)
              /\ UNCHANGED <<queue, hops>>
<1>1. Current(c) \in Messages
  <2>1. queue[c] # << >>
    BY DEF BusyHasHead, Produce
  <2> QED BY <2>1, CurrentProperties
<1>2. Current(c).event \in Events /\ hops \in [Events -> Nat]
  BY <1>1 DEF Messages, TypeOK
<1>3. CASE pc[c] = "requeue"
  <2>1. hops' = Bump(hops, Current(c).event) /\ dlq' = dlq /\ Append1(Current(c))
    BY <1>3 DEF Produce
  <2>2. hops' \in [Events -> Nat]
    BY <1>2, <2>1, BumpProperties
  <2> QED BY <1>1, <1>3, <2>1, <2>2 DEF Append1
<1>4. CASE pc[c] = "schedule"
  <2>1. hops' = hops /\ dlq' = dlq /\ Append1(Scheduled(Current(c)))
    BY <1>4 DEF Produce
  <2>2. /\ Scheduled(Current(c)) \in Messages
        /\ Scheduled(Current(c)).event = Current(c).event
        /\ Scheduled(Current(c)).count = Current(c).count + 1
    BY <1>1, ScheduledProperties
  <2> QED BY <1>2, <1>4, <2>1, <2>2 DEF Append1
<1>5. CASE pc[c] = "deadLetter"
  BY <1>5 DEF Produce
<1> QED BY <1>3, <1>4, <1>5 DEF Produce

\* The steps of Next that commit no offset.
Holds ==
    \/ \E e \in Events : Publish(e)
    \/ Tick \/ Park \/ Restart
    \/ \E c \in Consumers :
          \/ ReceiveInvalid(c) \/ ReceiveDuplicate(c) \/ Receive(c)
          \/ HandlerSucceeds(c) \/ HandlerFails(c) \/ Produced(c)
          \/ Rejects(c) \/ AckLost(c)

\* Every step commits an offset or does not.
LEMMA NextCases == Next <=> Holds \/ \E c \in Consumers : Commit(c)
BY DEF Next, Step, Holds

\* Without a commit every message keeps its partition and its place.
LEMMA MessagesStay ==
    ASSUME TypeOK, BusyHasHead, Holds
    PROVE  /\ queue' \in [Consumers -> Seq(Messages)]
           /\ \A d \in Consumers :
                 /\ \A i \in DOMAIN queue[d] :
                       /\ i \in DOMAIN queue'[d]
                       /\ queue'[d][i].event = queue[d][i].event
                       /\ queue'[d][i].count = queue[d][i].count
                 /\ queue[d] # << >> =>
                       /\ queue'[d] # << >>
                       /\ Current(d)'.event = Current(d).event
                       /\ Current(d)'.count = Current(d).count
<1> DEFINE Stay ==
      /\ queue' \in [Consumers -> Seq(Messages)]
      /\ \A d \in Consumers : \A i \in DOMAIN queue[d] :
            /\ i \in DOMAIN queue'[d]
            /\ queue'[d][i].event = queue[d][i].event
            /\ queue'[d][i].count = queue[d][i].count
<1>1. Stay
  <2>0. queue \in [Consumers -> Seq(Messages)]
    BY DEF TypeOK
  <2>1. CASE queue' = queue
    BY <2>0, <2>1
  <2>2. CASE \E c \in Consumers, m \in Messages : queue' = [queue EXCEPT ![c] = Append(@, m)]
    BY <2>2, AppendKeeps
  <2>3. ASSUME NEW e \in Events, Publish(e)
        PROVE  \E c \in Consumers, m \in Messages : queue' = [queue EXCEPT ![c] = Append(@, m)]
    <3>1. [event |-> e, count |-> 0, wait |-> 0] \in Messages
      BY DEF Messages
    <3>2. PICK c \in {"source"} \cup (IF Replay THEN {"retry"} ELSE {}) :
            queue' = [queue EXCEPT ![c] = Append(@, [event |-> e, count |-> 0, wait |-> 0])]
      BY <2>3 DEF Publish
    <3>3. c \in Consumers
      BY <3>2 DEF Consumers
    <3> QED BY <3>1, <3>2, <3>3
  <2>4. CASE Tick
    BY <2>4, TickKeeps
  <2>5. CASE Park \/ Restart
    BY <2>1, <2>5 DEF Park, Restart
  <2>6. ASSUME NEW c \in Consumers,
               ReceiveInvalid(c) \/ ReceiveDuplicate(c) \/ Receive(c)
               \/ HandlerSucceeds(c) \/ HandlerFails(c) \/ Rejects(c)
        PROVE  queue' = queue
    BY <2>6 DEF ReceiveInvalid, ReceiveDuplicate, Receive, HandlerSucceeds, HandlerFails, Rejects
  <2>7. ASSUME NEW c \in Consumers, Produced(c) \/ AckLost(c)
        PROVE  \/ queue' = queue
               \/ \E d \in Consumers, m \in Messages : queue' = [queue EXCEPT ![d] = Append(@, m)]
    <3>1. Produce(c) /\ "retry" \in Consumers
      BY <2>7 DEF Produced, AckLost, Consumers
    <3> QED BY <3>1, ProduceOutcome
  <2> HIDE DEF Stay
  <2> QED BY <2>1, <2>2, <2>3, <2>4, <2>5, <2>6, <2>7 DEF Holds
<1>2. ASSUME NEW d \in Consumers, queue[d] # << >>
      PROVE  /\ queue'[d] # << >>
             /\ Current(d)'.event = Current(d).event
             /\ Current(d)'.count = Current(d).count
  <2>1. 1 \in DOMAIN queue[d] /\ Current(d) = queue[d][1]
    BY <1>2, CurrentProperties
  <2>2. 1 \in DOMAIN queue'[d] /\ queue'[d] \in Seq(Messages)
    BY <1>1, <2>1
  <2>3. queue'[d] # << >> /\ Current(d)' = queue'[d][1]
    BY <2>2 DEF Current
  <2> QED BY <1>1, <2>1, <2>3
<1> QED BY <1>1, <1>2

\* Marking an event keeps the filter within its capacity and adds only that event.
LEMMA MarkProperties ==
    ASSUME seen \in Seq(Events), Len(seen) <= FilterSize, NEW e \in Events
    PROVE  /\ Mark(e) \in Seq(Events)
           /\ Len(Mark(e)) <= FilterSize
           /\ Range(Mark(e)) \subseteq Range(seen) \cup {e}
<1>0. FilterSize \in Nat \ {0} /\ Len(seen) \in Nat
  BY PolicyAssumption
<1>1. CASE IsDuplicate(e)
  BY <1>1 DEF Mark
<1>2. CASE ~IsDuplicate(e) /\ Len(seen) < FilterSize
  <2>1. Mark(e) = Append(seen, e)
    BY <1>2 DEF Mark
  <2>2. \A i \in DOMAIN Mark(e) : Mark(e)[i] = e \/ Mark(e)[i] \in Range(seen)
    <3>1. DOMAIN Mark(e) = 1..(Len(seen) + 1) /\ DOMAIN seen = 1..Len(seen)
      BY <2>1
    <3>2. Mark(e)[Len(seen) + 1] = e /\ \A i \in 1..Len(seen) : Mark(e)[i] = seen[i]
      BY <2>1, AppendProperties
    <3>3. \A i \in 1..Len(seen) : seen[i] \in Range(seen)
      BY <3>1 DEF Range
    <3> QED BY <1>0, <3>1, <3>2, <3>3
  <2>3. Range(Mark(e)) \subseteq Range(seen) \cup {e}
    BY <2>2 DEF Range
  <2> QED BY <1>0, <1>2, <2>1, <2>3, AppendProperties
<1>3. CASE ~IsDuplicate(e) /\ ~(Len(seen) < FilterSize)
  <2>1. Mark(e) = Append(Tail(seen), e) /\ seen # << >> /\ Len(seen) = FilterSize
    BY <1>0, <1>3 DEF Mark
  <2>2. /\ Tail(seen) \in Seq(Events)
        /\ Len(Tail(seen)) = Len(seen) - 1
        /\ \A i \in 1..Len(Tail(seen)) : Tail(seen)[i] = seen[i + 1]
    BY <2>1, HeadTailProperties
  <2>3. \A i \in DOMAIN Append(Tail(seen), e) :
           \/ Append(Tail(seen), e)[i] = e
           \/ i + 1 \in DOMAIN seen /\ Append(Tail(seen), e)[i] = seen[i + 1]
    BY <1>0, <2>2, AppendProperties
  <2>4. Range(Append(Tail(seen), e)) \subseteq Range(seen) \cup {e}
    BY <2>3 DEF Range
  <2> QED BY <1>0, <2>1, <2>2, <2>4, AppendProperties
<1> QED BY <1>1, <1>2, <1>3

-----------------------------------------------------------------------------
(* The inductive step, one lemma per group of conjuncts *)

\* Type correctness is preserved.
LEMMA TypeStep ==
    ASSUME TypeOK, BusyHasHead, Next
    PROVE  TypeOK'
<1>0. /\ queue \in [Consumers -> Seq(Messages)] /\ pc \in [Consumers -> PCs]
      /\ seen \in Seq(Events) /\ Len(seen) <= FilterSize /\ dlqTotal \in Nat
      /\ dlq \in [Events -> Nat] /\ published \in [Events -> Nat]
      /\ redelivered \in [Events -> Nat] /\ handled \in [Events -> Nat]
      /\ failures \in [Events -> Nat] /\ hops \in [Events -> Nat]
  BY DEF TypeOK
<1>1. \A c \in Consumers, label \in PCs : GoTo(c, label) => pc' \in [Consumers -> PCs]
  BY <1>0 DEF GoTo
<1>2. \A c \in Consumers : pc[c] # "idle" => Current(c).event \in Events
  BY CurrentProperties DEF BusyHasHead, Messages
<1>3. Holds => queue' \in [Consumers -> Seq(Messages)]
  BY MessagesStay
<1>4. "retry" \in Consumers /\ {"idle", "park", "requeue", "handle", "schedule", "deadLetter", "commit"} = PCs
  BY DEF Consumers, PCs
<1>5. CASE \E e \in Events : Publish(e)
  <2>1. PICK e \in Events : Publish(e)
    BY <1>5
  <2>2. published' \in [Events -> Nat]
    BY <1>0, <2>1, BumpProperties DEF Publish
  <2> QED BY <1>0, <1>3, <1>5, <2>1, <2>2 DEF Holds, Publish, TypeOK
<1>6. CASE Tick
  <2>1. pc' \in [Consumers -> PCs]
    BY <1>0, <1>4, <1>6 DEF Tick
  <2> QED BY <1>0, <1>3, <1>6, <2>1 DEF Holds, Tick, TypeOK, history
<1>7. CASE Park
  BY <1>0, <1>1, <1>4, <1>7 DEF Park, TypeOK, history
<1>8. CASE Restart
  <2>1. \A e \in Events : Cardinality(InFlight(e)) \in Nat
    <3>1. IsFiniteSet(Consumers)
      <4>1. IsFiniteSet({"source"}) /\ IsFiniteSet({"retry"})
        BY FS_Singleton
      <4>2. Consumers = {"source"} \cup {"retry"}
        BY DEF Consumers
      <4> QED BY <4>1, <4>2, FS_Union
    <3>2. \A e \in Events : InFlight(e) \subseteq Consumers
      BY DEF InFlight
    <3> QED BY <3>1, <3>2, FS_Subset, FS_CardinalityType
  <2>2. redelivered' \in [Events -> Nat]
    BY <1>0, <1>8, <2>1 DEF Restart
  <2>3. pc' \in [Consumers -> PCs] /\ seen' = << >> /\ dlqTotal' = 0
    BY <1>4, <1>8 DEF Restart
  <2>4. seen' \in Seq(Events) /\ Len(seen') <= FilterSize
    BY <2>3, EmptySeq, PolicyAssumption
  <2> QED BY <1>0, <1>8, <2>2, <2>3, <2>4 DEF Restart, TypeOK
<1>9. ASSUME NEW c \in Consumers, ReceiveInvalid(c)
      PROVE  TypeOK'
  BY <1>0, <1>1, <1>4, <1>9 DEF ReceiveInvalid, TypeOK, history
<1>10. ASSUME NEW c \in Consumers, ReceiveDuplicate(c) \/ Receive(c)
       PROVE  TypeOK'
  BY <1>0, <1>1, <1>4, <1>10 DEF ReceiveDuplicate, Receive, TypeOK, history
<1>11. ASSUME NEW c \in Consumers, HandlerSucceeds(c)
       PROVE  TypeOK'
  <2>1. handled' \in [Events -> Nat] /\ seen' \in Seq(Events) /\ Len(seen') <= FilterSize
    BY <1>0, <1>2, <1>11, BumpProperties, MarkProperties DEF HandlerSucceeds
  <2> QED BY <1>0, <1>1, <1>4, <1>11, <2>1 DEF HandlerSucceeds, TypeOK
<1>12. ASSUME NEW c \in Consumers, HandlerFails(c)
       PROVE  TypeOK'
  <2>1. failures' \in [Events -> Nat]
    BY <1>0, <1>2, <1>12, BumpProperties DEF HandlerFails
  <2>2. pc' \in [Consumers -> PCs] /\ dlqTotal' \in Nat
    BY <1>0, <1>1, <1>4, <1>12 DEF HandlerFails
  <2> QED BY <1>0, <1>12, <2>1, <2>2 DEF HandlerFails, TypeOK
<1>13. ASSUME NEW c \in Consumers, Produced(c) \/ AckLost(c)
       PROVE  TypeOK'
  <2>1. Produce(c) /\ pc[c] # "idle"
    BY <1>13 DEF Produced, AckLost, Produce
  <2>0. Current(c).event \in Events
    BY <1>2, <2>1
  <2>2. dlq' \in [Events -> Nat] /\ hops' \in [Events -> Nat]
    <3>1. dlq' = dlq \/ dlq' = Bump(dlq, Current(c).event)
      BY <2>1 DEF Produce
    <3>2. hops' = hops \/ hops' = Bump(hops, Current(c).event)
      BY <2>1 DEF Produce
    <3>3. /\ Bump(dlq, Current(c).event) \in [Events -> Nat]
          /\ Bump(hops, Current(c).event) \in [Events -> Nat]
      BY <1>0, <2>0, BumpProperties
    <3> QED BY <1>0, <3>1, <3>2, <3>3
  <2>3. redelivered' = redelivered \/ redelivered' = Bump(redelivered, Current(c).event)
    BY <1>13 DEF Produced, AckLost
  <2>4. redelivered' \in [Events -> Nat]
    <3>1. Bump(redelivered, Current(c).event) \in [Events -> Nat]
      BY <1>0, <2>0, BumpProperties
    <3> QED BY <1>0, <2>3, <3>1
  <2>5. pc' \in [Consumers -> PCs]
    BY <1>1, <1>4, <1>13 DEF Produced, AckLost
  <2> QED BY <1>0, <1>3, <1>13, <2>2, <2>4, <2>5 DEF Holds, Produced, AckLost, TypeOK
<1>14. ASSUME NEW c \in Consumers, Commit(c)
       PROVE  TypeOK'
  <2>1. queue' \in [Consumers -> Seq(Messages)]
    BY <1>14, CommitKeeps DEF Commit, BusyHasHead
  <2> QED BY <1>0, <1>1, <1>4, <1>14, <2>1 DEF Commit, TypeOK, history
<1>15. ASSUME NEW c \in Consumers, Rejects(c)
       PROVE  TypeOK'
  <2>1. redelivered' \in [Events -> Nat]
    BY <1>0, <1>2, <1>15, BumpProperties DEF Rejects
  <2> QED BY <1>0, <1>1, <1>4, <1>15, <2>1 DEF Rejects, TypeOK
<1> QED BY <1>5, <1>6, <1>7, <1>8, <1>9, <1>10, <1>11, <1>12, <1>13, <1>14, <1>15
        DEF Next, Step

\* The tallies that the invariants compare only grow.
LEMMA TalliesGrow ==
    ASSUME TypeOK, BusyHasHead, Next
    PROVE  \A e \in Events :
              /\ handled'[e] >= handled[e]
              /\ dlq'[e] >= dlq[e]
              /\ failures'[e] >= failures[e]
<1>0. /\ dlq \in [Events -> Nat] /\ handled \in [Events -> Nat] /\ failures \in [Events -> Nat]
  BY DEF TypeOK
<1>1. \A c \in Consumers : pc[c] # "idle" => Current(c).event \in Events
  BY CurrentProperties DEF BusyHasHead, Messages
<1>2. handled' = handled \/ \E e \in Events : handled' = Bump(handled, e)
  BY <1>1 DEF Next, Step, Publish, Tick, Park, Restart, ReceiveInvalid, ReceiveDuplicate, Receive,
     HandlerSucceeds, HandlerFails, Produced, Commit, Rejects, AckLost, history
<1>3. failures' = failures \/ \E e \in Events : failures' = Bump(failures, e)
  BY <1>1 DEF Next, Step, Publish, Tick, Park, Restart, ReceiveInvalid, ReceiveDuplicate, Receive,
     HandlerSucceeds, HandlerFails, Produced, Commit, Rejects, AckLost, history
<1>4. dlq' = dlq \/ \E e \in Events : dlq' = Bump(dlq, e)
  BY <1>1 DEF Next, Step, Publish, Tick, Park, Restart, ReceiveInvalid, ReceiveDuplicate, Receive,
     HandlerSucceeds, HandlerFails, Produced, Produce, Commit, Rejects, AckLost, history
<1> QED BY <1>0, <1>2, <1>3, <1>4, BumpProperties

\* Every await starts at the head of a partition, which only a commit removes.
LEMMA BusyStep ==
    ASSUME TypeOK, BusyHasHead, Next
    PROVE  BusyHasHead'
<1>0. pc \in [Consumers -> PCs]
  BY DEF TypeOK
<1>1. CASE Holds
  <2>1. \A c \in Consumers : queue[c] # << >> => queue'[c] # << >>
    BY <1>1, MessagesStay
  <2>2. \A c \in Consumers : pc'[c] # "idle" => pc[c] # "idle" \/ queue[c] # << >>
    BY <1>0, <1>1 DEF Holds, Publish, Tick, Park, Restart, ReceiveInvalid, ReceiveDuplicate, Receive,
       HandlerSucceeds, HandlerFails, Produced, Produce, Rejects, AckLost, GoTo
  <2> QED BY <2>1, <2>2 DEF BusyHasHead
<1>2. ASSUME NEW c \in Consumers, Commit(c)
      PROVE  BusyHasHead'
  <2>1. pc'[c] = "idle" /\ \A d \in Consumers : d # c => pc'[d] = pc[d]
    BY <1>0, <1>2 DEF Commit, GoTo
  <2>2. \A d \in Consumers : d # c => queue'[d] = queue[d]
    BY <1>2, CommitKeeps DEF Commit, BusyHasHead
  <2> QED BY <2>1, <2>2 DEF BusyHasHead
<1> QED BY <1>1, <1>2, NextCases

\* The filter gains an event only in the step that counts its handler's completion.
LEMMA SeenStep ==
    ASSUME TypeOK, BusyHasHead, SeenWereHandled, Next
    PROVE  SeenWereHandled'
<1>0. /\ handled \in [Events -> Nat] /\ handled' \in [Events -> Nat]
      /\ seen \in Seq(Events) /\ Len(seen) <= FilterSize
  BY TypeStep DEF TypeOK
<1>1. \A e \in Range(seen) : e \in Events /\ handled[e] > 0
  BY <1>0 DEF Range, SeenWereHandled
<1>2. \A e \in Range(seen) : handled'[e] > 0
  BY <1>0, <1>1, TalliesGrow
<1>3. CASE seen' = seen
  BY <1>2, <1>3 DEF SeenWereHandled
<1>4. CASE seen' = << >>
  <2>1. Range(<< >>) = {}
    BY DEF Range
  <2> QED BY <1>4, <2>1 DEF SeenWereHandled
<1>5. ASSUME NEW c \in Consumers, HandlerSucceeds(c)
      PROVE  SeenWereHandled'
  <2>1. Current(c).event \in Events
    BY <1>5, CurrentProperties DEF HandlerSucceeds, BusyHasHead, Messages
  <2>2. handled'[Current(c).event] = handled[Current(c).event] + 1
    BY <1>0, <1>5, <2>1, BumpProperties DEF HandlerSucceeds
  <2>3. Range(seen') \subseteq Range(seen) \cup {Current(c).event}
    BY <1>0, <1>5, <2>1, MarkProperties DEF HandlerSucceeds
  <2> QED BY <1>0, <1>2, <2>1, <2>2, <2>3 DEF SeenWereHandled
<1>6. seen' = seen \/ seen' = << >> \/ \E c \in Consumers : HandlerSucceeds(c)
  BY DEF Next, Step, Publish, Tick, Park, Restart, ReceiveInvalid, ReceiveDuplicate, Receive,
     HandlerFails, Produced, Commit, Rejects, AckLost, history
<1> QED BY <1>3, <1>4, <1>5, <1>6

\* The three ways to the commit: skipped, handled, or written elsewhere.
LEMMA CommitComesFrom ==
    ASSUME TypeOK, Next, NEW c \in Consumers, pc'[c] = "commit"
    PROVE  pc[c] = "commit" \/ ReceiveDuplicate(c) \/ HandlerSucceeds(c) \/ Produced(c)
<1>0. pc \in [Consumers -> PCs]
  BY DEF TypeOK
<1>1. CASE \E e \in Events : Publish(e)
  BY <1>1 DEF Publish
<1>2. CASE Tick \/ Park \/ Restart
  BY <1>0, <1>2 DEF Tick, Park, Restart, GoTo
<1>3. ASSUME NEW d \in Consumers, d # c, Step(d) \/ Rejects(d) \/ AckLost(d)
      PROVE  pc'[c] = pc[c]
  BY <1>0, <1>3 DEF Step, ReceiveInvalid, ReceiveDuplicate, Receive, HandlerSucceeds,
     HandlerFails, Produced, Commit, Rejects, AckLost, GoTo
<1>4. CASE ReceiveInvalid(c) \/ Receive(c) \/ HandlerFails(c) \/ Commit(c) \/ Rejects(c) \/ AckLost(c)
  BY <1>0, <1>4 DEF ReceiveInvalid, Receive, HandlerFails, Commit, Rejects, AckLost, GoTo
<1> QED BY <1>1, <1>2, <1>3, <1>4 DEF Next, Step

\* After an acknowledged produce the offset may be committed.
LEMMA ProducedIsSafe ==
    ASSUME TypeOK, BusyHasHead, Next, NEW c \in Consumers, Produced(c)
    PROVE  dlq'[Current(c)'.event] > 0 \/ Requeued(c)'
<1>0. dlq \in [Events -> Nat] /\ "retry" \in Consumers
  BY DEF TypeOK, Consumers
<1>1. Produce(c) /\ queue[c] # << >>
  BY DEF Produced, Produce, BusyHasHead
<1>2. Current(c).event \in Events
  BY <1>1, CurrentProperties DEF Messages
<1>3. CASE dlq' = Bump(dlq, Current(c).event) /\ queue' = queue
  <2>1. dlq'[Current(c).event] = dlq[Current(c).event] + 1
    BY <1>0, <1>2, <1>3, BumpProperties
  <2>2. Current(c)' = Current(c)
    BY <1>3 DEF Current
  <2> QED BY <1>0, <1>2, <2>1, <2>2
<1>4. ASSUME NEW m \in Messages, m.event = Current(c).event,
             queue' = [queue EXCEPT !["retry"] = Append(@, m)]
      PROVE  Requeued(c)'
  <2>1. /\ Current(c)' = Current(c)
        /\ Len(queue["retry"]) + 1 \in DOMAIN queue'["retry"]
        /\ queue'["retry"][Len(queue["retry"]) + 1] = m
    BY <1>0, <1>1, <1>4, AppendKeeps
  <2>2. c = "retry" => Len(queue["retry"]) + 1 > 1
    <3>1. queue["retry"] \in Seq(Messages)
      BY <1>0 DEF TypeOK
    <3> QED BY <1>1, <3>1, EmptySeq
  <2> QED BY <1>4, <2>1, <2>2 DEF Requeued
<1> QED BY <1>1, <1>3, <1>4, ProduceOutcome

\* CommitIsSafe is preserved: by the commit of the retry runner because its own
\* witness is behind the head, so that it survives its removal.
LEMMA CommitSafeStep ==
    ASSUME TypeOK, BusyHasHead, SeenWereHandled, CommitIsSafe, Next
    PROVE  CommitIsSafe'
<1>0. /\ handled \in [Events -> Nat] /\ handled' \in [Events -> Nat]
      /\ dlq \in [Events -> Nat] /\ dlq' \in [Events -> Nat]
      /\ pc \in [Consumers -> PCs] /\ "retry" \in Consumers
      /\ queue \in [Consumers -> Seq(Messages)]
  BY TypeStep DEF TypeOK, Consumers
<1>1. \A c \in Consumers : pc[c] # "idle" => Current(c).event \in Events
  BY CurrentProperties DEF BusyHasHead, Messages
<1>2. ASSUME Holds, NEW c \in Consumers, pc'[c] = "commit", queue[c] # << >>
      PROVE  \/ handled'[Current(c)'.event] > 0
             \/ dlq'[Current(c)'.event] > 0
             \/ Requeued(c)'
  <2>1. Current(c)'.event = Current(c).event /\ Current(c).event \in Events
    BY <1>2, MessagesStay, CurrentProperties DEF Messages
  <2>2. Requeued(c) => Requeued(c)'
    <3>1. \A i \in DOMAIN queue["retry"] :
             i \in DOMAIN queue'["retry"] /\ queue'["retry"][i].event = queue["retry"][i].event
      BY <1>0, <1>2, MessagesStay
    <3> QED BY <2>1, <3>1 DEF Requeued
  <2>3. CASE pc[c] = "commit"
    BY <1>0, <2>1, <2>2, <2>3, TalliesGrow DEF CommitIsSafe
  <2>4. CASE ReceiveDuplicate(c)
    <3>1. handled[Current(c).event] > 0
      BY <2>4 DEF ReceiveDuplicate, IsDuplicate, SeenWereHandled
    <3> QED BY <1>0, <2>1, <3>1, TalliesGrow
  <2>5. CASE HandlerSucceeds(c)
    <3>1. handled'[Current(c).event] = handled[Current(c).event] + 1
      BY <1>0, <2>1, <2>5, BumpProperties DEF HandlerSucceeds
    <3> QED BY <1>0, <2>1, <3>1
  <2>6. CASE Produced(c)
    BY <2>6, ProducedIsSafe
  <2> QED BY <1>2, <2>3, <2>4, <2>5, <2>6, CommitComesFrom
<1>3. CASE Holds
  <2>1. \A c \in Consumers : pc'[c] = "commit" => queue[c] # << >>
    BY CommitComesFrom DEF BusyHasHead, ReceiveDuplicate, HandlerSucceeds, Produced, Produce
  <2> QED BY <1>2, <1>3, <2>1 DEF CommitIsSafe
<1>4. ASSUME NEW c \in Consumers, Commit(c), NEW d \in Consumers, pc'[d] = "commit"
      PROVE  \/ handled'[Current(d)'.event] > 0
             \/ dlq'[Current(d)'.event] > 0
             \/ Requeued(d)'
  <2>1. /\ d # c /\ pc[d] = "commit" /\ pc[c] = "commit"
        /\ queue[c] # << >> /\ queue[d] # << >>
        /\ handled' = handled /\ dlq' = dlq
    BY <1>0, <1>4 DEF Commit, GoTo, BusyHasHead, history
  <2>2. /\ queue'[d] = queue[d]
        /\ \A i \in DOMAIN queue[c] : i > 1 =>
              i - 1 \in DOMAIN queue'[c] /\ queue'[c][i - 1] = queue[c][i]
    BY <1>4, <2>1, CommitKeeps DEF Commit
  <2>3. Current(d)' = Current(d) /\ Current(d).event \in Events
    BY <1>1, <2>1, <2>2 DEF Current
  <2>4. CASE Requeued(d) /\ c = "retry"
    <3>1. PICK i \in DOMAIN queue["retry"] : queue["retry"][i].event = Current(d).event
      BY <2>4 DEF Requeued
    <3>2. i \in Nat /\ d # "retry" /\ Len(queue["retry"]) \in Nat
      BY <1>0, <2>1, <2>4
    <3>3. CASE i > 1
      <4>1. i - 1 \in DOMAIN queue'["retry"] /\ queue'["retry"][i - 1].event = Current(d)'.event
        BY <2>2, <2>3, <2>4, <3>1, <3>3
      <4> QED BY <3>2, <4>1 DEF Requeued
    <3>4. CASE i = 1
      <4>1. Current(c).event = Current(d).event
        BY <1>0, <2>1, <2>4, <3>1, <3>4, CurrentProperties
      <4>2. CASE Requeued(c)
        <5>1. PICK j \in DOMAIN queue["retry"] :
                queue["retry"][j].event = Current(c).event /\ j > 1
          BY <2>4, <4>2 DEF Requeued
        <5>2. j - 1 \in DOMAIN queue'["retry"] /\ queue'["retry"][j - 1].event = Current(d)'.event
          BY <2>2, <2>3, <2>4, <4>1, <5>1
        <5> QED BY <3>2, <5>2 DEF Requeued
      <4> QED BY <2>1, <2>3, <4>1, <4>2 DEF CommitIsSafe
    <3>5. i >= 1
      BY <1>0, <3>1
    <3> QED BY <3>2, <3>3, <3>4, <3>5
  <2>5. CASE Requeued(d) /\ c # "retry"
    <3>1. queue'["retry"] = queue["retry"]
      BY <1>0, <1>4, <2>1, <2>5, CommitKeeps DEF Commit
    <3> QED BY <2>3, <2>5, <3>1 DEF Requeued
  <2> QED BY <2>1, <2>3, <2>4, <2>5 DEF CommitIsSafe
<1> QED BY <1>3, <1>4, NextCases DEF CommitIsSafe

\* NoLoss is preserved: the commit removes the head only when its event is safe.
LEMMA NoLossStep ==
    ASSUME TypeOK, BusyHasHead, CommitIsSafe, NoLoss, Next
    PROVE  NoLoss'
<1>0. /\ handled \in [Events -> Nat] /\ handled' \in [Events -> Nat]
      /\ dlq \in [Events -> Nat] /\ dlq' \in [Events -> Nat]
      /\ published \in [Events -> Nat] /\ "retry" \in Consumers
      /\ queue \in [Consumers -> Seq(Messages)]
  BY TypeStep DEF TypeOK, Consumers
<1>1. ASSUME NEW e \in Events, Holds, Live(e)
      PROVE  Live(e)'
  BY <1>1, MessagesStay DEF Live
<1>2. ASSUME NEW e \in Events, Publish(e)
      PROVE  Live(e)'
  <2> DEFINE m == [event |-> e, count |-> 0, wait |-> 0]
  <2>1. m \in Messages /\ m.event = e
    BY DEF Messages
  <2>2. PICK c \in {"source"} \cup (IF Replay THEN {"retry"} ELSE {}) :
          queue' = [queue EXCEPT ![c] = Append(@, m)]
    BY <1>2 DEF Publish
  <2> HIDE DEF m
  <2>3. c \in Consumers
    BY <2>2 DEF Consumers
  <2>4. /\ Len(queue[c]) + 1 \in DOMAIN queue'[c]
        /\ queue'[c][Len(queue[c]) + 1].event = e
    <3>1. /\ Len(queue[c]) + 1 \in DOMAIN queue'[c]
          /\ queue'[c][Len(queue[c]) + 1] = m
      BY <2>1, <2>2, <2>3, AppendKeeps
    <3> QED BY <2>1, <3>1
  <2> QED BY <2>3, <2>4 DEF Live
<1>3. ASSUME NEW e \in Events, published'[e] > 0, ~\E f \in Events : Publish(f)
      PROVE  published[e] > 0
  BY <1>3 DEF Next, Step, Tick, Park, Restart, ReceiveInvalid, ReceiveDuplicate, Receive,
     HandlerSucceeds, HandlerFails, Produced, Commit, Rejects, AckLost, history
<1>4. ASSUME NEW e \in Events, NEW f \in Events, Publish(f), f # e
      PROVE  published'[e] = published[e]
  BY <1>0, <1>4, BumpProperties DEF Publish
<1>5. CASE Holds
  <2> SUFFICES ASSUME NEW e \in Events, published'[e] > 0
               PROVE  handled'[e] > 0 \/ dlq'[e] > 0 \/ Live(e)'
    BY DEF NoLoss
  <2>1. published[e] > 0 \/ Publish(e)
    BY <1>3, <1>4
  <2>2. CASE published[e] > 0
    <3>1. handled'[e] >= handled[e] /\ dlq'[e] >= dlq[e]
      BY TalliesGrow
    <3>2. handled[e] > 0 \/ dlq[e] > 0 \/ Live(e)
      BY <2>2 DEF NoLoss
    <3> QED BY <1>0, <1>1, <1>5, <3>1, <3>2
  <2> QED BY <1>2, <2>1, <2>2
<1>6. ASSUME NEW c \in Consumers, Commit(c), NEW e \in Events, Live(e), ~Live(e)'
      PROVE  handled'[e] > 0 \/ dlq'[e] > 0
  <2>1. queue[c] # << >> /\ pc[c] = "commit" /\ handled' = handled /\ dlq' = dlq
    BY <1>6 DEF Commit, BusyHasHead, history
  <2>2. /\ \A d \in Consumers : d # c => queue'[d] = queue[d]
        /\ \A i \in DOMAIN queue[c] : i > 1 =>
              i - 1 \in DOMAIN queue'[c] /\ queue'[c][i - 1] = queue[c][i]
    BY <1>6, <2>1, CommitKeeps DEF Commit
  <2>3. PICK d \in Consumers : \E i \in DOMAIN queue[d] : queue[d][i].event = e
    BY <1>6 DEF Live
  <2>4. d = c
    BY <1>6, <2>2, <2>3 DEF Live
  <2>5. PICK i \in DOMAIN queue[c] : queue[c][i].event = e
    BY <2>3, <2>4
  <2>6. i >= 1
    BY <1>0, <2>5
  <2>7. ~(i > 1)
    BY <1>6, <2>2, <2>5 DEF Live
  <2>8. Current(c).event = e
    <3>1. i = 1
      BY <1>0, <2>5, <2>6, <2>7
    <3> QED BY <2>1, <2>5, <3>1, CurrentProperties
  <2>9. ~Requeued(c)
    <3>1. ASSUME NEW j \in DOMAIN queue["retry"], queue["retry"][j].event = e,
                 c = "retry" => j > 1
          PROVE  Live(e)'
      BY <1>0, <2>2, <3>1 DEF Live
    <3> QED BY <1>6, <2>8, <3>1 DEF Requeued
  <2> QED BY <2>1, <2>8, <2>9 DEF CommitIsSafe
<1>7. ASSUME NEW c \in Consumers, Commit(c)
      PROVE  NoLoss'
  <2>1. published' = published /\ handled' = handled /\ dlq' = dlq
    BY <1>7 DEF Commit, history
  <2> QED BY <1>6, <1>7, <2>1 DEF NoLoss
<1> QED BY <1>5, <1>7, NextCases

\* The two awaits that only a failing handler, or an invalid payload, leads to.
LEMMA OutcomeComesFrom ==
    ASSUME TypeOK, Next, NEW c \in Consumers
    PROVE  /\ pc'[c] = "schedule" => pc[c] = "schedule" \/ HandlerFails(c)
           /\ pc'[c] = "deadLetter" =>
                 pc[c] = "deadLetter" \/ ReceiveInvalid(c) \/ (HandlerFails(c) /\ Exhausted(c))
<1>0. pc \in [Consumers -> PCs]
  BY DEF TypeOK
<1>1. CASE \E e \in Events : Publish(e)
  BY <1>1 DEF Publish
<1>2. CASE Tick \/ Park \/ Restart
  BY <1>0, <1>2 DEF Tick, Park, Restart, GoTo
<1>3. ASSUME NEW d \in Consumers, d # c, Step(d) \/ Rejects(d) \/ AckLost(d)
      PROVE  pc'[c] = pc[c]
  BY <1>0, <1>3 DEF Step, ReceiveInvalid, ReceiveDuplicate, Receive, HandlerSucceeds,
     HandlerFails, Produced, Commit, Rejects, AckLost, GoTo
<1>4. CASE ReceiveDuplicate(c) \/ Receive(c) \/ HandlerSucceeds(c) \/ Produced(c)
           \/ Commit(c) \/ Rejects(c) \/ AckLost(c)
  BY <1>0, <1>4 DEF ReceiveDuplicate, Receive, HandlerSucceeds, Produced, Commit, Rejects, AckLost, GoTo
<1>5. CASE ReceiveInvalid(c) \/ HandlerFails(c)
  BY <1>0, <1>5 DEF ReceiveInvalid, HandlerFails, GoTo
<1> QED BY <1>1, <1>2, <1>3, <1>4, <1>5 DEF Next, Step

\* A message in a partition was there, is fresh, or is what a produce appended.
LEMMA MessagesComeFrom ==
    ASSUME TypeOK, BusyHasHead, Next,
           NEW d \in Consumers, NEW i \in DOMAIN queue'[d]
    PROVE  \/ \E j \in DOMAIN queue[d] :
                /\ queue'[d][i].event = queue[d][j].event
                /\ queue'[d][i].count = queue[d][j].count
           \/ queue'[d][i].count = 0
           \/ \E c \in Consumers :
                /\ pc[c] \in {"requeue", "schedule"}
                /\ queue'[d][i].event = Current(c).event
                /\ \/ queue'[d][i].count = Current(c).count
                   \/ pc[c] = "schedule" /\ queue'[d][i].count = Current(c).count + 1
<1>0. queue \in [Consumers -> Seq(Messages)] /\ "retry" \in Consumers
  BY DEF TypeOK, Consumers
<1>1. CASE queue' = queue
  BY <1>1
<1>2. ASSUME NEW e \in Events, Publish(e)
      PROVE  (\E j \in DOMAIN queue[d] : queue'[d][i] = queue[d][j]) \/ queue'[d][i].count = 0
  <2> DEFINE m == [event |-> e, count |-> 0, wait |-> 0]
  <2>1. m \in Messages /\ m.count = 0
    BY DEF Messages
  <2>2. PICK c \in {"source"} \cup (IF Replay THEN {"retry"} ELSE {}) :
          queue' = [queue EXCEPT ![c] = Append(@, m)]
    BY <1>2 DEF Publish
  <2>3. c \in Consumers
    BY <2>2 DEF Consumers
  <2> HIDE DEF m
  <2> QED BY <2>1, <2>2, <2>3, AppendKeeps
<1>3. CASE Tick
  BY <1>3, TickKeeps
<1>4. CASE Park \/ Restart
  BY <1>1, <1>4 DEF Park, Restart
<1>5. ASSUME NEW c \in Consumers,
             ReceiveInvalid(c) \/ ReceiveDuplicate(c) \/ Receive(c)
             \/ HandlerSucceeds(c) \/ HandlerFails(c) \/ Rejects(c)
      PROVE  queue' = queue
  BY <1>5 DEF ReceiveInvalid, ReceiveDuplicate, Receive, HandlerSucceeds, HandlerFails, Rejects
<1>6. ASSUME NEW c \in Consumers, Produce(c), queue' # queue
      PROVE  \/ \E j \in DOMAIN queue[d] : queue'[d][i] = queue[d][j]
             \/ /\ pc[c] \in {"requeue", "schedule"}
                /\ queue'[d][i].event = Current(c).event
                /\ \/ queue'[d][i].count = Current(c).count
                   \/ pc[c] = "schedule" /\ queue'[d][i].count = Current(c).count + 1
  <2>1. pc[c] \in {"requeue", "schedule"}
    BY <1>6, ProduceOutcome
  <2>2. PICK m \in Messages :
          /\ queue' = [queue EXCEPT !["retry"] = Append(@, m)]
          /\ m.event = Current(c).event
          /\ \/ m.count = Current(c).count
             \/ pc[c] = "schedule" /\ m.count = Current(c).count + 1
    BY <1>6, ProduceOutcome
  <2>3. (i \in DOMAIN queue[d] /\ queue'[d][i] = queue[d][i]) \/ queue'[d][i] = m
    BY <1>0, <2>2, AppendKeeps
  <2> QED BY <2>1, <2>2, <2>3
<1>7. ASSUME NEW c \in Consumers, Produced(c) \/ AckLost(c)
      PROVE  Produce(c)
  BY <1>7 DEF Produced, AckLost
<1>8. ASSUME NEW c \in Consumers, Commit(c)
      PROVE  \E j \in DOMAIN queue[d] : queue'[d][i] = queue[d][j]
  <2>1. queue[c] # << >> /\ queue' = [queue EXCEPT ![c] = Tail(@)]
    BY <1>8 DEF Commit, BusyHasHead
  <2>2. CASE d = c
    <3>1. i \in DOMAIN queue'[c]
      BY <2>2
    <3>2. i + 1 \in DOMAIN queue[c] /\ queue'[c][i] = queue[c][i + 1]
      BY <2>1, <3>1, CommitKeeps
    <3> QED BY <2>2, <3>2
  <2>3. CASE d # c
    <3>1. queue'[d] = queue[d]
      BY <2>1, <2>3, CommitKeeps
    <3> QED BY <3>1
  <2> QED BY <2>2, <2>3
<1> QED
  <2>1. CASE \E e \in Events : Publish(e)
    BY <1>2, <2>1
  <2>2. CASE Tick \/ Park \/ Restart
    BY <1>3, <1>4, <2>2
  <2>3. CASE \E c \in Consumers :
                \/ ReceiveInvalid(c) \/ ReceiveDuplicate(c) \/ Receive(c)
                \/ HandlerSucceeds(c) \/ HandlerFails(c) \/ Rejects(c)
    BY <1>1, <1>5, <2>3
  <2>4. CASE \E c \in Consumers : Produced(c) \/ AckLost(c)
    BY <1>1, <1>6, <1>7, <2>4
  <2>5. CASE \E c \in Consumers : Commit(c)
    BY <1>8, <2>5
  <2> QED BY <2>1, <2>2, <2>3, <2>4, <2>5, NextCases DEF Holds

\* CountsAreEarned is preserved: only a counted failure raises a retry count.
LEMMA CountsStep ==
    ASSUME TypeOK, BusyHasHead, CountsAreEarned, Next
    PROVE  CountsAreEarned'
<1>0. /\ failures \in [Events -> Nat] /\ failures' \in [Events -> Nat]
      /\ queue \in [Consumers -> Seq(Messages)] /\ queue' \in [Consumers -> Seq(Messages)]
  BY TypeStep DEF TypeOK
<1>1. \A e \in Events : failures'[e] >= failures[e]
  BY TalliesGrow
<1>2. \A c \in Consumers : pc[c] # "idle" =>
         /\ Current(c).event \in Events /\ Current(c).count \in Nat
         /\ Current(c).count <= failures[Current(c).event]
  BY CurrentProperties DEF BusyHasHead, Messages, CountsAreEarned
<1>3. ASSUME NEW d \in Consumers, NEW i \in DOMAIN queue'[d]
      PROVE  queue'[d][i].count <= failures'[queue'[d][i].event]
  <2>1. queue'[d][i] \in Messages
    BY <1>0, <1>3
  <2>2. queue'[d][i].event \in Events /\ queue'[d][i].count \in Nat
    BY <2>1 DEF Messages
  <2>3. CASE queue'[d][i].count = 0
    BY <1>0, <2>2, <2>3
  <2>4. ASSUME NEW j \in DOMAIN queue[d],
               queue'[d][i].event = queue[d][j].event,
               queue'[d][i].count = queue[d][j].count
        PROVE  queue'[d][i].count <= failures'[queue'[d][i].event]
    <3>1. queue[d][j].count <= failures[queue[d][j].event]
      BY DEF CountsAreEarned
    <3> QED BY <1>0, <1>1, <2>2, <2>4, <3>1
  <2>5. ASSUME NEW c \in Consumers,
               pc[c] \in {"requeue", "schedule"},
               queue'[d][i].event = Current(c).event,
               \/ queue'[d][i].count = Current(c).count
               \/ pc[c] = "schedule" /\ queue'[d][i].count = Current(c).count + 1
        PROVE  queue'[d][i].count <= failures'[queue'[d][i].event]
    <3>1. pc[c] = "schedule" => Current(c).count < failures[Current(c).event]
      BY DEF CountsAreEarned
    <3>2. /\ Current(c).count \in Nat /\ Current(c).count <= failures[Current(c).event]
          /\ failures[Current(c).event] \in Nat /\ failures'[Current(c).event] \in Nat
          /\ failures'[Current(c).event] >= failures[Current(c).event]
      BY <1>0, <1>1, <1>2, <2>5
    <3>3. queue'[d][i].count <= failures[Current(c).event]
      BY <2>2, <2>5, <3>1, <3>2
    <3> QED BY <2>2, <2>5, <3>2, <3>3
  <2> QED BY <1>3, <2>3, <2>4, <2>5, MessagesComeFrom
<1>4. ASSUME NEW c \in Consumers, pc'[c] = "schedule"
      PROVE  Current(c)'.count < failures'[Current(c)'.event]
  <2>1. pc[c] = "schedule" \/ HandlerFails(c)
    BY <1>4, OutcomeComesFrom
  <2>2. CASE HandlerFails(c)
    <3>1. queue' = queue /\ pc[c] # "idle" /\ failures' = Bump(failures, Current(c).event)
      BY <2>2 DEF HandlerFails
    <3>2. failures'[Current(c).event] = failures[Current(c).event] + 1
      BY <1>0, <1>2, <3>1, BumpProperties
    <3>3. Current(c)' = Current(c)
      BY <3>1 DEF Current
    <3>4. Current(c).count < failures'[Current(c).event]
      BY <1>0, <1>2, <3>1, <3>2
    <3> QED BY <3>3, <3>4
  <2>3. CASE pc[c] = "schedule"
    <3>1. Current(c).count < failures[Current(c).event]
      BY <2>3 DEF CountsAreEarned
    <3>2. ~\E d \in Consumers : Commit(d) /\ d = c
      BY <2>3 DEF Commit
    <3>3. Holds => /\ Current(c)'.event = Current(c).event
                   /\ Current(c)'.count = Current(c).count
      BY <2>3, MessagesStay DEF BusyHasHead
    <3>4. ASSUME NEW d \in Consumers, Commit(d), d # c
          PROVE  Current(c)' = Current(c)
      <4>1. queue[d] # << >> /\ queue' = [queue EXCEPT ![d] = Tail(@)]
        BY <3>4 DEF Commit, BusyHasHead
      <4>2. queue'[c] = queue[c]
        BY <3>4, <4>1, CommitKeeps
      <4> QED BY <4>2 DEF Current
    <3>5. Current(c).count < failures'[Current(c).event]
      BY <1>0, <1>1, <1>2, <2>3, <3>1
    <3>6. /\ Current(c)'.event = Current(c).event
          /\ Current(c)'.count = Current(c).count
      BY <3>2, <3>3, <3>4, NextCases
    <3> QED BY <3>5, <3>6
  <2> QED BY <2>1, <2>2, <2>3
<1> QED BY <1>3, <1>4 DEF CountsAreEarned

\* The failures that a ladder is worth.
LEMMA BudgetProperties ==
    /\ MaxDeliveries \in Nat /\ Budget \in Nat /\ Budget <= MaxDeliveries + 1
    /\ ~WithRetryTopic => Budget = 1
<1>1. MaxDeliveries \in Nat
  BY PolicyAssumption
<1>2. CASE WithRetryTopic
  BY <1>1, <1>2 DEF Budget
<1>3. CASE ~WithRetryTopic
  BY <1>1, <1>3 DEF Budget
<1> QED BY <1>1, <1>2, <1>3

\* DlqIsEarned is preserved: a runner gives up only at the end of the ladder.
LEMMA DlqStep ==
    ASSUME TypeOK, BusyHasHead, CountsAreEarned, DlqIsEarned, Next
    PROVE  DlqIsEarned'
<1>0. /\ failures \in [Events -> Nat] /\ failures' \in [Events -> Nat]
      /\ MaxDeliveries \in Nat /\ Budget \in Nat /\ Budget <= MaxDeliveries + 1
      /\ ~WithRetryTopic => Budget = 1
  BY TypeStep, BudgetProperties DEF TypeOK
<1>1. \A e \in Events : failures'[e] >= failures[e]
  BY TalliesGrow
<1>2. \A c \in Consumers : pc[c] # "idle" =>
         /\ Current(c).event \in Events /\ Current(c).count \in Nat
         /\ Current(c).count <= failures[Current(c).event]
  BY CurrentProperties DEF BusyHasHead, Messages, CountsAreEarned
<1>3. ASSUME NEW c \in Consumers, pc'[c] = "deadLetter", Current(c)'.event \notin Invalid
      PROVE  failures'[Current(c)'.event] >= Budget
  <2>1. pc[c] = "deadLetter" \/ ReceiveInvalid(c) \/ (HandlerFails(c) /\ Exhausted(c))
    BY <1>3, OutcomeComesFrom
  <2>2. CASE ReceiveInvalid(c)
    <3>1. queue' = queue /\ Current(c).event \in Invalid
      BY <2>2 DEF ReceiveInvalid
    <3> QED BY <1>3, <3>1 DEF Current
  <2>3. CASE HandlerFails(c) /\ Exhausted(c)
    <3>1. queue' = queue /\ pc[c] # "idle" /\ failures' = Bump(failures, Current(c).event)
      BY <2>3 DEF HandlerFails
    <3>2. failures'[Current(c).event] = failures[Current(c).event] + 1
      BY <1>0, <1>2, <3>1, BumpProperties
    <3>3. Current(c)' = Current(c)
      BY <3>1 DEF Current
    <3>4. ~WithRetryTopic \/ Current(c).count >= MaxDeliveries
      BY <2>3 DEF Exhausted, IsMaxRetries
    <3>5. failures'[Current(c).event] >= Budget
      BY <1>0, <1>2, <3>1, <3>2, <3>4
    <3> QED BY <3>3, <3>5
  <2>4. CASE pc[c] = "deadLetter"
    <3>1. Holds => Current(c)'.event = Current(c).event
      BY <2>4, MessagesStay DEF BusyHasHead
    <3>2. ASSUME NEW d \in Consumers, Commit(d)
          PROVE  Current(c)' = Current(c)
      <4>1. d # c
        BY <2>4, <3>2 DEF Commit
      <4> QED BY <3>2, <4>1, CommitKeeps DEF Commit, BusyHasHead, Current
    <3>3. Current(c)'.event = Current(c).event
      BY <3>1, <3>2, NextCases
    <3>4. failures[Current(c).event] >= Budget
      BY <1>3, <2>4, <3>3 DEF DlqIsEarned
    <3>5. failures'[Current(c).event] >= Budget
      BY <1>0, <1>1, <1>2, <2>4, <3>4
    <3> QED BY <3>3, <3>5
  <2> QED BY <2>1, <2>2, <2>3, <2>4
<1> QED BY <1>3 DEF DlqIsEarned

\* RetriesBeforeDlq is preserved: dead letters come from earned deadLetter awaits.
LEMMA RetriesStep ==
    ASSUME TypeOK, BusyHasHead, DlqIsEarned, RetriesBeforeDlq, Next
    PROVE  RetriesBeforeDlq'
<1>0. /\ failures \in [Events -> Nat] /\ failures' \in [Events -> Nat]
      /\ dlq \in [Events -> Nat] /\ Budget \in Nat
  BY TypeStep, BudgetProperties DEF TypeOK
<1>1. ASSUME NEW e \in Events \ Invalid, dlq'[e] > 0
      PROVE  failures[e] >= Budget
  <2>1. CASE dlq[e] > 0
    BY <2>1 DEF RetriesBeforeDlq
  <2>2. CASE dlq'[e] # dlq[e]
    <3>1. PICK c \in Consumers : Produce(c)
      BY <2>2 DEF Next, Step, Publish, Tick, Park, Restart, ReceiveInvalid, ReceiveDuplicate,
         Receive, HandlerSucceeds, HandlerFails, Produced, Commit, Rejects, AckLost, history
    <3>2. pc[c] = "deadLetter" /\ dlq' = Bump(dlq, Current(c).event)
      BY <2>2, <3>1, ProduceOutcome
    <3>3. Current(c).event \in Events
      BY <3>2, CurrentProperties DEF BusyHasHead, Messages
    <3>4. e = Current(c).event
      BY <1>0, <2>2, <3>2, <3>3, BumpProperties
    <3> QED BY <3>2, <3>4 DEF DlqIsEarned
  <2> QED BY <1>0, <1>1, <2>1, <2>2
<1>2. \A e \in Events : failures'[e] >= failures[e]
  BY TalliesGrow
<1> QED BY <1>0, <1>1, <1>2 DEF RetriesBeforeDlq

-----------------------------------------------------------------------------
(* The theorems *)

\* Empty topics satisfy the invariant.
LEMMA InitInv == Init => IInv
<1> SUFFICES ASSUME Init PROVE IInv
  OBVIOUS
<1>1. /\ \A c \in Consumers : queue[c] = << >> /\ pc[c] = "idle"
      /\ seen = << >> /\ Range(seen) = {}
      /\ \A e \in Events : published[e] = 0 /\ dlq[e] = 0
  BY DEF Init, Zero, Range
<1>2. TypeOK
  <2>1. << >> \in Seq(Messages) /\ << >> \in Seq(Events) /\ Len(<< >>) <= FilterSize
    BY EmptySeq, PolicyAssumption
  <2> QED BY <2>1 DEF Init, Zero, TypeOK, PCs
<1>3. \A c \in Consumers : DOMAIN queue[c] = {}
  BY <1>1
<1> QED BY <1>1, <1>2, <1>3 DEF IInv, BusyHasHead, SeenWereHandled, CommitIsSafe, NoLoss,
           CountsAreEarned, DlqIsEarned, RetriesBeforeDlq

\* Every step preserves it.
LEMMA StepInv == IInv /\ [Next]_vars => IInv'
<1> SUFFICES ASSUME IInv, [Next]_vars PROVE IInv'
  OBVIOUS
<1>1. CASE Next
  BY <1>1, TypeStep, BusyStep, SeenStep, CommitSafeStep, NoLossStep, CountsStep, DlqStep, RetriesStep
     DEF IInv
<1>2. CASE UNCHANGED vars
  BY <1>2 DEF vars, history, IInv, TypeOK, BusyHasHead, SeenWereHandled, CommitIsSafe, Requeued,
     NoLoss, Live, CountsAreEarned, DlqIsEarned, RetriesBeforeDlq, Current
<1> QED BY <1>1, <1>2

\* It holds throughout.
LEMMA Inductive == Spec => []IInv
<1> QED BY InitInv, StepInv, PTL DEF Spec

\* Every reachable state of the consumer is well typed; the filter stays bounded.
THEOREM TypeCorrect == Spec => []TypeOK
<1>1. IInv => TypeOK
  BY DEF IInv
<1> QED BY <1>1, Inductive, PTL

\* No published event is lost, whatever crashes, rejects or is redelivered.
THEOREM NothingLost == Spec => []NoLoss
<1>1. IInv => NoLoss
  BY DEF IInv
<1> QED BY <1>1, Inductive, PTL

\* The idempotency filter never suppresses an event whose handler did not complete.
THEOREM FilterIsSound == Spec => []SeenWereHandled
<1>1. IInv => SeenWereHandled
  BY DEF IInv
<1> QED BY <1>1, Inductive, PTL

\* A valid event reaches the dead-letter topic only after the whole retry ladder.
THEOREM LadderIsUsed == Spec => []RetriesBeforeDlq
<1>1. IInv => RetriesBeforeDlq
  BY DEF IInv
<1> QED BY <1>1, Inductive, PTL
=============================================================================
