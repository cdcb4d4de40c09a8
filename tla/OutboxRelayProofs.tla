-------------------------- MODULE OutboxRelayProofs --------------------------
(***************************************************************************)
(* Proofs about OutboxRelay, for every set of activations, batch size,     *)
(* mode, set of faults and bound.  The inductive invariant IInv says what  *)
(* the run in flight holds at each await: its rows are not settled yet,    *)
(* and what precedes them is delivered, staged before them or still to be  *)
(* sent.                                                                   *)
(***************************************************************************)
EXTENDS OutboxRelay, FiniteSetTheorems, SequenceTheorems, TLAPS

\* tick's `running` lets one activation of runOnce in at a time.
SingleRun ==
    /\ \A s \in Slots : pc[s] # "idle" => running
    /\ \A s, t \in Slots : pc[s] # "idle" /\ pc[t] # "idle" => s = t

\* What an activation holds at each await.
Shape ==
    \A s \in Slots :
        /\ pc[s] = "idle" => todo[s] = {} /\ sent[s] = << >>
        /\ pc[s] = "begin" => sent[s] = << >> /\ Transactional
        /\ pc[s] = "send" /\ ~Transactional => sent[s] = << >>
        /\ pc[s] = "commit" => todo[s] = {} /\ Transactional /\ sent[s] # << >>
        /\ pc[s] = "abort" => Transactional
        /\ pc[s] = "notify" => /\ sent[s] # << >>
                               /\ Transactional => todo[s] = {}
                               /\ SentRows(s) \subseteq marked

\* The rows an activation will still put on the topic parse and are not settled.
Unsettled ==
    \A s \in Slots :
        /\ \A r \in todo[s] : r \notin marked \cup publishedIds /\ outbox[r] # "corrupt"
        /\ pc[s] \in {"send", "commit"} =>
             \A r \in SentRows(s) : r \notin marked \cup publishedIds /\ outbox[r] # "corrupt"

\* What must be delivered before a row that is still to be sent.
OrderTodo ==
    \A s \in Slots : \A r \in todo[s] : \A q \in Rows :
        q < r /\ outbox[q] # "corrupt" => q \in Delivered \cup SentRows(s) \cup todo[s]

\* What must be delivered before a row that is staged in the transaction.
OrderSent ==
    \A s \in Slots : pc[s] \in {"send", "commit"} =>
        \A i \in DOMAIN sent[s] : \A q \in Rows :
            q < sent[s][i] /\ outbox[q] # "corrupt" =>
                q \in Delivered \/ \E j \in 1..(i - 1) : sent[s][j] = q

LogParses == \A r \in Delivered : outbox[r] # "corrupt"

IInv ==
    /\ TypeOK
    /\ SingleRun
    /\ Shape
    /\ Unsettled
    /\ SettledAreDelivered
    /\ AnnouncedAreSettled
    /\ LogParses
    /\ OrderTodo
    /\ OrderSent
    /\ DeliveredInOrder

-----------------------------------------------------------------------------
(* Facts about the operators *)

\* The ids are 1..n, and inserting a row keeps those that exist and their payloads.
LEMMA RowsProperties ==
    ASSUME outbox \in Seq(Kinds)
    PROVE  Rows = 1..Len(outbox)
BY DEF Rows

\* The LIMIT of peekPending cuts a prefix: with a row, every earlier pending row.
LEMMA WindowIsPrefix ==
    ASSUME TypeOK,
           NEW r \in Window, NEW q \in Pending, q < r
    PROVE  q \in Window
<1> DEFINE Upto(x) == {p \in Pending : p <= x}
<1>1. Rows = 1..Len(outbox) /\ Len(outbox) \in Nat
  BY DEF TypeOK, Rows
<1>2. IsFiniteSet(Upto(r))
  <2>1. IsFiniteSet(1..Len(outbox))
    BY <1>1, FS_Interval
  <2>2. Upto(r) \subseteq 1..Len(outbox)
    BY <1>1 DEF Pending
  <2> QED BY <2>1, <2>2, FS_Subset
<1>3. Upto(q) \subseteq Upto(r)
  BY <1>1 DEF Window, Pending
<1>4. Cardinality(Upto(q)) <= Cardinality(Upto(r)) /\ IsFiniteSet(Upto(q))
  BY <1>2, <1>3, FS_Subset
<1>5. Cardinality(Upto(q)) \in Nat /\ Cardinality(Upto(r)) \in Nat
  BY <1>2, <1>4, FS_CardinalityType
<1>6. Cardinality(Upto(r)) <= BatchSize
  BY DEF Window
<1>7. Cardinality(Upto(q)) <= BatchSize
  BY <1>4, <1>5, <1>6, BoundsAssumption
<1> QED BY <1>7 DEF Window

\* A batch is pending, parses, and leaves out nothing deliverable below its rows.
LEMMA BatchProperties ==
    ASSUME TypeOK, SettledAreDelivered, NEW r \in Batch
    PROVE  /\ r \in Rows
           /\ r \notin marked \cup publishedIds
           /\ outbox[r] # "corrupt"
           /\ \A q \in Rows : q < r /\ outbox[q] # "corrupt" => q \in Delivered \cup Batch
<1>1. r \in Window
  BY DEF Batch, PeekPending
<1>2. ASSUME NEW q \in Rows, q < r, outbox[q] # "corrupt", q \notin Delivered
      PROVE  q \in Batch
  <2>1. q \in Pending /\ q \notin publishedIds
    BY <1>2 DEF SettledAreDelivered, Pending
  <2>2. q \in Window
    BY <1>1, <1>2, <2>1, WindowIsPrefix
  <2> QED BY <1>2, <2>1, <2>2 DEF Batch, PeekPending
<1> QED BY <1>1, <1>2 DEF Batch, PeekPending, Window, Pending

\* The catch block either waits for the abort or ends the run.
LEMMA FailOutcome ==
    ASSUME TypeOK, NEW s \in Slots, Fail(s)
    PROVE  \/ /\ Transactional
              /\ pc' = [pc EXCEPT ![s] = "abort"]
              /\ UNCHANGED <<todo, sent, running>>
           \/ Finish(s)
BY DEF Fail, GoTo, PCs

-----------------------------------------------------------------------------
(* The inductive step, one lemma per group of conjuncts *)

\* Every step keeps the types.
LEMMA TypeStep ==
    ASSUME IInv, Next
    PROVE  TypeOK'
<1>0. USE BoundsAssumption, KindsAssumption
<1>1. TypeOK /\ Shape /\ Rows = 1..Len(outbox) /\ Len(outbox) \in Nat
  BY RowsProperties DEF IInv, TypeOK
<1>11. << >> \in Seq(Rows)
  OBVIOUS
<1>12. faults < MaxFaults => faults + 1 \in 0..MaxFaults
  BY <1>1 DEF TypeOK
<1>13. starts + 1 \in Nat
  BY <1>1 DEF TypeOK
<1>2. CASE InsertPending
  <2>1. PICK kind \in Kinds : outbox' = Append(outbox, kind)
    BY <1>2 DEF InsertPending
  <2>2. outbox' \in Seq(Kinds) /\ Len(outbox') = Len(outbox) + 1
    BY <1>1, <2>1 DEF TypeOK
  <2>3. Rows' = 1..(Len(outbox) + 1)
    BY <2>2 DEF Rows
  <2>4. Rows \subseteq Rows'
    BY <1>1, <2>3
  <2>5. log \in Seq(Rows') /\ \A s \in Slots : sent[s] \in Seq(Rows')
    BY <1>1, <2>4, SeqMonotonic DEF TypeOK
  <2>6. Len(outbox') <= MaxRows
    BY <1>1, <1>2, <2>2 DEF InsertPending
  <2> QED
    BY <1>1, <1>2, <2>2, <2>4, <2>5, <2>6 DEF InsertPending, TypeOK, process, run
<1>3. ASSUME NEW s \in Slots, Finish(s)
      PROVE  /\ pc' \in [Slots -> PCs]
             /\ todo' \in [Slots -> SUBSET Rows]
             /\ sent' \in [Slots -> Seq(Rows)]
             /\ running' \in BOOLEAN
  BY <1>1, <1>3, <1>11 DEF Finish, GoTo, TypeOK, PCs
<1>4. ASSUME NEW s \in Slots, Fail(s)
      PROVE  /\ pc' \in [Slots -> PCs]
             /\ todo' \in [Slots -> SUBSET Rows]
             /\ sent' \in [Slots -> Seq(Rows)]
             /\ running' \in BOOLEAN
  BY <1>1, <1>3, <1>4, FailOutcome DEF TypeOK, PCs
<1>5. ASSUME NEW s \in Slots
      PROVE  log \o sent[s] \in Seq(Rows) /\ SentRows(s) \subseteq Rows
  BY <1>1, RangeOfSeq DEF TypeOK, SentRows
<1>6. ASSUME NEW s \in Slots, NEW r \in todo[s]
      PROVE  Append(log, r) \in Seq(Rows) /\ Append(sent[s], r) \in Seq(Rows) /\ r \in Rows
  BY <1>1 DEF TypeOK
<1>7. ASSUME NEW s \in Slots, Tick(s) PROVE TypeOK'
  <2>1. Batch \subseteq Rows
    BY DEF Batch, PeekPending, Window, Pending
  <2> QED
    BY <1>1, <1>7, <2>1 DEF Tick, GoTo, TypeOK, PCs, store, process, Rows
<1>8. ASSUME NEW s \in Slots, Reply(s) PROVE TypeOK'
  <2>1. CASE Begin(s)
    BY <1>1, <2>1 DEF Begin, GoTo, TypeOK, PCs, store, process, Rows
  <2>2. CASE BeginFails(s) \/ SendFails(s) \/ CommitFails(s)
    BY <1>1, <1>4, <2>2 DEF BeginFails, SendFails, CommitFails, TypeOK, store, process, Rows
  <2>3. CASE Abort(s)
    BY <1>1, <1>3, <2>3 DEF Abort, TypeOK, store, process, Rows
  <2>4. ASSUME NEW r \in todo[s], SendInTx(s, r) PROVE TypeOK'
    BY <1>1, <1>6, <2>4 DEF SendInTx, GoTo, TypeOK, PCs, store, process, Rows
  <2>5. ASSUME NEW r \in todo[s], SendAlone(s, r) PROVE TypeOK'
    BY <1>1, <1>6, <2>5 DEF SendAlone, GoTo, TypeOK, PCs, process, Rows
  <2>6. ASSUME NEW r \in todo[s], SendAloneMarkFails(s, r) \/ SendAckLost(s, r)
        PROVE  TypeOK'
    BY <1>1, <1>4, <1>6, <1>12, <2>6
    DEF SendAloneMarkFails, SendAckLost, TypeOK, store, process, Rows
  <2>7. CASE Commit(s)
    BY <1>1, <1>5, <2>7 DEF Commit, GoTo, TypeOK, PCs, process, Rows
  <2>8. CASE CommitMarkFails(s) \/ CommitAckLost(s)
    BY <1>1, <1>4, <1>5, <1>12, <2>8 DEF CommitMarkFails, CommitAckLost, TypeOK, store, process, Rows
  <2>9. CASE Notify(s) \/ NotifyFails(s)
    <3>1. sent[s] # << >> /\ sent[s] \in Seq(Rows)
      BY <1>1, <2>9 DEF Notify, NotifyFails, Shape, TypeOK
    <3>2. Head(sent[s]) \in Rows /\ Tail(sent[s]) \in Seq(Rows)
      BY <3>1
    <3>3. CASE NotifyFails(s)
      BY <1>1, <1>4, <3>2, <3>3 DEF NotifyFails, TypeOK, store, process, Rows
    <3>4. CASE Notify(s)
      <4>1. /\ pc' \in [Slots -> PCs] /\ todo' \in [Slots -> SUBSET Rows]
            /\ sent' \in [Slots -> Seq(Rows)] /\ running' \in BOOLEAN
        BY <1>1, <1>3, <3>2, <3>4 DEF Notify, GoTo, TypeOK, PCs
      <4> QED
        BY <1>1, <3>2, <3>4, <4>1 DEF Notify, TypeOK, store, process, Rows
    <3> QED BY <2>9, <3>3, <3>4
  <2> QED
    BY <1>8, <2>1, <2>2, <2>3, <2>4, <2>5, <2>6, <2>7, <2>8, <2>9 DEF Reply
<1>9. CASE Dispose \/ Restart
  BY <1>1, <1>9, <1>13 DEF Dispose, Restart, TypeOK, store, run, Rows
<1>10. CASE Exit \/ Crash
  <2>1. faults' \in 0..MaxFaults
    BY <1>1, <1>10, <1>12 DEF Exit, Crash, TypeOK
  <2>2. /\ pc' \in [Slots -> PCs] /\ todo' \in [Slots -> SUBSET Rows]
        /\ sent' \in [Slots -> Seq(Rows)]
    BY <1>10, <1>11 DEF Exit, Crash, Die, PCs
  <2> QED
    BY <1>1, <1>10, <2>1, <2>2 DEF Exit, Crash, Die, TypeOK, store, Rows
<1> QED
  BY <1>2, <1>7, <1>8, <1>9, <1>10 DEF Next

\* What a sequence holds after an Append.
LEMMA AppendRange ==
    ASSUME NEW S, NEW l \in Seq(S), NEW r \in S
    PROVE  Range(Append(l, r)) = Range(l) \cup {r}
<1>1. DOMAIN l = 1..Len(l) /\ Len(l) \in Nat /\ DOMAIN Append(l, r) = 1..(Len(l) + 1)
  OBVIOUS
<1>2. \A i \in 1..Len(l) : Append(l, r)[i] = l[i]
  OBVIOUS
<1>3. Append(l, r)[Len(l) + 1] = r
  OBVIOUS
<1>4. DOMAIN Append(l, r) = DOMAIN l \cup {Len(l) + 1}
  BY <1>1
<1> QED BY <1>1, <1>2, <1>3, <1>4 DEF Range

\* A sequence of one element has an empty tail.
LEMMA TailOfOne ==
    ASSUME NEW S, NEW l \in Seq(S), Len(l) = 1
    PROVE  Tail(l) = << >>
<1>1. l # << >> /\ Tail(l) \in Seq(S) /\ Len(Tail(l)) = 0
  OBVIOUS
<1> QED BY <1>1, EmptySeq

\* A reply concerns activation s alone; the others are idle.
LEMMA ReplyFrame ==
    ASSUME IInv, NEW s \in Slots, Reply(s)
    PROVE  /\ outbox' = outbox
           /\ pc[s] # "idle"
           /\ pc'[s] # "idle" => running'
           /\ \A t \in Slots \ {s} : pc'[t] = "idle" /\ todo'[t] = {} /\ sent'[t] = << >>
<1>1. TypeOK /\ SingleRun /\ Shape
  BY DEF IInv
<1>2. outbox' = outbox
  BY DEF Reply, Begin, BeginFails, SendInTx, SendAlone, SendAloneMarkFails, SendAckLost,
         SendFails, Commit, CommitMarkFails, CommitFails, CommitAckLost, Abort, Notify,
         NotifyFails, store
<1>3. pc[s] # "idle"
  BY DEF Reply, Begin, BeginFails, SendInTx, SendAlone, SendAloneMarkFails, SendAckLost,
         SendFails, Commit, CommitMarkFails, CommitFails, CommitAckLost, Abort, Notify,
         NotifyFails
<1>4. running /\ \A t \in Slots \ {s} : pc[t] = "idle" /\ todo[t] = {} /\ sent[t] = << >>
  BY <1>1, <1>3 DEF SingleRun, Shape
<1> DEFINE Frame == /\ pc'[s] # "idle" => running'
                    /\ \A t \in Slots \ {s} :
                         pc'[t] = pc[t] /\ todo'[t] = todo[t] /\ sent'[t] = sent[t]
<1>5. ASSUME Finish(s) PROVE Frame
  BY <1>1, <1>5 DEF Finish, GoTo, TypeOK
<1>6. ASSUME Fail(s) PROVE Frame
  BY <1>1, <1>4, <1>5, <1>6, FailOutcome DEF TypeOK
<1>7. ASSUME NEW label, GoTo(s, label), UNCHANGED running,
             todo' = todo \/ \E x : todo' = [todo EXCEPT ![s] = x],
             sent' = sent \/ \E x : sent' = [sent EXCEPT ![s] = x]
      PROVE  Frame
  BY <1>1, <1>4, <1>7 DEF GoTo, TypeOK
<1>8. Frame
  <2>1. CASE BeginFails(s) \/ SendFails(s) \/ CommitFails(s) \/ CommitMarkFails(s)
             \/ CommitAckLost(s) \/ NotifyFails(s)
             \/ \E r \in todo[s] : SendAloneMarkFails(s, r) \/ SendAckLost(s, r)
    BY <1>6, <2>1 DEF BeginFails, SendFails, CommitFails, CommitMarkFails, CommitAckLost,
                      NotifyFails, SendAloneMarkFails, SendAckLost
  <2>2. CASE Begin(s) \/ Commit(s)
    BY <1>7, <2>2 DEF Begin, Commit
  <2>3. ASSUME NEW r \in todo[s], SendInTx(s, r) \/ SendAlone(s, r) PROVE Frame
    BY <1>7, <2>3 DEF SendInTx, SendAlone
  <2>4. CASE Abort(s)
    BY <1>5, <2>4 DEF Abort
  <2>5. CASE Notify(s)
    BY <1>5, <1>7, <2>5 DEF Notify
  <2> QED BY <2>1, <2>2, <2>3, <2>4, <2>5 DEF Reply
<1> QED BY <1>2, <1>3, <1>4, <1>8

\* What the replies that touch the topic, the store or the memory of the
\* process do to them.
LEMMA ReplyEffect ==
    ASSUME IInv, NEW s \in Slots, Reply(s)
    PROVE  \/ UNCHANGED <<log, marked, publishedIds>>
           \/ \E r \in todo[s] :
                /\ ~Transactional /\ pc[s] = "send" /\ NextRow(s, r)
                /\ log' = Append(log, r)
                /\ marked' \in {marked, marked \cup {r}}
                /\ publishedIds' \in {publishedIds, publishedIds \cup {r}}
           \/ /\ pc[s] = "commit"
              /\ log' = log \o sent[s]
              /\ marked' \in {marked, marked \cup SentRows(s)}
              /\ publishedIds' \in {publishedIds, publishedIds \cup SentRows(s)}
<1>1. CASE Begin(s) \/ BeginFails(s) \/ SendFails(s) \/ CommitFails(s) \/ Abort(s)
           \/ Notify(s) \/ NotifyFails(s)
  BY <1>1 DEF Begin, BeginFails, SendFails, CommitFails, Abort, Notify, NotifyFails, store
<1>2. ASSUME NEW r \in todo[s],
             SendAlone(s, r) \/ SendAloneMarkFails(s, r) \/ SendAckLost(s, r)
      PROVE  /\ ~Transactional /\ pc[s] = "send" /\ NextRow(s, r)
             /\ log' = Append(log, r)
             /\ marked' \in {marked, marked \cup {r}}
             /\ publishedIds' \in {publishedIds, publishedIds \cup {r}}
  BY <1>2 DEF SendAlone, SendAloneMarkFails, SendAckLost, store
<1>3. ASSUME NEW r \in todo[s], SendInTx(s, r)
      PROVE  UNCHANGED <<log, marked, publishedIds>>
  BY <1>3 DEF SendInTx, store
<1>4. CASE Commit(s) \/ CommitMarkFails(s) \/ CommitAckLost(s)
  BY <1>4 DEF Commit, CommitMarkFails, CommitAckLost, store
<1> QED BY <1>1, <1>2, <1>3, <1>4 DEF Reply

\* The topic only grows, by rows that parse and that the batch held.
LEMMA ReplyDelivers ==
    ASSUME IInv, NEW s \in Slots, Reply(s)
    PROVE  /\ Delivered \subseteq Delivered'
           /\ (marked' \ marked) \cup (publishedIds' \ publishedIds) \subseteq Delivered'
           /\ (Delivered' \ Delivered) \subseteq todo[s] \cup SentRows(s)
           /\ LogParses'
<1>1. TypeOK /\ outbox' = outbox
  BY ReplyFrame DEF IInv
<1>2. CASE UNCHANGED <<log, marked, publishedIds>>
  BY <1>1, <1>2 DEF Delivered, LogParses, IInv
<1>3. ASSUME NEW r \in todo[s], log' = Append(log, r),
             marked' \in {marked, marked \cup {r}},
             publishedIds' \in {publishedIds, publishedIds \cup {r}}
      PROVE  /\ Delivered' = Delivered \cup {r}
             /\ (marked' \ marked) \cup (publishedIds' \ publishedIds) \subseteq {r}
             /\ outbox[r] # "corrupt"
  <2>1. log \in Seq(Rows) /\ r \in Rows
    BY <1>1, <1>3 DEF TypeOK
  <2>2. Delivered' = Delivered \cup {r}
    BY <1>3, <2>1, AppendRange DEF Delivered
  <2> QED BY <1>3, <2>2 DEF IInv, Unsettled
<1>4. ASSUME pc[s] = "commit", log' = log \o sent[s],
             marked' \in {marked, marked \cup SentRows(s)},
             publishedIds' \in {publishedIds, publishedIds \cup SentRows(s)}
      PROVE  /\ Delivered' = Delivered \cup SentRows(s)
             /\ (marked' \ marked) \cup (publishedIds' \ publishedIds) \subseteq SentRows(s)
             /\ \A r \in SentRows(s) : outbox[r] # "corrupt"
  <2>1. log \in Seq(Rows) /\ sent[s] \in Seq(Rows)
    BY <1>1 DEF TypeOK
  <2>2. Delivered' = Delivered \cup SentRows(s)
    BY <1>4, <2>1, RangeConcatenation DEF Delivered, SentRows
  <2>3. \A r \in SentRows(s) : outbox[r] # "corrupt"
    BY <1>4 DEF IInv, Unsettled
  <2> QED BY <1>4, <2>2, <2>3
<1>5. LogParses
  BY DEF IInv
<1> QED BY <1>1, <1>2, <1>3, <1>4, <1>5, ReplyEffect DEF LogParses

\* A reply leaves the settled rows delivered and the announced rows settled.
LEMMA ReplySettles ==
    ASSUME IInv, NEW s \in Slots, Reply(s)
    PROVE  SettledAreDelivered' /\ AnnouncedAreSettled'
<1>1. TypeOK /\ Shape /\ SettledAreDelivered /\ AnnouncedAreSettled
  BY DEF IInv
<1>2. marked \subseteq marked'
  BY ReplyEffect
<1>3. announced' \subseteq marked
  <2>1. CASE Notify(s) \/ NotifyFails(s)
    <3>1. pc[s] = "notify" /\ announced' = announced \cup {Head(sent[s])}
      BY <2>1 DEF Notify, NotifyFails
    <3>2. sent[s] # << >> /\ sent[s] \in Seq(Rows) /\ SentRows(s) \subseteq marked
      BY <1>1, <3>1 DEF Shape, TypeOK
    <3>3. Head(sent[s]) = sent[s][1] /\ 1 \in DOMAIN sent[s]
      BY <3>2
    <3>4. Head(sent[s]) \in marked
      BY <3>2, <3>3 DEF SentRows, Range
    <3> QED BY <1>1, <3>1, <3>4 DEF AnnouncedAreSettled
  <2>2. CASE ~(Notify(s) \/ NotifyFails(s))
    <3>1. announced' = announced
      BY <2>2 DEF Reply, Begin, BeginFails, SendInTx, SendAlone, SendAloneMarkFails,
                  SendAckLost, SendFails, Commit, CommitMarkFails, CommitFails,
                  CommitAckLost, Abort
    <3> QED BY <1>1, <3>1 DEF AnnouncedAreSettled
  <2> QED BY <2>1, <2>2
<1>4. AnnouncedAreSettled'
  BY <1>2, <1>3 DEF AnnouncedAreSettled
<1>5. marked' \cup publishedIds' \subseteq Delivered'
  BY <1>1, ReplyDelivers DEF SettledAreDelivered
<1> QED BY <1>4, <1>5 DEF AnnouncedAreSettled, SettledAreDelivered

\* What the reply leaves in the hands of activation s.
LEMMA ReplyHolds ==
    ASSUME IInv, NEW s \in Slots, Reply(s)
    PROVE  \/ pc'[s] = "idle" /\ todo'[s] = {} /\ sent'[s] = << >>
           \/ /\ Transactional /\ pc'[s] = "abort"
              /\ todo'[s] = todo[s] /\ sent'[s] = sent[s]
              /\ pc[s] # "send" => todo[s] = {}
              /\ pc[s] = "send" => UNCHANGED <<log, marked, publishedIds>>
           \/ /\ Transactional /\ pc[s] = "begin" /\ pc'[s] = "send"
              /\ todo'[s] = todo[s] /\ sent'[s] = sent[s]
              /\ UNCHANGED <<log, marked, publishedIds>>
           \/ \E r \in todo[s] :
                /\ Transactional /\ pc[s] = "send" /\ NextRow(s, r)
                /\ todo'[s] = todo[s] \ {r} /\ sent'[s] = Append(sent[s], r)
                /\ pc'[s] = IF todo[s] = {r} THEN "commit" ELSE "send"
                /\ UNCHANGED <<log, marked, publishedIds>>
           \/ \E r \in todo[s] :
                /\ ~Transactional /\ pc[s] = "send" /\ pc'[s] = "notify"
                /\ log' = Append(log, r) /\ NextRow(s, r)
                /\ marked' = marked \cup {r} /\ publishedIds' = publishedIds \cup {r}
                /\ todo'[s] = todo[s] \ {r} /\ sent'[s] = Append(sent[s], r)
           \/ /\ pc[s] = "commit" /\ pc'[s] = "notify"
              /\ marked' = marked \cup SentRows(s)
              /\ todo'[s] = todo[s] /\ sent'[s] = sent[s]
           \/ /\ pc[s] = "notify" /\ pc'[s] \in {"send", "notify"}
              /\ todo'[s] = todo[s] /\ sent'[s] = Tail(sent[s])
              /\ pc'[s] = IF Len(sent[s]) = 1 THEN "send" ELSE "notify"
              /\ Len(sent[s]) = 1 => todo[s] # {}
              /\ UNCHANGED <<log, marked, publishedIds>>
<1>1. TypeOK /\ Shape /\ sent[s] \in Seq(Rows)
  BY DEF IInv, TypeOK
<1>2. ASSUME Finish(s)
      PROVE  pc'[s] = "idle" /\ todo'[s] = {} /\ sent'[s] = << >>
  BY <1>1, <1>2 DEF Finish, GoTo, TypeOK
<1>3. ASSUME Fail(s), ~Finish(s)
      PROVE  /\ Transactional /\ pc'[s] = "abort"
             /\ todo'[s] = todo[s] /\ sent'[s] = sent[s]
  BY <1>1, <1>3, FailOutcome DEF TypeOK
<1>4. ASSUME NEW label, GoTo(s, label) PROVE pc'[s] = label
  BY <1>1, <1>4 DEF GoTo, TypeOK
<1>5. CASE Begin(s)
  BY <1>1, <1>4, <1>5 DEF Begin, Shape, store
<1>6. CASE BeginFails(s)
  BY <1>1, <1>2, <1>6 DEF BeginFails, Fail
<1>7. CASE SendFails(s)
  BY <1>1, <1>2, <1>3, <1>7 DEF SendFails, store
<1>8. CASE CommitFails(s) \/ CommitMarkFails(s) \/ CommitAckLost(s)
  BY <1>1, <1>2, <1>3, <1>8 DEF CommitFails, CommitMarkFails, CommitAckLost, Shape
<1>9. CASE Abort(s)
  BY <1>2, <1>9 DEF Abort
<1>10. CASE NotifyFails(s)
  BY <1>1, <1>2, <1>3, <1>10 DEF NotifyFails, Shape
<1>11. ASSUME NEW r \in todo[s], SendAloneMarkFails(s, r) \/ SendAckLost(s, r)
       PROVE  pc'[s] = "idle" /\ todo'[s] = {} /\ sent'[s] = << >>
  BY <1>2, <1>11, FailOutcome, <1>1 DEF SendAloneMarkFails, SendAckLost
<1>12. ASSUME NEW r \in todo[s], SendInTx(s, r)
       PROVE  /\ Transactional /\ pc[s] = "send" /\ NextRow(s, r)
              /\ todo'[s] = todo[s] \ {r} /\ sent'[s] = Append(sent[s], r)
              /\ pc'[s] = IF todo[s] = {r} THEN "commit" ELSE "send"
              /\ UNCHANGED <<log, marked, publishedIds>>
  BY <1>1, <1>4, <1>12 DEF SendInTx, TypeOK, store
<1>13. ASSUME NEW r \in todo[s], SendAlone(s, r)
       PROVE  /\ ~Transactional /\ pc[s] = "send" /\ pc'[s] = "notify"
              /\ log' = Append(log, r) /\ NextRow(s, r)
              /\ marked' = marked \cup {r} /\ publishedIds' = publishedIds \cup {r}
              /\ todo'[s] = todo[s] \ {r} /\ sent'[s] = Append(sent[s], r)
  BY <1>1, <1>4, <1>13 DEF SendAlone, TypeOK
<1>14. CASE Commit(s)
  BY <1>1, <1>4, <1>14 DEF Commit
<1>15. CASE Notify(s)
  <2>1. CASE Len(sent[s]) = 1 /\ todo[s] = {}
    BY <1>2, <1>15, <2>1 DEF Notify
  <2>2. CASE ~(Len(sent[s]) = 1 /\ todo[s] = {})
    <3>1. /\ pc[s] = "notify" /\ pc'[s] = IF Len(sent[s]) = 1 THEN "send" ELSE "notify"
          /\ UNCHANGED <<log, marked, publishedIds>>
          /\ todo'[s] = todo[s]
      BY <1>4, <1>15, <2>2 DEF Notify, store
    <3>2. sent'[s] = Tail(sent[s])
      BY <1>1, <1>15, <2>2 DEF Notify, TypeOK
    <3> QED BY <2>2, <3>1, <3>2
  <2> QED BY <2>1, <2>2
<1> QED
  BY <1>5, <1>6, <1>7, <1>8, <1>9, <1>10, <1>11, <1>12, <1>13, <1>14, <1>15 DEF Reply

\* A reply keeps a single run, with what it holds at its next await, unsettled.
LEMMA ReplyRun ==
    ASSUME IInv, NEW s \in Slots, Reply(s)
    PROVE  SingleRun' /\ Shape' /\ Unsettled'
<1>1. TypeOK /\ Shape /\ Unsettled /\ outbox' = outbox /\ sent[s] \in Seq(Rows)
  BY ReplyFrame DEF IInv, TypeOK
<1>2. /\ pc'[s] # "idle" => running'
      /\ \A t \in Slots \ {s} : pc'[t] = "idle" /\ todo'[t] = {} /\ sent'[t] = << >>
  BY ReplyFrame
<1>3. SingleRun'
  BY <1>2 DEF SingleRun
<1>4. ASSUME NEW r \in todo[s]
      PROVE  /\ Append(sent[s], r) # << >>
             /\ Range(Append(sent[s], r)) = SentRows(s) \cup {r}
  <2>1. r \in Rows
    BY <1>1 DEF TypeOK
  <2>2. Range(Append(sent[s], r)) = Range(sent[s]) \cup {r}
    BY <1>1, <2>1, AppendRange
  <2> QED BY <1>1, <2>1, <2>2 DEF SentRows
<1>5. ASSUME pc[s] = "notify"
      PROVE  /\ Range(Tail(sent[s])) \subseteq SentRows(s)
             /\ Len(sent[s]) = 1 => Tail(sent[s]) = << >>
             /\ Len(sent[s]) # 1 => Tail(sent[s]) # << >>
  <2>1. sent[s] # << >>
    BY <1>1, <1>5 DEF Shape
  <2>2. Len(sent[s]) \in Nat \ {0}
    BY <1>1, <2>1
  <2>3. /\ Tail(sent[s]) \in Seq(Rows) /\ Len(Tail(sent[s])) = Len(sent[s]) - 1
        /\ \A i \in 1..(Len(sent[s]) - 1) : Tail(sent[s])[i] = sent[s][i + 1]
        /\ DOMAIN Tail(sent[s]) = 1..(Len(sent[s]) - 1) /\ DOMAIN sent[s] = 1..Len(sent[s])
    BY <1>1, <2>1, <2>2
  <2>4. Range(Tail(sent[s])) \subseteq SentRows(s)
    BY <2>2, <2>3 DEF Range, SentRows
  <2>5. Len(sent[s]) = 1 => Tail(sent[s]) = << >>
    BY <1>1, TailOfOne
  <2>6. Len(sent[s]) # 1 => Tail(sent[s]) # << >>
    <3>1. Len(sent[s]) # 1 => Len(Tail(sent[s])) # 0
      BY <2>2, <2>3
    <3>2. Len(<< >>) = 0
      OBVIOUS
    <3>3. ASSUME Tail(sent[s]) = << >> PROVE Len(Tail(sent[s])) = 0
      BY <3>2, <3>3
    <3> QED BY <3>1, <3>3
  <2> QED BY <2>4, <2>5, <2>6
<1>6. Range(<< >>) = {}
  BY DEF Range
<1> DEFINE
      Holds ==
        /\ pc'[s] = "idle" => todo'[s] = {} /\ sent'[s] = << >>
        /\ pc'[s] = "begin" => sent'[s] = << >> /\ Transactional
        /\ pc'[s] = "send" /\ ~Transactional => sent'[s] = << >>
        /\ pc'[s] = "commit" => todo'[s] = {} /\ Transactional /\ sent'[s] # << >>
        /\ pc'[s] = "abort" => Transactional
        /\ pc'[s] = "notify" => /\ sent'[s] # << >>
                                /\ Transactional => todo'[s] = {}
                                /\ Range(sent'[s]) \subseteq marked'
      Fresh(rows) == \A r \in rows : r \notin marked' \cup publishedIds' /\ outbox[r] # "corrupt"
<1>7. /\ Holds
      /\ Fresh(todo'[s])
      /\ pc'[s] \in {"send", "commit"} => Fresh(Range(sent'[s]))
  <2>1. CASE pc'[s] = "idle" /\ todo'[s] = {} /\ sent'[s] = << >>
    BY <2>1
  <2>2. CASE /\ Transactional /\ pc'[s] = "abort"
             /\ todo'[s] = todo[s] /\ sent'[s] = sent[s]
             /\ pc[s] # "send" => todo[s] = {}
             /\ pc[s] = "send" => UNCHANGED <<log, marked, publishedIds>>
    BY <1>1, <2>2 DEF Unsettled
  <2>3. CASE /\ Transactional /\ pc[s] = "begin" /\ pc'[s] = "send"
             /\ todo'[s] = todo[s] /\ sent'[s] = sent[s]
             /\ UNCHANGED <<log, marked, publishedIds>>
    BY <1>1, <1>6, <2>3 DEF Unsettled, Shape
  <2>4. ASSUME NEW r \in todo[s],
               Transactional, pc[s] = "send",
               todo'[s] = todo[s] \ {r}, sent'[s] = Append(sent[s], r),
               pc'[s] = IF todo[s] = {r} THEN "commit" ELSE "send",
               UNCHANGED <<log, marked, publishedIds>>
        PROVE  Holds /\ Fresh(todo'[s]) /\ Fresh(Range(sent'[s]))
    BY <1>1, <1>4, <2>4 DEF Unsettled
  <2>5. ASSUME NEW r \in todo[s],
               ~Transactional, pc[s] = "send", pc'[s] = "notify",
               marked' = marked \cup {r}, publishedIds' = publishedIds \cup {r},
               todo'[s] = todo[s] \ {r}, sent'[s] = Append(sent[s], r)
        PROVE  Holds /\ Fresh(todo'[s])
    <3>1. Range(sent'[s]) = {r} /\ sent'[s] # << >>
      BY <1>1, <1>4, <1>6, <2>5 DEF Shape, SentRows
    <3> QED BY <1>1, <2>5, <3>1 DEF Unsettled
  <2>6. CASE /\ pc[s] = "commit" /\ pc'[s] = "notify"
             /\ marked' = marked \cup SentRows(s)
             /\ todo'[s] = todo[s] /\ sent'[s] = sent[s]
    <3>1. sent[s] # << >>
      BY <1>1, <2>6 DEF Shape
    <3> QED BY <1>1, <2>6, <3>1 DEF Shape, SentRows
  <2>7. CASE /\ pc[s] = "notify" /\ pc'[s] \in {"send", "notify"}
             /\ todo'[s] = todo[s] /\ sent'[s] = Tail(sent[s])
             /\ pc'[s] = IF Len(sent[s]) = 1 THEN "send" ELSE "notify"
             /\ Len(sent[s]) = 1 => todo[s] # {}
             /\ UNCHANGED <<log, marked, publishedIds>>
    <3>1. pc'[s] = "send" => sent'[s] = << >> /\ Range(sent'[s]) = {}
      BY <1>5, <1>6, <2>7
    <3>2. Holds
      BY <1>1, <1>5, <2>7, <3>1 DEF Shape
    <3> QED BY <1>1, <2>7, <3>1, <3>2 DEF Unsettled
  <2> QED BY <2>1, <2>2, <2>3, <2>4, <2>5, <2>6, <2>7, ReplyHolds
<1>10. Shape'
  BY <1>2, <1>7 DEF Shape, SentRows
<1>11. Unsettled'
  BY <1>1, <1>2, <1>7 DEF Unsettled, SentRows
<1> QED BY <1>3, <1>10, <1>11

\* A reply keeps the order: of the rows to send, of those staged, of the topic.
LEMMA ReplyOrder ==
    ASSUME IInv, NEW s \in Slots, Reply(s)
    PROVE  OrderTodo' /\ OrderSent' /\ DeliveredInOrder'
<1>1. /\ TypeOK /\ Shape /\ OrderTodo /\ OrderSent /\ DeliveredInOrder
      /\ outbox' = outbox /\ sent[s] \in Seq(Rows) /\ log \in Seq(Rows)
      /\ todo[s] \subseteq Rows /\ Rows = 1..Len(outbox) /\ Len(outbox) \in Nat
  BY ReplyFrame, RowsProperties DEF IInv, TypeOK
<1>2. \A t \in Slots \ {s} : pc'[t] = "idle" /\ todo'[t] = {} /\ sent'[t] = << >>
  BY ReplyFrame
<1>3. Delivered \subseteq Delivered'
  BY ReplyDelivers
<1>4. ASSUME NEW r \in todo[s]
      PROVE  Range(Append(sent[s], r)) = SentRows(s) \cup {r}
  BY <1>1, AppendRange DEF SentRows
<1>5. Range(<< >>) = {}
  BY DEF Range
<1>6. ASSUME NEW r \in todo'[s], NEW q \in Rows, q < r, outbox[q] # "corrupt"
      PROVE  q \in Delivered' \cup Range(sent'[s]) \cup todo'[s]
  <2>1. CASE r \in todo[s] /\ todo'[s] = todo[s] /\ sent'[s] = sent[s]
    BY <1>1, <1>3, <1>6, <2>1 DEF OrderTodo, SentRows
  <2>2. ASSUME NEW x \in todo[s], todo'[s] = todo[s] \ {x}, sent'[s] = Append(sent[s], x)
        PROVE  q \in Delivered' \cup Range(sent'[s]) \cup todo'[s]
    BY <1>1, <1>3, <1>4, <1>6, <2>2 DEF OrderTodo
  <2>3. CASE pc[s] = "notify" /\ todo'[s] = todo[s]
    <3>1. SentRows(s) \subseteq marked
      BY <1>1, <2>3 DEF Shape
    <3>2. SentRows(s) \subseteq Delivered
      BY <3>1 DEF IInv, SettledAreDelivered
    <3> QED BY <1>1, <1>3, <1>6, <2>3, <3>2 DEF OrderTodo
  <2> QED BY <1>6, <2>1, <2>2, <2>3, ReplyHolds
<1>7. ASSUME pc'[s] \in {"send", "commit"}, NEW i \in DOMAIN sent'[s], NEW q \in Rows,
             q < sent'[s][i], outbox[q] # "corrupt"
      PROVE  q \in Delivered' \/ \E j \in 1..(i - 1) : sent'[s][j] = q
  <2>1. CASE /\ pc[s] = "begin" /\ sent'[s] = sent[s]
    BY <1>1, <1>7, <2>1 DEF Shape
  <2>2. ASSUME NEW r \in todo[s], pc[s] = "send", NextRow(s, r), sent'[s] = Append(sent[s], r)
        PROVE  q \in Delivered' \/ \E j \in 1..(i - 1) : sent'[s][j] = q
    <3>1. /\ Len(sent[s]) \in Nat /\ DOMAIN sent[s] = 1..Len(sent[s])
          /\ DOMAIN sent'[s] = 1..(Len(sent[s]) + 1)
          /\ \A k \in 1..Len(sent[s]) : sent'[s][k] = sent[s][k]
          /\ sent'[s][Len(sent[s]) + 1] = r
      BY <1>1, <2>2
    <3>2. CASE i \in 1..Len(sent[s])
      <4>1. i \in DOMAIN sent[s] /\ q < sent[s][i]
        BY <1>7, <3>1, <3>2
      <4>2. q \in Delivered \/ \E j \in 1..(i - 1) : sent[s][j] = q
        BY <1>1, <1>7, <2>2, <4>1 DEF OrderSent
      <4>3. \A j \in 1..(i - 1) : sent'[s][j] = sent[s][j]
        BY <3>1, <3>2
      <4> QED BY <1>3, <4>2, <4>3
    <3>3. CASE i = Len(sent[s]) + 1
      <4>1. q \in Delivered \cup SentRows(s) \cup todo[s]
        BY <1>1, <1>7, <2>2, <3>1, <3>3 DEF OrderTodo
      <4>2. q \notin todo[s]
        BY <1>1, <1>7, <2>2, <3>1, <3>3 DEF NextRow
      <4>3. CASE q \in SentRows(s)
        <5>1. PICK j \in 1..Len(sent[s]) : sent[s][j] = q
          BY <3>1, <4>3 DEF SentRows, Range
        <5> QED BY <3>1, <3>3, <5>1
      <4> QED BY <1>3, <4>1, <4>2, <4>3
    <3> QED BY <1>7, <3>1, <3>2, <3>3
  <2>3. CASE sent'[s] = << >>
    BY <1>7, <2>3
  <2>4. CASE /\ pc[s] = "notify" /\ pc'[s] = "send" /\ sent'[s] = Tail(sent[s])
             /\ Len(sent[s]) = 1
    <3>1. sent'[s] = << >>
      BY <1>1, <2>4, TailOfOne
    <3> QED BY <2>3, <3>1
  <2> QED BY <1>7, <2>1, <2>2, <2>3, <2>4, ReplyHolds
<1>8. DeliveredInOrder'
  <2>1. CASE log' = log
    <3>1. outbox' = outbox /\ DeliveredInOrder
      BY <1>1
    <3> QED BY <2>1, <3>1 DEF DeliveredInOrder, Rows
  <2>2. ASSUME NEW r \in todo[s], ~Transactional, pc[s] = "send", NextRow(s, r),
               log' = Append(log, r)
        PROVE  DeliveredInOrder'
    <3>1. /\ Len(log) \in Nat /\ DOMAIN log = 1..Len(log)
          /\ DOMAIN log' = 1..(Len(log) + 1)
          /\ \A k \in 1..Len(log) : log'[k] = log[k]
          /\ log'[Len(log) + 1] = r
      BY <1>1, <2>2
    <3>2. \A q \in Rows : q < r /\ outbox[q] # "corrupt" => \E j \in 1..Len(log) : log[j] = q
      <4>1. SUFFICES ASSUME NEW q \in Rows, q < r, outbox[q] # "corrupt"
                     PROVE  q \in Delivered
        BY <3>1 DEF Delivered, Range
      <4>2. SentRows(s) = {}
        BY <1>1, <1>5, <2>2 DEF Shape, SentRows
      <4>3. q \notin todo[s]
        BY <1>1, <2>2, <4>1 DEF NextRow
      <4> QED BY <1>1, <4>1, <4>2, <4>3 DEF OrderTodo
    <3>3. \A i \in 1..Len(log) : \A q \in Rows :
            q < log[i] /\ outbox[q] # "corrupt" => \E j \in 1..(i - 1) : log[j] = q
      BY <1>1, <3>1 DEF DeliveredInOrder
    <3>4. ASSUME NEW i \in DOMAIN log', NEW q \in Rows, q < log'[i], outbox[q] # "corrupt"
          PROVE  \E j \in 1..(i - 1) : log'[j] = q
      <4>1. CASE i \in 1..Len(log)
        BY <3>1, <3>3, <3>4, <4>1
      <4>2. CASE i = Len(log) + 1
        BY <3>1, <3>2, <3>4, <4>2
      <4> QED BY <3>1, <4>1, <4>2
    <3> QED BY <1>1, <3>4 DEF DeliveredInOrder, Rows
  <2>3. ASSUME pc[s] = "commit", log' = log \o sent[s]
        PROVE  DeliveredInOrder'
    <3>1. /\ Len(log) \in Nat /\ DOMAIN log = 1..Len(log)
          /\ Len(sent[s]) \in Nat /\ DOMAIN sent[s] = 1..Len(sent[s])
          /\ DOMAIN log' = 1..(Len(log) + Len(sent[s]))
          /\ \A k \in 1..Len(log) : log'[k] = log[k]
          /\ \A k \in 1..Len(sent[s]) : log'[Len(log) + k] = sent[s][k]
      BY <1>1, <2>3
    <3>2. ASSUME NEW i \in DOMAIN log', NEW q \in Rows, q < log'[i], outbox[q] # "corrupt"
          PROVE  \E j \in 1..(i - 1) : log'[j] = q
      <4>1. CASE i \in 1..Len(log)
        <5>1. \E j \in 1..(i - 1) : log[j] = q
          BY <1>1, <3>1, <3>2, <4>1 DEF DeliveredInOrder
        <5> QED BY <3>1, <4>1, <5>1
      <4>2. CASE i \notin 1..Len(log)
        <5>1. PICK k \in 1..Len(sent[s]) : i = Len(log) + k /\ log'[i] = sent[s][k]
          <6>1. i - Len(log) \in 1..Len(sent[s]) /\ i = Len(log) + (i - Len(log))
            BY <3>1, <4>2
          <6> QED BY <3>1, <6>1
        <5>2. q \in Delivered \/ \E j \in 1..(k - 1) : sent[s][j] = q
          BY <1>1, <2>3, <3>1, <3>2, <5>1 DEF OrderSent
        <5>3. CASE q \in Delivered
          <6>1. PICK j \in 1..Len(log) : log[j] = q
            BY <3>1, <5>3 DEF Delivered, Range
          <6>2. j \in 1..(i - 1) /\ log'[j] = q
            BY <3>1, <5>1, <6>1
          <6> QED BY <6>2
        <5>4. ASSUME NEW j \in 1..(k - 1), sent[s][j] = q
              PROVE  \E x \in 1..(i - 1) : log'[x] = q
          <6>1. /\ j \in Int /\ 1 <= j /\ j <= k - 1 /\ k \in Int /\ k <= Len(sent[s])
                /\ i = Len(log) + k /\ Len(log) \in Nat /\ Len(sent[s]) \in Nat
            BY <3>1, <5>1, <5>4
          <6>3. Len(log) + j \in 1..(i - 1) /\ j \in 1..Len(sent[s])
            BY <6>1
          <6>2. log'[Len(log) + j] = q
            BY <3>1, <5>4, <6>3
          <6> QED BY <6>2, <6>3
        <5> QED BY <5>2, <5>3, <5>4
      <4> QED BY <4>1, <4>2
    <3> QED BY <1>1, <3>2 DEF DeliveredInOrder, Rows
  <2> QED BY <2>1, <2>2, <2>3, ReplyEffect
<1>9. OrderTodo'
  BY <1>1, <1>2, <1>6 DEF OrderTodo, SentRows, Rows
<1>10. OrderSent'
  <2>1. Rows' = Rows
    BY <1>1 DEF Rows
  <2>2. \A t \in Slots : pc'[t] \in {"send", "commit"} => t = s
    BY <1>2
  <2>3. pc'[s] \in {"send", "commit"} =>
          \A i \in DOMAIN sent'[s] : \A q \in Rows' :
            q < sent'[s][i] /\ outbox'[q] # "corrupt" =>
              q \in Delivered' \/ \E j \in 1..(i - 1) : sent'[s][j] = q
    BY <1>1, <1>7, <2>1
  <2> QED BY <2>2, <2>3 DEF OrderSent
<1> QED BY <1>8, <1>9, <1>10

\* A tick hands the batch to an idle activation; nothing else changes.
LEMMA TickStep ==
    ASSUME IInv, NEW s \in Slots, Tick(s)
    PROVE  /\ SingleRun' /\ Shape' /\ Unsettled' /\ SettledAreDelivered'
           /\ AnnouncedAreSettled' /\ LogParses' /\ OrderTodo' /\ OrderSent'
           /\ DeliveredInOrder'
<1>1. /\ TypeOK /\ SingleRun /\ Shape /\ SettledAreDelivered /\ AnnouncedAreSettled
      /\ LogParses /\ DeliveredInOrder
  BY DEF IInv
<1>2. /\ ~running /\ pc[s] = "idle" /\ sent[s] = << >>
      /\ \A t \in Slots : pc[t] = "idle" /\ todo[t] = {} /\ sent[t] = << >>
  BY <1>1 DEF Tick, SingleRun, Shape
<1>3. /\ UNCHANGED <<outbox, marked, log, publishedIds, announced, sent>>
      /\ running'
      /\ pc'[s] = IF Transactional THEN "begin" ELSE "send"
      /\ todo'[s] = Batch
      /\ \A t \in Slots \ {s} : pc'[t] = "idle" /\ todo'[t] = {}
  BY <1>1, <1>2 DEF Tick, GoTo, TypeOK, store
<1>4. SettledAreDelivered' /\ AnnouncedAreSettled' /\ LogParses' /\ DeliveredInOrder'
  BY <1>1, <1>3
  DEF SettledAreDelivered, AnnouncedAreSettled, LogParses, DeliveredInOrder, Delivered, Rows
<1>5. SingleRun' /\ Shape'
  BY <1>2, <1>3 DEF SingleRun, Shape, SentRows
<1>6. /\ DOMAIN << >> = {} /\ Range(<< >>) = {}
  BY DEF Range
<1>7. Unsettled'
  <2>1. \A r \in Batch : r \notin marked \cup publishedIds /\ outbox[r] # "corrupt"
    BY <1>1, BatchProperties
  <2> QED BY <1>2, <1>3, <1>6, <2>1 DEF Unsettled, SentRows
<1>8. OrderTodo'
  <2>1. \A r \in Batch : \A q \in Rows :
          q < r /\ outbox[q] # "corrupt" => q \in Delivered \cup Batch
    BY <1>1, BatchProperties
  <2> QED BY <1>3, <2>1 DEF OrderTodo, Delivered, SentRows, Rows
<1>9. OrderSent'
  BY <1>2, <1>3, <1>6 DEF OrderSent
<1> QED BY <1>4, <1>5, <1>7, <1>8, <1>9

\* A new row has a greater id than any row in hand, on the topic or settled.
LEMMA InsertStep ==
    ASSUME IInv, InsertPending
    PROVE  /\ SingleRun' /\ Shape' /\ Unsettled' /\ SettledAreDelivered'
           /\ AnnouncedAreSettled' /\ LogParses' /\ OrderTodo' /\ OrderSent'
           /\ DeliveredInOrder'
<1>1. /\ TypeOK /\ SingleRun /\ Shape /\ Unsettled /\ SettledAreDelivered
      /\ AnnouncedAreSettled /\ LogParses /\ OrderTodo /\ OrderSent /\ DeliveredInOrder
  BY DEF IInv
<1>2. UNCHANGED <<marked, log, process, publishedIds, run, announced, faults>>
  BY DEF InsertPending
<1>3. PICK kind \in Kinds : outbox' = Append(outbox, kind)
  BY DEF InsertPending
<1>4. /\ Rows = 1..Len(outbox) /\ Len(outbox) \in Nat
      /\ Rows' = 1..(Len(outbox) + 1)
      /\ \A r \in Rows : outbox'[r] = outbox[r]
  BY <1>1, <1>3, RowsProperties DEF TypeOK, Rows
<1>5. \A r \in Rows : \A q \in Rows' : q < r => q \in Rows
  BY <1>4
<1>6. \A s \in Slots : todo[s] \subseteq Rows /\ SentRows(s) \subseteq Rows
  BY <1>1, RangeOfSeq DEF TypeOK, SentRows
<1>7. Delivered \subseteq Rows
  BY <1>1, RangeOfSeq DEF TypeOK, Delivered
<1>8. /\ \A i \in DOMAIN log : log[i] \in Rows
      /\ \A s \in Slots : \A i \in DOMAIN sent[s] : sent[s][i] \in Rows
  BY <1>6, <1>7 DEF Delivered, SentRows, Range
<1>9. Delivered' = Delivered /\ \A s \in Slots : SentRows(s)' = SentRows(s)
  BY <1>2 DEF Delivered, SentRows, run
<1>10. SingleRun' /\ Shape' /\ SettledAreDelivered' /\ AnnouncedAreSettled'
  BY <1>1, <1>2, <1>9 DEF SingleRun, Shape, SettledAreDelivered, AnnouncedAreSettled, run
<1>11. Unsettled' /\ LogParses'
  BY <1>1, <1>2, <1>4, <1>6, <1>7, <1>9 DEF Unsettled, LogParses, run
<1>12. OrderTodo'
  BY <1>1, <1>2, <1>4, <1>5, <1>6, <1>9 DEF OrderTodo, run
<1>13. OrderSent'
  BY <1>1, <1>2, <1>4, <1>5, <1>8, <1>9 DEF OrderSent, run
<1>14. DeliveredInOrder'
  BY <1>1, <1>2, <1>4, <1>5, <1>8 DEF DeliveredInOrder
<1> QED BY <1>10, <1>11, <1>12, <1>13, <1>14

\* Shutdown, death and restart of the process leave the store and the topic alone.
LEMMA ProcessStep ==
    ASSUME IInv, Dispose \/ Exit \/ Crash \/ Restart
    PROVE  /\ SingleRun' /\ Shape' /\ Unsettled' /\ SettledAreDelivered'
           /\ AnnouncedAreSettled' /\ LogParses' /\ OrderTodo' /\ OrderSent'
           /\ DeliveredInOrder'
<1>1. /\ TypeOK /\ SingleRun /\ Shape /\ Unsettled /\ SettledAreDelivered
      /\ AnnouncedAreSettled /\ LogParses /\ OrderTodo /\ OrderSent /\ DeliveredInOrder
  BY DEF IInv
<1>2. /\ UNCHANGED <<outbox, marked, log, announced>>
      /\ publishedIds' \subseteq publishedIds
      /\ Rows' = Rows /\ Delivered' = Delivered
  BY DEF Dispose, Exit, Crash, Restart, Die, store, Rows, Delivered
<1>3. LogParses' /\ DeliveredInOrder' /\ AnnouncedAreSettled'
  BY <1>1, <1>2 DEF LogParses, DeliveredInOrder, AnnouncedAreSettled
<1>4. SettledAreDelivered'
  BY <1>1, <1>2 DEF SettledAreDelivered
<1>5. CASE Dispose \/ Restart
  <2>1. UNCHANGED run /\ publishedIds' = publishedIds
    BY <1>5 DEF Dispose, Restart
  <2>2. SingleRun' /\ Shape' /\ Unsettled' /\ OrderTodo' /\ OrderSent'
    BY <1>1, <1>2, <2>1 DEF SingleRun, Shape, Unsettled, OrderTodo, OrderSent, SentRows, run
  <2> QED BY <1>3, <1>4, <2>2
<1>6. CASE Exit \/ Crash
  <2>1. \A s \in Slots : pc'[s] = "idle" /\ todo'[s] = {} /\ sent'[s] = << >>
    BY <1>6 DEF Exit, Crash, Die
  <2>2. SingleRun' /\ Shape' /\ Unsettled' /\ OrderTodo' /\ OrderSent'
    BY <2>1 DEF SingleRun, Shape, Unsettled, OrderTodo, OrderSent
  <2> QED BY <1>3, <1>4, <2>2
<1> QED BY <1>5, <1>6

-----------------------------------------------------------------------------
(* The inductive invariant and what follows from it *)

\* An empty outbox satisfies the invariant.
LEMMA InitIInv == Init => IInv
<1> SUFFICES ASSUME Init PROVE IInv
  OBVIOUS
<1>1. << >> \in Seq(Kinds) /\ << >> \in Seq(Rows) /\ Len(<< >>) = 0 /\ DOMAIN << >> = {}
  OBVIOUS
<1>2. Rows = {} /\ Delivered = {}
  BY <1>1 DEF Init, Rows, Delivered, Range
<1>3. TypeOK
  <2>1. outbox \in Seq(Kinds) /\ Len(outbox) <= MaxRows /\ faults \in 0..MaxFaults
    BY <1>1, BoundsAssumption DEF Init
  <2>2. sent \in [Slots -> Seq(Rows)] /\ log \in Seq(Rows)
    BY <1>1 DEF Init
  <2>3. /\ pc \in [Slots -> PCs] /\ todo \in [Slots -> SUBSET Rows]
        /\ marked \subseteq Rows /\ publishedIds \subseteq Rows /\ announced \subseteq Rows
        /\ starts \in Nat
    BY DEF Init, PCs
  <2> QED BY <2>1, <2>2, <2>3 DEF Init, TypeOK
<1>4. \A s \in Slots : pc[s] = "idle" /\ todo[s] = {} /\ sent[s] = << >>
  BY DEF Init
<1> QED
  BY <1>1, <1>2, <1>3, <1>4
  DEF Init, IInv, SingleRun, Shape, Unsettled, SettledAreDelivered, AnnouncedAreSettled,
      LogParses, OrderTodo, OrderSent, DeliveredInOrder

\* Every step preserves it.
LEMMA NextIInv == IInv /\ [Next]_vars => IInv'
<1>1. ASSUME IInv, Next PROVE IInv'
  <2>1. TypeOK'
    BY <1>1, TypeStep
  <2>2. ASSUME NEW s \in Slots, Tick(s) PROVE IInv'
    BY <1>1, <2>1, <2>2, TickStep DEF IInv
  <2>3. ASSUME NEW s \in Slots, Reply(s) PROVE IInv'
    BY <1>1, <2>1, <2>3, ReplyRun, ReplyOrder, ReplySettles, ReplyDelivers DEF IInv
  <2>4. CASE InsertPending
    BY <1>1, <2>1, <2>4, InsertStep DEF IInv
  <2>5. CASE Dispose \/ Exit \/ Crash \/ Restart
    BY <1>1, <2>1, <2>5, ProcessStep DEF IInv
  <2> QED BY <1>1, <2>2, <2>3, <2>4, <2>5 DEF Next
<1>2. ASSUME IInv, UNCHANGED vars PROVE IInv'
  <2>1. /\ UNCHANGED <<outbox, marked, log, up, running, stopped, publishedIds, pc, todo,
                       sent, announced, faults, starts>>
        /\ Rows' = Rows /\ Delivered' = Delivered
        /\ \A s \in Slots : SentRows(s)' = SentRows(s)
    BY <1>2 DEF vars, store, process, run, Rows, Delivered, SentRows
  <2>2. TypeOK' /\ SingleRun' /\ Shape'
    BY <1>2, <2>1 DEF IInv, TypeOK, SingleRun, Shape
  <2>3. Unsettled' /\ SettledAreDelivered' /\ AnnouncedAreSettled' /\ LogParses'
    BY <1>2, <2>1 DEF IInv, Unsettled, SettledAreDelivered, AnnouncedAreSettled, LogParses
  <2>4. OrderTodo' /\ OrderSent' /\ DeliveredInOrder'
    BY <1>2, <2>1 DEF IInv, OrderTodo, OrderSent, DeliveredInOrder
  <2> QED BY <2>2, <2>3, <2>4 DEF IInv
<1> QED BY <1>1, <1>2

\* It holds throughout.
LEMMA AlwaysIInv == Spec => []IInv
BY InitIInv, NextIInv, PTL DEF Spec

\* The variables keep their types in every behaviour of the relay.
THEOREM TypeCorrect == Spec => []TypeOK
<1>1. IInv => TypeOK
  BY DEF IInv
<1> QED BY <1>1, AlwaysIInv, PTL

\* At-least-once, the half that is safety: what is marked, remembered or announced
\* is on the topic (outbox.ts marks rows only after the broker has them).
THEOREM NothingLost == Spec => []SettledAreDelivered
<1>1. IInv => SettledAreDelivered
  BY DEF IInv
<1> QED BY <1>1, AlwaysIInv, PTL

\* The relay never reorders the first deliveries of the rows.
THEOREM OrderKept == Spec => []DeliveredInOrder
<1>1. IInv => DeliveredInOrder
  BY DEF IInv
<1> QED BY <1>1, AlwaysIInv, PTL

\* The produced hook never runs for a row that a later poll could send again.
THEOREM HookAfterMark == Spec => []AnnouncedAreSettled
<1>1. IInv => AnnouncedAreSettled
  BY DEF IInv
<1> QED BY <1>1, AlwaysIInv, PTL

\* Rows reach the topic in a reply only, at its end, from the batch in hand.
LEMMA StepDelivers ==
    ASSUME IInv, [Next]_vars
    PROVE  /\ Len(log) <= Len(log')
           /\ \A i \in DOMAIN log : i \in DOMAIN log' /\ log'[i] = log[i]
           /\ \A i \in DOMAIN log' \ DOMAIN log : log'[i] \notin marked \cup publishedIds
<1> DEFINE Extends ==
             /\ Len(log) <= Len(log')
             /\ \A i \in DOMAIN log : i \in DOMAIN log' /\ log'[i] = log[i]
             /\ \A i \in DOMAIN log' \ DOMAIN log : log'[i] \notin marked \cup publishedIds
<1>1. log \in Seq(Rows) /\ Len(log) \in Nat /\ DOMAIN log = 1..Len(log) /\ Unsettled
  BY DEF IInv, TypeOK
<1>2. CASE log' = log
  BY <1>1, <1>2
<1>3. ASSUME NEW s \in Slots, Reply(s) PROVE Extends
  <2>1. ASSUME NEW r \in todo[s], log' = Append(log, r) PROVE Extends
    <3>1. r \in Rows /\ r \notin marked \cup publishedIds
      BY <1>1, <2>1 DEF Unsettled, IInv, TypeOK
    <3>2. /\ Len(log') = Len(log) + 1 /\ DOMAIN log' = 1..(Len(log) + 1)
          /\ \A i \in 1..Len(log) : log'[i] = log[i]
          /\ log'[Len(log) + 1] = r
      BY <1>1, <2>1, <3>1
    <3> QED BY <1>1, <3>1, <3>2
  <2>2. ASSUME pc[s] = "commit", log' = log \o sent[s] PROVE Extends
    <3>1. sent[s] \in Seq(Rows) /\ Len(sent[s]) \in Nat /\ DOMAIN sent[s] = 1..Len(sent[s])
      BY DEF IInv, TypeOK
    <3>2. /\ Len(log') = Len(log) + Len(sent[s])
          /\ DOMAIN log' = 1..(Len(log) + Len(sent[s]))
          /\ \A i \in 1..Len(log) : log'[i] = log[i]
          /\ \A i \in 1..Len(sent[s]) : log'[Len(log) + i] = sent[s][i]
      BY <1>1, <2>2, <3>1
    <3>3. \A i \in 1..Len(sent[s]) : sent[s][i] \notin marked \cup publishedIds
      BY <1>1, <2>2, <3>1 DEF Unsettled, SentRows, Range
    <3>4. ASSUME NEW i \in DOMAIN log' \ DOMAIN log PROVE log'[i] \notin marked \cup publishedIds
      <4>1. i - Len(log) \in 1..Len(sent[s]) /\ i = Len(log) + (i - Len(log))
        BY <1>1, <3>1, <3>2, <3>4
      <4> QED BY <3>2, <3>3, <4>1
    <3> QED BY <1>1, <3>1, <3>2, <3>4
  <2> QED BY <1>2, <1>3, <2>1, <2>2, ReplyEffect
<1>4. CASE InsertPending \/ Dispose \/ Exit \/ Crash \/ Restart \/ UNCHANGED vars
  BY <1>2, <1>4 DEF InsertPending, Dispose, Exit, Crash, Restart, Die, vars
<1>5. ASSUME NEW s \in Slots, Tick(s) PROVE Extends
  BY <1>2, <1>5 DEF Tick
<1> QED BY <1>3, <1>4, <1>5 DEF Next

\* A settled row is never sent again, whatever fails.
THEOREM NoResend == Spec => NeverResent
<1>1. IInv /\ [Next]_vars =>
        [\A i \in DOMAIN log' \ DOMAIN log : log'[i] \notin marked \cup publishedIds]_vars
  BY StepDelivers
<1> QED BY <1>1, AlwaysIInv, PTL DEF Spec, NeverResent

\* The relay implements the promise of the outbox: initial states map to initial
\* states, a reply maps to Deliver, an insert to Accept, the rest to stuttering.
THEOREM Refinement == Spec => RefinesOutboxDelivery
<1>1. Init => Promise!Init
  BY DEF Init, Promise!Init
<1>2. ASSUME IInv, IInv', [Next]_vars PROVE [Promise!Next]_(Promise!vars)
  <2>1. CASE InsertPending
    <3>1. Promise!Accept
      BY <2>1, KindsAssumption DEF InsertPending, Promise!Accept
    <3> QED BY <3>1 DEF Promise!Next
  <2>2. ASSUME NEW s \in Slots, Reply(s) PROVE Promise!Deliver
    <3>1. outbox' = outbox /\ marked \subseteq marked' /\ Rows' = Rows
      BY <1>2, <2>2, ReplyFrame, ReplyEffect DEF Rows
    <3>2. Len(log) <= Len(log') /\ \A i \in DOMAIN log : log'[i] = log[i]
      BY <1>2, StepDelivers
    <3>3. log' \in Seq(Rows) /\ DOMAIN log' = 1..Len(log') /\ Len(log') \in Nat
      BY <1>2, <3>1 DEF IInv, TypeOK
    <3>4. Range(log') \subseteq Promise!Deliverable
      <4>1. Range(log') \subseteq Rows
        BY <3>3, RangeOfSeq
      <4> QED BY <1>2, <3>1, <4>1 DEF IInv, LogParses, Delivered, Promise!Deliverable, Rows
    <3>5. marked' \subseteq Range(log')
      BY <1>2 DEF IInv, SettledAreDelivered, Delivered
    <3>6. ASSUME NEW i \in DOMAIN log', NEW q \in Promise!Deliverable, q < log'[i]
          PROVE  \E j \in DOMAIN log' : j < i /\ log'[j] = q
      <4>1. q \in Rows /\ outbox[q] # "corrupt"
        BY DEF Promise!Deliverable, Rows
      <4>2. PICK j \in 1..(i - 1) : log'[j] = q
        BY <1>2, <3>1, <3>6, <4>1 DEF IInv, DeliveredInOrder
      <4>3. j \in DOMAIN log' /\ j < i
        <5>1. i \in Int /\ i <= Len(log') /\ j \in Int /\ 1 <= j /\ j <= i - 1
          BY <3>3, <3>6, <4>2
        <5> QED BY <3>3, <5>1
      <4> QED BY <4>2, <4>3
    <3>7. Promise!FirstDeliveriesInOrder(log')
      BY <3>6 DEF Promise!FirstDeliveriesInOrder
    <3> QED BY <3>1, <3>2, <3>4, <3>5, <3>7 DEF Promise!Deliver, Promise!Range, Range
  <2>3. CASE Dispose \/ Exit \/ Crash \/ Restart \/ UNCHANGED vars
    BY <2>3 DEF Dispose, Exit, Crash, Restart, Die, vars, store, Promise!vars
  <2>4. ASSUME NEW s \in Slots, Tick(s) PROVE UNCHANGED Promise!vars
    BY <2>4 DEF Tick, store, Promise!vars
  <2> QED BY <1>2, <2>1, <2>2, <2>3, <2>4 DEF Next, Promise!Next
<1> QED BY <1>1, <1>2, AlwaysIInv, PTL DEF Spec, RefinesOutboxDelivery, Promise!Spec

-----------------------------------------------------------------------------
(* How often a row is on the topic *)

\* A batch stages each of its rows once.
StagedOnce ==
    \A s \in Slots : pc[s] \in {"send", "commit"} =>
        /\ todo[s] \cap SentRows(s) = {}
        /\ \A i, j \in DOMAIN sent[s] : sent[s][i] = sent[s][j] => i = j

\* A copy of a row is paid for by a fault or by its mark.
CopiesCounted ==
    \A r \in Rows : Copies(r) <= faults + (IF r \in marked THEN 1 ELSE 0)

\* The places at which a sequence holds a value.
Places(l, q) == {i \in DOMAIN l : l[i] = q}

\* Their number is a natural number.
LEMMA PlacesFinite ==
    ASSUME NEW S, NEW l \in Seq(S), NEW q
    PROVE  IsFiniteSet(Places(l, q)) /\ Cardinality(Places(l, q)) \in Nat
<1>1. DOMAIN l = 1..Len(l) /\ Len(l) \in Nat
  OBVIOUS
<1>2. IsFiniteSet(1..Len(l))
  BY <1>1, FS_Interval
<1>3. Places(l, q) \in SUBSET (1..Len(l))
  BY <1>1 DEF Places
<1>4. IsFiniteSet(Places(l, q))
  BY <1>2, <1>3, FS_Subset
<1> QED BY <1>4, FS_CardinalityType

\* Appending a sequence without repetitions adds at most one copy of a value,
\* and none of a value it does not hold.
LEMMA PlacesOfConcat ==
    ASSUME NEW S, NEW l \in Seq(S), NEW t \in Seq(S), NEW q,
           \A i, j \in DOMAIN t : t[i] = t[j] => i = j
    PROVE  Cardinality(Places(l \o t, q)) =
             Cardinality(Places(l, q)) + (IF q \in Range(t) THEN 1 ELSE 0)
<1> DEFINE P == Places(l, q)
           Q == Places(l \o t, q)
<1>3. IsFiniteSet(P) /\ Cardinality(P) \in Nat
  BY PlacesFinite
<1> HIDE DEF P, Q
<1>1. /\ DOMAIN l = 1..Len(l) /\ Len(l) \in Nat
      /\ DOMAIN t = 1..Len(t) /\ Len(t) \in Nat
  OBVIOUS
<1>2. /\ DOMAIN (l \o t) = 1..(Len(l) + Len(t))
      /\ \A i \in 1..Len(l) : (l \o t)[i] = l[i]
      /\ \A i \in 1..Len(t) : (l \o t)[Len(l) + i] = t[i]
  BY <1>1
<1>4. P \subseteq Q
  BY <1>1, <1>2 DEF P, Q, Places
<1>5. ASSUME NEW i \in Q, i \notin P
      PROVE  i - Len(l) \in DOMAIN t /\ t[i - Len(l)] = q
  <2>1. i \in 1..(Len(l) + Len(t)) /\ i \notin 1..Len(l)
    BY <1>1, <1>2, <1>5 DEF P, Q, Places
  <2>2. i - Len(l) \in 1..Len(t) /\ Len(l) + (i - Len(l)) = i
    BY <1>1, <2>1
  <2> QED BY <1>1, <1>2, <1>5, <2>2 DEF Q, Places
<1>6. CASE q \notin Range(t)
  <2>1. \A i \in Q : i \in P
    BY <1>5, <1>6 DEF Range
  <2>2. Q = P
    BY <1>4, <2>1
  <2> QED BY <1>3, <1>6, <2>2 DEF P, Q
<1>7. CASE q \in Range(t)
  <2>1. PICK k \in DOMAIN t : t[k] = q
    BY <1>7 DEF Range
  <2>2. Len(l) + k \notin P /\ Len(l) + k \in Q
    BY <1>1, <1>2, <2>1 DEF P, Q, Places
  <2>3. ASSUME NEW i \in Q, i \notin P PROVE i = Len(l) + k
    <3>1. i - Len(l) = k
      BY <1>5, <2>1, <2>3
    <3>2. i \in Int
      BY <1>1, <1>2 DEF Q, Places
    <3> QED BY <1>1, <2>1, <3>1, <3>2
  <2>4. Q = P \cup {Len(l) + k}
    BY <1>4, <2>2, <2>3
  <2>5. Cardinality(P \cup {Len(l) + k}) = Cardinality(P) + 1
    BY <1>3, <2>2, FS_AddElement
  <2> QED BY <1>3, <1>7, <2>4, <2>5 DEF P, Q
<1> QED BY <1>6, <1>7

\* The same for a single value.
LEMMA PlacesOfAppend ==
    ASSUME NEW S, NEW l \in Seq(S), NEW r \in S, NEW q
    PROVE  Cardinality(Places(Append(l, r), q)) =
             Cardinality(Places(l, q)) + (IF q = r THEN 1 ELSE 0)
<1>1. <<r>> \in Seq(S) /\ \A i, j \in DOMAIN <<r>> : i = j
  OBVIOUS
<1>3. Range(<<r>>) = {r}
  BY DEF Range
<1>2. Append(l, r) = l \o <<r>>
  BY AppendIsConcat
<1>4. Cardinality(Places(l \o <<r>>, q)) =
        Cardinality(Places(l, q)) + (IF q \in Range(<<r>>) THEN 1 ELSE 0)
  BY <1>1, PlacesOfConcat
<1> QED BY <1>2, <1>3, <1>4

\* Copies counts the places of a row on the topic.
LEMMA CopiesAreCounts ==
    ASSUME IInv, NEW q
    PROVE  Copies(q) = Cardinality(Places(log, q)) /\ Copies(q) \in Nat
<1>1. log \in Seq(Rows)
  BY DEF IInv, TypeOK
<1>2. Copies(q) = Cardinality(Places(log, q))
  BY DEF Copies, Places
<1> QED BY <1>1, <1>2, PlacesFinite

\* What a reply adds to the topic it marks, or it is a fault.
LEMMA ReplyPays ==
    ASSUME IInv, NEW s \in Slots, Reply(s)
    PROVE  \/ UNCHANGED <<log, marked, faults>>
           \/ \E r \in todo[s] :
                /\ log' = Append(log, r)
                /\ \/ marked' = marked \cup {r} /\ faults' = faults
                   \/ marked' = marked /\ faults' = faults + 1
           \/ /\ pc[s] = "commit"
              /\ log' = log \o sent[s]
              /\ \/ marked' = marked \cup SentRows(s) /\ faults' = faults
                 \/ marked' = marked /\ faults' = faults + 1
<1>1. CASE Begin(s) \/ BeginFails(s) \/ SendFails(s) \/ CommitFails(s) \/ Abort(s)
           \/ Notify(s) \/ NotifyFails(s)
  BY <1>1 DEF Begin, BeginFails, SendFails, CommitFails, Abort, Notify, NotifyFails, store
<1>2. ASSUME NEW r \in todo[s],
             SendAlone(s, r) \/ SendAloneMarkFails(s, r) \/ SendAckLost(s, r)
      PROVE  /\ log' = Append(log, r)
             /\ \/ marked' = marked \cup {r} /\ faults' = faults
                \/ marked' = marked /\ faults' = faults + 1
  BY <1>2 DEF SendAlone, SendAloneMarkFails, SendAckLost, store
<1>3. ASSUME NEW r \in todo[s], SendInTx(s, r)
      PROVE  UNCHANGED <<log, marked, faults>>
  BY <1>3 DEF SendInTx, store
<1>4. CASE Commit(s) \/ CommitMarkFails(s) \/ CommitAckLost(s)
  BY <1>4 DEF Commit, CommitMarkFails, CommitAckLost, store
<1> QED BY <1>1, <1>2, <1>3, <1>4 DEF Reply

\* A reply keeps every copy paid for: the rows it sends were not marked.
LEMMA ReplyCopies ==
    ASSUME IInv, StagedOnce, CopiesCounted, NEW s \in Slots, Reply(s)
    PROVE  CopiesCounted'
<1>1. /\ log \in Seq(Rows) /\ sent[s] \in Seq(Rows) /\ todo[s] \subseteq Rows
      /\ faults \in Nat /\ Rows' = Rows
  BY ReplyFrame DEF IInv, TypeOK, Rows
<1>2. \A q \in Rows : Copies(q) \in Nat
  BY CopiesAreCounts
<1>6. \A q : /\ Copies(q) = Cardinality(Places(log, q))
             /\ Copies(q)' = Cardinality(Places(log', q))
  BY DEF Copies, Places
<1>3. CASE UNCHANGED <<log, marked, faults>>
  BY <1>1, <1>3 DEF CopiesCounted, Copies
<1>4. ASSUME NEW r \in todo[s], log' = Append(log, r),
             \/ marked' = marked \cup {r} /\ faults' = faults
             \/ marked' = marked /\ faults' = faults + 1
      PROVE  CopiesCounted'
  <2>1. r \in Rows /\ r \notin marked
    BY <1>1 DEF IInv, Unsettled
  <2>2. ASSUME NEW q \in Rows
        PROVE  Copies(q)' = Copies(q) + (IF q = r THEN 1 ELSE 0)
    BY <1>1, <1>4, <1>6, <2>1, PlacesOfAppend
  <2> QED BY <1>1, <1>2, <1>4, <2>1, <2>2 DEF CopiesCounted
<1>5. ASSUME pc[s] = "commit", log' = log \o sent[s],
             \/ marked' = marked \cup SentRows(s) /\ faults' = faults
             \/ marked' = marked /\ faults' = faults + 1
      PROVE  CopiesCounted'
  <2>1. \A r \in SentRows(s) : r \notin marked
    BY <1>5 DEF IInv, Unsettled
  <2>2. \A i, j \in DOMAIN sent[s] : sent[s][i] = sent[s][j] => i = j
    BY <1>5 DEF StagedOnce
  <2>3. ASSUME NEW q \in Rows
        PROVE  Copies(q)' = Copies(q) + (IF q \in SentRows(s) THEN 1 ELSE 0)
    BY <1>1, <1>5, <1>6, <2>2, PlacesOfConcat DEF SentRows
  <2> QED BY <1>1, <1>2, <1>5, <2>1, <2>3 DEF CopiesCounted
<1> QED BY <1>3, <1>4, <1>5, ReplyPays

\* A reply stages a row that the batch still had to send, once.
LEMMA ReplyStages ==
    ASSUME IInv, IInv', StagedOnce, NEW s \in Slots, Reply(s)
    PROVE  StagedOnce'
<1>1. /\ sent[s] \in Seq(Rows) /\ todo[s] \subseteq Rows /\ Shape
      /\ DOMAIN sent[s] = 1..Len(sent[s]) /\ Len(sent[s]) \in Nat
  BY DEF IInv, TypeOK
<1>2. \A t \in Slots : pc'[t] \in {"send", "commit"} => t = s
  BY ReplyFrame
<1> DEFINE Once == /\ todo'[s] \cap Range(sent'[s]) = {}
                   /\ \A i, j \in DOMAIN sent'[s] : sent'[s][i] = sent'[s][j] => i = j
<1>3. ASSUME sent'[s] = << >> PROVE Once
  BY <1>3 DEF Range
<1>4. ASSUME NEW r \in todo[s], pc[s] = "send",
             todo'[s] = todo[s] \ {r}, sent'[s] = Append(sent[s], r)
      PROVE  Once
  <2>1. /\ todo[s] \cap SentRows(s) = {}
        /\ \A i, j \in DOMAIN sent[s] : sent[s][i] = sent[s][j] => i = j
    BY <1>4 DEF StagedOnce
  <2>2. Range(sent'[s]) = SentRows(s) \cup {r}
    BY <1>1, <1>4, AppendRange DEF SentRows
  <2>3. \A i \in DOMAIN sent[s] : sent[s][i] # r
    BY <2>1 DEF SentRows, Range
  <2>4. /\ DOMAIN sent'[s] = 1..(Len(sent[s]) + 1)
        /\ \A i \in 1..Len(sent[s]) : sent'[s][i] = sent[s][i]
        /\ sent'[s][Len(sent[s]) + 1] = r
    BY <1>1, <1>4
  <2>5. ASSUME NEW i \in DOMAIN sent'[s], NEW j \in DOMAIN sent'[s],
               sent'[s][i] = sent'[s][j]
        PROVE  i = j
    BY <1>1, <2>1, <2>3, <2>4, <2>5
  <2> QED BY <1>4, <2>1, <2>2, <2>5
<1>5. pc'[s] \in {"send", "commit"} => Once
  <2>1. ~Transactional /\ pc'[s] = "send" => sent'[s] = << >>
    BY DEF IInv, Shape
  <2>2. pc[s] = "begin" => sent[s] = << >>
    BY <1>1 DEF Shape
  <2>3. Transactional /\ pc[s] = "notify" => todo[s] = {}
    BY <1>1 DEF Shape
  <2> QED BY <1>3, <1>4, <2>1, <2>2, <2>3, ReplyHolds
<1> QED BY <1>2, <1>5 DEF StagedOnce, SentRows

\* A new row has no copy yet.
LEMMA InsertCopies ==
    ASSUME IInv, CopiesCounted, InsertPending
    PROVE  CopiesCounted'
<1>1. /\ outbox \in Seq(Kinds) /\ log \in Seq(Rows) /\ faults \in Nat
      /\ UNCHANGED <<log, marked, faults>>
  BY DEF IInv, TypeOK, InsertPending
<1>2. PICK kind \in Kinds : outbox' = Append(outbox, kind)
  BY DEF InsertPending
<1>3. Rows = 1..Len(outbox) /\ Len(outbox) \in Nat /\ Rows' = 1..(Len(outbox) + 1)
  BY <1>1, <1>2 DEF Rows
<1>4. ASSUME NEW q \in Rows', q \notin Rows PROVE Copies(q) = 0
  <2>1. {i \in DOMAIN log : log[i] = q} = {}
    BY <1>1, <1>4
  <2> QED BY <2>1, FS_EmptySet DEF Copies
<1>5. \A q \in Rows' : Copies(q)' = Copies(q)
  BY <1>1 DEF Copies
<1> QED BY <1>1, <1>4, <1>5 DEF CopiesCounted

\* Every step keeps both.
LEMMA CountStep ==
    ASSUME IInv, IInv', StagedOnce, CopiesCounted, [Next]_vars
    PROVE  StagedOnce' /\ CopiesCounted'
<1>1. CASE InsertPending
  <2>1. UNCHANGED <<pc, todo, sent>>
    BY <1>1 DEF InsertPending, run
  <2> QED BY <1>1, <2>1, InsertCopies DEF StagedOnce, SentRows
<1>2. ASSUME NEW s \in Slots, Reply(s) PROVE StagedOnce' /\ CopiesCounted'
  BY <1>2, ReplyStages, ReplyCopies
<1>3. ASSUME NEW s \in Slots, Tick(s) PROVE StagedOnce' /\ CopiesCounted'
  <2>1. /\ \A t \in Slots : pc[t] = "idle" /\ sent[t] = << >>
        /\ UNCHANGED <<outbox, log, marked, faults, sent>>
    BY <1>3 DEF Tick, IInv, SingleRun, Shape, store
  <2>2. StagedOnce'
    BY <2>1 DEF StagedOnce, SentRows, Range
  <2>3. CopiesCounted'
    BY <2>1 DEF CopiesCounted, Copies, Rows
  <2> QED BY <2>2, <2>3
<1>4. CASE Dispose \/ Exit \/ Crash \/ Restart \/ UNCHANGED vars
  <2>1. UNCHANGED <<outbox, log, marked>> /\ faults' \in {faults, faults + 1}
    BY <1>4 DEF Dispose, Exit, Crash, Restart, Die, vars, store
  <2>2. faults \in Nat /\ \A q \in Rows : Copies(q) \in Nat
    BY CopiesAreCounts DEF IInv, TypeOK
  <2>3. CopiesCounted'
    <3>1. Rows' = Rows /\ \A q \in Rows : Copies(q)' = Copies(q)
      BY <2>1 DEF Rows, Copies
    <3> QED BY <2>1, <2>2, <3>1 DEF CopiesCounted
  <2>4. StagedOnce'
    <3>1. CASE Dispose \/ Restart \/ UNCHANGED vars
      BY <3>1 DEF Dispose, Restart, vars, run, StagedOnce, SentRows
    <3>2. CASE Exit \/ Crash
      BY <3>2 DEF Exit, Crash, Die, StagedOnce
    <3> QED BY <1>4, <3>1, <3>2
  <2> QED BY <2>3, <2>4
<1> QED BY <1>1, <1>2, <1>3, <1>4 DEF Next

\* A row is on the topic at most once more often than something failed: ticks that
\* overlap a slow run, aborted batches and restarts send nothing twice.
THEOREM FewDuplicates == Spec => []DuplicatesNeedFaults
<1>1. Init => StagedOnce /\ CopiesCounted
  BY DEF Init, StagedOnce, CopiesCounted, Rows
<1>2. IInv /\ IInv' /\ StagedOnce /\ CopiesCounted /\ [Next]_vars =>
        StagedOnce' /\ CopiesCounted'
  BY CountStep
<1>3. IInv /\ CopiesCounted => DuplicatesNeedFaults
  <2> SUFFICES ASSUME IInv, CopiesCounted, NEW r \in Rows PROVE Copies(r) <= 1 + faults
    BY DEF DuplicatesNeedFaults
  <2>1. faults \in Nat /\ Copies(r) \in Nat
    BY CopiesAreCounts DEF IInv, TypeOK
  <2> QED BY <2>1 DEF CopiesCounted
<1> QED BY <1>1, <1>2, <1>3, AlwaysIInv, PTL DEF Spec
=============================================================================
