-------------------------- MODULE CustomerViewProofs --------------------------
(***************************************************************************)
(* Proofs about CustomerView, for every set of customers and every bound.  *)
(* The inductive invariant says what the store of the view holds at any    *)
(* position, not only when the view has caught up, and how the aggregate   *)
(* in the memory of the web app compares with the orders in its database.  *)
(***************************************************************************)
EXTENDS CustomerView, SequenceTheorems, TLAPS

\* The view shows the record before its position, or nothing where it started and
\* where a DELETE was answered, until it applies the next record.
StoreFollowsPosition ==
    \A c \in Customers :
        \/ store[c] = Latest(c, position[c])
        \/ store[c] = Absent /\ position[c] \in {answered[c], resumed[c]}

\* The aggregate in memory counts the stored orders and at most the rolled back ones,
\* and the newest row of the outbox is between the two.
TotalsAreBounded ==
    webStarts = 0 => \A c \in Customers :
        /\ orders[c] <= totals[c] /\ totals[c] <= orders[c] + rollbacks
        /\ outbox[c] # << >> => /\ orders[c] <= outbox[c][Len(outbox[c])]
                                /\ outbox[c][Len(outbox[c])] <= orders[c] + rollbacks

\* Record i is the last one of the web app on a log of customer c, and the row it
\* shows is not behind what the relay has published in this attempt.
IsLastOfWeb(c, i) ==
    /\ log[c][i].by = "web"
    /\ sent[c] <= log[c][i].row /\ log[c][i].row <= Len(outbox[c])
    /\ \A j \in i + 1 .. Len(log[c]) : log[c][j].by # "web"

\* Also when a batch is about to be published again.
LastIsAhead ==
    \A c \in Customers : sent[c] > 0 => \E i \in 1 .. Len(log[c]) : IsLastOfWeb(c, i)

IInv == TypeOK /\ StoreFollowsPosition /\ TotalsAreBounded /\ LastIsAhead

-----------------------------------------------------------------------------
(* Appending *)

\* Appending to a sequence keeps what it has and puts the element last.
LEMMA AppendFacts ==
    ASSUME NEW S, NEW s \in Seq(S), NEW e \in S
    PROVE  /\ Append(s, e) \in Seq(S)
           /\ Len(Append(s, e)) = Len(s) + 1 /\ Len(s) \in Nat
           /\ Append(s, e)[Len(s) + 1] = e
           /\ \A i \in 1 .. Len(s) : Append(s, e)[i] = s[i]
           /\ Append(s, e) # << >>
  BY AppendProperties, LenProperties

\* The values of one customer.
LEMMA Values ==
    ASSUME TypeOK, NEW c \in Customers
    PROVE  /\ orders[c] \in Nat /\ totals[c] \in Nat /\ produced[c] \in Nat /\ store[c] \in Nat
           /\ sent[c] \in Nat /\ marked[c] \in Nat /\ position[c] \in Nat /\ committed[c] \in Nat
           /\ deleting[c] \in Nat
           /\ outbox[c] \in Seq(Nat) /\ Len(outbox[c]) \in Nat
           /\ log[c] \in Seq(Record) /\ Len(log[c]) \in Nat
           /\ PointersInside(c)
<1>1. outbox[c] \in Seq(Nat) /\ log[c] \in Seq(Record)
  BY DEF TypeOK, Types
<1>2. Len(outbox[c]) \in Nat /\ Len(log[c]) \in Nat
  BY <1>1, LenProperties
<1> QED
  BY <1>1, <1>2 DEF TypeOK, Types

\* A record of a log has a value.
LEMMA LogValue ==
    ASSUME TypeOK, NEW c \in Customers, NEW i \in 1 .. Len(log[c])
    PROVE  log[c][i].value \in Nat
<1>1. log[c][i] \in Record
  BY Values, ElementOfSeq
<1> QED
  BY <1>1 DEF Record

\* ... and a row number.
LEMMA LogRow ==
    ASSUME TypeOK, NEW c \in Customers, NEW i \in 1 .. Len(log[c])
    PROVE  log[c][i].row \in Nat
<1>1. log[c][i] \in Record
  BY Values, ElementOfSeq
<1> QED
  BY <1>1 DEF Record

\* A row of the outbox has a value.
LEMMA RowValue ==
    ASSUME TypeOK, NEW c \in Customers, NEW i \in 1 .. Len(outbox[c])
    PROVE  outbox[c][i] \in Nat
  BY Values, ElementOfSeq

\* The records the four writers append.
LEMMA NewRecords ==
    ASSUME TypeOK, NEW c \in Customers
    PROVE  /\ sent[c] < Len(outbox[c]) =>
                [by |-> "web", row |-> sent[c] + 1, value |-> outbox[c][sent[c] + 1]] \in Record
           /\ [by |-> "producer", row |-> 0, value |-> produced[c] + 1] \in Record
           /\ [by |-> "view", row |-> 0, value |-> Absent] \in Record
           /\ [by |-> "other", row |-> 0, value |-> Absent] \in Record
<1>1. sent[c] < Len(outbox[c]) => sent[c] + 1 \in 1 .. Len(outbox[c])
  BY Values
<1>2. sent[c] < Len(outbox[c]) => outbox[c][sent[c] + 1] \in Nat
  BY <1>1, RowValue
<1> QED
  BY <1>2, Values DEF Record, Absent

\* Appending to one log types the logs and leaves the others alone.
LEMMA AppendToLog ==
    ASSUME TypeOK, NEW c \in Customers, NEW r \in Record,
           log' = [log EXCEPT ![c] = Append(@, r)]
    PROVE  /\ log' \in [Customers -> Seq(Record)]
           /\ \A d \in Customers : /\ Len(log[d]) <= Len(log'[d]) /\ Len(log'[d]) \in Nat
                                   /\ \A i \in 1 .. Len(log[d]) : log'[d][i] = log[d][i]
<1>1. log \in [Customers -> Seq(Record)]
  BY DEF TypeOK, Types
<1>2. /\ Append(log[c], r) \in Seq(Record)
      /\ Len(Append(log[c], r)) = Len(log[c]) + 1 /\ Len(log[c]) \in Nat
      /\ \A i \in 1 .. Len(log[c]) : Append(log[c], r)[i] = log[c][i]
  BY Values, AppendFacts
<1>3. log'[c] = Append(log[c], r) /\ \A d \in Customers \ {c} : log'[d] = log[d]
  BY <1>1
<1>4. \A d \in Customers : Len(log[d]) \in Nat
  BY Values
<1> QED
  BY <1>1, <1>2, <1>3, <1>4

-----------------------------------------------------------------------------
(* The initial states *)

\* Empty tables, topics and maps satisfy the invariant.
LEMMA InitIInv == Init => IInv
<1> SUFFICES ASSUME Init PROVE IInv
  OBVIOUS
<1>1. Types
  BY DEF Init, Types, Absent
<1>2. ASSUME NEW c \in Customers PROVE PointersInside(c)
  <2>1. outbox[c] = << >> /\ log[c] = << >>
    BY DEF Init
  <2>2. Len(outbox[c]) = 0 /\ Len(log[c]) = 0
    BY <2>1, EmptySeq
  <2>3. sent[c] = 0 /\ marked[c] = 0 /\ position[c] = 0 /\ committed[c] = 0
    BY DEF Init
  <2> QED
    BY <2>2, <2>3 DEF PointersInside
<1> QED
  BY <1>1, <1>2 DEF Init, IInv, TypeOK, StoreFollowsPosition, TotalsAreBounded, Latest, LastIsAhead

-----------------------------------------------------------------------------
(* Type correctness of a step *)

\* Every step keeps the types and the pointers inside their sequences.
LEMMA StepType == TypeOK /\ [Next]_vars => TypeOK'
<1> SUFFICES ASSUME TypeOK, [Next]_vars PROVE TypeOK'
  OBVIOUS
<1>0. Types
  BY DEF TypeOK
<1>a. orders \in [Customers -> Nat] /\ totals \in [Customers -> Nat] /\ produced \in [Customers -> Nat]
  BY <1>0 DEF Types
<1>b. sent \in [Customers -> Nat] /\ marked \in [Customers -> Nat]
  BY <1>0 DEF Types
<1>c. /\ store \in [Customers -> Nat] /\ position \in [Customers -> Nat]
      /\ committed \in [Customers -> Nat] /\ deleting \in [Customers -> Nat]
      /\ answered \in [Customers -> Nat]
  BY <1>0 DEF Types
<1>d. /\ deletes \in Nat /\ rollbacks \in Nat /\ webStarts \in Nat
      /\ viewStarts \in Nat /\ retries \in Nat
  BY <1>0 DEF Types
<1>e. outbox \in [Customers -> Seq(Nat)]
  BY <1>0 DEF Types
<1>1. ASSUME NEW c \in Customers, CreateOrder(c) PROVE TypeOK'
  <2>1. /\ Append(outbox[c], totals[c] + 1) \in Seq(Nat)
        /\ Len(Append(outbox[c], totals[c] + 1)) = Len(outbox[c]) + 1
    BY Values, AppendFacts
  <2>2. Types'
    <3>1. /\ orders' \in [Customers -> Nat]
          /\ totals' \in [Customers -> Nat]
          /\ outbox' \in [Customers -> Seq(Nat)]
      BY <1>1, <1>a, <1>e, <2>1 DEF CreateOrder, Applied
    <3>2. UNCHANGED <<relay, produced, log, view, faults>>
      BY <1>1 DEF CreateOrder
    <3> QED
      BY <1>0, <3>1, <3>2 DEF Types, relay, view, faults
  <2>3. /\ \A d \in Customers : Len(outbox'[d]) = Len(outbox[d]) \/ Len(outbox'[d]) = Len(outbox[d]) + 1
        /\ sent' = sent /\ marked' = marked /\ position' = position /\ committed' = committed
        /\ log' = log
    BY <1>1, <1>e, <2>1 DEF CreateOrder, relay, view, Applied
  <2>4. ASSUME NEW d \in Customers PROVE PointersInside(d)'
    <3>1. PointersInside(d) /\ Len(outbox[d]) \in Nat /\ sent[d] \in Nat
      BY Values
    <3>2. Len(outbox'[d]) = Len(outbox[d]) \/ Len(outbox'[d]) = Len(outbox[d]) + 1
      BY <2>3
    <3> QED
      BY <2>3, <3>1, <3>2 DEF PointersInside
  <2> QED
    BY <2>2, <2>4 DEF TypeOK
<1>2. ASSUME NEW c \in Customers, CreateOrderRollsBack(c) PROVE TypeOK'
  <2>1. Types'
    <3>1. totals' \in [Customers -> Nat] /\ rollbacks' \in Nat
      BY <1>2, <1>a, <1>d DEF CreateOrderRollsBack, Applied
    <3>2. UNCHANGED <<orders, outbox, relay, produced, log, view, webStarts, viewStarts, retries>>
      BY <1>2 DEF CreateOrderRollsBack
    <3> QED
      BY <1>0, <3>1, <3>2 DEF Types, relay, view
  <2>2. ASSUME NEW d \in Customers PROVE PointersInside(d)'
    BY <1>2, Values DEF PointersInside, CreateOrderRollsBack, relay, view, Applied
  <2> QED
    BY <2>1, <2>2 DEF TypeOK
<1>3. CASE RestartWeb
  <2>1. Types'
    <3>1. totals' \in [Customers -> Nat] /\ sent' \in [Customers -> Nat] /\ webStarts' \in Nat
      BY <1>3, <1>b, <1>d DEF RestartWeb
    <3>2. UNCHANGED <<orders, outbox, marked, produced, log, view, rollbacks, viewStarts, retries>>
      BY <1>3 DEF RestartWeb
    <3> QED
      BY <1>0, <3>1, <3>2 DEF Types, view
  <2>2. ASSUME NEW d \in Customers PROVE PointersInside(d)'
    BY <1>3, Values DEF PointersInside, RestartWeb, view
  <2> QED
    BY <2>1, <2>2 DEF TypeOK
<1>4. ASSUME NEW c \in Customers, Publish(c) PROVE TypeOK'
  <2>1. /\ log' \in [Customers -> Seq(Record)]
        /\ \A d \in Customers : Len(log[d]) <= Len(log'[d]) /\ Len(log'[d]) \in Nat
    BY <1>4, NewRecords, AppendToLog DEF Publish
  <2>2. Types'
    <3>1. sent' \in [Customers -> Nat]
      BY <1>4, <1>b DEF Publish
    <3>2. UNCHANGED <<web, marked, produced, view, faults>>
      BY <1>4 DEF Publish
    <3> QED
      BY <1>0, <2>1, <3>1, <3>2 DEF Types, web, view, faults
  <2>3. /\ sent'[c] = sent[c] + 1 /\ sent[c] < Len(outbox[c])
        /\ \A d \in Customers \ {c} : sent'[d] = sent[d]
    BY <1>4, <1>b DEF Publish
  <2>4. ASSUME NEW d \in Customers PROVE PointersInside(d)'
    BY <1>4, <2>1, <2>3, Values DEF PointersInside, Publish, web, view
  <2> QED
    BY <2>2, <2>4 DEF TypeOK
<1>5. ASSUME NEW c \in Customers, MarkPublished(c) PROVE TypeOK'
  <2>1. Types'
    <3>1. marked' \in [Customers -> Nat]
      BY <1>5, <1>b DEF MarkPublished
    <3>2. UNCHANGED <<web, sent, produced, log, view, faults>>
      BY <1>5 DEF MarkPublished
    <3> QED
      BY <1>0, <3>1, <3>2 DEF Types, web, view, faults
  <2>2. /\ marked'[c] = marked[c] + 1 /\ marked[c] < sent[c]
        /\ \A d \in Customers \ {c} : marked'[d] = marked[d]
    BY <1>5, <1>b DEF MarkPublished
  <2>3. ASSUME NEW d \in Customers PROVE PointersInside(d)'
    BY <1>5, <2>2, Values DEF PointersInside, MarkPublished, web, view
  <2> QED
    BY <2>1, <2>3 DEF TypeOK
<1>6. CASE RetryBatch
  <2>1. Types'
    <3>1. sent' \in [Customers -> Nat] /\ retries' \in Nat
      BY <1>6, <1>b, <1>d DEF RetryBatch
    <3>2. UNCHANGED <<web, marked, produced, log, view, rollbacks, webStarts, viewStarts>>
      BY <1>6 DEF RetryBatch
    <3> QED
      BY <1>0, <3>1, <3>2 DEF Types, web, view
  <2>2. ASSUME NEW d \in Customers PROVE PointersInside(d)'
    BY <1>6, Values DEF PointersInside, RetryBatch, web, view
  <2> QED
    BY <2>1, <2>2 DEF TypeOK
<1>7. ASSUME NEW c \in Customers, ProduceSample(c) PROVE TypeOK'
  <2>1. /\ log' \in [Customers -> Seq(Record)]
        /\ \A d \in Customers : Len(log[d]) <= Len(log'[d]) /\ Len(log'[d]) \in Nat
    BY <1>7, NewRecords, AppendToLog DEF ProduceSample, Applied
  <2>2. Types'
    <3>1. produced' \in [Customers -> Nat]
      BY <1>7, <1>a DEF ProduceSample, Applied
    <3>2. UNCHANGED <<web, relay, view, faults>>
      BY <1>7 DEF ProduceSample
    <3> QED
      BY <1>0, <2>1, <3>1, <3>2 DEF Types, web, relay, view, faults
  <2>3. ASSUME NEW d \in Customers PROVE PointersInside(d)'
    BY <1>7, <2>1, Values DEF PointersInside, ProduceSample, web, relay, view, Applied
  <2> QED
    BY <2>2, <2>3 DEF TypeOK
<1>8. ASSUME NEW c \in Customers, Apply(c) PROVE TypeOK'
  <2>1. position[c] < Len(log[c]) /\ position[c] + 1 \in 1 .. Len(log[c])
    BY <1>8, Values DEF Apply, Deliverable
  <2>2. log[c][position[c] + 1].value \in Nat
    BY <2>1, LogValue
  <2>3. Types'
    <3>1. store' \in [Customers -> Nat] /\ position' \in [Customers -> Nat]
      BY <1>8, <1>c, <2>2 DEF Apply, Incoming
    <3>2. UNCHANGED <<web, relay, produced, log, committed, deleting, deletes, answered, resumed, faults>>
      BY <1>8 DEF Apply
    <3> QED
      BY <1>0, <3>1, <3>2 DEF Types, web, relay, faults
  <2>4. /\ position'[c] = position[c] + 1
        /\ \A d \in Customers \ {c} : position'[d] = position[d]
    BY <1>8, <1>c DEF Apply
  <2>5. ASSUME NEW d \in Customers PROVE PointersInside(d)'
    BY <1>8, <2>1, <2>4, Values DEF PointersInside, Apply, web, relay
  <2> QED
    BY <2>3, <2>5 DEF TypeOK
<1>9. ASSUME NEW c \in Customers, AutoCommit(c) PROVE TypeOK'
  <2>1. Types'
    <3>1. committed' \in [Customers -> Nat]
      BY <1>9, <1>c DEF AutoCommit
    <3>2. UNCHANGED <<web, relay, produced, log, store, position, deleting, deletes, answered, resumed, faults>>
      BY <1>9 DEF AutoCommit
    <3> QED
      BY <1>0, <3>1, <3>2 DEF Types, web, relay, faults
  <2>2. committed'[c] = position[c] /\ \A d \in Customers \ {c} : committed'[d] = committed[d]
    BY <1>9, <1>c DEF AutoCommit
  <2>3. ASSUME NEW d \in Customers PROVE PointersInside(d)'
    BY <1>9, <2>2, Values DEF PointersInside, AutoCommit, web, relay
  <2> QED
    BY <2>1, <2>3 DEF TypeOK
<1>10. CASE StartAgain /\ deletes' \in Nat
  <2>1. Types'
    <3>1. /\ store' \in [Customers -> Nat]
          /\ position' \in [Customers -> Nat]
          /\ deleting' \in [Customers -> Nat]
          /\ answered' \in [Customers -> Nat] /\ resumed' \in [Customers -> Nat]
          /\ viewStarts' \in Nat /\ deletes' \in Nat
      BY <1>10, <1>c, <1>d DEF StartAgain, Absent
    <3>2. UNCHANGED <<web, relay, produced, log, committed, rollbacks, webStarts, retries>>
      BY <1>10 DEF StartAgain
    <3> QED
      BY <1>0, <3>1, <3>2 DEF Types, web, relay
  <2>2. ASSUME NEW d \in Customers PROVE PointersInside(d)'
    BY <1>10, Values DEF PointersInside, StartAgain, web, relay
  <2> QED
    BY <2>1, <2>2 DEF TypeOK
<1>11. ASSUME NEW c \in Customers, DeleteStart(c) PROVE TypeOK'
  <2>1. /\ log' \in [Customers -> Seq(Record)]
        /\ \A d \in Customers : Len(log[d]) <= Len(log'[d]) /\ Len(log'[d]) \in Nat
    BY <1>11, NewRecords, AppendToLog DEF DeleteStart
  <2>2. Types'
    <3>1. deleting' \in [Customers -> Nat] /\ deletes' \in Nat
      BY <1>11, <1>c, <1>d DEF DeleteStart
    <3>2. UNCHANGED <<web, relay, produced, store, position, committed, answered, resumed, faults>>
      BY <1>11 DEF DeleteStart
    <3> QED
      BY <1>0, <2>1, <3>1, <3>2 DEF Types, web, relay, faults
  <2>3. ASSUME NEW d \in Customers PROVE PointersInside(d)'
    BY <1>11, <2>1, Values DEF PointersInside, DeleteStart, web, relay
  <2> QED
    BY <2>2, <2>3 DEF TypeOK
<1>12. ASSUME NEW c \in Customers, DeleteEnd(c) PROVE TypeOK'
  <2>1. Types'
    <3>1. /\ store' \in [Customers -> Nat] /\ answered' \in [Customers -> Nat]
          /\ deleting' \in [Customers -> Nat]
      <4>1. deleting[c] - 1 \in Nat
        BY <1>12, Values DEF DeleteEnd
      <4> QED
        BY <1>12, <1>c, <4>1 DEF DeleteEnd, Absent
    <3>2. UNCHANGED <<web, relay, produced, log, position, committed, deletes, resumed, faults>>
      BY <1>12 DEF DeleteEnd
    <3> QED
      BY <1>0, <3>1, <3>2 DEF Types, web, relay, faults
  <2>2. ASSUME NEW d \in Customers PROVE PointersInside(d)'
    BY <1>12, Values DEF PointersInside, DeleteEnd, web, relay
  <2> QED
    BY <2>1, <2>2 DEF TypeOK
<1>13. ASSUME NEW c \in Customers, ProduceForeign(c) PROVE TypeOK'
  <2>1. /\ log' \in [Customers -> Seq(Record)]
        /\ \A d \in Customers : Len(log[d]) <= Len(log'[d]) /\ Len(log'[d]) \in Nat
    BY <1>13, NewRecords, AppendToLog DEF ProduceForeign
  <2>2. UNCHANGED <<web, relay, produced, view, faults>>
    BY <1>13 DEF ProduceForeign
  <2>3. ASSUME NEW d \in Customers PROVE PointersInside(d)'
    BY <2>1, <2>2, Values DEF PointersInside, web, relay, view
  <2> QED
    BY <1>0, <2>1, <2>2, <2>3 DEF TypeOK, Types, web, relay, view, faults
<1>14. CASE RestartView \/ DeleteRejects
  BY <1>10, <1>14, <1>d DEF RestartView, DeleteRejects
<1>15. CASE UNCHANGED vars
  BY <1>15 DEF TypeOK, Types, PointersInside, vars, web, relay, view, faults
<1> QED
  BY <1>1, <1>2, <1>3, <1>4, <1>5, <1>6, <1>7, <1>8, <1>9, <1>11, <1>12, <1>13, <1>14, <1>15 DEF Next

-----------------------------------------------------------------------------
(* The store of the view *)

\* A record appended to a log leaves what the view has read as it was.
LEMMA AppendKeepsLatest ==
    ASSUME TypeOK, NEW c \in Customers, NEW r \in Record,
           log' = [log EXCEPT ![c] = Append(@, r)], position' = position, NEW d \in Customers
    PROVE  Latest(d, position[d])' = Latest(d, position[d])
<1>1. position[d] = 0 \/ position[d] \in 1 .. Len(log[d])
  BY Values DEF PointersInside
<1>2. \A i \in 1 .. Len(log[d]) : log'[d][i] = log[d][i]
  BY AppendToLog
<1> QED
  BY <1>1, <1>2 DEF Latest

\* Every step keeps the store of the view at its position.
LEMMA StepStore == IInv /\ [Next]_vars => StoreFollowsPosition'
<1> SUFFICES ASSUME IInv, [Next]_vars PROVE StoreFollowsPosition'
  OBVIOUS
<1>0. TypeOK /\ StoreFollowsPosition
  BY DEF IInv
<1>1. ASSUME UNCHANGED <<log, store, position, answered, resumed>>
      PROVE  StoreFollowsPosition'
  BY <1>0, <1>1 DEF StoreFollowsPosition, Latest
<1>2. ASSUME NEW c \in Customers, NEW r \in Record, log' = [log EXCEPT ![c] = Append(@, r)],
             UNCHANGED <<store, position, answered, resumed>>
      PROVE  StoreFollowsPosition'
  <2>1. \A d \in Customers : Latest(d, position[d])' = Latest(d, position[d])
    BY <1>0, <1>2, AppendKeepsLatest
  <2> QED
    BY <1>0, <1>2, <2>1 DEF StoreFollowsPosition
<1>3. ASSUME NEW c \in Customers,
             CreateOrder(c) \/ CreateOrderRollsBack(c) \/ MarkPublished(c) \/ AutoCommit(c)
      PROVE  StoreFollowsPosition'
  BY <1>1, <1>3 DEF CreateOrder, CreateOrderRollsBack, MarkPublished, AutoCommit, view, Applied
<1>4. CASE RestartWeb \/ RetryBatch
  BY <1>1, <1>4 DEF RestartWeb, RetryBatch, view
<1>5. ASSUME NEW c \in Customers, Publish(c) PROVE StoreFollowsPosition'
  <2>1. [by |-> "web", row |-> sent[c] + 1, value |-> outbox[c][sent[c] + 1]] \in Record
    BY <1>0, <1>5, NewRecords DEF Publish
  <2> QED
    BY <1>2, <1>5, <2>1 DEF Publish, view
<1>6. ASSUME NEW c \in Customers, ProduceSample(c) PROVE StoreFollowsPosition'
  <2>1. [by |-> "producer", row |-> 0, value |-> produced[c] + 1] \in Record
    BY <1>0, NewRecords
  <2> QED
    BY <1>2, <1>6, <2>1 DEF ProduceSample, view, Applied
<1>7. ASSUME NEW c \in Customers, ProduceForeign(c) PROVE StoreFollowsPosition'
  BY <1>0, <1>2, <1>7, NewRecords DEF ProduceForeign, view
<1>8. ASSUME NEW c \in Customers, Apply(c) PROVE StoreFollowsPosition'
  <2>1. position[c] \in Nat /\ position'[c] = position[c] + 1 /\ position'[c] # 0 /\ log' = log
    BY <1>0, <1>8, Values DEF TypeOK, Types, Apply
  <2>2. store'[c] = Latest(c, position[c])'
    BY <1>0, <1>8, <2>1 DEF TypeOK, Types, Apply, Incoming, Latest
  <2>3. \A d \in Customers \ {c} : store'[d] = store[d] /\ position'[d] = position[d]
    BY <1>0, <1>8 DEF TypeOK, Types, Apply
  <2>4. answered' = answered /\ resumed' = resumed
    BY <1>8 DEF Apply
  <2> QED
    BY <1>0, <2>1, <2>2, <2>3, <2>4 DEF StoreFollowsPosition, Latest
<1>9. CASE RestartView \/ DeleteRejects
  <2>1. StartAgain
    BY <1>9 DEF RestartView, DeleteRejects
  <2> QED
    BY <2>1 DEF StoreFollowsPosition, StartAgain
<1>10. ASSUME NEW c \in Customers, DeleteStart(c) PROVE StoreFollowsPosition'
  BY <1>0, <1>2, <1>10, NewRecords DEF DeleteStart
<1>11. ASSUME NEW c \in Customers, DeleteEnd(c) PROVE StoreFollowsPosition'
  <2>1. /\ store'[c] = Absent /\ answered'[c] = position[c]
        /\ \A d \in Customers \ {c} : store'[d] = store[d] /\ answered'[d] = answered[d]
        /\ position' = position /\ log' = log /\ resumed' = resumed
    BY <1>0, <1>11 DEF TypeOK, Types, DeleteEnd
  <2> QED
    BY <1>0, <2>1 DEF StoreFollowsPosition, Latest
<1>12. CASE UNCHANGED vars
  BY <1>1, <1>12 DEF vars, view
<1> QED
  BY <1>3, <1>4, <1>5, <1>6, <1>7, <1>8, <1>9, <1>10, <1>11, <1>12 DEF Next

-----------------------------------------------------------------------------
(* The aggregate of the web app *)

\* Every step keeps the aggregate between the orders and the rollbacks.
LEMMA StepTotals == IInv /\ [Next]_vars => TotalsAreBounded'
<1> SUFFICES ASSUME IInv, [Next]_vars PROVE TotalsAreBounded'
  OBVIOUS
<1>0. TypeOK /\ TotalsAreBounded
  BY DEF IInv
<1>1. ASSUME UNCHANGED <<orders, totals, outbox, rollbacks, webStarts>> PROVE TotalsAreBounded'
  BY <1>0, <1>1 DEF TotalsAreBounded
<1>2. ASSUME NEW c \in Customers, CreateOrder(c) PROVE TotalsAreBounded'
  <2>0. rollbacks \in Nat
    BY <1>0 DEF TypeOK, Types
  <2>1. outbox[c] \in Seq(Nat) /\ totals[c] + 1 \in Nat /\ orders[c] \in Nat /\ rollbacks \in Nat
    BY <1>0, <2>0, Values
  <2>2. outbox'[c] = Append(outbox[c], totals[c] + 1)
    BY <1>0, <1>2 DEF TypeOK, Types, CreateOrder, Applied
  <2>3. outbox'[c][Len(outbox'[c])] = totals[c] + 1
    BY <2>1, <2>2, AppendFacts
  <2>4. /\ totals'[c] = totals[c] + 1 /\ orders'[c] = orders[c] + 1
        /\ \A d \in Customers \ {c} : /\ totals'[d] = totals[d] /\ orders'[d] = orders[d]
                                      /\ outbox'[d] = outbox[d]
    BY <1>0, <1>2 DEF TypeOK, Types, CreateOrder, Applied
  <2>5. rollbacks' = rollbacks /\ webStarts' = webStarts
    BY <1>2 DEF CreateOrder, faults, Applied
  <2>6. ASSUME webStarts = 0
        PROVE  /\ orders'[c] <= totals'[c] /\ totals'[c] <= orders'[c] + rollbacks'
               /\ outbox'[c][Len(outbox'[c])] = totals'[c]
    BY <1>0, <2>1, <2>3, <2>4, <2>5, <2>6, Values DEF TotalsAreBounded
  <2> QED
    BY <1>0, <2>4, <2>5, <2>6 DEF TotalsAreBounded
<1>3. ASSUME NEW c \in Customers, CreateOrderRollsBack(c) PROVE TotalsAreBounded'
  <2>1. rollbacks \in Nat /\ rollbacks' = rollbacks + 1 /\ webStarts' = webStarts
    BY <1>0, <1>3 DEF TypeOK, Types, CreateOrderRollsBack, Applied
  <2>2. /\ totals'[c] = totals[c] + 1 /\ \A d \in Customers \ {c} : totals'[d] = totals[d]
        /\ orders' = orders /\ outbox' = outbox
    BY <1>0, <1>3 DEF TypeOK, Types, CreateOrderRollsBack, Applied
  <2>3. ASSUME NEW d \in Customers, webStarts = 0
        PROVE  orders[d] <= totals'[d] /\ totals'[d] <= orders[d] + rollbacks'
    <3>1. orders[d] \in Nat /\ totals[d] \in Nat
      BY <1>0, Values
    <3>2. orders[d] <= totals[d] /\ totals[d] <= orders[d] + rollbacks
      BY <1>0, <2>3 DEF TotalsAreBounded
    <3>3. totals'[d] = totals[d] \/ totals'[d] = totals[d] + 1
      BY <2>2
    <3> QED
      BY <2>1, <3>1, <3>2, <3>3
  <2>4. ASSUME NEW d \in Customers, webStarts = 0, outbox[d] # << >>
        PROVE  /\ orders[d] <= outbox[d][Len(outbox[d])]
               /\ outbox[d][Len(outbox[d])] <= orders[d] + rollbacks'
    <3>1. Len(outbox[d]) \in 1 .. Len(outbox[d]) /\ orders[d] \in Nat
      BY <1>0, <2>4, Values, EmptySeq
    <3>2. outbox[d][Len(outbox[d])] \in Nat
      BY <1>0, <3>1, RowValue
    <3> QED
      BY <1>0, <2>1, <2>4, <3>1, <3>2 DEF TotalsAreBounded
  <2> QED
    BY <2>1, <2>2, <2>3, <2>4 DEF TotalsAreBounded
<1>4. CASE RestartWeb
  <2>1. webStarts' # 0
    BY <1>0, <1>4 DEF TypeOK, Types, RestartWeb
  <2> QED
    BY <2>1 DEF TotalsAreBounded
<1>5. ASSUME NEW c \in Customers, Publish(c) \/ MarkPublished(c) \/ ProduceSample(c)
                                  \/ ProduceForeign(c) \/ Apply(c) \/ AutoCommit(c)
                                  \/ DeleteStart(c) \/ DeleteEnd(c)
      PROVE  TotalsAreBounded'
  BY <1>1, <1>5 DEF Publish, MarkPublished, ProduceSample, ProduceForeign, Apply, AutoCommit, DeleteStart, DeleteEnd, web, faults, Applied
<1>6. CASE RetryBatch \/ RestartView \/ DeleteRejects
  BY <1>1, <1>6 DEF RetryBatch, RestartView, DeleteRejects, StartAgain, web
<1>7. CASE UNCHANGED vars
  BY <1>1, <1>7 DEF vars, web, faults
<1> QED
  BY <1>2, <1>3, <1>4, <1>5, <1>6, <1>7 DEF Next

-----------------------------------------------------------------------------
(* The last snapshot on the topic *)

\* A record of another writer behind the last one of the web app leaves it the last.
LEMMA AppendKeepsLast ==
    ASSUME TypeOK, LastIsAhead, NEW c \in Customers, NEW r \in Record, r.by # "web",
           log' = [log EXCEPT ![c] = Append(@, r)], UNCHANGED <<sent, outbox>>
    PROVE  LastIsAhead'
<1> SUFFICES ASSUME NEW d \in Customers, sent[d] > 0
             PROVE  \E i \in 1 .. Len(log'[d]) : IsLastOfWeb(d, i)'
  BY DEF LastIsAhead
<1>1. PICK i \in 1 .. Len(log[d]) : IsLastOfWeb(d, i)
  BY DEF LastIsAhead
<1>2. /\ Len(log[d]) \in Nat /\ Len(log'[d]) \in Nat /\ Len(log[d]) <= Len(log'[d])
      /\ \A j \in 1 .. Len(log[d]) : log'[d][j] = log[d][j]
  BY AppendToLog, Values
<1>3. ASSUME NEW j \in Len(log[d]) + 1 .. Len(log'[d]) PROVE log'[d][j].by # "web"
  <2>1. log \in [Customers -> Seq(Record)] /\ log[d] \in Seq(Record)
    BY Values DEF TypeOK, Types
  <2>2. d = c
    BY <1>2, <1>3, <2>1
  <2>3. log'[d] = Append(log[d], r)
    BY <2>1, <2>2
  <2>4. Append(log[d], r)[Len(log[d]) + 1] = r /\ Len(Append(log[d], r)) = Len(log[d]) + 1
    BY <2>1, AppendFacts
  <2>5. j = Len(log[d]) + 1
    BY <1>2, <1>3, <2>3, <2>4
  <2>6. log'[d][j] = r
    BY <2>3, <2>4, <2>5
  <2> QED
    BY <2>6
<1>4. IsLastOfWeb(d, i)'
  BY <1>1, <1>2, <1>3 DEF IsLastOfWeb
<1> QED
  BY <1>1, <1>2, <1>4

\* Every step keeps the last snapshot on the topic ahead of the relay.
LEMMA StepLast == IInv /\ [Next]_vars => LastIsAhead'
<1> SUFFICES ASSUME IInv, [Next]_vars PROVE LastIsAhead'
  OBVIOUS
<1>0. TypeOK /\ LastIsAhead
  BY DEF IInv
<1>1. ASSUME UNCHANGED <<log, sent, outbox>> PROVE LastIsAhead'
  BY <1>0, <1>1 DEF LastIsAhead, IsLastOfWeb
<1>2. ASSUME NEW c \in Customers, CreateOrder(c) PROVE LastIsAhead'
  <2>1. /\ log' = log /\ sent' = sent
        /\ outbox' = [outbox EXCEPT ![c] = Append(@, totals[c] + 1)]
    BY <1>2 DEF CreateOrder, relay, Applied
  <2>2. outbox \in [Customers -> Seq(Nat)] /\ totals[c] + 1 \in Nat /\ outbox[c] \in Seq(Nat)
    <3>1. outbox \in [Customers -> Seq(Nat)]
      BY <1>0 DEF TypeOK, Types
    <3>2. totals[c] \in Nat /\ outbox[c] \in Seq(Nat)
      BY <1>0, Values
    <3> QED
      BY <3>1, <3>2
  <2>3. Len(Append(outbox[c], totals[c] + 1)) = Len(outbox[c]) + 1
    BY <2>2, AppendFacts
  <2>4. \A d \in Customers : Len(outbox[d]) <= Len(outbox'[d]) /\ Len(outbox'[d]) \in Nat
    BY <1>0, <2>1, <2>2, <2>3, Values
  <2>5. ASSUME NEW d \in Customers, NEW i \in 1 .. Len(log[d]), IsLastOfWeb(d, i)
        PROVE  IsLastOfWeb(d, i)'
    <3>1. log[d][i].row \in Nat /\ Len(outbox[d]) \in Nat
      BY <1>0, LogRow, Values
    <3> QED
      BY <2>1, <2>4, <2>5, <3>1 DEF IsLastOfWeb
  <2> QED
    BY <1>0, <2>1, <2>5 DEF LastIsAhead
<1>3. CASE RestartWeb \/ RetryBatch
  <2>1. sent' = marked /\ log' = log /\ outbox' = outbox
    BY <1>3 DEF RestartWeb, RetryBatch, web
  <2>2. ASSUME NEW d \in Customers, sent'[d] > 0
        PROVE  \E i \in 1 .. Len(log[d]) : IsLastOfWeb(d, i)'
    <3>1. marked[d] <= sent[d] /\ marked[d] \in Nat /\ sent[d] \in Nat
      BY <1>0, Values DEF PointersInside
    <3>2. PICK i \in 1 .. Len(log[d]) : IsLastOfWeb(d, i)
      BY <1>0, <2>1, <2>2, <3>1 DEF LastIsAhead
    <3>3. log[d][i].row \in Nat
      BY <1>0, <3>2, LogRow
    <3>4. IsLastOfWeb(d, i)'
      BY <2>1, <3>1, <3>2, <3>3 DEF IsLastOfWeb
    <3> QED
      BY <3>2, <3>4
  <2> QED
    BY <2>1, <2>2 DEF LastIsAhead
<1>4. ASSUME NEW c \in Customers, Publish(c) PROVE LastIsAhead'
  <2> DEFINE r == [by |-> "web", row |-> sent[c] + 1, value |-> outbox[c][sent[c] + 1]]
  <2>1. /\ sent[c] < Len(outbox[c]) /\ outbox' = outbox
        /\ log' = [log EXCEPT ![c] = Append(@, r)] /\ sent' = [sent EXCEPT ![c] = @ + 1]
    BY <1>4 DEF Publish, web
  <2>2. r \in Record
    BY <1>0, <2>1, NewRecords
  <2>3. /\ log \in [Customers -> Seq(Record)] /\ sent \in [Customers -> Nat]
        /\ log[c] \in Seq(Record) /\ sent[c] \in Nat /\ Len(outbox[c]) \in Nat
    BY <1>0, Values DEF TypeOK, Types
  <2>4. /\ log'[c] = Append(log[c], r) /\ sent'[c] = sent[c] + 1
        /\ \A d \in Customers \ {c} : log'[d] = log[d] /\ sent'[d] = sent[d]
    BY <2>1, <2>3
  <2>5. /\ Len(log'[c]) = Len(log[c]) + 1 /\ Len(log[c]) \in Nat
        /\ log'[c][Len(log[c]) + 1] = r
    BY <2>2, <2>3, <2>4, AppendFacts
  <2>6. ASSUME NEW i, i = Len(log[c]) + 1 PROVE i \in 1 .. Len(log'[c]) /\ IsLastOfWeb(c, i)'
    <3>1. r.by = "web" /\ r.row = sent[c] + 1
      OBVIOUS
    <3> HIDE DEF r
    <3>2. log'[c][i] = r /\ i \in 1 .. Len(log'[c])
      BY <2>5, <2>6
    <3>3. /\ log'[c][i].by = "web"
          /\ sent'[c] <= log'[c][i].row /\ log'[c][i].row <= Len(outbox'[c])
      BY <2>1, <2>3, <2>4, <3>1, <3>2
    <3>4. \A j \in i + 1 .. Len(log'[c]) : log'[c][j].by # "web"
      BY <2>5, <2>6
    <3> QED
      BY <3>2, <3>3, <3>4 DEF IsLastOfWeb
  <2>7. ASSUME NEW d \in Customers \ {c}, sent'[d] > 0
        PROVE  \E i \in 1 .. Len(log'[d]) : IsLastOfWeb(d, i)'
    BY <1>0, <2>1, <2>4, <2>7 DEF LastIsAhead, IsLastOfWeb
  <2> HIDE DEF r
  <2>8. ASSUME NEW d \in Customers, sent'[d] > 0
        PROVE  \E i \in 1 .. Len(log'[d]) : IsLastOfWeb(d, i)'
    <3>1. CASE d = c
      BY <2>6, <3>1
    <3>2. CASE d # c
      BY <2>7, <2>8, <3>2
    <3> QED
      BY <3>1, <3>2
  <2> QED
    BY <2>8 DEF LastIsAhead
<1>5. ASSUME NEW c \in Customers, ProduceSample(c) PROVE LastIsAhead'
  <2> DEFINE r == [by |-> "producer", row |-> 0, value |-> produced[c] + 1]
  <2>1. /\ log' = [log EXCEPT ![c] = Append(@, r)] /\ UNCHANGED <<sent, outbox>>
    BY <1>5 DEF ProduceSample, Applied, web, relay
  <2>2. r \in Record /\ r.by # "web"
    BY <1>0, NewRecords
  <2> QED
    BY <1>0, <2>1, <2>2, AppendKeepsLast
<1>6. ASSUME NEW c \in Customers, DeleteStart(c) PROVE LastIsAhead'
  <2> DEFINE r == [by |-> "view", row |-> 0, value |-> Absent]
  <2>1. /\ log' = [log EXCEPT ![c] = Append(@, r)] /\ UNCHANGED <<sent, outbox>>
    BY <1>6 DEF DeleteStart, web, relay
  <2>2. r \in Record /\ r.by # "web"
    BY <1>0, NewRecords
  <2> QED
    BY <1>0, <2>1, <2>2, AppendKeepsLast
<1>7. ASSUME NEW c \in Customers, CreateOrderRollsBack(c) \/ MarkPublished(c) \/ Apply(c)
                                  \/ AutoCommit(c) \/ DeleteEnd(c)
      PROVE  LastIsAhead'
  BY <1>1, <1>7 DEF CreateOrderRollsBack, MarkPublished, Apply, AutoCommit, DeleteEnd, web, relay, Applied
<1>8. CASE RestartView \/ DeleteRejects
  BY <1>1, <1>8 DEF RestartView, DeleteRejects, StartAgain, web, relay
<1>9. ASSUME NEW c \in Customers, ProduceForeign(c) PROVE LastIsAhead'
  <2> DEFINE r == [by |-> "other", row |-> 0, value |-> Absent]
  <2>1. /\ log' = [log EXCEPT ![c] = Append(@, r)] /\ UNCHANGED <<sent, outbox>>
    BY <1>9 DEF ProduceForeign, web, relay
  <2>2. r \in Record /\ r.by # "web"
    BY <1>0, NewRecords
  <2> QED
    BY <1>0, <2>1, <2>2, AppendKeepsLast
<1>10. CASE UNCHANGED vars
  BY <1>1, <1>10 DEF vars, web, relay
<1> QED
  BY <1>2, <1>3, <1>4, <1>5, <1>6, <1>7, <1>8, <1>9, <1>10 DEF Next

-----------------------------------------------------------------------------
(* The theorems *)

\* The invariant holds throughout.
LEMMA Inductive == Spec => []IInv
<1>1. IInv /\ [Next]_vars => IInv'
  BY StepType, StepStore, StepTotals, StepLast DEF IInv
<1> QED
  BY <1>1, InitIInv, PTL DEF Spec

\* Every reachable state is well typed, and the pointers stay inside their logs.
THEOREM TypeCorrect == Spec => []TypeOK
<1>1. IInv => TypeOK
  BY DEF IInv
<1> QED
  BY <1>1, Inductive, PTL

\* A view that has caught up shows the last record of a customer, or nothing if it
\* started behind that record or a DELETE of the customer was answered after it
\* (customer-store.ts, the DELETE handler and the start of the view).
THEOREM ViewShowsLast == Spec => []CaughtUpShowsLast
<1>1. IInv => CaughtUpShowsLast
  BY DEF IInv, StoreFollowsPosition, CaughtUpShowsLast, CaughtUp
<1> QED
  BY <1>1, Inductive, PTL

\* While the web app runs, a snapshot counts every stored order and at most the
\* rolled back ones besides (createOrderWithOutbox).
THEOREM NoOrderIsMissing == Spec => []SnapshotsAccumulate
<1>1. IInv => SnapshotsAccumulate
  BY DEF IInv, TotalsAreBounded, SnapshotsAccumulate
<1> QED
  BY <1>1, Inductive, PTL

\* Once the relay has published every row, whatever it published again before, the
\* last record it left on the topic is the newest snapshot.
THEOREM NewestComesLast == Spec => []NewestSnapshotWins
<1>1. IInv => NewestSnapshotWins
  <2> SUFFICES ASSUME IInv, NEW c \in Customers,
                      outbox[c] # << >>, sent[c] = Len(outbox[c])
               PROVE  \E i \in 1 .. Len(log[c]) :
                        /\ log[c][i].by = "web" /\ log[c][i].row = Len(outbox[c])
                        /\ \A j \in i + 1 .. Len(log[c]) : log[c][j].by # "web"
    BY DEF NewestSnapshotWins
  <2>1. TypeOK /\ LastIsAhead
    BY DEF IInv
  <2>2. Len(outbox[c]) \in Nat /\ Len(outbox[c]) > 0
    BY <2>1, Values, EmptySeq
  <2>3. PICK i \in 1 .. Len(log[c]) : IsLastOfWeb(c, i)
    BY <2>1, <2>2 DEF LastIsAhead
  <2>4. log[c][i].row \in Nat
    BY <2>1, <2>3, LogRow
  <2> QED
    BY <2>2, <2>3, <2>4 DEF IsLastOfWeb
<1> QED
  BY <1>1, Inductive, PTL
=============================================================================
