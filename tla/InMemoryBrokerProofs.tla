------------------------ MODULE InMemoryBrokerProofs ------------------------
(***************************************************************************)
(* Proofs about InMemoryBroker, for every set of topics, keys, produce     *)
(* calls and subscriptions, every hash, every limit of the pools, and      *)
(* every bound on the records, the partitions and the disconnects.         *)
(***************************************************************************)
EXTENDS InMemoryBroker, FiniteSetTheorems, SequenceTheorems, WellFoundedInduction, TLAPS

Increasing(w) == \A i, j \in DOMAIN w : i < j => w[i] < w[j]

\* The pool of a subscription, in the shape Enqueue gives it.
PoolOf(s) == [active  |-> active[s],  waiting |-> waiting[s],
              running |-> running[s], started |-> started[s]]

\* A pool that has been given records numbered below n: each once and in order, the
\* running ones among the dispatched ones, its slots counted, its queue empty
\* unless every slot is taken.
Sound(s, pl, n) ==
    /\ pl.active \in Nat
    /\ pl.waiting \in Seq(0 .. n - 1) /\ pl.started \in Seq(0 .. n - 1)
    /\ pl.running \subseteq Range(pl.started)
    /\ Increasing(pl.started \o pl.waiting)
    /\ Limit[s] = 1 => pl.waiting = << >>
    /\ Limit[s] > 1 => /\ pl.active = Cardinality(pl.running) /\ pl.active <= Limit[s]
                       /\ pl.waiting # << >> => pl.active = Limit[s]

Stored == [topic : Topics, key : Keys, partition : 0 .. MaxPartitions - 1,
           offset : 0 .. MaxRecords, sequence : Sequences]

\* The records are stored in the order of their numbers, and an offset is never
\* beyond the number of its record.
LogInOrder ==
    /\ records \in Seq(Stored)
    /\ \A i \in DOMAIN records : records[i].sequence < nextSequence
                                 /\ records[i].offset <= records[i].sequence
    /\ \A i, j \in DOMAIN records : i < j => records[i].sequence < records[j].sequence

\* So is the offset of a record that is being prepared.
CallsInOrder ==
    /\ calls \in [Calls -> Prepared \cup {Idle}]
    /\ \A c \in Calls : calls[c] # Idle => calls[c].offset <= nextSequence

\* The parts of the pools are functions on the subscriptions.
PoolMaps ==
    /\ active  = [s \in Subs |-> active[s]]  /\ waiting = [s \in Subs |-> waiting[s]]
    /\ running = [s \in Subs |-> running[s]] /\ started = [s \in Subs |-> started[s]]

\* The pools, and those of the subscriptions that were never opened.
PoolsSound ==
    /\ PoolMaps
    /\ \A s \in Subs : Sound(s, PoolOf(s), nextSequence)
    /\ \A s \in Subs : subs[s] = Closed =>
          s \notin listening /\ started[s] = << >> /\ waiting[s] = << >>

SubsTyped ==
    /\ listening \subseteq Subs
    /\ subs \in [Subs -> [topics : SUBSET Topics, from : 0 .. MaxRecords, beginning : BOOLEAN]]
    /\ \A s \in Subs : subs[s].from <= nextSequence

StoreTyped ==
    /\ partitions \in [Topics -> 0 .. MaxPartitions]
    /\ nextSequence \in 0 .. MaxRecords /\ disconnects \in 0 .. MaxDisconnects

IInv == StoreTyped /\ LogInOrder /\ CallsInOrder /\ SubsTyped /\ PoolsSound /\ NothingSkipped

-----------------------------------------------------------------------------
(* Partitions and offsets *)

\* A remainder, taken twice, is a partition of the topic, whatever the hash.
LEMMA PartitionProperties ==
    ASSUME NEW k \in Keys, NEW n \in Nat \ {0}
    PROVE  PartitionForKey(k, n) \in 0 .. n - 1
<1>1. \A a \in Nat : a % n \in 0 .. n - 1
  OBVIOUS
<1>2. Hash[k] \in Int
  BY DriverAssumption
<1>3. Rem(Hash[k], n) \in Int /\ Rem(Hash[k], n) + n \in Nat
  <2>1. CASE Hash[k] >= 0
    <3>1. Hash[k] % n \in 0 .. n - 1
      BY <1>1, <1>2, <2>1
    <3> QED BY <2>1, <3>1 DEF Rem
  <2>2. CASE ~(Hash[k] >= 0)
    <3>1. -Hash[k] \in Nat
      BY <1>2, <2>2
    <3>2. (-Hash[k]) % n \in 0 .. n - 1
      BY <1>1, <3>1
    <3> QED BY <2>2, <3>2 DEF Rem
  <2> QED BY <2>1, <2>2
<1>4. PartitionForKey(k, n) = (Rem(Hash[k], n) + n) % n
  BY <1>3 DEF PartitionForKey, Rem
<1> QED BY <1>1, <1>3, <1>4

\* A bounded set of offsets has a least number above it.
LEMMA LeastAbove ==
    ASSUME NEW n \in Nat, NEW S \in SUBSET (0 .. n - 1)
    PROVE  \E o \in 0 .. n : (\A q \in S : q < o) /\ (o = 0 \/ o - 1 \in S)
<1> DEFINE cover == {r \in {0 .. k - 1 : k \in 0 .. n} : S \subseteq r}
<1>1. cover # {}
  <2>1. 0 .. n - 1 \in cover
    OBVIOUS
  <2> QED BY <2>1
<1>2. cover \subseteq FiniteSubsetsOf(Nat)
  <2>1. ASSUME NEW k \in 0 .. n PROVE 0 .. k - 1 \in FiniteSubsetsOf(Nat)
    <3>1. IsFiniteSet(0 .. k - 1)
      BY FS_Interval
    <3> QED BY <3>1 DEF FiniteSubsetsOf
  <2> QED BY <2>1
<1>3. PICK r \in cover : \A t \in cover : <<t, r>> \notin StrictSubsetOrdering(Nat)
  <2> HIDE DEF cover
  <2> QED BY <1>1, <1>2, FS_StrictSubsetOrderingWellFounded, WFMin
<1>4. PICK k \in 0 .. n : r = 0 .. k - 1
  BY <1>3
<1>5. \A q \in S : q < k
  BY <1>3, <1>4
<1>6. CASE k = 0 \/ k - 1 \in S
  BY <1>4, <1>5, <1>6
<1>7. CASE k # 0 /\ k - 1 \notin S
  <2>1. k - 1 \in 0 .. n /\ S \subseteq 0 .. (k - 1) - 1
    BY <1>5, <1>7
  <2>2. 0 .. (k - 1) - 1 \in cover
    BY <2>1
  <2>3. k - 1 \in r /\ k - 1 \notin 0 .. (k - 1) - 1 /\ 0 .. (k - 1) - 1 \subseteq r
    BY <1>4, <1>7
  <2>4. <<0 .. (k - 1) - 1, r>> \in StrictSubsetOrdering(Nat)
    <3>1. r \in SUBSET Nat /\ 0 .. (k - 1) - 1 \in SUBSET Nat
      BY <1>4, <2>3
    <3>2. 0 .. (k - 1) - 1 # r
      BY <2>3
    <3> QED BY <2>3, <3>1, <3>2 DEF StrictSubsetOrdering
  <2> QED BY <1>3, <2>2, <2>4
<1> QED BY <1>6, <1>7

\* The next offset of a partition is not beyond the number of the next record.
LEMMA NextOffsetProperties ==
    ASSUME StoreTyped, LogInOrder, NEW t, NEW part
    PROVE  NextOffset(t, part) \in 0 .. nextSequence
<1>1. nextSequence \in 0 .. MaxRecords /\ MaxRecords \in Nat
  BY DriverAssumption DEF StoreTyped
<1>2. Offsets(t, part) \in SUBSET (0 .. nextSequence - 1)
  <2>1. ASSUME NEW i \in DOMAIN records PROVE records[i].offset \in 0 .. nextSequence - 1
    <3>1. records[i] \in Stored
      BY DEF LogInOrder
    <3>2. records[i].offset \in Nat /\ records[i].sequence \in Nat
      BY <1>1, <3>1 DEF Stored, Sequences
    <3> QED BY <1>1, <3>2 DEF LogInOrder
  <2> QED BY <2>1 DEF Offsets, Range
<1> DEFINE above(o) == (\A q \in Offsets(t, part) : q < o) /\ (o = 0 \/ o - 1 \in Offsets(t, part))
<1>3. \E o \in 0 .. MaxRecords : above(o)
  <2>1. nextSequence \in Nat
    BY <1>1
  <2>2. \E o \in 0 .. nextSequence : above(o)
    BY <1>2, <2>1, LeastAbove
  <2> QED BY <1>1, <2>2
<1>4. NextOffset(t, part) \in 0 .. MaxRecords /\ above(NextOffset(t, part))
  BY <1>3 DEF NextOffset
<1> QED BY <1>1, <1>2, <1>4

-----------------------------------------------------------------------------
(* Sequences of record numbers *)

\* A concatenation has the elements of both parts.
LEMMA ConcatRange ==
    ASSUME NEW S, NEW v \in Seq(S), NEW w \in Seq(S)
    PROVE  Range(v \o w) = Range(v) \cup Range(w)
<1> DEFINE u == v \o w
<1>1. /\ u \in Seq(S) /\ Len(v) \in Nat /\ Len(w) \in Nat
      /\ DOMAIN u = 1 .. Len(v) + Len(w) /\ DOMAIN v = 1 .. Len(v) /\ DOMAIN w = 1 .. Len(w)
      /\ \A i \in 1 .. Len(v) + Len(w) : u[i] = IF i <= Len(v) THEN v[i] ELSE w[i - Len(v)]
  <2>1. u \in Seq(S) /\ Len(u) = Len(v) + Len(w)
        /\ \A i \in 1 .. Len(v) + Len(w) : u[i] = IF i <= Len(v) THEN v[i] ELSE w[i - Len(v)]
    BY ConcatProperties
  <2> HIDE DEF u
  <2> QED BY <2>1
<1> HIDE DEF u
<1>2. \A i \in DOMAIN u : u[i] \in Range(v) \cup Range(w)
  <2> TAKE i \in DOMAIN u
  <2>1. CASE i <= Len(v)
    BY <1>1, <2>1 DEF Range
  <2>2. CASE ~(i <= Len(v))
    <3>1. i - Len(v) \in DOMAIN w
      BY <1>1, <2>2
    <3> QED BY <1>1, <2>2, <3>1 DEF Range
  <2> QED BY <2>1, <2>2
<1>3. \A i \in DOMAIN v : v[i] \in Range(u)
  <2> TAKE i \in DOMAIN v
  <2>1. i \in DOMAIN u /\ u[i] = v[i]
    BY <1>1
  <2> QED BY <2>1 DEF Range
<1>4. \A i \in DOMAIN w : w[i] \in Range(u)
  <2> TAKE i \in DOMAIN w
  <2> DEFINE j == Len(v) + i
  <2>0. i \in 1 .. Len(w) /\ j \in 1 .. Len(v) + Len(w) /\ ~(j <= Len(v)) /\ j - Len(v) = i
    BY <1>1
  <2> HIDE DEF j
  <2>1. j \in DOMAIN u /\ u[j] = w[i]
    BY <1>1, <2>0
  <2> QED BY <2>1 DEF Range, j
<1> QED BY <1>2, <1>3, <1>4 DEF Range, u

\* A concatenation increases if its parts do and the second is above the first.
LEMMA ConcatIncreasing ==
    ASSUME NEW v \in Seq(Nat), NEW w \in Seq(Nat)
    PROVE  Increasing(v \o w) <=>
              /\ Increasing(v) /\ Increasing(w)
              /\ \A x \in Range(v), y \in Range(w) : x < y
<1> DEFINE u == v \o w
<1>1. /\ u \in Seq(Nat) /\ Len(v) \in Nat /\ Len(w) \in Nat
      /\ DOMAIN u = 1 .. Len(v) + Len(w) /\ DOMAIN v = 1 .. Len(v) /\ DOMAIN w = 1 .. Len(w)
      /\ \A i \in 1 .. Len(v) + Len(w) : u[i] = IF i <= Len(v) THEN v[i] ELSE w[i - Len(v)]
  <2>1. u \in Seq(Nat) /\ Len(u) = Len(v) + Len(w)
        /\ \A i \in 1 .. Len(v) + Len(w) : u[i] = IF i <= Len(v) THEN v[i] ELSE w[i - Len(v)]
    BY ConcatProperties
  <2> HIDE DEF u
  <2> QED BY <2>1
<1> HIDE DEF u
<1>2. \A i \in DOMAIN v : i \in DOMAIN u /\ u[i] = v[i] /\ v[i] \in Range(v)
  BY <1>1 DEF Range
<1>3. \A i \in DOMAIN w : Len(v) + i \in DOMAIN u /\ u[Len(v) + i] = w[i] /\ w[i] \in Range(w)
  <2> TAKE i \in DOMAIN w
  <2> DEFINE j == Len(v) + i
  <2>0. i \in 1 .. Len(w) /\ j \in 1 .. Len(v) + Len(w) /\ ~(j <= Len(v)) /\ j - Len(v) = i
    BY <1>1
  <2> HIDE DEF j
  <2>1. j \in DOMAIN u /\ u[j] = w[i]
    BY <1>1, <2>0
  <2> QED BY <2>1 DEF Range, j
<1>4. ASSUME Increasing(u)
      PROVE  /\ Increasing(v) /\ Increasing(w)
             /\ \A x \in Range(v), y \in Range(w) : x < y
  <2>1. Increasing(v)
    BY <1>2, <1>4 DEF Increasing
  <2>2. Increasing(w)
    <3> SUFFICES ASSUME NEW i \in DOMAIN w, NEW j \in DOMAIN w, i < j PROVE w[i] < w[j]
      BY DEF Increasing
    <3>1. Len(v) + i < Len(v) + j
      BY <1>1
    <3> QED BY <1>3, <1>4, <3>1 DEF Increasing
  <2>3. ASSUME NEW i \in DOMAIN v, NEW j \in DOMAIN w PROVE v[i] < w[j]
    <3>1. i < Len(v) + j
      BY <1>1
    <3> QED BY <1>2, <1>3, <1>4, <3>1 DEF Increasing
  <2> QED BY <2>1, <2>2, <2>3 DEF Range
<1>5. ASSUME Increasing(v), Increasing(w), \A x \in Range(v), y \in Range(w) : x < y
      PROVE  Increasing(u)
  <2> SUFFICES ASSUME NEW i \in DOMAIN u, NEW j \in DOMAIN u, i < j PROVE u[i] < u[j]
    BY DEF Increasing
  <2>1. CASE j <= Len(v)
    <3>1. i \in DOMAIN v /\ j \in DOMAIN v
      BY <1>1, <2>1
    <3> QED BY <1>2, <1>5, <3>1 DEF Increasing
  <2>2. CASE i <= Len(v) /\ ~(j <= Len(v))
    <3>1. i \in DOMAIN v /\ j - Len(v) \in DOMAIN w /\ u[j] = w[j - Len(v)] /\ u[i] = v[i]
      BY <1>1, <2>2
    <3> QED BY <1>2, <1>3, <1>5, <3>1
  <2>3. CASE ~(i <= Len(v))
    <3>1. /\ i \in 1 .. Len(v) + Len(w) /\ j \in 1 .. Len(v) + Len(w)
          /\ ~(i <= Len(v)) /\ ~(j <= Len(v))
      BY <1>1, <2>3
    <3>2. /\ i - Len(v) \in 1 .. Len(w) /\ j - Len(v) \in 1 .. Len(w)
          /\ i - Len(v) < j - Len(v)
      BY <1>1, <3>1
    <3>3. u[i] = w[i - Len(v)] /\ u[j] = w[j - Len(v)]
      BY <1>1, <3>1
    <3> QED BY <1>1, <1>5, <3>2, <3>3 DEF Increasing
  <2> QED BY <1>1, <2>1, <2>2, <2>3
<1> QED BY <1>4, <1>5 DEF u

\* An increasing sequence has as many elements as places.
LEMMA IncreasingCount ==
    ASSUME NEW w \in Seq(Nat), Increasing(w)
    PROVE  IsFiniteSet(Range(w)) /\ Cardinality(Range(w)) = Len(w)
<1> DEFINE places == 1 .. Len(w)
<1>1. Len(w) \in Nat /\ DOMAIN w = places /\ \A i \in places : w[i] \in Nat
  OBVIOUS
<1>2. IsFiniteSet(places) /\ Cardinality(places) = Len(w)
  BY <1>1, FS_Interval
<1>3. \A i, j \in places : w[i] = w[j] => i = j
  BY <1>1 DEF Increasing
<1>4. w \in [places -> Range(w)] /\ \A x \in Range(w) : \E i \in places : w[i] = x
  <2>1. w = [i \in places |-> w[i]]
    BY <1>1
  <2>2. \A i \in places : w[i] \in Range(w)
    BY <1>1 DEF Range
  <2>3. \A x \in Range(w) : \E i \in places : w[i] = x
    BY <1>1 DEF Range
  <2> QED BY <2>1, <2>2, <2>3
<1> HIDE DEF places
<1>5. w \in Surjection(places, Range(w)) /\ w \in Injection(places, Range(w))
  BY <1>3, <1>4 DEF Surjection, Injection, IsInjective
<1> QED BY <1>2, <1>5, FS_Surjection

\* The head of a queue, put at the end of another sequence.
LEMMA HandOver ==
    ASSUME NEW S, NEW v \in Seq(S), NEW w \in Seq(S), w # << >>
    PROVE  /\ Append(v, Head(w)) \in Seq(S) /\ Tail(w) \in Seq(S)
           /\ Append(v, Head(w)) \o Tail(w) = v \o w
           /\ Head(w) \in S /\ Head(w) \in Range(w)
           /\ Range(Append(v, Head(w))) = Range(v) \cup {Head(w)}
<1>1. Head(w) \in S /\ Tail(w) \in Seq(S) /\ <<Head(w)>> \in Seq(S)
  BY HeadTailProperties
<1>2. Append(v, Head(w)) = v \o <<Head(w)>> /\ Append(v, Head(w)) \in Seq(S)
  BY <1>1, AppendIsConcat
<1>3. <<Head(w)>> \o Tail(w) = w
  <2> DEFINE u == <<Head(w)>> \o Tail(w)
  <2>1. /\ u \in Seq(S) /\ Len(u) = 1 + Len(Tail(w))
        /\ \A i \in 1 .. 1 + Len(Tail(w)) : u[i] = IF i <= 1 THEN <<Head(w)>>[i] ELSE Tail(w)[i - 1]
    <3>1. Len(<<Head(w)>>) = 1
      OBVIOUS
    <3> QED BY <1>1, <3>1, ConcatProperties
  <2>2. /\ Len(w) \in Nat \ {0} /\ Len(Tail(w)) = Len(w) - 1 /\ Head(w) = w[1]
        /\ \A i \in 1 .. Len(Tail(w)) : Tail(w)[i] = w[i + 1]
    BY HeadTailProperties, EmptySeq
  <2>3. Len(u) = Len(w)
    BY <2>1, <2>2
  <2>4. \A i \in 1 .. Len(w) : u[i] = w[i]
    <3> TAKE i \in 1 .. Len(w)
    <3>1. CASE i = 1
      BY <2>1, <2>2, <3>1
    <3>2. CASE i # 1
      <4>1. i - 1 \in 1 .. Len(Tail(w)) /\ i \in 1 .. 1 + Len(Tail(w))
        BY <2>2, <3>2
      <4>2. u[i] = Tail(w)[i - 1]
        BY <2>1, <3>2, <4>1
      <4>3. Tail(w)[i - 1] = w[(i - 1) + 1]
        BY <2>2, <4>1
      <4> QED BY <4>2, <4>3
    <3> QED BY <3>1, <3>2
  <2> HIDE DEF u
  <2>5. u = w
    BY <2>1, <2>3, <2>4, SeqEqual
  <2> QED BY <2>5 DEF u
<1>4. (v \o <<Head(w)>>) \o Tail(w) = v \o (<<Head(w)>> \o Tail(w))
  BY <1>1, ConcatAssociative
<1>5. Head(w) \in Range(w)
  <2>1. 1 \in DOMAIN w /\ Head(w) = w[1]
    OBVIOUS
  <2> QED BY <2>1 DEF Range
<1>6. Range(<<Head(w)>>) = {Head(w)}
  BY DEF Range
<1>7. Range(v \o <<Head(w)>>) = Range(v) \cup Range(<<Head(w)>>)
  BY <1>1, ConcatRange
<1> QED BY <1>1, <1>2, <1>3, <1>4, <1>5, <1>6, <1>7

\* A sequence cut in two.
LEMMA CutInTwo ==
    ASSUME NEW S, NEW w \in Seq(S), NEW size \in 0 .. Len(w)
    PROVE  /\ SubSeq(w, 1, size) \in Seq(S) /\ Len(SubSeq(w, 1, size)) = size
           /\ SubSeq(w, size + 1, Len(w)) \in Seq(S)
           /\ size = Len(w) => SubSeq(w, size + 1, Len(w)) = << >>
           /\ size = 0 => SubSeq(w, 1, size) = << >>
           /\ SubSeq(w, 1, size) \o SubSeq(w, size + 1, Len(w)) = w
<1>1. Len(w) \in Nat /\ size \in Nat /\ size <= Len(w) /\ \A i \in 1 .. Len(w) : w[i] \in S
  OBVIOUS
<1> DEFINE n == Len(w)
<1>2. n \in Nat /\ size \in Nat /\ size <= n /\ \A i \in 1 .. n : w[i] \in S
  BY <1>1
<1> HIDE DEF n
<1>3. SubSeq(w, 1, size) \in Seq(S) /\ Len(SubSeq(w, 1, size)) = size
  <2>1. \A i \in 1 .. size : w[i] \in S
    BY <1>2
  <2> QED BY <1>2, <2>1, SubSeqProperties
<1>4. SubSeq(w, size + 1, n) \in Seq(S)
  <2>1. \A i \in size + 1 .. n : w[i] \in S
    BY <1>2
  <2>2. size + 1 \in Int /\ n \in Int
    BY <1>2
  <2> QED BY <2>1, <2>2, SubSeqProperties
<1>5. size = n => SubSeq(w, size + 1, n) = << >>
  BY <1>2, SubSeqEmpty
<1>6. size = 0 => SubSeq(w, 1, size) = << >>
  BY SubSeqEmpty
<1>7. SubSeq(w, 1, size) \o SubSeq(w, size + 1, n) = SubSeq(w, 1, n)
  <2>1. 1 \in 1 .. n + 1 /\ size \in 1 - 1 .. n /\ n \in size .. n
    BY <1>2
  <2> QED BY <2>1, ConcatAdjacentSubSeq DEF n
<1>8. SubSeq(w, 1, n) = w
  BY SubSeqFull DEF n
<1> QED BY <1>3, <1>4, <1>5, <1>6, <1>7, <1>8 DEF n

EitherEmpty(w, x) == w = << >> \/ x = << >>
Swapped(v, w, x, y) == (v \o x) \o (w \o y) = (v \o w) \o (x \o y)

\* Two sequences may change places where one of them is empty.
LEMMA ConcatSwap ==
    ASSUME NEW S, NEW v \in Seq(S), NEW w \in Seq(S), NEW x \in Seq(S), NEW y \in Seq(S),
           EitherEmpty(w, x)
    PROVE  Swapped(v, w, x, y)
<1> USE DEF EitherEmpty, Swapped
<1>1. \A p \in Seq(S) : p \o << >> = p /\ << >> \o p = p
  BY ConcatEmptySeq
<1>2. ASSUME NEW p \in Seq(S)
      PROVE  (v \o p) \o y = v \o (p \o y)
  BY ConcatAssociative, SMTT(30)
<1>3. CASE w = << >>
  <2>1. w \o y = y /\ v \o w = v
    BY <1>1, <1>3
  <2>2. (v \o x) \o y = v \o (x \o y)
    BY <1>2
  <2> QED BY <2>1, <2>2
<1>4. CASE x = << >>
  <2>1. x \o y = y /\ v \o x = v
    BY <1>1, <1>4
  <2>2. (v \o w) \o y = v \o (w \o y)
    BY <1>2
  <2> QED BY <2>1, <2>2
<1> QED BY <1>3, <1>4

-----------------------------------------------------------------------------
(* The pools *)

\* Numbers below n are below m.
LEMMA SoundTypes ==
    ASSUME NEW s \in Subs, NEW n \in Nat, NEW m \in Nat, n <= m, NEW pl, Sound(s, pl, n)
    PROVE  /\ pl.waiting \in Seq(0 .. m - 1) /\ pl.started \in Seq(0 .. m - 1)
           /\ pl.started \o pl.waiting \in Seq(0 .. n - 1)
           /\ pl.started \o pl.waiting \in Seq(0 .. m - 1)
           /\ Range(pl.started) \subseteq Range(pl.started \o pl.waiting)
           /\ Range(pl.waiting) \subseteq Range(pl.started \o pl.waiting)
           /\ Range(pl.started \o pl.waiting) \subseteq 0 .. n - 1
           /\ IsFiniteSet(pl.running)
<1>1. 0 .. n - 1 \subseteq 0 .. m - 1
  OBVIOUS
<1>2. pl.waiting \in Seq(0 .. n - 1) /\ pl.started \in Seq(0 .. n - 1)
  BY DEF Sound
<1>3. pl.started \o pl.waiting \in Seq(0 .. n - 1)
  BY <1>2, ConcatProperties
<1>4. pl.waiting \in Seq(0 .. m - 1) /\ pl.started \in Seq(0 .. m - 1)
      /\ pl.started \o pl.waiting \in Seq(0 .. m - 1)
  BY <1>1, <1>2, <1>3, SeqMonotonic
<1>5. Range(pl.started \o pl.waiting) = Range(pl.started) \cup Range(pl.waiting)
  BY <1>2, ConcatRange
<1>6. Range(pl.started \o pl.waiting) \subseteq 0 .. n - 1
  <2> DEFINE all == pl.started \o pl.waiting
  <2>1. \A i \in DOMAIN all : all[i] \in 0 .. n - 1
    <3> HIDE DEF all
    <3>1. all \in Seq(0 .. n - 1)
      BY <1>3 DEF all
    <3> QED BY <3>1
  <2> QED BY <2>1 DEF Range
<1>7. IsFiniteSet(pl.running)
  <2>1. pl.running \subseteq 0 .. n - 1
    BY <1>5, <1>6 DEF Sound
  <2>2. IsFiniteSet(0 .. n - 1)
    BY FS_Interval
  <2> QED BY <2>1, <2>2, FS_Subset
<1> QED BY <1>3, <1>4, <1>5, <1>6, <1>7

\* A pool that is sound below n is sound below any larger number.
LEMMA SoundGrows ==
    ASSUME NEW s \in Subs, NEW n \in Nat, NEW m \in Nat, n <= m, NEW pl, Sound(s, pl, n)
    PROVE  Sound(s, pl, m)
BY SoundTypes DEF Sound

\* enqueueDispatch keeps a pool sound and gives it the batch after what it had:
\* a record is dispatched at once only where none is queued.
LEMMA EnqueueSound ==
    ASSUME NEW s \in Subs, NEW n \in Nat, NEW m \in Nat, n <= m,
           Sound(s, PoolOf(s), n),
           NEW batch \in Seq(0 .. m - 1), Increasing(batch),
           \A x \in Range(Given(s)), y \in Range(batch) : x < y
    PROVE  /\ Sound(s, Enqueue(s, batch), m)
           /\ Enqueue(s, batch).started \o Enqueue(s, batch).waiting = Given(s) \o batch
           /\ Len(started[s]) <= Len(Enqueue(s, batch).started)
<1> DEFINE room == IF Limit[s] = 1 THEN Len(batch) ELSE Limit[s] - active[s]
           size == IF Len(batch) <= room THEN Len(batch) ELSE room
           now  == SubSeq(batch, 1, size)
           rest == SubSeq(batch, size + 1, Len(batch))
           num == 0 .. m - 1
<1>0. Enqueue(s, batch) = [active  |-> IF Limit[s] = 1 THEN active[s] ELSE active[s] + Len(now),
                           waiting |-> waiting[s] \o rest,
                           running |-> running[s] \cup Range(now),
                           started |-> started[s] \o now]
  BY DEF Enqueue
<1>1. /\ active[s] \in Nat
      /\ waiting[s] \in Seq(num) /\ started[s] \in Seq(num)
      /\ Given(s) \in Seq(num) /\ Given(s) = started[s] \o waiting[s]
      /\ running[s] \subseteq Range(started[s]) /\ IsFiniteSet(running[s])
      /\ Range(started[s]) \subseteq Range(Given(s)) /\ Range(Given(s)) \subseteq num
      /\ Increasing(Given(s))
  <2> DEFINE pl == PoolOf(s)
  <2>1. /\ pl.active = active[s] /\ pl.waiting = waiting[s]
        /\ pl.running = running[s] /\ pl.started = started[s]
    BY DEF PoolOf
  <2>2. Sound(s, pl, n)
    OBVIOUS
  <2> HIDE DEF pl, num, room, size, now, rest
  <2>3. 0 .. n - 1 \subseteq num
    BY DEF num
  <2>4. /\ pl.waiting \in Seq(num) /\ pl.started \in Seq(num)
        /\ pl.started \o pl.waiting \in Seq(num)
        /\ Range(pl.started) \subseteq Range(pl.started \o pl.waiting)
        /\ Range(pl.started \o pl.waiting) \subseteq 0 .. n - 1
        /\ IsFiniteSet(pl.running)
    BY <2>2, SoundTypes DEF num
  <2> QED BY <2>1, <2>2, <2>3, <2>4 DEF Sound, Given
<1>2. /\ Limit[s] \in Nat \ {0}
      /\ Limit[s] = 1 => waiting[s] = << >>
      /\ Limit[s] # 1 => /\ active[s] = Cardinality(running[s]) /\ active[s] <= Limit[s]
                         /\ waiting[s] # << >> => active[s] = Limit[s]
  BY DriverAssumption DEF Sound, PoolOf
<1>3. Len(batch) \in Nat /\ DOMAIN batch = 1 .. Len(batch) /\ \A i \in 1 .. Len(batch) : batch[i] \in num
  OBVIOUS
<1>4. /\ room \in Nat /\ size \in 0 .. Len(batch) /\ size <= room
      /\ size # Len(batch) => size = room /\ Limit[s] # 1
      /\ waiting[s] # << >> => size = 0
  BY <1>1, <1>2, <1>3
<1> HIDE DEF room, size
<1>5. /\ now \in Seq(num) /\ Len(now) = size /\ rest \in Seq(num)
      /\ size = Len(batch) => rest = << >>
      /\ size = 0 => now = << >>
      /\ now \o rest = batch
  <2>1. batch \in Seq(num)
    OBVIOUS
  <2> HIDE DEF num
  <2> QED BY <1>4, <2>1, CutInTwo
<1> HIDE DEF now, rest, num
<1>6. (started[s] \o now) \o (waiting[s] \o rest) = Given(s) \o batch
  <2>1. EitherEmpty(waiting[s], now)
    BY <1>4, <1>5 DEF EitherEmpty
  <2>2. Swapped(started[s], waiting[s], now, rest)
    BY <1>1, <1>5, <2>1, ConcatSwap
  <2> QED BY <1>1, <1>5, <2>2 DEF Swapped
<1>7. Given(s) \in Seq(Nat) /\ batch \in Seq(Nat) /\ now \in Seq(Nat) /\ rest \in Seq(Nat)
  <2>1. num \subseteq Nat
    BY DEF num
  <2>2. batch \in Seq(num)
    BY DEF num
  <2> QED BY <1>1, <1>5, <2>1, <2>2, SeqMonotonic
<1>8. Increasing(Given(s) \o batch)
  BY <1>1, <1>7, ConcatIncreasing
<1>9. Increasing(now) /\ Range(now) \subseteq Range(batch)
  <2>1. Range(now \o rest) = Range(now) \cup Range(rest)
    BY <1>7, ConcatRange
  <2>2. Increasing(now \o rest)
    BY <1>5
  <2>3. Increasing(now)
    BY <1>7, <2>2, ConcatIncreasing
  <2> QED BY <1>5, <2>1, <2>3
<1>10. started[s] \o now \in Seq(num) /\ waiting[s] \o rest \in Seq(num)
  BY <1>1, <1>5, ConcatProperties
<1>11. running[s] \cup Range(now) \subseteq Range(started[s] \o now)
  <2>1. Range(started[s] \o now) = Range(started[s]) \cup Range(now)
    BY <1>1, <1>5, ConcatRange
  <2> QED BY <1>1, <2>1
<1>12. Cardinality(running[s] \cup Range(now)) = Cardinality(running[s]) + Len(now)
  <2>1. running[s] \cap Range(now) = {}
    <3> SUFFICES ASSUME NEW x \in running[s], x \in Range(now) PROVE FALSE
      OBVIOUS
    <3>1. x \in Range(Given(s)) /\ x \in Range(batch) /\ x \in num
      BY <1>1, <1>9
    <3>2. x < x
      BY <3>1
    <3> QED BY <3>1, <3>2 DEF num
  <2>2. IsFiniteSet(Range(now)) /\ Cardinality(Range(now)) = Len(now)
    BY <1>7, <1>9, IncreasingCount
  <2>3. Cardinality(running[s] \cup Range(now))
          = Cardinality(running[s]) + Cardinality(Range(now)) - Cardinality(running[s] \cap Range(now))
    BY <1>1, <2>2, FS_Union
  <2>4. Cardinality({}) = 0 /\ Cardinality(running[s]) \in Nat /\ Cardinality(Range(now)) \in Nat
    BY <1>1, <2>2, FS_EmptySet, FS_CardinalityType
  <2> DEFINE c == Cardinality(running[s])
             d == Cardinality(Range(now))
  <2>5. c \in Nat /\ d \in Nat /\ Cardinality(running[s] \cup Range(now)) = c + d - 0
    BY <2>1, <2>3, <2>4
  <2> HIDE DEF c, d
  <2>6. Cardinality(running[s] \cup Range(now)) = c + d
    BY <2>5
  <2> QED BY <2>2, <2>6 DEF c, d
<1>13. waiting[s] \o rest # << >> => waiting[s] # << >> \/ rest # << >>
  BY <1>1, ConcatEmptySeq
<1>14. Limit[s] = 1 => waiting[s] \o rest = << >>
  BY <1>2, <1>4, <1>5, <1>13
<1>15. Limit[s] > 1 => /\ active[s] + Len(now) = Cardinality(running[s] \cup Range(now))
                       /\ active[s] + Len(now) <= Limit[s]
                       /\ waiting[s] \o rest # << >> => active[s] + Len(now) = Limit[s]
  <2> SUFFICES ASSUME Limit[s] > 1
               PROVE  /\ active[s] + Len(now) = Cardinality(running[s] \cup Range(now))
                      /\ active[s] + Len(now) <= Limit[s]
                      /\ waiting[s] \o rest # << >> => active[s] + Len(now) = Limit[s]
    OBVIOUS
  <2>0. Limit[s] # 1 /\ Limit[s] \in Nat
    BY <1>2
  <2>1. room = Limit[s] - active[s]
    BY <2>0 DEF room
  <2>2. active[s] + Len(now) <= Limit[s]
    BY <1>1, <1>2, <1>4, <1>5, <2>0, <2>1
  <2>3. ASSUME waiting[s] \o rest # << >> PROVE active[s] + Len(now) = Limit[s]
    <3>1. CASE waiting[s] # << >>
      BY <1>1, <1>2, <1>4, <1>5, <2>0, <3>1
    <3>2. CASE rest # << >>
      <4>1. size = room
        BY <1>4, <1>5, <3>2
      <4> QED BY <1>1, <1>2, <1>5, <2>1, <4>1
    <3> QED BY <1>13, <2>3, <3>1, <3>2
  <2>4. active[s] + Len(now) = Cardinality(running[s] \cup Range(now))
    BY <1>2, <1>12, <2>0
  <2> QED BY <2>2, <2>3, <2>4
<1>16. active[s] \in Nat /\ active[s] + Len(now) \in Nat /\ Limit[s] \in Nat
  <2>1. Len(now) \in Nat
    BY <1>5
  <2> QED BY <1>1, <1>2, <2>1
<1> DEFINE got == Enqueue(s, batch)
<1>17. /\ got.active = IF Limit[s] = 1 THEN active[s] ELSE active[s] + Len(now)
       /\ got.waiting = waiting[s] \o rest /\ got.started = started[s] \o now
       /\ got.running = running[s] \cup Range(now)
  BY <1>0
<1> HIDE DEF got
<1>18. Sound(s, got, m)
  <2>1. Increasing(got.started \o got.waiting)
    BY <1>6, <1>8, <1>17
  <2>2. got.active \in Nat
    BY <1>16, <1>17
  <2>3. got.waiting \in Seq(0 .. m - 1) /\ got.started \in Seq(0 .. m - 1)
    BY <1>10, <1>17 DEF num
  <2>4. Limit[s] > 1 => got.active = active[s] + Len(now)
    BY <1>16, <1>17
  <2> QED BY <1>11, <1>14, <1>15, <1>17, <2>1, <2>2, <2>3, <2>4 DEF Sound
<1>19. got.started \o got.waiting = Given(s) \o batch
  BY <1>6, <1>17
<1>20. Len(started[s]) <= Len(got.started)
  <2>1. Len(started[s] \o now) = Len(started[s]) + Len(now)
    BY <1>1, <1>5, ConcatProperties
  <2>2. Len(started[s]) \in Nat /\ Len(now) \in Nat
    BY <1>1, <1>5
  <2> QED BY <1>17, <2>1, <2>2
<1> QED BY <1>18, <1>19, <1>20 DEF got

\* What a dispatch that ends leaves of the pool of its subscription.
Ended(s, k) ==
    IF Limit[s] > 1 /\ waiting[s] # << >>
    THEN [active  |-> active[s],
          waiting |-> Tail(waiting[s]),
          running |-> (running[s] \ {k}) \cup {Head(waiting[s])},
          started |-> Append(started[s], Head(waiting[s]))]
    ELSE [active  |-> IF Limit[s] > 1 THEN active[s] - 1 ELSE active[s],
          waiting |-> waiting[s],
          running |-> running[s] \ {k},
          started |-> started[s]]

\* runPooled keeps a pool sound and its records in their order: the slot goes to
\* the first record of the queue, or is free.
LEMMA EndedSound ==
    ASSUME NEW s \in Subs, NEW n \in Nat, Sound(s, PoolOf(s), n), NEW k \in running[s]
    PROVE  /\ Sound(s, Ended(s, k), n)
           /\ Ended(s, k).started \o Ended(s, k).waiting = Given(s)
           /\ Len(started[s]) <= Len(Ended(s, k).started)
<1> DEFINE num == 0 .. n - 1
<1>1. /\ active[s] \in Nat
      /\ waiting[s] \in Seq(num) /\ started[s] \in Seq(num)
      /\ Given(s) = started[s] \o waiting[s]
      /\ running[s] \subseteq Range(started[s]) /\ IsFiniteSet(running[s])
      /\ Increasing(started[s] \o waiting[s])
  <2> DEFINE pl == PoolOf(s)
  <2>1. /\ pl.active = active[s] /\ pl.waiting = waiting[s]
        /\ pl.running = running[s] /\ pl.started = started[s]
    BY DEF PoolOf
  <2>2. Sound(s, pl, n)
    OBVIOUS
  <2> HIDE DEF pl
  <2>3. IsFiniteSet(pl.running)
    <3>1. n <= n
      OBVIOUS
    <3> QED BY <2>2, <3>1, SoundTypes
  <2> QED BY <2>1, <2>2, <2>3 DEF Sound, Given
<1>2. /\ Limit[s] \in Nat \ {0}
      /\ Limit[s] = 1 => waiting[s] = << >>
      /\ Limit[s] > 1 => /\ active[s] = Cardinality(running[s]) /\ active[s] <= Limit[s]
                         /\ waiting[s] # << >> => active[s] = Limit[s]
  BY DriverAssumption DEF Sound, PoolOf
<1>3. /\ IsFiniteSet(running[s] \ {k}) /\ Cardinality(running[s]) \in Nat
      /\ Cardinality(running[s] \ {k}) = Cardinality(running[s]) - 1
      /\ Cardinality(running[s] \ {k}) \in Nat
  BY <1>1, FS_RemoveElement, FS_CardinalityType
<1>4. CASE Limit[s] > 1 /\ waiting[s] # << >>
  <2> DEFINE h == Head(waiting[s])
             left == Tail(waiting[s])
             begun == Append(started[s], h)
  <2>1. /\ begun \in Seq(num) /\ left \in Seq(num) /\ begun \o left = started[s] \o waiting[s]
        /\ h \in num /\ h \in Range(waiting[s]) /\ Range(begun) = Range(started[s]) \cup {h}
    BY <1>1, <1>4, HandOver
  <2>2. h \notin running[s]
    <3>1. started[s] \in Seq(Nat) /\ waiting[s] \in Seq(Nat)
      BY <1>1, SeqMonotonic
    <3>2. \A x \in Range(started[s]), y \in Range(waiting[s]) : x < y
      BY <1>1, <3>1, ConcatIncreasing
    <3>3. h \in running[s] => h < h /\ h \in Nat
      BY <1>1, <2>1, <3>2
    <3> QED BY <3>3
  <2>3. Ended(s, k) = [active |-> active[s], waiting |-> left,
                       running |-> (running[s] \ {k}) \cup {h}, started |-> begun]
    BY <1>4 DEF Ended
  <2> HIDE DEF h, left, begun
  <2>4. Cardinality((running[s] \ {k}) \cup {h}) = active[s]
    <3>1. Cardinality((running[s] \ {k}) \cup {h}) = Cardinality(running[s] \ {k}) + 1
      BY <1>3, <2>2, FS_AddElement
    <3> QED BY <1>2, <1>3, <1>4, <3>1
  <2>5. (running[s] \ {k}) \cup {h} \subseteq Range(begun)
    BY <1>1, <2>1
  <2>6. Limit[s] # 1
    BY <1>2, <1>4
  <2> DEFINE got == Ended(s, k)
  <2>7. got.active = active[s] /\ got.waiting = left /\ got.started = begun
        /\ got.running = (running[s] \ {k}) \cup {h}
    BY <2>3
  <2> HIDE DEF got
  <2>8. Sound(s, got, n)
    BY <1>1, <1>2, <1>4, <2>1, <2>4, <2>5, <2>6, <2>7 DEF Sound
  <2>9. got.started \o got.waiting = Given(s)
    BY <1>1, <2>1, <2>7
  <2>10. Len(started[s]) <= Len(got.started)
    <3>1. Len(Append(started[s], h)) = Len(started[s]) + 1 /\ Len(started[s]) \in Nat
      BY <1>1, <2>1
    <3> QED BY <2>7, <3>1 DEF begun
  <2> QED BY <2>8, <2>9, <2>10 DEF got
<1>5. CASE ~(Limit[s] > 1 /\ waiting[s] # << >>)
  <2>1. waiting[s] = << >>
    BY <1>2, <1>5
  <2> DEFINE got == Ended(s, k)
  <2>2. /\ got.active = (IF Limit[s] > 1 THEN active[s] - 1 ELSE active[s])
        /\ got.waiting = waiting[s] /\ got.running = running[s] \ {k} /\ got.started = started[s]
    BY <1>5 DEF Ended
  <2> HIDE DEF got
  <2>3. /\ got.active \in Nat
        /\ Limit[s] > 1 => got.active = Cardinality(running[s] \ {k}) /\ got.active <= Limit[s]
    BY <1>1, <1>2, <1>3, <2>2
  <2>4. Sound(s, got, n)
    BY <1>1, <2>1, <2>2, <2>3 DEF Sound
  <2>5. got.started \o got.waiting = Given(s)
    BY <1>1, <2>2
  <2>6. Len(started[s]) <= Len(got.started)
    <3>1. Len(started[s]) \in Nat
      BY <1>1
    <3> QED BY <2>2, <3>1
  <2> QED BY <2>4, <2>5, <2>6 DEF got
<1> QED BY <1>4, <1>5

\* EnqueueAll replaces the pools of its subscriptions and no other.
LEMMA EnqueueAllPools ==
    ASSUME NEW to \in SUBSET Subs, NEW batch, EnqueueAll(to, batch)
    PROVE  /\ PoolMaps'
           /\ \A s \in Subs :
                 /\ PoolOf(s)' = IF s \in to THEN Enqueue(s, batch) ELSE PoolOf(s)
                 /\ Given(s)' = IF s \in to
                                THEN Enqueue(s, batch).started \o Enqueue(s, batch).waiting
                                ELSE Given(s)
<1> DEFINE got(s) == Enqueue(s, batch)
<1>1. /\ active'  = [s \in Subs |-> IF s \in to THEN got(s).active  ELSE active[s]]
      /\ waiting' = [s \in Subs |-> IF s \in to THEN got(s).waiting ELSE waiting[s]]
      /\ running' = [s \in Subs |-> IF s \in to THEN got(s).running ELSE running[s]]
      /\ started' = [s \in Subs |-> IF s \in to THEN got(s).started ELSE started[s]]
  <2> DEFINE all == [s \in to |-> got(s)]
  <2>1. \A s \in to : all[s] = got(s)
    OBVIOUS
  <2>2. /\ active'  = [s \in Subs |-> IF s \in to THEN all[s].active  ELSE active[s]]
        /\ waiting' = [s \in Subs |-> IF s \in to THEN all[s].waiting ELSE waiting[s]]
        /\ running' = [s \in Subs |-> IF s \in to THEN all[s].running ELSE running[s]]
        /\ started' = [s \in Subs |-> IF s \in to THEN all[s].started ELSE started[s]]
    BY DEF EnqueueAll
  <2> HIDE DEF all, got
  <2> QED BY <2>1, <2>2
<1>2. \A s : got(s) = [active |-> got(s).active, waiting |-> got(s).waiting,
                       running |-> got(s).running, started |-> got(s).started]
  BY DEF Enqueue
<1> HIDE DEF got
<1>3. ASSUME NEW s \in Subs
      PROVE  /\ PoolOf(s)' = IF s \in to THEN got(s) ELSE PoolOf(s)
             /\ Given(s)' = IF s \in to THEN got(s).started \o got(s).waiting ELSE Given(s)
  <2>1. CASE s \in to
    <3>1. active'[s] = got(s).active /\ waiting'[s] = got(s).waiting
          /\ running'[s] = got(s).running /\ started'[s] = got(s).started
      BY <1>1, <2>1
    <3> QED BY <1>2, <2>1, <3>1 DEF PoolOf, Given
  <2>2. CASE s \notin to
    <3>1. active'[s] = active[s] /\ waiting'[s] = waiting[s]
          /\ running'[s] = running[s] /\ started'[s] = started[s]
      BY <1>1, <2>2
    <3> QED BY <2>2, <3>1 DEF PoolOf, Given
  <2> QED BY <2>1, <2>2
<1>4. PoolMaps'
  BY <1>1 DEF PoolMaps
<1> QED BY <1>3, <1>4 DEF got

\* The records a subscription is owed.
Owed(s) == {r.sequence : r \in {q \in Range(records) :
              /\ q.topic \in subs[s].topics
              /\ subs[s].beginning \/ q.sequence >= subs[s].from}}

-----------------------------------------------------------------------------
(* The history *)

\* How many members of a set of numbers are not above one of them.
Rank(M, i) == Cardinality({j \in M : j <= i})

\* Ranking the members of a finite set of numbers by how many are not above
\* them numbers them from 1, in their order.
LEMMA RankProperties ==
    ASSUME NEW n \in Nat, NEW M \in SUBSET (1 .. n)
    PROVE  /\ Cardinality(M) \in Nat
           /\ \A i \in M : Rank(M, i) \in 1 .. Cardinality(M)
           /\ \A i, j \in M : i < j => Rank(M, i) < Rank(M, j)
           /\ \A k \in 1 .. Cardinality(M) : \E i \in M : Rank(M, i) = k
<1> DEFINE upTo(i) == Cardinality({j \in M : j <= i})
           c == Cardinality(M)
<1>1. IsFiniteSet(M)
  <2>1. IsFiniteSet(1 .. n)
    BY FS_Interval
  <2> QED BY <2>1, FS_Subset
<1>2. c \in Nat
  BY <1>1, FS_CardinalityType
<1>3. ASSUME NEW A \in SUBSET M, NEW B \in SUBSET M, A \subseteq B
      PROVE  /\ IsFiniteSet(A) /\ Cardinality(A) \in Nat /\ Cardinality(B) \in Nat
             /\ Cardinality(A) <= Cardinality(B) /\ (A # B => Cardinality(A) < Cardinality(B))
  <2>1. IsFiniteSet(A) /\ IsFiniteSet(B)
    BY <1>1, FS_Subset
  <2>2. Cardinality(A) <= Cardinality(B) /\ (Cardinality(A) = Cardinality(B) => A = B)
    BY <1>3, <2>1, FS_Subset
  <2>3. Cardinality(A) \in Nat /\ Cardinality(B) \in Nat
    BY <2>1, FS_CardinalityType
  <2> QED BY <2>1, <2>2, <2>3
<1>4. ASSUME NEW i \in M PROVE upTo(i) \in 1 .. c
  <2> DEFINE below == {j \in M : j <= i}
  <2>1. i \in below /\ below \in SUBSET M /\ {} \in SUBSET M
    OBVIOUS
  <2> HIDE DEF below
  <2>2. Cardinality({}) = 0
    BY FS_EmptySet
  <2>3. Cardinality(below) \in Nat /\ Cardinality(below) <= Cardinality(M)
    BY <1>3, <2>1
  <2>4. {} # below /\ {} \subseteq below
    BY <2>1
  <2>5. Cardinality({}) < Cardinality(below)
    BY <1>3, <2>1, <2>4
  <2> QED BY <1>2, <2>2, <2>3, <2>5 DEF below
<1>5. ASSUME NEW i \in M, NEW j \in M, i < j PROVE upTo(i) < upTo(j)
  <2> DEFINE A == {x \in M : x <= i}
             B == {x \in M : x <= j}
  <2>0. \A x \in M : x \in Int /\ (x <= i => x <= j)
    BY <1>5
  <2>1. A \in SUBSET M /\ B \in SUBSET M /\ A \subseteq B /\ j \in B /\ j \notin A
    <3>1. j <= j /\ ~(j <= i)
      BY <1>5
    <3> QED BY <2>0, <3>1
  <2> HIDE DEF A, B
  <2>2. A # B
    BY <2>1
  <2>3. Cardinality(A) < Cardinality(B)
    BY <1>3, <2>1, <2>2
  <2> QED BY <2>3 DEF A, B
<1> DEFINE rank == [i \in M |-> upTo(i)]
<1> HIDE DEF upTo, c
<1>6. rank \in Injection(M, 1 .. c)
  <2>1. rank \in [M -> 1 .. c]
    BY <1>4
  <2>2. ASSUME NEW i \in M, NEW j \in M, rank[i] = rank[j] PROVE i = j
    <3>1. upTo(i) = upTo(j) /\ upTo(i) \in Int
      BY <1>2, <1>4, <2>2
    <3>2. i \in Int /\ j \in Int
      OBVIOUS
    <3> QED BY <1>5, <3>1, <3>2
  <2> QED BY <2>1, <2>2 DEF Injection, IsInjective
<1>7. rank \in Surjection(M, 1 .. c)
  <2>1. IsFiniteSet(1 .. c) /\ Cardinality(1 .. c) = c
    BY <1>2, FS_Interval
  <2>2. Cardinality(M) = Cardinality(1 .. c)
    BY <2>1 DEF c
  <2> HIDE DEF rank
  <2> QED BY <1>1, <1>6, <2>1, <2>2, FS_Injection
<1>8. \A k \in 1 .. c : \E i \in M : upTo(i) = k
  BY <1>7 DEF Surjection
<1> QED BY <1>2, <1>4, <1>5, <1>8 DEF upTo, c, Rank

\* The history of some topics has their stored records, each once, in their order.
LEMMA HistoryProperties ==
    ASSUME StoreTyped, LogInOrder, NEW ts
    PROVE  /\ History(ts) \in Seq(0 .. nextSequence - 1)
           /\ Increasing(History(ts))
           /\ Range(History(ts)) = {r.sequence : r \in {q \in Range(records) : q.topic \in ts}}
<1> DEFINE M == Matches(ts)
           c == Cardinality(M)
           pick(k) == CHOOSE i \in M : Rank(M, i) = k
           h == [k \in 1 .. c |-> records[pick(k)].sequence]
<1>1. History(ts) = h
  BY DEF History, Rank
<1>2. nextSequence \in Nat /\ DOMAIN records = 1 .. Len(records) /\ Len(records) \in Nat
  BY DriverAssumption DEF StoreTyped, LogInOrder
<1>3. M \in SUBSET (1 .. Len(records)) /\ M \in SUBSET Nat
      /\ \A i : i \in M <=> i \in DOMAIN records /\ records[i].topic \in ts
  BY <1>2 DEF Matches
<1>4. \A i \in DOMAIN records : records[i].sequence \in 0 .. nextSequence - 1
  <2> TAKE i \in DOMAIN records
  <2>1. records[i] \in Stored
    BY DEF LogInOrder
  <2>2. records[i].sequence \in Nat
    BY <2>1, DriverAssumption DEF Stored, Sequences
  <2> QED BY <1>2, <2>2 DEF LogInOrder
<1> HIDE DEF M
<1>5. /\ c \in Nat
      /\ \A i \in M : Rank(M, i) \in 1 .. c
      /\ \A i, j \in M : i < j => Rank(M, i) < Rank(M, j)
      /\ \A k \in 1 .. c : \E i \in M : Rank(M, i) = k
  BY <1>2, <1>3, RankProperties
<1> HIDE DEF c
<1>6. \A k \in 1 .. c : pick(k) \in M /\ Rank(M, pick(k)) = k
  BY <1>5
<1>7. \A i \in M : pick(Rank(M, i)) = i
  <2> TAKE i \in M
  <2>1. Rank(M, i) \in 1 .. c
    BY <1>5
  <2> DEFINE j == pick(Rank(M, i))
  <2>2. j \in M /\ Rank(M, j) = Rank(M, i)
    BY <1>6, <2>1
  <2> HIDE DEF j
  <2>3. i \in Nat /\ j \in Nat /\ Rank(M, i) \in Nat
    BY <1>3, <1>5, <2>1, <2>2
  <2>4. ~(i < j) /\ ~(j < i)
    BY <1>5, <2>2, <2>3
  <2>5. j = i
    BY <2>3, <2>4
  <2> QED BY <2>5 DEF j
<1>8. ASSUME NEW k \in 1 .. c, NEW l \in 1 .. c, k < l PROVE pick(k) < pick(l)
  <2> DEFINE i == pick(k)
             j == pick(l)
  <2>1. i \in M /\ j \in M /\ Rank(M, i) = k /\ Rank(M, j) = l
    BY <1>6
  <2> HIDE DEF i, j
  <2>2. i \in Nat /\ j \in Nat /\ k \in Nat /\ l \in Nat
    BY <1>3, <1>5, <2>1
  <2>3. ~(j < i)
    BY <1>5, <1>8, <2>1, <2>2
  <2>4. i # j
    BY <1>8, <2>1, <2>2
  <2> QED BY <2>2, <2>3, <2>4 DEF i, j
<1>9. \A k \in 1 .. c : pick(k) \in M /\ pick(k) \in DOMAIN records
  BY <1>3, <1>6
<1>10. \A i \in M : Rank(M, i) \in 1 .. c /\ pick(Rank(M, i)) = i
  BY <1>5, <1>7
<1> HIDE DEF pick
<1>11. DOMAIN h = 1 .. c /\ \A k \in 1 .. c : h[k] = records[pick(k)].sequence
  OBVIOUS
<1>12. h \in Seq(0 .. nextSequence - 1)
  <2>1. \A k \in 1 .. c : records[pick(k)].sequence \in 0 .. nextSequence - 1
    BY <1>4, <1>9
  <2>2. h \in [1 .. c -> 0 .. nextSequence - 1]
    BY <2>1
  <2> HIDE DEF h
  <2> QED BY <1>5, <2>2, SeqDef
<1> HIDE DEF h
<1>13. Increasing(h)
  <2> SUFFICES ASSUME NEW k \in 1 .. c, NEW l \in 1 .. c, k < l PROVE h[k] < h[l]
    BY <1>11 DEF Increasing
  <2>1. pick(k) < pick(l) /\ pick(k) \in DOMAIN records /\ pick(l) \in DOMAIN records
    BY <1>8, <1>9
  <2>2. records[pick(k)].sequence < records[pick(l)].sequence
    BY <2>1 DEF LogInOrder
  <2> QED BY <1>11, <2>2
<1>14. Range(h) = {r.sequence : r \in {q \in Range(records) : q.topic \in ts}}
  <2> DEFINE R == {r.sequence : r \in {q \in Range(records) : q.topic \in ts}}
  <2>1. ASSUME NEW k \in 1 .. c PROVE h[k] \in R
    <3>1. pick(k) \in DOMAIN records /\ records[pick(k)].topic \in ts
      BY <1>3, <1>9
    <3> QED BY <1>11, <3>1 DEF Range
  <2>2. ASSUME NEW i \in DOMAIN records, records[i].topic \in ts
        PROVE  records[i].sequence \in Range(h)
    <3>1. i \in M
      BY <1>3, <2>2
    <3>2. Rank(M, i) \in 1 .. c /\ h[Rank(M, i)] = records[i].sequence
      BY <1>10, <1>11, <3>1
    <3> QED BY <1>11, <3>2 DEF Range
  <2>3. Range(h) \subseteq R
    BY <1>11, <2>1 DEF Range
  <2>4. R \subseteq Range(h)
    BY <2>2 DEF Range
  <2> QED BY <2>3, <2>4
<1> QED BY <1>1, <1>12, <1>13, <1>14

-----------------------------------------------------------------------------
(* The steps *)

\* Nothing that was dispatched is taken back.
Begins == \A s \in Subs : Len(started[s]) <= Len(started'[s])

\* The number of records that were dispatched is a number.
LEMMA StartedTypes ==
    IInv => \A s \in Subs : /\ Len(started[s]) \in Nat
                            /\ Len(started[s]) <= Len(Given(s)) /\ Given(s) \in Seq(Nat)
<1> SUFFICES ASSUME IInv, NEW s \in Subs
             PROVE  /\ Len(started[s]) \in Nat
                    /\ Len(started[s]) <= Len(Given(s)) /\ Given(s) \in Seq(Nat)
  OBVIOUS
<1> DEFINE num == 0 .. nextSequence - 1
<1>1. started[s] \in Seq(num) /\ waiting[s] \in Seq(num)
  BY DEF IInv, PoolsSound, Sound, PoolOf
<1>2. num \subseteq Nat
  BY DriverAssumption DEF IInv, StoreTyped
<1> HIDE DEF num
<1>3. started[s] \in Seq(Nat) /\ waiting[s] \in Seq(Nat)
  BY <1>1, <1>2, SeqMonotonic
<1>4. Given(s) \in Seq(Nat) /\ Len(Given(s)) = Len(started[s]) + Len(waiting[s])
  BY <1>3, ConcatProperties DEF Given
<1>5. Len(started[s]) \in Nat /\ Len(waiting[s]) \in Nat
  BY <1>3
<1>6. \A a, b \in Nat : a <= a + b
  OBVIOUS
<1>7. Len(started[s]) <= Len(started[s]) + Len(waiting[s])
  BY <1>5, <1>6
<1> QED BY <1>4, <1>5, <1>7, Zenon

\* Pools nobody touches stay sound, also when listeners are detached.
LEMMA PoolsKept ==
    ASSUME PoolsSound, NothingSkipped, UNCHANGED <<pool, subs, nextSequence>>,
           listening' \subseteq listening, records' = records \/ listening' = {}
    PROVE  PoolsSound' /\ NothingSkipped'
<1>1. active' = active /\ waiting' = waiting /\ running' = running /\ started' = started
      /\ subs' = subs /\ nextSequence' = nextSequence
  BY DEF pool
<1>2. PoolsSound'
  BY <1>1 DEF PoolsSound, PoolMaps, Sound, PoolOf
<1>3. NothingSkipped'
  <2>1. CASE records' = records
    BY <1>1, <2>1 DEF NothingSkipped, Given
  <2>2. CASE listening' = {}
    BY <2>2 DEF NothingSkipped
  <2> QED BY <2>1, <2>2
<1> QED BY <1>2, <1>3

\* A topic that is created gets its partitions, and one that exists keeps them.
LEMMA CreateTopicStep ==
    ASSUME IInv, NEW t \in Topics, NEW n \in 1 .. MaxPartitions, CreateTopic(t, n)
    PROVE  IInv'
<1> USE DEF CreateTopic
<1>1. UNCHANGED <<records, nextSequence, disconnects, calls, listening, subs, pool>>
  OBVIOUS
<1>2. StoreTyped'
  <2>1. MaxPartitions \in Nat
    BY DriverAssumption
  <2> QED BY <1>1, <2>1 DEF IInv, StoreTyped
<1>3. LogInOrder' /\ CallsInOrder' /\ SubsTyped'
  BY <1>1 DEF IInv, LogInOrder, CallsInOrder, SubsTyped
<1>4. PoolsSound' /\ NothingSkipped'
  BY <1>1, PoolsKept DEF IInv
<1> QED BY <1>2, <1>3, <1>4 DEF IInv

\* A disconnect leaves an empty log, which is in order, and no listener to owe anything.
LEMMA DisconnectStep ==
    ASSUME IInv, Disconnect
    PROVE  IInv'
<1>1. /\ disconnects < MaxDisconnects /\ disconnects' = disconnects + 1
      /\ records' = << >> /\ partitions' = [t \in Topics |-> 0] /\ listening' = {}
      /\ UNCHANGED <<nextSequence, calls, subs, pool>>
  BY DEF Disconnect
<1>2. StoreTyped'
  <2>1. MaxPartitions \in Nat /\ MaxDisconnects \in Nat
    BY DriverAssumption
  <2> QED BY <1>1, <2>1 DEF IInv, StoreTyped
<1>3. LogInOrder'
  BY <1>1 DEF LogInOrder
<1>4. CallsInOrder' /\ SubsTyped'
  BY <1>1 DEF IInv, CallsInOrder, SubsTyped
<1>5. PoolsSound' /\ NothingSkipped'
  BY <1>1, PoolsKept DEF IInv
<1> QED BY <1>2, <1>3, <1>4, <1>5 DEF IInv

\* A disposer only detaches its listener.
LEMMA DisposeStep ==
    ASSUME IInv, NEW s \in Subs, Dispose(s)
    PROVE  IInv'
<1>1. listening' = listening \ {s} /\ UNCHANGED <<store, calls, subs, pool>>
  BY DEF Dispose
<1>2. StoreTyped' /\ LogInOrder' /\ CallsInOrder' /\ SubsTyped'
  BY <1>1 DEF IInv, StoreTyped, LogInOrder, CallsInOrder, SubsTyped, store
<1>3. PoolsSound' /\ NothingSkipped'
  BY <1>1, PoolsKept DEF IInv, store
<1> QED BY <1>2, <1>3 DEF IInv

\* The offset and the partition a produce call fixes are within their bounds.
LEMMA ProduceStartStep ==
    ASSUME IInv, NEW c \in Calls, NEW t \in Topics, NEW k \in Keys, ProduceStart(c, t, k)
    PROVE  IInv'
<1> DEFINE p == PartitionForKey(k, partitions[t])
           o == NextOffset(t, p)
           call == [topic |-> t, key |-> k, partition |-> p, offset |-> o]
<1>1. /\ partitions[t] > 0 /\ calls' = [calls EXCEPT ![c] = call]
      /\ UNCHANGED <<store, listening, subs, pool>>
  BY DEF ProduceStart
<1>2. p \in 0 .. MaxPartitions - 1
  <2>1. partitions[t] \in 0 .. MaxPartitions /\ MaxPartitions \in Nat
    BY DriverAssumption DEF IInv, StoreTyped
  <2> DEFINE n == partitions[t]
  <2>2. n \in Nat \ {0} /\ n <= MaxPartitions
    BY <1>1, <2>1
  <2> HIDE DEF n
  <2>3. PartitionForKey(k, n) \in 0 .. n - 1
    BY <2>2, PartitionProperties
  <2> QED BY <2>1, <2>2, <2>3 DEF n
<1>3. o \in 0 .. nextSequence /\ o \in 0 .. MaxRecords
  <2>1. o \in 0 .. nextSequence
    BY NextOffsetProperties DEF IInv
  <2>2. nextSequence \in 0 .. MaxRecords /\ MaxRecords \in Nat
    BY DriverAssumption DEF IInv, StoreTyped
  <2> HIDE DEF o
  <2> QED BY <2>1, <2>2
<1> HIDE DEF p, o
<1>4. call \in Prepared /\ call.offset <= nextSequence
  <2>1. nextSequence \in Nat
    BY DriverAssumption DEF IInv, StoreTyped
  <2> QED BY <1>2, <1>3, <2>1 DEF Prepared
<1> HIDE DEF call
<1>5. CallsInOrder'
  <2>1. nextSequence' = nextSequence
    BY <1>1 DEF store
  <2> QED BY <1>1, <1>4, <2>1 DEF IInv, CallsInOrder
<1>6. StoreTyped' /\ LogInOrder' /\ SubsTyped'
  BY <1>1 DEF IInv, StoreTyped, LogInOrder, SubsTyped, store
<1>7. PoolsSound' /\ NothingSkipped'
  BY <1>1, PoolsKept DEF IInv, store
<1> QED BY <1>5, <1>6, <1>7 DEF IInv

\* A produce call that fails leaves nothing.
LEMMA ProduceFailsStep ==
    ASSUME IInv, NEW c \in Calls, ProduceFails(c)
    PROVE  IInv'
<1>1. /\ calls' = [calls EXCEPT ![c] = Idle]
      /\ UNCHANGED <<store, listening, subs, pool>>
  BY DEF ProduceFails
<1>2. CallsInOrder'
  <2>1. nextSequence' = nextSequence
    BY <1>1 DEF store
  <2> QED BY <1>1, <2>1 DEF IInv, CallsInOrder
<1>3. StoreTyped' /\ LogInOrder' /\ SubsTyped'
  BY <1>1 DEF IInv, StoreTyped, LogInOrder, SubsTyped, store
<1>4. PoolsSound' /\ NothingSkipped'
  BY <1>1, PoolsKept DEF IInv, store
<1> QED BY <1>2, <1>3, <1>4 DEF IInv

\* A dispatch that ends changes the pool of its subscription, and not what that
\* subscription was given.
LEMMA DispatchEndsStep ==
    ASSUME IInv, NEW s \in Subs, NEW n, DispatchEnds(s, n)
    PROVE  IInv' /\ Begins /\ \A o \in Subs : Given(o)' = Given(o)
<1>1. n \in running[s] /\ UNCHANGED <<store, calls, listening, subs>>
  BY DEF DispatchEnds
<1>2. /\ DOMAIN active = Subs /\ DOMAIN waiting = Subs
      /\ DOMAIN running = Subs /\ DOMAIN started = Subs
  <2>1. PoolMaps
    BY DEF IInv, PoolsSound
  <2> QED BY <2>1 DEF PoolMaps
<1>3. /\ PoolMaps'
      /\ PoolOf(s)' = Ended(s, n)
      /\ \A o \in Subs \ {s} : PoolOf(o)' = PoolOf(o) /\ Given(o)' = Given(o)
  <2>1. CASE Limit[s] > 1 /\ waiting[s] # << >>
    <3>1. /\ running' = [running EXCEPT ![s] = (@ \ {n}) \cup {Head(waiting[s])}]
          /\ started' = [started EXCEPT ![s] = Append(@, Head(waiting[s]))]
          /\ waiting' = [waiting EXCEPT ![s] = Tail(@)]
          /\ active' = active
      BY <2>1 DEF DispatchEnds
    <3>2. /\ running'[s] = (running[s] \ {n}) \cup {Head(waiting[s])}
          /\ started'[s] = Append(started[s], Head(waiting[s]))
          /\ waiting'[s] = Tail(waiting[s]) /\ active'[s] = active[s]
      BY <1>2, <3>1
    <3>3. PoolOf(s)' = Ended(s, n)
      BY <2>1, <3>2 DEF PoolOf, Ended
    <3>4. PoolMaps'
      <4>1. PoolMaps
        BY DEF IInv, PoolsSound
      <4> QED BY <3>1, <4>1 DEF PoolMaps
    <3>5. \A o \in Subs \ {s} : active'[o] = active[o] /\ waiting'[o] = waiting[o]
                                /\ running'[o] = running[o] /\ started'[o] = started[o]
      BY <1>2, <3>1
    <3> QED BY <3>3, <3>4, <3>5 DEF PoolOf, Given
  <2>2. CASE ~(Limit[s] > 1 /\ waiting[s] # << >>)
    <3>1. /\ running' = [running EXCEPT ![s] = @ \ {n}]
          /\ active' = [active EXCEPT ![s] = IF Limit[s] > 1 THEN @ - 1 ELSE @]
          /\ started' = started /\ waiting' = waiting
      BY <2>2 DEF DispatchEnds
    <3>2. /\ running'[s] = running[s] \ {n}
          /\ active'[s] = IF Limit[s] > 1 THEN active[s] - 1 ELSE active[s]
          /\ started'[s] = started[s] /\ waiting'[s] = waiting[s]
      BY <1>2, <3>1
    <3>3. PoolOf(s)' = Ended(s, n)
      BY <2>2, <3>2 DEF PoolOf, Ended
    <3>4. PoolMaps'
      <4>1. PoolMaps
        BY DEF IInv, PoolsSound
      <4> QED BY <3>1, <4>1 DEF PoolMaps
    <3>5. \A o \in Subs \ {s} : active'[o] = active[o] /\ waiting'[o] = waiting[o]
                                /\ running'[o] = running[o] /\ started'[o] = started[o]
      BY <1>2, <3>1
    <3> QED BY <3>3, <3>4, <3>5 DEF PoolOf, Given
  <2> QED BY <2>1, <2>2
<1>4. nextSequence \in Nat /\ Sound(s, PoolOf(s), nextSequence)
  BY DriverAssumption DEF IInv, StoreTyped, PoolsSound
<1>5. /\ Sound(s, Ended(s, n), nextSequence)
      /\ Ended(s, n).started \o Ended(s, n).waiting = Given(s)
      /\ Len(started[s]) <= Len(Ended(s, n).started)
  BY <1>1, <1>4, EndedSound
<1>6. Given(s)' = Given(s)
  <2>1. PoolOf(s)'.started = started'[s] /\ PoolOf(s)'.waiting = waiting'[s]
    BY DEF PoolOf
  <2> QED BY <1>3, <1>5, <2>1 DEF Given
<1>7. \A o \in Subs : Given(o)' = Given(o)
  BY <1>3, <1>6
<1>8. \A o \in Subs : Sound(o, PoolOf(o)', nextSequence)
  BY <1>3, <1>5 DEF IInv, PoolsSound
<1>9. subs' = subs /\ listening' = listening /\ nextSequence' = nextSequence /\ records' = records
  BY <1>1 DEF store
<1>10. subs[s] # Closed
  <2>1. SUFFICES ASSUME subs[s] = Closed PROVE FALSE
    OBVIOUS
  <2>2. started[s] = << >>
    BY <2>1 DEF IInv, PoolsSound
  <2>3. n \in Range(started[s])
    BY <1>1, <1>4 DEF Sound, PoolOf
  <2> QED BY <2>2, <2>3 DEF Range
<1>11. \A o \in Subs : subs'[o] = Closed =>
          o \notin listening' /\ started'[o] = << >> /\ waiting'[o] = << >>
  <2> SUFFICES ASSUME NEW o \in Subs, subs'[o] = Closed
               PROVE  o \notin listening' /\ started'[o] = << >> /\ waiting'[o] = << >>
    OBVIOUS
  <2>1. o # s
    BY <1>9, <1>10
  <2>2. PoolOf(o)' = PoolOf(o)
    BY <1>3, <2>1
  <2>3. PoolOf(o)'.started = started'[o] /\ PoolOf(o)'.waiting = waiting'[o]
        /\ PoolOf(o).started = started[o] /\ PoolOf(o).waiting = waiting[o]
    BY DEF PoolOf
  <2> QED BY <1>9, <2>2, <2>3 DEF IInv, PoolsSound
<1>12. PoolsSound'
  <2>1. \A o \in Subs : Sound(o, PoolOf(o), nextSequence)'
    BY <1>8, <1>9 DEF Sound
  <2> QED BY <1>3, <1>11, <2>1 DEF PoolsSound
<1>13. NothingSkipped'
  BY <1>7, <1>9 DEF IInv, NothingSkipped, SubsTyped
<1>14. StoreTyped' /\ LogInOrder' /\ CallsInOrder' /\ SubsTyped'
  BY <1>1 DEF IInv, StoreTyped, LogInOrder, CallsInOrder, SubsTyped, store
<1>15. Begins
  <2>1. \A o \in Subs : PoolOf(o)'.started = started'[o] /\ PoolOf(o).started = started[o]
                        /\ Len(started[o]) \in Nat
    BY StartedTypes DEF PoolOf
  <2>2. \A o \in Subs : Len(PoolOf(o).started) <= Len(PoolOf(o)'.started)
    BY <1>3, <1>5, <2>1
  <2> QED BY <2>1, <2>2 DEF Begins
<1> QED BY <1>7, <1>12, <1>13, <1>14, <1>15 DEF IInv

\* A record that is produced is the last of the log, and every listener that is
\* owed it is given it after all it was given before.
LEMMA ProduceEndStep ==
    ASSUME IInv, NEW c \in Calls, ProduceEnd(c)
    PROVE  /\ IInv' /\ Begins
           /\ \A s \in Subs : Given(s)' = IF s \in listening /\ calls[c].topic \in subs[s].topics
                                          THEN Append(Given(s), nextSequence) ELSE Given(s)
<1> DEFINE n == nextSequence
           rec == [topic |-> calls[c].topic, key |-> calls[c].key,
                   partition |-> calls[c].partition, offset |-> calls[c].offset,
                   sequence |-> n]
           to == {s \in Subs : Takes(s, calls[c].topic, n)}
           batch == <<n>>
<1>1. /\ calls[c] # Idle /\ n < MaxRecords
      /\ nextSequence' = n + 1 /\ records' = Append(records, rec)
      /\ calls' = [calls EXCEPT ![c] = Idle]
      /\ EnqueueAll(to, batch)
      /\ partitions' = partitions /\ disconnects' = disconnects
      /\ listening' = listening /\ subs' = subs
  BY DEF ProduceEnd
<1>2. n \in Nat /\ n \in 0 .. MaxRecords /\ MaxRecords \in Nat /\ n + 1 \in 0 .. MaxRecords
  BY <1>1, DriverAssumption DEF IInv, StoreTyped
<1>3. calls[c] \in Prepared /\ calls[c].offset <= n
  BY <1>1 DEF IInv, CallsInOrder
<1>4. rec \in Stored /\ rec.sequence = n /\ rec.offset <= rec.sequence /\ rec.topic = calls[c].topic
  <2>1. n \in Sequences
    BY <1>1, <1>2 DEF Sequences
  <2> QED BY <1>3, <2>1 DEF Prepared, Stored
<1> HIDE DEF rec
<1>5. StoreTyped'
  BY <1>1, <1>2 DEF IInv, StoreTyped
<1>6. /\ records \in Seq(Stored) /\ records' \in Seq(Stored)
      /\ Len(records) \in Nat /\ DOMAIN records = 1 .. Len(records)
      /\ DOMAIN records' = 1 .. Len(records) + 1
      /\ \A i \in 1 .. Len(records) : records'[i] = records[i]
      /\ records'[Len(records) + 1] = rec
  BY <1>1, <1>4 DEF IInv, LogInOrder
<1>7. \A i \in DOMAIN records : records[i].sequence \in Nat /\ records[i].sequence < n
                                /\ records[i].offset <= records[i].sequence
  <2>1. \A i \in DOMAIN records : records[i] \in Stored
    BY <1>6
  <2> QED BY <1>2, <2>1 DEF IInv, LogInOrder, Stored, Sequences
<1>8. LogInOrder'
  <2>1. ASSUME NEW i \in DOMAIN records'
        PROVE  records'[i].sequence < n + 1 /\ records'[i].offset <= records'[i].sequence
    <3>1. CASE i \in 1 .. Len(records)
      BY <1>2, <1>6, <1>7, <3>1
    <3>2. CASE i = Len(records) + 1
      BY <1>2, <1>4, <1>6, <3>2
    <3> QED BY <1>6, <3>1, <3>2
  <2>2. ASSUME NEW i \in DOMAIN records', NEW j \in DOMAIN records', i < j
        PROVE  records'[i].sequence < records'[j].sequence
    <3>1. i \in DOMAIN records /\ records'[i] = records[i]
      BY <1>6, <2>2
    <3>2. CASE j \in DOMAIN records
      <4>1. records'[j] = records[j]
        BY <1>6, <3>2
      <4> QED BY <2>2, <3>1, <3>2, <4>1 DEF IInv, LogInOrder
    <3>3. CASE j = Len(records) + 1
      BY <1>4, <1>6, <1>7, <3>1, <3>3
    <3> QED BY <1>6, <3>2, <3>3
  <2> QED BY <1>1, <1>6, <2>1, <2>2 DEF LogInOrder
<1>9. CallsInOrder'
  <2>1. calls' \in [Calls -> Prepared \cup {Idle}]
    BY <1>1 DEF IInv, CallsInOrder
  <2>2. ASSUME NEW d \in Calls, calls'[d] # Idle PROVE calls'[d].offset <= n + 1
    <3>1. calls'[d] = calls[d]
      BY <1>1, <2>2 DEF IInv, CallsInOrder
    <3>2. calls[d] \in Prepared /\ calls[d].offset <= n
      BY <2>2, <3>1 DEF IInv, CallsInOrder
    <3>3. calls[d].offset \in Nat
      BY <1>2, <3>2 DEF Prepared
    <3> QED BY <1>2, <3>1, <3>2, <3>3
  <2> QED BY <1>1, <2>1, <2>2 DEF CallsInOrder
<1>10. SubsTyped'
  <2>1. \A s \in Subs : subs[s].from \in Nat
    BY <1>2 DEF IInv, SubsTyped
  <2> QED BY <1>1, <1>2, <2>1 DEF IInv, SubsTyped
<1>11. \A s \in Subs : Sound(s, PoolOf(s), n)
  BY DEF IInv, PoolsSound
<1>12. ASSUME NEW s \in Subs
       PROVE  /\ Given(s) \in Seq(0 .. n) /\ Range(Given(s)) \subseteq 0 .. n - 1
  <2> DEFINE pl == PoolOf(s)
  <2>1. pl.started \o pl.waiting = Given(s)
    BY DEF PoolOf, Given
  <2>2. Sound(s, pl, n) /\ n + 1 \in Nat /\ n <= n + 1
    BY <1>2, <1>11
  <2> HIDE DEF pl
  <2>3. pl.started \o pl.waiting \in Seq(0 .. (n + 1) - 1)
        /\ Range(pl.started \o pl.waiting) \subseteq 0 .. n - 1
    BY <1>2, <2>2, SoundTypes
  <2>4. (n + 1) - 1 = n
    BY <1>2
  <2> QED BY <2>1, <2>3, <2>4
<1>13. batch \in Seq(0 .. n) /\ Increasing(batch) /\ Range(batch) = {n}
  <2>1. n \in 0 .. n
    BY <1>2
  <2> QED BY <2>1 DEF Increasing, Range
<1> HIDE DEF batch
<1>14. ASSUME NEW s \in Subs
       PROVE  /\ Sound(s, Enqueue(s, batch), n + 1)
              /\ Enqueue(s, batch).started \o Enqueue(s, batch).waiting = Given(s) \o batch
              /\ Len(started[s]) <= Len(Enqueue(s, batch).started)
              /\ Sound(s, PoolOf(s), n + 1)
  <2>1. n + 1 \in Nat /\ n <= n + 1 /\ (n + 1) - 1 = n
    BY <1>2
  <2>2. \A x \in Range(Given(s)), y \in Range(batch) : x < y
    BY <1>2, <1>12, <1>13
  <2>3. batch \in Seq(0 .. (n + 1) - 1)
    BY <1>13, <2>1
  <2>4. Sound(s, PoolOf(s), n + 1)
    BY <1>2, <1>11, <2>1, SoundGrows
  <2>5. /\ Sound(s, Enqueue(s, batch), n + 1)
        /\ Enqueue(s, batch).started \o Enqueue(s, batch).waiting = Given(s) \o batch
        /\ Len(started[s]) <= Len(Enqueue(s, batch).started)
    BY <1>2, <1>11, <1>13, <2>1, <2>2, <2>3, EnqueueSound
  <2> QED BY <2>4, <2>5
<1> HIDE DEF n
<1>takers. \A s \in Subs : s \in to <=> s \in listening /\ calls[c].topic \in subs[s].topics
  <2> TAKE s \in Subs
  <2>1. subs[s].from \in Nat /\ subs[s].from <= n
    BY <1>2 DEF IInv, SubsTyped, n
  <2>2. n >= subs[s].from
    BY <1>2, <2>1
  <2> QED BY <2>2 DEF Takes
<1>15. /\ PoolMaps'
       /\ \A s \in Subs : PoolOf(s)' = IF s \in to THEN Enqueue(s, batch) ELSE PoolOf(s)
       /\ \A s \in Subs : Given(s)' = IF s \in to THEN Given(s) \o batch ELSE Given(s)
  <2>1. to \in SUBSET Subs
    OBVIOUS
  <2> HIDE DEF to
  <2>2. /\ PoolMaps'
        /\ \A s \in Subs :
              /\ PoolOf(s)' = IF s \in to THEN Enqueue(s, batch) ELSE PoolOf(s)
              /\ Given(s)' = IF s \in to
                             THEN Enqueue(s, batch).started \o Enqueue(s, batch).waiting
                             ELSE Given(s)
    BY <1>1, <2>1, EnqueueAllPools
  <2> QED BY <1>14, <2>2
<1>16. PoolsSound'
  <2>1. \A s \in Subs : Sound(s, PoolOf(s)', n + 1)
    BY <1>14, <1>15
  <2>2. \A s \in Subs : Sound(s, PoolOf(s), nextSequence)'
    BY <1>1, <2>1 DEF Sound
  <2>3. ASSUME NEW s \in Subs, subs'[s] = Closed
        PROVE  s \notin listening' /\ started'[s] = << >> /\ waiting'[s] = << >>
    <3>1. s \notin listening /\ started[s] = << >> /\ waiting[s] = << >>
      BY <1>1, <2>3 DEF IInv, PoolsSound
    <3>2. s \notin to
      BY <3>1 DEF Takes
    <3>3. PoolOf(s)' = PoolOf(s)
      BY <1>15, <3>2
    <3>4. PoolOf(s)'.started = started'[s] /\ PoolOf(s)'.waiting = waiting'[s]
          /\ PoolOf(s).started = started[s] /\ PoolOf(s).waiting = waiting[s]
      BY DEF PoolOf
    <3> QED BY <1>1, <3>1, <3>3, <3>4
  <2> QED BY <1>15, <2>2, <2>3 DEF PoolsSound
<1>17. NothingSkipped'
  <2> SUFFICES ASSUME NEW s \in listening' PROVE Range(Given(s)') = Owed(s)'
    BY DEF NothingSkipped, Owed
  <2>1. s \in listening /\ s \in Subs
    BY <1>1 DEF IInv, SubsTyped
  <2>2. Range(Given(s)) = Owed(s)
    BY <2>1 DEF IInv, NothingSkipped, Owed
  <2>3. Range(records') = Range(records) \cup {rec}
    BY <1>6 DEF Range
  <2>4. subs[s].from <= n
    BY <2>1 DEF IInv, SubsTyped, n
  <2>5. s \in to <=> calls[c].topic \in subs[s].topics
    BY <1>takers, <2>1
  <2>6. Owed(s)' = IF s \in to THEN Owed(s) \cup {n} ELSE Owed(s)
    <3>1. rec.topic \in subs[s].topics <=> s \in to
      BY <1>4, <2>5
    <3>2. rec.sequence = n /\ rec.sequence >= subs[s].from
      <4>1. subs[s].from \in Nat
        BY <1>2, <2>1 DEF IInv, SubsTyped
      <4> QED BY <1>2, <1>4, <2>4, <4>1
    <3> HIDE DEF to
    <3>3. subs' = subs
      BY <1>1
    <3>4. Owed(s)' = {r.sequence : r \in {q \in Range(records') :
              /\ q.topic \in subs[s].topics
              /\ subs[s].beginning \/ q.sequence >= subs[s].from}}
      BY <3>3 DEF Owed
    <3> QED BY <2>3, <3>1, <3>2, <3>4 DEF Owed
  <2>7. Range(Given(s) \o batch) = Range(Given(s)) \cup {n}
    BY <1>12, <1>13, <2>1, ConcatRange
  <2> QED BY <1>15, <2>1, <2>2, <2>6, <2>7
<1>18. Begins
  <2>1. \A s \in Subs : PoolOf(s)'.started = started'[s] /\ PoolOf(s).started = started[s]
                        /\ Len(started[s]) \in Nat
    BY StartedTypes DEF PoolOf
  <2>2. \A s \in Subs : Len(PoolOf(s).started) <= Len(PoolOf(s)'.started)
    <3> TAKE s \in Subs
    <3>1. CASE s \in to
      <4>1. PoolOf(s)' = Enqueue(s, batch) /\ Len(started[s]) <= Len(Enqueue(s, batch).started)
        BY <1>14, <1>15, <3>1
      <4> QED BY <2>1, <4>1
    <3>2. CASE s \notin to
      <4>1. PoolOf(s)' = PoolOf(s)
        BY <1>15, <3>2
      <4>2. Len(PoolOf(s).started) \in Nat
        BY <2>1
      <4> QED BY <4>1, <4>2
    <3> QED BY <3>1, <3>2
  <2> QED BY <2>1, <2>2 DEF Begins
<1>19. \A s \in Subs : Given(s) \o batch = Append(Given(s), n)
  BY <1>12, <1>2, AppendIsConcat DEF batch
<1>20. \A s \in Subs : Given(s)' = IF s \in listening /\ calls[c].topic \in subs[s].topics
                                   THEN Append(Given(s), n) ELSE Given(s)
  BY <1>takers, <1>15, <1>19
<1> QED BY <1>5, <1>8, <1>9, <1>10, <1>16, <1>17, <1>18, <1>20 DEF IInv, n

\* A subscription that is opened is given the records it is owed at that time.
LEMMA ConsumeStep ==
    ASSUME IInv, NEW s \in Subs, NEW ts \in (SUBSET Topics) \ {{}}, NEW beginning \in BOOLEAN,
           Consume(s, ts, beginning)
    PROVE  /\ IInv' /\ Begins
           /\ Increasing(Given(s)')
           /\ Range(Given(s)') = IF beginning
                                 THEN {r.sequence : r \in {q \in Range(records) : q.topic \in ts}}
                                 ELSE {}
           /\ \A o \in Subs \ {s} : Given(o)' = Given(o)
<1> DEFINE n == nextSequence
           batch == IF beginning THEN History(ts) ELSE << >>
           sub == [topics |-> ts, from |-> n, beginning |-> beginning]
<1>1. /\ subs[s] = Closed /\ subs' = [subs EXCEPT ![s] = sub]
      /\ listening' = listening \cup {s}
      /\ EnqueueAll({s}, batch)
      /\ partitions' = partitions /\ records' = records /\ nextSequence' = n
      /\ disconnects' = disconnects /\ calls' = calls
  BY DEF Consume, store
<1>2. n \in Nat /\ n \in 0 .. MaxRecords
  BY DriverAssumption DEF IInv, StoreTyped
<1>3. s \notin listening /\ started[s] = << >> /\ waiting[s] = << >> /\ Given(s) = << >>
  <2>1. s \notin listening /\ started[s] = << >> /\ waiting[s] = << >>
    BY <1>1 DEF IInv, PoolsSound
  <2>2. << >> \o << >> = << >>
    OBVIOUS
  <2> QED BY <2>1, <2>2 DEF Given
<1>4. batch \in Seq(0 .. n - 1) /\ Increasing(batch)
      /\ Range(batch) = IF beginning
                        THEN {r.sequence : r \in {q \in Range(records) : q.topic \in ts}}
                        ELSE {}
  <2>1. CASE beginning
    BY <2>1, HistoryProperties DEF IInv
  <2>2. CASE ~beginning
    BY <2>2 DEF Increasing, Range
  <2> QED BY <2>1, <2>2
<1> HIDE DEF batch
<1>5. /\ Sound(s, Enqueue(s, batch), n)
      /\ Enqueue(s, batch).started \o Enqueue(s, batch).waiting = batch
      /\ Len(started[s]) <= Len(Enqueue(s, batch).started)
  <2>1. Sound(s, PoolOf(s), n) /\ n <= n
    BY <1>2 DEF IInv, PoolsSound
  <2>2. \A x \in Range(Given(s)), y \in Range(batch) : x < y
    BY <1>3 DEF Range
  <2>3. /\ Sound(s, Enqueue(s, batch), n)
        /\ Enqueue(s, batch).started \o Enqueue(s, batch).waiting = Given(s) \o batch
        /\ Len(started[s]) <= Len(Enqueue(s, batch).started)
    BY <1>2, <1>4, <2>1, <2>2, EnqueueSound
  <2>4. Given(s) \o batch = batch
    BY <1>3, <1>4, ConcatEmptySeq
  <2> QED BY <2>3, <2>4
<1>6. /\ PoolMaps'
      /\ PoolOf(s)' = Enqueue(s, batch) /\ Given(s)' = batch
      /\ \A o \in Subs \ {s} : PoolOf(o)' = PoolOf(o) /\ Given(o)' = Given(o)
  <2>1. {s} \in SUBSET Subs /\ s \in {s} /\ \A o \in Subs \ {s} : o \notin {s}
    OBVIOUS
  <2> DEFINE to == {s}
  <2>2. to \in SUBSET Subs /\ EnqueueAll(to, batch) /\ s \in to /\ \A o \in Subs \ {s} : o \notin to
    BY <1>1, <2>1
  <2> HIDE DEF to
  <2>3. /\ PoolMaps'
        /\ \A o \in Subs :
              /\ PoolOf(o)' = IF o \in to THEN Enqueue(o, batch) ELSE PoolOf(o)
              /\ Given(o)' = IF o \in to
                             THEN Enqueue(o, batch).started \o Enqueue(o, batch).waiting
                             ELSE Given(o)
    BY <2>2, EnqueueAllPools
  <2> QED BY <1>5, <2>2, <2>3
<1>7. /\ subs \in [Subs -> [topics : SUBSET Topics, from : 0 .. MaxRecords, beginning : BOOLEAN]]
      /\ listening \subseteq Subs /\ \A o \in Subs : subs[o].from <= n
  BY DEF IInv, SubsTyped
<1>8. subs'[s] = sub /\ \A o \in Subs \ {s} : subs'[o] = subs[o]
  BY <1>1, <1>7
<1>9. SubsTyped'
  <2>1. sub \in [topics : SUBSET Topics, from : 0 .. MaxRecords, beginning : BOOLEAN]
    BY <1>2
  <2>2. sub.from <= n
    BY <1>2
  <2> HIDE DEF sub, n
  <2> QED BY <1>1, <1>7, <1>8, <2>1, <2>2 DEF SubsTyped
<1>10. PoolsSound'
  <2>1. \A o \in Subs : Sound(o, PoolOf(o)', n)
    BY <1>5, <1>6 DEF IInv, PoolsSound
  <2>2. \A o \in Subs : Sound(o, PoolOf(o), nextSequence)'
    BY <1>1, <2>1 DEF Sound
  <2>3. ASSUME NEW o \in Subs, subs'[o] = Closed
        PROVE  o \notin listening' /\ started'[o] = << >> /\ waiting'[o] = << >>
    <3>1. o # s
      <4>1. sub.topics = ts /\ Closed.topics = {}
        BY DEF Closed
      <4> QED BY <1>8, <2>3, <4>1
    <3>2. PoolOf(o)' = PoolOf(o)
      BY <1>6, <3>1
    <3>3. PoolOf(o)'.started = started'[o] /\ PoolOf(o)'.waiting = waiting'[o]
          /\ PoolOf(o).started = started[o] /\ PoolOf(o).waiting = waiting[o]
      BY DEF PoolOf
    <3> QED BY <1>1, <1>8, <2>3, <3>1, <3>2, <3>3 DEF IInv, PoolsSound
  <2> QED BY <1>6, <2>2, <2>3 DEF PoolsSound
<1>11. NothingSkipped'
  <2> SUFFICES ASSUME NEW o \in listening' PROVE Range(Given(o)') = Owed(o)'
    BY DEF NothingSkipped, Owed
  <2>1. CASE o = s
    <3>1. sub.topics = ts /\ sub.from = n /\ sub.beginning = beginning
      OBVIOUS
    <3>2. Owed(s)' = {r.sequence : r \in {q \in Range(records) :
                         q.topic \in ts /\ (beginning \/ q.sequence >= n)}}
      <4> HIDE DEF sub
      <4> QED BY <1>1, <1>8, <3>1 DEF Owed
    <3>3. \A q \in Range(records) : ~(q.sequence >= n)
      <4>1. ASSUME NEW i \in DOMAIN records PROVE ~(records[i].sequence >= n)
        <5>1. records[i] \in Stored /\ records[i].sequence < n
          BY DEF IInv, LogInOrder
        <5>2. records[i].sequence \in Nat
          BY <5>1, DriverAssumption DEF Stored, Sequences
        <5> QED BY <1>2, <5>1, <5>2
      <4> QED BY <4>1 DEF Range
    <3>4. Owed(s)' = Range(batch)
      <4> HIDE DEF n
      <4>1. CASE beginning
        BY <1>4, <3>2, <4>1
      <4>2. CASE ~beginning
        BY <1>4, <3>2, <3>3, <4>2
      <4> QED BY <4>1, <4>2
    <3> QED BY <1>6, <2>1, <3>4
  <2>2. CASE o # s
    <3>1. o \in listening /\ o \in Subs \ {s}
      BY <1>1, <1>7, <2>2
    <3>2. Range(Given(o)) = Owed(o)
      BY <3>1 DEF IInv, NothingSkipped, Owed
    <3>3. Owed(o)' = Owed(o)
      BY <1>1, <1>8, <3>1 DEF Owed
    <3> QED BY <1>6, <3>1, <3>2, <3>3
  <2> QED BY <2>1, <2>2
<1>12. StoreTyped' /\ LogInOrder' /\ CallsInOrder'
  BY <1>1 DEF IInv, StoreTyped, LogInOrder, CallsInOrder
<1>13. Begins
  <2>1. \A o \in Subs : PoolOf(o)'.started = started'[o] /\ PoolOf(o).started = started[o]
                        /\ Len(started[o]) \in Nat
    BY StartedTypes DEF PoolOf
  <2>2. \A o \in Subs : Len(PoolOf(o).started) <= Len(PoolOf(o)'.started)
    BY <1>5, <1>6, <2>1
  <2> QED BY <2>1, <2>2 DEF Begins
<1> QED BY <1>4, <1>6, <1>9, <1>10, <1>11, <1>12, <1>13 DEF IInv

\* Every step keeps the invariant.
LEMMA IInvNext ==
    IInv /\ [Next]_vars => IInv'
<1> SUFFICES ASSUME IInv, [Next]_vars PROVE IInv'
  OBVIOUS
<1>1. ASSUME NEW t \in Topics, NEW n \in 1 .. MaxPartitions, CreateTopic(t, n) PROVE IInv'
  BY <1>1, CreateTopicStep
<1>2. CASE Disconnect
  BY <1>2, DisconnectStep
<1>3. ASSUME NEW c \in Calls, NEW t \in Topics, NEW k \in Keys, ProduceStart(c, t, k) PROVE IInv'
  BY <1>3, ProduceStartStep
<1>4. ASSUME NEW c \in Calls, ProduceFails(c) PROVE IInv'
  BY <1>4, ProduceFailsStep
<1>5. ASSUME NEW c \in Calls, ProduceEnd(c) PROVE IInv'
  BY <1>5, ProduceEndStep
<1>6. ASSUME NEW s \in Subs, NEW ts \in (SUBSET Topics) \ {{}}, NEW b \in BOOLEAN, Consume(s, ts, b)
      PROVE  IInv'
  BY <1>6, ConsumeStep
<1>7. ASSUME NEW s \in Subs, Dispose(s) PROVE IInv'
  BY <1>7, DisposeStep
<1>8. ASSUME NEW s \in Subs, NEW n \in 0 .. MaxRecords - 1, DispatchEnds(s, n) PROVE IInv'
  BY <1>8, DispatchEndsStep
<1>9. CASE UNCHANGED vars
  <2>1. UNCHANGED <<partitions, records, nextSequence, disconnects, calls, listening, subs, pool>>
    BY <1>9 DEF vars, store
  <2>2. StoreTyped' /\ LogInOrder' /\ CallsInOrder' /\ SubsTyped'
    BY <2>1 DEF IInv, StoreTyped, LogInOrder, CallsInOrder, SubsTyped
  <2>3. PoolsSound' /\ NothingSkipped'
    BY <2>1, PoolsKept DEF IInv
  <2> QED BY <2>2, <2>3 DEF IInv
<1> QED BY <1>1, <1>2, <1>3, <1>4, <1>5, <1>6, <1>7, <1>8, <1>9 DEF Next

\* The empty broker satisfies it.
LEMMA IInvInit ==
    Init => IInv
<1> SUFFICES ASSUME Init PROVE IInv
  OBVIOUS
<1> USE DEF Init
<1>1. StoreTyped
  BY DriverAssumption DEF StoreTyped
<1>2. LogInOrder
  BY DEF LogInOrder
<1>3. CallsInOrder
  BY DEF CallsInOrder
<1>4. SubsTyped
  <2>1. Closed \in [topics : SUBSET Topics, from : 0 .. MaxRecords, beginning : BOOLEAN]
        /\ Closed.from = 0
    BY DriverAssumption DEF Closed
  <2> QED BY <2>1 DEF SubsTyped
<1>5. PoolsSound
  <2>1. \A s \in Subs : /\ active[s] = 0 /\ waiting[s] = << >>
                        /\ running[s] = {} /\ started[s] = << >>
    OBVIOUS
  <2>2. ASSUME NEW s \in Subs PROVE Sound(s, PoolOf(s), nextSequence)
    <3> DEFINE pl == PoolOf(s)
    <3>1. pl.active = 0 /\ pl.waiting = << >> /\ pl.running = {} /\ pl.started = << >>
      BY <2>1 DEF PoolOf
    <3> HIDE DEF pl
    <3>2. Cardinality({}) = 0
      BY FS_EmptySet
    <3>3. Limit[s] \in Nat \ {0}
      BY DriverAssumption
    <3>4. Increasing(pl.started \o pl.waiting)
      <4>1. << >> \o << >> = << >>
        OBVIOUS
      <4> QED BY <3>1, <4>1 DEF Increasing
    <3>5. Sound(s, pl, nextSequence)
      BY <3>1, <3>2, <3>3, <3>4 DEF Sound
    <3> QED BY <3>5 DEF pl
  <2>3. PoolMaps
    BY DEF PoolMaps
  <2> QED BY <2>1, <2>2, <2>3 DEF PoolsSound
<1>6. NothingSkipped
  BY DEF NothingSkipped
<1> QED BY <1>1, <1>2, <1>3, <1>4, <1>5, <1>6 DEF IInv

\* What a sound pool says of the numbers in it.
LEMMA IInvTypes ==
    IInv => TypeOK
<1> SUFFICES ASSUME IInv PROVE TypeOK
  OBVIOUS
<1>1. nextSequence \in 0 .. MaxRecords /\ MaxRecords \in Nat
  BY DriverAssumption DEF IInv, StoreTyped
<1>2. \A r \in Range(records) :
         /\ r.sequence \in Sequences
         /\ [topic |-> r.topic, key |-> r.key, partition |-> r.partition, offset |-> r.offset]
               \in Prepared
  <2>1. \A i \in DOMAIN records : records[i] \in Stored
    BY DEF IInv, LogInOrder
  <2> QED BY <2>1 DEF Range, Stored, Prepared
<1>3. \A s \in Subs : /\ active[s] \in Nat /\ running[s] \subseteq Sequences
                      /\ Range(waiting[s]) \subseteq Sequences /\ Range(started[s]) \subseteq Sequences
  <2> TAKE s \in Subs
  <2> DEFINE pl == PoolOf(s)
  <2>1. /\ pl.active = active[s] /\ pl.waiting = waiting[s]
        /\ pl.running = running[s] /\ pl.started = started[s]
    BY DEF PoolOf
  <2>2. Sound(s, pl, nextSequence) /\ nextSequence \in Nat /\ nextSequence <= nextSequence
    BY <1>1 DEF IInv, PoolsSound
  <2> HIDE DEF pl
  <2>3. /\ Range(pl.started) \subseteq Range(pl.started \o pl.waiting)
        /\ Range(pl.waiting) \subseteq Range(pl.started \o pl.waiting)
        /\ Range(pl.started \o pl.waiting) \subseteq 0 .. nextSequence - 1
    BY <2>2, SoundTypes
  <2>4. 0 .. nextSequence - 1 \subseteq Sequences
    BY <1>1 DEF Sequences
  <2> QED BY <2>1, <2>2, <2>3, <2>4 DEF Sound
<1>4. active \in [Subs -> Nat] /\ running \in [Subs -> SUBSET Sequences]
  <2>1. active = [s \in Subs |-> active[s]] /\ running = [s \in Subs |-> running[s]]
    BY DEF IInv, PoolsSound, PoolMaps
  <2> QED BY <1>3, <2>1
<1> QED BY <1>2, <1>3, <1>4 DEF TypeOK, IInv, StoreTyped, CallsInOrder, SubsTyped

\* The invariant holds in every reachable state: the log is in the order of its numbers,
\* overlapping calls of produce never fix an offset beyond the number of their record, and
\* every pool is sound.
THEOREM Invariance ==
    Spec => []IInv
<1> QED BY IInvInit, IInvNext, PTL DEF Spec

\* Every variable keeps its type, in particular a partition is one of a topic whatever the
\* hash of the key (partitionForKey), and a pool holds numbers of records only.
THEOREM TypeCorrect ==
    Spec => []TypeOK
<1> QED BY Invariance, IInvTypes, PTL

\* Through the history, the listener and the queue of its pool a subscription gets
\* every record at most once, in the order of production.
THEOREM OrderIsKept ==
    Spec => []GivenInOrder
<1>1. IInv => GivenInOrder
  <2> SUFFICES ASSUME IInv, NEW s \in Subs PROVE Increasing(Given(s))
    BY DEF GivenInOrder, Increasing
  <2>1. Sound(s, PoolOf(s), nextSequence)
    BY DEF IInv, PoolsSound
  <2> QED BY <2>1 DEF Sound, PoolOf, Given
<1> QED BY Invariance, <1>1, PTL

\* While its listener is attached, a subscription has been given exactly the records it
\* is owed: the history and the listener leave no gap and no overlap.
THEOREM HistoryMeetsListener ==
    Spec => []NothingSkipped
<1>1. IInv => NothingSkipped
  BY DEF IInv
<1> QED BY Invariance, <1>1, PTL

\* A pool of any limit counts its running handlers, does not exceed the limit, and queues
\* records only while it is full.
THEOREM PoolsAreExact ==
    Spec => []PoolIsExact
<1>1. IInv => PoolIsExact
  <2> SUFFICES ASSUME IInv, NEW s \in Subs, Limit[s] > 1
               PROVE  /\ active[s] = Cardinality(running[s]) /\ active[s] <= Limit[s]
                      /\ waiting[s] # << >> => active[s] = Limit[s]
    BY DEF PoolIsExact
  <2>1. Sound(s, PoolOf(s), nextSequence)
    BY DEF IInv, PoolsSound
  <2> QED BY <2>1 DEF Sound, PoolOf
<1> QED BY Invariance, <1>1, PTL

\* A subscription whose listener was detached, by its disposer or by a disconnect,
\* never listens again and is given nothing more; what it was given and has not
\* run stays in its queue (the disposer of consume, packages/broker/test/in-memory.test.ts:101).
DetachedForGood ==
    [][\A s \in Subs : subs[s] # Closed /\ s \notin listening =>
          /\ subs'[s] # Closed /\ s \notin listening'
          /\ Given(s)' = Given(s)]_vars

\* No step of the broker gives a detached subscription a record.
THEOREM DetachingIsFinal ==
    Spec => DetachedForGood
<1> DEFINE kept(s) == /\ subs'[s] # Closed /\ s \notin listening'
                      /\ Given(s)' = Given(s)
           Kept == \A s \in Subs : subs[s] # Closed /\ s \notin listening => kept(s)
<1>1. IInv /\ [Next]_vars => Kept
  <2> SUFFICES ASSUME IInv, [Next]_vars, NEW s \in Subs, subs[s] # Closed, s \notin listening
               PROVE  kept(s)
    OBVIOUS
  <2>1. ASSUME UNCHANGED <<subs, pool>>, listening' \subseteq listening PROVE kept(s)
    BY <2>1 DEF pool, Given
  <2>2. ASSUME NEW t \in Topics, NEW n \in 1 .. MaxPartitions, CreateTopic(t, n) PROVE kept(s)
    BY <2>1, <2>2 DEF CreateTopic
  <2>3. CASE Disconnect
    BY <2>1, <2>3 DEF Disconnect
  <2>4. ASSUME NEW c \in Calls, NEW t \in Topics, NEW k \in Keys, ProduceStart(c, t, k)
        PROVE  kept(s)
    BY <2>1, <2>4 DEF ProduceStart
  <2>5. ASSUME NEW c \in Calls, ProduceFails(c) PROVE kept(s)
    BY <2>1, <2>5 DEF ProduceFails
  <2>6. ASSUME NEW c \in Calls, ProduceEnd(c) PROVE kept(s)
    <3> DEFINE to == {o \in Subs : Takes(o, calls[c].topic, nextSequence)}
    <3>1. EnqueueAll(to, <<nextSequence>>) /\ listening' = listening /\ subs' = subs
      BY <2>6 DEF ProduceEnd
    <3>2. to \in SUBSET Subs /\ s \notin to
      BY DEF Takes
    <3> HIDE DEF to
    <3>3. Given(s)' = Given(s)
      BY <3>1, <3>2, EnqueueAllPools
    <3> QED BY <3>1, <3>3
  <2>7. ASSUME NEW o \in Subs, NEW ts \in (SUBSET Topics) \ {{}}, NEW b \in BOOLEAN,
               Consume(o, ts, b)
        PROVE  kept(s)
    <3> DEFINE batch == IF b THEN History(ts) ELSE << >>
               to == {o}
    <3>1. subs[o] = Closed /\ EnqueueAll(to, batch) /\ listening' = listening \cup {o}
          /\ subs' = [subs EXCEPT ![o] = [topics |-> ts, from |-> nextSequence, beginning |-> b]]
      BY <2>7 DEF Consume
    <3>2. to \in SUBSET Subs /\ s \notin to /\ s # o
      BY <3>1
    <3> HIDE DEF to, batch
    <3>3. Given(s)' = Given(s)
      BY <3>1, <3>2, EnqueueAllPools
    <3>4. subs'[s] = subs[s]
      BY <3>1, <3>2 DEF IInv, SubsTyped
    <3> QED BY <3>1, <3>2, <3>3, <3>4
  <2>8. ASSUME NEW o \in Subs, Dispose(o) PROVE kept(s)
    BY <2>1, <2>8 DEF Dispose
  <2>9. ASSUME NEW o \in Subs, NEW n \in 0 .. MaxRecords - 1, DispatchEnds(o, n) PROVE kept(s)
    <3>1. Given(s)' = Given(s)
      BY <2>9, DispatchEndsStep
    <3> QED BY <2>9, <3>1 DEF DispatchEnds
  <2>10. CASE UNCHANGED vars
    BY <2>1, <2>10 DEF vars
  <2> QED BY <2>2, <2>3, <2>4, <2>5, <2>6, <2>7, <2>8, <2>9, <2>10 DEF Next
<1> QED BY <1>1, Invariance, PTL DEF Spec, DetachedForGood

-----------------------------------------------------------------------------
(* The promise to the subscriptions *)

\* The number of records that were dispatched, after a step.
LEMMA StartedTypesNext ==
    IInv' => \A s \in Subs : /\ Len(started'[s]) \in Nat
                             /\ Len(started'[s]) <= Len(Given(s)') /\ Given(s)' \in Seq(Nat)
<1> DEFINE Typed == \A s \in Subs : /\ Len(started[s]) \in Nat
                                    /\ Len(started[s]) <= Len(Given(s)) /\ Given(s) \in Seq(Nat)
<1>1. IInv => Typed
  BY StartedTypes
<1>2. IInv' => Typed'
  BY <1>1, PTL
<1> QED BY <1>2

\* A step that takes no dispatch back lets handlers begin in the order given.
LEMMA HandlersBeginInOrder ==
    ASSUME IInv, IInv', Begins
    PROVE  Promise!HandlersBegin
<1>1. \A s \in Subs : /\ Len(started'[s]) \in Nat
                      /\ Len(started[s]) <= Len(started'[s])
                      /\ Len(started'[s]) <= Len(Given(s)')
  BY StartedTypesNext DEF Begins
<1> QED BY <1>1 DEF Promise!HandlersBegin

\* A step that leaves the log, the subscriptions and the pools alone is not seen.
LEMMA Stutters ==
    ASSUME UNCHANGED <<records, nextSequence, listening, subs, pool>>
    PROVE  UNCHANGED Promise!vars
BY DEF Promise!vars, pool, Given

\* The driver implements RecordDelivery: produce maps to Produce when it stores its record,
\* consume to Open, a disposer to Detach, disconnect to Forget, the end of a
\* dispatch to Begin, and the rest to stuttering.
THEOREM Refinement ==
    Spec => RefinesRecordDelivery
<1>1. Init => Promise!Init
  <2> SUFFICES ASSUME Init PROVE Promise!Init
    OBVIOUS
  <2>1. \A s \in Subs : Given(s) = << >> /\ Len(started[s]) = 0 /\ subs[s].topics = {}
    <3>1. << >> \o << >> = << >> /\ Len(<< >>) = 0
      OBVIOUS
    <3> QED BY <3>1 DEF Init, Given, Closed
  <2>2. {[topic |-> r.topic, sequence |-> r.sequence] : r \in Range(records)} = {}
    BY DEF Init, Range
  <2>3. nextSequence = 0 /\ listening = {}
    BY DEF Init
  <2> QED BY <2>1, <2>2, <2>3 DEF Promise!Init
<1>2. ASSUME IInv, IInv', [Next]_vars PROVE [Promise!Next]_(Promise!vars)
  <2>1. ASSUME NEW t \in Topics, NEW n \in 1 .. MaxPartitions, CreateTopic(t, n)
        PROVE  UNCHANGED Promise!vars
    BY <2>1, Stutters DEF CreateTopic
  <2>2. CASE Disconnect
    <3>1. /\ records' = << >> /\ listening' = {}
          /\ UNCHANGED <<nextSequence, subs, pool>>
      BY <2>2 DEF Disconnect
    <3>2. {[topic |-> r.topic, sequence |-> r.sequence] : r \in Range(records')} = {}
      BY <3>1 DEF Range
    <3>3. Promise!Forget
      BY <3>1, <3>2 DEF Promise!Forget, pool, Given
    <3> QED BY <3>3 DEF Promise!Next
  <2>3. ASSUME NEW c \in Calls, NEW t \in Topics, NEW k \in Keys, ProduceStart(c, t, k)
        PROVE  UNCHANGED Promise!vars
    BY <2>3, Stutters DEF ProduceStart, store
  <2>4. ASSUME NEW c \in Calls, ProduceFails(c) PROVE UNCHANGED Promise!vars
    BY <2>4, Stutters DEF ProduceFails, store
  <2>5. ASSUME NEW c \in Calls, ProduceEnd(c) PROVE Promise!Next
    <3>0. PICK t \in Topics : t = calls[c].topic
      <4>1. calls[c] # Idle
        BY <2>5 DEF ProduceEnd
      <4> QED BY <1>2, <4>1 DEF IInv, CallsInOrder, Prepared
    <3> DEFINE rec == [topic |-> calls[c].topic, key |-> calls[c].key, partition |-> calls[c].partition,
                       offset |-> calls[c].offset, sequence |-> nextSequence]
    <3>1. /\ nextSequence' = nextSequence + 1
          /\ records' = Append(records, rec)
          /\ listening' = listening /\ subs' = subs
      BY <2>5 DEF ProduceEnd
    <3>3. Range(records') = Range(records) \cup {rec}
      <4>1. records \in Seq(Stored) /\ Len(records) \in Nat
        BY <1>2 DEF IInv, LogInOrder
      <4> HIDE DEF rec
      <4>2. /\ DOMAIN records = 1 .. Len(records) /\ DOMAIN records' = 1 .. Len(records) + 1
            /\ \A i \in 1 .. Len(records) : records'[i] = records[i]
            /\ records'[Len(records) + 1] = rec
        BY <3>1, <4>1
      <4> QED BY <4>1, <4>2 DEF Range
    <3>4. /\ Begins
          /\ \A s \in Subs : Given(s)' = IF s \in listening /\ t \in subs[s].topics
                                         THEN Append(Given(s), nextSequence) ELSE Given(s)
      BY <1>2, <2>5, <3>0, ProduceEndStep
    <3>5. {[topic |-> r.topic, sequence |-> r.sequence] : r \in Range(records')}
            = {[topic |-> r.topic, sequence |-> r.sequence] : r \in Range(records)}
                 \cup {[topic |-> t, sequence |-> nextSequence]}
      <4>1. rec.topic = t /\ rec.sequence = nextSequence
        BY <3>0
      <4> HIDE DEF rec
      <4> QED BY <3>3, <4>1
    <3>6. Promise!HandlersBegin
      BY <1>2, <3>4, HandlersBeginInOrder
    <3> HIDE DEF rec
    <3>7. Promise!Produce(t)
      BY <3>1, <3>4, <3>5, <3>6 DEF Promise!Produce
    <3> QED BY <3>7 DEF Promise!Next
  <2>6. ASSUME NEW s \in Subs, NEW ts \in (SUBSET Topics) \ {{}}, NEW b \in BOOLEAN,
               Consume(s, ts, b)
        PROVE  Promise!Next
    <3> DEFINE sub == [topics |-> ts, from |-> nextSequence, beginning |-> b]
    <3>1. /\ subs[s] = Closed /\ subs' = [subs EXCEPT ![s] = sub]
          /\ listening' = listening \cup {s}
          /\ records' = records /\ nextSequence' = nextSequence
      BY <2>6 DEF Consume, store
    <3>2. /\ Begins /\ Increasing(Given(s)')
          /\ Range(Given(s)') = IF b
                                THEN {r.sequence : r \in {q \in Range(records) : q.topic \in ts}}
                                ELSE {}
          /\ \A o \in Subs \ {s} : Given(o)' = Given(o)
      BY <1>2, <2>6, ConsumeStep
    <3>3. Range(Given(s)') \in {{}, Promise!Past(ts)}
      <4>1. Promise!Past(ts) = {r.sequence : r \in {q \in Range(records) : q.topic \in ts}}
        <5> DEFINE seen == {[topic |-> r.topic, sequence |-> r.sequence] : r \in Range(records)}
                   past == {r.sequence : r \in {q \in Range(records) : q.topic \in ts}}
        <5>1. Promise!Past(ts) = {r.sequence : r \in {q \in seen : q.topic \in ts}}
          BY DEF Promise!Past
        <5>2. ASSUME NEW q \in seen, q.topic \in ts PROVE q.sequence \in past
          <6>1. PICK r \in Range(records) : q = [topic |-> r.topic, sequence |-> r.sequence]
            OBVIOUS
          <6>2. q.sequence = r.sequence /\ r.topic \in ts
            BY <5>2, <6>1
          <6> QED BY <6>2
        <5>3. ASSUME NEW r \in Range(records), r.topic \in ts
              PROVE  \E q \in seen : q.topic \in ts /\ q.sequence = r.sequence
          <6> WITNESS [topic |-> r.topic, sequence |-> r.sequence] \in seen
          <6> QED BY <5>3
        <5>4. past \subseteq Promise!Past(ts)
          <6> HIDE DEF seen
          <6> QED BY <5>1, <5>3
        <5>5. Promise!Past(ts) \subseteq past
          <6> HIDE DEF seen, past
          <6> QED BY <5>1, <5>2
        <5> QED BY <5>4, <5>5
      <4> QED BY <3>2, <4>1
    <3>4. /\ subs[s].topics = {} /\ subs'[s].topics = ts
          /\ \A o \in Subs \ {s} : subs'[o].topics = subs[o].topics
      BY <1>2, <3>1 DEF IInv, SubsTyped, Closed
    <3>5. Promise!HandlersBegin
      BY <1>2, <3>2, HandlersBeginInOrder
    <3> HIDE DEF sub
    <3>6. Promise!Open(s, ts)
      <4> DEFINE given == [o \in Subs |-> Given(o)]
                 topics == [o \in Subs |-> subs[o].topics]
      <4>1. topics[s] = {} /\ topics' = [topics EXCEPT ![s] = ts]
        BY <3>4
      <4>2. given' = [given EXCEPT ![s] = given'[s]] /\ given'[s] = Given(s)'
        BY <3>2
      <4>3. \A i, j \in DOMAIN given'[s] : i < j => given'[s][i] < given'[s][j]
        BY <3>2, <4>2 DEF Increasing
      <4>4. Promise!Range(given'[s]) \in {{}, Promise!Past(ts)}
        BY <3>3, <4>2 DEF Promise!Range, Range
      <4> QED BY <3>1, <3>5, <4>1, <4>2, <4>3, <4>4 DEF Promise!Open
    <3> QED BY <3>6 DEF Promise!Next
  <2>7. ASSUME NEW s \in Subs, Dispose(s) PROVE Promise!Next
    <3>1. Promise!Detach(s)
      BY <2>7 DEF Dispose, store, pool, Given, Promise!Detach
    <3> QED BY <3>1 DEF Promise!Next
  <2>8. ASSUME NEW s \in Subs, NEW n \in 0 .. MaxRecords - 1, DispatchEnds(s, n)
        PROVE  Promise!Next
    <3>1. Begins /\ \A o \in Subs : Given(o)' = Given(o)
      BY <1>2, <2>8, DispatchEndsStep
    <3>2. Promise!HandlersBegin
      BY <1>2, <3>1, HandlersBeginInOrder
    <3>3. UNCHANGED <<records, nextSequence, listening, subs>>
      BY <2>8 DEF DispatchEnds, store
    <3>4. Promise!Begin
      BY <3>1, <3>2, <3>3 DEF Promise!Begin
    <3> QED BY <3>4 DEF Promise!Next
  <2>9. CASE UNCHANGED vars
    BY <2>9, Stutters DEF vars, store
  <2> QED BY <1>2, <2>1, <2>2, <2>3, <2>4, <2>5, <2>6, <2>7, <2>8, <2>9 DEF Next
<1> QED BY <1>1, <1>2, Invariance, PTL DEF Spec, RefinesRecordDelivery, Promise!Spec
=============================================================================
