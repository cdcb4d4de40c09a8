-------------------------- MODULE FlowRevealProofs --------------------------
(***************************************************************************)
(* Safety of the live diagram, for every list of stages: one loop, and a   *)
(* journey whose only stages out of order are those that arrived late.     *)
(***************************************************************************)
EXTENDS FlowReveal, TLAPS

USE CanonicalAssumption

\* The journey `rev` of the stages `arr`: what OutOfOrderIsLate says, and that a
\* stage that waits behind a later one already revealed is late.
Journey(arr, rev, tooLate) ==
    /\ Range(rev) \subseteq arr /\ IsInjective(rev)
    /\ \A i, j \in DOMAIN rev :
          i < j /\ Place(rev[j]) < Place(rev[i]) => rev[j] \in tooLate
    /\ \A t \in arr : \A r \in Range(rev) :
          t \notin Range(rev) /\ Place(t) < Place(r) => t \in tooLate

IInv == TypeOK /\ OneLoop /\ Journey(arrived, revealed, late)

\* The place of a stage is where CANONICAL has it.
LEMMA PlaceOf ==
    /\ \A t \in Stages : Place(t) \in DOMAIN Canonical /\ Canonical[Place(t)] = t
    /\ \A i \in DOMAIN Canonical : Place(Canonical[i]) = i
    /\ \A i \in DOMAIN Canonical : i \in Int /\ Canonical[i] \in Stages
<1>1. ASSUME NEW t \in Stages
      PROVE  Place(t) \in DOMAIN Canonical /\ Canonical[Place(t)] = t
  <2>1. \E i \in DOMAIN Canonical : Canonical[i] = t
    BY DEF Stages, Range
  <2> QED BY <2>1 DEF Place
<1>2. \A i \in DOMAIN Canonical : i \in Int /\ Canonical[i] \in Stages
  BY DEF Stages, Range
<1>3. \A i \in DOMAIN Canonical : Place(Canonical[i]) = i
  BY <1>1, <1>2 DEF IsInjective
<1> QED BY <1>1, <1>2, <1>3

\* Revealing the first of the waiting stages keeps the journey.
LEMMA RevealFirst ==
    ASSUME NEW arr \in SUBSET Stages, NEW rev \in Seq(Stages), NEW tooLate,
           Journey(arr, rev, tooLate),
           NEW i \in Unrevealed(arr, rev), \A j \in Unrevealed(arr, rev) : i <= j
    PROVE  /\ Append(rev, Canonical[i]) \in Seq(Stages)
           /\ Journey(arr, Append(rev, Canonical[i]), tooLate)
<1> DEFINE c == Canonical[i]
           longer == Append(rev, c)
<1>1. i \in DOMAIN Canonical /\ c \in arr /\ c \notin Range(rev) /\ c \in Stages
  BY DEF Unrevealed
<1>2. Place(c) = i /\ i \in Int
  BY <1>1, PlaceOf
<1>3. /\ longer \in Seq(Stages) /\ Len(longer) = Len(rev) + 1 /\ Len(rev) \in Nat
      /\ DOMAIN longer = 1 .. Len(rev) + 1 /\ DOMAIN rev = 1 .. Len(rev)
      /\ longer[Len(rev) + 1] = c
      /\ \A j \in 1 .. Len(rev) : longer[j] = rev[j]
  BY <1>1
<1> HIDE DEF longer
<1>4. Range(longer) = Range(rev) \cup {c}
  <2>1. \A j \in DOMAIN longer : longer[j] \in Range(rev) \cup {c}
    BY <1>3 DEF Range
  <2>2. \A j \in DOMAIN rev : rev[j] \in Range(longer)
    BY <1>3 DEF Range
  <2>3. c \in Range(longer)
    BY <1>3 DEF Range
  <2> QED BY <2>1, <2>2, <2>3 DEF Range
<1>5. Range(longer) \subseteq arr
  BY <1>1, <1>4 DEF Journey
<1>6. IsInjective(longer)
  <2>1. \A j \in 1 .. Len(rev) : rev[j] # c
    BY <1>1, <1>3 DEF Range
  <2> QED BY <1>3, <2>1 DEF Journey, IsInjective
<1>7. \A j \in DOMAIN rev : Place(c) < Place(rev[j]) => c \in tooLate
  <2>1. \A j \in DOMAIN rev : rev[j] \in Range(rev)
    BY DEF Range
  <2> QED BY <1>1, <2>1 DEF Journey
<1>8. \A j, k \in DOMAIN longer :
         j < k /\ Place(longer[k]) < Place(longer[j]) => longer[k] \in tooLate
  <2> SUFFICES ASSUME NEW j \in DOMAIN longer, NEW k \in DOMAIN longer, j < k,
                      Place(longer[k]) < Place(longer[j])
               PROVE  longer[k] \in tooLate
    OBVIOUS
  <2>1. CASE k = Len(rev) + 1
    BY <1>3, <1>7, <2>1
  <2>2. CASE k # Len(rev) + 1
    <3>1. j \in DOMAIN rev /\ k \in DOMAIN rev /\ longer[j] = rev[j] /\ longer[k] = rev[k]
      BY <1>3, <2>2
    <3> QED BY <3>1 DEF Journey
  <2> QED BY <2>1, <2>2
<1>9. \A t \in arr : \A r \in Range(longer) :
         t \notin Range(longer) /\ Place(t) < Place(r) => t \in tooLate
  <2> SUFFICES ASSUME NEW t \in arr, NEW r \in Range(longer),
                      t \notin Range(longer), Place(t) < Place(r)
               PROVE  t \in tooLate
    OBVIOUS
  <2>1. CASE r \in Range(rev)
    BY <2>1, <1>4 DEF Journey
  <2>2. CASE r = c
    <3>1. Place(t) \in Unrevealed(arr, rev) /\ Place(t) \in Int
      BY <1>4, PlaceOf DEF Unrevealed
    <3> QED BY <3>1, <2>2, <1>2
  <2> QED BY <2>1, <2>2, <1>4
<1> QED BY <1>3, <1>5, <1>6, <1>8, <1>9 DEF Journey, longer

\* A turn of the loop, by whatever callback it runs.
LEMMA IterateStep ==
    ASSUME NEW arr \in SUBSET Stages, NEW rev \in Seq(Stages), NEW d \in BOOLEAN,
           NEW pending \in [Durations -> Nat], pending["step"] + pending["poll"] = 0,
           late' \subseteq Stages, mounted' \in BOOLEAN,
           Journey(arr, rev, late'), Iterate(arr, rev, d, pending)
    PROVE  IInv'
<1>0. pending["step"] = 0 /\ pending["poll"] = 0
  BY DEF Durations
<1>1. CASE \E i \in Unrevealed(arr, rev) :
             /\ \A j \in Unrevealed(arr, rev) : i <= j
             /\ revealed' = Append(rev, Canonical[i])
             /\ timers' = [pending EXCEPT !["step"] = @ + 1]
             /\ dirty' = d /\ playing' = TRUE
  <2>1. revealed' \in Seq(Stages) /\ Journey(arr, revealed', late')
    BY <1>1, RevealFirst
  <2>2. timers' \in [Durations -> Nat] /\ timers'["step"] = 1 /\ timers'["poll"] = 0
    BY <1>0, <1>1 DEF Durations
  <2> QED BY <1>1, <2>1, <2>2 DEF IInv, TypeOK, OneLoop, Iterate
<1>2. CASE /\ timers' = [pending EXCEPT !["poll"] = @ + 1]
           /\ dirty' = FALSE /\ playing' = TRUE /\ revealed' = rev
  <2>1. timers' \in [Durations -> Nat] /\ timers'["step"] = 0 /\ timers'["poll"] = 1
    BY <1>0, <1>2 DEF Durations
  <2>2. arrived' = arr /\ Journey(arrived', revealed', late')
    BY <1>2 DEF Iterate
  <2>3. dirty' \in BOOLEAN /\ playing' \in BOOLEAN
    BY <1>2, Zenon
  <2>4. TypeOK'
    BY <1>2, <2>1, <2>2, <2>3 DEF TypeOK
  <2>5. OneLoop'
    BY <1>2, <2>1 DEF OneLoop
  <2> QED BY <2>2, <2>4, <2>5 DEF IInv
<1>3. CASE playing' = FALSE /\ timers' = pending /\ dirty' = d /\ revealed' = rev
  BY <1>0, <1>3 DEF IInv, TypeOK, OneLoop, Iterate
<1> QED BY <1>1, <1>2, <1>3 DEF Iterate

\* play(), whether a loop plays or not.
LEMMA PlayStep ==
    ASSUME IInv, NEW arr \in SUBSET Stages, NEW rev \in Seq(Stages), NEW d \in BOOLEAN,
           late' \subseteq Stages, mounted' = mounted,
           Journey(arr, rev, late'), Play(arr, rev, d)
    PROVE  IInv'
<1>1. CASE playing /\ arrived' = arr /\ revealed' = rev /\ dirty' = d /\ UNCHANGED <<playing, timers>>
  BY <1>1 DEF IInv, TypeOK, OneLoop
<1>2. CASE ~playing /\ Iterate(arr, rev, d, timers)
  BY <1>2, IterateStep DEF IInv, TypeOK, OneLoop
<1> QED BY <1>1, <1>2 DEF Play

LEMMA WakeStep ==
    ASSUME IInv, NEW duration \in Durations, Wake(duration)
    PROVE  IInv'
<1> DEFINE left == [timers EXCEPT ![duration] = @ - 1]
<1>1. left \in [Durations -> Nat] /\ left["step"] + left["poll"] = 0
  BY DEF Wake, IInv, TypeOK, OneLoop, Durations
<1>2. /\ Iterate(arrived, revealed, dirty, left) /\ UNCHANGED <<mounted, late>>
      /\ arrived \subseteq Stages /\ revealed \in Seq(Stages) /\ dirty \in BOOLEAN
      /\ mounted \in BOOLEAN /\ late \subseteq Stages /\ Journey(arrived, revealed, late)
  BY DEF Wake, IInv, TypeOK
<1> HIDE DEF left
<1> QED BY <1>1, <1>2, IterateStep

LEMMA ReceiveStep ==
    ASSUME IInv, NEW t \in Stages, Receive(t)
    PROVE  IInv'
<1>1. /\ arrived \cup {t} \subseteq Stages /\ revealed \in Seq(Stages) /\ late \subseteq Stages
      /\ Journey(arrived, revealed, late)
  BY DEF IInv, TypeOK
<1>2. /\ late' = IF t \notin arrived /\ \E r \in Range(revealed) : Place(t) < Place(r)
                 THEN late \cup {t} ELSE late
      /\ Play(arrived \cup {t}, revealed, TRUE) /\ mounted' = mounted
  BY DEF Receive
<1>3. late' \subseteq Stages /\ late \subseteq late'
  BY <1>1, <1>2
<1>4. Journey(arrived \cup {t}, revealed, late')
  <2>1. \A r \in Range(revealed) :
          t \notin Range(revealed) /\ Place(t) < Place(r) => t \in late'
    BY <1>1, <1>2 DEF Journey
  <2> QED BY <1>1, <1>3, <2>1 DEF Journey
<1> QED BY <1>1, <1>2, <1>3, <1>4, PlayStep

\* A fresh journey is one of any stages that are known when it starts.
LEMMA FreshJourney ==
    ASSUME NEW arr, NEW tooLate
    PROVE  << >> \in Seq(Stages) /\ Journey(arr, << >>, tooLate)
<1>1. Range(<< >>) = {}
  BY DEF Range
<1> QED BY <1>1 DEF Journey, IsInjective

LEMMA OrderPlacedStep ==
    ASSUME IInv, NEW oversized \in BOOLEAN, OrderPlaced(oversized)
    PROVE  IInv'
<1>1. late' = {} /\ mounted' = mounted
  BY DEF OrderPlaced
<1>2. CASE Play({"retrying"}, << >>, TRUE)
  BY <1>1, <1>2, FreshJourney, PlayStep DEF Stages
<1>3. CASE /\ arrived' = {} /\ revealed' = << >> /\ dirty' = FALSE
           /\ UNCHANGED <<playing, timers>>
  BY <1>1, <1>3, FreshJourney DEF IInv, TypeOK, OneLoop
<1> QED BY <1>2, <1>3 DEF OrderPlaced

LEMMA SpecInv == Spec => []IInv
<1>1. Init => IInv
  <2> SUFFICES ASSUME Init PROVE IInv
    OBVIOUS
  <2>1. timers \in [Durations -> Nat] /\ timers["step"] = 0 /\ timers["poll"] = 0
    BY DEF Init, Durations
  <2>2. revealed \in Seq(Stages) /\ Journey(arrived, revealed, late)
    BY FreshJourney DEF Init
  <2>3. dirty \in BOOLEAN /\ playing \in BOOLEAN /\ mounted \in BOOLEAN
    BY Zenon DEF Init
  <2>4. TypeOK
    BY <2>1, <2>2, <2>3 DEF Init, TypeOK
  <2>5. OneLoop
    BY <2>1 DEF Init, OneLoop
  <2> QED BY <2>2, <2>4, <2>5 DEF IInv
<1>2. IInv /\ [Next]_vars => IInv'
  <2> SUFFICES ASSUME IInv, [Next]_vars PROVE IInv'
    OBVIOUS
  <2>1. CASE \E t \in Stages : Receive(t)
    BY <2>1, ReceiveStep
  <2>2. CASE \E oversized \in BOOLEAN : OrderPlaced(oversized)
    BY <2>2, OrderPlacedStep
  <2>3. CASE \E duration \in Durations : Wake(duration)
    BY <2>3, WakeStep
  <2>4. CASE Unmount
    BY <2>4 DEF Unmount, IInv, TypeOK, OneLoop
  <2>5. CASE UNCHANGED vars
    BY <2>5 DEF vars, IInv, TypeOK, OneLoop
  <2> QED BY <2>1, <2>2, <2>3, <2>4, <2>5 DEF Next
<1> QED BY <1>1, <1>2, PTL DEF Spec

\* The refs of the diagram keep their types.
THEOREM TypeSafety == Spec => []TypeOK
BY SpecInv, PTL DEF IInv

\* play() never runs twice at once, and its flag is set only while it runs.
THEOREM LoopSafety == Spec => []OneLoop
BY SpecInv, PTL DEF IInv

\* The journey is in canonical order but for the stages that arrived too late,
\* whatever the order of arrival and whenever orders are placed.
THEOREM OrderSafety == Spec => []OutOfOrderIsLate
<1>1. IInv => OutOfOrderIsLate
  BY DEF IInv, Journey, OutOfOrderIsLate
<1> QED BY <1>1, SpecInv, PTL
=============================================================================
