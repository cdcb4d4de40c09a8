------------------------ MODULE ConsumerPipelineCounts ------------------------
(***************************************************************************)
(* Proofs about ConsumerPipeline that count: how many outcomes, failures   *)
(* and requeues an event can have, and what the dlqTotal metric says.      *)
(*                                                                         *)
(* Each published copy and each redelivery of an event buys a credit.      *)
(* Every message in a partition is worth what it can still cause, and a    *)
(* step never spends more than the credit it has.                          *)
(***************************************************************************)
EXTENDS ConsumerPipelineProofs, WellFoundedInduction

\* Every x of s owns f[x] tokens.
Tokens(f, s) == {t \in s \X Nat : 1 <= t[2] /\ t[2] <= f[t[1]]}

-----------------------------------------------------------------------------
(* Counting tokens *)

\* Finitely many owners have finitely many tokens.
LEMMA TokensFinite ==
    ASSUME NEW S, NEW f \in [S -> Nat], NEW s \in SUBSET S, IsFiniteSet(s)
    PROVE  IsFiniteSet(Tokens(f, s)) /\ Cardinality(Tokens(f, s)) \in Nat
<1> DEFINE own == [x \in s |-> {x} \X (1 .. f[x])]
           all == {own[x] : x \in s}
<1>1. \A x \in s : IsFiniteSet(own[x])
  <2> TAKE x \in s
  <2>1. f[x] \in Nat
    OBVIOUS
  <2>2. IsFiniteSet(1 .. f[x])
    BY <2>1, FS_Interval
  <2>3. IsFiniteSet({x})
    BY FS_Singleton
  <2>4. IsFiniteSet({x} \X (1 .. f[x]))
    BY <2>2, <2>3, FS_Product
  <2> QED BY <2>4
<1>2. IsFiniteSet(all)
  <2>1. own \in Surjection(s, all)
    BY DEF Surjection
  <2> HIDE DEF own, all
  <2> QED BY <2>1, FS_Surjection
<1>3. IsFiniteSet(UNION all)
  BY <1>1, <1>2, FS_UNION
<1>4. Tokens(f, s) \subseteq UNION all
  <2>1. ASSUME NEW t \in Tokens(f, s) PROVE \E x \in s : t \in own[x]
    <3>1. t \in s \X Nat /\ 1 <= t[2] /\ t[2] <= f[t[1]]
      BY DEF Tokens
    <3>2. t[1] \in s /\ t[2] \in 1 .. f[t[1]] /\ t = <<t[1], t[2]>>
      BY <3>1
    <3>3. t \in own[t[1]]
      BY <3>2
    <3> QED BY <3>2, <3>3
  <2> QED BY <2>1
<1> HIDE DEF all
<1> QED BY <1>3, <1>4, FS_Subset, FS_CardinalityType

\* An owner's tokens are its share of the count.
LEMMA TokensRemove ==
    ASSUME NEW S, NEW f \in [S -> Nat], NEW s \in SUBSET S, IsFiniteSet(s), NEW x \in s
    PROVE  Cardinality(Tokens(f, s)) = f[x] + Cardinality(Tokens(f, s \ {x}))
<1> DEFINE mine == {x} \X (1 .. f[x])
           rest == Tokens(f, s \ {x})
<1>0. f[x] \in Nat
  OBVIOUS
<1>1. IsFiniteSet(mine) /\ Cardinality(mine) = f[x]
  <2>1. IsFiniteSet({x}) /\ Cardinality({x}) = 1
    BY FS_Singleton
  <2>2. IsFiniteSet(1 .. f[x]) /\ Cardinality(1 .. f[x]) = f[x]
    BY <1>0, FS_Interval
  <2>3. IsFiniteSet(mine) /\ Cardinality(mine) = Cardinality({x}) * Cardinality(1 .. f[x])
    BY <2>1, <2>2, FS_Product
  <2> QED BY <1>0, <2>1, <2>2, <2>3
<1>2. IsFiniteSet(rest) /\ Cardinality(rest) \in Nat
  BY FS_RemoveElement, TokensFinite
<1>3. mine \cap rest = {}
  BY DEF Tokens
<1>4. Tokens(f, s) = mine \cup rest
  BY <1>0 DEF Tokens
<1> HIDE DEF mine, rest
<1>5. Cardinality(mine \cup rest)
        = Cardinality(mine) + Cardinality(rest) - Cardinality(mine \cap rest)
  BY <1>1, <1>2, FS_Union
<1>6. Cardinality(mine \cup rest) = f[x] + Cardinality(rest)
  BY <1>0, <1>1, <1>2, <1>3, <1>5, FS_EmptySet
<1> QED BY <1>4, <1>6 DEF rest

\* What the fold computes at each set of indices.
Folded(f, g) ==
    g = [s \in SUBSET DOMAIN f |->
           IF s = {} THEN 0
           ELSE f[CHOOSE x \in s : TRUE] + g[s \ {CHOOSE x \in s : TRUE}]]

\* The sum of f is the number of tokens.
LEMMA SumIsCount ==
    ASSUME NEW S, IsFiniteSet(S), NEW f \in [S -> Nat]
    PROVE  SumFunction(f) = Cardinality(Tokens(f, S))
<1> DEFINE count == [s \in SUBSET S |-> Cardinality(Tokens(f, s))]
<1>1. SumFunction(f) = (CHOOSE g : Folded(f, g))[S]
  BY DEF SumFunction, SumFunctionOnSet, FoldFunctionOnSet, MapThenFoldSet, Folded
<1>2. count[{}] = 0
  BY FS_EmptySet DEF Tokens
<1>3. \A s \in SUBSET S : s # {} =>
         count[s] = f[CHOOSE x \in s : TRUE] + count[s \ {CHOOSE x \in s : TRUE}]
  <2> SUFFICES ASSUME NEW s \in SUBSET S, s # {}
               PROVE  count[s] = f[CHOOSE x \in s : TRUE] + count[s \ {CHOOSE x \in s : TRUE}]
    OBVIOUS
  <2> DEFINE x == CHOOSE x \in s : TRUE
  <2>1. x \in s
    OBVIOUS
  <2>2. IsFiniteSet(s)
    BY FS_Subset
  <2> HIDE DEF x
  <2>3. Cardinality(Tokens(f, s)) = f[x] + Cardinality(Tokens(f, s \ {x}))
    BY <2>1, <2>2, TokensRemove
  <2>4. s \ {x} \in SUBSET S
    OBVIOUS
  <2>5. count[s] = f[x] + count[s \ {x}]
    BY <2>3, <2>4
  <2> QED BY <2>5 DEF x
<1>4. Folded(f, count)
  <2>1. DOMAIN f = S /\ count = [s \in SUBSET S |-> count[s]]
    OBVIOUS
  <2> HIDE DEF count
  <2>2. [s \in SUBSET S |-> count[s]] =
          [s \in SUBSET S |->
             IF s = {} THEN 0
             ELSE f[CHOOSE x \in s : TRUE] + count[s \ {CHOOSE x \in s : TRUE}]]
    BY <1>2, <1>3
  <2> QED BY <2>1, <2>2 DEF Folded
<1>5. Folded(f, CHOOSE g : Folded(f, g))
  BY <1>4
<1>6. ASSUME NEW g, Folded(f, g)
      PROVE  g[S] = count[S]
  <2> DEFINE wrong == {s \in SUBSET S : g[s] # count[s]}
  <2>1. /\ g[{}] = 0
        /\ \A s \in SUBSET S : s # {} =>
             g[s] = f[CHOOSE x \in s : TRUE] + g[s \ {CHOOSE x \in s : TRUE}]
    BY <1>6 DEF Folded
  <2>2. CASE wrong # {}
    <3>1. SUBSET S \subseteq FiniteSubsetsOf(S)
      BY FS_Subset DEF FiniteSubsetsOf
    <3>2. PICK s \in wrong : \A r \in wrong : <<r, s>> \notin StrictSubsetOrdering(S)
      <4>1. wrong \subseteq FiniteSubsetsOf(S)
        BY <3>1
      <4> HIDE DEF wrong
      <4> QED BY <2>2, <4>1, FS_StrictSubsetOrderingWellFounded, WFMin
    <3> DEFINE r == s \ {CHOOSE x \in s : TRUE}
    <3>3. s # {}
      BY <1>2, <2>1
    <3>4. r \in SUBSET S /\ r \subseteq s /\ r # s
      BY <3>3
    <3>5. <<r, s>> \in StrictSubsetOrdering(S)
      BY <3>4 DEF StrictSubsetOrdering
    <3>6. g[r] = count[r]
      BY <3>2, <3>4, <3>5
    <3>7. s \in SUBSET S /\ g[s] # count[s]
      BY <3>2
    <3> HIDE DEF count, wrong
    <3>8. g[s] = f[CHOOSE x \in s : TRUE] + g[r]
      BY <2>1, <3>3, <3>7
    <3>9. count[s] = f[CHOOSE x \in s : TRUE] + count[r]
      BY <1>3, <3>3, <3>7
    <3> QED BY <3>6, <3>7, <3>8, <3>9
  <2> QED BY <2>2
<1>7. (CHOOSE g : Folded(f, g))[S] = count[S]
  <2> HIDE DEF count
  <2> QED BY <1>5, <1>6
<1>8. count[S] = Cardinality(Tokens(f, S))
  OBVIOUS
<1> HIDE DEF count
<1> QED BY <1>1, <1>7, <1>8

-----------------------------------------------------------------------------
(* Sums *)

\* A sum of naturals is a natural; the empty sum is 0.
LEMMA SumType ==
    ASSUME NEW S, IsFiniteSet(S), NEW f \in [S -> Nat]
    PROVE  SumFunction(f) \in Nat /\ (S = {} => SumFunction(f) = 0)
<1>1. SumFunction(f) = Cardinality(Tokens(f, S))
  BY SumIsCount
<1>2. Cardinality(Tokens(f, S)) \in Nat
  BY TokensFinite
<1>3. S = {} => Tokens(f, S) = {}
  BY DEF Tokens
<1> QED BY <1>1, <1>2, <1>3, FS_EmptySet

\* One summand, and the sum of the others.
LEMMA SumRemove ==
    ASSUME NEW f, NEW g, NEW x \in DOMAIN f,
           IsFiniteSet(DOMAIN f), f \in [DOMAIN f -> Nat],
           g = [y \in DOMAIN f \ {x} |-> f[y]]
    PROVE  SumFunction(f) = f[x] + SumFunction(g)
<1> DEFINE others == DOMAIN f \ {x}
<1>1. SumFunction(f) = Cardinality(Tokens(f, DOMAIN f))
  BY SumIsCount
<1>2. IsFiniteSet(others) /\ g \in [others -> Nat]
  BY FS_RemoveElement
<1>3. SumFunction(g) = Cardinality(Tokens(g, others))
  BY <1>2, SumIsCount
<1>4. Tokens(g, others) = Tokens(f, others)
  BY DEF Tokens
<1>5. Cardinality(Tokens(f, DOMAIN f)) = f[x] + Cardinality(Tokens(f, others))
  BY TokensRemove
<1> QED BY <1>1, <1>3, <1>4, <1>5

\* A larger function has a larger sum.
LEMMA SumMonotonic ==
    ASSUME NEW S, IsFiniteSet(S), NEW f \in [S -> Nat], NEW g \in [S -> Nat],
           \A x \in S : f[x] <= g[x]
    PROVE  SumFunction(f) <= SumFunction(g)
<1>1. SumFunction(f) = Cardinality(Tokens(f, S)) /\ SumFunction(g) = Cardinality(Tokens(g, S))
  BY SumIsCount
<1>2. Tokens(f, S) \subseteq Tokens(g, S)
  <2>1. ASSUME NEW t \in Tokens(f, S) PROVE t \in Tokens(g, S)
    <3>1. t \in S \X Nat /\ 1 <= t[2] /\ t[2] <= f[t[1]]
      BY DEF Tokens
    <3>2. t[1] \in S /\ t[2] \in Nat
      BY <3>1
    <3>3. t[2] <= g[t[1]]
      <4>1. f[t[1]] \in Nat /\ g[t[1]] \in Nat /\ f[t[1]] <= g[t[1]]
        BY <3>2
      <4> QED BY <3>1, <3>2, <4>1
    <3> QED BY <3>1, <3>3 DEF Tokens
  <2> QED BY <2>1
<1> QED BY <1>1, <1>2, TokensFinite, FS_Subset

\* Raising one summand by one raises the sum by one.
LEMMA SumBump ==
    ASSUME NEW S, IsFiniteSet(S), NEW f \in [S -> Nat], NEW x \in S
    PROVE  SumFunction([f EXCEPT ![x] = @ + 1]) = SumFunction(f) + 1
<1> DEFINE g == [f EXCEPT ![x] = @ + 1]
           others == S \ {x}
           rest == [y \in others |-> f[y]]
<1>1. rest \in [others -> Nat] /\ \A y \in others : rest[y] = f[y] /\ rest[y] = g[y]
  OBVIOUS
<1>2. g \in [S -> Nat] /\ g[x] = f[x] + 1 /\ f[x] \in Nat
  OBVIOUS
<1>3. SumFunction(rest) \in Nat
  BY <1>1, FS_RemoveElement, SumType
<1> HIDE DEF g, rest
<1>4. SumFunction(f) = f[x] + SumFunction(rest)
  BY SumRemove DEF rest, others
<1>5. SumFunction(g) = g[x] + SumFunction(rest)
  <2>1. DOMAIN g = S /\ x \in DOMAIN g /\ rest = [y \in DOMAIN g \ {x} |-> g[y]]
    BY DEF g, rest, others
  <2> QED BY <1>2, <2>1, SumRemove
<1>6. SumFunction(g) = SumFunction(f) + 1
  BY <1>2, <1>3, <1>4, <1>5
<1> QED BY <1>6 DEF g

\* Renaming the indices does not change the sum.
LEMMA SumRename ==
    ASSUME NEW S, NEW T, IsFiniteSet(S), IsFiniteSet(T), NEW f \in [S -> Nat],
           NEW h \in Bijection(T, S), NEW g \in [T -> Nat], \A x \in T : g[x] = f[h[x]]
    PROVE  SumFunction(g) = SumFunction(f)
<1> DEFINE move == [t \in Tokens(g, T) |-> <<h[t[1]], t[2]>>]
<1>0. /\ h \in [T -> S]
      /\ \A x, y \in T : h[x] = h[y] => x = y
      /\ \A z \in S : \E x \in T : h[x] = z
  BY DEF Bijection, Injection, IsInjective, Surjection
<1>1. \A t : t \in Tokens(g, T) <=> t \in T \X Nat /\ 1 <= t[2] /\ t[2] <= f[h[t[1]]]
  BY DEF Tokens
<1>2. \A t : t \in Tokens(f, S) <=> t \in S \X Nat /\ 1 <= t[2] /\ t[2] <= f[t[1]]
  BY DEF Tokens
<1>3. move \in [Tokens(g, T) -> Tokens(f, S)]
  <2>1. ASSUME NEW t \in Tokens(g, T) PROVE <<h[t[1]], t[2]>> \in Tokens(f, S)
    <3>1. t \in T \X Nat /\ 1 <= t[2] /\ t[2] <= f[h[t[1]]]
      BY <1>1
    <3>2. t[1] \in T /\ t[2] \in Nat /\ h[t[1]] \in S
      BY <1>0, <3>1
    <3> QED BY <1>2, <3>1, <3>2
  <2> QED BY <2>1
<1>4. \A t, u \in Tokens(g, T) : move[t] = move[u] => t = u
  <2> SUFFICES ASSUME NEW t \in Tokens(g, T), NEW u \in Tokens(g, T), move[t] = move[u]
               PROVE  t = u
    OBVIOUS
  <2>1. t \in T \X Nat /\ u \in T \X Nat
    BY <1>1
  <2>2. h[t[1]] = h[u[1]] /\ t[2] = u[2]
    OBVIOUS
  <2>3. t[1] = u[1]
    BY <1>0, <2>1, <2>2
  <2> QED BY <2>1, <2>2, <2>3
<1>5. \A v \in Tokens(f, S) : \E t \in Tokens(g, T) : move[t] = v
  <2> SUFFICES ASSUME NEW v \in Tokens(f, S)
               PROVE  \E t \in Tokens(g, T) : move[t] = v
    OBVIOUS
  <2>1. v \in S \X Nat /\ 1 <= v[2] /\ v[2] <= f[v[1]]
    BY <1>2
  <2>2. v[1] \in S /\ v[2] \in Nat /\ v = <<v[1], v[2]>>
    BY <2>1
  <2>3. PICK x \in T : h[x] = v[1]
    BY <1>0, <2>2
  <2>4. <<x, v[2]>> \in Tokens(g, T)
    BY <1>1, <2>1, <2>2, <2>3
  <2>5. move[<<x, v[2]>>] = v
    BY <2>2, <2>3, <2>4
  <2> QED BY <2>4, <2>5
<1> HIDE DEF move
<1>6. move \in Bijection(Tokens(g, T), Tokens(f, S))
  BY <1>3, <1>4, <1>5 DEF Bijection, Injection, IsInjective, Surjection
<1>7. IsFiniteSet(Tokens(g, T))
  BY TokensFinite
<1>8. Cardinality(Tokens(f, S)) = Cardinality(Tokens(g, T))
  BY <1>6, <1>7, FS_Bijection DEF ExistsBijection
<1> QED BY <1>8, SumIsCount

-----------------------------------------------------------------------------
(* Sums over a sequence *)

\* The indices of a sequence are finite in number.
LEMMA SequenceSumType ==
    ASSUME NEW w \in Seq(Nat)
    PROVE  /\ IsFiniteSet(DOMAIN w) /\ w \in [DOMAIN w -> Nat]
           /\ SumFunction(w) \in Nat /\ (w = << >> => SumFunction(w) = 0)
<1>1. Len(w) \in Nat /\ DOMAIN w = 1 .. Len(w) /\ w \in [1 .. Len(w) -> Nat]
  OBVIOUS
<1>2. IsFiniteSet(1 .. Len(w))
  BY <1>1, FS_Interval
<1>3. w = << >> => 1 .. Len(w) = {}
  BY <1>1
<1> QED BY <1>1, <1>2, <1>3, SumType

\* An appended element adds its value.
LEMMA SumAppend ==
    ASSUME NEW w \in Seq(Nat), NEW n \in Nat
    PROVE  SumFunction(Append(w, n)) = SumFunction(w) + n
<1> DEFINE v == Append(w, n)
           last == Len(w) + 1
<1>1. /\ v \in Seq(Nat) /\ Len(w) \in Nat /\ v[last] = n
      /\ DOMAIN v = 1 .. last /\ DOMAIN w = 1 .. Len(w)
      /\ \A i \in 1 .. Len(w) : v[i] = w[i]
  BY AppendProperties
<1>2. (1 .. last) \ {last} = 1 .. Len(w) /\ last \in 1 .. last
  BY <1>1
<1>3. IsFiniteSet(1 .. last) /\ v \in [1 .. last -> Nat] /\ w \in [1 .. Len(w) -> Nat]
  BY <1>1, SequenceSumType
<1>4. SumFunction(w) \in Nat
  BY SequenceSumType
<1>5. SumFunction(v) = v[last] + SumFunction(w)
  <2>1. w = [i \in 1 .. Len(w) |-> v[i]]
    BY <1>1
  <2>2. w = [i \in DOMAIN v \ {last} |-> v[i]]
    BY <1>1, <1>2, <2>1
  <2>3. IsFiniteSet(DOMAIN v) /\ v \in [DOMAIN v -> Nat] /\ last \in DOMAIN v
    BY <1>1, <1>2, <1>3
  <2> HIDE DEF v, last
  <2> QED BY <2>2, <2>3, SumRemove
<1> HIDE DEF v, last
<1>6. SumFunction(v) = SumFunction(w) + n
  BY <1>1, <1>4, <1>5
<1> QED BY <1>6 DEF v

\* The head, and the sum of the tail.
LEMMA SumTail ==
    ASSUME NEW w \in Seq(Nat), w # << >>
    PROVE  SumFunction(w) = w[1] + SumFunction(Tail(w))
<1> DEFINE v == Tail(w)
           rest == [i \in 2 .. Len(w) |-> w[i]]
           next == [i \in 1 .. Len(v) |-> i + 1]
<1>1. /\ v \in Seq(Nat) /\ Len(w) \in Nat /\ Len(v) = Len(w) - 1 /\ 1 \in 1 .. Len(w)
      /\ \A i \in 1 .. Len(v) : v[i] = w[i + 1]
  BY HeadTailProperties
<1>2. /\ DOMAIN w = 1 .. Len(w) /\ w \in [1 .. Len(w) -> Nat] /\ IsFiniteSet(1 .. Len(w))
      /\ DOMAIN v = 1 .. Len(v) /\ v \in [1 .. Len(v) -> Nat] /\ IsFiniteSet(1 .. Len(v))
  <2>1. DOMAIN w = 1 .. Len(w) /\ DOMAIN v = 1 .. Len(v)
    BY <1>1
  <2> HIDE DEF v
  <2> QED BY <1>1, <2>1, SequenceSumType
<1>3. (1 .. Len(w)) \ {1} = 2 .. Len(w) /\ rest \in [2 .. Len(w) -> Nat]
  BY <1>1, <1>2
<1>4. \A i \in 2 .. Len(w) : rest[i] = w[i]
  OBVIOUS
<1>5. next \in Bijection(1 .. Len(v), 2 .. Len(w))
  <2>1. next \in [1 .. Len(v) -> 2 .. Len(w)]
    BY <1>1
  <2>2. \A i, j \in 1 .. Len(v) : next[i] = next[j] => i = j
    OBVIOUS
  <2>3. \A j \in 2 .. Len(w) : \E i \in 1 .. Len(v) : next[i] = j
    <3> TAKE j \in 2 .. Len(w)
    <3>1. j - 1 \in 1 .. Len(v) /\ next[j - 1] = j
      BY <1>1
    <3> QED BY <3>1
  <2> HIDE DEF next
  <2> QED BY <2>1, <2>2, <2>3 DEF Bijection, Injection, IsInjective, Surjection
<1>6. \A i \in 1 .. Len(v) : v[i] = rest[next[i]]
  BY <1>1
<1>7. IsFiniteSet(2 .. Len(w))
  BY <1>1, FS_Interval
<1> HIDE DEF v, rest, next
<1> DEFINE others == 2 .. Len(w)
           shifted == 1 .. Len(v)
<1>8. SumFunction(w) = w[1] + SumFunction(rest)
  <2>1. rest = [i \in DOMAIN w \ {1} |-> w[i]]
    BY <1>2, <1>3 DEF rest
  <2>2. IsFiniteSet(DOMAIN w) /\ w \in [DOMAIN w -> Nat] /\ 1 \in DOMAIN w
    BY <1>1, <1>2
  <2> QED BY <2>1, <2>2, SumRemove
<1>9. SumFunction(v) = SumFunction(rest)
  <2>1. IsFiniteSet(shifted) /\ v \in [shifted -> Nat]
    BY <1>2
  <2>2. IsFiniteSet(others) /\ rest \in [others -> Nat]
    BY <1>3, <1>7
  <2>3. next \in Bijection(shifted, others) /\ \A i \in shifted : v[i] = rest[next[i]]
    BY <1>5, <1>6
  <2> HIDE DEF others, shifted
  <2> QED BY <2>1, <2>2, <2>3, SumRename
<1> QED BY <1>8, <1>9 DEF v

-----------------------------------------------------------------------------
(* Accounts *)

Fresh(e) == [event |-> e, count |-> 0, wait |-> 0]

\* What the messages in the partition of c are worth, and their total.
Worths(c, w) == [i \in DOMAIN queue[c] |-> w[queue[c][i]]]
Load(c, w) == SumFunction(Worths(c, w))

\* The part of the worth of the head that its runner has already spent.
Paid(c, e, w, due) ==
    IF pc[c] = "commit" THEN w[Current(c)]
    ELSE IF pc[c] # "idle" /\ Current(c).event = e THEN due[pc[c]] ELSE 0

Credit(e) == published[e] + redelivered[e]

\* What event e has spent at most, when a message is worth w and a credit price.
Balance(e, w, due, price) ==
    price * Credit(e) + (Paid("source", e, w, due) + Paid("retry", e, w, due))
                      - (Load("source", w) + Load("retry", w))

\* Only messages of e are worth something; a fresh one no more than a credit.  Time
\* makes no message dearer, and pays for the requeue of one that is not due.
Terms(e, w, due, price) ==
    /\ w \in [Messages -> Nat] /\ due \in [PCs -> Int] /\ price \in Nat
    /\ \A m \in Messages : m.event # e => w[m] = 0
    /\ w[Fresh(e)] <= price
    /\ due["idle"] = 0 /\ due["park"] = 0 /\ due["handle"] = 0
    /\ due["schedule"] >= 0 /\ due["deadLetter"] >= 0 /\ due["requeue"] <= 0
    /\ \A m \in Messages :
          /\ w[Sooner(m)] <= w[m]
          /\ m.wait > 0 /\ m.event = e => w[Sooner(m)] <= w[m] + due["requeue"]

\* The heads keep within the terms.
Within(e, w, due, price) ==
    \A c \in Consumers :
        pc[c] # "idle" /\ Current(c).event = e =>
            /\ w[Current(c)] <= price
            /\ pc[c] # "commit" => due[pc[c]] <= w[Current(c)]
            /\ pc[c] = "schedule" => w[Scheduled(Current(c))] + due["schedule"] <= w[Current(c)]

\* A parked message is one that is not due.
ParkWaits == pc["retry"] = "park" => Current("retry").wait > 0

\* The worths of a partition are a sequence of naturals; the head's is the first.
LEMMA WorthsProperties ==
    ASSUME TypeOK, NEW c \in Consumers, NEW w \in [Messages -> Nat]
    PROVE  /\ Worths(c, w) \in Seq(Nat) /\ Len(Worths(c, w)) = Len(queue[c])
           /\ Load(c, w) \in Nat
           /\ queue[c] = << >> => Load(c, w) = 0
           /\ queue[c] # << >> => /\ Worths(c, w) # << >>
                                  /\ Worths(c, w)[1] = w[Current(c)]
                                  /\ w[Current(c)] <= Load(c, w)
<1>1. queue[c] \in Seq(Messages) /\ Len(queue[c]) \in Nat /\ DOMAIN queue[c] = 1 .. Len(queue[c])
  BY DEF TypeOK
<1>2. Worths(c, w) \in [1 .. Len(queue[c]) -> Nat]
  BY <1>1 DEF Worths
<1>3. Worths(c, w) \in Seq(Nat) /\ Len(Worths(c, w)) = Len(queue[c])
  BY <1>1, <1>2
<1>4. Load(c, w) \in Nat /\ (Worths(c, w) = << >> => Load(c, w) = 0)
  BY <1>3, SequenceSumType DEF Load
<1>5. queue[c] = << >> => Worths(c, w) = << >>
  BY <1>3
<1>6. ASSUME queue[c] # << >>
      PROVE  /\ Worths(c, w) # << >> /\ Worths(c, w)[1] = w[Current(c)]
             /\ w[Current(c)] <= Load(c, w)
  <2>1. 1 \in DOMAIN queue[c] /\ Current(c) = queue[c][1] /\ Current(c) \in Messages
    BY <1>6, CurrentProperties
  <2>2. Worths(c, w)[1] = w[Current(c)] /\ w[Current(c)] \in Nat
    BY <2>1 DEF Worths
  <2>3. Worths(c, w) # << >>
    BY <1>1, <1>3, <2>1
  <2>4. Load(c, w) = Worths(c, w)[1] + SumFunction(Tail(Worths(c, w)))
    BY <1>3, <2>3, SumTail DEF Load
  <2>5. Tail(Worths(c, w)) \in Seq(Nat)
    BY <1>3, <2>3
  <2>6. SumFunction(Tail(Worths(c, w))) \in Nat
    BY <2>5, SequenceSumType
  <2> QED BY <2>2, <2>3, <2>4, <2>6
<1> QED BY <1>3, <1>4, <1>5, <1>6

\* An appended message adds its worth and leaves the heads alone.
LEMMA AppendLoad ==
    ASSUME TypeOK, NEW w \in [Messages -> Nat], NEW c \in Consumers, NEW m \in Messages,
           queue' = [queue EXCEPT ![c] = Append(@, m)]
    PROVE  /\ Load("source", w)' + Load("retry", w)' = Load("source", w) + Load("retry", w) + w[m]
           /\ \A d \in Consumers : queue[d] # << >> => Current(d)' = Current(d)
<1>1. /\ queue \in [Consumers -> Seq(Messages)] /\ queue[c] \in Seq(Messages)
      /\ queue'[c] = Append(queue[c], m)
      /\ \A d \in Consumers : d # c => queue'[d] = queue[d]
  BY DEF TypeOK
<1>2. Worths(c, w)' = Append(Worths(c, w), w[m])
  <2>1. Worths(c, w) \in Seq(Nat) /\ Len(Worths(c, w)) = Len(queue[c]) /\ w[m] \in Nat
    BY WorthsProperties
  <2>2. DOMAIN queue'[c] = 1 .. (Len(queue[c]) + 1) /\ DOMAIN queue[c] = 1 .. Len(queue[c])
    BY <1>1
  <2>3. \A i \in 1 .. Len(queue[c]) : queue'[c][i] = queue[c][i]
    BY <1>1
  <2>4. queue'[c][Len(queue[c]) + 1] = m
    BY <1>1
  <2>5. Worths(c, w)' = [i \in 1 .. (Len(queue[c]) + 1) |-> w[queue'[c][i]]]
    BY <2>2 DEF Worths
  <2>6. /\ Append(Worths(c, w), w[m]) \in Seq(Nat)
        /\ DOMAIN Append(Worths(c, w), w[m]) = 1 .. (Len(queue[c]) + 1)
        /\ Append(Worths(c, w), w[m])[Len(queue[c]) + 1] = w[m]
        /\ \A i \in 1 .. Len(queue[c]) : Append(Worths(c, w), w[m])[i] = Worths(c, w)[i]
    BY <2>1, AppendProperties
  <2>7. \A i \in 1 .. Len(queue[c]) : Worths(c, w)[i] = w[queue[c][i]]
    BY <2>2 DEF Worths
  <2>8. \A i \in 1 .. (Len(queue[c]) + 1) : Append(Worths(c, w), w[m])[i] = w[queue'[c][i]]
    <3> TAKE i \in 1 .. (Len(queue[c]) + 1)
    <3>1. Len(queue[c]) \in Nat
      BY <1>1
    <3>2. i = Len(queue[c]) + 1 \/ i \in 1 .. Len(queue[c])
      BY <3>1
    <3> QED BY <3>2, <2>3, <2>4, <2>6, <2>7
  <2>9. Append(Worths(c, w), w[m]) = [i \in 1 .. (Len(queue[c]) + 1) |-> Append(Worths(c, w), w[m])[i]]
    BY <2>6
  <2> QED BY <2>5, <2>8, <2>9
<1>3. Load(c, w)' = Load(c, w) + w[m]
  BY <1>2, WorthsProperties, SumAppend DEF Load
<1>4. \A d \in Consumers : d # c => Load(d, w)' = Load(d, w)
  BY <1>1 DEF Load, Worths
<1>5. \A d \in Consumers : Load(d, w) \in Nat
  BY WorthsProperties
<1>6. Load("source", w)' + Load("retry", w)' = Load("source", w) + Load("retry", w) + w[m]
  BY <1>3, <1>4, <1>5 DEF Consumers
<1> QED BY <1>6, AppendKeeps

\* A commit takes the worth of the head with it and leaves the other head alone.
LEMMA CommitLoad ==
    ASSUME TypeOK, NEW w \in [Messages -> Nat], NEW c \in Consumers, queue[c] # << >>,
           queue' = [queue EXCEPT ![c] = Tail(@)]
    PROVE  /\ Load("source", w) + Load("retry", w)
                = Load("source", w)' + Load("retry", w)' + w[Current(c)]
           /\ Load("source", w)' + Load("retry", w)' \in Nat
           /\ \A d \in Consumers : d # c => Current(d)' = Current(d)
<1>1. /\ queue \in [Consumers -> Seq(Messages)] /\ queue[c] \in Seq(Messages)
      /\ queue'[c] = Tail(queue[c])
      /\ \A d \in Consumers : d # c => queue'[d] = queue[d]
  BY DEF TypeOK
<1>2. /\ Worths(c, w) \in Seq(Nat) /\ Len(Worths(c, w)) = Len(queue[c])
      /\ Worths(c, w) # << >> /\ Worths(c, w)[1] = w[Current(c)]
  BY WorthsProperties
<1>3. Worths(c, w)' = Tail(Worths(c, w))
  <2>1. /\ Len(queue[c]) \in Nat /\ DOMAIN queue[c] = 1 .. Len(queue[c])
        /\ DOMAIN queue'[c] = 1 .. (Len(queue[c]) - 1)
        /\ \A i \in 1 .. (Len(queue[c]) - 1) : queue'[c][i] = queue[c][i + 1]
    BY <1>1, HeadTailProperties
  <2>2. /\ Tail(Worths(c, w)) \in Seq(Nat)
        /\ DOMAIN Tail(Worths(c, w)) = 1 .. (Len(queue[c]) - 1)
        /\ \A i \in 1 .. (Len(queue[c]) - 1) : Tail(Worths(c, w))[i] = Worths(c, w)[i + 1]
    BY <1>2, HeadTailProperties
  <2>3. \A i \in 1 .. (Len(queue[c]) - 1) : Tail(Worths(c, w))[i] = w[queue'[c][i]]
    <3> TAKE i \in 1 .. (Len(queue[c]) - 1)
    <3>1. i + 1 \in DOMAIN queue[c]
      BY <2>1
    <3>2. Worths(c, w)[i + 1] = w[queue[c][i + 1]]
      BY <3>1 DEF Worths
    <3> QED BY <2>1, <2>2, <3>2
  <2>4. Worths(c, w)' = [i \in 1 .. (Len(queue[c]) - 1) |-> w[queue'[c][i]]]
    BY <2>1 DEF Worths
  <2>5. Tail(Worths(c, w)) = [i \in 1 .. (Len(queue[c]) - 1) |-> Tail(Worths(c, w))[i]]
    <3> DEFINE tail == Tail(Worths(c, w))
    <3>1. tail \in Seq(Nat) /\ DOMAIN tail = 1 .. (Len(queue[c]) - 1)
      BY <2>2
    <3> HIDE DEF tail
    <3>2. tail = [i \in 1 .. (Len(queue[c]) - 1) |-> tail[i]]
      BY <3>1
    <3> QED BY <3>2 DEF tail
  <2> QED BY <2>3, <2>4, <2>5
<1>4. Load(c, w) = w[Current(c)] + Load(c, w)'
  BY <1>2, <1>3, SumTail DEF Load
<1>5. \A d \in Consumers : d # c => Load(d, w)' = Load(d, w)
  BY <1>1 DEF Load, Worths
<1>6. Load(c, w)' \in Nat
  <2>1. Tail(Worths(c, w)) \in Seq(Nat)
    BY <1>2
  <2> QED BY <1>3, <2>1, SequenceSumType DEF Load
<1>7. (\A d \in Consumers : Load(d, w) \in Nat) /\ w[Current(c)] \in Nat
  BY WorthsProperties, CurrentProperties
<1>8. /\ Load("source", w) + Load("retry", w)
           = Load("source", w)' + Load("retry", w)' + w[Current(c)]
      /\ Load("source", w)' + Load("retry", w)' \in Nat
  <2>1. CASE c = "source"
    BY <1>4, <1>5, <1>6, <1>7, <2>1 DEF Consumers
  <2>2. CASE c = "retry"
    BY <1>4, <1>5, <1>6, <1>7, <2>2 DEF Consumers
  <2> QED BY <2>1, <2>2 DEF Consumers
<1>9. \A d \in Consumers : d # c => Current(d)' = Current(d)
  BY <1>1 DEF Current
<1> QED BY <1>8, <1>9

\* The terms and the types give every part of a balance its type.
LEMMA BalanceParts ==
    ASSUME TypeOK, BusyHasHead, NEW e \in Events, NEW w, NEW due, NEW price,
           Terms(e, w, due, price), Within(e, w, due, price)
    PROVE  /\ Credit(e) \in Nat /\ price \in Nat /\ price * Credit(e) \in Nat
           /\ Load("source", w) \in Nat /\ Load("retry", w) \in Nat
           /\ \A c \in Consumers :
                /\ Paid(c, e, w, due) \in Int /\ Paid(c, e, w, due) <= price
                /\ pc[c] = "idle" => Paid(c, e, w, due) = 0
                /\ pc[c] # "idle" =>
                     /\ Current(c) \in Messages /\ w[Current(c)] \in Nat
                     /\ Paid(c, e, w, due) <= w[Current(c)]
                     /\ Current(c).event # e => Paid(c, e, w, due) = 0 /\ w[Current(c)] = 0
           /\ Balance(e, w, due, price) \in Int
<1>1. /\ w \in [Messages -> Nat] /\ due \in [PCs -> Int] /\ price \in Nat
      /\ \A m \in Messages : m.event # e => w[m] = 0
  BY DEF Terms
<1>2. Credit(e) \in Nat /\ price * Credit(e) \in Nat
  <2>1. published \in [Events -> Nat] /\ redelivered \in [Events -> Nat]
    BY DEF TypeOK
  <2>2. Credit(e) \in Nat
    BY <2>1 DEF Credit
  <2> QED BY <1>1, <2>2
<1>3. Load("source", w) \in Nat /\ Load("retry", w) \in Nat
  BY <1>1, WorthsProperties DEF Consumers
<1>4. ASSUME NEW c \in Consumers
      PROVE  /\ Paid(c, e, w, due) \in Int /\ Paid(c, e, w, due) <= price
             /\ pc[c] = "idle" => Paid(c, e, w, due) = 0
             /\ pc[c] # "idle" =>
                  /\ Current(c) \in Messages /\ w[Current(c)] \in Nat
                  /\ Paid(c, e, w, due) <= w[Current(c)]
                  /\ Current(c).event # e => Paid(c, e, w, due) = 0 /\ w[Current(c)] = 0
  <2>1. CASE pc[c] = "idle"
    BY <1>1, <2>1 DEF Paid
  <2>2. CASE pc[c] # "idle"
    <3>1. Current(c) \in Messages /\ w[Current(c)] \in Nat /\ due[pc[c]] \in Int
      BY <1>1, <2>2, CurrentProperties DEF BusyHasHead, TypeOK
    <3>2. CASE Current(c).event # e
      BY <1>1, <2>2, <3>1, <3>2 DEF Paid
    <3>3. CASE Current(c).event = e
      <4>1. w[Current(c)] <= price /\ (pc[c] # "commit" => due[pc[c]] <= w[Current(c)])
        BY <2>2, <3>3 DEF Within
      <4>2. Paid(c, e, w, due) = IF pc[c] = "commit" THEN w[Current(c)] ELSE due[pc[c]]
        BY <2>2, <3>3 DEF Paid
      <4>3. Paid(c, e, w, due) \in Int /\ Paid(c, e, w, due) <= w[Current(c)]
        BY <3>1, <4>1, <4>2
      <4> QED BY <1>1, <2>2, <3>1, <3>3, <4>1, <4>3
    <3> QED BY <3>2, <3>3
  <2> QED BY <2>1, <2>2
<1>5. Balance(e, w, due, price) \in Int
  <2>1. Paid("source", e, w, due) \in Int /\ Paid("retry", e, w, due) \in Int
    BY <1>4 DEF Consumers
  <2> QED BY <1>2, <1>3, <2>1 DEF Balance
<1> QED BY <1>1, <1>2, <1>3, <1>4, <1>5

\* What an event has spent is covered by its credit.
LEMMA BalanceIsCovered ==
    ASSUME TypeOK, BusyHasHead, NEW e \in Events, NEW w, NEW due, NEW price,
           Terms(e, w, due, price), Within(e, w, due, price)
    PROVE  Balance(e, w, due, price) <= price * Credit(e)
<1>1. \A c \in Consumers : Paid(c, e, w, due) \in Int /\ Paid(c, e, w, due) <= Load(c, w)
  <2> TAKE c \in Consumers
  <2>1. w \in [Messages -> Nat]
    BY DEF Terms
  <2>2. Load(c, w) \in Nat
    BY <2>1, WorthsProperties
  <2>3. CASE pc[c] = "idle"
    BY <2>2, <2>3, BalanceParts
  <2>4. CASE pc[c] # "idle"
    <3>1. w[Current(c)] <= Load(c, w)
      BY <2>1, <2>4, WorthsProperties DEF BusyHasHead
    <3>2. w[Current(c)] \in Nat /\ Paid(c, e, w, due) \in Int /\ Paid(c, e, w, due) <= w[Current(c)]
      BY <2>4, BalanceParts
    <3> QED BY <2>2, <3>1, <3>2
  <2> QED BY <2>3, <2>4
<1>2. price * Credit(e) \in Nat /\ Load("source", w) \in Nat /\ Load("retry", w) \in Nat
  BY BalanceParts
<1> QED BY <1>1, <1>2 DEF Balance, Consumers

\* The balance after a step that moves the runner of c, or none: the other
\* runner has paid what it had.
LEMMA OneRunnerMoves ==
    ASSUME TypeOK, BusyHasHead, NEW e \in Events, NEW w, NEW due, NEW price,
           Terms(e, w, due, price), Within(e, w, due, price),
           NEW c \in Consumers,
           \A d \in Consumers : d # c => pc'[d] = pc[d],
           \A d \in Consumers : d # c /\ queue[d] # << >> => Current(d)' = Current(d),
           NEW paid \in Int, Paid(c, e, w, due)' = paid,
           NEW load \in Int,
           Load("source", w)' + Load("retry", w)' = Load("source", w) + Load("retry", w) + load,
           NEW credit \in Nat, Credit(e)' = Credit(e) + credit
    PROVE  Balance(e, w, due, price)' = Balance(e, w, due, price)
             + (price * credit + paid - Paid(c, e, w, due) - load)
<1>1. \A d \in Consumers : d # c => Paid(d, e, w, due)' = Paid(d, e, w, due)
  BY DEF Paid, BusyHasHead
<1>2. \A d \in Consumers : Paid(d, e, w, due) \in Int
  BY BalanceParts
<1>3. Paid("source", e, w, due)' + Paid("retry", e, w, due)'
        = Paid("source", e, w, due) + Paid("retry", e, w, due) + paid - Paid(c, e, w, due)
  BY <1>1, <1>2 DEF Consumers
<1>4. /\ Credit(e) \in Nat /\ price \in Nat /\ price * Credit(e) \in Nat
      /\ Load("source", w) \in Nat /\ Load("retry", w) \in Nat
  BY BalanceParts
<1>5. price * (Credit(e) + credit) = price * Credit(e) + price * credit /\ price * credit \in Nat
  BY <1>4
<1>6. Balance(e, w, due, price)'
        = price * Credit(e)' + (Paid("source", e, w, due)' + Paid("retry", e, w, due)')
                             - (Load("source", w)' + Load("retry", w)')
  BY DEF Balance
<1>7. Paid("source", e, w, due) \in Int /\ Paid("retry", e, w, due) \in Int
      /\ Paid(c, e, w, due) \in Int
  BY <1>2 DEF Consumers
<1> DEFINE both == Paid("source", e, w, due) + Paid("retry", e, w, due)
           all  == Load("source", w) + Load("retry", w)
           worth == price * Credit(e)
           more == price * credit
<1>8. both \in Int /\ all \in Int /\ worth \in Int /\ more \in Int
  BY <1>4, <1>5, <1>7
<1>9. Balance(e, w, due, price)'
        = (worth + more) + (both + paid - Paid(c, e, w, due)) - (all + load)
  BY <1>3, <1>5, <1>6
<1>10. Balance(e, w, due, price) = worth + both - all
  BY DEF Balance
<1> HIDE DEF both, all, worth
<1> QED BY <1>7, <1>8, <1>9, <1>10

-----------------------------------------------------------------------------
(* What each step does to a balance *)

\* A fresh copy is worth no more than the credit it comes with.
LEMMA PublishBalance ==
    ASSUME TypeOK, BusyHasHead, NEW e \in Events, NEW w, NEW due, NEW price,
           Terms(e, w, due, price), Within(e, w, due, price),
           NEW f \in Events, Publish(f)
    PROVE  Balance(e, w, due, price)' >= Balance(e, w, due, price)
<1>1. PICK c \in {"source"} \cup (IF Replay THEN {"retry"} ELSE {}) :
        queue' = [queue EXCEPT ![c] = Append(@, Fresh(f))]
  BY DEF Publish, Fresh
<1>2. c \in Consumers /\ Fresh(f) \in Messages /\ Fresh(f).event = f
  BY <1>1 DEF Consumers, Fresh, Messages
<1>3. w \in [Messages -> Nat] /\ w[Fresh(f)] \in Nat /\ price \in Nat
  BY <1>2 DEF Terms
<1>4. /\ Load("source", w)' + Load("retry", w)' = Load("source", w) + Load("retry", w) + w[Fresh(f)]
      /\ \A d \in Consumers : queue[d] # << >> => Current(d)' = Current(d)
  BY <1>1, <1>2, <1>3, AppendLoad
<1>5. pc' = pc /\ published' = Bump(published, f) /\ redelivered' = redelivered
  BY DEF Publish
<1>6. Paid(c, e, w, due)' = Paid(c, e, w, due) /\ Paid(c, e, w, due) \in Int
  <2>1. Paid(c, e, w, due)' = Paid(c, e, w, due)
    BY <1>2, <1>4, <1>5 DEF Paid, BusyHasHead
  <2> QED BY <1>2, <2>1, BalanceParts
<1>7. published \in [Events -> Nat] /\ redelivered \in [Events -> Nat]
  BY DEF TypeOK
<1>8. CASE f = e
  <2>1. Credit(e)' = Credit(e) + 1
    BY <1>5, <1>7, <1>8, BumpProperties DEF Credit
  <2>2. Balance(e, w, due, price)' = Balance(e, w, due, price)
          + (price * 1 + Paid(c, e, w, due) - Paid(c, e, w, due) - w[Fresh(f)])
    BY <1>2, <1>3, <1>4, <1>5, <1>6, <2>1, OneRunnerMoves
  <2>3. w[Fresh(f)] <= price
    BY <1>8 DEF Terms
  <2>4. Balance(e, w, due, price) \in Int
    BY BalanceParts
  <2> QED BY <1>3, <1>6, <2>2, <2>3, <2>4
<1>9. CASE f # e
  <2>1. Credit(e)' = Credit(e) + 0
    BY <1>5, <1>7, <1>9, BumpProperties DEF Credit
  <2>2. Balance(e, w, due, price)' = Balance(e, w, due, price)
          + (price * 0 + Paid(c, e, w, due) - Paid(c, e, w, due) - w[Fresh(f)])
    BY <1>2, <1>3, <1>4, <1>5, <1>6, <2>1, OneRunnerMoves
  <2>3. w[Fresh(f)] = 0
    BY <1>2, <1>9 DEF Terms
  <2>4. Balance(e, w, due, price) \in Int
    BY BalanceParts
  <2> QED BY <1>3, <1>6, <2>2, <2>3, <2>4
<1> QED BY <1>8, <1>9

\* A runner that moves without a message, a credit or a commit changes what it paid.
LEMMA MoveBalance ==
    ASSUME TypeOK, BusyHasHead, NEW e \in Events, NEW w, NEW due, NEW price,
           Terms(e, w, due, price), Within(e, w, due, price),
           NEW c \in Consumers, queue[c] # << >>, NEW l \in PCs \ {"idle"},
           GoTo(c, l), UNCHANGED <<queue, published, redelivered>>
    PROVE  Balance(e, w, due, price)' = Balance(e, w, due, price)
             + ((IF l = "commit" THEN w[Current(c)]
                 ELSE IF Current(c).event = e THEN due[l] ELSE 0) - Paid(c, e, w, due))
<1> DEFINE paid == IF l = "commit" THEN w[Current(c)]
                   ELSE IF Current(c).event = e THEN due[l] ELSE 0
<1>1. /\ pc \in [Consumers -> PCs] /\ w \in [Messages -> Nat] /\ due \in [PCs -> Int]
      /\ price \in Nat /\ Current(c) \in Messages
  BY CurrentProperties DEF Terms, TypeOK
<1>2. pc'[c] = l /\ \A d \in Consumers : d # c => pc'[d] = pc[d]
  BY <1>1 DEF GoTo
<1>3. /\ \A d \in Consumers : Current(d)' = Current(d)
      /\ Load("source", w)' = Load("source", w) /\ Load("retry", w)' = Load("retry", w)
      /\ Credit(e)' = Credit(e)
  BY DEF Current, Load, Worths, Credit
<1>4. Paid(c, e, w, due)' = paid
  BY <1>2, <1>3 DEF Paid
<1>5. paid \in Int
  BY <1>1
<1>6. /\ Credit(e) \in Nat /\ Load("source", w) \in Nat /\ Load("retry", w) \in Nat
      /\ Paid(c, e, w, due) \in Int
  BY BalanceParts
<1>7. /\ Credit(e)' = Credit(e) + 0
      /\ Load("source", w)' + Load("retry", w)' = Load("source", w) + Load("retry", w) + 0
  BY <1>3, <1>6
<1> HIDE DEF paid
<1>8. Balance(e, w, due, price)' = Balance(e, w, due, price)
        + (price * 0 + paid - Paid(c, e, w, due) - 0)
  BY <1>2, <1>3, <1>4, <1>5, <1>7, OneRunnerMoves
<1>9. Balance(e, w, due, price)' = Balance(e, w, due, price) + (paid - Paid(c, e, w, due))
  BY <1>1, <1>5, <1>6, <1>8
<1> QED BY <1>9 DEF paid

\* Until a message has an outcome nothing is spent, and the next step pays its due.
LEMMA ReceiveBalance ==
    ASSUME TypeOK, BusyHasHead, NEW e \in Events, NEW w, NEW due, NEW price,
           Terms(e, w, due, price), Within(e, w, due, price),
           NEW c \in Consumers,
           ReceiveInvalid(c) \/ ReceiveDuplicate(c) \/ Receive(c) \/ (c = "retry" /\ Park)
    PROVE  Balance(e, w, due, price)' >= Balance(e, w, due, price)
<1>1. PICK l \in PCs \ {"idle"} : GoTo(c, l) /\ l \in {"deadLetter", "commit", "handle", "park"}
  BY DEF ReceiveInvalid, ReceiveDuplicate, Receive, Park, PCs
<1>2. pc[c] = "idle" /\ queue[c] # << >> /\ UNCHANGED <<queue, published, redelivered>>
  BY DEF ReceiveInvalid, ReceiveDuplicate, Receive, Park, history
<1>3. Balance(e, w, due, price)' = Balance(e, w, due, price)
        + ((IF l = "commit" THEN w[Current(c)]
            ELSE IF Current(c).event = e THEN due[l] ELSE 0) - Paid(c, e, w, due))
  BY <1>1, <1>2, MoveBalance
<1>4. Paid(c, e, w, due) = 0 /\ Balance(e, w, due, price) \in Int
  BY <1>2, BalanceParts
<1>5. w[Current(c)] \in Nat /\ due[l] \in Int
  BY <1>1, <1>2, CurrentProperties DEF Terms
<1>6. l # "commit" => due[l] >= 0
  BY <1>1 DEF Terms
<1> QED BY <1>3, <1>4, <1>5, <1>6

\* A handler that resolves spends the worth of the head, one that fails its due.
LEMMA HandleBalance ==
    ASSUME TypeOK, BusyHasHead, NEW e \in Events, NEW w, NEW due, NEW price,
           Terms(e, w, due, price), Within(e, w, due, price),
           NEW c \in Consumers
    PROVE  /\ HandlerSucceeds(c) =>
                Balance(e, w, due, price)' = Balance(e, w, due, price) + w[Current(c)]
           /\ HandlerFails(c) =>
                \E l \in {"schedule", "deadLetter"} :
                   Balance(e, w, due, price)' = Balance(e, w, due, price)
                     + (IF Current(c).event = e THEN due[l] ELSE 0)
<1>1. ASSUME pc[c] = "handle"
      PROVE  /\ queue[c] # << >> /\ Paid(c, e, w, due) = 0
             /\ w[Current(c)] \in Nat /\ Balance(e, w, due, price) \in Int
  <2>1. Balance(e, w, due, price) \in Int /\ w[Current(c)] \in Nat
    BY <1>1, BalanceParts
  <2>2. Paid(c, e, w, due) = 0
    BY <1>1 DEF Paid, Terms
  <2> QED BY <1>1, <2>1, <2>2 DEF BusyHasHead
<1>2. ASSUME HandlerSucceeds(c)
      PROVE  Balance(e, w, due, price)' = Balance(e, w, due, price) + w[Current(c)]
  <2>1. pc[c] = "handle" /\ GoTo(c, "commit") /\ UNCHANGED <<queue, published, redelivered>>
    BY <1>2 DEF HandlerSucceeds
  <2>2. "commit" \in PCs \ {"idle"}
    BY DEF PCs
  <2>3. Balance(e, w, due, price)' = Balance(e, w, due, price) + (w[Current(c)] - Paid(c, e, w, due))
    BY <1>1, <2>1, <2>2, MoveBalance
  <2> QED BY <1>1, <2>1, <2>3
<1>3. ASSUME HandlerFails(c)
      PROVE  \E l \in {"schedule", "deadLetter"} :
                Balance(e, w, due, price)' = Balance(e, w, due, price)
                  + (IF Current(c).event = e THEN due[l] ELSE 0)
  <2>1. PICK l \in {"schedule", "deadLetter"} : GoTo(c, l)
    BY <1>3 DEF HandlerFails
  <2>2. pc[c] = "handle" /\ UNCHANGED <<queue, published, redelivered>>
    BY <1>3 DEF HandlerFails
  <2>3. l \in PCs \ {"idle"} /\ l # "commit"
    BY DEF PCs
  <2>4. due[l] \in Int
    BY <2>3 DEF Terms
  <2>5. Balance(e, w, due, price)' = Balance(e, w, due, price)
          + ((IF l = "commit" THEN w[Current(c)]
              ELSE IF Current(c).event = e THEN due[l] ELSE 0) - Paid(c, e, w, due))
    BY <1>1, <2>1, <2>2, <2>3, MoveBalance
  <2>6. Balance(e, w, due, price)' = Balance(e, w, due, price)
          + (IF Current(c).event = e THEN due[l] ELSE 0)
    BY <1>1, <2>2, <2>3, <2>4, <2>5
  <2> QED BY <2>6
<1> QED BY <1>2, <1>3

\* A redelivery buys a credit.
LEMMA RedeliveryCredit ==
    ASSUME TypeOK, NEW e \in Events, NEW f \in Events,
           redelivered' = Bump(redelivered, f), published' = published
    PROVE  Credit(e)' = Credit(e) + (IF f = e THEN 1 ELSE 0) /\ Credit(e) \in Nat
<1>1. published \in [Events -> Nat] /\ redelivered \in [Events -> Nat]
  BY DEF TypeOK
<1>2. redelivered'[e] = redelivered[e] + (IF f = e THEN 1 ELSE 0)
  BY <1>1, BumpProperties
<1> QED BY <1>1, <1>2 DEF Credit

\* What a produce puts on the retry topic.
LEMMA ProduceLoad ==
    ASSUME TypeOK, BusyHasHead, NEW w \in [Messages -> Nat], NEW c \in Consumers, Produce(c)
    PROVE  /\ \A d \in Consumers : queue[d] # << >> => Current(d)' = Current(d)
           /\ \E load \in Nat :
                /\ Load("source", w)' + Load("retry", w)'
                     = Load("source", w) + Load("retry", w) + load
                /\ pc[c] = "requeue" => load = w[Current(c)]
                /\ pc[c] = "schedule" => load = w[Scheduled(Current(c))]
                /\ pc[c] = "deadLetter" => load = 0
<1>0. "retry" \in Consumers /\ pc[c] \in {"requeue", "schedule", "deadLetter"}
  BY DEF Consumers, Produce
<1>1. Current(c) \in Messages /\ Scheduled(Current(c)) \in Messages
  BY <1>0, CurrentProperties, ScheduledProperties DEF BusyHasHead
<1>2. CASE pc[c] = "requeue"
  <2>1. queue' = [queue EXCEPT !["retry"] = Append(@, Current(c))]
    BY <1>2 DEF Produce, Append1
  <2> QED BY <1>0, <1>1, <1>2, <2>1, AppendLoad
<1>3. CASE pc[c] = "schedule"
  <2>1. queue' = [queue EXCEPT !["retry"] = Append(@, Scheduled(Current(c)))]
    BY <1>3 DEF Produce, Append1
  <2> QED BY <1>0, <1>1, <1>3, <2>1, AppendLoad
<1>4. CASE pc[c] = "deadLetter"
  <2>1. queue' = queue
    BY <1>4 DEF Produce
  <2>2. Load("source", w) \in Nat /\ Load("retry", w) \in Nat
    BY WorthsProperties DEF Consumers
  <2> QED BY <1>4, <2>1, <2>2 DEF Current, Load, Worths
<1> QED BY <1>0, <1>2, <1>3, <1>4

\* A requeue is paid by its due, a schedule by the lower worth of the message it
\* appends, a dead letter by the worth of the head.  When the acknowledgment is
\* lost, the credit of the redelivery pays.
LEMMA ProduceBalance ==
    ASSUME TypeOK, BusyHasHead, NEW e \in Events, NEW w, NEW due, NEW price,
           Terms(e, w, due, price), Within(e, w, due, price),
           NEW c \in Consumers, Produced(c) \/ AckLost(c)
    PROVE  Balance(e, w, due, price)' >= Balance(e, w, due, price)
             + (IF Current(c).event # e \/ pc[c] = "schedule" THEN 0
                ELSE IF pc[c] = "requeue" THEN -due["requeue"]
                ELSE w[Current(c)] - due["deadLetter"])
<1> DEFINE head == Current(c)
           before == Balance(e, w, due, price)
           was == Paid(c, e, w, due)
<1>0. /\ Produce(c) /\ pc[c] \in {"requeue", "schedule", "deadLetter"} /\ queue[c] # << >>
      /\ published' = published
  BY DEF Produced, AckLost, Produce, BusyHasHead
<1>1. /\ w \in [Messages -> Nat] /\ due \in [PCs -> Int] /\ price \in Nat
      /\ pc \in [Consumers -> PCs] /\ before \in Int /\ was \in Int
      /\ head \in Messages /\ w[head] \in Nat /\ head.event \in Events
  BY <1>0, BalanceParts, CurrentProperties DEF Terms, TypeOK, Messages
<1>2. PICK load \in Nat :
        /\ Load("source", w)' + Load("retry", w)' = Load("source", w) + Load("retry", w) + load
        /\ pc[c] = "requeue" => load = w[head]
        /\ pc[c] = "schedule" => load = w[Scheduled(head)]
        /\ pc[c] = "deadLetter" => load = 0
  BY <1>0, <1>1, ProduceLoad
<1>3. \A d \in Consumers : queue[d] # << >> => Current(d)' = Current(d)
  BY <1>0, <1>1, ProduceLoad
<1>4. PICK paid \in Int, credit \in Nat :
        /\ Paid(c, e, w, due)' = paid /\ Credit(e)' = Credit(e) + credit
        /\ \A d \in Consumers : d # c => pc'[d] = pc[d]
        /\ \/ paid = w[head] /\ credit = 0
           \/ paid = 0 /\ credit = IF head.event = e THEN 1 ELSE 0
  <2>1. CASE Produced(c)
    <3>1. pc' = [pc EXCEPT ![c] = "commit"] /\ redelivered' = redelivered
      BY <2>1 DEF Produced, GoTo
    <3>2. Paid(c, e, w, due)' = w[head]
      BY <1>0, <1>1, <1>3, <3>1 DEF Paid
    <3>3. Credit(e)' = Credit(e) + 0
      <4>1. Credit(e) \in Nat
        BY BalanceParts
      <4> QED BY <1>0, <3>1, <4>1 DEF Credit
    <3> QED BY <1>1, <3>1, <3>2, <3>3
  <2>2. CASE AckLost(c)
    <3>1. pc' = [pc EXCEPT ![c] = "idle"] /\ redelivered' = Bump(redelivered, head.event)
      BY <2>2 DEF AckLost, GoTo
    <3>2. Paid(c, e, w, due)' = 0
      BY <1>1, <3>1 DEF Paid
    <3>3. Credit(e)' = Credit(e) + (IF head.event = e THEN 1 ELSE 0)
      BY <1>0, <1>1, <3>1, RedeliveryCredit
    <3> QED BY <1>1, <3>1, <3>2, <3>3
  <2> QED BY <2>1, <2>2
<1>5. Balance(e, w, due, price)' = before + (price * credit + paid - was - load)
  BY <1>2, <1>3, <1>4, OneRunnerMoves
<1>6. CASE head.event # e
  <2>1. was = 0 /\ w[head] = 0
    BY <1>0, <1>6, BalanceParts
  <2>2. load = 0
    <3>1. Scheduled(head) \in Messages /\ Scheduled(head).event # e
      BY <1>1, <1>6, ScheduledProperties
    <3>2. w[Scheduled(head)] = 0
      BY <3>1 DEF Terms
    <3> QED BY <1>0, <1>2, <2>1, <3>2
  <2>3. credit = 0 /\ paid = 0
    BY <1>4, <1>6, <2>1
  <2>4. Balance(e, w, due, price)' = before
    BY <1>1, <1>5, <2>1, <2>2, <2>3
  <2> QED BY <1>1, <1>6, <2>4
<1>7. CASE head.event = e
  <2>1. was = due[pc[c]] /\ due[pc[c]] \in Int
    BY <1>0, <1>1, <1>7 DEF Paid
  <2>2. w[head] <= price
    BY <1>0, <1>7 DEF Within
  <2>3. price * credit + paid >= w[head]
    BY <1>1, <1>4, <1>7, <2>2
  <2>4. Balance(e, w, due, price)' >= before + (w[head] - due[pc[c]] - load)
    <3>1. price * credit \in Nat
      BY <1>1
    <3> QED BY <1>1, <1>4, <1>5, <2>1, <2>3, <3>1
  <2>5. pc[c] = "schedule" => load + due["schedule"] <= w[head]
    BY <1>2, <1>7 DEF Within
  <2>6. Balance(e, w, due, price)' \in Int
    <3>1. price * credit \in Nat
      BY <1>1
    <3> QED BY <1>1, <1>4, <1>5, <3>1
  <2>7. CASE pc[c] = "requeue"
    BY <1>1, <1>2, <1>7, <2>1, <2>4, <2>6, <2>7
  <2>8. CASE pc[c] = "schedule"
    BY <1>1, <1>2, <1>7, <2>1, <2>4, <2>5, <2>6, <2>8
  <2>9. CASE pc[c] = "deadLetter"
    BY <1>1, <1>2, <1>7, <2>1, <2>4, <2>6, <2>9
  <2> QED BY <1>0, <2>7, <2>8, <2>9
<1> QED BY <1>6, <1>7

\* A rejected produce or commit: what was paid comes back as a credit.
LEMMA RejectsBalance ==
    ASSUME TypeOK, BusyHasHead, NEW e \in Events, NEW w, NEW due, NEW price,
           Terms(e, w, due, price), Within(e, w, due, price),
           NEW c \in Consumers, Rejects(c)
    PROVE  Balance(e, w, due, price)' >= Balance(e, w, due, price)
<1> DEFINE head == Current(c)
           credit == IF head.event = e THEN 1 ELSE 0
<1>1. /\ pc[c] # "idle" /\ UNCHANGED <<queue, published>>
      /\ redelivered' = Bump(redelivered, head.event) /\ pc' = [pc EXCEPT ![c] = "idle"]
  BY DEF Rejects, GoTo
<1>2. /\ pc \in [Consumers -> PCs] /\ price \in Nat /\ head \in Messages /\ head.event \in Events
      /\ Balance(e, w, due, price) \in Int
      /\ Paid(c, e, w, due) \in Int /\ Paid(c, e, w, due) <= price
      /\ head.event # e => Paid(c, e, w, due) = 0
      /\ Load("source", w) \in Nat /\ Load("retry", w) \in Nat
  BY <1>1, BalanceParts DEF TypeOK, Messages
<1>3. Credit(e)' = Credit(e) + credit
  BY <1>1, <1>2, RedeliveryCredit
<1>4. /\ Paid(c, e, w, due)' = 0
      /\ \A d \in Consumers : Current(d)' = Current(d) /\ (d # c => pc'[d] = pc[d])
      /\ Load("source", w)' + Load("retry", w)' = Load("source", w) + Load("retry", w) + 0
  BY <1>1, <1>2 DEF Paid, Current, Load, Worths
<1>5. Balance(e, w, due, price)' = Balance(e, w, due, price)
        + (price * credit + 0 - Paid(c, e, w, due) - 0)
  BY <1>3, <1>4, OneRunnerMoves
<1> QED BY <1>2, <1>5

\* A commit removes a message whose worth is spent.
LEMMA CommitBalance ==
    ASSUME TypeOK, BusyHasHead, NEW e \in Events, NEW w, NEW due, NEW price,
           Terms(e, w, due, price), Within(e, w, due, price),
           NEW c \in Consumers, Commit(c)
    PROVE  Balance(e, w, due, price)' = Balance(e, w, due, price)
<1>1. /\ pc[c] = "commit" /\ queue[c] # << >> /\ queue' = [queue EXCEPT ![c] = Tail(@)]
      /\ pc' = [pc EXCEPT ![c] = "idle"] /\ UNCHANGED <<published, redelivered>>
  BY DEF Commit, GoTo, BusyHasHead, history
<1>2. /\ w \in [Messages -> Nat] /\ price \in Nat /\ pc \in [Consumers -> PCs]
      /\ Credit(e) \in Nat /\ w[Current(c)] \in Nat /\ Balance(e, w, due, price) \in Int
      /\ Load("source", w) \in Nat /\ Load("retry", w) \in Nat
  BY <1>1, BalanceParts DEF Terms, TypeOK
<1>3. /\ Load("source", w) + Load("retry", w)
           = Load("source", w)' + Load("retry", w)' + w[Current(c)]
      /\ Load("source", w)' + Load("retry", w)' \in Nat
      /\ \A d \in Consumers : d # c => Current(d)' = Current(d)
  BY <1>1, <1>2, CommitLoad
<1>4. Load("source", w)' + Load("retry", w)' = Load("source", w) + Load("retry", w) + (-w[Current(c)])
  BY <1>2, <1>3
<1>5. /\ Paid(c, e, w, due)' = 0 /\ Paid(c, e, w, due) = w[Current(c)]
      /\ \A d \in Consumers : d # c => pc'[d] = pc[d]
  BY <1>1, <1>2 DEF Paid
<1>6. Credit(e)' = Credit(e) + 0
  BY <1>1, <1>2 DEF Credit
<1>7. Balance(e, w, due, price)' = Balance(e, w, due, price)
        + (price * 0 + 0 - Paid(c, e, w, due) - (-w[Current(c)]))
  BY <1>2, <1>3, <1>4, <1>5, <1>6, OneRunnerMoves
<1> QED BY <1>2, <1>5, <1>7

\* A set of runners is as large as the runners it has.
LEMMA RunnerCount ==
    ASSUME NEW S, S \subseteq Consumers
    PROVE  Cardinality(S) = (IF "source" \in S THEN 1 ELSE 0) + (IF "retry" \in S THEN 1 ELSE 0)
<1>1. Cardinality({}) = 0
  BY FS_EmptySet
<1>2. Cardinality({"source"}) = 1 /\ Cardinality({"retry"}) = 1 /\ IsFiniteSet({"source"})
  BY FS_Singleton
<1>3. Cardinality({"source", "retry"}) = 2
  <2>1. Cardinality({"source"} \cup {"retry"}) = 1 + 1
    BY <1>2, FS_AddElement
  <2>2. {"source"} \cup {"retry"} = {"source", "retry"}
    OBVIOUS
  <2> QED BY <2>1, <2>2
<1>4. S \in {{}, {"source"}, {"retry"}, {"source", "retry"}}
  BY DEF Consumers
<1> QED BY <1>1, <1>2, <1>3, <1>4

\* A restart gives up what both runners had paid, for a credit each.
LEMMA RestartBalance ==
    ASSUME TypeOK, BusyHasHead, NEW e \in Events, NEW w, NEW due, NEW price,
           Terms(e, w, due, price), Within(e, w, due, price),
           Restart
    PROVE  Balance(e, w, due, price)' >= Balance(e, w, due, price)
<1> DEFINE s == IF pc["source"] # "idle" /\ Current("source").event = e THEN 1 ELSE 0
           r == IF pc["retry"] # "idle" /\ Current("retry").event = e THEN 1 ELSE 0
<1>1. /\ redelivered' = [f \in Events |-> redelivered[f] + Cardinality(InFlight(f))]
      /\ pc' = [c \in Consumers |-> "idle"] /\ UNCHANGED <<queue, published>>
  BY DEF Restart
<1>2. /\ price \in Nat /\ Credit(e) \in Nat /\ price * Credit(e) \in Nat
      /\ Load("source", w) \in Nat /\ Load("retry", w) \in Nat
      /\ Paid("source", e, w, due) \in Int /\ Paid("retry", e, w, due) \in Int
  BY BalanceParts DEF Consumers
<1>3. Credit(e)' = Credit(e) + (s + r)
  <2>1. redelivered'[e] = redelivered[e] + (s + r)
    <3>1. InFlight(e) \subseteq Consumers
      BY DEF InFlight
    <3>2. Cardinality(InFlight(e)) = s + r
      BY <3>1, RunnerCount DEF InFlight, Consumers
    <3> QED BY <1>1, <3>2
  <2>2. published[e] \in Nat /\ redelivered[e] \in Nat
    BY DEF TypeOK
  <2> QED BY <1>1, <2>1, <2>2 DEF Credit
<1>4. /\ Paid("source", e, w, due)' = 0 /\ Paid("retry", e, w, due)' = 0
      /\ Load("source", w)' = Load("source", w) /\ Load("retry", w)' = Load("retry", w)
  <2>1. pc'["source"] = "idle" /\ pc'["retry"] = "idle"
    BY <1>1 DEF Consumers
  <2> QED BY <1>1, <2>1 DEF Paid, Load, Worths
<1>5. Paid("source", e, w, due) <= price * s /\ Paid("retry", e, w, due) <= price * r
  <2>1. \A c \in Consumers :
          /\ Paid(c, e, w, due) <= price
          /\ pc[c] = "idle" \/ Current(c).event # e => Paid(c, e, w, due) = 0
    BY BalanceParts
  <2>2. "source" \in Consumers /\ "retry" \in Consumers
    BY DEF Consumers
  <2> QED BY <1>2, <2>1, <2>2
<1>6. s \in Nat /\ r \in Nat
  OBVIOUS
<1> HIDE DEF s, r
<1>7. price * (Credit(e) + (s + r)) = price * Credit(e) + (price * s + price * r)
  BY <1>2, <1>6
<1>8. price * s \in Nat /\ price * r \in Nat
  BY <1>2, <1>6
<1>9. Balance(e, w, due, price)'
        = price * Credit(e) + (price * s + price * r) - (Load("source", w) + Load("retry", w))
  <2>1. Balance(e, w, due, price)'
          = price * (Credit(e) + (s + r)) + (0 + 0) - (Load("source", w) + Load("retry", w))
    BY <1>3, <1>4 DEF Balance
  <2> QED BY <1>2, <1>7, <1>8, <2>1
<1>10. Balance(e, w, due, price)
         = price * Credit(e) + (Paid("source", e, w, due) + Paid("retry", e, w, due))
                             - (Load("source", w) + Load("retry", w))
  BY DEF Balance
<1> DEFINE worth == price * Credit(e)
           more == price * s
           much == price * r
<1>11. worth \in Nat /\ more \in Nat /\ much \in Nat
  BY <1>2, <1>8
<1>12. /\ Paid("source", e, w, due) <= more /\ Paid("retry", e, w, due) <= much
       /\ Balance(e, w, due, price)' = worth + (more + much) - (Load("source", w) + Load("retry", w))
       /\ Balance(e, w, due, price)
            = worth + (Paid("source", e, w, due) + Paid("retry", e, w, due))
                    - (Load("source", w) + Load("retry", w))
  BY <1>5, <1>9, <1>10
<1> HIDE DEF worth, more, much
<1> QED BY <1>2, <1>11, <1>12

\* The clock makes no message dearer, and the head no dearer than the rest.
LEMMA TickLoad ==
    ASSUME TypeOK, NEW w \in [Messages -> Nat],
           \A m \in Messages : w[Sooner(m)] <= w[m],
           Tick, queue["retry"] # << >>
    PROVE  /\ Current("retry") \in Messages /\ Sooner(Current("retry")) \in Messages
           /\ Current("retry")' = Sooner(Current("retry"))
           /\ Load("retry", w)' \in Nat
           /\ Load("retry", w)' + w[Current("retry")]
                <= Load("retry", w) + w[Sooner(Current("retry"))]
<1> DEFINE retry == queue["retry"]
           later == queue'["retry"]
<1>1. "retry" \in Consumers /\ retry \in Seq(Messages) /\ queue \in [Consumers -> Seq(Messages)]
      /\ retry # << >>
  BY DEF TypeOK, Consumers
<1>2. later = [i \in DOMAIN retry |-> Sooner(retry[i])]
  BY <1>1 DEF Tick
<1>3. \A m \in Messages : Sooner(m) \in Messages
  BY DEF Messages, Sooner
<1>4. /\ Len(retry) \in Nat /\ DOMAIN retry = 1 .. Len(retry) /\ 1 \in DOMAIN retry
      /\ \A i \in DOMAIN retry : retry[i] \in Messages
  BY <1>1
<1>5. later \in Seq(Messages) /\ later # << >> /\ DOMAIN later = DOMAIN retry
  BY <1>1, TickKeeps
<1>6. Current("retry") = retry[1] /\ Current("retry")' = later[1]
  BY <1>1, <1>5 DEF Current
<1>7. later[1] = Sooner(retry[1])
  BY <1>2, <1>4
<1> DEFINE u == Worths("retry", w)
           v == [i \in 1 .. Len(retry) |-> w[later[i]]]
<1>8. Worths("retry", w)' = v
  BY <1>4, <1>5 DEF Worths
<1>9. /\ u \in Seq(Nat) /\ Len(u) = Len(retry) /\ u # << >> /\ u[1] = w[Current("retry")]
      /\ \A i \in 1 .. Len(retry) : u[i] = w[retry[i]]
  BY <1>1, <1>4, WorthsProperties DEF Worths
<1>10. /\ v \in Seq(Nat) /\ Len(v) = Len(retry) /\ v # << >> /\ v[1] = w[later[1]]
       /\ \A i \in 1 .. Len(retry) : v[i] <= u[i]
  <2>1. \A i \in 1 .. Len(retry) : w[later[i]] \in Nat /\ w[later[i]] <= u[i]
    <3> HIDE DEF retry, later, u, v
    <3> TAKE i \in 1 .. Len(retry)
    <3>1. later[i] = Sooner(retry[i]) /\ retry[i] \in Messages
      BY <1>2, <1>4
    <3>2. w[Sooner(retry[i])] \in Nat /\ w[Sooner(retry[i])] <= w[retry[i]]
      BY <1>3, <3>1
    <3> QED BY <1>9, <3>1, <3>2
  <2>2. v \in [1 .. Len(retry) -> Nat]
    BY <2>1
  <2>3. v \in Seq(Nat) /\ Len(v) = Len(retry) /\ v[1] = w[later[1]]
    BY <1>4, <2>2
  <2> QED BY <1>4, <2>1, <2>3
<1> HIDE DEF retry, later, u, v
<1>11. SumFunction(u) = u[1] + SumFunction(Tail(u)) /\ SumFunction(v) = v[1] + SumFunction(Tail(v))
  BY <1>9, <1>10, SumTail
<1>12. SumFunction(Tail(v)) <= SumFunction(Tail(u))
       /\ SumFunction(Tail(v)) \in Nat /\ SumFunction(Tail(u)) \in Nat
  <2>1. /\ Tail(u) \in Seq(Nat) /\ Len(Tail(u)) = Len(retry) - 1
        /\ Tail(v) \in Seq(Nat) /\ Len(Tail(v)) = Len(retry) - 1
        /\ \A i \in 1 .. (Len(retry) - 1) : Tail(u)[i] = u[i + 1] /\ Tail(v)[i] = v[i + 1]
    BY <1>4, <1>9, <1>10, HeadTailProperties
  <2>2. \A i \in 1 .. (Len(retry) - 1) : Tail(v)[i] <= Tail(u)[i]
    BY <1>4, <1>10, <2>1
  <2>3. /\ DOMAIN Tail(u) = 1 .. (Len(retry) - 1) /\ DOMAIN Tail(v) = 1 .. (Len(retry) - 1)
        /\ IsFiniteSet(DOMAIN Tail(u))
        /\ Tail(u) \in [DOMAIN Tail(u) -> Nat] /\ Tail(v) \in [DOMAIN Tail(v) -> Nat]
    <3>1. DOMAIN Tail(u) = 1 .. (Len(retry) - 1) /\ DOMAIN Tail(v) = 1 .. (Len(retry) - 1)
      BY <2>1
    <3>2. IsFiniteSet(DOMAIN Tail(u)) /\ Tail(u) \in [DOMAIN Tail(u) -> Nat]
      BY <2>1, SequenceSumType
    <3>3. Tail(v) \in [DOMAIN Tail(v) -> Nat]
      BY <2>1, SequenceSumType
    <3> QED BY <3>1, <3>2, <3>3
  <2>4. SumFunction(Tail(v)) <= SumFunction(Tail(u))
    BY <2>2, <2>3, SumMonotonic
  <2> QED BY <2>1, <2>4, SequenceSumType
<1>13. u[1] \in Nat /\ v[1] \in Nat
  BY <1>4, <1>9, <1>10
<1>14. Load("retry", w) = SumFunction(u) /\ Load("retry", w)' = SumFunction(v)
  BY <1>8 DEF Load, u
<1>15. Current("retry") \in Messages /\ Sooner(Current("retry")) \in Messages
  BY <1>3, <1>4, <1>6
<1> QED BY <1>6, <1>7, <1>9, <1>10, <1>11, <1>12, <1>13, <1>14, <1>15

\* Time pays for the requeue it ends a throttled sleep with.
LEMMA TickBalance ==
    ASSUME TypeOK, BusyHasHead, NEW e \in Events, NEW w, NEW due, NEW price,
           Terms(e, w, due, price), Within(e, w, due, price),
           ParkWaits, Tick
    PROVE  Balance(e, w, due, price)' >= Balance(e, w, due, price)
<1> DEFINE head == Current("retry")
           next == Sooner(head)
           source == Paid("source", e, w, due)
           was == Paid("retry", e, w, due)
           is == Paid("retry", e, w, due)'
           before == Load("retry", w)
           after == Load("retry", w)'
<1>0. "retry" \in Consumers /\ "source" \in Consumers
  BY DEF Consumers
<1>1. /\ w \in [Messages -> Nat] /\ due \in [PCs -> Int] /\ pc \in [Consumers -> PCs]
      /\ queue \in [Consumers -> Seq(Messages)]
      /\ \A m \in Messages : w[Sooner(m)] <= w[m]
  BY DEF Terms, TypeOK
<1>2. /\ queue'["source"] = queue["source"] /\ pc'["source"] = pc["source"]
      /\ pc'["retry"] = IF pc["retry"] = "park" THEN "requeue" ELSE pc["retry"]
      /\ UNCHANGED <<published, redelivered>>
  BY <1>0, <1>1 DEF Tick, history
<1>3. /\ Paid("source", e, w, due)' = source /\ Load("source", w)' = Load("source", w)
      /\ Credit(e)' = Credit(e)
  BY <1>2 DEF Paid, Current, Load, Worths, Credit
<1>4. /\ price * Credit(e) \in Nat /\ Load("source", w) \in Nat /\ before \in Nat
      /\ source \in Int /\ was \in Int
  BY <1>0, BalanceParts
<1>5. is \in Int /\ after \in Int /\ is - after >= was - before
  <2>1. CASE queue["retry"] = << >>
    <3>1. pc["retry"] = "idle" /\ pc'["retry"] = "idle"
      BY <1>0, <1>2, <2>1 DEF BusyHasHead
    <3>2. is = 0 /\ was = 0
      BY <3>1 DEF Paid
    <3>3. after = before
      <4>1. queue'["retry"] = queue["retry"]
        <5>1. /\ queue'["retry"] \in Seq(Messages) /\ DOMAIN queue'["retry"] = DOMAIN queue["retry"]
          BY <1>0, TickKeeps
        <5>2. 1 \notin DOMAIN queue["retry"]
          BY <2>1
        <5>3. queue'["retry"] # << >> => 1 \in DOMAIN queue'["retry"]
          BY <5>1
        <5> QED BY <2>1, <5>1, <5>2, <5>3
      <4> QED BY <4>1 DEF Load, Worths
    <3> QED BY <1>4, <3>2, <3>3
  <2>2. CASE queue["retry"] # << >>
    <3>1. /\ head \in Messages /\ next \in Messages /\ head' = next
          /\ after \in Nat /\ after + w[head] <= before + w[next]
      BY <1>1, <2>2, TickLoad
    <3>2. /\ w[head] \in Nat /\ w[next] \in Nat /\ w[next] <= w[head]
          /\ head.event = e /\ head.wait > 0 => w[next] <= w[head] + due["requeue"]
          /\ due["requeue"] \in Int /\ due["park"] = 0
      BY <1>1, <3>1 DEF Terms, PCs
    <3>3. next.event = head.event
      BY <3>1 DEF Messages, Sooner
    <3>4. CASE pc["retry"] = "park"
      <4>1. pc'["retry"] = "requeue" /\ head.wait > 0
        BY <1>2, <3>4 DEF ParkWaits
      <4>2. was = 0 /\ is = IF head.event = e THEN due["requeue"] ELSE 0
        BY <3>1, <3>2, <3>3, <3>4, <4>1 DEF Paid
      <4> QED BY <1>4, <3>1, <3>2, <4>1, <4>2
    <3>5. CASE pc["retry"] = "commit"
      <4>1. was = w[head] /\ is = w[next]
        BY <1>2, <3>1, <3>5 DEF Paid
      <4> QED BY <1>4, <3>1, <3>2, <4>1
    <3>6. CASE pc["retry"] \notin {"park", "commit"}
      <4>1. is = was
        BY <1>2, <3>1, <3>3, <3>6 DEF Paid
      <4> QED BY <1>4, <3>1, <3>2, <4>1
    <3> QED BY <3>4, <3>5, <3>6
  <2> QED BY <2>1, <2>2
<1>6. Balance(e, w, due, price)' = price * Credit(e) + (source + is) - (Load("source", w) + after)
  BY <1>3 DEF Balance
<1>7. Balance(e, w, due, price) = price * Credit(e) + (source + was) - (Load("source", w) + before)
  BY DEF Balance
<1> DEFINE worth == price * Credit(e)
<1>8. worth \in Nat
  BY <1>4
<1> HIDE DEF source, was, is, before, after, worth
<1> QED BY <1>4, <1>5, <1>6, <1>7, <1>8 DEF worth

-----------------------------------------------------------------------------
(* Three accounts *)

\* A message is one outcome to come.
Copy(e) == [m \in Messages |-> IF m.event = e THEN 1 ELSE 0]
NoDue == [l \in PCs |-> 0]

\* The failures a message can still cause; a runner that awaits what follows a
\* failure has caused one.
Attempts(e) ==
    [m \in Messages |-> IF m.event = e /\ m.count <= Budget THEN Budget - m.count ELSE 0]
FailureDue == [l \in PCs |-> IF l \in {"schedule", "deadLetter"} THEN 1 ELSE 0]

\* The ticks a message can still wait; a requeue is due one hop.
LadderFrom(n) == SumFunction([prior \in n .. MaxDeliveries - 1 |-> NextDelay(prior)])
Ticks(e) == [m \in Messages |-> IF m.event = e THEN m.wait + LadderFrom(m.count) ELSE 0]
HopDue == [l \in PCs |-> IF l = "requeue" THEN -1 ELSE 0]

\* The retry counts stay on the ladder, and only messages on the retry topic have one.
CountsInRange ==
    /\ \A c \in Consumers : \A i \in DOMAIN queue[c] : queue[c][i].count < Budget
    /\ \A i \in DOMAIN queue["source"] : queue["source"][i].count = 0
    /\ queue["retry"] # << >> => WithRetryTopic
    /\ \A c \in Consumers :
          pc[c] = "schedule" => WithRetryTopic /\ Current(c).count < MaxDeliveries
    /\ pc["source"] \notin {"park", "requeue"}

\* The ticks of a message and of the rest of its ladder are within a whole ladder.
WaitsInRange ==
    \A c \in Consumers : \A i \in DOMAIN queue[c] :
        queue[c][i].wait + LadderFrom(queue[c][i].count) <= LadderFrom(0)

\* No event has spent more than its balance: outcomes, failures, requeues.
OutcomesBalance == \A e \in Events : handled[e] + dlq[e] <= Balance(e, Copy(e), NoDue, 1)
FailuresBalance == \A e \in Events : failures[e] <= Balance(e, Attempts(e), FailureDue, Budget)
HopsBalance == \A e \in Events : hops[e] <= Balance(e, Ticks(e), HopDue, LadderFrom(0))

\* The ladder is finite, and one rung longer one delivery earlier.
LEMMA LadderProperties ==
    ASSUME NEW n \in Nat
    PROVE  /\ LadderFrom(n) \in Nat
           /\ n < MaxDeliveries => LadderFrom(n) = NextDelay(n) + LadderFrom(n + 1)
<1> DEFINE all == [prior \in n .. MaxDeliveries - 1 |-> NextDelay(prior)]
           rest == [prior \in n + 1 .. MaxDeliveries - 1 |-> NextDelay(prior)]
<1>1. MaxDeliveries \in Nat /\ \A prior \in Nat : NextDelay(prior) \in Nat
  BY PolicyAssumption, NextDelayProperties
<1>2. /\ DOMAIN all = n .. MaxDeliveries - 1 /\ all \in [DOMAIN all -> Nat]
      /\ IsFiniteSet(DOMAIN all)
  <2>1. IsFiniteSet(n .. MaxDeliveries - 1)
    BY <1>1, FS_Interval
  <2>2. \A prior \in n .. MaxDeliveries - 1 : NextDelay(prior) \in Nat
    BY <1>1
  <2> QED BY <2>1, <2>2
<1>3. LadderFrom(n) \in Nat
  <2> HIDE DEF all
  <2>1. SumFunction(all) \in Nat
    BY <1>2, SumType
  <2> QED BY <2>1 DEF LadderFrom, all
<1>4. ASSUME n < MaxDeliveries
      PROVE  LadderFrom(n) = NextDelay(n) + LadderFrom(n + 1)
  <2>1. n \in DOMAIN all /\ all[n] = NextDelay(n)
    BY <1>1, <1>4
  <2>2. rest = [prior \in DOMAIN all \ {n} |-> all[prior]]
    <3>1. (n .. MaxDeliveries - 1) \ {n} = n + 1 .. MaxDeliveries - 1
      BY <1>1
    <3>2. \A prior \in n + 1 .. MaxDeliveries - 1 : all[prior] = NextDelay(prior)
      BY <1>1
    <3> QED BY <3>1, <3>2
  <2> HIDE DEF all, rest
  <2>3. SumFunction(all) = all[n] + SumFunction(rest)
    BY <1>2, <2>1, <2>2, SumRemove
  <2> QED BY <2>1, <2>3 DEF LadderFrom, all, rest
<1> QED BY <1>3, <1>4

\* What the messages of the three accounts are worth keeps to the terms.
LEMMA CopyTerms ==
    ASSUME NEW e \in Events
    PROVE  Terms(e, Copy(e), NoDue, 1)
<1>1. Fresh(e) \in Messages /\ \A m \in Messages : Sooner(m) \in Messages /\ Sooner(m).event = m.event
  BY DEF Fresh, Messages, Sooner
<1>2. Copy(e) \in [Messages -> Nat] /\ NoDue \in [PCs -> Int]
  BY DEF Copy, NoDue
<1>3. \A m \in Messages : Copy(e)[m] = (IF m.event = e THEN 1 ELSE 0) /\ Copy(e)[Sooner(m)] = Copy(e)[m]
  BY <1>1 DEF Copy
<1>4. \A l \in PCs : NoDue[l] = 0
  BY DEF NoDue
<1>5. Copy(e)[Fresh(e)] <= 1
  BY <1>1, <1>3
<1> QED BY <1>2, <1>3, <1>4, <1>5 DEF Terms, PCs

LEMMA AttemptsTerms ==
    ASSUME NEW e \in Events
    PROVE  Terms(e, Attempts(e), FailureDue, Budget)
<1>1. /\ Fresh(e) \in Messages /\ Fresh(e).event = e /\ Fresh(e).count = 0
      /\ \A m \in Messages :
            Sooner(m) \in Messages /\ Sooner(m).event = m.event /\ Sooner(m).count = m.count
  BY DEF Fresh, Messages, Sooner
<1>2. Budget \in Nat
  BY BudgetProperties
<1>3. \A m \in Messages :
         Attempts(e)[m] = IF m.event = e /\ m.count <= Budget THEN Budget - m.count ELSE 0
  BY DEF Attempts
<1>4. \A m \in Messages : m.count \in Nat
  BY DEF Messages
<1>5. Attempts(e) \in [Messages -> Nat]
  BY <1>2, <1>4 DEF Attempts
<1>6. \A m \in Messages : Attempts(e)[Sooner(m)] = Attempts(e)[m]
  BY <1>1, <1>3
<1>7. Attempts(e)[Fresh(e)] <= Budget
  BY <1>1, <1>2, <1>3
<1>8. /\ FailureDue \in [PCs -> Int]
      /\ \A l \in PCs : FailureDue[l] = IF l \in {"schedule", "deadLetter"} THEN 1 ELSE 0
  BY DEF FailureDue
<1>9. \A m \in Messages : Attempts(e)[m] \in Nat
  BY <1>5
<1> QED BY <1>2, <1>3, <1>5, <1>6, <1>7, <1>8, <1>9 DEF Terms, PCs

LEMMA TicksTerms ==
    ASSUME NEW e \in Events
    PROVE  Terms(e, Ticks(e), HopDue, LadderFrom(0))
<1>1. /\ Fresh(e) \in Messages /\ Fresh(e).event = e /\ Fresh(e).count = 0 /\ Fresh(e).wait = 0
      /\ \A m \in Messages :
            /\ Sooner(m) \in Messages /\ Sooner(m).event = m.event /\ Sooner(m).count = m.count
            /\ Sooner(m).wait = IF m.wait > 0 THEN m.wait - 1 ELSE 0
  BY DEF Fresh, Messages, Sooner
<1>2. \A n \in Nat : LadderFrom(n) \in Nat
  BY LadderProperties
<1>3. \A m \in Messages : m.count \in Nat /\ m.wait \in Nat
  BY DEF Messages
<1>4. \A m \in Messages : Ticks(e)[m] = IF m.event = e THEN m.wait + LadderFrom(m.count) ELSE 0
  BY DEF Ticks
<1>5. Ticks(e) \in [Messages -> Nat]
  BY <1>2, <1>3 DEF Ticks
<1>6. Ticks(e)[Fresh(e)] <= LadderFrom(0)
  BY <1>1, <1>2, <1>4
<1>7. /\ HopDue \in [PCs -> Int]
      /\ \A l \in PCs : HopDue[l] = IF l = "requeue" THEN -1 ELSE 0
  BY DEF HopDue
<1>8. ASSUME NEW m \in Messages
      PROVE  /\ Ticks(e)[Sooner(m)] <= Ticks(e)[m]
             /\ m.wait > 0 /\ m.event = e => Ticks(e)[Sooner(m)] <= Ticks(e)[m] + (-1)
  <2>1. LadderFrom(m.count) \in Nat /\ m.wait \in Nat
    BY <1>2, <1>3
  <2>2. Ticks(e)[Sooner(m)] = IF m.event = e THEN Sooner(m).wait + LadderFrom(m.count) ELSE 0
    BY <1>1, <1>4
  <2>3. Ticks(e)[m] = IF m.event = e THEN m.wait + LadderFrom(m.count) ELSE 0
    BY <1>4
  <2> QED BY <1>1, <2>1, <2>2, <2>3
<1>9. \A m \in Messages : m.event # e => Ticks(e)[m] = 0
  BY <1>4
<1>10. LadderFrom(0) \in Nat
  BY <1>2
<1>11. /\ HopDue["idle"] = 0 /\ HopDue["park"] = 0 /\ HopDue["handle"] = 0
       /\ HopDue["schedule"] = 0 /\ HopDue["deadLetter"] = 0 /\ HopDue["requeue"] = -1
  BY <1>7 DEF PCs
<1> QED BY <1>5, <1>6, <1>7, <1>8, <1>9, <1>10, <1>11 DEF Terms

\* The heads keep within the terms of the three accounts.
LEMMA HeadsWithin ==
    ASSUME TypeOK, BusyHasHead, CountsInRange, WaitsInRange, NEW e \in Events
    PROVE  /\ Within(e, Copy(e), NoDue, 1)
           /\ Within(e, Attempts(e), FailureDue, Budget)
           /\ Within(e, Ticks(e), HopDue, LadderFrom(0))
<1>1. ASSUME NEW c \in Consumers, pc[c] # "idle", Current(c).event = e
      PROVE  /\ Current(c) \in Messages /\ Scheduled(Current(c)) \in Messages
             /\ Scheduled(Current(c)).event = e /\ Scheduled(Current(c)).count = Current(c).count + 1
             /\ Current(c).count \in Nat /\ Current(c).wait \in Nat /\ Current(c).count < Budget
             /\ Current(c).wait + LadderFrom(Current(c).count) <= LadderFrom(0)
             /\ pc[c] \in PCs
             /\ pc[c] = "schedule" => Current(c).count < MaxDeliveries
             /\ Scheduled(Current(c)).wait = NextDelay(Current(c).count)
  <2>1. Current(c) \in Messages /\ 1 \in DOMAIN queue[c] /\ Current(c) = queue[c][1]
    BY <1>1, CurrentProperties DEF BusyHasHead
  <2>2. Current(c).count < Budget /\ Current(c).wait + LadderFrom(Current(c).count) <= LadderFrom(0)
    BY <2>1 DEF CountsInRange, WaitsInRange
  <2>3. Scheduled(Current(c)).wait = NextDelay(Current(c).count)
    BY DEF Scheduled
  <2> QED BY <1>1, <2>1, <2>2, <2>3, ScheduledProperties DEF CountsInRange, Messages, TypeOK
<1>2. Budget \in Nat /\ \A n \in Nat : LadderFrom(n) \in Nat
  BY BudgetProperties, LadderProperties
<1>3. Within(e, Copy(e), NoDue, 1)
  <2>1. \A m \in Messages : m.event = e => Copy(e)[m] = 1
    BY DEF Copy
  <2>2. \A l \in PCs : NoDue[l] = 0
    BY DEF NoDue
  <2>3. "schedule" \in PCs
    BY DEF PCs
  <2> QED BY <1>1, <2>1, <2>2, <2>3 DEF Within
<1>4. Within(e, Attempts(e), FailureDue, Budget)
  <2>1. \A m \in Messages : m.event = e /\ m.count <= Budget => Attempts(e)[m] = Budget - m.count
    BY DEF Attempts
  <2>2. \A l \in PCs : FailureDue[l] = IF l \in {"schedule", "deadLetter"} THEN 1 ELSE 0
    BY DEF FailureDue
  <2>3. FailureDue["schedule"] = 1
    BY <2>2 DEF PCs
  <2>4. ASSUME NEW c \in Consumers, pc[c] # "idle", Current(c).event = e
        PROVE  /\ Attempts(e)[Current(c)] <= Budget
               /\ pc[c] # "commit" => FailureDue[pc[c]] <= Attempts(e)[Current(c)]
               /\ Attempts(e)[Scheduled(Current(c))] + FailureDue["schedule"] <= Attempts(e)[Current(c)]
    <3>1. /\ Current(c).count \in Nat /\ Current(c).count < Budget
          /\ Attempts(e)[Current(c)] = Budget - Current(c).count
      BY <1>1, <1>2, <2>1, <2>4
    <3>2. Attempts(e)[Scheduled(Current(c))] = Budget - (Current(c).count + 1)
      BY <1>1, <1>2, <2>1, <2>4, <3>1
    <3>3. FailureDue[pc[c]] <= 1
      BY <1>1, <2>2, <2>4
    <3>4. FailureDue[pc[c]] \in Int
      BY <1>1, <2>2, <2>4
    <3> QED BY <1>2, <2>3, <3>1, <3>2, <3>3, <3>4
  <2> QED BY <2>4 DEF Within
<1>5. Within(e, Ticks(e), HopDue, LadderFrom(0))
  <2>1. \A m \in Messages : m.event = e => Ticks(e)[m] = m.wait + LadderFrom(m.count)
    BY DEF Ticks
  <2>2. \A l \in PCs : HopDue[l] = IF l = "requeue" THEN -1 ELSE 0
    BY DEF HopDue
  <2>3. HopDue["schedule"] = 0
    BY <2>2 DEF PCs
  <2>4. ASSUME NEW c \in Consumers, pc[c] # "idle", Current(c).event = e
        PROVE  /\ Ticks(e)[Current(c)] <= LadderFrom(0)
               /\ pc[c] # "commit" => HopDue[pc[c]] <= Ticks(e)[Current(c)]
               /\ pc[c] = "schedule" =>
                    Ticks(e)[Scheduled(Current(c))] + HopDue["schedule"] <= Ticks(e)[Current(c)]
    <3>1. /\ Current(c).count \in Nat /\ Current(c).wait \in Nat
          /\ LadderFrom(Current(c).count) \in Nat
          /\ Ticks(e)[Current(c)] = Current(c).wait + LadderFrom(Current(c).count)
      BY <1>1, <1>2, <2>1, <2>4
    <3>2. HopDue[pc[c]] \in Int /\ HopDue[pc[c]] <= 0
      BY <1>1, <2>2, <2>4
    <3>3. ASSUME pc[c] = "schedule"
          PROVE  Ticks(e)[Scheduled(Current(c))] = LadderFrom(Current(c).count)
      <4>1. Ticks(e)[Scheduled(Current(c))]
              = NextDelay(Current(c).count) + LadderFrom(Current(c).count + 1)
        BY <1>1, <2>1, <2>4
      <4>2. Current(c).count < MaxDeliveries
        BY <1>1, <2>4, <3>3
      <4> QED BY <3>1, <4>1, <4>2, LadderProperties
    <3>4. Ticks(e)[Current(c)] <= LadderFrom(0)
      BY <1>1, <2>4, <3>1
    <3> QED BY <2>3, <3>1, <3>2, <3>3, <3>4
  <2> QED BY <2>4 DEF Within
<1> QED BY <1>3, <1>4, <1>5

-----------------------------------------------------------------------------
(* The messages stay on their ladder *)

\* Where each message of a partition comes from.
LEMMA MessagesArise ==
    ASSUME TypeOK, BusyHasHead, Next, NEW d \in Consumers, NEW i \in DOMAIN queue'[d]
    PROVE  \/ \E j \in DOMAIN queue[d] :
                queue'[d][i] = queue[d][j] \/ queue'[d][i] = Sooner(queue[d][j])
           \/ /\ \E f \in Events : queue'[d][i] = Fresh(f)
              /\ d = "source" \/ Replay
           \/ /\ d = "retry"
              /\ \E c \in Consumers :
                    \/ pc[c] = "requeue" /\ queue'[d][i] = Current(c)
                    \/ pc[c] = "schedule" /\ queue'[d][i] = Scheduled(Current(c))
<1>0. queue \in [Consumers -> Seq(Messages)] /\ "retry" \in Consumers
  BY DEF TypeOK, Consumers
<1>1. CASE queue' = queue
  BY <1>1
<1>2. ASSUME NEW f \in Events, Publish(f)
      PROVE  \/ \E j \in DOMAIN queue[d] : queue'[d][i] = queue[d][j]
             \/ queue'[d][i] = Fresh(f) /\ (d = "source" \/ Replay)
  <2>1. PICK c \in {"source"} \cup (IF Replay THEN {"retry"} ELSE {}) :
          queue' = [queue EXCEPT ![c] = Append(@, Fresh(f))]
    BY <1>2 DEF Publish, Fresh
  <2>2. c \in Consumers /\ Fresh(f) \in Messages /\ (c = "source" \/ Replay)
    BY <2>1 DEF Consumers, Fresh, Messages
  <2>3. (i \in DOMAIN queue[d] /\ queue'[d][i] = queue[d][i]) \/ (d = c /\ queue'[d][i] = Fresh(f))
    BY <2>1, <2>2, AppendKeeps
  <2> QED BY <2>2, <2>3
<1>3. CASE Tick
  <2>1. i \in DOMAIN queue[d]
    BY <1>3, TickKeeps
  <2>2. d = "retry" => queue'[d][i] = Sooner(queue[d][i])
    BY <1>0, <1>3, <2>1 DEF Tick
  <2>3. d # "retry" => queue'[d][i] = queue[d][i]
    BY <1>0, <1>3, <2>1 DEF Tick
  <2> QED BY <2>1, <2>2, <2>3
<1>4. CASE Park \/ Restart
  BY <1>1, <1>4 DEF Park, Restart
<1>5. ASSUME NEW c \in Consumers,
             ReceiveInvalid(c) \/ ReceiveDuplicate(c) \/ Receive(c)
             \/ HandlerSucceeds(c) \/ HandlerFails(c) \/ Rejects(c)
      PROVE  queue' = queue
  BY <1>5 DEF ReceiveInvalid, ReceiveDuplicate, Receive, HandlerSucceeds, HandlerFails, Rejects
<1>6. ASSUME NEW c \in Consumers, Produce(c), queue' # queue
      PROVE  \/ \E j \in DOMAIN queue[d] : queue'[d][i] = queue[d][j]
             \/ /\ d = "retry"
                /\ \/ pc[c] = "requeue" /\ queue'[d][i] = Current(c)
                   \/ pc[c] = "schedule" /\ queue'[d][i] = Scheduled(Current(c))
  <2>1. Current(c) \in Messages /\ Scheduled(Current(c)) \in Messages
    BY <1>6, CurrentProperties, ScheduledProperties DEF BusyHasHead, Produce
  <2>2. CASE pc[c] = "requeue"
    <3>1. queue' = [queue EXCEPT !["retry"] = Append(@, Current(c))]
      BY <2>2, <1>6 DEF Produce, Append1
    <3>2. (i \in DOMAIN queue[d] /\ queue'[d][i] = queue[d][i])
          \/ (d = "retry" /\ queue'[d][i] = Current(c))
      BY <1>0, <2>1, <3>1, AppendKeeps
    <3> QED BY <2>2, <3>2
  <2>3. CASE pc[c] = "schedule"
    <3>1. queue' = [queue EXCEPT !["retry"] = Append(@, Scheduled(Current(c)))]
      BY <2>3, <1>6 DEF Produce, Append1
    <3>2. (i \in DOMAIN queue[d] /\ queue'[d][i] = queue[d][i])
          \/ (d = "retry" /\ queue'[d][i] = Scheduled(Current(c)))
      BY <1>0, <2>1, <3>1, AppendKeeps
    <3> QED BY <2>3, <3>2
  <2> QED BY <1>6, <2>2, <2>3 DEF Produce
<1>7. ASSUME NEW c \in Consumers, Produced(c) \/ AckLost(c)
      PROVE  Produce(c)
  BY <1>7 DEF Produced, AckLost
<1>8. ASSUME NEW c \in Consumers, Commit(c)
      PROVE  \E j \in DOMAIN queue[d] : queue'[d][i] = queue[d][j]
  <2>1. queue[c] # << >> /\ queue' = [queue EXCEPT ![c] = Tail(@)]
    BY <1>8 DEF Commit, BusyHasHead
  <2>2. d = c => i + 1 \in DOMAIN queue[c] /\ queue'[c][i] = queue[c][i + 1]
    BY <2>1, CommitKeeps
  <2>3. d # c => queue'[d] = queue[d]
    BY <2>1, CommitKeeps
  <2> QED BY <2>2, <2>3
<1> QED
  <2>1. CASE \E f \in Events : Publish(f)
    BY <1>2, <2>1
  <2>2. CASE Tick \/ Park \/ Restart
    BY <1>3, <1>4, <2>2
  <2>3. CASE \E c \in Consumers :
                \/ ReceiveInvalid(c) \/ ReceiveDuplicate(c) \/ Receive(c)
                \/ HandlerSucceeds(c) \/ HandlerFails(c) \/ Rejects(c)
    BY <1>1, <1>5, <2>3
  <2>4. CASE \E c \in Consumers : Produced(c) \/ AckLost(c)
    BY <1>1, <1>6, <1>7, <2>4
  <2>5. CASE \E c \in Consumers : Commit(c)
    BY <1>8, <2>5
  <2> QED BY <2>1, <2>2, <2>3, <2>4, <2>5, NextCases DEF Holds

\* A head in range: its count, and where its runner may be.
LEMMA HeadInRange ==
    ASSUME TypeOK, BusyHasHead, CountsInRange, WaitsInRange,
           NEW c \in Consumers, queue[c] # << >>
    PROVE  /\ Current(c) \in Messages
           /\ Current(c).count \in Nat /\ Current(c).wait \in Nat /\ Current(c).count < Budget
           /\ c = "source" => Current(c).count = 0
           /\ c = "retry" => WithRetryTopic
           /\ Current(c).wait + LadderFrom(Current(c).count) <= LadderFrom(0)
<1>1. 1 \in DOMAIN queue[c] /\ Current(c) = queue[c][1] /\ Current(c) \in Messages
  BY CurrentProperties
<1> QED BY <1>1 DEF CountsInRange, WaitsInRange, Messages

\* The head of a runner that awaits its schedule keeps its count.
LEMMA ScheduleKeepsHead ==
    ASSUME TypeOK, BusyHasHead, Next, NEW c \in Consumers, pc[c] = "schedule", pc'[c] = "schedule"
    PROVE  Current(c)'.count = Current(c).count
<1>1. CASE Holds
  BY <1>1, MessagesStay DEF BusyHasHead
<1>2. ASSUME NEW d \in Consumers, Commit(d)
      PROVE  Current(c)' = Current(c)
  <2>1. d # c
    BY <1>2 DEF Commit
  <2> QED BY <1>2, <2>1, CommitKeeps DEF Commit, BusyHasHead, Current
<1> QED BY <1>1, <1>2, NextCases

\* CountsInRange is preserved: the last delivery of the ladder is not rescheduled.
LEMMA CountsRangeStep ==
    ASSUME TypeOK, BusyHasHead, CountsInRange, WaitsInRange, Next
    PROVE  CountsInRange'
<1>0. /\ MaxDeliveries \in Nat \ {0} /\ Budget \in Nat \ {0}
      /\ WithRetryTopic => Budget = MaxDeliveries + 1
      /\ WithRetryTopic \in BOOLEAN /\ Replay \in BOOLEAN
  BY PolicyAssumption DEF Budget
<1>1. ASSUME NEW d \in Consumers, NEW i \in DOMAIN queue'[d]
      PROVE  /\ queue'[d][i].count < Budget
             /\ d = "source" => queue'[d][i].count = 0
             /\ d = "retry" => WithRetryTopic
  <2>1. ASSUME NEW j \in DOMAIN queue[d],
               queue'[d][i] = queue[d][j] \/ queue'[d][i] = Sooner(queue[d][j])
        PROVE  /\ queue'[d][i].count < Budget
               /\ d = "source" => queue'[d][i].count = 0
               /\ d = "retry" => WithRetryTopic
    <3>1. queue[d][j] \in Messages /\ queue[d] # << >>
      BY DEF TypeOK
    <3>2. queue'[d][i].count = queue[d][j].count
      BY <2>1, <3>1 DEF Messages, Sooner
    <3> QED BY <3>1, <3>2 DEF CountsInRange
  <2>2. CASE (\E f \in Events : queue'[d][i] = Fresh(f)) /\ (d = "source" \/ Replay)
    <3>1. queue'[d][i].count = 0
      BY <2>2 DEF Fresh
    <3> QED BY <1>0, <2>2, <3>1, ReplayAssumption
  <2>3. ASSUME d = "retry", NEW c \in Consumers,
               \/ pc[c] = "requeue" /\ queue'[d][i] = Current(c)
               \/ pc[c] = "schedule" /\ queue'[d][i] = Scheduled(Current(c))
        PROVE  queue'[d][i].count < Budget /\ WithRetryTopic
    <3>1. queue[c] # << >>
      BY <2>3 DEF BusyHasHead
    <3>2. CASE pc[c] = "requeue" /\ queue'[d][i] = Current(c)
      <4>1. c = "retry"
        BY <3>2 DEF Consumers, CountsInRange
      <4> QED BY <3>1, <3>2, <4>1, HeadInRange
    <3>3. CASE pc[c] = "schedule" /\ queue'[d][i] = Scheduled(Current(c))
      <4>1. WithRetryTopic /\ Current(c).count < MaxDeliveries /\ Current(c).count \in Nat
        BY <3>1, <3>3, HeadInRange DEF CountsInRange
      <4>2. queue'[d][i].count = Current(c).count + 1
        BY <3>1, <3>3, HeadInRange, ScheduledProperties
      <4> QED BY <1>0, <4>1, <4>2
    <3> QED BY <2>3, <3>2, <3>3
  <2> QED BY <2>1, <2>2, <2>3, MessagesArise
<1>2. queue'["retry"] # << >> => WithRetryTopic
  <2>1. queue'["retry"] \in Seq(Messages) /\ "retry" \in Consumers
    BY TypeStep DEF TypeOK, Consumers
  <2>2. queue'["retry"] # << >> => 1 \in DOMAIN queue'["retry"]
    BY <2>1
  <2> QED BY <1>1, <2>1, <2>2
<1>3. ASSUME NEW c \in Consumers, pc'[c] = "schedule"
      PROVE  WithRetryTopic /\ Current(c)'.count < MaxDeliveries
  <2>1. CASE pc[c] = "schedule"
    <3>1. WithRetryTopic /\ Current(c).count < MaxDeliveries
      BY <2>1 DEF CountsInRange
    <3> QED BY <1>3, <2>1, <3>1, ScheduleKeepsHead
  <2>2. CASE HandlerFails(c)
    <3>1. /\ pc[c] = "handle" /\ queue' = queue /\ pc \in [Consumers -> PCs] /\ queue[c] # << >>
      BY <2>2 DEF HandlerFails, TypeOK, BusyHasHead
    <3>2. ~Exhausted(c)
      BY <1>3, <2>2, <3>1 DEF HandlerFails, GoTo
    <3>3. Current(c)' = Current(c)
      BY <3>1 DEF Current
    <3>4. CASE c = "source"
      BY <1>0, <3>1, <3>2, <3>3, <3>4, HeadInRange DEF Exhausted
    <3>5. CASE c = "retry"
      <4>1. ~(Current(c).count >= MaxDeliveries) /\ WithRetryTopic /\ Current(c).count \in Nat
        BY <3>1, <3>2, <3>5, HeadInRange DEF Exhausted, IsMaxRetries
      <4> QED BY <1>0, <3>3, <4>1
    <3> QED BY <3>4, <3>5 DEF Consumers
  <2> QED BY <1>3, <2>1, <2>2, OutcomeComesFrom
<1>4. pc'["source"] \notin {"park", "requeue"}
  <2>0. pc \in [Consumers -> PCs] /\ "source" \in Consumers /\ pc["source"] \notin {"park", "requeue"}
    BY DEF TypeOK, Consumers, CountsInRange
  <2>1. CASE (\E f \in Events : Publish(f)) \/ Tick \/ Park \/ Restart
    BY <2>0, <2>1 DEF Publish, Tick, Park, Restart, GoTo
  <2>2. ASSUME NEW c \in Consumers, Step(c) \/ Rejects(c) \/ AckLost(c)
        PROVE  pc'["source"] \notin {"park", "requeue"}
    BY <2>0, <2>2 DEF Step, ReceiveInvalid, ReceiveDuplicate, Receive, HandlerSucceeds,
       HandlerFails, Produced, Commit, Rejects, AckLost, GoTo
  <2> QED BY <2>1, <2>2 DEF Next
<1>5. "source" \in Consumers
  BY DEF Consumers
<1> QED BY <1>1, <1>2, <1>3, <1>4, <1>5 DEF CountsInRange

\* WaitsInRange is preserved: a rescheduled message waits the rung it leaves.
LEMMA WaitsRangeStep ==
    ASSUME TypeOK, BusyHasHead, CountsInRange, WaitsInRange, Next
    PROVE  WaitsInRange'
<1>0. \A n \in Nat : LadderFrom(n) \in Nat
  BY LadderProperties
<1>1. ASSUME NEW d \in Consumers, NEW i \in DOMAIN queue'[d]
      PROVE  queue'[d][i].wait + LadderFrom(queue'[d][i].count) <= LadderFrom(0)
  <2>1. ASSUME NEW j \in DOMAIN queue[d],
               queue'[d][i] = queue[d][j] \/ queue'[d][i] = Sooner(queue[d][j])
        PROVE  queue'[d][i].wait + LadderFrom(queue'[d][i].count) <= LadderFrom(0)
    <3>1. queue[d][j] \in Messages
      BY DEF TypeOK
    <3>2. /\ queue'[d][i].count = queue[d][j].count /\ queue[d][j].count \in Nat
          /\ queue'[d][i].wait \in Nat /\ queue[d][j].wait \in Nat
          /\ queue'[d][i].wait <= queue[d][j].wait
      BY <2>1, <3>1 DEF Messages, Sooner
    <3>3. queue[d][j].wait + LadderFrom(queue[d][j].count) <= LadderFrom(0)
      BY DEF WaitsInRange
    <3> QED BY <1>0, <3>2, <3>3
  <2>2. CASE \E f \in Events : queue'[d][i] = Fresh(f)
    BY <1>0, <2>2 DEF Fresh
  <2>3. ASSUME NEW c \in Consumers,
               \/ pc[c] = "requeue" /\ queue'[d][i] = Current(c)
               \/ pc[c] = "schedule" /\ queue'[d][i] = Scheduled(Current(c))
        PROVE  queue'[d][i].wait + LadderFrom(queue'[d][i].count) <= LadderFrom(0)
    <3>1. /\ Current(c) \in Messages /\ Current(c).count \in Nat /\ Current(c).wait \in Nat
          /\ Current(c).wait + LadderFrom(Current(c).count) <= LadderFrom(0)
      BY <2>3, HeadInRange DEF BusyHasHead
    <3>2. CASE queue'[d][i] = Current(c)
      BY <3>1, <3>2
    <3>3. CASE pc[c] = "schedule" /\ queue'[d][i] = Scheduled(Current(c))
      <4>1. Current(c).count < MaxDeliveries
        BY <3>3 DEF CountsInRange
      <4>2. LadderFrom(Current(c).count) = NextDelay(Current(c).count) + LadderFrom(Current(c).count + 1)
        BY <3>1, <4>1, LadderProperties
      <4>3. /\ queue'[d][i].count = Current(c).count + 1
            /\ queue'[d][i].wait = NextDelay(Current(c).count)
        BY <3>3 DEF Scheduled
      <4> QED BY <1>0, <3>1, <4>2, <4>3
    <3> QED BY <2>3, <3>2, <3>3
  <2> QED BY <2>1, <2>2, <2>3, MessagesArise
<1> QED BY <1>1 DEF WaitsInRange

\* ParkWaits is preserved: every tick of the clock ends the sleep.
LEMMA ParkStep ==
    ASSUME TypeOK, BusyHasHead, ParkWaits, Next
    PROVE  ParkWaits'
<1>0. pc \in [Consumers -> PCs] /\ "retry" \in Consumers /\ queue \in [Consumers -> Seq(Messages)]
  BY DEF TypeOK, Consumers
<1> SUFFICES ASSUME pc'["retry"] = "park" PROVE Current("retry")'.wait > 0
  BY DEF ParkWaits
<1>1. CASE Park
  BY <1>1 DEF Park, Current
<1>2. CASE Tick \/ Restart
  BY <1>0, <1>2 DEF Tick, Restart
<1>3. ASSUME NEW f \in Events, Publish(f)
      PROVE  Current("retry")'.wait > 0
  <2>1. PICK c \in {"source"} \cup (IF Replay THEN {"retry"} ELSE {}) :
          queue' = [queue EXCEPT ![c] = Append(@, Fresh(f))]
    BY <1>3 DEF Publish, Fresh
  <2>2. c \in Consumers /\ Fresh(f) \in Messages
    BY <2>1 DEF Consumers, Fresh, Messages
  <2>3. pc["retry"] = "park" /\ queue["retry"] # << >>
    BY <1>0, <1>3 DEF Publish, BusyHasHead
  <2>4. Current("retry")' = Current("retry")
    BY <1>0, <2>1, <2>2, <2>3, AppendKeeps
  <2> QED BY <2>3, <2>4 DEF ParkWaits
<1>4. ASSUME NEW c \in Consumers, Step(c) \/ Rejects(c) \/ AckLost(c)
      PROVE  Current("retry")'.wait > 0
  <2>1. pc["retry"] = "park" /\ queue["retry"] # << >> /\ c # "retry"
    BY <1>0, <1>4 DEF Step, ReceiveInvalid, ReceiveDuplicate, Receive, HandlerSucceeds,
       HandlerFails, Produced, Produce, Commit, Rejects, AckLost, GoTo, BusyHasHead
  <2>2. Current("retry")' = Current("retry")
    <3>1. CASE Produced(c) \/ AckLost(c)
      <4>1. Produce(c)
        BY <3>1 DEF Produced, AckLost
      <4>2. [m \in Messages |-> 0] \in [Messages -> Nat]
        OBVIOUS
      <4> QED BY <1>0, <2>1, <4>1, <4>2, ProduceLoad
    <3>2. CASE Commit(c)
      BY <1>0, <2>1, <3>2, CommitKeeps DEF Commit, BusyHasHead, Current
    <3>3. CASE ReceiveInvalid(c) \/ ReceiveDuplicate(c) \/ Receive(c) \/ HandlerSucceeds(c)
               \/ HandlerFails(c) \/ Rejects(c)
      BY <3>3 DEF ReceiveInvalid, ReceiveDuplicate, Receive, HandlerSucceeds, HandlerFails,
         Rejects, Current
    <3> QED BY <1>4, <3>1, <3>2, <3>3 DEF Step
  <2> QED BY <2>1, <2>2 DEF ParkWaits
<1> QED BY <1>1, <1>2, <1>3, <1>4 DEF Next

-----------------------------------------------------------------------------
(* No event spends more than its balance *)

\* Every step, as an account sees it.
LEMMA BalanceStep ==
    ASSUME TypeOK, BusyHasHead, ParkWaits, Next,
           NEW e \in Events, NEW w, NEW due, NEW price,
           Terms(e, w, due, price), Within(e, w, due, price)
    PROVE  \/ /\ Balance(e, w, due, price)' >= Balance(e, w, due, price)
              /\ UNCHANGED <<handled, dlq, failures, hops>>
           \/ \E c \in Consumers :
                 /\ HandlerSucceeds(c)
                 /\ Balance(e, w, due, price)' = Balance(e, w, due, price) + w[Current(c)]
           \/ \E c \in Consumers :
                 /\ HandlerFails(c)
                 /\ \E l \in {"schedule", "deadLetter"} :
                       Balance(e, w, due, price)' = Balance(e, w, due, price)
                         + (IF Current(c).event = e THEN due[l] ELSE 0)
           \/ \E c \in Consumers :
                 /\ Produced(c) \/ AckLost(c)
                 /\ Balance(e, w, due, price)' >= Balance(e, w, due, price)
                      + (IF Current(c).event # e \/ pc[c] = "schedule" THEN 0
                         ELSE IF pc[c] = "requeue" THEN -due["requeue"]
                         ELSE w[Current(c)] - due["deadLetter"])
<1>1. CASE \E f \in Events : Publish(f)
  BY <1>1, PublishBalance DEF Publish
<1>2. CASE Tick
  BY <1>2, TickBalance DEF Tick, history
<1>3. CASE Park
  BY <1>3, ReceiveBalance DEF Park, history, Consumers
<1>4. CASE Restart
  BY <1>4, RestartBalance DEF Restart
<1>5. ASSUME NEW c \in Consumers, ReceiveInvalid(c) \/ ReceiveDuplicate(c) \/ Receive(c)
      PROVE  /\ Balance(e, w, due, price)' >= Balance(e, w, due, price)
             /\ UNCHANGED <<handled, dlq, failures, hops>>
  <2>1. UNCHANGED <<handled, dlq, failures, hops>>
    BY <1>5 DEF ReceiveInvalid, ReceiveDuplicate, Receive, history
  <2> QED BY <1>5, <2>1, ReceiveBalance
<1>6. ASSUME NEW c \in Consumers, Rejects(c)
      PROVE  /\ Balance(e, w, due, price)' >= Balance(e, w, due, price)
             /\ UNCHANGED <<handled, dlq, failures, hops>>
  BY <1>6, RejectsBalance DEF Rejects
<1>7. ASSUME NEW c \in Consumers, Commit(c)
      PROVE  /\ Balance(e, w, due, price)' >= Balance(e, w, due, price)
             /\ UNCHANGED <<handled, dlq, failures, hops>>
  <2>1. Balance(e, w, due, price)' = Balance(e, w, due, price)
    BY <1>7, CommitBalance
  <2>2. Balance(e, w, due, price) \in Int
    BY BalanceParts
  <2> QED BY <1>7, <2>1, <2>2 DEF Commit, history
<1> QED
  <2>1. CASE \E c \in Consumers : HandlerSucceeds(c) \/ HandlerFails(c)
    BY <2>1, HandleBalance
  <2>2. CASE \E c \in Consumers : Produced(c) \/ AckLost(c)
    BY <2>2, ProduceBalance
  <2>3. CASE \E c \in Consumers : ReceiveInvalid(c) \/ ReceiveDuplicate(c) \/ Receive(c)
    BY <1>5, <2>3
  <2>4. CASE \E c \in Consumers : Rejects(c) \/ Commit(c)
    BY <1>6, <1>7, <2>4
  <2> QED BY <1>1, <1>2, <1>3, <1>4, <2>1, <2>2, <2>3, <2>4 DEF Next, Step

\* The balances are integers.
LEMMA BalancesType ==
    TypeOK /\ BusyHasHead /\ CountsInRange /\ WaitsInRange =>
        \A e \in Events : /\ Balance(e, Copy(e), NoDue, 1) \in Int
                          /\ Balance(e, Attempts(e), FailureDue, Budget) \in Int
                          /\ Balance(e, Ticks(e), HopDue, LadderFrom(0)) \in Int
BY CopyTerms, AttemptsTerms, TicksTerms, HeadsWithin, BalanceParts

\* The balances are integers after a step.
LEMMA BalancesTypeNext ==
    ASSUME TypeOK, BusyHasHead, CountsInRange, WaitsInRange, Next
    PROVE  \A e \in Events : /\ Balance(e, Copy(e), NoDue, 1)' \in Int
                             /\ Balance(e, Attempts(e), FailureDue, Budget)' \in Int
                             /\ Balance(e, Ticks(e), HopDue, LadderFrom(0))' \in Int
<1>1. TypeOK' /\ BusyHasHead' /\ CountsInRange' /\ WaitsInRange'
  BY TypeStep, BusyStep, CountsRangeStep, WaitsRangeStep
<1>2. (TypeOK /\ BusyHasHead /\ CountsInRange /\ WaitsInRange =>
        \A e \in Events : /\ Balance(e, Copy(e), NoDue, 1) \in Int
                          /\ Balance(e, Attempts(e), FailureDue, Budget) \in Int
                          /\ Balance(e, Ticks(e), HopDue, LadderFrom(0)) \in Int)'
  BY BalancesType, PTL
<1> QED BY <1>1, <1>2

\* A bump counts for its own event only.
LEMMA BumpAt ==
    ASSUME NEW tally \in [Events -> Nat], NEW f \in Events, NEW e \in Events
    PROVE  /\ Bump(tally, f)[e] = tally[e] + (IF f = e THEN 1 ELSE 0)
           /\ tally[e] \in Nat
BY DEF Bump

\* OutcomesBalance is preserved: an outcome is paid when the head gets it.
LEMMA OutcomesStep ==
    ASSUME TypeOK, BusyHasHead, CountsInRange, WaitsInRange, ParkWaits, OutcomesBalance, Next
    PROVE  OutcomesBalance'
<1> SUFFICES ASSUME NEW e \in Events
             PROVE  handled'[e] + dlq'[e] <= Balance(e, Copy(e), NoDue, 1)'
  BY DEF OutcomesBalance
<1> DEFINE B == Balance(e, Copy(e), NoDue, 1)
<1>1. Terms(e, Copy(e), NoDue, 1) /\ Within(e, Copy(e), NoDue, 1)
  BY CopyTerms, HeadsWithin
<1>3. B \in Int /\ B' \in Int
  BY BalancesType, BalancesTypeNext
<1>4. /\ handled \in [Events -> Nat] /\ dlq \in [Events -> Nat]
      /\ handled[e] \in Nat /\ dlq[e] \in Nat /\ handled[e] + dlq[e] <= B
  BY DEF TypeOK, OutcomesBalance
<1>5. ASSUME NEW c \in Consumers, pc[c] # "idle"
      PROVE  /\ Current(c) \in Messages /\ Current(c).event \in Events
             /\ Copy(e)[Current(c)] = (IF Current(c).event = e THEN 1 ELSE 0)
  BY <1>5, CurrentProperties DEF BusyHasHead, Messages, Copy
<1>6. NoDue["requeue"] = 0 /\ NoDue["schedule"] = 0 /\ NoDue["deadLetter"] = 0
  BY DEF NoDue, PCs
<1> HIDE DEF B
<1>7. CASE B' >= B /\ UNCHANGED <<handled, dlq, failures, hops>>
  BY <1>3, <1>4, <1>7 DEF B
<1>8. ASSUME NEW c \in Consumers, HandlerSucceeds(c), B' = B + Copy(e)[Current(c)]
      PROVE  handled'[e] + dlq'[e] <= B'
  <2>1. pc[c] # "idle" /\ handled' = Bump(handled, Current(c).event) /\ dlq' = dlq
    BY <1>8 DEF HandlerSucceeds
  <2>2. handled'[e] = handled[e] + (IF Current(c).event = e THEN 1 ELSE 0)
    BY <1>4, <1>5, <2>1, BumpAt
  <2> QED BY <1>3, <1>4, <1>5, <1>8, <2>1, <2>2
<1>9. ASSUME NEW c \in Consumers, HandlerFails(c), NEW l \in {"schedule", "deadLetter"},
             B' = B + (IF Current(c).event = e THEN NoDue[l] ELSE 0)
      PROVE  handled'[e] + dlq'[e] <= B'
  BY <1>3, <1>4, <1>6, <1>9 DEF HandlerFails
<1>10. ASSUME NEW c \in Consumers, Produced(c) \/ AckLost(c),
              B' >= B + (IF Current(c).event # e \/ pc[c] = "schedule" THEN 0
                         ELSE IF pc[c] = "requeue" THEN -NoDue["requeue"]
                         ELSE Copy(e)[Current(c)] - NoDue["deadLetter"])
       PROVE  handled'[e] + dlq'[e] <= B'
  <2>1. Produce(c) /\ handled' = handled
    BY <1>10 DEF Produced, AckLost
  <2>2. CASE pc[c] \in {"requeue", "schedule"} /\ dlq' = dlq
    BY <1>3, <1>4, <1>6, <1>10, <2>1, <2>2
  <2>3. CASE pc[c] = "deadLetter" /\ dlq' = Bump(dlq, Current(c).event)
    <3>1. dlq'[e] = dlq[e] + (IF Current(c).event = e THEN 1 ELSE 0)
      BY <1>4, <1>5, <2>3, BumpAt
    <3> QED BY <1>3, <1>4, <1>5, <1>6, <1>10, <2>1, <2>3, <3>1
  <2> QED BY <2>1, <2>2, <2>3, ProduceOutcome
<1> QED BY <1>1, <1>7, <1>8, <1>9, <1>10, BalanceStep DEF B

\* FailuresBalance is preserved: a failure is owed until its produce is in, and
\* the message it schedules can cause one failure less.
LEMMA FailuresStep ==
    ASSUME TypeOK, BusyHasHead, CountsInRange, WaitsInRange, ParkWaits, FailuresBalance, Next
    PROVE  FailuresBalance'
<1> SUFFICES ASSUME NEW e \in Events
             PROVE  failures'[e] <= Balance(e, Attempts(e), FailureDue, Budget)'
  BY DEF FailuresBalance
<1> DEFINE B == Balance(e, Attempts(e), FailureDue, Budget)
<1>1. Terms(e, Attempts(e), FailureDue, Budget) /\ Within(e, Attempts(e), FailureDue, Budget)
  BY AttemptsTerms, HeadsWithin
<1>3. B \in Int /\ B' \in Int
  BY BalancesType, BalancesTypeNext
<1>4. failures \in [Events -> Nat] /\ failures[e] \in Nat /\ failures[e] <= B
  BY DEF TypeOK, FailuresBalance
<1>5. ASSUME NEW c \in Consumers, pc[c] # "idle"
      PROVE  /\ Current(c) \in Messages /\ Current(c).event \in Events
             /\ Attempts(e)[Current(c)] \in Nat
             /\ Current(c).event = e => Attempts(e)[Current(c)] >= 1
  <2>1. Current(c).count < Budget /\ Current(c) \in Messages /\ Current(c).count \in Nat
    BY <1>5, HeadInRange DEF BusyHasHead
  <2> QED BY <2>1, BudgetProperties DEF Attempts, Messages
<1>6. FailureDue["requeue"] = 0 /\ FailureDue["schedule"] = 1 /\ FailureDue["deadLetter"] = 1
  BY DEF FailureDue, PCs
<1> HIDE DEF B
<1>7. CASE B' >= B /\ UNCHANGED <<handled, dlq, failures, hops>>
  BY <1>3, <1>4, <1>7 DEF B
<1>8. ASSUME NEW c \in Consumers, HandlerSucceeds(c), B' = B + Attempts(e)[Current(c)]
      PROVE  failures'[e] <= B'
  BY <1>3, <1>4, <1>5, <1>8 DEF HandlerSucceeds
<1>9. ASSUME NEW c \in Consumers, HandlerFails(c), NEW l \in {"schedule", "deadLetter"},
             B' = B + (IF Current(c).event = e THEN FailureDue[l] ELSE 0)
      PROVE  failures'[e] <= B'
  <2>1. pc[c] # "idle" /\ failures' = Bump(failures, Current(c).event)
    BY <1>9 DEF HandlerFails
  <2>2. failures'[e] = failures[e] + (IF Current(c).event = e THEN 1 ELSE 0)
    BY <1>4, <1>5, <2>1, BumpAt
  <2>3. FailureDue[l] = 1
    BY <1>6
  <2> QED BY <1>3, <1>4, <1>9, <2>2, <2>3
<1>10. ASSUME NEW c \in Consumers, Produced(c) \/ AckLost(c),
              B' >= B + (IF Current(c).event # e \/ pc[c] = "schedule" THEN 0
                         ELSE IF pc[c] = "requeue" THEN -FailureDue["requeue"]
                         ELSE Attempts(e)[Current(c)] - FailureDue["deadLetter"])
       PROVE  failures'[e] <= B'
  <2>1. Produce(c) /\ failures' = failures
    BY <1>10 DEF Produced, AckLost
  <2>2. pc[c] # "idle"
    BY <2>1 DEF Produce
  <2>3. B' >= B
    BY <1>3, <1>5, <1>6, <1>10, <2>2
  <2> QED BY <1>3, <1>4, <2>1, <2>3
<1> QED BY <1>1, <1>7, <1>8, <1>9, <1>10, BalanceStep DEF B

\* HopsBalance is preserved: a requeue is paid with the tick that ended its sleep.
LEMMA HopsStep ==
    ASSUME TypeOK, BusyHasHead, CountsInRange, WaitsInRange, ParkWaits, HopsBalance, Next
    PROVE  HopsBalance'
<1> SUFFICES ASSUME NEW e \in Events
             PROVE  hops'[e] <= Balance(e, Ticks(e), HopDue, LadderFrom(0))'
  BY DEF HopsBalance
<1> DEFINE B == Balance(e, Ticks(e), HopDue, LadderFrom(0))
<1>1. Terms(e, Ticks(e), HopDue, LadderFrom(0)) /\ Within(e, Ticks(e), HopDue, LadderFrom(0))
  BY TicksTerms, HeadsWithin
<1>3. B \in Int /\ B' \in Int
  BY BalancesType, BalancesTypeNext
<1>4. hops \in [Events -> Nat] /\ hops[e] \in Nat /\ hops[e] <= B
  BY DEF TypeOK, HopsBalance
<1>5. ASSUME NEW c \in Consumers, pc[c] # "idle"
      PROVE  /\ Current(c) \in Messages /\ Current(c).event \in Events
             /\ Ticks(e)[Current(c)] \in Nat
  <2>1. Current(c) \in Messages
    BY <1>5, CurrentProperties DEF BusyHasHead
  <2>2. Ticks(e) \in [Messages -> Nat]
    BY TicksTerms DEF Terms
  <2> QED BY <2>1, <2>2 DEF Messages
<1>6. HopDue["requeue"] = -1 /\ HopDue["schedule"] = 0 /\ HopDue["deadLetter"] = 0
  BY DEF HopDue, PCs
<1> HIDE DEF B
<1>7. CASE B' >= B /\ UNCHANGED <<handled, dlq, failures, hops>>
  BY <1>3, <1>4, <1>7 DEF B
<1>8. ASSUME NEW c \in Consumers, HandlerSucceeds(c), B' = B + Ticks(e)[Current(c)]
      PROVE  hops'[e] <= B'
  BY <1>3, <1>4, <1>5, <1>8 DEF HandlerSucceeds
<1>9. ASSUME NEW c \in Consumers, HandlerFails(c), NEW l \in {"schedule", "deadLetter"},
             B' = B + (IF Current(c).event = e THEN HopDue[l] ELSE 0)
      PROVE  hops'[e] <= B'
  BY <1>3, <1>4, <1>6, <1>9 DEF HandlerFails
<1>10. ASSUME NEW c \in Consumers, Produced(c) \/ AckLost(c),
              B' >= B + (IF Current(c).event # e \/ pc[c] = "schedule" THEN 0
                         ELSE IF pc[c] = "requeue" THEN -HopDue["requeue"]
                         ELSE Ticks(e)[Current(c)] - HopDue["deadLetter"])
       PROVE  hops'[e] <= B'
  <2>1. Produce(c)
    BY <1>10 DEF Produced, AckLost
  <2>2. pc[c] # "idle"
    BY <2>1 DEF Produce
  <2>3. CASE pc[c] = "requeue" /\ hops' = Bump(hops, Current(c).event)
    <3>1. hops'[e] = hops[e] + (IF Current(c).event = e THEN 1 ELSE 0)
      BY <1>4, <1>5, <2>2, <2>3, BumpAt
    <3>2. B' >= B + (IF Current(c).event = e THEN 1 ELSE 0)
      BY <1>3, <1>6, <1>10, <2>3
    <3> QED BY <1>3, <1>4, <3>1, <3>2
  <2>4. CASE pc[c] # "requeue" /\ hops' = hops
    <3>1. B' >= B
      BY <1>3, <1>5, <1>6, <1>10, <2>2, <2>4
    <3> QED BY <1>3, <1>4, <2>4, <3>1
  <2>5. pc[c] = "requeue" => hops' = Bump(hops, Current(c).event)
    BY <2>1 DEF Produce
  <2>6. pc[c] # "requeue" => hops' = hops
    BY <2>1 DEF Produce
  <2> QED BY <2>3, <2>4, <2>5, <2>6
<1> QED BY <1>1, <1>7, <1>8, <1>9, <1>10, BalanceStep DEF B

-----------------------------------------------------------------------------
(* The dlqTotal metric *)

\* The runners that await a write to the dead-letter topic.
Writing == {c \in Consumers : pc[c] = "deadLetter"}

\* Totals are naturals, and a bump raises them by one.
LEMMA TotalBump ==
    ASSUME NEW tally \in [Events -> Nat], NEW e \in Events
    PROVE  Total(Bump(tally, e)) = Total(tally) + 1 /\ Total(tally) \in Nat
BY EventsAssumption, SumBump, SumType DEF Total, Bump

\* A runner that moves leaves the other one where it is.
LEMMA WritingMoves ==
    ASSUME TypeOK, NEW c \in Consumers, NEW l \in PCs, GoTo(c, l)
    PROVE  /\ Cardinality(Writing) \in Nat /\ Cardinality(Writing') \in Nat
           /\ Cardinality(Writing') = Cardinality(Writing)
                - (IF pc[c] = "deadLetter" THEN 1 ELSE 0) + (IF l = "deadLetter" THEN 1 ELSE 0)
<1>1. pc' = [pc EXCEPT ![c] = l] /\ pc \in [Consumers -> PCs]
  BY DEF GoTo, TypeOK
<1>2. \A d \in Consumers : (d \in Writing <=> pc[d] = "deadLetter")
                           /\ (d \in Writing' <=> pc'[d] = "deadLetter")
  BY DEF Writing
<1>3. Writing \subseteq Consumers /\ Writing' \subseteq Consumers
  BY DEF Writing
<1> HIDE DEF Writing
<1>4. Cardinality(Writing) = (IF "source" \in Writing THEN 1 ELSE 0)
                              + (IF "retry" \in Writing THEN 1 ELSE 0)
  BY <1>3, RunnerCount
<1>5. Cardinality(Writing') = (IF "source" \in Writing' THEN 1 ELSE 0)
                               + (IF "retry" \in Writing' THEN 1 ELSE 0)
  BY <1>3, RunnerCount
<1>6. CASE c = "source"
  BY <1>1, <1>2, <1>4, <1>5, <1>6 DEF Consumers
<1>7. CASE c = "retry"
  BY <1>1, <1>2, <1>4, <1>5, <1>7 DEF Consumers
<1> QED BY <1>6, <1>7 DEF Consumers

\* MetricCountsAttempts is preserved: every increment is followed by a runner
\* that awaits its write, and that write is applied or ends without a commit.
LEMMA MetricStep ==
    ASSUME TypeOK, BusyHasHead, MetricCountsAttempts, Next
    PROVE  MetricCountsAttempts'
<1> DEFINE written == Total(dlq)
           lost == Total(redelivered)
           awaited == Cardinality(Writing)
<1>1. /\ dlq \in [Events -> Nat] /\ redelivered \in [Events -> Nat]
      /\ dlq' \in [Events -> Nat] /\ redelivered' \in [Events -> Nat]
      /\ pc \in [Consumers -> PCs] /\ dlqTotal \in Nat
  BY TypeStep DEF TypeOK
<1>2. written \in Nat /\ lost \in Nat /\ written' \in Nat /\ lost' \in Nat
  BY <1>1, EventsAssumption, SumType DEF Total
<1>3. awaited \in Nat /\ awaited' \in Nat
  <2>1. Writing \subseteq Consumers /\ Writing' \subseteq Consumers
    BY DEF Writing
  <2> QED BY <2>1, RunnerCount
<1>4. dlqTotal <= written + lost + awaited
  BY DEF MetricCountsAttempts, Writing
<1> SUFFICES dlqTotal' <= written' + lost' + awaited'
  BY DEF MetricCountsAttempts, Writing
<1>5. ASSUME NEW c \in Consumers, pc[c] # "idle"
      PROVE  Current(c).event \in Events
  BY <1>5, CurrentProperties DEF BusyHasHead, Messages
<1>6. UNCHANGED <<dlq, redelivered>> => written' = written /\ lost' = lost
  BY DEF Total
<1> HIDE DEF written, lost, awaited
<1>7. CASE \E f \in Events : Publish(f)
  <2>1. UNCHANGED <<pc, dlqTotal, dlq, redelivered>>
    BY <1>7 DEF Publish
  <2>2. awaited' = awaited
    BY <2>1 DEF awaited, Writing
  <2> QED BY <1>4, <1>6, <2>1, <2>2
<1>8. CASE Tick \/ Park
  <2>1. UNCHANGED <<dlqTotal, dlq, redelivered>>
    BY <1>8 DEF Tick, Park, history
  <2>2. \A c \in Consumers : pc'[c] = "deadLetter" <=> pc[c] = "deadLetter"
    BY <1>1, <1>8 DEF Tick, Park, GoTo
  <2>3. awaited' = awaited
    <3>1. Writing' = Writing
      BY <2>2 DEF Writing
    <3> QED BY <3>1 DEF awaited
  <2> QED BY <1>4, <1>6, <2>1, <2>3
<1>9. CASE Restart
  <2>1. dlqTotal' = 0
    BY <1>9 DEF Restart
  <2>2. written' \in Nat /\ lost' \in Nat /\ awaited' \in Nat
    BY <1>2, <1>3
  <2>3. \A a, b, d \in Nat : 0 <= a + b + d
    OBVIOUS
  <2>4. 0 <= written' + lost' + awaited'
    BY <2>2, <2>3
  <2> QED BY <2>1, <2>4
<1>10. ASSUME NEW c \in Consumers, NEW l \in PCs, GoTo(c, l),
              UNCHANGED <<dlq, redelivered>>, pc[c] # "deadLetter",
              dlqTotal' = dlqTotal + (IF l = "deadLetter" THEN 1 ELSE 0)
       PROVE  dlqTotal' <= written' + lost' + awaited'
  <2>1. awaited' = awaited + (IF l = "deadLetter" THEN 1 ELSE 0)
    BY <1>3, <1>10, WritingMoves DEF awaited
  <2> QED BY <1>1, <1>2, <1>3, <1>4, <1>6, <1>10, <2>1
<1>11. ASSUME NEW c \in Consumers,
              ReceiveInvalid(c) \/ ReceiveDuplicate(c) \/ Receive(c)
              \/ HandlerSucceeds(c) \/ HandlerFails(c) \/ Commit(c)
       PROVE  dlqTotal' <= written' + lost' + awaited'
  <2>1. \E l \in PCs : /\ GoTo(c, l) /\ UNCHANGED <<dlq, redelivered>> /\ pc[c] # "deadLetter"
                       /\ dlqTotal' = dlqTotal + (IF l = "deadLetter" THEN 1 ELSE 0)
    BY <1>1, <1>11 DEF ReceiveInvalid, ReceiveDuplicate, Receive, HandlerSucceeds, HandlerFails,
       Commit, PCs, history
  <2> QED BY <1>10, <2>1
<1>12. ASSUME NEW c \in Consumers, pc[c] # "idle", Rejects(c) \/ AckLost(c)
       PROVE  lost' = lost + 1
  <2>1. redelivered' = Bump(redelivered, Current(c).event)
    BY <1>12 DEF Rejects, AckLost
  <2> QED BY <1>1, <1>5, <1>12, <2>1, TotalBump DEF lost
<1>13. ASSUME NEW c \in Consumers, Produce(c)
       PROVE  written' = written + (IF pc[c] = "deadLetter" THEN 1 ELSE 0)
  <2>1. CASE pc[c] = "deadLetter"
    <3>1. dlq' = Bump(dlq, Current(c).event)
      BY <1>13, <2>1 DEF Produce
    <3> QED BY <1>1, <1>5, <2>1, <3>1, TotalBump DEF written
  <2>2. CASE pc[c] # "deadLetter"
    <3>1. dlq' = dlq
      BY <1>13, <2>2 DEF Produce
    <3> QED BY <1>2, <2>2, <3>1 DEF written, Total
  <2> QED BY <2>1, <2>2
<1>14. ASSUME NEW c \in Consumers, Produced(c)
       PROVE  dlqTotal' <= written' + lost' + awaited'
  <2>1. Produce(c) /\ GoTo(c, "commit") /\ UNCHANGED <<dlqTotal, redelivered>>
    BY <1>14 DEF Produced
  <2>2. awaited' = awaited - (IF pc[c] = "deadLetter" THEN 1 ELSE 0)
    BY <1>3, <2>1, WritingMoves DEF awaited, PCs
  <2>3. lost' = lost
    BY <2>1 DEF lost, Total
  <2>4. written' = written + (IF pc[c] = "deadLetter" THEN 1 ELSE 0)
    BY <1>13, <2>1
  <2> QED BY <1>1, <1>2, <1>3, <1>4, <2>1, <2>2, <2>3, <2>4
<1>15. ASSUME NEW c \in Consumers, AckLost(c)
       PROVE  dlqTotal' <= written' + lost' + awaited'
  <2>1. Produce(c) /\ GoTo(c, "idle") /\ dlqTotal' = dlqTotal
    BY <1>15 DEF AckLost
  <2>2. awaited' = awaited - (IF pc[c] = "deadLetter" THEN 1 ELSE 0)
    BY <1>3, <2>1, WritingMoves DEF awaited, PCs
  <2>3. lost' = lost + 1
    BY <1>12, <1>15, <2>1 DEF Produce
  <2>4. written' = written + (IF pc[c] = "deadLetter" THEN 1 ELSE 0)
    BY <1>13, <2>1
  <2> QED BY <1>1, <1>2, <1>3, <1>4, <2>1, <2>2, <2>3, <2>4
<1>16. ASSUME NEW c \in Consumers, Rejects(c)
       PROVE  dlqTotal' <= written' + lost' + awaited'
  <2>1. GoTo(c, "idle") /\ UNCHANGED <<dlqTotal, dlq>> /\ pc[c] # "idle"
    BY <1>16 DEF Rejects
  <2>2. awaited' = awaited - (IF pc[c] = "deadLetter" THEN 1 ELSE 0)
    BY <1>3, <2>1, WritingMoves DEF awaited, PCs
  <2>3. lost' = lost + 1 /\ written' = written
    BY <1>12, <1>16, <2>1 DEF written, Total
  <2> QED BY <1>1, <1>2, <1>3, <1>4, <2>1, <2>2, <2>3
<1> QED BY <1>7, <1>8, <1>9, <1>11, <1>14, <1>15, <1>16 DEF Next, Step

-----------------------------------------------------------------------------
(* The invariant of the counts *)

CountInv ==
    /\ CountsInRange /\ WaitsInRange /\ ParkWaits
    /\ OutcomesBalance /\ FailuresBalance /\ HopsBalance
    /\ MetricCountsAttempts

\* Nothing is published, so nothing is owed or spent.
LEMMA InitCounts == Init => CountInv
<1> SUFFICES ASSUME Init PROVE CountInv
  OBVIOUS
<1>1. /\ \A c \in Consumers : queue[c] = << >> /\ pc[c] = "idle"
      /\ "source" \in Consumers /\ "retry" \in Consumers
  BY DEF Init, Consumers
<1>2. CountsInRange /\ WaitsInRange /\ ParkWaits
  BY <1>1 DEF CountsInRange, WaitsInRange, ParkWaits
<1>3. TypeOK /\ BusyHasHead
  BY InitInv DEF IInv
<1>4. ASSUME NEW e \in Events, NEW w, NEW due, NEW price, Terms(e, w, due, price)
      PROVE  Balance(e, w, due, price) = 0
  <2>1. Credit(e) = 0
    BY DEF Init, Zero, Credit
  <2>2. Load("source", w) = 0 /\ Load("retry", w) = 0
    BY <1>1, <1>3, <1>4, WorthsProperties DEF Terms
  <2>3. Paid("source", e, w, due) = 0 /\ Paid("retry", e, w, due) = 0
    BY <1>1 DEF Paid
  <2>4. price \in Nat
    BY <1>4 DEF Terms
  <2> QED BY <2>1, <2>2, <2>3, <2>4 DEF Balance
<1>5. \A e \in Events : handled[e] = 0 /\ dlq[e] = 0 /\ failures[e] = 0 /\ hops[e] = 0
  BY DEF Init, Zero
<1>6. OutcomesBalance /\ FailuresBalance /\ HopsBalance
  BY <1>4, <1>5, CopyTerms, AttemptsTerms, TicksTerms
     DEF OutcomesBalance, FailuresBalance, HopsBalance
<1>7. MetricCountsAttempts
  <2>1. dlqTotal = 0
    BY DEF Init
  <2>2. Total(dlq) \in Nat /\ Total(redelivered) \in Nat
    BY <1>3, EventsAssumption, SumType DEF TypeOK, Total
  <2>3. Cardinality(Writing) \in Nat
    <3>1. Writing \subseteq Consumers
      BY DEF Writing
    <3> QED BY <3>1, RunnerCount
  <2> QED BY <2>1, <2>2, <2>3 DEF MetricCountsAttempts, Writing
<1> QED BY <1>2, <1>6, <1>7 DEF CountInv

\* Every step keeps the counts within the balances.
LEMMA StepCounts == IInv /\ CountInv /\ [Next]_vars => CountInv'
<1> SUFFICES ASSUME IInv, CountInv, [Next]_vars PROVE CountInv'
  OBVIOUS
<1>1. CASE Next
  <2>1. TypeOK /\ BusyHasHead
    BY DEF IInv
  <2>2. CountsInRange' /\ WaitsInRange' /\ ParkWaits'
    BY <1>1, <2>1, CountsRangeStep, WaitsRangeStep, ParkStep DEF CountInv
  <2>3. OutcomesBalance' /\ FailuresBalance' /\ HopsBalance'
    BY <1>1, <2>1, OutcomesStep, FailuresStep, HopsStep DEF CountInv
  <2>4. MetricCountsAttempts'
    BY <1>1, <2>1, MetricStep DEF CountInv
  <2> QED BY <2>2, <2>3, <2>4 DEF CountInv
<1>2. CASE UNCHANGED vars
  BY <1>2 DEF CountInv, CountsInRange, WaitsInRange, ParkWaits, OutcomesBalance,
     FailuresBalance, HopsBalance, Balance, Credit, Paid, Load, Worths,
     MetricCountsAttempts, Current, Total, vars, history
<1> QED BY <1>1, <1>2

\* The counts are within the balances in every reachable state.
LEMMA CountsAreInductive == Spec => []CountInv
<1>1. Init => CountInv
  BY InitCounts
<1>2. IInv /\ CountInv /\ [Next]_vars => CountInv'
  BY StepCounts
<1> QED BY <1>1, <1>2, Inductive, PTL DEF Spec

\* What the balances say of the counts themselves.
LEMMA CountsAreCovered ==
    IInv /\ CountInv => OneOutcomePerDelivery /\ RetriesAreBounded /\ HopsAreThrottled
<1> SUFFICES ASSUME IInv, CountInv, NEW e \in Events
             PROVE  /\ handled[e] + dlq[e] <= Credit(e)
                    /\ failures[e] <= Budget * Credit(e)
                    /\ hops[e] <= LadderFrom(0) * Credit(e)
  BY DEF OneOutcomePerDelivery, RetriesAreBounded, HopsAreThrottled, Credit, LadderFrom
<1>1. TypeOK /\ BusyHasHead /\ CountsInRange /\ WaitsInRange
  BY DEF IInv, CountInv
<1>2. /\ published[e] \in Nat /\ redelivered[e] \in Nat /\ handled[e] \in Nat /\ dlq[e] \in Nat
      /\ failures[e] \in Nat /\ hops[e] \in Nat
  <2>1. \A tally \in {dlq, published, redelivered, handled, failures, hops} :
          tally \in [Events -> Nat]
    BY <1>1 DEF TypeOK
  <2> QED BY <2>1
<1>3. Credit(e) \in Nat /\ LadderFrom(0) \in Nat /\ Budget \in Nat
  BY <1>2, BudgetProperties, LadderProperties DEF Credit
<1>4. ASSUME NEW w, NEW due, NEW price \in Nat, NEW n \in Nat,
             Terms(e, w, due, price), Within(e, w, due, price), n <= Balance(e, w, due, price)
      PROVE  n <= price * Credit(e)
  <2>1. Balance(e, w, due, price) \in Int /\ price * Credit(e) \in Nat
    BY <1>1, <1>4, BalanceParts
  <2>2. Balance(e, w, due, price) <= price * Credit(e)
    BY <1>1, <1>4, BalanceIsCovered
  <2> QED BY <1>4, <2>1, <2>2
<1>5. handled[e] + dlq[e] <= 1 * Credit(e)
  <2>1. handled[e] + dlq[e] \in Nat
    BY <1>2
  <2>2. handled[e] + dlq[e] <= Balance(e, Copy(e), NoDue, 1)
    BY DEF CountInv, OutcomesBalance
  <2> QED BY <1>1, <1>4, <2>1, <2>2, CopyTerms, HeadsWithin
<1>6. failures[e] <= Budget * Credit(e)
  <2>1. failures[e] <= Balance(e, Attempts(e), FailureDue, Budget)
    BY DEF CountInv, FailuresBalance
  <2> QED BY <1>1, <1>2, <1>3, <1>4, <2>1, AttemptsTerms, HeadsWithin
<1>7. hops[e] <= LadderFrom(0) * Credit(e)
  <2>1. hops[e] <= Balance(e, Ticks(e), HopDue, LadderFrom(0))
    BY DEF CountInv, HopsBalance
  <2> QED BY <1>1, <1>2, <1>3, <1>4, <2>1, TicksTerms, HeadsWithin
<1> QED BY <1>3, <1>5, <1>6, <1>7

\* Each copy of an event, and each delivery of it that ends without a commit, adds
\* at most one outcome, for any events, policy, replays and faults: the code
\* commits or requeues a message, never both without a credit.
THEOREM OutcomesAreCounted == Spec => []OneOutcomePerDelivery
<1>1. IInv /\ CountInv => OneOutcomePerDelivery
  BY CountsAreCovered
<1> QED BY <1>1, Inductive, CountsAreInductive, PTL

\* Retries end: an event fails at most once per delivery of the ladders its copies
\* and redeliveries buy, since isMaxRetries ends each ladder in the dead-letter topic.
THEOREM RetriesEnd == Spec => []RetriesAreBounded
<1>1. IInv /\ CountInv => RetriesAreBounded
  BY CountsAreCovered
<1> QED BY <1>1, Inductive, CountsAreInductive, PTL

\* The throttled sleep keeps a parked message from spinning: the requeues of an
\* event are at most the ticks of delay of the ladders it has bought.
THEOREM ParkingIsThrottled == Spec => []HopsAreThrottled
<1>1. IInv /\ CountInv => HopsAreThrottled
  BY CountsAreCovered
<1> QED BY <1>1, Inductive, CountsAreInductive, PTL

\* The dlqTotal metric of a process exceeds the dead-letter topic by no more than
\* the writes in progress and the deliveries that ended without a commit.
THEOREM MetricIsBounded == Spec => []MetricCountsAttempts
<1>1. CountInv => MetricCountsAttempts
  BY DEF CountInv
<1> QED BY <1>1, CountsAreInductive, PTL
=============================================================================
