---------------------------- MODULE EngineProofs ----------------------------
(***************************************************************************)
(* Proofs about the matching engine, for every set of tickets, any clock,  *)
(* any number of calls, and whether or not clients reuse ids.              *)
(***************************************************************************)
EXTENDS EngineProperties, SequenceTheorems, FiniteSetTheorems, WellFoundedInduction, TLAPS

-----------------------------------------------------------------------------
(* Queues in which nothing stands twice, under the engine's deque operations *)
(* (pollFirst, addLast, and remove of one element), induction over a finite  *)
(* set, and what a sum over a finite set is and how it changes.              *)

\* pollFirst: the head leaves and the others stay, each once.
LEMMA TailOfQueue ==
    ASSUME NEW S, NEW q \in Seq(S), q # <<>>, IsInjective(q)
    PROVE  /\ Tail(q) \in Seq(S) /\ IsInjective(Tail(q))
           /\ Head(q) \in Range(q)
           /\ Range(Tail(q)) = Range(q) \ {Head(q)}
<1>1. /\ Tail(q) \in Seq(S) /\ Len(Tail(q)) = Len(q) - 1 /\ Len(q) \in Nat \ {0}
      /\ \A i \in 1 .. Len(q) - 1 : Tail(q)[i] = q[i+1]
      /\ Head(q) = q[1]
  OBVIOUS
<1>2. DOMAIN q = 1 .. Len(q) /\ DOMAIN Tail(q) = 1 .. Len(q) - 1
  BY <1>1
<1>3. IsInjective(Tail(q))
  <2> SUFFICES ASSUME NEW i \in 1 .. Len(q) - 1, NEW j \in 1 .. Len(q) - 1,
                      Tail(q)[i] = Tail(q)[j]
               PROVE  i = j
    BY <1>2 DEF IsInjective
  <2>1. q[i+1] = q[j+1] /\ i+1 \in DOMAIN q /\ j+1 \in DOMAIN q
    BY <1>1, <1>2
  <2> QED BY <2>1, <1>1 DEF IsInjective
<1>4. Head(q) \in Range(q)
  BY <1>1, <1>2 DEF Range
<1>5. ASSUME NEW x \in Range(Tail(q)) PROVE x \in Range(q) \ {Head(q)}
  <2>1. PICK i \in 1 .. Len(q) - 1 : x = Tail(q)[i]
    BY <1>2 DEF Range
  <2>2. x = q[i+1] /\ i+1 \in DOMAIN q /\ 1 \in DOMAIN q /\ i+1 # 1
    BY <2>1, <1>1, <1>2
  <2> QED BY <2>2, <1>1 DEF Range, IsInjective
<1>6. ASSUME NEW x \in Range(q) \ {Head(q)} PROVE x \in Range(Tail(q))
  <2>1. PICK i \in 1 .. Len(q) : x = q[i]
    BY <1>2 DEF Range
  <2>2. i # 1
    BY <2>1, <1>1
  <2>3. i-1 \in 1 .. Len(q) - 1 /\ Tail(q)[i-1] = x
    BY <2>1, <2>2, <1>1
  <2> QED BY <2>3, <1>2 DEF Range
<1> QED BY <1>1, <1>3, <1>4, <1>5, <1>6

\* addLast: an element that is not in the queue joins it, once.
LEMMA AppendToQueue ==
    ASSUME NEW S, NEW q \in Seq(S), NEW x \in S, IsInjective(q), x \notin Range(q)
    PROVE  /\ Append(q, x) \in Seq(S) /\ IsInjective(Append(q, x))
           /\ Append(q, x) # <<>>
           /\ Range(Append(q, x)) = Range(q) \cup {x}
<1>1. /\ Append(q, x) \in Seq(S) /\ Len(Append(q, x)) = Len(q) + 1 /\ Len(q) \in Nat
      /\ \A i \in 1 .. Len(q) : Append(q, x)[i] = q[i]
      /\ Append(q, x)[Len(q) + 1] = x
  OBVIOUS
<1>2. DOMAIN q = 1 .. Len(q) /\ DOMAIN Append(q, x) = 1 .. Len(q) + 1
  BY <1>1
<1>3. Range(Append(q, x)) = Range(q) \cup {x}
  <2>1. ASSUME NEW y \in Range(Append(q, x)) PROVE y \in Range(q) \cup {x}
    BY <1>1, <1>2 DEF Range
  <2>2. ASSUME NEW y \in Range(q) \cup {x} PROVE y \in Range(Append(q, x))
    <3>1. CASE y = x
      BY <3>1, <1>1, <1>2 DEF Range
    <3>2. CASE y \in Range(q)
      <4>1. PICK i \in 1 .. Len(q) : y = q[i]
        BY <3>2, <1>2 DEF Range
      <4> QED BY <4>1, <1>1, <1>2 DEF Range
    <3> QED BY <3>1, <3>2
  <2> QED BY <2>1, <2>2
<1>4. IsInjective(Append(q, x))
  <2> SUFFICES ASSUME NEW i \in 1 .. Len(q) + 1, NEW j \in 1 .. Len(q) + 1,
                      Append(q, x)[i] = Append(q, x)[j]
               PROVE  i = j
    BY <1>2 DEF IsInjective
  <2>1. CASE i \in 1 .. Len(q) /\ j \in 1 .. Len(q)
    BY <2>1, <1>1, <1>2 DEF IsInjective
  <2>2. CASE i = Len(q) + 1 /\ j \in 1 .. Len(q)
    BY <2>2, <1>1, <1>2 DEF Range
  <2>3. CASE j = Len(q) + 1 /\ i \in 1 .. Len(q)
    BY <2>3, <1>1, <1>2 DEF Range
  <2> QED BY <2>1, <2>2, <2>3, <1>1
<1> QED BY <1>1, <1>3, <1>4

\* remove: the element at one position leaves and the others stay, each once.
LEMMA RemoveFromQueue ==
    ASSUME NEW S, NEW q \in Seq(S), NEW k \in DOMAIN q, IsInjective(q)
    PROVE  /\ RemoveAt(q, k) \in Seq(S) /\ IsInjective(RemoveAt(q, k))
           /\ Range(RemoveAt(q, k)) = Range(q) \ {q[k]}
<1> DEFINE w     == RemoveAt(q, k)
           left  == SubSeq(q, 1, k - 1)
           right == SubSeq(q, k + 1, Len(q))
<1>1. Len(q) \in Nat /\ k \in 1 .. Len(q) /\ DOMAIN q = 1 .. Len(q)
  OBVIOUS
<1>2. /\ left \in Seq(S) /\ Len(left) = k - 1
      /\ \A i \in 1 .. k - 1 : left[i] = q[i]
  BY <1>1, SubSeqProperties
<1>3. /\ right \in Seq(S) /\ Len(right) = Len(q) - k
      /\ \A i \in 1 .. Len(q) - k : right[i] = q[k + i]
  BY <1>1, SubSeqProperties
<1>4. w = left \o right
  BY DEF RemoveAt
<1> HIDE DEF w, left, right
<1>5. w \in Seq(S) /\ Len(w) = Len(q) - 1 /\ DOMAIN w = 1 .. Len(q) - 1
  <2>1. w \in Seq(S) /\ Len(w) = Len(left) + Len(right)
    BY <1>2, <1>3, <1>4, ConcatProperties
  <2> QED BY <2>1, <1>1, <1>2, <1>3
<1>6. \A i \in 1 .. k - 1 : w[i] = q[i]
  BY <1>1, <1>2, <1>3, <1>4, ConcatProperties
<1>7. \A i \in k .. Len(q) - 1 : w[i] = q[i + 1]
  <2> SUFFICES ASSUME NEW i \in k .. Len(q) - 1 PROVE w[i] = q[i + 1]
    OBVIOUS
  <2>1. w[i] = right[i - (k - 1)]
    BY <1>1, <1>2, <1>3, <1>4, ConcatProperties
  <2>2. i - (k - 1) \in 1 .. Len(q) - k /\ k + (i - (k - 1)) = i + 1
    BY <1>1
  <2>3. right[i - (k - 1)] = q[k + (i - (k - 1))]
    BY <2>2, <1>3
  <2> QED BY <2>1, <2>2, <2>3
<1>8. IsInjective(w)
  <2> SUFFICES ASSUME NEW i \in 1 .. Len(q) - 1, NEW j \in 1 .. Len(q) - 1, w[i] = w[j]
               PROVE  i = j
    BY <1>5 DEF IsInjective
  <2>1. i < k => w[i] = q[i] /\ i \in DOMAIN q
    BY <1>6, <1>1
  <2>2. i >= k => w[i] = q[i + 1] /\ i + 1 \in DOMAIN q
    BY <1>7, <1>1
  <2>3. j < k => w[j] = q[j] /\ j \in DOMAIN q
    BY <1>6, <1>1
  <2>4. j >= k => w[j] = q[j + 1] /\ j + 1 \in DOMAIN q
    BY <1>7, <1>1
  <2> QED BY <2>1, <2>2, <2>3, <2>4, <1>1 DEF IsInjective
<1>9. ASSUME NEW y \in Range(w) PROVE y \in Range(q) \ {q[k]}
  <2>1. PICK i \in 1 .. Len(q) - 1 : y = w[i]
    BY <1>5 DEF Range
  <2>2. CASE i < k
    BY <2>1, <2>2, <1>6, <1>1, <1>1 DEF Range, IsInjective
  <2>3. CASE i >= k
    <3>1. y = q[i + 1] /\ i + 1 \in DOMAIN q /\ i + 1 # k
      BY <2>1, <2>3, <1>7, <1>1
    <3> QED BY <3>1, <1>1 DEF Range, IsInjective
  <2> QED BY <2>2, <2>3, <1>1
<1>10. ASSUME NEW y \in Range(q) \ {q[k]} PROVE y \in Range(w)
  <2>1. PICK i \in 1 .. Len(q) : y = q[i]
    BY <1>1 DEF Range
  <2>2. i # k
    BY <2>1, <1>1
  <2>3. CASE i < k
    BY <2>1, <2>3, <1>6, <1>5, <1>1 DEF Range
  <2>4. CASE i > k
    <3>1. w[i - 1] = y /\ i - 1 \in DOMAIN w
      BY <2>1, <2>4, <1>7, <1>5, <1>1
    <3> QED BY <3>1 DEF Range
  <2> QED BY <2>2, <2>3, <2>4, <1>1
<1> QED BY <1>5, <1>8, <1>9, <1>10 DEF w

-----------------------------------------------------------------------------
(***************************************************************************)
(* Sums over finite sets.  MapThenSumSet takes its elements in an order    *)
(* that CHOOSE fixes; the lemmas below say that the order does not matter. *)
(* Induction is over the subsets of a finite set, and a claim about them   *)
(* is the set of those it holds for.                                       *)
(***************************************************************************)
SumOver(f, S) == MapThenSumSet(LAMBDA x : f[x], S)

First(S) == CHOOSE x \in S : TRUE

\* The recursive function inside MapThenSumSet.
AddsUp(g, f, S) ==
    g = [T \in SUBSET S |->
           IF T = {} THEN 0 ELSE f[First(T)] + g[T \ {First(T)}]]

LEMMA FirstIsIn == ASSUME NEW S, S # {} PROVE First(S) \in S
BY DEF First

\* A set of naturals that is not empty has a least member.
LEMMA LeastNatural ==
    ASSUME NEW S \in SUBSET Nat, S # {}
    PROVE  \E m \in S : \A k \in S : m <= k
<1>1. PICK m \in S : \A k \in S : ~ (<<k, m>> \in OpToRel(<, Nat))
  BY NatLessThanWellFounded, WFMin
<1>2. \A k \in S : ~ (k < m)
  BY <1>1 DEF OpToRel
<1> QED BY <1>2

\* What holds of a subset when it holds of the smaller ones holds of the set.
LEMMA SubsetInduction ==
    ASSUME NEW S, IsFiniteSet(S), NEW Good,
           \A T \in SUBSET S :
              (\A U \in SUBSET T : U # T => U \in Good) => T \in Good
    PROVE  S \in Good
<1> DEFINE Bad == {n \in Nat : \E T \in SUBSET S : Cardinality(T) = n /\ T \notin Good}
<1> SUFFICES ASSUME S \notin Good PROVE FALSE
  OBVIOUS
<1>1. Cardinality(S) \in Bad
  BY FS_CardinalityType
<1>2. PICK n \in Bad : \A m \in Bad : n <= m
  <2>1. Bad \in SUBSET Nat /\ Bad # {}
    BY <1>1
  <2> HIDE DEF Bad
  <2> QED BY <2>1, LeastNatural
<1>3. PICK T \in SUBSET S : Cardinality(T) = n /\ T \notin Good
  BY <1>2
<1>4. PICK U \in SUBSET T : U # T /\ U \notin Good
  BY <1>3
<1>5. /\ IsFiniteSet(T) /\ Cardinality(U) <= Cardinality(T)
      /\ Cardinality(U) # Cardinality(T) /\ Cardinality(U) \in Nat
  BY <1>4, FS_Subset, FS_CardinalityType
<1>6. Cardinality(U) < n /\ U \in SUBSET S
  BY <1>2, <1>3, <1>4, <1>5
<1> QED BY <1>2, <1>4, <1>5, <1>6

\* The same, taking one element away at a time.
LEMMA ElementInduction ==
    ASSUME NEW S, IsFiniteSet(S), NEW Good, {} \in Good,
           \A T \in SUBSET S, x \in S : T \in Good /\ x \notin T => T \cup {x} \in Good
    PROVE  S \in Good
<1> SUFFICES ASSUME NEW T \in SUBSET S, \A U \in SUBSET T : U # T => U \in Good
             PROVE  T \in Good
  BY SubsetInduction
<1>1. CASE T # {}
  <2>1. PICK x \in T : TRUE
    BY <1>1
  <2>2. T \ {x} \in Good /\ T \ {x} \in SUBSET S /\ x \in S /\ (T \ {x}) \cup {x} = T
    BY <2>1
  <2> QED BY <2>2
<1> QED BY <1>1

\* Two such functions agree where both are defined.
LEMMA AddsUpAgree ==
    ASSUME NEW f, NEW S, NEW T, NEW g, NEW h, IsFiniteSet(S),
           AddsUp(g, f, S), AddsUp(h, f, T), S \subseteq T
    PROVE  g[S] = h[S]
<1> DEFINE Good == {U \in SUBSET S : g[U] = h[U]}
<1>1. ASSUME NEW U \in SUBSET S, \A W \in SUBSET U : W # U => W \in Good
      PROVE  U \in Good
  <2>1. CASE U = {}
    BY <2>1 DEF AddsUp
  <2>2. CASE U # {}
    <3> DEFINE W == U \ {First(U)}
    <3>1. W \in SUBSET U /\ W # U
      BY <2>2, FirstIsIn
    <3>2. g[W] = h[W]
      BY <3>1, <1>1
    <3>3. g[U] = f[First(U)] + g[W]
      BY <2>2 DEF AddsUp
    <3>4. h[U] = f[First(U)] + h[W]
      BY <2>2 DEF AddsUp
    <3> QED BY <3>2, <3>3, <3>4
  <2> QED BY <2>1, <2>2
<1>2. S \in Good
  <2> HIDE DEF Good
  <2> QED BY <1>1, SubsetInduction
<1> QED BY <1>2

\* What a sum is worth, once such a function exists.
LEMMA SumIsWorth ==
    ASSUME NEW f, NEW S, NEW T, NEW h, IsFiniteSet(S), S \subseteq T,
           AddsUp(h, f, T), \E g : AddsUp(g, f, S)
    PROVE  SumOver(f, S) = h[S]
<1>1. AddsUp(CHOOSE g : AddsUp(g, f, S), f, S)
  OBVIOUS
<1>2. SumOver(f, S) = (CHOOSE g : AddsUp(g, f, S))[S]
  BY DEF SumOver, MapThenSumSet, MapThenFoldSet, AddsUp, First
<1> QED BY <1>1, <1>2, AddsUpAgree

LEMMA AddsUpExists ==
    ASSUME NEW f, NEW S, IsFiniteSet(S)
    PROVE  \E g : AddsUp(g, f, S)
<1> DEFINE Good == {T \in SUBSET S : \E g : AddsUp(g, f, T)}
<1>1. ASSUME NEW T \in SUBSET S, \A U \in SUBSET T : U # T => U \in Good
      PROVE  T \in Good
  <2> DEFINE g == [U \in SUBSET T |->
                     IF U = {} THEN 0 ELSE f[First(U)] + SumOver(f, U \ {First(U)})]
  <2>1. ASSUME NEW U \in SUBSET T, U # T
        PROVE  IsFiniteSet(U) /\ \E h : AddsUp(h, f, U)
    BY <2>1, <1>1, FS_Subset
  <2>2. ASSUME NEW U \in SUBSET T, U # {} PROVE g[U] = f[First(U)] + g[U \ {First(U)}]
    <3> DEFINE R == U \ {First(U)}
    <3>1. First(U) \in U /\ R \in SUBSET T /\ R # T
      BY <2>2, FirstIsIn
    <3>2. PICK h : AddsUp(h, f, R)
      BY <3>1, <2>1
    <3>3. SumOver(f, R) = h[R]
      BY <3>1, <3>2, <2>1, SumIsWorth
    <3>4. g[U] = f[First(U)] + SumOver(f, R)
      BY <2>2
    <3>5. CASE R = {}
      <4>1. h[R] = 0 /\ g[R] = 0
        BY <3>2, <3>5 DEF AddsUp
      <4> HIDE DEF g, R
      <4> QED BY <3>3, <3>4, <4>1 DEF R
    <3>6. CASE R # {}
      <4> DEFINE W == R \ {First(R)}
      <4>1. First(R) \in R /\ W \in SUBSET T /\ W # T /\ W \subseteq R
        BY <3>1, <3>6, FirstIsIn
      <4>2. SumOver(f, W) = h[W]
        BY <4>1, <3>2, <2>1, SumIsWorth
      <4>3. h[R] = f[First(R)] + h[W]
        BY <3>2, <3>6 DEF AddsUp
      <4>4. g[R] = f[First(R)] + SumOver(f, W)
        BY <3>1, <3>6
      <4> HIDE DEF g, R, W
      <4> QED BY <3>3, <3>4, <4>2, <4>3, <4>4 DEF R
    <3> QED BY <3>5, <3>6
  <2>3. AddsUp(g, f, T)
    <3>1. \A U \in SUBSET T : g[U] = IF U = {} THEN 0 ELSE f[First(U)] + g[U \ {First(U)}]
      BY <2>2
    <3>2. g = [U \in SUBSET T |-> g[U]]
      OBVIOUS
    <3> HIDE DEF g
    <3> QED BY <3>1, <3>2 DEF AddsUp
  <2> QED BY <2>3
<1>2. S \in Good
  <2> HIDE DEF Good
  <2> QED BY <1>1, SubsetInduction
<1> QED BY <1>2

LEMMA SumOfNothing == ASSUME NEW f PROVE SumOver(f, {}) = 0
<1>1. PICK g : AddsUp(g, f, {})
  BY AddsUpExists, FS_EmptySet
<1>2. SumOver(f, {}) = g[{}]
  BY <1>1, SumIsWorth, FS_EmptySet
<1> QED BY <1>1, <1>2 DEF AddsUp

LEMMA SumStep ==
    ASSUME NEW f, NEW S, IsFiniteSet(S), S # {}
    PROVE  SumOver(f, S) = f[First(S)] + SumOver(f, S \ {First(S)})
<1> DEFINE T == S \ {First(S)}
<1>1. PICK g : AddsUp(g, f, S)
  BY AddsUpExists
<1>2. SumOver(f, S) = g[S]
  BY <1>1, SumIsWorth
<1>3. IsFiniteSet(T) /\ T \subseteq S
  BY FS_Subset
<1>4. SumOver(f, T) = g[T]
  BY <1>1, <1>3, SumIsWorth, AddsUpExists
<1>5. g[S] = f[First(S)] + g[T]
  BY <1>1 DEF AddsUp
<1> QED BY <1>2, <1>4, <1>5

\* A sum of integers is one, and any element may be taken out of it.
LEMMA SumOfIntegers ==
    ASSUME NEW f, NEW S, IsFiniteSet(S), \A x \in S : f[x] \in Int
    PROVE  /\ SumOver(f, S) \in Int
           /\ \A x \in S : SumOver(f, S) = f[x] + SumOver(f, S \ {x})
<1> DEFINE Good == {T \in SUBSET S :
                      /\ SumOver(f, T) \in Int
                      /\ \A x \in T : SumOver(f, T) = f[x] + SumOver(f, T \ {x})}
<1>1. ASSUME NEW T \in SUBSET S, \A U \in SUBSET T : U # T => U \in Good
      PROVE  T \in Good
  <2>1. CASE T = {}
    BY <2>1, SumOfNothing
  <2>2. CASE T # {}
    <3> DEFINE c == First(T)
               U == T \ {c}
    <3>1. c \in T /\ U \in SUBSET T /\ U # T /\ IsFiniteSet(T) /\ f[c] \in Int
      BY <2>2, FirstIsIn, FS_Subset
    <3>2. SumOver(f, T) = f[c] + SumOver(f, U)
      BY <3>1, <2>2, SumStep
    <3>3. U \in Good
      BY <3>1, <1>1
    <3>4. SumOver(f, T) \in Int
      BY <3>1, <3>2, <3>3
    <3>5. ASSUME NEW x \in T, x # c PROVE SumOver(f, T) = f[x] + SumOver(f, T \ {x})
      <4> DEFINE W == T \ {x}
      <4>1. W \in SUBSET T /\ W # T /\ c \in W /\ x \in U /\ W \ {c} = U \ {x}
        BY <3>1, <3>5
      <4>2. W \in Good
        BY <4>1, <1>1
      <4>3. SumOver(f, U) = f[x] + SumOver(f, U \ {x})
        BY <3>3, <4>1
      <4>4. SumOver(f, W) = f[c] + SumOver(f, U \ {x})
        BY <4>1, <4>2
      <4>5. U \ {x} \in Good
        <5>1. U \ {x} \in SUBSET T /\ U \ {x} # T
          BY <3>1
        <5> QED BY <5>1, <1>1
      <4>6. SumOver(f, U \ {x}) \in Int /\ f[x] \in Int
        BY <4>5
      <4> HIDE DEF Good, U, W, c
      <4> QED BY <3>1, <3>2, <4>3, <4>4, <4>6 DEF W
    <3>6. \A x \in T : SumOver(f, T) = f[x] + SumOver(f, T \ {x})
      BY <3>2, <3>5
    <3> HIDE DEF U, c
    <3> QED BY <3>4, <3>6
  <2> QED BY <2>1, <2>2
<1>2. S \in Good
  <2> HIDE DEF Good
  <2> QED BY <1>1, SubsetInduction
<1> QED BY <1>2

\* An element is added.
LEMMA SumWithOneMore ==
    ASSUME NEW f, NEW S, NEW x, IsFiniteSet(S), x \notin S,
           \A y \in S \cup {x} : f[y] \in Int
    PROVE  SumOver(f, S \cup {x}) = SumOver(f, S) + f[x]
<1> DEFINE T == S \cup {x}
<1>1. IsFiniteSet(T) /\ x \in T /\ T \ {x} = S /\ f[x] \in Int
  BY FS_AddElement
<1>2. SumOver(f, T) = f[x] + SumOver(f, T \ {x})
  BY <1>1, SumOfIntegers
<1>3. SumOver(f, S) \in Int
  BY SumOfIntegers
<1>4. SumOver(f, T) = f[x] + SumOver(f, S)
  BY <1>1, <1>2
<1> QED BY <1>1, <1>3, <1>4

\* The sum depends on the values at the elements only.
LEMMA SumOfTheSame ==
    ASSUME NEW f, NEW h, NEW S, IsFiniteSet(S),
           \A x \in S : f[x] \in Int /\ h[x] = f[x]
    PROVE  SumOver(h, S) = SumOver(f, S)
<1> DEFINE Good == {T \in SUBSET S : SumOver(h, T) = SumOver(f, T)}
<1>1. {} \in Good
  BY SumOfNothing
<1>2. ASSUME NEW T \in SUBSET S, NEW x \in S, T \in Good, x \notin T
      PROVE  T \cup {x} \in Good
  <2>1. IsFiniteSet(T)
    BY FS_Subset
  <2>2. SumOver(f, T \cup {x}) = SumOver(f, T) + f[x]
    BY <2>1, <1>2, SumWithOneMore
  <2>3. SumOver(h, T \cup {x}) = SumOver(h, T) + h[x]
    <3>1. \A y \in T \cup {x} : h[y] \in Int
      BY <1>2
    <3> QED BY <3>1, <2>1, <1>2, SumWithOneMore
  <2> QED BY <1>2, <2>2, <2>3
<1>3. S \in Good
  <2> HIDE DEF Good
  <2> QED BY <1>1, <1>2, ElementInduction
<1> QED BY <1>3

\* One element changes its value.
LEMMA SumWithOneChanged ==
    ASSUME NEW f, NEW h, NEW S, NEW x \in S, IsFiniteSet(S),
           h[x] \in Int, \A y \in S : f[y] \in Int,
           \A y \in S \ {x} : h[y] = f[y]
    PROVE  SumOver(h, S) = SumOver(f, S) - f[x] + h[x]
<1> DEFINE T == S \ {x}
<1>1. IsFiniteSet(T)
  BY FS_Subset
<1>2. SumOver(h, T) = SumOver(f, T)
  BY <1>1, SumOfTheSame
<1>3. SumOver(f, S) = f[x] + SumOver(f, T) /\ SumOver(f, S) \in Int
  BY SumOfIntegers
<1>4. SumOver(h, S) = h[x] + SumOver(h, T)
  <2>1. \A y \in S : h[y] \in Int
    OBVIOUS
  <2> QED BY <2>1, SumOfIntegers
<1>5. SumOver(f, T) \in Int
  BY <1>1, SumOfIntegers
<1> HIDE DEF T
<1> QED BY <1>2, <1>3, <1>4, <1>5

\* Of values that are not negative, more give no less.
LEMMA SumOfNaturals ==
    ASSUME NEW f, NEW S, IsFiniteSet(S), \A x \in S : f[x] \in Nat
    PROVE  /\ SumOver(f, S) \in Nat
           /\ \A T \in SUBSET S : SumOver(f, T) <= SumOver(f, S)
<1> DEFINE Good == {U \in SUBSET S :
                      /\ SumOver(f, U) \in Nat
                      /\ \A T \in SUBSET U : SumOver(f, T) <= SumOver(f, U)}
<1>1. {} \in Good
  <2>1. \A T \in SUBSET {} : T = {}
    OBVIOUS
  <2> QED BY <2>1, SumOfNothing
<1>2. ASSUME NEW U \in SUBSET S, NEW x \in S, U \in Good, x \notin U
      PROVE  U \cup {x} \in Good
  <2>1. IsFiniteSet(U) /\ f[x] \in Nat
    BY FS_Subset
  <2>2. SumOver(f, U \cup {x}) = SumOver(f, U) + f[x]
    BY <2>1, <1>2, SumWithOneMore
  <2>3. ASSUME NEW T \in SUBSET (U \cup {x}) PROVE SumOver(f, T) <= SumOver(f, U \cup {x})
    <3>1. T \ {x} \in SUBSET U /\ IsFiniteSet(T) /\ T \in SUBSET S
      BY FS_Subset
    <3>2. SumOver(f, T \ {x}) <= SumOver(f, U) /\ SumOver(f, U) \in Nat
      BY <3>1, <1>2
    <3>3. IsFiniteSet(T \ {x}) /\ \A y \in T \ {x} : f[y] \in Int
      BY <3>1, FS_Subset
    <3>4. SumOver(f, T \ {x}) \in Int
      BY <3>3, SumOfIntegers
    <3>5. CASE x \in T
      <4>1. SumOver(f, T) = f[x] + SumOver(f, T \ {x})
        BY <3>1, <3>5, SumOfIntegers
      <4> QED BY <4>1, <3>2, <3>4, <2>1, <2>2
    <3>6. CASE x \notin T
      <4>1. T \ {x} = T
        BY <3>6
      <4>2. SumOver(f, T) <= SumOver(f, U)
        BY <4>1, <3>2
      <4>3. SumOver(f, T) \in Int
        BY <4>1, <3>4
      <4> QED BY <4>2, <4>3, <3>2, <2>1, <2>2
    <3> QED BY <3>5, <3>6
  <2>4. SumOver(f, U \cup {x}) \in Nat
    BY <1>2, <2>1, <2>2
  <2> QED BY <2>3, <2>4
<1>3. S \in Good
  <2> HIDE DEF Good
  <2> QED BY <1>1, <1>2, ElementInduction
<1> QED BY <1>3

-----------------------------------------------------------------------------
(***************************************************************************)
(* The inductive invariant: what the properties say of the book, and what  *)
(* a running call knows of the order it deals with.  At "pegs" there is a  *)
(* midpoint; what reaches "lit" has a limit; a remainder that reaches      *)
(* "rest" has nothing left to trade with.                                  *)
(***************************************************************************)
Dealing == pc \in {"pegs", "lit", "rest"}

IncomingIsNotResting ==
    Dealing => /\ incoming \notin Resting
               /\ orders[incoming].quantity > 0 =>
                     orders[incoming].status \in {"OPEN", "PARTIALLY_FILLED"}

PhaseFacts ==
    /\ pc = "pegs" => mid # NA
    /\ pc = "lit" => orders[incoming].ordType = "LIMIT"
    /\ pc = "rest" /\ orders[incoming].quantity > 0
                   /\ orders[incoming].ordType = "LIMIT" =>
          \A p \in DOMAIN book[Opposite(incomingSide)] :
              ~ Marketable(incomingSide, orders[incoming].price, p)

LimitsHavePrices ==
    \A r \in Refs : orders[r].ordType = "LIMIT" => orders[r].price \in Price

IInv == /\ TypeOK
        /\ LimitsHavePrices
        /\ BookHoldsLiveOrders
        /\ DisplayedSlice
        /\ BookNotCrossed
        /\ IncomingIsNotResting
        /\ PhaseFacts

-----------------------------------------------------------------------------
(* Prices: a side that is not empty has a best price. *)

\* Prices are positive and bounded by MaxPrice.
LEMMA PricesAreNat == \A p \in Price : p \in Nat \ {0} /\ p <= MaxPrice
  BY BoundsAssumption DEF Price

\* firstKey: the best price of a side that is not empty is one of its prices, and no
\* other is better for the side across.
LEMMA BestPriceIsBest ==
    ASSUME NEW S \in SUBSET Price, S # {}, NEW side \in Sides
    PROVE  /\ BestPrice(side, S) \in S
           /\ \A p \in S : IF side = "BUY" THEN p <= BestPrice(side, S)
                                           ELSE p >= BestPrice(side, S)
<1>1. S \subseteq Nat /\ \A p \in S : p <= MaxPrice
  BY PricesAreNat
<1>2. CASE side = "BUY"
  <2> DEFINE T == {MaxPrice - p : p \in S}
  <2>1. T \in SUBSET Nat /\ T # {}
    <3>1. \A p \in S : MaxPrice - p \in Nat
      BY <1>1, BoundsAssumption
    <3> QED BY <3>1
  <2>2. PICK m \in T : \A k \in T : m <= k
    BY <2>1, LeastNatural
  <2>3. PICK p \in S : m = MaxPrice - p
    OBVIOUS
  <2>4. \A q \in S : MaxPrice - p <= MaxPrice - q
    BY <2>2, <2>3
  <2>5. \A q \in S : p >= q
    BY <2>4, <1>1, BoundsAssumption
  <2>6. Max(S) \in S /\ \A q \in S : Max(S) >= q
    BY <2>5 DEF Max
  <2> QED BY <2>6, <1>1, <1>2 DEF BestPrice
<1>3. CASE side # "BUY"
  <2>1. PICK p \in S : \A q \in S : p <= q
    BY <1>1, LeastNatural
  <2>2. Min(S) \in S /\ \A q \in S : Min(S) <= q
    BY <2>1 DEF Min
  <2> QED BY <2>2, <1>1, <1>3 DEF BestPrice
<1> QED BY <1>2, <1>3

\* mid() returns a price, or NA.
LEMMA MidIsPriceOrNA ==
    ASSUME NEW B \in SUBSET Price, NEW A \in SUBSET Price
    PROVE  MidOf(B, A) \in Nat \cup {NA}
<1>1. CASE B = {} \/ A = {}
  BY <1>1 DEF MidOf
<1>2. CASE B # {} /\ A # {}
  <2> DEFINE b == BestPrice("BUY", B)
             a == BestPrice("SELL", A)
  <2>1. b \in Nat /\ a \in Nat
    <3>1. b \in B /\ a \in A
      BY <1>2, BestPriceIsBest DEF Sides
    <3> QED BY <3>1, PricesAreNat
  <2>2. MidOf(B, A) = (b + a) \div 2
    BY <1>2 DEF MidOf
  <2> HIDE DEF a, b
  <2> QED BY <2>1, <2>2
<1> QED BY <1>1, <1>2

-----------------------------------------------------------------------------
(* Orders. *)

\* A ticket the constructor accepts makes a well-formed OPEN order.
LEMMA NewOrderIsOrder ==
    ASSUME NEW t \in Tickets, NEW ts \in Nat
    PROVE  LET o == NewOrder(t, ts)
           IN  /\ o \in OrderRecord
               /\ o.ordType = "LIMIT" => o.price \in Price
               /\ o.status = "OPEN" /\ o.ordType = t.ordType /\ o.side = t.side
<1>1. t \in TicketRecord /\ ConstructorAccepts(t)
  BY TicketsAssumption
<1> QED BY <1>1 DEF TicketRecord, ConstructorAccepts, NewOrder, OrderRecord, DisplayOf,
                    Least, Price, Statuses, IsOnTick, NA, TICK

\* Order.fill by a legal amount: what it changes, and what it leaves alone.
LEMMA FillOrder ==
    ASSUME NEW o \in OrderRecord, NEW n \in 1 .. o.quantity
    PROVE  /\ Fill(o, n) \in OrderRecord
           /\ Fill(o, n).quantity = o.quantity - n
           /\ Fill(o, n).visibleQty = IF n <= o.visibleQty THEN o.visibleQty - n ELSE 0
           /\ Fill(o, n).status =
                 IF o.quantity = n THEN "FILLED" ELSE "PARTIALLY_FILLED"
           /\ Fill(o, n).side = o.side /\ Fill(o, n).price = o.price
           /\ Fill(o, n).ordType = o.ordType /\ Fill(o, n).tif = o.tif
           /\ Fill(o, n).peak = o.peak /\ Fill(o, n).orderID = o.orderID
<1> DEFINE v == IF n <= o.visibleQty THEN o.visibleQty - n ELSE 0
<1>1. v \in Nat /\ o.quantity - n \in Nat /\ o.visibleQty - Least(n, o.visibleQty) = v
  BY DEF OrderRecord, Least
<1> HIDE DEF v
<1>2. Fill(o, n) = [o EXCEPT !.quantity = o.quantity - n, !.visibleQty = v,
                             !.status = IF o.quantity = n THEN "FILLED"
                                                          ELSE "PARTIALLY_FILLED"]
  BY <1>1 DEF Fill
<1> QED BY <1>1, <1>2 DEF OrderRecord, Statuses, v

\* Order.refreshDisplay changes the displayed slice only, to one within the order.
LEMMA RefreshOrder ==
    ASSUME NEW o \in OrderRecord
    PROVE  LET f == RefreshDisplay(o)
           IN  /\ f \in OrderRecord
               /\ f = [o EXCEPT !.visibleQty = f.visibleQty]
               /\ IF o.peak = 0 THEN f.visibleQty = o.quantity
                                ELSE f.visibleQty <= o.peak
               /\ o.quantity > 0 => f.visibleQty \in 1 .. o.quantity
  BY DEF OrderRecord, RefreshDisplay, DisplayOf, Least

-----------------------------------------------------------------------------
(* Heaps, books and the id index. *)

\* Changing two objects of the heap leaves every other object alone.
LEMMA TwoOrdersChange ==
    ASSUME NEW S, NEW s \in Seq(S), NEW a \in DOMAIN s, NEW h \in DOMAIN s, a # h,
           NEW x \in S, NEW y \in S
    PROVE  LET t == [s EXCEPT ![a] = x, ![h] = y]
           IN  /\ t \in Seq(S) /\ DOMAIN t = DOMAIN s /\ Len(t) = Len(s)
               /\ t[a] = x /\ t[h] = y
               /\ \A r \in DOMAIN s \ {a, h} : t[r] = s[r]
<1> DEFINE u == [s EXCEPT ![a] = x]
<1>1. u \in Seq(S) /\ Len(u) = Len(s) /\ DOMAIN u = DOMAIN s
  BY ExceptSeq
<1>2. [u EXCEPT ![h] = y] \in Seq(S) /\ Len([u EXCEPT ![h] = y]) = Len(u)
  <2>1. h \in 1 .. Len(u)
    BY <1>1
  <2> HIDE DEF u
  <2> QED BY <1>1, <2>1, ExceptSeq
<1> QED BY <1>1, <1>2

\* Changing one object of the heap leaves every other object alone.
LEMMA OneOrderChanges ==
    ASSUME NEW S, NEW s \in Seq(S), NEW a \in DOMAIN s, NEW x \in S
    PROVE  LET t == [s EXCEPT ![a] = x]
           IN  /\ t \in Seq(S) /\ DOMAIN t = DOMAIN s /\ Len(t) = Len(s)
               /\ t[a] = x
               /\ \A r \in DOMAIN s \ {a} : t[r] = s[r]
  BY ExceptSeq

\* References are the numbers up to the last arrival, and each refers to an order.
LEMMA HeapHoldsOrders ==
    ASSUME TypeOK
    PROVE  /\ orders \in Seq(OrderRecord) /\ incoming \in Nat /\ Refs = 1 .. incoming
           /\ \A r \in Refs : orders[r] \in OrderRecord
<1>1. orders \in Seq(OrderRecord)
  BY DEF TypeOK
<1>2. incoming \in Nat /\ Refs = 1 .. incoming
  BY <1>1, LenProperties DEF Refs, incoming
<1>3. \A r \in 1 .. incoming : orders[r] \in OrderRecord
  BY <1>1, ElementOfSeq DEF incoming
<1> QED BY <1>1, <1>2, <1>3

\* The fields of an order have their types.
LEMMA OrderFields ==
    ASSUME NEW o \in OrderRecord
    PROVE  /\ o.orderID \in Nat /\ o.timeStamp \in Nat /\ o.orderQty \in Nat
           /\ o.quantity \in Nat /\ o.peak \in Nat /\ o.visibleQty \in Nat
           /\ o.side \in Sides /\ o.ordType \in OrdTypes /\ o.tif \in TimesInForce
           /\ o.price \in Nat \cup {NA} /\ o.price \in Price \cup {NA}
  BY PricesAreNat DEF OrderRecord

\* openOrders.remove keeps the id index an index into the heap.
LEMMA UnregisterKeepsType ==
    ASSUME TypeOK, Refs' = Refs, NEW ids, openOrders' = Unregister(ids)
    PROVE  /\ (DOMAIN openOrders)' \subseteq Nat
           /\ \A id \in (DOMAIN openOrders)' : openOrders'[id] \in Refs'
  BY DEF TypeOK, Unregister, Restrict

\* openOrders.put keeps the id index an index into the heap.
LEMMA RegisterKeepsType ==
    ASSUME TypeOK, Refs' = Refs, NEW r \in Refs, openOrders' = Register(r)
    PROVE  /\ (DOMAIN openOrders)' \subseteq Nat
           /\ \A id \in (DOMAIN openOrders)' : openOrders'[id] \in Refs'
<1>1. orders[r].orderID \in Nat
  BY HeapHoldsOrders, OrderFields
<1> QED BY <1>1 DEF TypeOK, Register

\* A trade of two orders is well formed, and so is the report of it.
LEMMA ExecuteKeepsType ==
    ASSUME TypeOK, Refs' = Refs, NEW a \in Refs, NEW p \in Refs,
           NEW n \in 1 .. orders[a].quantity, NEW price \in Nat,
           Execute(a, p, n, price)
    PROVE  /\ trades' \in Seq(TradeRecord')
           /\ reports' \in Seq(ReportRecord' \cup AnswerRecord)
<1>1. orders[a].quantity \in Nat
  BY HeapHoldsOrders, OrderFields
<1>2. TradeRecord' = TradeRecord /\ ReportRecord' = ReportRecord
  BY DEF TradeRecord, ReportRecord
<1> DEFINE trade  == trades'[Len(trades')]
           report == Report("FILL", a, p, price, n, orders[a].quantity - n)
<1>3. PICK t \in TradeRecord : trades' = Append(trades, t)
  BY <1>1 DEF Execute, TradeRecord
<1>4. report \in ReportRecord
  BY <1>1 DEF Report, ReportRecord
<1>5. reports' = Append(reports, report)
  BY DEF Execute
<1> HIDE DEF report
<1> QED BY <1>2, <1>3, <1>4, <1>5 DEF TypeOK

-----------------------------------------------------------------------------
(* What rests. *)

\* What BookHoldsLiveOrders says of one side, with every reference in the heap.
LEMMA RestingOrders ==
    ASSUME TypeOK, BookHoldsLiveOrders, NEW s \in Sides
    PROVE  /\ pegs[s] \in Seq(Refs) /\ IsInjective(pegs[s])
           /\ \A r \in PegOrders(s) :
                 /\ r \in Refs /\ r \in Resting /\ IsLive(r)
                 /\ orders[r].side = s /\ orders[r].ordType = "PEG_MID"
           /\ \A p \in DOMAIN book[s] :
                 /\ p \in Price /\ book[s][p] \in Seq(Refs) /\ IsInjective(book[s][p])
                 /\ book[s][p] # <<>>
                 /\ \A r \in Range(book[s][p]) :
                      /\ r \in Refs /\ r \in Resting /\ r \in LitOrders(s) /\ IsLive(r)
                      /\ orders[r].side = s /\ orders[r].ordType = "LIMIT"
                      /\ orders[r].price = p
<1>1. /\ pegs[s] \in Seq(Refs) /\ IsInjective(pegs[s])
      /\ \A p \in DOMAIN book[s] :
            p \in Price /\ book[s][p] \in Seq(Refs) /\ IsInjective(book[s][p])
              /\ book[s][p] # <<>>
  BY DEF TypeOK, BookHoldsLiveOrders, LitLevelsHoldLiveOrders, PegPoolsHoldLiveOrders
<1>2. \A q \in Seq(Refs) : Range(q) \subseteq Refs
  BY LenProperties, ElementOfSeq DEF Range
<1>3. /\ \A r \in PegOrders(s) : r \in Refs /\ r \in Resting
      /\ \A p \in DOMAIN book[s] : \A r \in Range(book[s][p]) :
            r \in Refs /\ r \in LitOrders(s) /\ r \in Resting
  BY <1>1, <1>2 DEF PegOrders, LitOrders, Resting
<1> QED BY <1>1, <1>3
     DEF BookHoldsLiveOrders, LitLevelsHoldLiveOrders, PegPoolsHoldLiveOrders

\* A step that touches no level and no order on one keeps the lit book.
LEMMA LitBookUntouched ==
    ASSUME IInv, \A s \in Sides : book'[s] = book[s],
           \A s \in Sides : \A r \in LitOrders(s) : orders'[r] = orders[r]
    PROVE  /\ LitLevelsHoldLiveOrders' /\ DisplayedSlice' /\ BookNotCrossed'
           /\ \A s \in Sides : LitOrders(s)' = LitOrders(s)
<1> USE DEF IInv
<1>1. \A s \in Sides : LitOrders(s)' = LitOrders(s)
  BY DEF LitOrders
<1>2. LitLevelsHoldLiveOrders'
  <2> SUFFICES ASSUME NEW s \in Sides, NEW p \in DOMAIN book[s]
               PROVE  /\ book[s][p] # <<>> /\ IsInjective(book[s][p])
                      /\ \A r \in Range(book[s][p]) :
                           /\ IsLive(r)' /\ orders'[r].side = s
                           /\ orders'[r].ordType = "LIMIT" /\ orders'[r].price = p
    BY DEF LitLevelsHoldLiveOrders
  <2>1. \A r \in Range(book[s][p]) : orders'[r] = orders[r]
    BY RestingOrders
  <2> QED BY <2>1, RestingOrders DEF IsLive
<1>3. DisplayedSlice'
  BY <1>1 DEF DisplayedSlice
<1>4. BookNotCrossed'
  BY DEF BookNotCrossed, Bids, Asks, Sides
<1> QED BY <1>1, <1>2, <1>3, <1>4

\* Two orders that are not on a lit level trade n at the midpoint; what they
\* leave of themselves stays in the pools.
PegTrade(a, h, n) ==
    /\ a \in Refs /\ h \in Refs /\ a # h
    /\ \A s \in Sides : a \notin LitOrders(s) /\ h \notin LitOrders(s)
    /\ \A r \in {a, h} : /\ orders[r].status \in {"OPEN", "PARTIALLY_FILLED"}
                         /\ n \in 1 .. orders[r].quantity
    /\ mid \in Nat
    /\ orders' = [orders EXCEPT ![a] = Fill(orders[a], n), ![h] = Fill(orders[h], n)]
    /\ Execute(a, h, n, mid) \/ Execute(h, a, n, mid)
    /\ \E ids : openOrders' = Unregister(ids)
    /\ UNCHANGED <<book, pc, mid, calls>>
    /\ pegs' = [s \in Sides |-> pegs'[s]]
    /\ \A s \in Sides :
          /\ pegs'[s] \in Seq(Refs) /\ IsInjective(pegs'[s])
          /\ \A r \in Range(pegs'[s]) :
                r \in PegOrders(s) /\ (r \in {a, h} => orders[r].quantity > n)

\* A peg trade keeps every conjunct of the invariant that is about the book.
LEMMA PegTradeKeepsBook ==
    ASSUME IInv, NEW a, NEW h, NEW n, PegTrade(a, h, n)
    PROVE  /\ TypeOK' /\ LimitsHavePrices' /\ BookHoldsLiveOrders'
           /\ DisplayedSlice' /\ BookNotCrossed' /\ Resting' \subseteq Resting
           /\ Refs' = Refs /\ incoming' = incoming
           /\ orders'[a] = Fill(orders[a], n) /\ orders'[h] = Fill(orders[h], n)
           /\ \A r \in Refs \ {a, h} : orders'[r] = orders[r]
<1> USE DEF IInv
<1>1. /\ a \in Refs /\ h \in Refs /\ a # h
      /\ \A s \in Sides : a \notin LitOrders(s) /\ h \notin LitOrders(s)
      /\ n \in 1 .. orders[a].quantity /\ n \in 1 .. orders[h].quantity
      /\ orders[a] \in OrderRecord /\ orders[h] \in OrderRecord
      /\ book' = book /\ pc' = pc /\ mid' = mid /\ calls' = calls
  BY HeapHoldsOrders DEF PegTrade
<1>2. /\ orders' \in Seq(OrderRecord) /\ Refs' = Refs /\ incoming' = incoming
      /\ orders'[a] = Fill(orders[a], n) /\ orders'[h] = Fill(orders[h], n)
      /\ \A r \in Refs \ {a, h} : orders'[r] = orders[r]
  <2>1. Fill(orders[a], n) \in OrderRecord /\ Fill(orders[h], n) \in OrderRecord
    BY <1>1, FillOrder
  <2>2. orders' = [orders EXCEPT ![a] = Fill(orders[a], n), ![h] = Fill(orders[h], n)]
    BY DEF PegTrade
  <2> QED BY <2>1, <2>2, <1>1, HeapHoldsOrders, TwoOrdersChange DEF Refs, incoming
<1>3. \A r \in Refs :
        /\ orders'[r].side = orders[r].side /\ orders'[r].ordType = orders[r].ordType
        /\ orders'[r].price = orders[r].price /\ orders'[r].tif = orders[r].tif
  <2> SUFFICES ASSUME NEW r \in Refs
               PROVE  /\ orders'[r].side = orders[r].side
                      /\ orders'[r].ordType = orders[r].ordType
                      /\ orders'[r].price = orders[r].price
                      /\ orders'[r].tif = orders[r].tif
    OBVIOUS
  <2>1. CASE r = a
    BY <2>1, <1>1, <1>2, FillOrder
  <2>2. CASE r = h
    BY <2>2, <1>1, <1>2, FillOrder
  <2>3. CASE r \notin {a, h}
    BY <2>3, <1>2
  <2> QED BY <2>1, <2>2, <2>3
<1>4. TypeOK'
  <2>1. /\ trades' \in Seq(TradeRecord') /\ reports' \in Seq(ReportRecord' \cup AnswerRecord)
    <3>1. mid \in Nat /\ (Execute(a, h, n, mid) \/ Execute(h, a, n, mid))
      BY DEF PegTrade
    <3> QED BY <3>1, <1>1, <1>2, ExecuteKeepsType
  <2>2. /\ (DOMAIN openOrders)' \subseteq Nat
        /\ \A id \in (DOMAIN openOrders)' : openOrders'[id] \in Refs'
    <3>1. PICK ids : openOrders' = Unregister(ids)
      BY DEF PegTrade
    <3> QED BY <3>1, <1>2, UnregisterKeepsType
  <2>3. pegs' \in [Sides -> Seq(Refs')]
    BY <1>2 DEF PegTrade
  <2>4. orders' # <<>>
    BY <1>1, <1>2 DEF Refs
  <2> QED BY <2>1, <2>2, <2>3, <2>4, <1>1, <1>2 DEF TypeOK
<1>5. LimitsHavePrices'
  BY <1>2, <1>3 DEF LimitsHavePrices
<1>6. /\ LitLevelsHoldLiveOrders' /\ DisplayedSlice' /\ BookNotCrossed'
      /\ \A s \in Sides : LitOrders(s)' = LitOrders(s)
  <2>1. \A s \in Sides : \A r \in LitOrders(s) : r \in Refs
    BY RestingOrders DEF LitOrders
  <2>2. \A s \in Sides : \A r \in LitOrders(s) : orders'[r] = orders[r]
    BY <2>1, <1>1, <1>2
  <2> QED BY <2>2, <1>1, LitBookUntouched
<1>7. PegPoolsHoldLiveOrders'
  <2>1. ASSUME NEW s \in Sides, NEW r \in Range(pegs'[s])
        PROVE  IsLive(r)' /\ orders'[r].side = s /\ orders'[r].ordType = "PEG_MID"
    <3>1. r \in PegOrders(s) /\ (r \in {a, h} => orders[r].quantity > n)
      BY <2>1 DEF PegTrade
    <3>2. r \in Refs /\ IsLive(r) /\ orders[r].side = s /\ orders[r].ordType = "PEG_MID"
      BY <3>1, RestingOrders
    <3>3. CASE r \notin {a, h}
      BY <3>1, <3>2, <3>3, <1>2 DEF IsLive
    <3>4. CASE r \in {a, h}
      <4>1. orders'[r] = Fill(orders[r], n) /\ n \in 1 .. orders[r].quantity
            /\ orders[r] \in OrderRecord
        BY <3>4, <1>1, <1>2
      <4> QED BY <4>1, <3>1, <3>2, <3>4, <1>3, FillOrder, OrderFields DEF IsLive
    <3> QED BY <3>3, <3>4
  <2> QED BY <2>1 DEF PegPoolsHoldLiveOrders, PegOrders, PegTrade
<1>8. Resting' \subseteq Resting
  <2>1. \A s \in Sides : PegOrders(s)' \subseteq PegOrders(s)
    BY DEF PegOrders, PegTrade
  <2> QED BY <1>6, <2>1 DEF Resting
<1> QED BY <1>2, <1>4, <1>5, <1>6, <1>7, <1>8 DEF BookHoldsLiveOrders

\* An iteration of matchPegPool keeps the invariant: the head leaves its pool exactly
\* when nothing of it is left.
LEMMA MatchPegPoolKeepsIInv == IInv /\ MatchPegPool => IInv'
<1> SUFFICES ASSUME IInv, MatchPegPool PROVE IInv'
  OBVIOUS
<1> DEFINE side == Opposite(incomingSide)
           pool == pegs[side]
           a    == incoming
           h    == Head(pool)
           n    == Least(orders[a].quantity, orders[h].quantity)
<1> USE DEF IInv
<1>1. /\ pc = "pegs" /\ orders[a].quantity > 0 /\ pool # <<>>
      /\ orders' = [orders EXCEPT ![a] = Fill(@, n), ![h] = Fill(@, n)]
      /\ Execute(a, h, n, mid)
      /\ openOrders' = Unregister(IdsFilledBy(n, {h}))
      /\ pegs' = IF orders[h].quantity = n THEN [pegs EXCEPT ![side] = Tail(@)] ELSE pegs
      /\ UNCHANGED <<book, pc, mid, calls>>
  BY DEF MatchPegPool
<1>2. a \in Refs /\ a \notin Resting /\ orders[a] \in OrderRecord
  BY <1>1, HeapHoldsOrders DEF IncomingIsNotResting, Dealing, TypeOK, incoming
<1>3. side \in Sides
  BY <1>2, OrderFields DEF Sides, Opposite, incomingSide
<1>4. /\ h \in PegOrders(side) /\ h \in Refs /\ h \in Resting /\ IsLive(h) /\ a # h
      /\ orders[h] \in OrderRecord /\ orders[h].side = side
      /\ orders[h].ordType = "PEG_MID"
  <2>1. h \in Range(pool)
    BY <1>1, <1>3, RestingOrders, TailOfQueue
  <2> QED BY <2>1, <1>2, <1>3, RestingOrders, HeapHoldsOrders DEF PegOrders
<1>5. n \in 1 .. orders[a].quantity /\ n \in 1 .. orders[h].quantity
  BY <1>1, <1>2, <1>4, OrderFields DEF Least, IsLive
<1> HIDE DEF n, h, a, pool, side
<1>8. ASSUME NEW s \in Sides
      PROVE  /\ pegs'[s] \in Seq(Refs) /\ IsInjective(pegs'[s])
             /\ \A r \in Range(pegs'[s]) :
                   r \in PegOrders(s) /\ r # a /\ (r = h => orders[h].quantity > n)
  <2>1. /\ pegs[s] \in Seq(Refs) /\ IsInjective(pegs[s])
        /\ a \notin PegOrders(s)
    BY <1>2, RestingOrders DEF Resting
  <2>2. s # side => h \notin PegOrders(s)
    BY <1>4, RestingOrders
  <2>3. CASE s = side /\ orders[h].quantity = n
    <3>1. pegs'[s] = Tail(pool)
      BY <1>1, <2>3, <1>3 DEF pool, TypeOK
    <3>2. h = Head(pool) /\ pool = pegs[s] /\ pool # <<>>
      BY <1>1, <2>3 DEF h, pool
    <3> QED BY <2>1, <3>1, <3>2, TailOfQueue DEF PegOrders
  <2>4. CASE ~ (s = side /\ orders[h].quantity = n)
    <3>1. pegs'[s] = pegs[s]
      BY <1>1, <2>4, <1>3 DEF TypeOK
    <3>2. s = side => orders[h].quantity > n
      BY <2>4, <1>4, <1>5, OrderFields
    <3> QED BY <2>1, <2>2, <3>1, <3>2 DEF PegOrders
  <2> QED BY <2>3, <2>4
<1>9. /\ TypeOK' /\ LimitsHavePrices' /\ BookHoldsLiveOrders' /\ DisplayedSlice'
      /\ BookNotCrossed' /\ Resting' \subseteq Resting /\ incoming' = incoming
      /\ orders'[a] = Fill(orders[a], n)
  <2>1. mid \in Nat
    BY <1>1 DEF TypeOK, PhaseFacts
  <2>2. \A s \in Sides : a \notin LitOrders(s) /\ h \notin LitOrders(s)
    BY <1>2, <1>4, RestingOrders DEF LitOrders, Resting
  <2>3. orders' = [orders EXCEPT ![a] = Fill(orders[a], n), ![h] = Fill(orders[h], n)]
    BY <1>1, <1>4
  <2>4. pegs' = [s \in Sides |-> pegs'[s]]
    BY <1>1 DEF TypeOK
  <2>5. \A r \in {a, h} : orders[r].status \in {"OPEN", "PARTIALLY_FILLED"}
    BY <1>1, <1>4 DEF a, IsLive, IncomingIsNotResting, Dealing
  <2>6. PegTrade(a, h, n)
    BY <2>1, <2>2, <2>3, <2>4, <2>5, <1>1, <1>2, <1>4, <1>5, <1>8 DEF PegTrade
  <2> QED BY <2>6, PegTradeKeepsBook
<1>10. IncomingIsNotResting'
  <2>1. orders'[a].quantity > 0 => orders'[a].status \in {"OPEN", "PARTIALLY_FILLED"}
    BY <1>2, <1>5, <1>9, FillOrder, OrderFields
  <2> QED BY <2>1, <1>2, <1>9 DEF IncomingIsNotResting, a
<1>11. PhaseFacts'
  BY <1>1 DEF PhaseFacts
<1> QED BY <1>9, <1>10, <1>11

\* An iteration of crossPegPools keeps the invariant: of the two heads, those leave their
\* pool that have nothing left.
LEMMA CrossPegPoolsKeepsIInv == IInv /\ CrossPegPools => IInv'
<1> SUFFICES ASSUME IInv, CrossPegPools PROVE IInv'
  OBVIOUS
<1> DEFINE b == Head(pegs["BUY"])
           a == Head(pegs["SELL"])
           n == Least(orders[b].quantity, orders[a].quantity)
<1> USE DEF IInv
<1>1. /\ pc = "cross" /\ mid # NA /\ \A s \in Sides : pegs[s] # <<>>
      /\ orders' = [orders EXCEPT ![b] = Fill(@, n), ![a] = Fill(@, n)]
      /\ Execute(b, a, n, mid) \/ Execute(a, b, n, mid)
      /\ openOrders' = Unregister(IdsFilledBy(n, {b, a}))
      /\ pegs' = [s \in Sides |-> IF orders[Head(pegs[s])].quantity = n
                                 THEN Tail(pegs[s]) ELSE pegs[s]]
      /\ UNCHANGED <<book, pc, mid, calls>>
  BY DEF CrossPegPools, LaterArrival, Sides
<1>2. \A s \in Sides : /\ Head(pegs[s]) \in PegOrders(s)
                        /\ Tail(pegs[s]) \in Seq(Refs) /\ IsInjective(Tail(pegs[s]))
                        /\ Range(Tail(pegs[s])) = PegOrders(s) \ {Head(pegs[s])}
  BY <1>1, RestingOrders, TailOfQueue DEF PegOrders
<1>3. /\ b \in PegOrders("BUY") /\ b \in Refs /\ IsLive(b) /\ orders[b].side = "BUY"
      /\ orders[b] \in OrderRecord /\ orders[b].ordType = "PEG_MID"
  BY <1>2, RestingOrders, HeapHoldsOrders DEF Sides
<1>4. /\ a \in PegOrders("SELL") /\ a \in Refs /\ IsLive(a) /\ orders[a].side = "SELL"
      /\ orders[a] \in OrderRecord /\ orders[a].ordType = "PEG_MID"
  BY <1>2, RestingOrders, HeapHoldsOrders DEF Sides
<1>5. n \in 1 .. orders[b].quantity /\ n \in 1 .. orders[a].quantity
  BY <1>3, <1>4, OrderFields DEF Least, IsLive
<1>6. ASSUME NEW s \in Sides
      PROVE  /\ pegs'[s] \in Seq(Refs) /\ IsInjective(pegs'[s])
             /\ \A r \in Range(pegs'[s]) :
                   r \in PegOrders(s) /\ (r \in {b, a} => orders[r].quantity > n)
  <2>1. \A r \in PegOrders(s) : r \in {b, a} => r = Head(pegs[s])
    BY <1>3, <1>4, RestingOrders DEF Sides
  <2>2. pegs[s] \in Seq(Refs) /\ IsInjective(pegs[s]) /\ Range(pegs[s]) = PegOrders(s)
    BY RestingOrders DEF PegOrders
  <2>3. Head(pegs[s]) \in {a, b}
    BY DEF Sides
  <2>4. orders[Head(pegs[s])].quantity # n => orders[Head(pegs[s])].quantity > n
    BY <2>3, <1>3, <1>4, <1>5, OrderFields
  <2>5. pegs'[s] = IF orders[Head(pegs[s])].quantity = n THEN Tail(pegs[s]) ELSE pegs[s]
    BY <1>1
  <2> QED BY <2>1, <2>2, <2>4, <2>5, <1>2
<1> HIDE DEF n, a, b
<1>7. PegTrade(b, a, n)
  <2>1. mid \in Nat /\ b # a
    BY <1>1, <1>3, <1>4 DEF TypeOK
  <2>2. \A s \in Sides : b \notin LitOrders(s) /\ a \notin LitOrders(s)
    BY <1>3, <1>4, RestingOrders DEF LitOrders
  <2>3. orders' = [orders EXCEPT ![b] = Fill(orders[b], n), ![a] = Fill(orders[a], n)]
    BY <1>1, <2>1
  <2>4. pegs' = [s \in Sides |-> pegs'[s]]
    BY <1>1
  <2> QED BY <2>1, <2>2, <2>3, <2>4, <1>1, <1>3, <1>4, <1>5, <1>6 DEF PegTrade, IsLive
<1>8. IncomingIsNotResting' /\ PhaseFacts'
  BY <1>1 DEF IncomingIsNotResting, PhaseFacts, Dealing
<1> QED BY <1>7, <1>8, PegTradeKeepsBook

\* A step between two loops touches nothing but the control state.
ControlOnly ==
    /\ orders' = orders /\ book' = book /\ pegs' = pegs /\ openOrders' = openOrders
    /\ trades' = trades /\ reports' = reports /\ calls' = calls
    /\ pc' \in {"idle", "pegs", "lit", "rest", "cross"} /\ mid' \in Nat \cup {NA}
    /\ pc' \in {"pegs", "lit", "rest"} => pc \in {"pegs", "lit", "rest"}

\* Moving from one loop to the next keeps the invariant if it keeps PhaseFacts.
LEMMA ControlStep == IInv /\ ControlOnly /\ PhaseFacts' => IInv'
<1> SUFFICES ASSUME IInv, ControlOnly, PhaseFacts' PROVE IInv'
  OBVIOUS
<1> USE DEF IInv
<1>1. UNCHANGED <<orders, book, pegs, openOrders, trades, reports, calls>>
  BY DEF ControlOnly
<1>2. TypeOK'
  BY <1>1, BoundsAssumption DEF TypeOK, Refs, TradeRecord, ReportRecord, ControlOnly
<1>3. LimitsHavePrices' /\ BookHoldsLiveOrders'
  BY <1>1 DEF LimitsHavePrices, BookHoldsLiveOrders, Refs, LitLevelsHoldLiveOrders,
              PegPoolsHoldLiveOrders, PegOrders, IsLive
<1>4. DisplayedSlice' /\ BookNotCrossed'
  BY <1>1 DEF DisplayedSlice, LitOrders, BookNotCrossed, Bids, Asks
<1>5. IncomingIsNotResting'
  BY <1>1 DEF IncomingIsNotResting, Resting, PegOrders, LitOrders, Dealing, incoming,
              ControlOnly
<1> QED BY <1>2, <1>3, <1>4, <1>5

\* Leaving matchPegPool keeps the invariant: only an order with a limit goes on to the
\* lit book.
LEMMA MatchPegPoolEndsKeepsIInv == IInv /\ MatchPegPoolEnds => IInv'
<1> SUFFICES ASSUME IInv, MatchPegPoolEnds PROVE IInv'
  OBVIOUS
<1>1. orders[incoming].ordType \in OrdTypes
  BY HeapHoldsOrders, OrderFields DEF IInv, TypeOK, MatchPegPoolEnds, incoming
<1>2. PhaseFacts'
  BY <1>1 DEF MatchPegPoolEnds, PhaseFacts, OrdTypes, books, incoming
<1>3. ControlOnly
  BY DEF MatchPegPoolEnds, ControlOnly, books, IInv, TypeOK
<1> QED BY <1>2, <1>3, ControlStep

\* The loop over the lit book ends with nothing left, or nothing to trade with.
LEMMA MatchLitEndsKeepsIInv == IInv /\ MatchLitEnds => IInv'
<1> SUFFICES ASSUME IInv, MatchLitEnds PROVE IInv'
  OBVIOUS
<1> DEFINE side   == Opposite(incomingSide)
           levels == DOMAIN book[side]
           limit  == orders[incoming].price
<1>1. /\ UNCHANGED <<orders, books, trades, reports>> /\ calls' = calls
      /\ pc = "lit" /\ pc' = "rest" /\ mid' = mid
  BY DEF MatchLitEnds
<1>2. /\ incoming \in Refs /\ orders[incoming].ordType = "LIMIT"
      /\ incomingSide \in Sides /\ side \in Sides /\ limit \in Price
      /\ levels \subseteq Price
  <2>1. incoming \in Refs
    BY <1>1, HeapHoldsOrders DEF IInv, TypeOK, incoming
  <2>2. incomingSide \in Sides /\ side \in Sides
    BY <2>1, HeapHoldsOrders, OrderFields DEF IInv, incomingSide, Sides, Opposite
  <2> QED BY <1>1, <2>1, <2>2 DEF IInv, PhaseFacts, LimitsHavePrices, TypeOK
<1>3. orders[incoming].quantity > 0 =>
         \A p \in levels : ~ Marketable(incomingSide, limit, p)
  <2> SUFFICES ASSUME orders[incoming].quantity > 0, NEW p \in levels
               PROVE  ~ Marketable(incomingSide, limit, p)
    OBVIOUS
  <2> DEFINE best == BestPrice(side, levels)
  <2>1. /\ best \in levels
        /\ IF side = "BUY" THEN p <= best ELSE p >= best
    BY <1>2, BestPriceIsBest
  <2>2. ~ IsMatchLevel(best)
    BY <2>1, HeapHoldsOrders, OrderFields, <1>2 DEF MatchLitEnds, IInv
  <2>3. ~ Marketable(incomingSide, limit, best)
    BY <2>1, <2>2 DEF IsMatchLevel
  <2>4. p \in Nat /\ best \in Nat /\ limit \in Nat
    BY <2>1, <1>2, PricesAreNat
  <2>5. side = IF incomingSide = "BUY" THEN "SELL" ELSE "BUY"
    BY DEF Opposite
  <2> HIDE DEF best, limit, levels, side
  <2> QED BY <2>1, <2>3, <2>4, <2>5 DEF Marketable
<1>4. PhaseFacts'
  <2>1. orders' = orders /\ book' = book /\ incoming' = incoming
        /\ incomingSide' = incomingSide
    BY <1>1 DEF books, incoming, incomingSide
  <2> QED BY <1>1, <1>3, <2>1 DEF PhaseFacts
<1>5. ControlOnly
  BY <1>1 DEF ControlOnly, books, IInv, TypeOK
<1> QED BY <1>4, <1>5, ControlStep

\* An order that is filled leaves nothing to rest.
LEMMA NoRemainderKeepsIInv == IInv /\ NoRemainder => IInv'
<1> SUFFICES ASSUME IInv, NoRemainder PROVE IInv'
  OBVIOUS
<1>1. Mid \in Nat \cup {NA}
  BY MidIsPriceOrNA DEF Mid, Bids, Asks, IInv, TypeOK, Sides
<1>2. /\ UNCHANGED <<orders, books, trades, reports>> /\ calls' = calls
      /\ pc' \in {"idle", "cross"} /\ mid' \in Nat \cup {NA}
  BY <1>1 DEF NoRemainder, AfterRest, Return
<1>3. PhaseFacts' /\ ControlOnly
  BY <1>2 DEF PhaseFacts, ControlOnly, books
<1> QED BY <1>3, ControlStep

\* Leaving crossPegPools ends the call.
LEMMA CrossPegPoolsEndsKeepsIInv == IInv /\ CrossPegPoolsEnds => IInv'
<1> SUFFICES ASSUME IInv, CrossPegPoolsEnds PROVE IInv'
  OBVIOUS
<1>1. /\ UNCHANGED <<orders, books, trades, reports>> /\ calls' = calls
      /\ pc' = "idle" /\ mid' = NA
  BY DEF CrossPegPoolsEnds, Return
<1>2. PhaseFacts' /\ ControlOnly
  BY <1>1 DEF PhaseFacts, ControlOnly, books
<1> QED BY <1>2, ControlStep

\* The invariant is about the variables alone.
LEMMA StutterKeepsIInv == IInv /\ UNCHANGED vars => IInv'
<1> SUFFICES ASSUME IInv, UNCHANGED vars PROVE IInv'
  OBVIOUS
<1>1. /\ UNCHANGED <<orders, books, trades, reports>> /\ calls' = calls
      /\ pc' = pc /\ mid' = mid /\ book' = book
  BY DEF vars, books
<1>2. PhaseFacts'
  BY <1>1 DEF PhaseFacts, IInv, incoming, incomingSide
<1>3. ControlOnly
  BY <1>1 DEF ControlOnly, books, IInv, TypeOK
<1> QED BY <1>2, <1>3, ControlStep

-----------------------------------------------------------------------------
(* addOrder: the heap grows by one object that rests nowhere yet. *)

\* A new order object gets the next reference and changes no other object.
LEMMA ArrivalGrowsHeap ==
    ASSUME TypeOK, NEW t \in Tickets, Arrive(t)
    PROVE  /\ orders' \in Seq(OrderRecord) /\ Refs \subseteq Refs' /\ orders' # <<>>
           /\ incoming' = incoming + 1 /\ incoming' \in Refs' /\ incoming' \notin Refs
           /\ \A r \in Refs : orders'[r] = orders[r]
           /\ Refs' = Refs \cup {incoming'}
           /\ \E ts \in Nat : orders'[incoming'] = NewOrder(t, ts)
<1>1. PICK step \in TimeSteps :
         orders' = Append(orders, NewOrder(t,
                      step + IF orders = <<>> THEN 1 ELSE orders[incoming].timeStamp))
  BY DEF Arrive
<1> DEFINE ts == step + IF orders = <<>> THEN 1 ELSE orders[incoming].timeStamp
<1>2. ts \in Nat
  <2>1. step \in Nat
    BY BoundsAssumption
  <2>2. orders # <<>> => incoming \in Refs
    BY HeapHoldsOrders DEF incoming, TypeOK
  <2>3. orders # <<>> => orders[incoming].timeStamp \in Nat
    BY <2>2, HeapHoldsOrders, OrderFields
  <2> QED BY <2>1, <2>3
<1> HIDE DEF ts
<1>3. NewOrder(t, ts) \in OrderRecord
  BY <1>2, NewOrderIsOrder
<1> DEFINE o == NewOrder(t, ts)
<1>4. orders' = Append(orders, o)
  BY <1>1 DEF ts
<1>5. o \in OrderRecord /\ orders \in Seq(OrderRecord)
  BY <1>3 DEF TypeOK
<1> HIDE DEF o
<1>6. /\ orders' \in Seq(OrderRecord) /\ orders' # <<>> /\ Len(orders') = Len(orders) + 1
      /\ \A i \in 1 .. Len(orders) : orders'[i] = orders[i]
      /\ orders'[Len(orders) + 1] = o
  BY <1>4, <1>5, AppendProperties
<1>7. Refs = 1 .. Len(orders) /\ Len(orders) \in Nat /\ Refs' = 1 .. Len(orders')
  BY <1>5, <1>6, LenProperties DEF Refs
<1>8. \E x \in Nat : orders'[Len(orders')] = NewOrder(t, x)
  BY <1>2, <1>6 DEF o
<1> QED BY <1>6, <1>7, <1>8 DEF incoming

\* A new order object is on no queue, and the queues stay well formed.
LEMMA ArrivalKeepsBook ==
    ASSUME IInv, NEW t \in Tickets, Arrive(t), UNCHANGED <<book, pegs, openOrders, trades>>
    PROVE  /\ LimitsHavePrices' /\ BookHoldsLiveOrders' /\ DisplayedSlice'
           /\ BookNotCrossed' /\ Resting' = Resting /\ incoming' \notin Resting'
           /\ orders'[incoming'].status = "OPEN"
           /\ orders'[incoming'].ordType = t.ordType
           /\ \A s \in Sides : /\ DOMAIN book'[s] \subseteq Price
                               /\ \A p \in DOMAIN book'[s] : book'[s][p] \in Seq(Refs')
           /\ DOMAIN book' = Sides /\ pegs' \in [Sides -> Seq(Refs')]
           /\ DOMAIN openOrders' \subseteq Nat
           /\ \A id \in DOMAIN openOrders' : openOrders'[id] \in Refs'
           /\ trades' \in Seq(TradeRecord')
           /\ reports \in Seq(ReportRecord' \cup AnswerRecord)
<1> USE DEF IInv
<1>1. /\ Refs \subseteq Refs' /\ Refs' = Refs \cup {incoming'} /\ incoming' \notin Refs
      /\ \A r \in Refs : orders'[r] = orders[r]
  BY ArrivalGrowsHeap
<1>2. PICK ts \in Nat : orders'[incoming'] = NewOrder(t, ts)
  BY ArrivalGrowsHeap
<1>3. /\ orders'[incoming'].ordType = "LIMIT" => orders'[incoming'].price \in Price
      /\ orders'[incoming'].status = "OPEN" /\ orders'[incoming'].ordType = t.ordType
  BY <1>2, NewOrderIsOrder
<1>4. LimitsHavePrices'
  BY <1>1, <1>3 DEF LimitsHavePrices
<1>5. /\ LitLevelsHoldLiveOrders' /\ DisplayedSlice' /\ BookNotCrossed'
      /\ \A s \in Sides : LitOrders(s)' = LitOrders(s)
  <2>1. \A s \in Sides : \A r \in LitOrders(s) : r \in Refs
    BY RestingOrders DEF LitOrders
  <2> QED BY <2>1, <1>1, LitBookUntouched
<1>6. \A s \in Sides : PegOrders(s)' = PegOrders(s)
  BY DEF PegOrders
<1>7. PegPoolsHoldLiveOrders'
  <2>1. ASSUME NEW s \in Sides
        PROVE  /\ IsInjective(pegs'[s])
               /\ \A r \in PegOrders(s)' :
                     IsLive(r)' /\ orders'[r].side = s /\ orders'[r].ordType = "PEG_MID"
    BY <1>1, <1>6, RestingOrders DEF IsLive
  <2> QED BY <2>1 DEF PegPoolsHoldLiveOrders
<1>8. Resting' = Resting
  BY <1>5, <1>6 DEF Resting
<1>9. Resting \subseteq Refs
  BY RestingOrders DEF Resting, LitOrders
<1>10. \A q \in Seq(Refs) : q \in Seq(Refs')
  BY <1>1, SeqMonotonic
<1>11. /\ \A s \in Sides : /\ DOMAIN book'[s] \subseteq Price
                           /\ \A p \in DOMAIN book'[s] : book'[s][p] \in Seq(Refs')
       /\ DOMAIN book' = Sides
       /\ DOMAIN openOrders' \subseteq Nat
       /\ \A id \in DOMAIN openOrders' : openOrders'[id] \in Refs'
  BY <1>1, <1>10 DEF TypeOK
<1>12. pegs' \in [Sides -> Seq(Refs')]
  BY <1>10 DEF TypeOK
<1>13. trades' \in Seq(TradeRecord')
  <2>1. TradeRecord \subseteq TradeRecord'
    BY <1>1 DEF TradeRecord
  <2>2. trades \in Seq(TradeRecord) /\ trades' = trades
    BY DEF TypeOK
  <2> QED BY <2>1, <2>2, SeqMonotonic
<1>14. reports \in Seq(ReportRecord' \cup AnswerRecord)
  <2>1. (ReportRecord \cup AnswerRecord) \subseteq (ReportRecord' \cup AnswerRecord)
    BY <1>1 DEF ReportRecord
  <2>2. reports \in Seq(ReportRecord \cup AnswerRecord)
    BY DEF TypeOK
  <2> QED BY <2>1, <2>2, SeqMonotonic
<1> QED BY <1>1, <1>3, <1>4, <1>5, <1>7, <1>8, <1>9, <1>11, <1>12, <1>13, <1>14
     DEF BookHoldsLiveOrders

\* Entering addOrder keeps the invariant: the new order rests nowhere, and goes to the
\* peg pool only with a midpoint and to the lit book only with a limit.
LEMMA AddOrderKeepsIInv == \A t \in Tickets : IInv /\ AddOrder(t) => IInv'
<1> SUFFICES ASSUME NEW t \in Tickets, IInv, AddOrder(t) PROVE IInv'
  OBVIOUS
<1> USE DEF IInv
<1>1. /\ Arrive(t) /\ UNCHANGED <<book, pegs, openOrders, trades>> /\ reports' = reports
      /\ calls' = calls + 1 /\ calls < MaxCalls /\ mid' = Mid
      /\ pc' = IF t.ordType = "PEG_MID"
               THEN IF Mid = NA THEN "rest" ELSE "pegs"
               ELSE IF Mid # NA /\ CrossesMid(t.side, t.price, Mid)
                    THEN "pegs" ELSE "lit"
  BY DEF AddOrder, Call
<1>2. Mid \in Nat \cup {NA}
  BY MidIsPriceOrNA DEF Mid, Bids, Asks, TypeOK, Sides
<1>3. calls' \in 0 .. MaxCalls
  BY <1>1, BoundsAssumption DEF TypeOK
<1>4. t.ordType \in {"LIMIT", "PEG_MID"}
  BY TicketsAssumption DEF TicketRecord, OrdTypes
<1>5. TypeOK'
  <2>1. pc' \in {"idle", "pegs", "lit", "rest", "cross"}
    BY <1>1
  <2> QED BY <2>1, <1>1, <1>2, <1>3, ArrivalGrowsHeap, ArrivalKeepsBook DEF TypeOK
<1>6. IncomingIsNotResting'
  BY <1>1, ArrivalKeepsBook DEF IncomingIsNotResting
<1>7. PhaseFacts'
  <2>1. orders'[incoming'].ordType = t.ordType
    BY <1>1, ArrivalKeepsBook
  <2> QED BY <2>1, <1>1, <1>4 DEF PhaseFacts
<1> QED BY <1>1, <1>5, <1>6, <1>7, ArrivalKeepsBook

\* A fill-or-kill order that is turned away leaves the book as it was.
LEMMA AddOrderKilledKeepsIInv == \A t \in Tickets : IInv /\ AddOrderKilled(t) => IInv'
<1> SUFFICES ASSUME NEW t \in Tickets, IInv, AddOrderKilled(t) PROVE IInv'
  OBVIOUS
<1> USE DEF IInv
<1> DEFINE report == Report("EXPIRED", incoming + 1, NA, NA, NA, t.quantity)
<1>1. /\ Arrive(t) /\ UNCHANGED <<book, pegs, openOrders, trades, pc, mid>>
      /\ pc = "idle" /\ calls' = calls + 1 /\ calls < MaxCalls
      /\ reports' = Append(reports, report)
  BY DEF AddOrderKilled, Call
<1>2. calls' \in 0 .. MaxCalls
  BY <1>1, BoundsAssumption DEF TypeOK
<1>3. report \in ReportRecord'
  <2>1. incoming + 1 \in Refs' /\ t.quantity \in Nat
    BY <1>1, ArrivalGrowsHeap, TicketsAssumption DEF TicketRecord
  <2> QED BY <2>1 DEF Report, ReportRecord
<1> HIDE DEF report
<1>4. reports' \in Seq(ReportRecord' \cup AnswerRecord)
  BY <1>1, <1>3, ArrivalKeepsBook, AppendProperties
<1>5. TypeOK'
  <2>1. /\ pc' \in {"idle", "pegs", "lit", "rest", "cross"} /\ mid' \in Nat \cup {NA}
    BY <1>1 DEF TypeOK
  <2> QED BY <2>1, <1>1, <1>2, <1>4, ArrivalGrowsHeap, ArrivalKeepsBook DEF TypeOK
<1>6. IncomingIsNotResting' /\ PhaseFacts'
  BY <1>1 DEF IncomingIsNotResting, PhaseFacts, Dealing
<1> QED BY <1>1, <1>5, <1>6, ArrivalKeepsBook

-----------------------------------------------------------------------------
(* The remainder of the incoming order. *)

\* What a running call knows of the order it deals with.
LEMMA IncomingOrder ==
    ASSUME IInv, Dealing
    PROVE  /\ incoming \in Refs /\ orders[incoming] \in OrderRecord
           /\ incoming \notin Resting /\ \A s \in Sides : incoming \notin LitOrders(s)
           /\ incomingSide \in Sides /\ orders[incoming].side = incomingSide
           /\ orders[incoming].quantity > 0 =>
                 orders[incoming].status \in {"OPEN", "PARTIALLY_FILLED"}
<1>1. incoming \in Refs
  BY HeapHoldsOrders DEF IInv, TypeOK, incoming, Dealing
<1> QED BY <1>1, HeapHoldsOrders, OrderFields
     DEF IInv, IncomingIsNotResting, Resting, LitOrders, incomingSide

\* onAccepted and onExpired are told of an order in the heap.
LEMMA ReportKeepsType ==
    ASSUME TypeOK, Refs' = Refs, NEW r \in Refs, NEW kind \in {"ACCEPTED", "EXPIRED"},
           NEW price \in Nat \cup {NA}, NEW q \in Nat,
           reports' = Append(reports, Report(kind, r, NA, price, NA, q))
    PROVE  reports' \in Seq(ReportRecord' \cup AnswerRecord)
<1> DEFINE report == Report(kind, r, NA, price, NA, q)
<1>1. report \in ReportRecord
  BY DEF Report, ReportRecord
<1>2. ReportRecord' = ReportRecord
  BY DEF ReportRecord
<1> HIDE DEF report
<1> QED BY <1>1, <1>2, AppendProperties DEF TypeOK, report

\* restPeg keeps the invariant: a live peg joins the back of its pool once.
LEMMA RestPegKeepsIInv == IInv /\ RestPeg => IInv'
<1> SUFFICES ASSUME IInv, RestPeg PROVE IInv'
  OBVIOUS
<1> USE DEF IInv
<1> DEFINE order == orders[incoming]
           side  == order.side
<1>1. /\ pc = "rest" /\ order.quantity > 0
      /\ order.tif = "GTC" /\ order.ordType = "PEG_MID"
      /\ pegs' = [pegs EXCEPT ![side] = Append(@, incoming)]
      /\ openOrders' = Register(incoming)
      /\ reports' = Append(reports,
             Report("ACCEPTED", incoming, NA, order.price, NA, order.quantity))
      /\ pc' = "idle" /\ mid' = NA
      /\ UNCHANGED <<orders, book, trades, calls>>
  BY DEF RestPeg, Return, AddLast
<1>2. /\ incoming \in Refs /\ order \in OrderRecord /\ incoming \notin Resting
      /\ side \in Sides /\ IsLive(incoming) /\ order.price \in Nat \cup {NA}
      /\ order.quantity \in Nat /\ Refs' = Refs
  BY <1>1, IncomingOrder, OrderFields DEF Dealing, IsLive, Refs
<1> HIDE DEF order
<1>3. /\ \A s \in Sides : pegs'[s] = IF s = side THEN Append(pegs[s], incoming) ELSE pegs[s]
      /\ pegs' = [s \in Sides |-> pegs'[s]]
  BY <1>1, <1>2 DEF TypeOK
<1>4. ASSUME NEW s \in Sides
      PROVE  /\ pegs'[s] \in Seq(Refs) /\ IsInjective(pegs'[s])
             /\ \A r \in Range(pegs'[s]) : r \in PegOrders(s) \/ (r = incoming /\ s = side)
  <2>1. /\ pegs[s] \in Seq(Refs) /\ IsInjective(pegs[s])
        /\ incoming \notin Range(pegs[s]) /\ Range(pegs[s]) = PegOrders(s)
    BY <1>2, RestingOrders DEF Resting, PegOrders
  <2>2. CASE s = side
    <3> DEFINE w == Append(pegs[s], incoming)
    <3>1. w \in Seq(Refs) /\ IsInjective(w) /\ Range(w) = PegOrders(s) \cup {incoming}
      <4>1. incoming \in Refs
        BY <1>2
      <4> QED BY <4>1, <2>1, AppendToQueue
    <3>2. pegs'[s] = w
      BY <2>2, <1>3
    <3> HIDE DEF w
    <3> QED BY <3>1, <3>2, <2>2
  <2>3. CASE s # side
    BY <2>1, <2>3, <1>3
  <2> QED BY <2>2, <2>3
<1>5. TypeOK'
  <2>1. /\ (DOMAIN openOrders)' \subseteq Nat
        /\ \A id \in (DOMAIN openOrders)' : openOrders'[id] \in Refs'
    BY <1>1, <1>2, RegisterKeepsType
  <2>2. reports' \in Seq(ReportRecord' \cup AnswerRecord)
    BY <1>1, <1>2, ReportKeepsType
  <2>3. pegs' \in [Sides -> Seq(Refs')]
    BY <1>2, <1>3, <1>4
  <2> QED BY <2>1, <2>2, <2>3, <1>1, <1>2 DEF TypeOK, TradeRecord
<1>6. LimitsHavePrices'
  BY <1>1, <1>2 DEF LimitsHavePrices
<1>7. LitLevelsHoldLiveOrders' /\ DisplayedSlice' /\ BookNotCrossed'
  BY <1>1, LitBookUntouched
<1>8. PegPoolsHoldLiveOrders'
  <2>1. ASSUME NEW s \in Sides, NEW r \in Range(pegs'[s])
        PROVE  IsLive(r)' /\ orders'[r].side = s /\ orders'[r].ordType = "PEG_MID"
    <3>1. IsLive(r) /\ orders[r].side = s /\ orders[r].ordType = "PEG_MID"
      BY <2>1, <1>1, <1>2, <1>4, RestingOrders DEF order
    <3> QED BY <3>1, <1>1 DEF IsLive
  <2> QED BY <2>1, <1>4 DEF PegPoolsHoldLiveOrders, PegOrders
<1>9. IncomingIsNotResting' /\ PhaseFacts'
  BY <1>1 DEF IncomingIsNotResting, PhaseFacts, Dealing
<1> QED BY <1>5, <1>6, <1>7, <1>8, <1>9 DEF BookHoldsLiveOrders

\* An order that is on no queue changes; all that can be disturbed is the heap.
LEMMA OrderOffBookChanges ==
    ASSUME IInv, NEW a \in Refs, a \notin Resting, NEW o \in OrderRecord,
           o.ordType = orders[a].ordType, o.price = orders[a].price,
           orders' = [orders EXCEPT ![a] = o], UNCHANGED <<book, pegs>>
    PROVE  /\ orders' \in Seq(OrderRecord) /\ Refs' = Refs /\ incoming' = incoming
           /\ orders' # <<>> /\ LimitsHavePrices' /\ BookHoldsLiveOrders'
           /\ DisplayedSlice' /\ BookNotCrossed'
<1> USE DEF IInv
<1>1. /\ orders' \in Seq(OrderRecord) /\ Refs' = Refs /\ incoming' = incoming
      /\ orders'[a] = o /\ \A r \in Refs \ {a} : orders'[r] = orders[r]
  BY HeapHoldsOrders, OneOrderChanges DEF Refs, incoming
<1>2. orders' # <<>>
  BY <1>1 DEF Refs
<1>3. LimitsHavePrices'
  BY <1>1 DEF LimitsHavePrices
<1>4. LitLevelsHoldLiveOrders' /\ DisplayedSlice' /\ BookNotCrossed'
  <2>1. \A s \in Sides : \A r \in LitOrders(s) : r \in Refs /\ r # a
    BY RestingOrders DEF LitOrders, Resting
  <2> QED BY <2>1, <1>1, LitBookUntouched
<1>5. PegPoolsHoldLiveOrders'
  <2>1. ASSUME NEW s \in Sides
        PROVE  /\ IsInjective(pegs'[s])
               /\ \A r \in Range(pegs'[s]) :
                     IsLive(r)' /\ orders'[r].side = s /\ orders'[r].ordType = "PEG_MID"
    <3>1. \A r \in PegOrders(s) : r \in Refs /\ r # a
      BY RestingOrders
    <3> QED BY <3>1, <1>1, RestingOrders DEF IsLive, PegOrders
  <2> QED BY <2>1 DEF PegPoolsHoldLiveOrders, PegOrders
<1> QED BY <1>1, <1>2, <1>3, <1>4, <1>5 DEF BookHoldsLiveOrders

\* An order that expires is on no queue, so no queue holds an expired order.
LEMMA ExpireRemainderKeepsIInv == IInv /\ ExpireRemainder => IInv'
<1> SUFFICES ASSUME IInv, ExpireRemainder PROVE IInv'
  OBVIOUS
<1> USE DEF IInv
<1> DEFINE order == orders[incoming]
<1>1. /\ pc = "rest" /\ UNCHANGED <<books, trades, calls>>
      /\ orders' = [orders EXCEPT ![incoming] = Expire(@)]
      /\ reports' = Append(reports,
             Report("EXPIRED", incoming, NA, NA, NA, order.quantity))
      /\ pc' \in {"idle", "cross"} /\ mid' \in {NA, Mid}
  BY DEF ExpireRemainder, AfterRest, Return
<1>2. incoming \in Refs /\ incoming \notin Resting /\ order \in OrderRecord
      /\ order.quantity \in Nat
  BY <1>1, IncomingOrder, OrderFields DEF Dealing
<1>3. UNCHANGED <<book, pegs, openOrders, trades, calls>>
  BY <1>1 DEF books
<1>4. /\ Expire(order) \in OrderRecord
      /\ Expire(order).ordType = order.ordType /\ Expire(order).price = order.price
  BY <1>2 DEF Expire, OrderRecord, Statuses
<1>5. /\ orders' \in Seq(OrderRecord) /\ Refs' = Refs /\ orders' # <<>>
      /\ LimitsHavePrices' /\ BookHoldsLiveOrders' /\ DisplayedSlice' /\ BookNotCrossed'
  <2> DEFINE o == Expire(orders[incoming])
  <2>1. /\ o \in OrderRecord /\ o.ordType = orders[incoming].ordType
        /\ o.price = orders[incoming].price
    BY <1>4
  <2>2. orders' = [orders EXCEPT ![incoming] = o]
    BY <1>1
  <2> HIDE DEF o
  <2> QED BY <2>1, <2>2, <1>2, <1>3, OrderOffBookChanges
<1>6. TypeOK'
  <2>1. Mid \in Nat \cup {NA}
    BY MidIsPriceOrNA DEF Mid, Bids, Asks, TypeOK, Sides
  <2>2. reports' \in Seq(ReportRecord' \cup AnswerRecord)
    BY <1>1, <1>2, <1>5, ReportKeepsType
  <2>3. mid' \in Nat \cup {NA} /\ pc' \in {"idle", "pegs", "lit", "rest", "cross"}
    BY <2>1, <1>1
  <2> QED BY <2>2, <2>3, <1>3, <1>5 DEF TypeOK, TradeRecord
<1>7. IncomingIsNotResting' /\ PhaseFacts'
  BY <1>1 DEF IncomingIsNotResting, PhaseFacts, Dealing
<1> QED BY <1>5, <1>6, <1>7

-----------------------------------------------------------------------------
(* cancelOrder. *)

\* The answer to a cancel is well formed.
LEMMA AnswerKeepsType ==
    ASSUME TypeOK, Refs' = Refs, NEW kind \in {"CANCELLED", "REJECTED"},
           NEW id \in CancelIds, reports' = Append(reports, Answer(kind, id))
    PROVE  reports' \in Seq(ReportRecord' \cup AnswerRecord)
<1> DEFINE answer == Answer(kind, id)
<1>1. answer \in AnswerRecord
  BY DEF Answer, AnswerRecord
<1>2. ReportRecord' = ReportRecord
  BY DEF ReportRecord
<1> HIDE DEF answer
<1> QED BY <1>1, <1>2, AppendProperties DEF TypeOK, answer

\* A refused cancel touches the id index only.
LEMMA CancelOrderRefusedKeepsIInv ==
    \A id \in CancelIds : IInv /\ CancelOrderRefused(id) => IInv'
<1> SUFFICES ASSUME NEW id \in CancelIds, IInv, CancelOrderRefused(id) PROVE IInv'
  OBVIOUS
<1> USE DEF IInv
<1>1. /\ UNCHANGED <<orders, book, pegs, trades, pc, mid>> /\ pc = "idle"
      /\ calls' = calls + 1 /\ calls < MaxCalls /\ openOrders' = Unregister({id})
      /\ reports' = Append(reports, Answer("REJECTED", id)) /\ Refs' = Refs
  BY DEF CancelOrderRefused, Call, Refs
<1>2. calls' \in 0 .. MaxCalls
  BY <1>1, BoundsAssumption DEF TypeOK
<1>3. reports' \in Seq(ReportRecord' \cup AnswerRecord)
  BY <1>1, AnswerKeepsType
<1>4. TypeOK'
  <2>1. /\ (DOMAIN openOrders)' \subseteq Nat
        /\ \A x \in (DOMAIN openOrders)' : openOrders'[x] \in Refs'
    BY <1>1, UnregisterKeepsType
  <2> QED BY <2>1, <1>1, <1>2, <1>3 DEF TypeOK, TradeRecord
<1>5. LimitsHavePrices' /\ PegPoolsHoldLiveOrders'
  BY <1>1 DEF LimitsHavePrices, BookHoldsLiveOrders, PegPoolsHoldLiveOrders, PegOrders,
              IsLive
<1>6. LitLevelsHoldLiveOrders' /\ DisplayedSlice' /\ BookNotCrossed'
  BY <1>1, LitBookUntouched
<1>7. IncomingIsNotResting' /\ PhaseFacts'
  BY <1>1 DEF IncomingIsNotResting, PhaseFacts, Dealing
<1> QED BY <1>4, <1>5, <1>6, <1>7 DEF BookHoldsLiveOrders

\* Deque.remove takes out the one occurrence of the reference, if any.
LEMMA WithoutRemoves ==
    ASSUME NEW S, NEW q \in Seq(S), IsInjective(q), NEW r
    PROVE  /\ Without(q, r) \in Seq(S) /\ IsInjective(Without(q, r))
           /\ Range(Without(q, r)) = Range(q) \ {r}
<1>1. CASE r \notin Range(q)
  BY <1>1 DEF Without
<1>2. CASE r \in Range(q)
  <2> DEFINE k == CHOOSE i \in DOMAIN q : q[i] = r
  <2>1. k \in DOMAIN q /\ q[k] = r
    BY <1>2 DEF Range
  <2>2. Without(q, r) = RemoveAt(q, k)
    BY <1>2 DEF Without
  <2> HIDE DEF k
  <2> QED BY <2>1, <2>2, RemoveFromQueue
<1> QED BY <1>1, <1>2

\* Replacing the queue at one price by one that is again all of Price.
LEMMA LevelReplaced ==
    ASSUME NEW levels, NEW p, NEW queue,
           NEW q \in DOMAIN WithLevel(levels, p, queue)
    PROVE  /\ q \in DOMAIN levels \cup {p}
           /\ q = p => queue # <<>> /\ WithLevel(levels, p, queue)[q] = queue
           /\ q # p => q \in DOMAIN levels /\ WithLevel(levels, p, queue)[q] = levels[q]
  BY DEF WithLevel

-----------------------------------------------------------------------------
(* One level of the lit book changes. *)

\* What the book asks of an order on a level.
FitsLevel(o, s, p) ==
    /\ o.quantity > 0 /\ o.status \in {"OPEN", "PARTIALLY_FILLED"} /\ o.tif = "GTC"
    /\ o.side = s /\ o.ordType = "LIMIT" /\ o.price = p
    /\ o.visibleQty \in 1 .. o.quantity
    /\ IF o.peak = 0 THEN o.visibleQty = o.quantity ELSE o.visibleQty <= o.peak

\* Every order on a level is what FitsLevel says.
LEMMA OrdersFitTheirLevels ==
    ASSUME IInv, NEW s \in Sides, NEW p \in DOMAIN book[s], NEW r \in Range(book[s][p])
    PROVE  FitsLevel(orders[r], s, p)
  BY RestingOrders DEF IInv, FitsLevel, DisplayedSlice, IsLive

\* The queue at one price is replaced, and no order on another level changes.
LevelChange(s, p, queue) ==
    /\ s \in Sides /\ p \in Price /\ queue \in Seq(Refs) /\ IsInjective(queue)
    /\ Refs' = Refs
    /\ book' = [book EXCEPT ![s] = WithLevel(book[s], p, queue)]
    /\ \A r \in Range(queue) : FitsLevel(orders'[r], s, p)
    /\ \A z \in Sides : \A q \in DOMAIN book[z] :
          z # s \/ q # p => \A r \in Range(book[z][q]) : orders'[r] = orders[r]

\* Replacing one level by a queue of orders that fit it keeps the lit book well formed,
\* and adds no price but that one and no order but those.
LEMMA LevelChangeKeepsBook ==
    ASSUME IInv, NEW s, NEW p, NEW queue, LevelChange(s, p, queue)
    PROVE  /\ DOMAIN book' = Sides
           /\ \A z \in Sides : /\ DOMAIN book'[z] \subseteq Price
                               /\ \A q \in DOMAIN book'[z] : book'[z][q] \in Seq(Refs')
                               /\ DOMAIN book'[z] \subseteq DOMAIN book[z] \cup {p}
                               /\ z # s => book'[z] = book[z]
           /\ LitLevelsHoldLiveOrders' /\ DisplayedSlice'
           /\ \A z \in Sides : \A r \in LitOrders(z)' :
                 \/ \E q \in DOMAIN book[z] : r \in Range(book[z][q]) /\ (z # s \/ q # p)
                 \/ (z = s /\ r \in Range(queue))
<1> USE DEF IInv
<1>1. /\ s \in Sides /\ p \in Price /\ queue \in Seq(Refs) /\ IsInjective(queue)
      /\ Refs' = Refs
  BY DEF LevelChange
<1>2. DOMAIN book = Sides
  BY DEF TypeOK
<1>3. /\ DOMAIN book' = Sides
      /\ \A z \in Sides : z # s => book'[z] = book[z]
      /\ book'[s] = WithLevel(book[s], p, queue)
  BY <1>1, <1>2 DEF LevelChange
<1>4. ASSUME NEW z \in Sides, NEW q \in DOMAIN book'[z]
      PROVE  /\ q \in Price /\ book'[z][q] \in Seq(Refs) /\ IsInjective(book'[z][q])
             /\ book'[z][q] # <<>> /\ q \in DOMAIN book[z] \cup {p}
             /\ \/ z = s /\ q = p /\ book'[z][q] = queue
                \/ (z # s \/ q # p) /\ q \in DOMAIN book[z] /\ book'[z][q] = book[z][q]
  <2>1. CASE z = s /\ q = p
    <3>1. queue # <<>> /\ book'[z][q] = queue
      BY <2>1, <1>3, LevelReplaced
    <3> QED BY <3>1, <2>1, <1>1
  <2>2. CASE z # s \/ q # p
    <3>1. q \in DOMAIN book[z] /\ book'[z][q] = book[z][q]
      BY <2>2, <1>3, LevelReplaced
    <3> QED BY <3>1, <2>2, RestingOrders
  <2> QED BY <2>1, <2>2
<1>5. ASSUME NEW z \in Sides, NEW q \in DOMAIN book'[z], NEW r \in Range(book'[z][q])
      PROVE  /\ FitsLevel(orders'[r], z, q)
             /\ \/ r \in Range(book[z][q]) /\ q \in DOMAIN book[z] /\ (z # s \/ q # p)
                \/ (z = s /\ r \in Range(queue))
  <2>1. CASE z = s /\ q = p /\ book'[z][q] = queue
    BY <2>1, <1>5 DEF LevelChange
  <2>2. CASE (z # s \/ q # p) /\ q \in DOMAIN book[z] /\ book'[z][q] = book[z][q]
    <3>1. r \in Range(book[z][q]) /\ orders'[r] = orders[r]
      BY <2>2, <1>5 DEF LevelChange
    <3>2. FitsLevel(orders[r], z, q)
      BY <3>1, <2>2, OrdersFitTheirLevels
    <3> QED BY <3>1, <3>2, <2>2
  <2> QED BY <2>1, <2>2, <1>4
<1>6. LitLevelsHoldLiveOrders'
  BY <1>4, <1>5 DEF LitLevelsHoldLiveOrders, FitsLevel, IsLive
<1>7. DisplayedSlice'
  BY <1>5 DEF DisplayedSlice, LitOrders, FitsLevel
<1>8. \A z \in Sides : \A r \in LitOrders(z)' :
         \/ \E q \in DOMAIN book[z] : r \in Range(book[z][q]) /\ (z # s \/ q # p)
         \/ (z = s /\ r \in Range(queue))
  BY <1>5 DEF LitOrders
<1> QED BY <1>1, <1>3, <1>4, <1>6, <1>7, <1>8

\* A cancel keeps the invariant: the order leaves its one queue, and its level goes with
\* it if it was alone.
LEMMA CancelOrderKeepsIInv == \A id \in CancelIds : IInv /\ CancelOrder(id) => IInv'
<1> SUFFICES ASSUME NEW id \in CancelIds, IInv, CancelOrder(id) PROVE IInv'
  OBVIOUS
<1> USE DEF IInv
<1> DEFINE r     == openOrders[id]
           order == orders[r]
           side  == order.side
           price == order.price
<1>1. /\ pc = "idle" /\ calls' = calls + 1 /\ calls < MaxCalls
      /\ id \in DOMAIN openOrders /\ openOrders' = Unregister({id})
      /\ orders' = [orders EXCEPT ![r] = Cancel(@)]
      /\ reports' = Append(reports, Answer("CANCELLED", id))
      /\ UNCHANGED <<trades, pc, mid>>
      /\ \/ /\ order.ordType = "PEG_MID" /\ book' = book
            /\ pegs' = [pegs EXCEPT ![side] = Without(@, r)]
         \/ /\ order.ordType # "PEG_MID" /\ pegs' = pegs
            /\ book' = [book EXCEPT ![side] =
                          IF price \in DOMAIN @
                          THEN WithLevel(@, price, Without(@[price], r)) ELSE @]
  BY DEF CancelOrder, Call, IsOpen
<1>2. r \in Refs
  BY <1>1 DEF TypeOK
<1>3. order \in OrderRecord /\ side \in Sides /\ Cancel(order) \in OrderRecord
      /\ Cancel(order).ordType = order.ordType /\ Cancel(order).price = order.price
  BY <1>2, HeapHoldsOrders DEF OrderRecord, Cancel, Statuses
<1>4. /\ orders' \in Seq(OrderRecord) /\ Refs' = Refs /\ orders' # <<>>
      /\ orders'[r] = Cancel(order) /\ \A x \in Refs \ {r} : orders'[x] = orders[x]
  <2> DEFINE o == Cancel(orders[r])
  <2>1. o \in OrderRecord
    BY <1>3
  <2>2. orders' = [orders EXCEPT ![r] = o]
    BY <1>1
  <2> HIDE DEF o, r
  <2>3. /\ orders' \in Seq(OrderRecord) /\ Refs' = Refs
        /\ orders'[r] = o /\ \A x \in Refs \ {r} : orders'[x] = orders[x]
    BY <2>1, <2>2, <1>2, HeapHoldsOrders, OneOrderChanges DEF Refs
  <2>4. orders' # <<>>
    BY <2>3, <1>2 DEF Refs
  <2> QED BY <2>3, <2>4 DEF o
<1> HIDE DEF r, order, side, price
<1>5. LimitsHavePrices'
  <2>1. ASSUME NEW x \in Refs, orders'[x].ordType = "LIMIT" PROVE orders'[x].price \in Price
    <3>1. CASE x = r
      BY <3>1, <2>1, <1>2, <1>3, <1>4 DEF LimitsHavePrices, order
    <3>2. CASE x # r
      BY <3>2, <2>1, <1>4 DEF LimitsHavePrices
    <3> QED BY <3>1, <3>2
  <2> QED BY <2>1, <1>4 DEF LimitsHavePrices
<1>6. ASSUME order.ordType = "PEG_MID"
      PROVE  /\ LitLevelsHoldLiveOrders' /\ PegPoolsHoldLiveOrders'
             /\ DisplayedSlice' /\ BookNotCrossed'
             /\ DOMAIN book' = Sides /\ pegs' \in [Sides -> Seq(Refs')]
             /\ \A s \in Sides :
                   /\ DOMAIN book'[s] \subseteq Price
                   /\ \A p \in DOMAIN book'[s] : book'[s][p] \in Seq(Refs')
  <2>1. book' = book /\ pegs' = [pegs EXCEPT ![side] = Without(pegs[side], r)]
    BY <1>1, <1>6
  <2>2. /\ LitLevelsHoldLiveOrders' /\ DisplayedSlice' /\ BookNotCrossed'
    <3>1. \A s \in Sides : \A x \in LitOrders(s) : x \in Refs /\ x # r
      BY <1>6, RestingOrders DEF LitOrders, order
    <3> QED BY <3>1, <1>4, <2>1, LitBookUntouched
  <2>3. ASSUME NEW s \in Sides
        PROVE  /\ pegs'[s] \in Seq(Refs) /\ IsInjective(pegs'[s])
               /\ Range(pegs'[s]) \subseteq PegOrders(s) \ {r}
    <3>1. pegs[s] \in Seq(Refs) /\ IsInjective(pegs[s]) /\ Range(pegs[s]) = PegOrders(s)
      BY RestingOrders DEF PegOrders
    <3>2. CASE s = side
      <4>1. pegs'[s] = Without(pegs[s], r)
        BY <2>1, <3>2 DEF TypeOK
      <4> QED BY <4>1, <3>1, WithoutRemoves
    <3>3. CASE s # side
      <4>1. pegs'[s] = pegs[s]
        BY <2>1, <3>3 DEF TypeOK
      <4>2. r \notin PegOrders(s)
        BY <3>3, RestingOrders DEF side, order
      <4> QED BY <4>1, <4>2, <3>1
    <3> QED BY <3>2, <3>3
  <2>4. PegPoolsHoldLiveOrders'
    <3>1. ASSUME NEW s \in Sides, NEW x \in Range(pegs'[s])
          PROVE  IsLive(x)' /\ orders'[x].side = s /\ orders'[x].ordType = "PEG_MID"
      <4>1. x \in PegOrders(s) /\ x # r /\ x \in Refs
        BY <3>1, <2>3, RestingOrders
      <4> QED BY <4>1, <1>4, RestingOrders DEF IsLive
    <3> QED BY <3>1, <2>3 DEF PegPoolsHoldLiveOrders, PegOrders
  <2>5. pegs' = [s \in Sides |-> pegs'[s]]
    BY <2>1 DEF TypeOK
  <2>6. /\ DOMAIN book' = Sides
        /\ \A s \in Sides : /\ DOMAIN book'[s] \subseteq Price
                            /\ \A p \in DOMAIN book'[s] : book'[s][p] \in Seq(Refs')
        /\ pegs' \in [Sides -> Seq(Refs')]
    BY <2>1, <2>3, <2>5, <1>4 DEF TypeOK
  <2> QED BY <2>2, <2>4, <2>6
<1>7. ASSUME order.ordType # "PEG_MID"
      PROVE  /\ LitLevelsHoldLiveOrders' /\ PegPoolsHoldLiveOrders'
             /\ DisplayedSlice' /\ BookNotCrossed'
             /\ DOMAIN book' = Sides /\ pegs' \in [Sides -> Seq(Refs')]
             /\ \A s \in Sides :
                   /\ DOMAIN book'[s] \subseteq Price
                   /\ \A p \in DOMAIN book'[s] : book'[s][p] \in Seq(Refs')
  <2> DEFINE levels == book[side]
             queue  == Without(levels[price], r)
  <2>1. /\ pegs' = pegs /\ order.ordType = "LIMIT" /\ price \in Price
        /\ book' = [book EXCEPT ![side] = IF price \in DOMAIN levels
                                          THEN WithLevel(levels, price, queue) ELSE levels]
    BY <1>1, <1>2, <1>3, <1>7 DEF OrderRecord, OrdTypes, LimitsHavePrices, order, price
  <2>2. \A s \in Sides : \A p \in DOMAIN book[s] :
           (s # side \/ p # price) =>
              \A x \in Range(book[s][p]) : x # r /\ orders'[x] = orders[x]
    BY <1>4, RestingOrders DEF side, price, order
  <2>3. PegPoolsHoldLiveOrders'
    <3>1. ASSUME NEW s \in Sides
          PROVE  /\ IsInjective(pegs'[s])
                 /\ \A x \in Range(pegs'[s]) :
                       IsLive(x)' /\ orders'[x].side = s /\ orders'[x].ordType = "PEG_MID"
      <4>1. \A x \in PegOrders(s) : x \in Refs /\ x # r
        BY <2>1, RestingOrders DEF order
      <4> QED BY <4>1, <1>4, <2>1, RestingOrders DEF IsLive, PegOrders
    <3> QED BY <3>1 DEF PegPoolsHoldLiveOrders, PegOrders
  <2>4. CASE price \notin DOMAIN levels
    <3>1. \A s \in Sides : book'[s] = book[s]
      BY <2>1, <2>4, <1>3 DEF TypeOK
    <3>2. \A s \in Sides : \A x \in LitOrders(s) : orders'[x] = orders[x]
      BY <2>2, <2>4 DEF LitOrders
    <3>3. DOMAIN book' = Sides
      BY <2>1 DEF TypeOK
    <3> QED BY <2>1, <2>3, <3>1, <3>2, <3>3, <1>4, LitBookUntouched DEF TypeOK
  <2>5. CASE price \in DOMAIN levels
    <3>1. /\ queue \in Seq(Refs) /\ IsInjective(queue)
          /\ Range(queue) = Range(levels[price]) \ {r}
      BY <2>5, <1>3, RestingOrders, WithoutRemoves
    <3>2. book' = [book EXCEPT ![side] = WithLevel(book[side], price, queue)]
      BY <2>1, <2>5
    <3>3. ASSUME NEW x \in Range(queue) PROVE FitsLevel(orders'[x], side, price)
      <4>1. x \in Range(levels[price]) /\ x \in Refs /\ orders'[x] = orders[x]
        BY <3>1, <2>5, <1>3, <1>4, RestingOrders
      <4> QED BY <4>1, <2>5, <1>3, OrdersFitTheirLevels
    <3> HIDE DEF queue
    <3>4. LevelChange(side, price, queue)
      BY <3>1, <3>2, <3>3, <2>1, <2>2, <1>3, <1>4 DEF LevelChange
    <3>5. BookNotCrossed'
      <4>1. \A s \in Sides : DOMAIN book'[s] \subseteq DOMAIN book[s]
        BY <3>4, <2>5, LevelChangeKeepsBook
      <4> QED BY <4>1 DEF BookNotCrossed, Bids, Asks, Sides
    <3>6. pegs' \in [Sides -> Seq(Refs')]
      BY <2>1, <1>4 DEF TypeOK
    <3> QED BY <2>3, <3>4, <3>5, <3>6, LevelChangeKeepsBook
  <2> QED BY <2>4, <2>5
<1>8. TypeOK'
  <2>1. calls' \in 0 .. MaxCalls
    BY <1>1, BoundsAssumption DEF TypeOK
  <2>2. /\ (DOMAIN openOrders)' \subseteq Nat
        /\ \A x \in (DOMAIN openOrders)' : openOrders'[x] \in Refs'
    BY <1>1, <1>4, UnregisterKeepsType
  <2>3. reports' \in Seq(ReportRecord' \cup AnswerRecord)
    BY <1>1, <1>4, AnswerKeepsType
  <2>4. pc' \in {"idle", "pegs", "lit", "rest", "cross"} /\ mid' \in Nat \cup {NA}
        /\ trades' \in Seq(TradeRecord')
    BY <1>1, <1>4 DEF TypeOK, TradeRecord
  <2> QED BY <2>1, <2>2, <2>3, <2>4, <1>4, <1>6, <1>7 DEF TypeOK
<1>9. IncomingIsNotResting' /\ PhaseFacts'
  BY <1>1 DEF IncomingIsNotResting, PhaseFacts, Dealing
<1> QED BY <1>5, <1>6, <1>7, <1>8, <1>9 DEF BookHoldsLiveOrders

-----------------------------------------------------------------------------
(* A remainder joins the book, and the loop over the lit book. *)

\* Changes to orders that are in no peg pool leave the pools as they were.
LEMMA PegPoolsUntouched ==
    ASSUME IInv, pegs' = pegs, Refs' = Refs,
           \A s \in Sides : \A r \in PegOrders(s) : orders'[r] = orders[r]
    PROVE  /\ PegPoolsHoldLiveOrders' /\ pegs' \in [Sides -> Seq(Refs')]
           /\ \A s \in Sides : PegOrders(s)' = PegOrders(s)
<1> USE DEF IInv
<1>1. ASSUME NEW s \in Sides
      PROVE  /\ IsInjective(pegs'[s])
             /\ \A r \in PegOrders(s)' :
                   IsLive(r)' /\ orders'[r].side = s /\ orders'[r].ordType = "PEG_MID"
  <2>1. PegOrders(s)' = PegOrders(s)
    BY DEF PegOrders
  <2> QED BY <2>1, RestingOrders DEF IsLive
<1>2. PegPoolsHoldLiveOrders'
  BY <1>1 DEF PegPoolsHoldLiveOrders
<1> QED BY <1>2 DEF TypeOK, PegOrders

\* addToBook keeps the invariant: matching has left nothing marketable, so the new price
\* does not cross the book.
LEMMA AddToBookKeepsIInv == IInv /\ AddToBook => IInv'
<1> SUFFICES ASSUME IInv, AddToBook PROVE IInv'
  OBVIOUS
<1> USE DEF IInv
<1> DEFINE order == orders[incoming]
           side  == order.side
           price == order.price
           queue == Append(QueueAt(book[side], price), incoming)
           shown == RefreshDisplay(order)
<1>1. /\ pc = "rest" /\ order.quantity > 0 /\ order.tif = "GTC" /\ order.ordType = "LIMIT"
      /\ orders' = [orders EXCEPT ![incoming] = RefreshDisplay(@)]
      /\ book' = [book EXCEPT ![side] = WithLevel(@, price, Append(QueueAt(@, price), incoming))]
      /\ openOrders' = Register(incoming)
      /\ reports' = Append(reports,
             Report("ACCEPTED", incoming, NA, price, NA, order.quantity))
      /\ pc' = "cross" /\ mid' = MidOf(DOMAIN book'["BUY"], DOMAIN book'["SELL"])
      /\ UNCHANGED <<pegs, trades, calls>>
  BY DEF AddToBook, AddLast
<1>2. /\ incoming \in Refs /\ order \in OrderRecord /\ incoming \notin Resting
      /\ side \in Sides /\ side = incomingSide /\ price \in Price
      /\ order.status \in {"OPEN", "PARTIALLY_FILLED"} /\ order.quantity \in Nat
      /\ price \in Nat \cup {NA}
  <2>1. Dealing
    BY <1>1 DEF Dealing
  <2> QED BY <2>1, <1>1, IncomingOrder, OrderFields DEF LimitsHavePrices, Dealing
<1>3. /\ shown \in OrderRecord /\ FitsLevel(shown, side, price)
      /\ shown.ordType = order.ordType /\ shown.price = order.price
  <2>1. shown \in OrderRecord /\ shown = [order EXCEPT !.visibleQty = shown.visibleQty]
        /\ (IF order.peak = 0 THEN shown.visibleQty = order.quantity
                              ELSE shown.visibleQty <= order.peak)
        /\ shown.visibleQty \in 1 .. order.quantity
    BY <1>1, <1>2, RefreshOrder
  <2> HIDE DEF shown
  <2> QED BY <2>1, <1>1, <1>2 DEF FitsLevel, OrderRecord
<1>4. /\ orders' \in Seq(OrderRecord) /\ Refs' = Refs /\ orders' # <<>>
      /\ orders'[incoming] = shown /\ \A x \in Refs \ {incoming} : orders'[x] = orders[x]
  <2>1. orders' = [orders EXCEPT ![incoming] = shown]
    BY <1>1
  <2> HIDE DEF shown
  <2>2. /\ orders' \in Seq(OrderRecord) /\ Refs' = Refs
        /\ orders'[incoming] = shown /\ \A x \in Refs \ {incoming} : orders'[x] = orders[x]
    BY <2>1, <1>2, <1>3, HeapHoldsOrders, OneOrderChanges DEF Refs
  <2> QED BY <2>2, <1>2 DEF Refs
<1>5. book' = [book EXCEPT ![side] = WithLevel(book[side], price, queue)]
  BY <1>1
<1>6. /\ queue \in Seq(Refs) /\ IsInjective(queue)
      /\ \A x \in Range(queue) :
            x = incoming \/ (price \in DOMAIN book[side] /\ x \in Range(book[side][price]))
  <2> DEFINE old == QueueAt(book[side], price)
  <2>1. /\ old \in Seq(Refs) /\ IsInjective(old)
        /\ \A x \in Range(old) :
              /\ price \in DOMAIN book[side] /\ x \in Range(book[side][price])
              /\ x \in Resting
    <3>1. CASE price \in DOMAIN book[side]
      BY <3>1, <1>2, RestingOrders DEF QueueAt
    <3>2. CASE price \notin DOMAIN book[side]
      BY <3>2, EmptySeq DEF QueueAt, Range, IsInjective
    <3> QED BY <3>1, <3>2
  <2>2. queue = Append(old, incoming)
    OBVIOUS
  <2> DEFINE i == incoming
  <2>3. i \in Refs /\ i \notin Range(old)
    BY <2>1, <1>2
  <2> HIDE DEF old, i, queue
  <2>4. /\ Append(old, i) \in Seq(Refs) /\ IsInjective(Append(old, i))
        /\ Range(Append(old, i)) = Range(old) \cup {i}
    BY <2>1, <2>3, AppendToQueue
  <2> QED BY <2>1, <2>2, <2>4 DEF i
<1> HIDE DEF order, side, price, queue, shown
<1>7. LevelChange(side, price, queue)
  <2>1. ASSUME NEW x \in Range(queue) PROVE FitsLevel(orders'[x], side, price)
    <3>1. CASE x = incoming
      BY <3>1, <1>3, <1>4
    <3>2. CASE x # incoming
      BY <3>2, <1>2, <1>4, <1>6, RestingOrders, OrdersFitTheirLevels
    <3> QED BY <3>1, <3>2
  <2>2. \A z \in Sides : \A q \in DOMAIN book[z] : \A x \in Range(book[z][q]) :
           orders'[x] = orders[x]
    BY <1>2, <1>4, RestingOrders
  <2> QED BY <2>1, <2>2, <1>2, <1>4, <1>5, <1>6 DEF LevelChange
<1>8. /\ DOMAIN book' = Sides
      /\ \A z \in Sides : /\ DOMAIN book'[z] \subseteq Price
                          /\ \A q \in DOMAIN book'[z] : book'[z][q] \in Seq(Refs')
                          /\ DOMAIN book'[z] \subseteq DOMAIN book[z] \cup {price}
                          /\ z # side => book'[z] = book[z]
      /\ LitLevelsHoldLiveOrders' /\ DisplayedSlice'
  BY <1>7, LevelChangeKeepsBook
<1>9. BookNotCrossed'
  <2>1. \A p \in DOMAIN book[Opposite(side)] : ~ Marketable(side, price, p)
    BY <1>1, <1>2 DEF PhaseFacts, order, price
  <2>2. \A s \in Sides : DOMAIN book[s] \subseteq Price
    BY DEF TypeOK
  <2>3. ASSUME NEW bid \in DOMAIN book'["BUY"], NEW ask \in DOMAIN book'["SELL"]
        PROVE  bid < ask
    <3>1. CASE side = "BUY"
      <4>1. ask \in DOMAIN book["SELL"] /\ bid \in DOMAIN book["BUY"] \cup {price}
        BY <3>1, <1>8 DEF Sides
      <4>2. ~ (ask <= price)
        BY <3>1, <2>1, <4>1 DEF Opposite, Marketable
      <4>3. ask \in Nat /\ price \in Nat
        BY <4>1, <2>2, <1>2, PricesAreNat DEF Sides
      <4> QED BY <4>1, <4>2, <4>3 DEF BookNotCrossed, Bids, Asks
    <3>2. CASE side # "BUY"
      <4>1. bid \in DOMAIN book["BUY"] /\ ask \in DOMAIN book["SELL"] \cup {price}
        BY <3>2, <1>8 DEF Sides
      <4>2. ~ (bid >= price)
        BY <3>2, <2>1, <4>1 DEF Opposite, Marketable
      <4>3. bid \in Nat /\ price \in Nat
        BY <4>1, <2>2, <1>2, PricesAreNat DEF Sides
      <4> QED BY <4>1, <4>2, <4>3 DEF BookNotCrossed, Bids, Asks
    <3> QED BY <3>1, <3>2
  <2> QED BY <2>3 DEF BookNotCrossed, Bids, Asks
<1>10. PegPoolsHoldLiveOrders' /\ pegs' \in [Sides -> Seq(Refs')]
  <2>1. \A s \in Sides : \A x \in PegOrders(s) : orders'[x] = orders[x]
    BY <1>2, <1>4, RestingOrders
  <2> QED BY <2>1, <1>1, <1>4, PegPoolsUntouched
<1>11. LimitsHavePrices'
  BY <1>2, <1>3, <1>4 DEF LimitsHavePrices, order, price
<1>12. TypeOK'
  <2>1. /\ (DOMAIN openOrders)' \subseteq Nat
        /\ \A id \in (DOMAIN openOrders)' : openOrders'[id] \in Refs'
    BY <1>1, <1>2, <1>4, RegisterKeepsType
  <2>2. reports' \in Seq(ReportRecord' \cup AnswerRecord)
    BY <1>1, <1>2, <1>4, ReportKeepsType
  <2>3. mid' \in Nat \cup {NA}
    BY <1>1, <1>8, MidIsPriceOrNA DEF Sides
  <2>4. trades' \in Seq(TradeRecord')
    BY <1>1, <1>4 DEF TypeOK, TradeRecord
  <2> QED BY <2>1, <2>2, <2>3, <2>4, <1>1, <1>4, <1>8, <1>10 DEF TypeOK
<1>13. IncomingIsNotResting' /\ PhaseFacts'
  BY <1>1 DEF IncomingIsNotResting, PhaseFacts, Dealing
<1> QED BY <1>8, <1>9, <1>10, <1>11, <1>12, <1>13 DEF BookHoldsLiveOrders

\* The head of a level after a fill of at most its slice: it is gone, or it
\* fits the level, with a fresh slice if the old one is used up.
LEMMA FilledHead ==
    ASSUME NEW o, NEW s, NEW p, FitsLevel(o, s, p), o \in OrderRecord,
           NEW n \in 1 .. o.visibleQty
    PROVE  LET filled == Fill(o, n)
               reload == filled.quantity > 0 /\ filled.visibleQty = 0
               next   == IF reload THEN RefreshDisplay(filled) ELSE filled
           IN  /\ n \in 1 .. o.quantity
               /\ next \in OrderRecord
               /\ next.ordType = o.ordType /\ next.price = o.price
               /\ filled.quantity # 0 => FitsLevel(next, s, p)
<1> DEFINE filled == Fill(o, n)
           shown  == RefreshDisplay(filled)
<1>1. n \in 1 .. o.quantity
  BY OrderFields DEF FitsLevel
<1>2. /\ filled \in OrderRecord /\ filled.quantity = o.quantity - n
      /\ filled.visibleQty = IF n <= o.visibleQty THEN o.visibleQty - n ELSE 0
      /\ filled.status = IF o.quantity = n THEN "FILLED" ELSE "PARTIALLY_FILLED"
      /\ filled.side = o.side /\ filled.price = o.price
      /\ filled.ordType = o.ordType /\ filled.tif = o.tif /\ filled.peak = o.peak
  BY <1>1, FillOrder
<1>3. /\ o.quantity \in Nat /\ o.visibleQty \in Nat /\ o.peak \in Nat
  BY OrderFields
<1> HIDE DEF filled
<1>4. /\ shown \in OrderRecord /\ shown = [filled EXCEPT !.visibleQty = shown.visibleQty]
      /\ (IF filled.peak = 0 THEN shown.visibleQty = filled.quantity
                             ELSE shown.visibleQty <= filled.peak)
      /\ filled.quantity > 0 => shown.visibleQty \in 1 .. filled.quantity
  BY <1>2, RefreshOrder
<1> HIDE DEF shown
<1>5. /\ shown.quantity = filled.quantity /\ shown.status = filled.status
      /\ shown.side = filled.side /\ shown.price = filled.price
      /\ shown.ordType = filled.ordType /\ shown.tif = filled.tif
      /\ shown.peak = filled.peak
  BY <1>2, <1>4 DEF OrderRecord
<1>6. CASE filled.quantity > 0 /\ filled.visibleQty = 0
  <2>1. FitsLevel(shown, s, p)
    BY <1>2, <1>3, <1>4, <1>5, <1>6, <1>1 DEF FitsLevel
  <2> QED BY <2>1, <1>1, <1>2, <1>4, <1>5, <1>6 DEF filled, shown
<1>7. CASE ~ (filled.quantity > 0 /\ filled.visibleQty = 0)
  <2>1. filled.quantity # 0 => FitsLevel(filled, s, p)
    BY <1>2, <1>3, <1>7, <1>1 DEF FitsLevel
  <2> QED BY <2>1, <1>1, <1>2, <1>7 DEF filled
<1> QED BY <1>6, <1>7

\* An iteration of matchBuy or matchSell keeps the invariant: the head leaves, goes to the
\* back with a fresh slice, or stays with what is left of its slice.
LEMMA MatchLitKeepsIInv == \A p \in Price : IInv /\ MatchLit(p) => IInv'
<1> SUFFICES ASSUME NEW p \in Price, IInv, MatchLit(p) PROVE IInv'
  OBVIOUS
<1> USE DEF IInv
<1> DEFINE a      == incoming
           side   == Opposite(incomingSide)
           queue  == book[side][p]
           h      == Head(queue)
           n      == Least(orders[a].quantity, orders[h].visibleQty)
           filled == Fill(orders[h], n)
           reload == filled.quantity > 0 /\ filled.visibleQty = 0
           next   == IF reload THEN RefreshDisplay(filled) ELSE filled
           newQueue == IF filled.quantity = 0 THEN Tail(queue)
                       ELSE IF reload THEN Append(Tail(queue), h) ELSE queue
<1>1. /\ pc = "lit" /\ orders[a].quantity > 0 /\ p \in DOMAIN book[side]
      /\ orders' = [orders EXCEPT ![a] = Fill(@, n), ![h] = next]
      /\ Execute(a, h, n, p) /\ openOrders' = Unregister(IdsFilledBy(n, {h}))
      /\ book' = [book EXCEPT ![side] = WithLevel(@, p, newQueue)]
      /\ UNCHANGED <<pegs, pc, mid, calls>>
  BY DEF MatchLit, IsMatchLevel, AddLast, Reloads
<1>2. /\ a \in Refs /\ a \notin Resting /\ orders[a] \in OrderRecord /\ side \in Sides
      /\ orders[a].status \in {"OPEN", "PARTIALLY_FILLED"} /\ orders[a].quantity \in Nat
      /\ orders[a].ordType = "LIMIT"
  <2>1. Dealing
    BY <1>1 DEF Dealing
  <2>2. incomingSide \in Sides
    BY <2>1, IncomingOrder
  <2>3. side \in Sides
    BY <2>2 DEF Opposite, Sides
  <2> QED BY <2>1, <2>3, <1>1, IncomingOrder, OrderFields DEF PhaseFacts
<1> HIDE DEF a, side
<1>3. /\ queue \in Seq(Refs) /\ queue # <<>> /\ IsInjective(queue)
      /\ \A x \in Range(queue) : x \in Refs /\ x \in Resting
  <2>1. p \in DOMAIN book[side] /\ side \in Sides
    BY <1>1, <1>2
  <2> QED BY <2>1, RestingOrders
<1>4. /\ h \in Range(queue) /\ Tail(queue) \in Seq(Refs) /\ IsInjective(Tail(queue))
      /\ Range(Tail(queue)) = Range(queue) \ {h}
  BY <1>3, TailOfQueue
<1>5. /\ h \in Refs /\ h # a /\ orders[h] \in OrderRecord /\ FitsLevel(orders[h], side, p)
  BY <1>1, <1>2, <1>3, <1>4, HeapHoldsOrders, OrdersFitTheirLevels
<1> HIDE DEF queue, h
<1>6. n \in 1 .. orders[h].visibleQty /\ n \in 1 .. orders[a].quantity
  <2>1. /\ orders[h].visibleQty \in Nat /\ orders[h].visibleQty > 0
        /\ orders[a].quantity \in Nat /\ orders[a].quantity > 0
    BY <1>1, <1>2, <1>5, OrderFields DEF FitsLevel
  <2> QED BY <2>1 DEF Least
<1> HIDE DEF n
<1>7. /\ next \in OrderRecord
      /\ next.ordType = orders[h].ordType /\ next.price = orders[h].price
      /\ filled.quantity # 0 => FitsLevel(next, side, p)
  BY <1>5, <1>6, FilledHead
<1>8. /\ newQueue \in Seq(Refs) /\ IsInjective(newQueue)
      /\ \A x \in Range(newQueue) : x \in Range(queue) /\ (x = h => filled.quantity # 0)
  <2>1. CASE filled.quantity = 0
    BY <2>1, <1>4
  <2>2. CASE filled.quantity # 0 /\ reload
    <3>1. /\ Append(Tail(queue), h) \in Seq(Refs) /\ IsInjective(Append(Tail(queue), h))
          /\ Range(Append(Tail(queue), h)) = Range(Tail(queue)) \cup {h}
      <4> DEFINE t == Tail(queue)
      <4>1. t \in Seq(Refs) /\ IsInjective(t) /\ h \notin Range(t)
        BY <1>4
      <4> HIDE DEF t
      <4>2. /\ Append(t, h) \in Seq(Refs) /\ IsInjective(Append(t, h))
            /\ Range(Append(t, h)) = Range(t) \cup {h}
        BY <4>1, <1>5, AppendToQueue
      <4> QED BY <4>2 DEF t
    <3> QED BY <3>1, <2>2, <1>4
  <2>3. CASE filled.quantity # 0 /\ ~ reload
    BY <2>3, <1>3
  <2> QED BY <2>1, <2>2, <2>3
<1> HIDE DEF next, newQueue, filled, reload
<1>9. /\ orders' \in Seq(OrderRecord) /\ Refs' = Refs /\ incoming' = incoming
      /\ orders' # <<>>
      /\ orders'[a] = Fill(orders[a], n) /\ orders'[h] = next
      /\ \A x \in Refs \ {a, h} : orders'[x] = orders[x]
  <2>1. Fill(orders[a], n) \in OrderRecord
    BY <1>2, <1>6, FillOrder
  <2>2. orders' = [orders EXCEPT ![a] = Fill(orders[a], n), ![h] = next]
    BY <1>1
  <2>3. /\ orders' \in Seq(OrderRecord) /\ Refs' = Refs /\ incoming' = incoming
        /\ orders'[a] = Fill(orders[a], n) /\ orders'[h] = next
        /\ \A x \in Refs \ {a, h} : orders'[x] = orders[x]
    BY <2>1, <2>2, <1>2, <1>5, <1>7, HeapHoldsOrders, TwoOrdersChange DEF Refs, incoming
  <2> QED BY <2>3, <1>2 DEF Refs
<1>10. LevelChange(side, p, newQueue)
  <2>1. book' = [book EXCEPT ![side] = WithLevel(book[side], p, newQueue)]
    BY <1>1
  <2>2. ASSUME NEW x \in Range(newQueue) PROVE FitsLevel(orders'[x], side, p)
    <3>1. CASE x = h
      BY <3>1, <1>7, <1>8, <1>9
    <3>2. CASE x # h
      <4>1. x \in Range(queue) /\ x \in Refs \ {a, h}
        BY <3>2, <1>2, <1>3, <1>8
      <4> QED BY <4>1, <1>1, <1>2, <1>9, OrdersFitTheirLevels DEF queue
    <3> QED BY <3>1, <3>2
  <2>3. ASSUME NEW z \in Sides, NEW q \in DOMAIN book[z], z # side \/ q # p,
               NEW x \in Range(book[z][q])
        PROVE  orders'[x] = orders[x]
    <3>1. x \in Refs /\ x \in Resting /\ orders[x].side = z /\ orders[x].price = q
      BY <2>3, RestingOrders
    <3>2. x # a /\ x # h
      BY <2>3, <3>1, <1>2, <1>5 DEF FitsLevel
    <3> QED BY <3>1, <3>2, <1>9
  <2> QED BY <2>1, <2>2, <2>3, <1>2, <1>8, <1>9 DEF LevelChange
<1>11. /\ DOMAIN book' = Sides
       /\ \A z \in Sides : /\ DOMAIN book'[z] \subseteq Price
                           /\ \A q \in DOMAIN book'[z] : book'[z][q] \in Seq(Refs')
                           /\ DOMAIN book'[z] \subseteq DOMAIN book[z]
       /\ LitLevelsHoldLiveOrders' /\ DisplayedSlice'
       /\ \A z \in Sides : LitOrders(z)' \subseteq LitOrders(z)
  <2>1. \A z \in Sides : DOMAIN book'[z] \subseteq DOMAIN book[z]
    BY <1>1, <1>10, LevelChangeKeepsBook
  <2>2. ASSUME NEW z \in Sides, NEW x \in LitOrders(z)' PROVE x \in LitOrders(z)
    <3>1. \/ \E q \in DOMAIN book[z] : x \in Range(book[z][q])
          \/ (z = side /\ x \in Range(newQueue))
      BY <1>10, LevelChangeKeepsBook
    <3> QED BY <3>1, <1>1, <1>8 DEF LitOrders, queue
  <2> QED BY <2>1, <2>2, <1>10, LevelChangeKeepsBook
<1>12. BookNotCrossed'
  BY <1>11 DEF BookNotCrossed, Bids, Asks, Sides
<1>13. /\ PegPoolsHoldLiveOrders' /\ pegs' \in [Sides -> Seq(Refs')]
       /\ \A s \in Sides : PegOrders(s)' = PegOrders(s)
  <2>1. \A s \in Sides : \A x \in PegOrders(s) : x \in Refs /\ x # a /\ x # h
    BY <1>2, <1>5, RestingOrders DEF FitsLevel
  <2> QED BY <2>1, <1>1, <1>9, PegPoolsUntouched
<1>14. LimitsHavePrices'
  <2>1. ASSUME NEW x \in Refs, orders'[x].ordType = "LIMIT" PROVE orders'[x].price \in Price
    <3>1. CASE x = a
      BY <3>1, <2>1, <1>2, <1>6, <1>9, FillOrder DEF LimitsHavePrices
    <3>2. CASE x = h
      BY <3>2, <1>5, <1>7, <1>9 DEF FitsLevel
    <3>3. CASE x \notin {a, h}
      BY <3>3, <2>1, <1>9 DEF LimitsHavePrices
    <3> QED BY <3>1, <3>2, <3>3
  <2> QED BY <2>1, <1>9 DEF LimitsHavePrices
<1>15. TypeOK'
  <2>1. trades' \in Seq(TradeRecord') /\ reports' \in Seq(ReportRecord' \cup AnswerRecord)
    <3>1. p \in Nat
      BY PricesAreNat
    <3> QED BY <3>1, <1>1, <1>2, <1>5, <1>6, <1>9, ExecuteKeepsType
  <2>2. /\ (DOMAIN openOrders)' \subseteq Nat
        /\ \A id \in (DOMAIN openOrders)' : openOrders'[id] \in Refs'
    BY <1>1, <1>9, UnregisterKeepsType
  <2> QED BY <2>1, <2>2, <1>1, <1>9, <1>11, <1>13 DEF TypeOK
<1>16. IncomingIsNotResting'
  <2>1. a \notin Resting'
    BY <1>2, <1>11, <1>13 DEF Resting
  <2>2. orders'[a].quantity > 0 => orders'[a].status \in {"OPEN", "PARTIALLY_FILLED"}
    BY <1>2, <1>6, <1>9, FillOrder, OrderFields
  <2> QED BY <2>1, <2>2, <1>9 DEF IncomingIsNotResting, a
<1>17. PhaseFacts'
  <2>1. orders'[a].ordType = "LIMIT"
    BY <1>2, <1>6, <1>9, FillOrder
  <2> QED BY <2>1, <1>1, <1>9 DEF PhaseFacts, a
<1> QED BY <1>11, <1>12, <1>13, <1>14, <1>15, <1>16, <1>17 DEF BookHoldsLiveOrders

-----------------------------------------------------------------------------
\* The empty book satisfies the invariant.
LEMMA InitEstablishesIInv == Init => IInv
<1> SUFFICES ASSUME Init PROVE IInv
  OBVIOUS
<1>1. /\ orders = <<>> /\ trades = <<>> /\ reports = <<>> /\ openOrders = <<>>
      /\ pc = "idle" /\ mid = NA /\ calls = 0
      /\ \A s \in Sides : book[s] = <<>> /\ pegs[s] = <<>>
      /\ DOMAIN book = Sides /\ pegs = [s \in Sides |-> <<>>]
  BY DEF Init
<1>2. DOMAIN <<>> = {} /\ \A S : <<>> \in Seq(S)
  BY EmptySeq
<1>3. TypeOK
  <2>1. /\ orders \in Seq(OrderRecord) /\ trades \in Seq(TradeRecord)
        /\ reports \in Seq(ReportRecord \cup AnswerRecord)
    BY <1>1, <1>2
  <2>2. pegs \in [Sides -> Seq(Refs)]
    BY <1>1, <1>2
  <2>3. \A s \in Sides : DOMAIN book[s] = {}
    BY <1>1, <1>2
  <2>4. DOMAIN openOrders = {} /\ calls \in 0 .. MaxCalls
    BY <1>1, <1>2, BoundsAssumption
  <2> QED BY <2>1, <2>2, <2>3, <2>4, <1>1 DEF TypeOK
<1>4. LimitsHavePrices
  BY <1>1, <1>2 DEF LimitsHavePrices, Refs
<1>5. BookHoldsLiveOrders
  <2>1. /\ \A s \in Sides : DOMAIN book[s] = {}
        /\ \A s \in Sides : IsInjective(pegs[s]) /\ PegOrders(s) = {}
    BY <1>1, <1>2 DEF PegOrders, Range, IsInjective
  <2> QED BY <2>1 DEF BookHoldsLiveOrders, LitLevelsHoldLiveOrders, PegPoolsHoldLiveOrders
<1>6. DisplayedSlice /\ BookNotCrossed
  <2>1. \A s \in Sides : DOMAIN book[s] = {} /\ LitOrders(s) = {}
    BY <1>1, <1>2 DEF LitOrders
  <2> QED BY <2>1 DEF DisplayedSlice, BookNotCrossed, Bids, Asks, Sides
<1>7. IncomingIsNotResting /\ PhaseFacts
  BY <1>1 DEF IncomingIsNotResting, PhaseFacts, Dealing
<1> QED BY <1>3, <1>4, <1>5, <1>6, <1>7 DEF IInv

\* Every step of the engine keeps the invariant.
LEMMA NextKeepsIInv == IInv /\ [Next]_vars => IInv'
<1> SUFFICES ASSUME IInv, [Next]_vars PROVE IInv'
  OBVIOUS
<1>1. ASSUME NEW t \in Tickets, AddOrder(t) PROVE IInv'
  BY <1>1, AddOrderKeepsIInv
<1>2. ASSUME NEW t \in Tickets, AddOrderKilled(t) PROVE IInv'
  BY <1>2, AddOrderKilledKeepsIInv
<1>3. ASSUME NEW id \in CancelIds, CancelOrder(id) PROVE IInv'
  BY <1>3, CancelOrderKeepsIInv
<1>4. ASSUME NEW id \in CancelIds, CancelOrderRefused(id) PROVE IInv'
  BY <1>4, CancelOrderRefusedKeepsIInv
<1>5. ASSUME Continue PROVE IInv'
  <2>1. ASSUME NEW p \in Price, MatchLit(p) PROVE IInv'
    BY <2>1, MatchLitKeepsIInv
  <2> QED BY <1>5, <2>1, MatchPegPoolKeepsIInv, MatchPegPoolEndsKeepsIInv,
             MatchLitEndsKeepsIInv, RestPegKeepsIInv, AddToBookKeepsIInv,
             ExpireRemainderKeepsIInv, NoRemainderKeepsIInv, CrossPegPoolsKeepsIInv,
             CrossPegPoolsEndsKeepsIInv DEF Continue
<1>6. ASSUME UNCHANGED vars PROVE IInv'
  BY <1>6, StutterKeepsIInv
<1> QED BY <1>1, <1>2, <1>3, <1>4, <1>5, <1>6 DEF Next, Exhausted

\* The inductive invariant holds of every behaviour of the engine.
THEOREM IInvHolds == Spec => []IInv
  BY InitEstablishesIInv, NextKeepsIInv, PTL DEF Spec

\* Every variable always holds a value of its kind.
THEOREM TypeCorrect == Spec => []TypeOK
<1>1. IInv => TypeOK
  BY DEF IInv
<1> QED BY <1>1, IInvHolds, PTL

\* The queues of MatchingEngine only ever hold live orders, each once and in the queue its
\* side, type and price call for, and no level is empty: getFirst never throws.
THEOREM OnlyLiveOrdersRest == Spec => []BookHoldsLiveOrders
<1>1. IInv => BookHoldsLiveOrders
  BY DEF IInv
<1> QED BY <1>1, IInvHolds, PTL

\* Every order on a level shows between one lot and all it has, and an iceberg no more
\* than its peak: matchBuy and matchSell never call fill(0).
THEOREM EveryLevelShowsASlice == Spec => []DisplayedSlice
<1>1. IInv => DisplayedSlice
  BY DEF IInv
<1> QED BY <1>1, IInvHolds, PTL

\* Every bid is below every ask, in the middle of a call too.
THEOREM BookNeverCrosses == Spec => []BookNotCrossed
<1>1. IInv => BookNotCrossed
  BY DEF IInv
<1> QED BY <1>1, IInvHolds, PTL
=============================================================================
