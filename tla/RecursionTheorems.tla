-------------------------- MODULE RecursionTheorems --------------------------
(***************************************************************************)
(* Induction over finite sets, natural numbers and ranked elements, with    *)
(* the induction hypothesis as a set instead of an operator; functions      *)
(* defined by recursion; and sums over finite sets: what the proofs about   *)
(* the data of a model rest on.                                             *)
(***************************************************************************)
EXTENDS Integers, Sequences, FiniteSets, FiniteSetsExt, FiniteSetTheorems, FunctionTheorems, WellFoundedInduction, TLAPS

\* What holds of the empty set and survives adding an element holds of every
\* subset of a finite set.
THEOREM SetInduction ==
  ASSUME NEW S, IsFiniteSet(S), NEW Good, {} \in Good,
         \A T \in SUBSET S : \A x \in S \ T : T \in Good => T \cup {x} \in Good
  PROVE  \A T \in SUBSET S : T \in Good
<1> DEFINE Bad == {T \in SUBSET S : T \notin Good}
<1>1. SUFFICES ASSUME Bad # {} PROVE FALSE
  OBVIOUS
<1>2. IsWellFoundedOn(StrictSubsetOrdering(S), SUBSET S)
  <2>1. FiniteSubsetsOf(S) = SUBSET S
    BY FS_FiniteSubsetsOfFinite
  <2> QED
    BY <2>1, FS_StrictSubsetOrderingWellFounded
<1>3. PICK T \in Bad : \A U \in Bad : <<U, T>> \notin StrictSubsetOrdering(S)
  <2>1. Bad \subseteq SUBSET S
    OBVIOUS
  <2> HIDE DEF Bad
  <2> QED
    BY <1>1, <1>2, <2>1, WFMin
<1>4. PICK x \in T : TRUE
  OBVIOUS
<1>5. T \ {x} \in Good
  <2>1. <<T \ {x}, T>> \in StrictSubsetOrdering(S)
    BY <1>4 DEF StrictSubsetOrdering
  <2> QED
    BY <1>3, <2>1
<1>6. (T \ {x}) \cup {x} = T
  BY <1>4
<1>7. T \ {x} \in SUBSET S /\ x \in S \ (T \ {x})
  BY <1>4
<1> QED
  BY <1>5, <1>6, <1>7

\* A set with 0 that has n + 1 wherever it has n has every natural number.
THEOREM NatSetInduction ==
  ASSUME NEW Good, 0 \in Good, \A n \in Nat : n \in Good => n + 1 \in Good
  PROVE  \A n \in Nat : n \in Good
<1> SUFFICES ASSUME NEW n \in Nat PROVE n \in Good
  OBVIOUS
<1> DEFINE S    == 1 .. n
           Sets == {T \in SUBSET S : Cardinality(T) \in Good}
<1>1. IsFiniteSet(S) /\ Cardinality(S) = n
  BY FS_Interval
<1>2. {} \in Sets
  BY FS_EmptySet
<1>3. ASSUME NEW T \in SUBSET S, NEW x \in S \ T, T \in Sets
      PROVE  T \cup {x} \in Sets
  <2>1. IsFiniteSet(T)
    BY <1>1, FS_Subset
  <2>2. Cardinality(T) \in Nat /\ Cardinality(T \cup {x}) = Cardinality(T) + 1
    <3> HIDE DEF S
    <3> QED
      BY <2>1, FS_CardinalityType, FS_AddElement
  <2> QED
    BY <1>3, <2>2
<1>4. S \in Sets
  <2> HIDE DEF S, Sets
  <2> QED
    BY <1>1, <1>2, <1>3, SetInduction
<1> QED
  BY <1>1, <1>4

\* Each element of D of a rank other than 0 has a predecessor of a lower rank.
Ranked(D, rank, prev) ==
  /\ rank \in [D -> Nat]
  /\ \A d \in D : rank[d] # 0 => prev[d] \in D /\ rank[prev[d]] < rank[d]

\* What an element has as soon as its predecessor has it, all have.
THEOREM RankedInduction ==
  ASSUME NEW D, NEW rank, NEW prev, Ranked(D, rank, prev), NEW Good,
         \A d \in D : rank[d] = 0 \/ prev[d] \in Good => d \in Good
  PROVE  \A d \in D : d \in Good
<1> DEFINE Upto == {n \in Nat : \A d \in D : rank[d] <= n => d \in Good}
<1>1. 0 \in Upto
  BY DEF Ranked
<1>2. ASSUME NEW n \in Nat, n \in Upto PROVE n + 1 \in Upto
  <2> SUFFICES ASSUME NEW d \in D, rank[d] <= n + 1 PROVE d \in Good
    OBVIOUS
  <2>1. CASE rank[d] = 0
    BY <2>1
  <2>2. CASE rank[d] # 0
    <3>1. prev[d] \in D /\ rank[prev[d]] \in Nat /\ rank[d] \in Nat /\ rank[prev[d]] < rank[d]
      BY <2>2 DEF Ranked
    <3>2. rank[prev[d]] <= n
      BY <3>1
    <3> QED
      BY <1>2, <3>1, <3>2
  <2> QED
    BY <2>1, <2>2
<1>3. \A n \in Nat : n \in Upto
  <2> HIDE DEF Upto
  <2> QED
    BY <1>1, <1>2, NatSetInduction
<1> QED
  BY <1>3 DEF Ranked

\* f takes its value on an element from its value on the predecessor.
RecursOn(f, D, rank, prev, base, step) ==
  \A d \in D : f[d] = IF rank[d] = 0 THEN base ELSE step[<<d, f[prev[d]]>>]

\* A function may be defined from its value on the predecessor.
THEOREM RankedRecursion ==
  ASSUME NEW D, NEW rank, NEW prev, Ranked(D, rank, prev),
         NEW V, NEW base \in V, NEW step \in [D \X V -> V]
  PROVE  \E f \in [D -> V] : RecursOn(f, D, rank, prev, base, step)
<1> DEFINE UpTo(n)     == {d \in D : rank[d] <= n}
           Works(f, n) == /\ f \in [UpTo(n) -> V]
                          /\ \A d \in UpTo(n) : f[d] = IF rank[d] = 0 THEN base ELSE step[<<d, f[prev[d]]>>]
           Defined     == {n \in Nat : \E f : Works(f, n)}
<1>1. \A d \in D : /\ rank[d] \in Nat
                   /\ rank[d] # 0 => prev[d] \in D /\ rank[prev[d]] \in Nat /\ rank[prev[d]] < rank[d]
  BY DEF Ranked
<1>2. \A n \in Nat : n \in Defined
  <2>1. 0 \in Defined
    <3> DEFINE f == [d \in UpTo(0) |-> base]
    <3>1. Works(f, 0)
      BY <1>1
    <3> QED
      BY <3>1
  <2>2. ASSUME NEW n \in Nat, n \in Defined PROVE n + 1 \in Defined
    <3>1. PICK f : Works(f, n)
      BY <2>2
    <3> DEFINE g == [d \in UpTo(n + 1) |-> IF rank[d] = 0 THEN base ELSE step[<<d, f[prev[d]]>>]]
    <3>2. \A d \in UpTo(n + 1) : rank[d] # 0 => prev[d] \in UpTo(n)
      BY <1>1
    <3>3. \A d \in UpTo(n) : d \in UpTo(n + 1) /\ g[d] = f[d]
      BY <1>1, <3>1
    <3>4. g \in [UpTo(n + 1) -> V]
      BY <3>1, <3>2
    <3>5. \A d \in UpTo(n + 1) : g[d] = IF rank[d] = 0 THEN base ELSE step[<<d, g[prev[d]]>>]
      BY <3>2, <3>3
    <3>6. Works(g, n + 1)
      BY <3>4, <3>5
    <3>7. \E e : Works(e, n + 1)
      <4> HIDE DEF g, Works
      <4> QED
        BY <3>6
    <3> HIDE DEF Works
    <3> QED
      BY <3>7
  <2> HIDE DEF Defined
  <2> QED
    BY <2>1, <2>2, NatSetInduction
<1>3. ASSUME NEW m \in Nat, NEW n \in Nat, NEW f, NEW g, Works(f, m), Works(g, n)
      PROVE  \A d \in UpTo(m) \cap UpTo(n) : f[d] = g[d]
  <2> DEFINE Both == UpTo(m) \cap UpTo(n)
             Same == {d \in Both : f[d] = g[d]}
             rk   == [d \in Both |-> rank[d]]
  <2>1. Ranked(Both, rk, prev)
    BY <1>1 DEF Ranked
  <2>2. ASSUME NEW d \in Both, rk[d] = 0 \/ prev[d] \in Same PROVE d \in Same
    <3>1. /\ f[d] = IF rank[d] = 0 THEN base ELSE step[<<d, f[prev[d]]>>]
          /\ g[d] = IF rank[d] = 0 THEN base ELSE step[<<d, g[prev[d]]>>]
      BY <1>3
    <3>2. rank[d] = 0 \/ f[prev[d]] = g[prev[d]]
      BY <2>2
    <3> QED
      BY <3>1, <3>2
  <2>3. \A d \in Both : d \in Same
    <3> HIDE DEF Both, Same, rk
    <3> QED
      BY <2>1, <2>2, RankedInduction
  <2> QED
    BY <2>3
<1> DEFINE part(n) == CHOOSE f : Works(f, n)
           F       == [d \in D |-> part(rank[d])[d]]
<1>4. ASSUME NEW n \in Nat PROVE Works(part(n), n)
  <2>1. \E f : Works(f, n)
    BY <1>2
  <2> HIDE DEF Works
  <2> QED
    BY <2>1
<1> HIDE DEF part
<1>5. F \in [D -> V]
  <2>1. ASSUME NEW d \in D PROVE part(rank[d])[d] \in V
    <3>1. d \in UpTo(rank[d]) /\ rank[d] \in Nat
      BY <1>1
    <3>2. part(rank[d]) \in [UpTo(rank[d]) -> V]
      BY <1>4, <3>1
    <3> QED
      BY <3>1, <3>2
  <2> QED
    BY <2>1
<1>6. ASSUME NEW d \in D
      PROVE  F[d] = IF rank[d] = 0 THEN base ELSE step[<<d, F[prev[d]]>>]
  <2>1. F[d] = IF rank[d] = 0 THEN base ELSE step[<<d, part(rank[d])[prev[d]]>>]
    <3>1. d \in UpTo(rank[d]) /\ rank[d] \in Nat
      BY <1>1
    <3> QED
      BY <1>4, <3>1
  <2>2. ASSUME rank[d] # 0 PROVE part(rank[d])[prev[d]] = F[prev[d]]
    <3>1. /\ prev[d] \in UpTo(rank[d]) \cap UpTo(rank[prev[d]])
          /\ rank[d] \in Nat /\ rank[prev[d]] \in Nat /\ prev[d] \in D
      BY <1>1, <2>2
    <3>2. part(rank[d])[prev[d]] = part(rank[prev[d]])[prev[d]]
      <4> HIDE DEF UpTo, Works
      <4> QED
        BY <1>3, <1>4, <3>1
    <3> QED
      BY <3>1, <3>2
  <2> QED
    BY <2>1, <2>2
<1>7. RecursOn(F, D, rank, prev, base, step)
  BY <1>6 DEF RecursOn
<1> QED
  BY <1>5, <1>7

\* The initial parts of the functions from 1 .. n to V.
Histories(n, V) == UNION {[1 .. k -> V] : k \in 0 .. n}

LEMMA HistoryIsOne == ASSUME NEW n \in Nat, NEW V, NEW k \in 0 .. n, NEW f \in [1 .. k -> V] PROVE f \in Histories(n, V)
  BY DEF Histories

\* f takes its value on k from its values on all smaller numbers.
FollowsCourse(f, n, step) == \A k \in 1 .. n : f[k] = step[<<k, [j \in 1 .. k - 1 |-> f[j]]>>]

\* A function on 1 .. n may be defined from all its values so far.
THEOREM CourseRecursion ==
  ASSUME NEW n \in Nat, NEW V, NEW step \in [(1 .. n) \X Histories(n, V) -> V]
  PROVE  \E f \in [1 .. n -> V] : FollowsCourse(f, n, step)
<1> DEFINE Works(f, m) == /\ f \in [1 .. m -> V]
                          /\ \A k \in 1 .. m : f[k] = step[<<k, [j \in 1 .. k - 1 |-> f[j]]>>]
           Defined     == {m \in Nat : m <= n => \E f : Works(f, m)}
<1>1. 0 \in Defined
  <2>1. Works([k \in 1 .. 0 |-> 0], 0)
    OBVIOUS
  <2> QED
    BY <2>1
<1>2. ASSUME NEW m \in Nat, m \in Defined PROVE m + 1 \in Defined
  <2> SUFFICES ASSUME m + 1 <= n PROVE \E f : Works(f, m + 1)
    OBVIOUS
  <2>1. PICK f : Works(f, m)
    BY <1>2
  <2> DEFINE g == [k \in 1 .. m + 1 |-> step[<<k, [j \in 1 .. k - 1 |-> f[j]]>>]]
  <2>2. ASSUME NEW k \in 1 .. m + 1 PROVE <<k, [j \in 1 .. k - 1 |-> f[j]]>> \in (1 .. n) \X Histories(n, V)
    <3> DEFINE past == [j \in 1 .. k - 1 |-> f[j]]
    <3>1. k - 1 \in 0 .. n /\ past \in [1 .. k - 1 -> V]
      BY <2>1
    <3> HIDE DEF past
    <3>2. past \in Histories(n, V)
      BY <3>1, HistoryIsOne
    <3>3. <<k, past>> \in (1 .. n) \X Histories(n, V)
      BY <3>2
    <3> QED
      BY <3>3 DEF past
  <2>3. ASSUME NEW k \in 1 .. m PROVE k \in 1 .. m + 1 /\ g[k] = f[k]
    <3>1. k \in 1 .. m + 1
      OBVIOUS
    <3>2. f[k] = step[<<k, [j \in 1 .. k - 1 |-> f[j]]>>]
      BY <2>1
    <3> QED
      BY <3>1, <3>2
  <2>4. g \in [1 .. m + 1 -> V]
    BY <2>2
  <2>5. ASSUME NEW k \in 1 .. m + 1 PROVE g[k] = step[<<k, [j \in 1 .. k - 1 |-> g[j]]>>]
    <3>1. ASSUME NEW j \in 1 .. k - 1 PROVE g[j] = f[j]
      <4>1. j \in 1 .. m
        OBVIOUS
      <4> HIDE DEF g
      <4> QED
        BY <2>3, <4>1
    <3> HIDE DEF g
    <3>2. [j \in 1 .. k - 1 |-> g[j]] = [j \in 1 .. k - 1 |-> f[j]]
      BY <3>1
    <3> QED
      BY <3>2 DEF g
  <2>6. Works(g, m + 1)
    <3> HIDE DEF g
    <3> QED
      BY <2>4, <2>5
  <2> HIDE DEF g, Works
  <2> QED
    BY <2>6
<1>3. \A m \in Nat : m \in Defined
  <2> HIDE DEF Defined
  <2> QED
    BY <1>1, <1>2, NatSetInduction
<1>4. \E f : Works(f, n)
  <2> HIDE DEF Works
  <2> QED
    BY <1>3
<1>5. PICK f : Works(f, n)
  BY <1>4
<1> QED
  BY <1>5 DEF FollowsCourse

\* What a number has as soon as all smaller ones have it, all have.
THEOREM CourseInduction ==
  ASSUME NEW n \in Nat, NEW Good, \A k \in 1 .. n : (\A j \in 1 .. k - 1 : j \in Good) => k \in Good
  PROVE  \A k \in 1 .. n : k \in Good
<1> DEFINE Upto == {m \in Nat : \A k \in 1 .. n : k <= m => k \in Good}
<1>1. 0 \in Upto
  OBVIOUS
<1>2. ASSUME NEW m \in Nat, m \in Upto PROVE m + 1 \in Upto
  <2> SUFFICES ASSUME NEW k \in 1 .. n, k <= m + 1 PROVE k \in Good
    OBVIOUS
  <2>1. \A j \in 1 .. k - 1 : j \in 1 .. n /\ j <= m
    OBVIOUS
  <2> QED
    BY <1>2, <2>1
<1>3. \A m \in Nat : m \in Upto
  <2> HIDE DEF Upto
  <2> QED
    BY <1>1, <1>2, NatSetInduction
<1> QED
  BY <1>3

\* f takes its value on a sequence from its value on the tail.
Recurs(f, T, base, step) ==
  \A h \in Seq(T) : f[h] = IF h = <<>> THEN base ELSE step[<<h, f[Tail(h)]>>]

\* A function on sequences may be defined from its value on the tail.
THEOREM SeqRecursion ==
  ASSUME NEW T, NEW V, NEW base \in V, NEW step \in [Seq(T) \X V -> V]
  PROVE  \E f \in [Seq(T) -> V] : Recurs(f, T, base, step)
<1> DEFINE D    == Seq(T)
           rank == [h \in D |-> Len(h)]
           prev == [h \in D |-> Tail(h)]
<1>1. \A h \in Seq(T) : /\ Len(h) \in Nat
                        /\ h = <<>> <=> Len(h) = 0
                        /\ h # <<>> => Tail(h) \in Seq(T) /\ Len(Tail(h)) = Len(h) - 1
  OBVIOUS
<1>2. Ranked(D, rank, prev)
  BY <1>1 DEF Ranked
<1>3. PICK f \in [D -> V] : RecursOn(f, D, rank, prev, base, step)
  <2> HIDE DEF rank, prev
  <2> QED
    <3>1. step \in [D \X V -> V]
      BY DEF D
    <3> HIDE DEF D
    <3> QED
      BY <1>2, <3>1, RankedRecursion
<1> QED
  BY <1>1, <1>3 DEF Recurs, RecursOn
-----------------------------------------------------------------------------
(* Sums *)

SumOver(f, S) == MapThenSumSet(LAMBDA x : f[x], S)

Some(S) == CHOOSE x \in S : TRUE

\* h is the function by which the fold of the community modules computes a sum.
Sums(h, f, S) == h = [T \in SUBSET S |-> IF T = {} THEN 0 ELSE f[Some(T)] + h[T \ {Some(T)}]]

\* There is such a function.
LEMMA SumsExist ==
  ASSUME NEW S, IsFiniteSet(S), NEW f, \A x \in S : f[x] \in Nat
  PROVE  LET h == CHOOSE h : Sums(h, f, S)
         IN  Sums(h, f, S) /\ h \in [SUBSET S -> Nat]
<1> DEFINE D    == SUBSET S
           rank == [T \in D |-> Cardinality(T)]
           prev == [T \in D |-> T \ {Some(T)}]
           step == [p \in D \X Nat |-> IF p[1] = {} THEN 0 ELSE f[Some(p[1])] + p[2]]
<1>1. ASSUME NEW T \in D
      PROVE  /\ Cardinality(T) \in Nat
             /\ T = {} <=> Cardinality(T) = 0
             /\ T # {} => /\ Some(T) \in T
                          /\ T \ {Some(T)} \in D
                          /\ Cardinality(T \ {Some(T)}) = Cardinality(T) - 1
  <2>1. IsFiniteSet(T)
    BY FS_Subset
  <2>2. T # {} => Some(T) \in T
    BY DEF Some
  <2> QED
    BY <2>1, <2>2, FS_CardinalityType, FS_EmptySet, FS_RemoveElement
<1>2. Ranked(D, rank, prev)
  <2>1. rank \in [D -> Nat]
    BY <1>1
  <2>2. ASSUME NEW T \in D, rank[T] # 0 PROVE prev[T] \in D /\ rank[prev[T]] < rank[T]
    <3>1. /\ T \ {Some(T)} \in D /\ Cardinality(T) \in Nat
          /\ Cardinality(T \ {Some(T)}) = Cardinality(T) - 1
      BY <1>1, <2>2
    <3>2. rank[T] = Cardinality(T) /\ rank[T \ {Some(T)}] = Cardinality(T \ {Some(T)}) /\ prev[T] = T \ {Some(T)}
      BY <3>1
    <3> HIDE DEF D, rank, prev
    <3> QED
      BY <3>1, <3>2
  <2> HIDE DEF D, rank, prev
  <2> QED
    BY <2>1, <2>2 DEF Ranked
<1>3. step \in [D \X Nat -> Nat]
  <2>1. ASSUME NEW p \in D \X Nat
        PROVE  (IF p[1] = {} THEN 0 ELSE f[Some(p[1])] + p[2]) \in Nat
    <3>1. p[1] \in D /\ p[2] \in Nat
      OBVIOUS
    <3>2. p[1] # {} => f[Some(p[1])] \in Nat
      BY <1>1, <3>1
    <3> QED
      BY <3>1, <3>2
  <2> QED
    BY <2>1
<1>4. PICK g \in [D -> Nat] : RecursOn(g, D, rank, prev, 0, step)
  <2> HIDE DEF D, rank, prev, step
  <2> QED
    BY <1>2, <1>3, RankedRecursion
<1>5. ASSUME NEW T \in D
      PROVE  g[T] = IF T = {} THEN 0 ELSE f[Some(T)] + g[T \ {Some(T)}]
  <2>1. g[T] = IF rank[T] = 0 THEN 0 ELSE step[<<T, g[prev[T]]>>]
    BY <1>4 DEF RecursOn
  <2>2. rank[T] = 0 <=> T = {}
    BY <1>1
  <2>3. T # {} => step[<<T, g[prev[T]]>>] = f[Some(T)] + g[T \ {Some(T)}]
    BY <1>1, <1>4
  <2> QED
    BY <2>1, <2>2, <2>3
<1>6. Sums(g, f, S)
  BY <1>4, <1>5 DEF Sums
<1> DEFINE h == CHOOSE h : Sums(h, f, S)
<1>7. Sums(h, f, S)
  <2>1. \E e : Sums(e, f, S)
    BY <1>6
  <2> QED
    BY <2>1
<1> HIDE DEF h
<1>8. ASSUME NEW T \in D PROVE h[T] = IF T = {} THEN 0 ELSE f[Some(T)] + h[T \ {Some(T)}]
  BY <1>7 DEF Sums
<1> DEFINE Same == {T \in D : h[T] = g[T]}
<1>9. ASSUME NEW T \in D, rank[T] = 0 \/ prev[T] \in Same PROVE T \in Same
  <2>1. T = {} \/ g[T \ {Some(T)}] = h[T \ {Some(T)}]
    BY <1>1, <1>9
  <2>2. /\ g[T] = IF T = {} THEN 0 ELSE f[Some(T)] + g[T \ {Some(T)}]
        /\ h[T] = IF T = {} THEN 0 ELSE f[Some(T)] + h[T \ {Some(T)}]
    BY <1>5, <1>8
  <2>3. g[T] = h[T]
    BY <2>1, <2>2
  <2> QED
    BY <2>3
<1>10. \A T \in D : T \in Same
  <2> HIDE DEF D, rank, prev, Same
  <2> QED
    BY <1>2, <1>9, RankedInduction
<1>11. h \in [D -> Nat]
  <2>1. h = [T \in D |-> h[T]]
    BY <1>7 DEF Sums
  <2> QED
    BY <2>1, <1>4, <1>10
<1> QED
  BY <1>7, <1>11 DEF h

\* The sum is that function's value.
LEMMA SumIs == ASSUME NEW S, NEW f PROVE SumOver(f, S) = (CHOOSE h : Sums(h, f, S))[S]
  BY Zenon DEF SumOver, MapThenSumSet, MapThenFoldSet, Sums, Some

THEOREM SumEmpty == ASSUME NEW f PROVE SumOver(f, {}) = 0
<1> DEFINE h == CHOOSE h : Sums(h, f, {})
<1>1. Sums(h, f, {})
  BY SumsExist, FS_EmptySet
<1> HIDE DEF h
<1>2. h[{}] = 0
  BY <1>1 DEF Sums
<1> QED
  BY <1>2, SumIs DEF h

\* Whichever element is taken first, the sum is the same.
Additive(h, f, S) == \A T \in SUBSET S, x \in S : x \in T => h[T] = f[x] + h[T \ {x}]

LEMMA SumsAdd ==
  ASSUME NEW S, IsFiniteSet(S), NEW f, \A x \in S : f[x] \in Nat,
         NEW h \in [SUBSET S -> Nat], Sums(h, f, S)
  PROVE  Additive(h, f, S)
<1> DEFINE Good == {n \in Nat : \A T \in SUBSET S, x \in S :
                                  Cardinality(T) = n /\ x \in T => h[T] = f[x] + h[T \ {x}]}
<1>1. ASSUME NEW T \in SUBSET S, NEW x \in T
      PROVE  /\ Cardinality(T) \in Nat /\ Cardinality(T) # 0
             /\ Cardinality(T \ {x}) = Cardinality(T) - 1
             /\ Some(T) \in T
  <2>1. IsFiniteSet(T)
    BY FS_Subset
  <2>2. Some(T) \in T
    BY DEF Some
  <2> QED
    BY <2>1, <2>2, FS_CardinalityType, FS_EmptySet, FS_RemoveElement
<1>2. 0 \in Good
  BY <1>1
<1>3. ASSUME NEW n \in Nat, n \in Good PROVE n + 1 \in Good
  <2> SUFFICES ASSUME NEW T \in SUBSET S, Cardinality(T) = n + 1, NEW x \in T
               PROVE  h[T] = f[x] + h[T \ {x}]
    OBVIOUS
  <2> DEFINE c == Some(T)
  <2>1. c \in T
    BY <1>1
  <2>2. h[T] = f[c] + h[T \ {c}]
    BY <2>1 DEF Sums
  <2> HIDE DEF c
  <2>3. CASE x = c
    BY <2>2, <2>3
  <2>4. CASE x # c
    <3> DEFINE U == T \ {c}
               W == T \ {x}
    <3>1. /\ U \in SUBSET S /\ W \in SUBSET S /\ x \in U /\ c \in W
          /\ U \ {x} = W \ {c}
      BY <2>1, <2>4
    <3>2. Cardinality(U) = n /\ Cardinality(W) = n
      BY <1>1, <2>1
    <3> HIDE DEF U, W
    <3>3. h[U] = f[x] + h[U \ {x}]
      BY <1>3, <3>1, <3>2
    <3>4. h[W] = f[c] + h[U \ {x}]
      BY <1>3, <3>1, <3>2
    <3>5. f[x] \in Nat /\ f[c] \in Nat /\ h[U \ {x}] \in Nat
      BY <2>1, <3>1
    <3>6. h[T] = f[c] + (f[x] + h[U \ {x}])
      BY <2>2, <3>3 DEF U
    <3> QED
      BY <3>4, <3>5, <3>6 DEF W
  <2> QED
    BY <2>3, <2>4
<1>4. \A n \in Nat : n \in Good
  <2> HIDE DEF Good
  <2> QED
    BY <1>2, <1>3, NatSetInduction
<1> QED
  <2> SUFFICES ASSUME NEW T \in SUBSET S, NEW x \in S, x \in T PROVE h[T] = f[x] + h[T \ {x}]
    BY DEF Additive
  <2>1. Cardinality(T) \in Good
    <3> HIDE DEF Good
    <3> QED
      BY <1>1, <1>4
  <2> QED
    BY <2>1

\* Two sums over subsets of S, each computed by a function of its own.
LEMMA SumOfPart ==
  ASSUME NEW S, IsFiniteSet(S), NEW f, \A x \in S : f[x] \in Nat,
         NEW h \in [SUBSET S -> Nat], Sums(h, f, S), NEW T \in SUBSET S
  PROVE  SumOver(f, T) = h[T]
<1> DEFINE g == CHOOSE g : Sums(g, f, T)
<1>1. IsFiniteSet(T)
  BY FS_Subset
<1>2. Sums(g, f, T) /\ g \in [SUBSET T -> Nat]
  BY <1>1, SumsExist
<1>3. SumOver(f, T) = g[T]
  BY SumIs
<1> HIDE DEF g
<1> DEFINE Same == {U \in SUBSET T : g[U] = h[U]}
<1>4. {} \in Same
  BY <1>2 DEF Sums
<1>5. ASSUME NEW U \in SUBSET T, NEW x \in T \ U, U \in Same PROVE U \cup {x} \in Same
  <2> DEFINE W == U \cup {x}
  <2>1. W \in SUBSET T /\ W \in SUBSET S /\ x \in W /\ W \ {x} = U
    OBVIOUS
  <2> HIDE DEF W
  <2>2. g[W] = f[x] + g[W \ {x}]
    <3>1. Additive(g, f, T)
      BY <1>1, <1>2, SumsAdd
    <3> QED
      BY <2>1, <3>1 DEF Additive
  <2>3. h[W] = f[x] + h[W \ {x}]
    <3>1. Additive(h, f, S)
      BY SumsAdd
    <3> QED
      BY <2>1, <3>1 DEF Additive
  <2>4. W \in Same
    BY <1>5, <2>1, <2>2, <2>3
  <2> QED
    BY <2>4 DEF W
<1>6. T \in Same
  <2> HIDE DEF Same
  <2> QED
    BY <1>1, <1>4, <1>5, SetInduction
<1> QED
  BY <1>3, <1>6

\* A sum of natural numbers is one.
THEOREM SumIsNat ==
  ASSUME NEW S, IsFiniteSet(S), NEW f, \A x \in S : f[x] \in Nat
  PROVE  SumOver(f, S) \in Nat
<1> DEFINE h == CHOOSE h : Sums(h, f, S)
<1>1. h \in [SUBSET S -> Nat]
  BY SumsExist
<1> HIDE DEF h
<1>2. h[S] \in Nat
  BY <1>1
<1> QED
  BY <1>2, SumIs DEF h

\* One more element adds its value.
THEOREM SumAdd ==
  ASSUME NEW S, IsFiniteSet(S), NEW x \in S, NEW f, \A y \in S : f[y] \in Nat
  PROVE  SumOver(f, S) = f[x] + SumOver(f, S \ {x})
<1> DEFINE h == CHOOSE h : Sums(h, f, S)
<1>1. Sums(h, f, S) /\ h \in [SUBSET S -> Nat]
  BY SumsExist
<1> HIDE DEF h
<1>2. h[S] = f[x] + h[S \ {x}]
  <2>1. Additive(h, f, S)
    BY <1>1, SumsAdd
  <2> QED
    BY <2>1 DEF Additive
<1>3. SumOver(f, S) = h[S] /\ SumOver(f, S \ {x}) = h[S \ {x}]
  BY <1>1, SumOfPart
<1> QED
  BY <1>2, <1>3

\* Of fewer and smaller numbers the sum is not greater.
THEOREM SumGrows ==
  ASSUME NEW S, IsFiniteSet(S), NEW R \in SUBSET S, NEW f, NEW g,
         \A x \in S : f[x] \in Nat /\ g[x] \in Nat, \A x \in R : f[x] <= g[x]
  PROVE  SumOver(f, R) <= SumOver(g, S)
<1> DEFINE Good == {T \in SUBSET S : SumOver(f, R \cap T) <= SumOver(g, T)}
<1>1. {} \in Good
  <2>1. R \cap {} = {}
    OBVIOUS
  <2>2. SumOver(f, R \cap {}) = 0 /\ SumOver(g, {}) = 0
    BY <2>1, SumEmpty
  <2> QED
    BY <2>2
<1>2. ASSUME NEW T \in SUBSET S, NEW x \in S \ T, T \in Good PROVE T \cup {x} \in Good
  <2> DEFINE W == T \cup {x}
  <2>1. W \in SUBSET S /\ x \in W /\ W \ {x} = T
    OBVIOUS
  <2> HIDE DEF W
  <2>2. IsFiniteSet(W) /\ IsFiniteSet(R \cap W) /\ IsFiniteSet(T) /\ IsFiniteSet(R \cap T)
    BY <2>1, FS_Subset
  <2>3. SumOver(g, W) = g[x] + SumOver(g, T)
    BY <2>1, <2>2, SumAdd
  <2>4. /\ SumOver(g, T) \in Nat /\ SumOver(f, R \cap T) \in Nat
        /\ f[x] \in Nat /\ g[x] \in Nat
    BY <2>2, SumIsNat
  <2>5. SumOver(f, R \cap W) <= f[x] + SumOver(f, R \cap T) \/ R \cap W = R \cap T
    <3>1. CASE x \in R
      <4>1. x \in R \cap W /\ (R \cap W) \ {x} = R \cap T
        BY <2>1, <3>1
      <4>2. SumOver(f, R \cap W) = f[x] + SumOver(f, R \cap T)
        BY <2>1, <2>2, <4>1, SumAdd
      <4> QED
        BY <2>4, <4>2
    <3>2. CASE x \notin R
      BY <2>1, <3>2
    <3> QED
      BY <3>1, <3>2
  <2>6. x \in R => f[x] <= g[x]
    OBVIOUS
  <2>7. SumOver(f, R \cap T) <= SumOver(g, T)
    BY <1>2
  <2>8. x \notin R => R \cap W = R \cap T
    BY <2>1
  <2>9. SumOver(f, R \cap W) <= SumOver(g, W)
    <3>1. CASE R \cap W = R \cap T
      BY <2>3, <2>4, <2>7, <3>1
    <3>2. CASE R \cap W # R \cap T
      <4>1. SumOver(f, R \cap W) \in Nat
        BY <2>1, <2>2, SumIsNat
      <4>2. f[x] <= g[x] /\ SumOver(f, R \cap W) <= f[x] + SumOver(f, R \cap T)
        BY <2>5, <2>6, <2>8, <3>2
      <4> QED
        BY <2>3, <2>4, <2>7, <4>1, <4>2
    <3> QED
      BY <3>1, <3>2
  <2> QED
    BY <2>1, <2>9 DEF W
<1>3. S \in Good
  <2> HIDE DEF Good
  <2> QED
    BY <1>1, <1>2, SetInduction
<1>4. R \cap S = R
  OBVIOUS
<1> QED
  BY <1>3, <1>4

\* The sum of what agrees is the same.
THEOREM SumAgrees ==
  ASSUME NEW S, IsFiniteSet(S), NEW f, NEW g, \A x \in S : f[x] \in Nat /\ f[x] = g[x]
  PROVE  SumOver(f, S) = SumOver(g, S)
<1>1. SumOver(f, S) <= SumOver(g, S) /\ SumOver(g, S) <= SumOver(f, S)
  BY SumGrows
<1>2. SumOver(f, S) \in Nat /\ SumOver(g, S) \in Nat
  BY SumIsNat
<1> QED
  BY <1>1, <1>2
-----------------------------------------------------------------------------
(* Sets of numbers *)

\* A part of an interval that is not empty has a greatest and a least element.
THEOREM ExtremesOfPart ==
  ASSUME NEW n \in Nat, NEW T \in SUBSET (1 .. n), T # {}
  PROVE  /\ Max(T) \in T /\ \A y \in T : y <= Max(T)
         /\ Min(T) \in T /\ \A y \in T : Min(T) <= y
<1> DEFINE Most(U)  == \E x \in U : \A y \in U : x >= y
           Least(U) == \E x \in U : \A y \in U : x <= y
           Good     == {k \in Nat : \A U \in SUBSET (1 .. k) : U # {} => Most(U) /\ Least(U)}
<1>1. 0 \in Good
  <2>1. \A U \in SUBSET (1 .. 0) : U = {}
    OBVIOUS
  <2> HIDE DEF Most, Least
  <2> QED
    BY <2>1
<1>2. ASSUME NEW k \in Nat, k \in Good PROVE k + 1 \in Good
  <2> SUFFICES ASSUME NEW U \in SUBSET (1 .. k + 1), U # {} PROVE Most(U) /\ Least(U)
    OBVIOUS
  <2>1. U \ {k + 1} \in SUBSET (1 .. k)
    OBVIOUS
  <2>2. CASE k + 1 \notin U
    <3>1. U \in SUBSET (1 .. k)
      BY <2>2
    <3> QED
      BY <1>2, <3>1
  <2>3. CASE U = {k + 1}
    BY <2>3
  <2>4. CASE k + 1 \in U /\ U # {k + 1}
    <3>1. \A y \in U : k + 1 >= y
      OBVIOUS
    <3>2. Least(U \ {k + 1})
      <4>1. U \ {k + 1} # {}
        BY <2>4
      <4> HIDE DEF Most, Least
      <4> QED
        BY <1>2, <2>1, <4>1
    <3>3. PICK x \in U \ {k + 1} : \A y \in U \ {k + 1} : x <= y
      BY <3>2
    <3>4. \A y \in U : x <= y
      BY <3>1, <3>3
    <3> QED
      BY <2>4, <3>1, <3>4
  <2> QED
    BY <2>2, <2>3, <2>4
<1>3. \A k \in Nat : k \in Good
  <2> HIDE DEF Good
  <2> QED
    BY <1>1, <1>2, NatSetInduction
<1>4. Most(T) /\ Least(T)
  BY <1>3
<1>5. Max(T) \in T /\ \A y \in T : Max(T) >= y
  BY <1>4, Zenon DEF Max
<1>6. Min(T) \in T /\ \A y \in T : Min(T) <= y
  BY <1>4, Zenon DEF Min
<1>7. \A y \in T : y <= Max(T)
  <2> DEFINE x == Max(T)
  <2>1. x \in T /\ \A y \in T : x >= y
    BY <1>5
  <2> HIDE DEF x
  <2>2. \A y \in T : y <= x
    BY <2>1
  <2> QED
    BY <2>2 DEF x
<1> QED
  BY <1>5, <1>6, <1>7

\* h takes its value on a part of an interval from its value on the part without its
\* greatest element, as the folds of the community modules go through a sequence.
FoldsUp(h, n, base, step) ==
  \A T \in SUBSET (1 .. n) : h[T] = IF T = {} THEN base ELSE step[<<T, h[T \ {Max(T)}]>>]

\* There is such a function.
THEOREM FoldRecursion ==
  ASSUME NEW n \in Nat, NEW V, NEW base \in V, NEW step \in [(SUBSET (1 .. n)) \X V -> V]
  PROVE  \E h \in [SUBSET (1 .. n) -> V] :
            FoldsUp(h, n, base, step)
<1> DEFINE D    == SUBSET (1 .. n)
           rank == [T \in D |-> Cardinality(T)]
           prev == [T \in D |-> T \ {Max(T)}]
<1>1. ASSUME NEW T \in D
      PROVE  /\ Cardinality(T) \in Nat
             /\ T = {} <=> Cardinality(T) = 0
             /\ T # {} => T \ {Max(T)} \in D /\ Cardinality(T \ {Max(T)}) = Cardinality(T) - 1
  <2>1. IsFiniteSet(T)
    <3>1. IsFiniteSet(1 .. n)
      BY FS_Interval
    <3> QED
      BY <3>1, FS_Subset
  <2>2. T # {} => Max(T) \in T
    BY ExtremesOfPart
  <2> QED
    BY <2>1, <2>2, FS_CardinalityType, FS_EmptySet, FS_RemoveElement
<1>2. Ranked(D, rank, prev)
  <2>1. rank \in [D -> Nat]
    BY <1>1
  <2>2. ASSUME NEW T \in D, rank[T] # 0 PROVE prev[T] \in D /\ rank[prev[T]] < rank[T]
    <3>1. T \ {Max(T)} \in D /\ Cardinality(T) \in Nat /\ Cardinality(T \ {Max(T)}) = Cardinality(T) - 1
      BY <1>1, <2>2
    <3>2. /\ rank[T] = Cardinality(T) /\ rank[T \ {Max(T)}] = Cardinality(T \ {Max(T)})
          /\ prev[T] = T \ {Max(T)}
      BY <3>1
    <3> HIDE DEF D, rank, prev
    <3> QED
      BY <3>1, <3>2
  <2> QED
    BY <2>1, <2>2 DEF Ranked
<1>3. PICK h \in [D -> V] : RecursOn(h, D, rank, prev, base, step)
  <2> HIDE DEF D, rank, prev
  <2>1. step \in [D \X V -> V]
    BY DEF D
  <2> QED
    BY <1>2, <2>1, RankedRecursion
<1>4. ASSUME NEW T \in D PROVE h[T] = IF T = {} THEN base ELSE step[<<T, h[T \ {Max(T)}]>>]
  <2>1. h[T] = IF rank[T] = 0 THEN base ELSE step[<<T, h[prev[T]]>>]
    BY <1>3 DEF RecursOn
  <2>2. rank[T] = 0 <=> T = {}
    BY <1>1
  <2> QED
    BY <2>1, <2>2
<1> QED
  BY <1>3, <1>4 DEF FoldsUp

\* So the fold goes through an interval from its first number to its last.
THEOREM LastOfInterval ==
  ASSUME NEW n \in Nat, n # 0
  PROVE  1 .. n # {} /\ Max(1 .. n) = n /\ (1 .. n) \ {Max(1 .. n)} = 1 .. n - 1
<1>1. 1 .. n # {}
  OBVIOUS
<1>2. Max(1 .. n) \in 1 .. n /\ \A y \in 1 .. n : y <= Max(1 .. n)
  BY <1>1, ExtremesOfPart
<1> QED
  BY <1>1, <1>2

\* r takes the steps of a fold one after the other.
Runs(r, n, base, step) == r[0] = base /\ \A k \in 1 .. n : r[k] = step[<<k, r[k - 1]>>]

\* h goes from the first number to the last one as r does.
RunsAlong(h, r, n) == \A k \in 0 .. n : h[1 .. k] = r[k]

\* h goes through the parts of an interval by the steps of a fold, as far as it keeps to their domain.
StepsUp(h, n, V, base, step) ==
  \A T \in SUBSET (1 .. n) : /\ T = {} => h[T] = base
                             /\ T # {} /\ h[T \ {Max(T)}] \in V => h[T] = step[<<Max(T), h[T \ {Max(T)}]>>]

\* Steps that stay in a set are those of some function.
THEOREM FoldSteps ==
  ASSUME NEW n \in Nat, NEW V, NEW base \in V, NEW step \in [(1 .. n) \X V -> V]
  PROVE  \E h \in [SUBSET (1 .. n) -> V] : StepsUp(h, n, V, base, step)
<1> DEFINE up == [p \in (SUBSET (1 .. n)) \X V |-> IF p[1] = {} THEN base ELSE step[<<Max(p[1]), p[2]>>]]
<1>1. \A T \in SUBSET (1 .. n) : T # {} => Max(T) \in 1 .. n
  BY ExtremesOfPart
<1>2. up \in [(SUBSET (1 .. n)) \X V -> V]
  <2> SUFFICES ASSUME NEW T \in SUBSET (1 .. n), NEW v \in V
               PROVE  (IF T = {} THEN base ELSE step[<<Max(T), v>>]) \in V
    BY Zenon
  <2> QED
    BY <1>1
<1>3. PICK h \in [SUBSET (1 .. n) -> V] : FoldsUp(h, n, base, up)
  <2> HIDE DEF up
  <2> QED
    BY <1>2, FoldRecursion
<1> SUFFICES ASSUME NEW T \in SUBSET (1 .. n)
             PROVE  /\ T = {} => h[T] = base
                    /\ T # {} => h[T] = step[<<Max(T), h[T \ {Max(T)}]>>]
  BY <1>3, Zenon DEF StepsUp
<1>4. h[T] = IF T = {} THEN base ELSE up[<<T, h[T \ {Max(T)}]>>]
  BY <1>3 DEF FoldsUp
<1>5. h[T \ {Max(T)}] \in V
  BY <1>3
<1>6. T # {} => up[<<T, h[T \ {Max(T)}]>>] = step[<<Max(T), h[T \ {Max(T)}]>>]
  BY <1>5
<1> QED
  BY <1>4, <1>6

\* A fold through a sequence is where its steps lead, one after the other.
THEOREM FoldRuns ==
  ASSUME NEW n \in Nat, NEW V, NEW base \in V, NEW step \in [(1 .. n) \X V -> V],
         NEW h, StepsUp(h, n, V, base, step)
  PROVE  \E r \in [0 .. n -> V] : Runs(r, n, base, step) /\ RunsAlong(h, r, n)
<1> DEFINE r == [k \in 0 .. n |-> h[1 .. k]]
<1>1. ASSUME NEW k \in 1 .. n
      PROVE  1 .. k # {} /\ Max(1 .. k) = k /\ (1 .. k) \ {Max(1 .. k)} = 1 .. k - 1 /\ 1 .. k \in SUBSET (1 .. n)
  <2>1. k \in Nat /\ k # 0
    OBVIOUS
  <2>2. \A i \in 1 .. k : i \in 1 .. n
    OBVIOUS
  <2> QED
    BY <2>1, <2>2, LastOfInterval
<1>2. 1 .. 0 = {} /\ {} \in SUBSET (1 .. n)
  OBVIOUS
<1>3. h[1 .. 0] = base
  BY <1>2 DEF StepsUp
<1>4. ASSUME NEW k \in 1 .. n, h[1 .. k - 1] \in V PROVE h[1 .. k] = step[<<k, h[1 .. k - 1]>>]
  <2>1. PICK T \in SUBSET (1 .. n) : T = 1 .. k /\ T # {} /\ Max(T) = k /\ T \ {Max(T)} = 1 .. k - 1
    BY <1>1
  <2> QED
    BY <1>4, <2>1, Zenon DEF StepsUp
<1> DEFINE In == {k \in Nat : k <= n => h[1 .. k] \in V}
<1>5. 0 \in In
  BY <1>3
<1>6. ASSUME NEW k \in Nat, k \in In PROVE k + 1 \in In
  <2> SUFFICES ASSUME k + 1 <= n PROVE h[1 .. k + 1] \in V
    OBVIOUS
  <2>1. k + 1 \in 1 .. n /\ (k + 1) - 1 = k /\ h[1 .. k] \in V
    BY <1>6
  <2>2. h[1 .. k + 1] = step[<<k + 1, h[1 .. k]>>]
    BY <1>4, <2>1
  <2> QED
    BY <2>1, <2>2
<1>7. \A k \in Nat : k \in In
  <2> HIDE DEF In
  <2> QED
    BY <1>5, <1>6, NatSetInduction
<1>8. \A k \in 0 .. n : h[1 .. k] \in V
  BY <1>7
<1>9. r \in [0 .. n -> V]
  BY <1>8
<1>10. Runs(r, n, base, step)
  <2>1. \A k \in 1 .. n : k \in 0 .. n /\ k - 1 \in 0 .. n
    OBVIOUS
  <2>2. 0 \in 0 .. n
    OBVIOUS
  <2> QED
    BY <1>3, <1>4, <1>8, <2>1, <2>2, Zenon DEF Runs
<1>11. RunsAlong(h, r, n)
  BY DEF RunsAlong
<1> HIDE DEF r
<1> QED
  BY <1>9, <1>10, <1>11

\* To shift a set of numbers does not change how many they are.
THEOREM ShiftedCardinality ==
  ASSUME NEW S \in SUBSET Int, IsFiniteSet(S), NEW d \in Int
  PROVE  Cardinality({x + d : x \in S}) = Cardinality(S)
<1> DEFINE T == {x + d : x \in S}
           f == [x \in S |-> x + d]
<1>1. f \in [S -> T] /\ (\A a, b \in S : f[a] = f[b] => a = b) /\ \A t \in T : \E s \in S : f[s] = t
  OBVIOUS
<1> HIDE DEF f, T
<1>2. ExistsBijection(S, T)
  BY <1>1, Fun_IsBij DEF ExistsBijection
<1>3. Cardinality(T) = Cardinality(S)
  BY <1>2, FS_Bijection
<1> QED
  BY <1>3 DEF T
=============================================================================
