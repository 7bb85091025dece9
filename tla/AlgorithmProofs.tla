--------------------------- MODULE AlgorithmProofs ---------------------------
(***************************************************************************)
(* What is proved of the pure algorithms for inputs of every size: the     *)
(* graph that is made of a recorded trace, the calls that are made of a    *)
(* Weka trace (prompts, streams, timing and predecessors), and the turns   *)
(* that are made up, when they are due and where they go.                  *)
(***************************************************************************)
EXTENDS MCTraces, RecursionTheorems, TLAPS

(***************************************************************************)
(* Ancestors                                                               *)
(***************************************************************************)
\* up is the function by which the ancestors in a graph are collected.
Collects(up, n, parents) == up = [k \in 1 .. n |-> UNION {{j} \cup up[j] : j \in parents[k]}]

\* There is one if every parent is an earlier call.
LEMMA AncestorsExist ==
  ASSUME NEW n \in Nat, NEW parents, \A k \in 1 .. n : parents[k] \subseteq 1 .. k - 1
  PROVE  \E up : Collects(up, n, parents)
<1> DEFINE V       == SUBSET (1 .. n)
           step    == [p \in (1 .. n) \X Histories(n, V) |->
                          UNION {{j} \cup p[2][j] : j \in parents[p[1]] \cap DOMAIN p[2]}]
<1>1. step \in [(1 .. n) \X Histories(n, V) -> V]
  <2> SUFFICES ASSUME NEW k \in 1 .. n, NEW h \in Histories(n, V)
               PROVE  UNION {{j} \cup h[j] : j \in parents[k] \cap DOMAIN h} \in V
    BY ZenonT(30)
  <2>1. PICK m \in 0 .. n : h \in [1 .. m -> V]
    BY DEF Histories
  <2>2. ASSUME NEW j \in parents[k] \cap DOMAIN h PROVE {j} \cup h[j] \subseteq 1 .. n
    BY <2>1
  <2> QED
    BY <2>2
<1>2. PICK f \in [1 .. n -> V] : FollowsCourse(f, n, step)
  <2> HIDE DEF V, step
  <2> QED
    BY <1>1, CourseRecursion
<1>3. ASSUME NEW k \in 1 .. n PROVE f[k] = UNION {{j} \cup f[j] : j \in parents[k]}
  <2> DEFINE past == [j \in 1 .. k - 1 |-> f[j]]
  <2>1. past \in Histories(n, V)
    <3>1. k - 1 \in 0 .. n /\ past \in [1 .. k - 1 -> V]
      OBVIOUS
    <3> HIDE DEF past, V
    <3> QED
      BY <3>1, HistoryIsOne
  <2>2. step[<<k, past>>] = UNION {{j} \cup past[j] : j \in parents[k] \cap DOMAIN past}
    <3> HIDE DEF past, V
    <3> QED
      BY <2>1
  <2>3. DOMAIN past = 1 .. k - 1 /\ \A j \in parents[k] : past[j] = f[j]
    OBVIOUS
  <2>4. parents[k] \cap DOMAIN past = parents[k]
    BY <2>3
  <2>5. f[k] = UNION {{j} \cup past[j] : j \in parents[k]}
    BY <1>2, <2>2, <2>4 DEF FollowsCourse
  <2>6. {{j} \cup past[j] : j \in parents[k]} = {{j} \cup f[j] : j \in parents[k]}
    BY <2>3
  <2> QED
    BY <2>5, <2>6
<1> HIDE DEF V, step
<1>4. f = [k \in 1 .. n |-> f[k]]
  OBVIOUS
<1>5. f = [k \in 1 .. n |-> UNION {{j} \cup f[j] : j \in parents[k]}]
  BY <1>3, <1>4
<1> QED
  BY <1>5 DEF Collects

\* Every predecessor is an earlier call.
Earlier(preds) == \A k \in 1 .. Len(preds) : DOMAIN preds[k] \subseteq 1 .. k - 1

LEMMA CausalAncestorsAre ==
  ASSUME NEW preds, Len(preds) \in Nat, Earlier(preds), NEW i \in 1 .. Len(preds)
  PROVE  CausalAncestors(preds, i) = UNION {{j} \cup CausalAncestors(preds, j) : j \in Causal(preds[i])}
<1> DEFINE n         == Len(preds)
           parents   == [k \in 1 .. n |-> Causal(preds[k])]
           Is(up)    == up = [k \in 1 .. n |-> UNION {{j} \cup up[j] : j \in Causal(preds[k])}]
           up        == CHOOSE up : Is(up)
<1>1. \A k \in 1 .. n : parents[k] \subseteq 1 .. k - 1
  BY DEF Earlier, Causal
<1>2. \E f : Collects(f, n, parents)
  <2> HIDE DEF parents
  <2> QED
    BY <1>1, AncestorsExist
<1>3. PICK f : Collects(f, n, parents)
  BY <1>2
<1>4. Is(f)
  <2>1. ASSUME NEW k \in 1 .. n PROVE UNION {{j} \cup f[j] : j \in parents[k]} = UNION {{j} \cup f[j] : j \in Causal(preds[k])}
    OBVIOUS
  <2>2. f = [k \in 1 .. n |-> UNION {{j} \cup f[j] : j \in parents[k]}]
    BY <1>3 DEF Collects
  <2> HIDE DEF parents
  <2> QED
    BY <2>1, <2>2
<1>5. Is(up)
  <2> HIDE DEF Is
  <2> QED
    BY <1>4
<1>6. \A k \in 1 .. n : CausalAncestors(preds, k) = up[k]
  BY DEF CausalAncestors
<1> HIDE DEF up
<1>7. up[i] = UNION {{j} \cup up[j] : j \in Causal(preds[i])}
  BY <1>5
<1>8. \A j \in Causal(preds[i]) : j \in 1 .. n
  BY DEF Earlier, Causal
<1> QED
  BY <1>6, <1>7, <1>8

LEMMA AncestorsAreEarlier ==
  ASSUME NEW preds, Len(preds) \in Nat, Earlier(preds)
  PROVE  \A i \in 1 .. Len(preds) : CausalAncestors(preds, i) \subseteq 1 .. i - 1
<1> DEFINE n    == Len(preds)
           Good == {i \in 1 .. n : CausalAncestors(preds, i) \subseteq 1 .. i - 1}
<1>1. ASSUME NEW i \in 1 .. n, \A j \in 1 .. i - 1 : j \in Good PROVE i \in Good
  <2>1. \A j \in Causal(preds[i]) : j \in 1 .. i - 1
    BY DEF Earlier, Causal
  <2>2. \A j \in Causal(preds[i]) : {j} \cup CausalAncestors(preds, j) \subseteq 1 .. i - 1
    BY <1>1, <2>1
  <2> QED
    BY <2>2, CausalAncestorsAre
<1>2. \A i \in 1 .. n : i \in Good
  <2> HIDE DEF Good
  <2> QED
    BY <1>1, CourseInduction
<1> QED
  BY <1>2

\* An ancestor of an ancestor is one.
LEMMA AncestorsOfAncestors ==
  ASSUME NEW preds, Len(preds) \in Nat, Earlier(preds)
  PROVE  \A i \in 1 .. Len(preds) : \A k \in CausalAncestors(preds, i) :
            CausalAncestors(preds, k) \subseteq CausalAncestors(preds, i)
<1> DEFINE n    == Len(preds)
           Good == {i \in 1 .. n : \A k \in CausalAncestors(preds, i) :
                                      CausalAncestors(preds, k) \subseteq CausalAncestors(preds, i)}
<1>1. ASSUME NEW i \in 1 .. n, \A j \in 1 .. i - 1 : j \in Good PROVE i \in Good
  <2>1. ASSUME NEW k \in CausalAncestors(preds, i)
        PROVE  CausalAncestors(preds, k) \subseteq CausalAncestors(preds, i)
    <3>1. CausalAncestors(preds, i) = UNION {{j} \cup CausalAncestors(preds, j) : j \in Causal(preds[i])}
      BY CausalAncestorsAre
    <3>2. PICK j \in Causal(preds[i]) : k \in {j} \cup CausalAncestors(preds, j)
      BY <3>1
    <3>3. j \in 1 .. i - 1
      BY DEF Earlier, Causal
    <3>4. CausalAncestors(preds, k) \subseteq CausalAncestors(preds, j)
      BY <1>1, <3>2, <3>3
    <3> QED
      BY <3>1, <3>4
  <2> QED
    BY <2>1
<1>2. \A i \in 1 .. n : i \in Good
  <2> HIDE DEF Good
  <2> QED
    BY <1>1, CourseInduction
<1> QED
  BY <1>2

\* Calls that are added do not change the ancestors of those before them.
LEMMA AncestorsStay ==
  ASSUME NEW preds, NEW more, Len(preds) \in Nat, Len(more) \in Nat, Len(preds) <= Len(more),
         Earlier(preds), Earlier(more), \A k \in 1 .. Len(preds) : more[k] = preds[k]
  PROVE  \A i \in 1 .. Len(preds) : CausalAncestors(more, i) = CausalAncestors(preds, i)
<1> DEFINE n    == Len(preds)
           Good == {i \in 1 .. n : CausalAncestors(more, i) = CausalAncestors(preds, i)}
<1>1. ASSUME NEW i \in 1 .. n, \A j \in 1 .. i - 1 : j \in Good PROVE i \in Good
  <2>1. Causal(more[i]) = Causal(preds[i]) /\ \A j \in Causal(preds[i]) : j \in 1 .. i - 1
    BY DEF Earlier, Causal
  <2>2. \A j \in Causal(preds[i]) : CausalAncestors(more, j) = CausalAncestors(preds, j)
    BY <1>1, <2>1
  <2>3. i \in 1 .. Len(more)
    OBVIOUS
  <2>4. CausalAncestors(preds, i) = UNION {{j} \cup CausalAncestors(preds, j) : j \in Causal(preds[i])}
    BY CausalAncestorsAre
  <2>5. CausalAncestors(more, i) = UNION {{j} \cup CausalAncestors(more, j) : j \in Causal(more[i])}
    BY <2>3, CausalAncestorsAre
  <2>6. {{j} \cup CausalAncestors(more, j) : j \in Causal(more[i])}
          = {{j} \cup CausalAncestors(preds, j) : j \in Causal(preds[i])}
    BY <2>1, <2>2
  <2> QED
    BY <2>4, <2>5, <2>6
<1>2. \A i \in 1 .. n : i \in Good
  <2> HIDE DEF Good
  <2> QED
    BY <1>1, CourseInduction
<1> QED
  BY <1>2

(***************************************************************************)
(* Predecessors                                                            *)
(***************************************************************************)
Feeds(calls, j, i) == CausalDep(calls[j], calls[i]) # "none"

\* found is the function by which the causal predecessors of call i are searched.
Searches(found, calls, preds, i) ==
  found = [j \in 1 .. i |->
            IF j = i THEN {}
            ELSE IF \/ \E k \in found[j + 1] : j \in CausalAncestors(preds, k)
                    \/ CausalDep(calls[j], calls[i]) = "none"
                 THEN found[j + 1] ELSE found[j + 1] \cup {j}]

LEMMA SearchExists ==
  ASSUME NEW calls, NEW preds, NEW i \in Nat
  PROVE  \E found : Searches(found, calls, preds, i)
<1> DEFINE D       == 1 .. i
           V       == SUBSET D
           rank    == [j \in D |-> i - j]
           prev    == [j \in D |-> j + 1]
           next(j, s) == IF \/ \E k \in s : j \in CausalAncestors(preds, k)
                            \/ CausalDep(calls[j], calls[i]) = "none"
                         THEN s ELSE s \cup {j}
           step    == [p \in D \X V |-> next(p[1], p[2])]
<1>1. Ranked(D, rank, prev)
  BY DEF Ranked
<1>2. step \in [D \X V -> V]
  <2>1. ASSUME NEW p \in D \X V PROVE next(p[1], p[2]) \in V
    OBVIOUS
  <2> HIDE DEF next
  <2> QED
    BY <2>1
<1>3. {} \in V
  OBVIOUS
<1>4. PICK found \in [D -> V] : RecursOn(found, D, rank, prev, {}, step)
  <2> HIDE DEF D, V, rank, prev, step
  <2> QED
    BY <1>1, <1>2, <1>3, RankedRecursion
<1>5. ASSUME NEW j \in D PROVE found[j] = IF j = i THEN {} ELSE next(j, found[j + 1])
  <2>1. found[j] = IF rank[j] = 0 THEN {} ELSE step[<<j, found[prev[j]]>>]
    BY <1>4 DEF RecursOn
  <2>2. (rank[j] = 0 <=> j = i) /\ prev[j] = j + 1 /\ (j # i => j + 1 \in D)
    OBVIOUS
  <2>3. j # i => <<j, found[j + 1]>> \in D \X V
    BY <1>4, <2>2
  <2> HIDE DEF next, D, V, rank, prev
  <2> QED
    BY <2>1, <2>2, <2>3
<1>6. found = [j \in D |-> IF j = i THEN {} ELSE next(j, found[j + 1])]
  <2> HIDE DEF next, V
  <2> QED
    BY <1>4, <1>5
<1> QED
  BY <1>6 DEF Searches

LEMMA PredecessorsFound ==
  ASSUME NEW calls, NEW preds, NEW i \in Nat, i > 0, Len(preds) = i - 1, Earlier(preds),
         NEW P, P = CausalPredecessors(calls, preds, i)
  PROVE  /\ P \subseteq 1 .. i - 1
         /\ \A j \in 1 .. i - 1 : Feeds(calls, j, i) => j \in P \/ \E k \in P : j \in CausalAncestors(preds, k)
         /\ \A j, k \in P : j \notin CausalAncestors(preds, k)
         /\ \A j \in P : Feeds(calls, j, i)
<1> DEFINE found == CHOOSE found : Searches(found, calls, preds, i)
           Good  == {j \in 1 .. i : /\ found[j] \subseteq j .. i - 1
                                    /\ \A x \in j .. i - 1 : Feeds(calls, x, i) =>
                                         x \in found[j] \/ \E k \in found[j] : x \in CausalAncestors(preds, k)
                                    /\ \A x, k \in found[j] : x \notin CausalAncestors(preds, k)
                                    /\ \A x \in found[j] : Feeds(calls, x, i)}
           D     == 1 .. i
           rank  == [j \in D |-> i - j]
           prev  == [j \in D |-> j + 1]
<1>1. P = found[1]
  BY Zenon DEF CausalPredecessors, Searches
<1>2. Searches(found, calls, preds, i)
  BY SearchExists
<1> HIDE DEF found
<1>3. Ranked(D, rank, prev)
  BY DEF Ranked
<1>4. ASSUME NEW j \in D, rank[j] = 0 \/ prev[j] \in Good PROVE j \in Good
  <2>1. found[j] = IF j = i THEN {}
                   ELSE IF \/ \E k \in found[j + 1] : j \in CausalAncestors(preds, k)
                           \/ ~Feeds(calls, j, i)
                        THEN found[j + 1] ELSE found[j + 1] \cup {j}
    BY <1>2 DEF Searches, Feeds
  <2>2. CASE j = i
    BY <2>1, <2>2
  <2>3. CASE j # i
    <3>1. j + 1 \in Good
      BY <1>4, <2>3
    <3>2. ASSUME NEW k \in found[j + 1] \cup {j} PROVE k \in 1 .. Len(preds) /\ k >= j
      BY <2>3, <3>1
    <3>3. \A k \in found[j + 1] \cup {j} : CausalAncestors(preds, k) \subseteq 1 .. k - 1
      BY <3>2, AncestorsAreEarlier
    <3>4. j \notin CausalAncestors(preds, j)
      BY <3>3
    <3>5. \A k \in found[j + 1] : k \notin CausalAncestors(preds, j)
      BY <3>1, <3>3
    <3>6. \A x \in j .. i - 1 : x = j \/ x \in j + 1 .. i - 1
      OBVIOUS
    <3>7. found[j + 1] \subseteq j + 1 .. i - 1
      BY <3>1
    <3>8. found[j] \subseteq j .. i - 1
      BY <2>1, <2>3, <3>7
    <3>9. ASSUME NEW x \in j .. i - 1, Feeds(calls, x, i)
          PROVE  x \in found[j] \/ \E k \in found[j] : x \in CausalAncestors(preds, k)
      <4>1. CASE x = j
        BY <2>1, <2>3, <3>9, <4>1
      <4>2. CASE x \in j + 1 .. i - 1
        <5>1. x \in found[j + 1] \/ \E k \in found[j + 1] : x \in CausalAncestors(preds, k)
          BY <3>1, <3>9, <4>2
        <5>2. found[j + 1] \subseteq found[j]
          BY <2>1, <2>3
        <5> QED
          BY <5>1, <5>2
      <4> QED
        BY <3>6, <4>1, <4>2
    <3>10. \A x, k \in found[j] : x \notin CausalAncestors(preds, k)
      BY <2>1, <2>3, <3>1, <3>4, <3>5
    <3>11. \A x \in found[j] : Feeds(calls, x, i)
      BY <2>1, <2>3, <3>1
    <3> QED
      BY <3>8, <3>9, <3>10, <3>11
  <2> QED
    BY <2>2, <2>3
<1>5. \A j \in D : j \in Good
  <2> HIDE DEF D, rank, prev, Good
  <2> QED
    BY <1>3, <1>4, RankedInduction
<1>6. 1 \in Good
  BY <1>5
<1> QED
  BY <1>1, <1>6

\* Whatever is known of the others, the search finds calls of the trace only.
LEMMA SearchStaysInTrace ==
  ASSUME NEW calls, NEW preds, NEW i \in Nat, i > 0
  PROVE  CausalPredecessors(calls, preds, i) \subseteq 1 .. i
<1> DEFINE found == CHOOSE found : Searches(found, calls, preds, i)
           D     == 1 .. i
           rank  == [j \in D |-> i - j]
           prev  == [j \in D |-> j + 1]
           Good  == {j \in D : found[j] \subseteq D}
<1>1. CausalPredecessors(calls, preds, i) = found[1]
  BY Zenon DEF CausalPredecessors, Searches
<1>2. Searches(found, calls, preds, i)
  BY SearchExists
<1> HIDE DEF found
<1>3. Ranked(D, rank, prev)
  BY DEF Ranked
<1>4. ASSUME NEW j \in D, rank[j] = 0 \/ prev[j] \in Good PROVE j \in Good
  <2>1. found[j] = IF j = i THEN {}
                   ELSE IF \/ \E k \in found[j + 1] : j \in CausalAncestors(preds, k)
                           \/ ~Feeds(calls, j, i)
                        THEN found[j + 1] ELSE found[j + 1] \cup {j}
    BY <1>2 DEF Searches, Feeds
  <2>2. CASE j = i
    BY <2>1, <2>2
  <2>3. CASE j # i
    <3>1. found[j + 1] \subseteq D
      BY <1>4, <2>3
    <3> QED
      BY <2>1, <2>3, <3>1
  <2> QED
    BY <2>2, <2>3
<1>5. \A j \in D : j \in Good
  <2> HIDE DEF D, rank, prev, Good
  <2> QED
    BY <1>3, <1>4, RankedInduction
<1> QED
  BY <1>1, <1>5

\* A dependency that is found has a type, and none is temporal.
Dependencies ==
  {"none", "full_match", "tool_call_ids_matched", "split_parts_matched", "content_and_split_tools_match",
   "drop_content_split_parts"}

LEMMA DependencyTypes == ASSUME NEW a, NEW b PROVE CausalDep(a, b) \in Dependencies
  BY DEF CausalDep, Dependencies

\* What may stand for the predecessors of one of n calls.
PredecessorFunctions(n) == UNION {[S -> Dependencies \cup {"temporal"}] : S \in SUBSET (1 .. n)}

LEMMA PredecessorFunctionIsOne ==
  ASSUME NEW n \in Nat, NEW S \in SUBSET (1 .. n), NEW f \in [S -> Dependencies \cup {"temporal"}]
  PROVE  f \in PredecessorFunctions(n)
  BY DEF PredecessorFunctions

LEMMA PredecessorsOfCall ==
  ASSUME NEW calls, NEW preds, NEW i \in Nat, i > 0
  PROVE  LET P == PredecessorsOf(calls, preds, i)
             C == CausalPredecessors(calls, preds, i)
         IN  /\ P \in [C \cup TemporalPredecessor(calls, i) -> Dependencies \cup {"temporal"}]
             /\ DOMAIN P = C \cup TemporalPredecessor(calls, i)
             /\ Causal(P) = C
             /\ TemporalPredecessor(calls, i) \subseteq 1 .. i - 1
<1> DEFINE C == CausalPredecessors(calls, preds, i)
           S == C \cup TemporalPredecessor(calls, i)
           P == PredecessorsOf(calls, preds, i)
<1>1. P = [j \in S |-> IF j \in C THEN CausalDep(calls[j], calls[i]) ELSE "temporal"]
  BY DEF PredecessorsOf
<1> HIDE DEF C, S, P
<1>2. \A j \in S : P[j] \in Dependencies \cup {"temporal"} /\ (P[j] # "temporal" <=> j \in C)
  BY <1>1, DependencyTypes DEF Dependencies
<1>3. P \in [S -> Dependencies \cup {"temporal"}] /\ DOMAIN P = S
  BY <1>1, <1>2
<1>4. Causal(P) = C
  BY <1>2, <1>3 DEF Causal, S
<1>5. TemporalPredecessor(calls, i) \subseteq 1 .. i - 1
  BY DEF TemporalPredecessor, EndedBefore
<1> QED
  BY <1>3, <1>4, <1>5 DEF P, S, C

LEMMA PredecessorsInTrace ==
  ASSUME NEW calls, NEW preds, NEW n \in Nat, NEW i \in 1 .. n
  PROVE  PredecessorsOf(calls, preds, i) \in PredecessorFunctions(n)
<1> DEFINE C == CausalPredecessors(calls, preds, i)
           E == TemporalPredecessor(calls, i)
           P == PredecessorsOf(calls, preds, i)
<1>1. C \subseteq 1 .. i
  BY SearchStaysInTrace
<1>2. E \subseteq 1 .. i - 1
  BY DEF TemporalPredecessor, EndedBefore
<1>3. P \in [C \cup E -> Dependencies \cup {"temporal"}]
  <2>1. i \in Nat /\ i > 0
    OBVIOUS
  <2> QED
    BY <2>1, PredecessorsOfCall, Zenon
<1> HIDE DEF C, E, P
<1>4. C \cup E \in SUBSET (1 .. n)
  BY <1>1, <1>2
<1>5. P \in PredecessorFunctions(n)
  BY <1>3, <1>4, PredecessorFunctionIsOne
<1> QED
  BY <1>5 DEF P

\* h is the function by which the fold of the community modules goes through the calls.
Builds(h, calls) ==
  h = [T \in SUBSET DOMAIN [i \in 1 .. Len(calls) |-> i] |->
         IF T = {} THEN <<>>
         ELSE Append(h[T \ {Max(T)}], PredecessorsOf(calls, h[T \ {Max(T)}], [i \in 1 .. Len(calls) |-> i][Max(T)]))]

LEMMA BuildExists ==
  ASSUME NEW calls, Len(calls) \in Nat
  PROVE  \E h \in [SUBSET (1 .. Len(calls)) -> Seq(PredecessorFunctions(Len(calls)))] : Builds(h, calls)
<1> DEFINE n    == Len(calls)
           V    == Seq(PredecessorFunctions(n))
           Next2(T, p) == Append(p, PredecessorsOf(calls, p, Max(T)))
           step == [p \in (SUBSET (1 .. n)) \X V |-> IF p[1] = {} THEN <<>> ELSE Next2(p[1], p[2])]
<1>1. ASSUME NEW T \in SUBSET (1 .. n), T # {}, NEW p \in V PROVE Next2(T, p) \in V
  <2>1. Max(T) \in 1 .. n
    BY <1>1, ExtremesOfPart
  <2>2. PredecessorsOf(calls, p, Max(T)) \in PredecessorFunctions(n)
    BY <2>1, PredecessorsInTrace
  <2> QED
    BY <2>2
<1>2. step \in [(SUBSET (1 .. n)) \X V -> V]
  <2>1. ASSUME NEW p \in (SUBSET (1 .. n)) \X V PROVE (IF p[1] = {} THEN <<>> ELSE Next2(p[1], p[2])) \in V
    <3> HIDE DEF Next2
    <3> QED
      BY <1>1
  <2> HIDE DEF Next2, V
  <2> QED
    BY <2>1
<1>3. PICK h \in [SUBSET (1 .. n) -> V] : FoldsUp(h, n, <<>>, step)
  <2>1. <<>> \in V
    OBVIOUS
  <2> HIDE DEF V, step
  <2> QED
    BY <1>2, <2>1, FoldRecursion
<1>4. ASSUME NEW T \in SUBSET (1 .. n) PROVE h[T] = IF T = {} THEN <<>> ELSE Next2(T, h[T \ {Max(T)}])
  <2>1. h[T] = IF T = {} THEN <<>> ELSE step[<<T, h[T \ {Max(T)}]>>]
    BY <1>3 DEF FoldsUp
  <2>2. <<T, h[T \ {Max(T)}]>> \in (SUBSET (1 .. n)) \X V
    BY <1>3
  <2> HIDE DEF Next2, V
  <2> QED
    BY <2>1, <2>2
<1>5. \A T \in SUBSET (1 .. n) : T # {} => [i \in 1 .. n |-> i][Max(T)] = Max(T)
  BY ExtremesOfPart
<1>6. DOMAIN [i \in 1 .. n |-> i] = 1 .. n
  OBVIOUS
<1>7. h = [T \in SUBSET (1 .. n) |-> IF T = {} THEN <<>>
            ELSE Append(h[T \ {Max(T)}], PredecessorsOf(calls, h[T \ {Max(T)}], [i \in 1 .. n |-> i][Max(T)]))]
  <2>1. \A T \in SUBSET (1 .. n) : h[T] = IF T = {} THEN <<>>
            ELSE Append(h[T \ {Max(T)}], PredecessorsOf(calls, h[T \ {Max(T)}], [i \in 1 .. n |-> i][Max(T)]))
    BY <1>4, <1>5
  <2> HIDE DEF V
  <2> QED
    BY <1>3, <2>1
<1>8. Builds(h, calls)
  BY <1>6, <1>7, Zenon DEF Builds
<1> QED
  BY <1>8

\* What is known after the calls up to k: history[k] are the predecessors of calls 1 to k.
GrowsTo(history, calls) ==
  /\ \A k \in 0 .. Len(calls) : history[k] \in Seq(PredecessorFunctions(Len(calls)))
  /\ history[0] = <<>>
  /\ \A k \in 1 .. Len(calls) : history[k] = Append(history[k - 1], PredecessorsOf(calls, history[k - 1], k))

LEMMA PredecessorsGrow ==
  ASSUME NEW calls, Len(calls) \in Nat
  PROVE  \E history : GrowsTo(history, calls) /\ Predecessors(calls) = history[Len(calls)]
<1> DEFINE n == Len(calls)
           h == CHOOSE h : Builds(h, calls)
           S == DOMAIN [i \in 1 .. n |-> i]
           V == Seq(PredecessorFunctions(n))
<1>1. Predecessors(calls) = h[S]
  BY Zenon DEF Predecessors, FoldLeft, MapThenFoldSet, Builds, Max
<1>2. Builds(h, calls)
  <2>1. \E f : Builds(f, calls)
    BY BuildExists
  <2> QED
    BY <2>1
<1> HIDE DEF h
<1> DEFINE history == [k \in 0 .. n |-> h[1 .. k]]
<1>3. S = 1 .. n
  OBVIOUS
<1>4. ASSUME NEW T \in SUBSET (1 .. n)
      PROVE  h[T] = IF T = {} THEN <<>>
                    ELSE Append(h[T \ {Max(T)}], PredecessorsOf(calls, h[T \ {Max(T)}], [i \in 1 .. n |-> i][Max(T)]))
  <2>1. T \in SUBSET S
    BY <1>3
  <2> HIDE DEF S
  <2> QED
    BY <1>2, <1>3, <2>1 DEF Builds, S
<1>5. history[0] = <<>>
  <2>1. 1 .. 0 = {} /\ 1 .. 0 \in SUBSET (1 .. n)
    OBVIOUS
  <2>2. h[1 .. 0] = <<>>
    BY <1>4, <2>1
  <2> QED
    BY <2>2
<1>6. ASSUME NEW k \in 1 .. n PROVE history[k] = Append(history[k - 1], PredecessorsOf(calls, history[k - 1], k))
  <2>1. 1 .. k # {} /\ Max(1 .. k) = k /\ (1 .. k) \ {Max(1 .. k)} = 1 .. k - 1
    BY LastOfInterval
  <2>2. 1 .. k \in SUBSET (1 .. n)
    OBVIOUS
  <2>3. h[1 .. k] = Append(h[1 .. k - 1], PredecessorsOf(calls, h[1 .. k - 1], k))
    BY <1>4, <2>1, <2>2
  <2>4. history[k] = h[1 .. k] /\ history[k - 1] = h[1 .. k - 1]
    OBVIOUS
  <2> HIDE DEF history
  <2> QED
    BY <2>3, <2>4
<1> HIDE DEF history
<1>7. \A k \in 0 .. n : history[k] \in V
  <2> DEFINE Good == {k \in Nat : k <= n => history[k] \in V}
  <2>1. 0 \in Good
    <3>1. history[0] \in V
      <4>1. <<>> \in V
        OBVIOUS
      <4> HIDE DEF V
      <4> QED
        BY <1>5, <4>1
    <3> HIDE DEF V
    <3> QED
      BY <3>1
  <2>2. ASSUME NEW k \in Nat, k \in Good PROVE k + 1 \in Good
    <3> SUFFICES ASSUME k + 1 <= n PROVE history[k + 1] \in V
      OBVIOUS
    <3>1. history[k + 1] = Append(history[k], PredecessorsOf(calls, history[k], k + 1))
      BY <1>6
    <3>2. PredecessorsOf(calls, history[k], k + 1) \in PredecessorFunctions(n)
      BY PredecessorsInTrace
    <3>3. history[k] \in V
      BY <2>2
    <3> QED
      BY <3>1, <3>2, <3>3
  <2>3. \A k \in Nat : k \in Good
    <3> HIDE DEF Good
    <3> QED
      BY <2>1, <2>2, NatSetInduction
  <2> HIDE DEF V
  <2> QED
    BY <2>3
<1>8. GrowsTo(history, calls)
  BY <1>5, <1>6, <1>7 DEF GrowsTo
<1>9. Predecessors(calls) = history[n]
  BY <1>1, <1>3 DEF history
<1> QED
  BY <1>8, <1>9

\* The predecessors of each call of a trace are those found when it was its turn.
\* The graph has no cycle.
THEOREM PredecessorsAreFound ==
  ASSUME NEW calls, Len(calls) \in Nat, NEW preds, preds = Predecessors(calls)
  PROVE  /\ preds \in Seq(PredecessorFunctions(Len(calls))) /\ Len(preds) = Len(calls)
         /\ Earlier(preds)
         /\ \A i \in 1 .. Len(calls) :
              /\ DOMAIN preds[i] = Causal(preds[i]) \cup TemporalPredecessor(calls, i)
              /\ \A j \in 1 .. i - 1 : Feeds(calls, j, i) => j \in CausalAncestors(preds, i)
              /\ \A j, k \in Causal(preds[i]) : j \notin CausalAncestors(preds, k)
              /\ \A j \in Causal(preds[i]) : Feeds(calls, j, i)
<1> DEFINE n == Len(calls)
           V == Seq(PredecessorFunctions(n))
           Holds(p, i) == /\ DOMAIN p[i] = Causal(p[i]) \cup TemporalPredecessor(calls, i)
                          /\ \A j \in 1 .. i - 1 : Feeds(calls, j, i) => j \in CausalAncestors(p, i)
                          /\ \A j, k \in Causal(p[i]) : j \notin CausalAncestors(p, k)
                          /\ \A j \in Causal(p[i]) : Feeds(calls, j, i)
<1>1. PICK history : GrowsTo(history, calls) /\ preds = history[n]
  BY PredecessorsGrow
<1> DEFINE Good == {k \in Nat : k <= n => /\ history[k] \in V /\ Len(history[k]) = k
                                         /\ Earlier(history[k])
                                         /\ \A i \in 1 .. k : Holds(history[k], i)}
<1>2. 0 \in Good
  BY <1>1 DEF GrowsTo, Earlier
<1>3. ASSUME NEW k \in Nat, k \in Good PROVE k + 1 \in Good
  <2> SUFFICES ASSUME k + 1 <= n
               PROVE  /\ history[k + 1] \in V /\ Len(history[k + 1]) = k + 1 /\ Earlier(history[k + 1])
                      /\ \A i \in 1 .. k + 1 : Holds(history[k + 1], i)
    OBVIOUS
  <2> DEFINE p == history[k]
             q == history[k + 1]
             m == k + 1
             C == CausalPredecessors(calls, p, m)
             P == PredecessorsOf(calls, p, m)
  <2>1. p \in V /\ Len(p) = k /\ Earlier(p) /\ \A i \in 1 .. k : Holds(p, i)
    <3> HIDE DEF Holds
    <3> QED
      BY <1>3
  <2>2. q = Append(p, P) /\ q \in V
    <3>1. m \in 1 .. n /\ m \in 0 .. n /\ m - 1 = k
      OBVIOUS
    <3> HIDE DEF m
    <3>2. history[m] = Append(history[m - 1], PredecessorsOf(calls, history[m - 1], m)) /\ history[m] \in V
      BY <1>1, <3>1, Zenon DEF GrowsTo
    <3> QED
      BY <3>1, <3>2, Zenon DEF m
  <2> HIDE DEF Holds
  <2>3. P \in PredecessorFunctions(n)
    BY PredecessorsInTrace
  <2>4. /\ DOMAIN P = C \cup TemporalPredecessor(calls, m)
        /\ Causal(P) = C
        /\ TemporalPredecessor(calls, m) \subseteq 1 .. k
    <3>1. m \in Nat /\ m > 0 /\ m - 1 = k
      OBVIOUS
    <3> HIDE DEF m
    <3> QED
      BY <3>1, PredecessorsOfCall
  <2>5. /\ C \subseteq 1 .. k
        /\ \A j \in 1 .. k : Feeds(calls, j, m) => j \in C \/ \E c \in C : j \in CausalAncestors(p, c)
        /\ \A j, c \in C : j \notin CausalAncestors(p, c)
        /\ \A j \in C : Feeds(calls, j, m)
    <3>1. m \in Nat /\ m > 0 /\ m - 1 = k
      OBVIOUS
    <3> HIDE DEF m
    <3> QED
      BY <2>1, <3>1, PredecessorsFound
  <2> HIDE DEF p, q, P, C
  <2>6. Len(q) = m /\ q[m] = P /\ \A i \in 1 .. k : q[i] = p[i]
    BY <2>1, <2>2, <2>3
  <2>7. Earlier(q)
    <3>1. ASSUME NEW i \in 1 .. Len(q) PROVE DOMAIN q[i] \subseteq 1 .. i - 1
      <4>1. CASE i = m
        <5>1. DOMAIN P \subseteq 1 .. k
          BY <2>4, <2>5
        <5>2. q[i] = P /\ i - 1 = k
          BY <2>6, <4>1
        <5> QED
          BY <5>1, <5>2
      <4>2. CASE i # m
        BY <2>1, <2>6, <4>2 DEF Earlier
      <4> QED
        BY <4>1, <4>2
    <3> QED
      BY <3>1 DEF Earlier
  <2>8. \A i \in 1 .. k : CausalAncestors(q, i) = CausalAncestors(p, i)
    BY <2>1, <2>6, <2>7, AncestorsStay
  <2>9. ASSUME NEW i \in 1 .. k PROVE Holds(q, i)
    <3>1. Holds(p, i) /\ q[i] = p[i]
      BY <2>1, <2>6
    <3>2. \A c \in Causal(p[i]) : c \in 1 .. k
      BY <2>1 DEF Earlier, Causal
    <3> QED
      BY <2>8, <3>1, <3>2 DEF Holds
  <2>10. Holds(q, m)
    <3>1. CausalAncestors(q, m) = UNION {{j} \cup CausalAncestors(q, j) : j \in C}
      <4>1. Len(q) \in Nat /\ m \in 1 .. Len(q) /\ Causal(q[m]) = C
        BY <2>4, <2>6
      <4> QED
        BY <2>7, <4>1, CausalAncestorsAre, Zenon
    <3>2. \A c \in C : CausalAncestors(q, c) = CausalAncestors(p, c)
      BY <2>5, <2>8
    <3>3. \A j \in 1 .. k : Feeds(calls, j, m) => j \in CausalAncestors(q, m)
      BY <2>5, <3>1, <3>2
    <3>4. \A j, c \in C : j \notin CausalAncestors(q, c)
      BY <2>5, <3>2
    <3>5. Causal(q[m]) = C /\ DOMAIN q[m] = Causal(q[m]) \cup TemporalPredecessor(calls, m)
      BY <2>4, <2>6
    <3>6. \A j \in 1 .. m - 1 : Feeds(calls, j, m) => j \in CausalAncestors(q, m)
      <4>1. m - 1 = k
        OBVIOUS
      <4> QED
        BY <3>3, <4>1
    <3>7. \A j, c \in Causal(q[m]) : j \notin CausalAncestors(q, c)
      BY <3>4, <3>5
    <3>8. \A j \in Causal(q[m]) : Feeds(calls, j, m)
      BY <2>5, <3>5
    <3> QED
      BY <3>5, <3>6, <3>7, <3>8, Zenon DEF Holds
  <2>11. \A i \in 1 .. m : i = m \/ i \in 1 .. k
    OBVIOUS
  <2> HIDE DEF m
  <2>12. q \in V /\ Len(q) = m /\ Earlier(q) /\ \A i \in 1 .. m : Holds(q, i)
    BY <2>2, <2>6, <2>7, <2>9, <2>10, <2>11
  <2> QED
    BY <2>12 DEF q, m
<1>4. \A k \in Nat : k \in Good
  <2> HIDE DEF Good
  <2> QED
    BY <1>2, <1>3, NatSetInduction
<1>5. n \in Good
  BY <1>4
<1> QED
  BY <1>1, <1>5

(***************************************************************************)
(* Timing                                                                  *)
(***************************************************************************)
\* A finite set of numbers that is not empty has a greatest one.
Greatest(S) == CHOOSE t \in S : \A u \in S : u <= t

LEMMA GreatestIs ==
  ASSUME NEW S \in SUBSET Int, IsFiniteSet(S), S # {}
  PROVE  Greatest(S) \in S /\ \A u \in S : u <= Greatest(S)
<1> DEFINE Good == {T \in SUBSET S : T # {} => \E t \in T : \A u \in T : u <= t}
<1>1. {} \in Good
  OBVIOUS
<1>2. ASSUME NEW T \in SUBSET S, NEW x \in S \ T, T \in Good PROVE T \cup {x} \in Good
  <2>1. CASE T = {}
    BY <2>1
  <2>2. CASE T # {}
    <3>1. PICK t \in T : \A u \in T : u <= t
      BY <1>2, <2>2
    <3>2. CASE x <= t
      BY <3>1, <3>2
    <3>3. CASE ~(x <= t)
      <4>1. \A u \in T \cup {x} : u <= x
        BY <3>1, <3>3
      <4> QED
        BY <4>1
    <3> QED
      BY <3>2, <3>3
  <2> QED
    BY <2>1, <2>2
<1>3. \A T \in SUBSET S : T \in Good
  <2> HIDE DEF Good
  <2> QED
    BY <1>1, <1>2, SetInduction
<1>4. \E t \in S : \A u \in S : u <= t
  BY <1>3
<1> QED
  BY <1>4 DEF Greatest

\* What a set of numbers of calls gives is a finite set of numbers.
LEMMA FiniteImage ==
  ASSUME NEW n \in Nat, NEW D \in SUBSET (1 .. n), NEW g, \A j \in D : g[j] \in Int
  PROVE  {g[j] : j \in D} \in SUBSET Int /\ IsFiniteSet({g[j] : j \in D})
<1>1. IsFiniteSet(D)
  <2>1. IsFiniteSet(1 .. n)
    BY FS_Interval
  <2> QED
    BY <2>1, FS_Subset
<1> DEFINE T == {g[j] : j \in D}
           f == [j \in D |-> g[j]]
<1>2. f \in Surjection(D, T)
  BY DEF Surjection
<1> HIDE DEF T, f
<1>3. IsFiniteSet(T)
  BY <1>1, <1>2, FS_Surjection
<1>4. T \in SUBSET Int
  BY DEF T
<1> QED
  BY <1>3, <1>4 DEF T

\* When the events of a graph start if all take the time that was recorded.
Ready(starts, graph, i) == {starts[j] + (graph[j].end - graph[j].start) : j \in DOMAIN graph[i].preds}
Replays(starts, graph) ==
  starts = [i \in 1 .. Len(graph) |->
              IF Ready(starts, graph, i) = {} THEN 0 ELSE graph[i].wait + Greatest(Ready(starts, graph, i))]
InTurn(graph) == \A i \in 1 .. Len(graph) : \A j \in DOMAIN graph[i].preds : graph[j].end <= graph[i].start

LEMMA NeverSlowerIs ==
  ASSUME NEW graph, NEW starts, starts = CHOOSE s : Replays(s, graph)
  PROVE  NeverSlowerThanRecorded(graph)
           <=> (InTurn(graph) => \A i \in 1 .. Len(graph) : starts[i] <= graph[i].start - graph[1].start)
  BY Zenon DEF NeverSlowerThanRecorded, Replays, Ready, Greatest, InTurn

\* A graph whose waits are counted from the predecessor that ends last.
Ends(graph, i) == {graph[j].end : j \in DOMAIN graph[i].preds}
Timed(graph) ==
  /\ Len(graph) \in Nat
  /\ \A i \in 1 .. Len(graph) :
       /\ graph[i].start \in Int /\ graph[i].end \in Int /\ graph[i].wait \in Int
       /\ graph[1].start <= graph[i].start
       /\ DOMAIN graph[i].preds \subseteq 1 .. i - 1
       /\ DOMAIN graph[i].preds # {} =>
            graph[i].wait = IF Greatest(Ends(graph, i)) > graph[i].start THEN 0
                            ELSE graph[i].start - Greatest(Ends(graph, i))

LEMMA ReplayExists == ASSUME NEW graph, Timed(graph) PROVE \E starts : Replays(starts, graph)
<1> DEFINE n    == Len(graph)
           H    == Histories(n, Int)
           took(j) == graph[j].end - graph[j].start
           ready(k, h) == {h[j] + took(j) : j \in DOMAIN graph[k].preds \cap DOMAIN h}
           next(k, h)  == IF ready(k, h) = {} THEN 0 ELSE graph[k].wait + Greatest(ready(k, h))
           step == [p \in (1 .. n) \X H |-> next(p[1], p[2])]
<1>1. ASSUME NEW k \in 1 .. n, NEW h \in H PROVE next(k, h) \in Int
  <2>1. PICK m \in 0 .. n : h \in [1 .. m -> Int]
    BY DEF Histories
  <2> DEFINE D == DOMAIN graph[k].preds \cap DOMAIN h
             g == [j \in D |-> h[j] + took(j)]
  <2>2. D \in SUBSET (1 .. n) /\ \A j \in D : g[j] \in Int /\ g[j] = h[j] + took(j)
    <3>1. D \subseteq 1 .. k - 1
      BY DEF Timed
    <3>2. ASSUME NEW j \in D PROVE j \in 1 .. n /\ h[j] + took(j) \in Int
      <4>1. j \in 1 .. n /\ h[j] \in Int
        BY <2>1, <3>1
      <4>2. graph[j].start \in Int /\ graph[j].end \in Int
        BY <4>1 DEF Timed
      <4> QED
        BY <4>1, <4>2
    <3> HIDE DEF D, took
    <3> QED
      BY <3>2
  <2> HIDE DEF g, D
  <2>3. {g[j] : j \in D} \in SUBSET Int /\ IsFiniteSet({g[j] : j \in D})
    BY <2>2, FiniteImage DEF Timed
  <2>4. {g[j] : j \in D} = ready(k, h)
    BY <2>2 DEF D
  <2> HIDE DEF ready
  <2>5. ready(k, h) # {} => Greatest(ready(k, h)) \in Int
    BY <2>3, <2>4, GreatestIs
  <2> QED
    BY <2>5 DEF Timed
<1>2. step \in [(1 .. n) \X H -> Int]
  <2> HIDE DEF next, H
  <2> QED
    BY <1>1
<1>3. PICK f \in [1 .. n -> Int] : FollowsCourse(f, n, step)
  <2> HIDE DEF step
  <2> QED
    BY <1>2, CourseRecursion DEF Timed
<1>4. ASSUME NEW i \in 1 .. n PROVE f[i] = IF Ready(f, graph, i) = {} THEN 0 ELSE graph[i].wait + Greatest(Ready(f, graph, i))
  <2> DEFINE past == [j \in 1 .. i - 1 |-> f[j]]
  <2>1. past \in H
    <3>1. i - 1 \in 0 .. n /\ past \in [1 .. i - 1 -> Int] /\ n \in Nat
      BY DEF Timed
    <3> HIDE DEF past
    <3> QED
      BY <3>1, HistoryIsOne
  <2>2. f[i] = next(i, past)
    <3>1. f[i] = step[<<i, past>>]
      BY <1>3 DEF FollowsCourse
    <3> HIDE DEF past, next, H
    <3> QED
      BY <2>1, <3>1
  <2>3. ready(i, past) = Ready(f, graph, i)
    <3>1. DOMAIN past = 1 .. i - 1 /\ DOMAIN graph[i].preds \subseteq 1 .. i - 1 /\ \A j \in 1 .. i - 1 : past[j] = f[j]
      BY DEF Timed
    <3> HIDE DEF past
    <3>2. DOMAIN graph[i].preds \cap DOMAIN past = DOMAIN graph[i].preds /\ \A j \in DOMAIN graph[i].preds : past[j] = f[j]
      BY <3>1
    <3> QED
      BY <3>2 DEF Ready
  <2> HIDE DEF past, ready
  <2> QED
    BY <2>2, <2>3
<1>5. f = [i \in 1 .. n |-> IF Ready(f, graph, i) = {} THEN 0 ELSE graph[i].wait + Greatest(Ready(f, graph, i))]
  BY <1>4
<1> QED
  BY <1>5 DEF Replays

LEMMA EndOfCall ==
  ASSUME NEW at \in Int, NEW start \in Int, NEW end \in Int, NEW first \in Int, at <= start - first
  PROVE  at + (end - start) \in Int /\ at + (end - start) <= end - first
  OBVIOUS

LEMMA StartOfCall ==
  ASSUME NEW start \in Int, NEW last \in Int, NEW at \in Int, NEW end \in Int, NEW first \in Int,
         at <= end - first, end <= last
  PROVE  (start - last) + at \in Int /\ (start - last) + at <= start - first
  OBVIOUS

\* Replayed with the durations that were recorded, no call of a timed graph is later
\* after the first than it was recorded.
LEMMA TimedIsNotSlower == ASSUME NEW graph, Timed(graph) PROVE NeverSlowerThanRecorded(graph)
<1> DEFINE starts == CHOOSE s : Replays(s, graph)
           n      == Len(graph)
           Good   == {i \in 1 .. n : starts[i] \in Int /\ starts[i] <= graph[i].start - graph[1].start}
<1>1. Replays(starts, graph)
  BY ReplayExists
<1> HIDE DEF starts
<1>2. SUFFICES ASSUME InTurn(graph) PROVE \A i \in 1 .. n : i \in Good
  <2>1. InTurn(graph) => \A i \in 1 .. n : starts[i] <= graph[i].start - graph[1].start
    BY <1>2
  <2> QED
    BY <2>1, NeverSlowerIs DEF starts
<1>3. ASSUME NEW i \in 1 .. n, \A j \in 1 .. i - 1 : j \in Good PROVE i \in Good
  <2> DEFINE D == DOMAIN graph[i].preds
             g == [j \in D |-> starts[j] + (graph[j].end - graph[j].start)]
             e == [j \in D |-> graph[j].end]
  <2>1. D \in SUBSET (1 .. n) /\ \A j \in D : j \in 1 .. i - 1
    BY DEF Timed
  <2>2. starts[i] = IF Ready(starts, graph, i) = {} THEN 0 ELSE graph[i].wait + Greatest(Ready(starts, graph, i))
    BY <1>1 DEF Replays
  <2>3. \A j \in D : /\ starts[j] \in Int /\ starts[j] <= graph[j].start - graph[1].start
                     /\ graph[j].start \in Int /\ graph[j].end \in Int /\ graph[1].start \in Int
                     /\ g[j] \in Int /\ e[j] \in Int /\ g[j] <= e[j] - graph[1].start
    <3>1. ASSUME NEW j \in D
          PROVE  /\ starts[j] \in Int /\ starts[j] <= graph[j].start - graph[1].start
                 /\ graph[j].start \in Int /\ graph[j].end \in Int /\ graph[1].start \in Int
      <4>1. j \in 1 .. n /\ 1 \in 1 .. n /\ j \in Good
        BY <1>3, <2>1
      <4> QED
        BY <4>1 DEF Timed
    <3>2. ASSUME NEW j \in D PROVE g[j] \in Int /\ e[j] \in Int /\ g[j] <= e[j] - graph[1].start
      <4>1. g[j] = starts[j] + (graph[j].end - graph[j].start) /\ e[j] = graph[j].end
        OBVIOUS
      <4> HIDE DEF g, e
      <4> QED
        <5>1. /\ starts[j] \in Int /\ starts[j] <= graph[j].start - graph[1].start
              /\ graph[j].start \in Int /\ graph[j].end \in Int /\ graph[1].start \in Int
          BY <3>1
        <5> QED
          BY <4>1, <5>1, EndOfCall
    <3> HIDE DEF g, e, D
    <3> QED
      BY <3>1, <3>2
  <2>4. Ready(starts, graph, i) = {g[j] : j \in D} /\ Ends(graph, i) = {e[j] : j \in D}
    BY DEF Ready, Ends
  <2>5. n \in Nat
    BY DEF Timed
  <2> HIDE DEF g, e
  <2>6. /\ Ready(starts, graph, i) \in SUBSET Int /\ IsFiniteSet(Ready(starts, graph, i))
        /\ Ends(graph, i) \in SUBSET Int /\ IsFiniteSet(Ends(graph, i))
    <3>1. {g[j] : j \in D} \in SUBSET Int /\ IsFiniteSet({g[j] : j \in D})
      BY <2>1, <2>3, <2>5, FiniteImage
    <3>2. {e[j] : j \in D} \in SUBSET Int /\ IsFiniteSet({e[j] : j \in D})
      BY <2>1, <2>3, <2>5, FiniteImage
    <3> QED
      BY <2>4, <3>1, <3>2
  <2>7. graph[i].start \in Int /\ graph[1].start \in Int /\ graph[1].start <= graph[i].start /\ graph[i].wait \in Int
    BY DEF Timed
  <2>8. CASE D = {}
    BY <2>2, <2>4, <2>7, <2>8
  <2>9. CASE D # {}
    <3> DEFINE G0 == Greatest(Ready(starts, graph, i))
               E0 == Greatest(Ends(graph, i))
    <3>1. G0 \in {g[j] : j \in D} /\ E0 \in Ends(graph, i) /\ \A u \in {e[j] : j \in D} : u <= E0
      BY <2>4, <2>6, <2>9, GreatestIs
    <3>2. E0 <= graph[i].start
      BY <1>2, <3>1 DEF InTurn, Ends
    <3>3. graph[i].wait = graph[i].start - E0
      <4>1. graph[i].wait = IF E0 > graph[i].start THEN 0 ELSE graph[i].start - E0
        BY <2>9 DEF Timed
      <4>2. E0 \in Int
        BY <2>6, <3>1
      <4> QED
        BY <2>7, <3>2, <4>1, <4>2
    <3>4. PICK j \in D : G0 = g[j]
      BY <3>1
    <3>5. e[j] <= E0
      BY <3>1
    <3>6. starts[i] = graph[i].wait + G0
      BY <2>2, <2>4, <2>9
    <3>7. E0 \in Int
      BY <2>6, <3>1
    <3> HIDE DEF G0, E0
    <3>8. g[j] \in Int /\ e[j] \in Int /\ g[j] <= e[j] - graph[1].start
      BY <2>3, <3>4
    <3>9. starts[i] = (graph[i].start - E0) + g[j]
      BY <3>3, <3>4, <3>6
    <3> QED
      <4>1. (graph[i].start - E0) + g[j] \in Int /\ (graph[i].start - E0) + g[j] <= graph[i].start - graph[1].start
        BY <2>7, <3>5, <3>7, <3>8, StartOfCall
      <4> QED
        BY <3>9, <4>1
  <2> QED
    BY <2>8, <2>9
<1>4. \A i \in 1 .. n : i \in Good
  <2>1. n \in Nat
    BY DEF Timed
  <2> HIDE DEF Good
  <2> QED
    BY <1>3, <2>1, CourseInduction
<1> QED
  BY <1>4

LEMMA EventsOfCalls ==
  ASSUME NEW calls, Len(calls) \in Nat, NEW i \in 1 .. Len(calls)
  PROVE  LET graph == BuildGraph(calls)
             preds == Predecessors(calls)
         IN  /\ graph[i].preds = preds[i] /\ graph[i].wait = Wait(calls, preds[i], i)
             /\ graph[i].start = calls[i].start /\ graph[i].end = calls[i].end
<1> DEFINE preds == Predecessors(calls)
<1>1. BuildGraph(calls)[i] = EventOf(calls, preds, i)
  BY DEF BuildGraph
<1> HIDE DEF preds
<1>2. /\ EventOf(calls, preds, i).preds = preds[i] /\ EventOf(calls, preds, i).wait = Wait(calls, preds[i], i)
      /\ EventOf(calls, preds, i).start = calls[i].start /\ EventOf(calls, preds, i).end = calls[i].end
  BY DEF EventOf
<1> QED
  BY <1>1, <1>2 DEF preds

LEMMA GraphsAreTimed ==
  ASSUME NEW calls, InOrderOfStart(calls)
  PROVE  Timed(BuildGraph(calls)) /\ Len(BuildGraph(calls)) = Len(calls)
<1> DEFINE n     == Len(calls)
           graph == BuildGraph(calls)
           preds == Predecessors(calls)
<1>1. Len(graph) = n /\ n \in Nat
  BY DEF BuildGraph, InOrderOfStart
<1>2. ASSUME NEW i \in 1 .. n
      PROVE  /\ graph[i].preds = preds[i] /\ graph[i].wait = Wait(calls, preds[i], i)
             /\ graph[i].start = calls[i].start /\ graph[i].end = calls[i].end
  BY <1>1, EventsOfCalls
<1>3. Len(preds) = n /\ Earlier(preds)
  BY <1>1, PredecessorsAreFound
<1> HIDE DEF graph, preds
<1>4. ASSUME NEW i \in 1 .. n
      PROVE  /\ graph[i].start \in Int /\ graph[i].end \in Int /\ graph[i].wait \in Int
             /\ graph[1].start <= graph[i].start
             /\ DOMAIN graph[i].preds \subseteq 1 .. i - 1
             /\ DOMAIN graph[i].preds # {} =>
                  graph[i].wait = IF Greatest(Ends(graph, i)) > graph[i].start THEN 0
                                  ELSE graph[i].start - Greatest(Ends(graph, i))
  <2> DEFINE D    == DOMAIN preds[i]
             E    == {calls[j].end : j \in D}
             last == Greatest(E)
  <2>1. D \subseteq 1 .. i - 1
    BY <1>3 DEF Earlier
  <2>2. \A j \in D : j \in 1 .. n /\ graph[j].end = calls[j].end /\ calls[j].end \in Int
    BY <1>2, <2>1 DEF InOrderOfStart
  <2>3. Ends(graph, i) = E
    BY <1>2, <2>2 DEF Ends
  <2>4. graph[i].wait = IF preds[i] = <<>> \/ last > calls[i].start THEN 0 ELSE calls[i].start - last
    <3>1. Wait(calls, preds[i], i) = IF preds[i] = <<>> \/ last > calls[i].start THEN 0 ELSE calls[i].start - last
      BY DEF Wait, Greatest
    <3> QED
      BY <1>2, <3>1
  <2>5. E # {} => last \in Int
    <3> DEFINE e == [j \in D |-> calls[j].end]
    <3>1. D \in SUBSET (1 .. n) /\ \A j \in D : e[j] \in Int
      BY <2>1, <2>2
    <3>2. E = {e[j] : j \in D}
      OBVIOUS
    <3> HIDE DEF e, E, D
    <3>3. E \in SUBSET Int /\ IsFiniteSet(E)
      BY <1>1, <3>1, <3>2, FiniteImage
    <3> QED
      BY <3>3, GreatestIs
  <2>6. calls[i].start \in Int /\ calls[i].end \in Int /\ calls[1].start <= calls[i].start /\ 1 \in 1 .. n
    BY DEF InOrderOfStart
  <2>7. D # {} => preds[i] # <<>>
    OBVIOUS
  <2>8. D # {} => graph[i].wait = IF last > calls[i].start THEN 0 ELSE calls[i].start - last
    <3> HIDE DEF D, last
    <3> QED
      BY <2>4, <2>7
  <2>9. graph[i].wait \in Int
    <3>1. CASE D = {}
      <4>1. preds[i] = <<>>
        <5>1. preds \in Seq(PredecessorFunctions(n))
          BY <1>1, PredecessorsAreFound DEF preds
        <5>2. preds[i] \in PredecessorFunctions(n)
          BY <1>3, <5>1
        <5>3. preds[i] = [j \in D |-> preds[i][j]]
          BY <5>2 DEF PredecessorFunctions
        <5> QED
          BY <3>1, <5>3
      <4> QED
        BY <2>4, <4>1
    <3>2. CASE D # {}
      <4>1. E # {}
        BY <3>2
      <4> HIDE DEF E, D, last
      <4> QED
        BY <2>5, <2>6, <2>8, <3>2, <4>1
    <3> QED
      BY <3>1, <3>2
  <2>10. graph[1].start = calls[1].start
    BY <1>2, <2>6
  <2> HIDE DEF D, E, last
  <2> QED
    BY <1>2, <2>1, <2>3, <2>6, <2>8, <2>9, <2>10 DEF D, last
<1>5. Timed(graph)
  BY <1>1, <1>4 DEF Timed
<1> QED
  BY <1>1, <1>5 DEF graph

(***************************************************************************)
(* Spans within tools                                                      *)
(***************************************************************************)

\* The walk up from a span, and the way down from the tools.
Climbs(up, spans, id) ==
  up = [k \in 0 .. Cardinality(spans) |->
         IF k = 0 THEN ParentOf(spans, id)
         ELSE up[k - 1] \cup UNION {ParentOf(spans, p) : p \in up[k - 1] \ ToolSpans(spans)}]
Descends(below, spans) ==
  below = [k \in 0 .. Cardinality(spans) |->
            IF k = 0 THEN {s \in spans : s.parent \in ToolSpans(spans)}
            ELSE below[k - 1] \cup {s \in spans : \E t \in below[k - 1] : s.parent = t.id}]

LEMMA ClimbExists ==
  ASSUME NEW spans, IsFiniteSet(spans), NEW id
  PROVE  \E up : Climbs(up, spans, id)
<1> DEFINE N == Cardinality(spans)
           D == 0 .. N
           V == SUBSET {s.parent : s \in spans}
           rank == [k \in D |-> k]
           prev == [k \in D |-> k - 1]
           next(u) == u \cup UNION {ParentOf(spans, p) : p \in u \ ToolSpans(spans)}
           step == [p \in D \X V |-> next(p[2])]
<1>1. N \in Nat
  BY FS_CardinalityType
<1> HIDE DEF N
<1>2. Ranked(D, rank, prev)
  BY <1>1 DEF Ranked
<1>3. \A p : ParentOf(spans, p) \in V
  BY DEF ParentOf
<1>4. step \in [D \X V -> V]
  <2>1. ASSUME NEW u \in V PROVE next(u) \in V
    <3> HIDE DEF V
    <3>1. \A p \in u \ ToolSpans(spans) : ParentOf(spans, p) \in V
      BY <1>3
    <3> QED
      BY <2>1, <3>1 DEF V
  <2> HIDE DEF next, V
  <2> QED
    BY <2>1
<1>5. PICK up \in [D -> V] : RecursOn(up, D, rank, prev, ParentOf(spans, id), step)
  <2>1. ParentOf(spans, id) \in V
    BY <1>3
  <2> HIDE DEF D, V, rank, prev, step
  <2> QED
    BY <1>2, <1>4, <2>1, RankedRecursion
<1>6. ASSUME NEW k \in D PROVE up[k] = IF k = 0 THEN ParentOf(spans, id) ELSE next(up[k - 1])
  <2>1. up[k] = IF rank[k] = 0 THEN ParentOf(spans, id) ELSE step[<<k, up[prev[k]]>>]
    BY <1>5 DEF RecursOn
  <2>2. rank[k] = k /\ prev[k] = k - 1 /\ (k # 0 => k - 1 \in D)
    BY <1>1
  <2>3. k # 0 => <<k, up[k - 1]>> \in D \X V
    BY <1>5, <2>2
  <2> HIDE DEF next, V, D, rank, prev
  <2> QED
    BY <2>1, <2>2, <2>3
<1>7. up = [k \in D |-> IF k = 0 THEN ParentOf(spans, id) ELSE next(up[k - 1])]
  <2> HIDE DEF next, V
  <2> QED
    BY <1>5, <1>6
<1> QED
  BY <1>7 DEF Climbs, N

LEMMA DescentExists ==
  ASSUME NEW spans, IsFiniteSet(spans)
  PROVE  \E below : Descends(below, spans)
<1> DEFINE N == Cardinality(spans)
           D == 0 .. N
           V == SUBSET spans
           rank == [k \in D |-> k]
           prev == [k \in D |-> k - 1]
           base == {s \in spans : s.parent \in ToolSpans(spans)}
           next(b) == b \cup {s \in spans : \E t \in b : s.parent = t.id}
           step == [p \in D \X V |-> next(p[2])]
<1>1. N \in Nat
  BY FS_CardinalityType
<1> HIDE DEF N
<1>2. Ranked(D, rank, prev)
  BY <1>1 DEF Ranked
<1>3. step \in [D \X V -> V] /\ base \in V
  OBVIOUS
<1>4. PICK below \in [D -> V] : RecursOn(below, D, rank, prev, base, step)
  <2> HIDE DEF D, V, rank, prev, step, base
  <2> QED
    BY <1>2, <1>3, RankedRecursion
<1>5. ASSUME NEW k \in D PROVE below[k] = IF k = 0 THEN base ELSE next(below[k - 1])
  <2>1. below[k] = IF rank[k] = 0 THEN base ELSE step[<<k, below[prev[k]]>>]
    BY <1>4 DEF RecursOn
  <2>2. rank[k] = k /\ prev[k] = k - 1 /\ (k # 0 => k - 1 \in D)
    BY <1>1
  <2>3. k # 0 => <<k, below[k - 1]>> \in D \X V
    BY <1>4, <2>2
  <2> HIDE DEF next, V, D, rank, prev, base
  <2> QED
    BY <2>1, <2>2, <2>3
<1>6. below = [k \in D |-> IF k = 0 THEN base ELSE next(below[k - 1])]
  <2> HIDE DEF next, V, base
  <2> QED
    BY <1>4, <1>5
<1> QED
  BY <1>6 DEF Descends, N

LEMMA AncestryIs ==
  ASSUME NEW spans, NEW id
  PROVE  Ancestry(spans, id) = (CHOOSE up : Climbs(up, spans, id))[Cardinality(spans)]
  BY Zenon DEF Ancestry, Climbs

LEMMA NestedIs ==
  ASSUME NEW spans
  PROVE  NestedSpansAreInternal(spans)
           <=> ToolInternalSpans(spans) = {s.id : s \in (CHOOSE b : Descends(b, spans))[Cardinality(spans)]}
  BY Zenon DEF NestedSpansAreInternal, Descends

\* What has been visited after k steps up from a span, and what is found in k steps down.
Climbed(spans, id, k) == (CHOOSE up : Climbs(up, spans, id))[k]
Descended(spans, k) == (CHOOSE below : Descends(below, spans))[k]
Steps(spans) == Cardinality(spans)

LEMMA ClimbSteps ==
  ASSUME NEW spans, IsFiniteSet(spans), NEW id
  PROVE  /\ Steps(spans) \in Nat
         /\ Climbed(spans, id, 0) = ParentOf(spans, id)
         /\ \A k \in 1 .. Steps(spans) :
              Climbed(spans, id, k) = Climbed(spans, id, k - 1)
                \cup UNION {ParentOf(spans, p) : p \in Climbed(spans, id, k - 1) \ ToolSpans(spans)}
         /\ Ancestry(spans, id) = Climbed(spans, id, Steps(spans))
<1> DEFINE up == CHOOSE up : Climbs(up, spans, id)
           n  == Steps(spans)
<1>1. Climbs(up, spans, id)
  BY ClimbExists
<1> HIDE DEF up
<1>2. n \in Nat
  BY FS_CardinalityType DEF Steps
<1>3. \A k \in 0 .. n : up[k] = IF k = 0 THEN ParentOf(spans, id)
                                ELSE up[k - 1] \cup UNION {ParentOf(spans, p) : p \in up[k - 1] \ ToolSpans(spans)}
  BY <1>1 DEF Climbs, Steps
<1>4. \A k : Climbed(spans, id, k) = up[k]
  BY DEF Climbed, up
<1>5. Ancestry(spans, id) = up[n]
  BY AncestryIs DEF up, Steps
<1> HIDE DEF n
<1>6. 0 \in 0 .. n /\ \A k \in 1 .. n : k \in 0 .. n /\ k # 0
  BY <1>2
<1>7. up[0] = ParentOf(spans, id)
  BY <1>3, <1>6
<1>8. \A k \in 1 .. n : up[k] = up[k - 1] \cup UNION {ParentOf(spans, p) : p \in up[k - 1] \ ToolSpans(spans)}
  BY <1>3, <1>6
<1> QED
  BY <1>2, <1>4, <1>5, <1>7, <1>8, Zenon DEF n

LEMMA DescentSteps ==
  ASSUME NEW spans, IsFiniteSet(spans)
  PROVE  /\ Descended(spans, 0) = {s \in spans : s.parent \in ToolSpans(spans)}
         /\ \A k \in 1 .. Steps(spans) :
              Descended(spans, k) = Descended(spans, k - 1)
                \cup {s \in spans : \E t \in Descended(spans, k - 1) : s.parent = t.id}
<1> DEFINE below == CHOOSE below : Descends(below, spans)
           n     == Steps(spans)
<1>1. Descends(below, spans)
  BY DescentExists
<1> HIDE DEF below
<1>2. n \in Nat
  BY FS_CardinalityType DEF Steps
<1>3. \A k \in 0 .. n : below[k] = IF k = 0 THEN {s \in spans : s.parent \in ToolSpans(spans)}
                                   ELSE below[k - 1] \cup {s \in spans : \E t \in below[k - 1] : s.parent = t.id}
  BY <1>1 DEF Descends, Steps
<1>4. \A k : Descended(spans, k) = below[k]
  BY DEF Descended, below
<1> HIDE DEF n
<1>5. 0 \in 0 .. n /\ \A k \in 1 .. n : k \in 0 .. n /\ k # 0
  BY <1>2
<1>6. below[0] = {s \in spans : s.parent \in ToolSpans(spans)}
  BY <1>3, <1>5
<1>7. \A k \in 1 .. n : below[k] = below[k - 1] \cup {s \in spans : \E t \in below[k - 1] : s.parent = t.id}
  BY <1>3, <1>5
<1>8. ASSUME NEW k \in 1 .. n
      PROVE  Descended(spans, k) = Descended(spans, k - 1)
               \cup {s \in spans : \E t \in Descended(spans, k - 1) : s.parent = t.id}
  <2>1. Descended(spans, k) = below[k] /\ Descended(spans, k - 1) = below[k - 1]
    BY <1>4
  <2> QED
    BY <1>7, <2>1
<1>9. Descended(spans, 0) = {s \in spans : s.parent \in ToolSpans(spans)}
  BY <1>4, <1>6
<1> QED
  BY <1>8, <1>9 DEF n

\* The walk up, seen from below: the parents of a span, and the walks up from those that
\* are no tools.
LEMMA ClimbFromParents ==
  ASSUME NEW spans, IsFiniteSet(spans)
  PROVE  \A k \in 1 .. Steps(spans) : \A id :
            Climbed(spans, id, k) = ParentOf(spans, id)
              \cup UNION {Climbed(spans, p, k - 1) : p \in ParentOf(spans, id) \ ToolSpans(spans)}
<1> DEFINE n     == Steps(spans)
           T     == ToolSpans(spans)
           PO(i) == ParentOf(spans, i)
           C(i, k) == Climbed(spans, i, k)
           Good  == {k \in Nat : 1 <= k /\ k <= n => \A id : C(id, k) = PO(id) \cup UNION {C(p, k - 1) : p \in PO(id) \ T}}
<1>1. n \in Nat
  BY ClimbSteps
<1>2. \A i : /\ C(i, 0) = PO(i)
             /\ \A k \in 1 .. n : C(i, k) = C(i, k - 1) \cup UNION {PO(p) : p \in C(i, k - 1) \ T}
  BY ClimbSteps
<1> HIDE DEF n, T, PO, C
<1>3. 0 \in Good
  OBVIOUS
<1>4. ASSUME NEW k \in Nat, k \in Good PROVE k + 1 \in Good
  <2> SUFFICES ASSUME k + 1 <= n, NEW id PROVE C(id, k + 1) = PO(id) \cup UNION {C(p, k) : p \in PO(id) \ T}
    OBVIOUS
  <2>1. C(id, k + 1) = C(id, k) \cup UNION {PO(q) : q \in C(id, k) \ T}
    BY <1>1, <1>2
  <2>2. CASE k = 0
    <3>1. C(id, k) = PO(id) /\ \A p : C(p, k) = PO(p)
      BY <1>2, <2>2
    <3>2. {PO(q) : q \in C(id, k) \ T} = {C(p, k) : p \in PO(id) \ T}
      BY <3>1
    <3> QED
      BY <2>1, <3>1, <3>2
  <2>3. CASE k # 0
    <3>1. C(id, k) = PO(id) \cup UNION {C(p, k - 1) : p \in PO(id) \ T}
      BY <1>1, <1>4, <2>3
    <3>2. ASSUME NEW p PROVE C(p, k) = C(p, k - 1) \cup UNION {PO(q) : q \in C(p, k - 1) \ T} /\ PO(p) \subseteq C(p, k)
      <4>1. C(p, k) = C(p, k - 1) \cup UNION {PO(q) : q \in C(p, k - 1) \ T}
        BY <1>1, <1>2, <2>3
      <4>2. C(p, k) = PO(p) \cup UNION {C(q, k - 1) : q \in PO(p) \ T}
        BY <1>1, <1>4, <2>3
      <4> QED
        BY <4>1, <4>2
    <3>3. ASSUME NEW x \in C(id, k + 1) PROVE x \in PO(id) \cup UNION {C(p, k) : p \in PO(id) \ T}
      <4>1. CASE x \in C(id, k)
        BY <3>1, <3>2, <4>1
      <4>2. ASSUME NEW q \in C(id, k) \ T, x \in PO(q) PROVE x \in UNION {C(p, k) : p \in PO(id) \ T}
        <5>1. CASE q \in PO(id)
          BY <3>2, <4>2, <5>1
        <5>2. ASSUME NEW p \in PO(id) \ T, q \in C(p, k - 1) PROVE x \in UNION {C(r, k) : r \in PO(id) \ T}
          BY <3>2, <4>2, <5>2
        <5> QED
          BY <3>1, <5>1, <5>2
      <4> QED
        BY <2>1, <3>3, <4>1, <4>2
    <3>4. ASSUME NEW p \in PO(id) \ T, NEW x \in C(p, k) PROVE x \in C(id, k + 1)
      <4>1. p \in C(id, k) \ T
        BY <3>1
      <4>2. CASE x \in C(p, k - 1)
        BY <2>1, <3>1, <4>2
      <4>3. ASSUME NEW q \in C(p, k - 1) \ T, x \in PO(q) PROVE x \in C(id, k + 1)
        <5>1. q \in C(id, k) \ T
          BY <3>1
        <5> QED
          BY <2>1, <4>3, <5>1
      <4> QED
        BY <3>2, <3>4, <4>2, <4>3
    <3>5. PO(id) \subseteq C(id, k + 1)
      BY <2>1, <3>1
    <3> QED
      BY <3>3, <3>4, <3>5
  <2> QED
    BY <2>2, <2>3
<1>5. \A k \in Nat : k \in Good
  <2> HIDE DEF Good
  <2> QED
    BY <1>3, <1>4, NatSetInduction
<1> QED
  BY <1>1, <1>5 DEF n, T, PO, C

\* A span is within a tool if the way down from the tools comes to it; k steps down find
\* what k steps up tell.
LEMMA UpAndDown ==
  ASSUME NEW spans, IsFiniteSet(spans), \A s \in spans : s.id # NoSource
  PROVE  \A k \in 0 .. Steps(spans) : \A id :
            Climbed(spans, id, k) \cap ToolSpans(spans) # {} <=> \E s \in Descended(spans, k) : s.id = id
<1> DEFINE n     == Steps(spans)
           T     == ToolSpans(spans)
           PO(i) == ParentOf(spans, i)
           C(i, k) == Climbed(spans, i, k)
           B(k)  == Descended(spans, k)
           Good  == {k \in Nat : k <= n => \A id : C(id, k) \cap T # {} <=> \E s \in B(k) : s.id = id}
<1>1. n \in Nat /\ \A i : C(i, 0) = PO(i)
  BY ClimbSteps
<1>2. \A k \in 1 .. n : \A i : C(i, k) = PO(i) \cup UNION {C(p, k - 1) : p \in PO(i) \ T}
  BY ClimbFromParents
<1>3. /\ B(0) = {s \in spans : s.parent \in T}
      /\ \A k \in 1 .. n : B(k) = B(k - 1) \cup {s \in spans : \E t \in B(k - 1) : s.parent = t.id}
  BY DescentSteps
<1>4. \A i, p : p \in PO(i) <=> p # NoSource /\ \E s \in spans : s.id = i /\ s.parent = p
  BY DEF ParentOf
<1>5. NoSource \notin T
  BY DEF ToolSpans
<1> HIDE DEF n, T, PO, C, B
<1>6. 0 \in Good
  <2>1. ASSUME NEW id PROVE C(id, 0) \cap T # {} <=> \E s \in B(0) : s.id = id
    BY <1>1, <1>3, <1>4, <1>5
  <2> QED
    BY <2>1
<1>7. ASSUME NEW k \in Nat, k + 1 <= n PROVE B(k) \subseteq B(k + 1) /\ B(k) \subseteq spans /\ B(0) \subseteq B(k)
  <2> DEFINE Retained == {j \in Nat : j <= n => B(j) \subseteq spans /\ B(0) \subseteq B(j)}
  <2>1. 0 \in Retained
    BY <1>3
  <2>2. ASSUME NEW j \in Nat, j \in Retained PROVE j + 1 \in Retained
    <3>1. j + 1 <= n => B(j + 1) = B(j) \cup {s \in spans : \E t \in B(j) : s.parent = t.id}
      BY <1>1, <1>3
    <3> QED
      BY <1>1, <2>2, <3>1
  <2>3. \A j \in Nat : j \in Retained
    <3> HIDE DEF Retained
    <3> QED
      BY <2>1, <2>2, NatSetInduction
  <2>4. B(k + 1) = B(k) \cup {s \in spans : \E t \in B(k) : s.parent = t.id}
    BY <1>1, <1>3, <1>7
  <2> QED
    BY <1>1, <1>7, <2>3, <2>4
<1>8. ASSUME NEW k \in Nat, k \in Good PROVE k + 1 \in Good
  <2> SUFFICES ASSUME k + 1 <= n, NEW id PROVE C(id, k + 1) \cap T # {} <=> \E s \in B(k + 1) : s.id = id
    OBVIOUS
  <2>1. C(id, k + 1) = PO(id) \cup UNION {C(p, k) : p \in PO(id) \ T}
    BY <1>1, <1>2, SMTT(30)
  <2>2. B(k + 1) = B(k) \cup {s \in spans : \E t \in B(k) : s.parent = t.id}
    BY <1>1, <1>3
  <2>3. \A i : C(i, k) \cap T # {} <=> \E s \in B(k) : s.id = i
    BY <1>1, <1>8
  <2>4. B(k) \subseteq B(k + 1) /\ B(k) \subseteq spans /\ B(0) \subseteq B(k)
    BY <1>7
  <2>5. ASSUME C(id, k + 1) \cap T # {} PROVE \E s \in B(k + 1) : s.id = id
    <3>1. CASE PO(id) \cap T # {}
      <4>1. PICK s \in spans : s.id = id /\ s.parent \in T
        BY <1>4, <3>1
      <4> QED
        BY <1>3, <2>4, <4>1
    <3>2. ASSUME NEW p \in PO(id) \ T, C(p, k) \cap T # {} PROVE \E s \in B(k + 1) : s.id = id
      <4>1. PICK t \in B(k) : t.id = p
        BY <2>3, <3>2
      <4>2. PICK s \in spans : s.id = id /\ s.parent = p
        BY <1>4
      <4> QED
        BY <2>2, <4>1, <4>2
    <3> QED
      BY <2>1, <2>5, <3>1, <3>2
  <2>6. ASSUME NEW s \in B(k + 1), s.id = id PROVE C(id, k + 1) \cap T # {}
    <3>1. CASE s \in B(k)
      <4>1. C(id, k) \cap T # {}
        BY <2>3, <2>6, <3>1
      <4>2. C(id, k) \subseteq C(id, k + 1)
        <5>1. C(id, k + 1) = C(id, k) \cup UNION {PO(p) : p \in C(id, k) \ T}
          <6>1. k + 1 \in 1 .. n /\ (k + 1) - 1 = k
            BY <1>1
          <6>2. C(id, k + 1) = C(id, (k + 1) - 1) \cup UNION {PO(p) : p \in C(id, (k + 1) - 1) \ T}
            BY <6>1, ClimbSteps DEF C, PO, T, n
          <6> QED
            BY <6>1, <6>2
        <5> QED
          BY <5>1
      <4> QED
        BY <4>1, <4>2
    <3>2. ASSUME NEW t \in B(k), s.parent = t.id PROVE C(id, k + 1) \cap T # {}
      <4>1. C(t.id, k) \cap T # {}
        BY <2>3
      <4>2. t.id \in PO(id)
        <5>1. t \in spans /\ s \in spans
          BY <2>2, <2>4
        <5> QED
          BY <1>4, <2>6, <3>2, <5>1
      <4> QED
        BY <2>1, <4>1, <4>2
    <3> QED
      BY <2>2, <2>6, <3>1, <3>2
  <2> QED
    BY <2>5, <2>6
<1>9. \A k \in Nat : k \in Good
  <2> HIDE DEF Good
  <2> QED
    BY <1>6, <1>8, NatSetInduction
<1> QED
  BY <1>1, <1>9 DEF n, T, C, B

\* The property of the runs: what the walks up find is what the way down finds.
LEMMA UpIsDown ==
  ASSUME NEW spans, IsFiniteSet(spans), \A s \in spans : s.id # NoSource
  PROVE  NestedSpansAreInternal(spans)
<1> DEFINE n == Steps(spans)
<1>1. n \in Nat /\ \A id : Ancestry(spans, id) = Climbed(spans, id, n)
  BY ClimbSteps
<1>2. \A id : Climbed(spans, id, n) \cap ToolSpans(spans) # {} <=> \E s \in Descended(spans, n) : s.id = id
  BY <1>1, UpAndDown
<1>3. Descended(spans, n) \subseteq spans
  <2> DEFINE Retained == {j \in Nat : j <= n => Descended(spans, j) \subseteq spans}
  <2>1. 0 \in Retained
    BY DescentSteps
  <2>2. ASSUME NEW j \in Nat, j \in Retained PROVE j + 1 \in Retained
    <3>1. j + 1 <= n => Descended(spans, j + 1) = Descended(spans, j)
                          \cup {s \in spans : \E t \in Descended(spans, j) : s.parent = t.id}
      <4>1. j + 1 <= n => j + 1 \in 1 .. n /\ (j + 1) - 1 = j
        BY <1>1
      <4> QED
        BY <4>1, DescentSteps
    <3> HIDE DEF n
    <3> QED
      BY <1>1, <2>2, <3>1
  <2>3. \A j \in Nat : j \in Retained
    <3> HIDE DEF Retained
    <3> QED
      BY <2>1, <2>2, NatSetInduction
  <2> QED
    BY <1>1, <2>3
<1>4. ToolInternalSpans(spans) = {s.id : s \in {s \in spans : Ancestry(spans, s.id) \cap ToolSpans(spans) # {}}}
  BY DEF ToolInternalSpans
<1>5. ToolInternalSpans(spans) = {s.id : s \in Descended(spans, n)}
  <2> HIDE DEF n
  <2> QED
    BY <1>1, <1>2, <1>3, <1>4
<1> QED
  BY <1>5, NestedIs DEF Descended, Steps

\* As many steps as there are spans are enough: after them the way down finds no more.
LEMMA DescentIsOver ==
  ASSUME NEW spans, IsFiniteSet(spans)
  PROVE  /\ \A k \in 0 .. Steps(spans) : Descended(spans, k) \subseteq spans /\ Descended(spans, 0) \subseteq Descended(spans, k)
         /\ \A s \in spans : \A t \in Descended(spans, Steps(spans)) : s.parent = t.id => s \in Descended(spans, Steps(spans))
<1> DEFINE n       == Steps(spans)
           B(k)    == Descended(spans, k)
           Next(S) == S \cup {s \in spans : \E t \in S : s.parent = t.id}
           Good    == {k \in Nat : k <= n => /\ B(k) \subseteq spans /\ B(0) \subseteq B(k)
                                             /\ Next(B(k)) = B(k) \/ Cardinality(B(k)) >= k}
<1>1. n \in Nat /\ n = Cardinality(spans)
  BY ClimbSteps DEF Steps
<1>2. B(0) \subseteq spans /\ \A k \in 1 .. n : B(k) = Next(B(k - 1))
  BY DescentSteps
<1> HIDE DEF n, B
<1>3. 0 \in Good
  <2>1. IsFiniteSet(B(0))
    BY <1>2, FS_Subset
  <2>2. Cardinality(B(0)) \in Nat
    BY <2>1, FS_CardinalityType
  <2> QED
    BY <1>2, <2>2
<1>4. ASSUME NEW k \in Nat, k \in Good PROVE k + 1 \in Good
  <2> SUFFICES ASSUME k + 1 <= n
               PROVE  /\ B(k + 1) \subseteq spans /\ B(0) \subseteq B(k + 1)
                      /\ Next(B(k + 1)) = B(k + 1) \/ Cardinality(B(k + 1)) >= k + 1
    OBVIOUS
  <2>1. B(k + 1) = Next(B(k))
    BY <1>1, <1>2
  <2>2. B(k) \subseteq spans /\ B(0) \subseteq B(k) /\ (Next(B(k)) = B(k) \/ Cardinality(B(k)) >= k)
    <3> HIDE DEF Next
    <3> QED
      BY <1>1, <1>4
  <2>3. B(k + 1) \subseteq spans /\ B(0) \subseteq B(k + 1) /\ B(k) \subseteq B(k + 1)
    BY <2>1, <2>2
  <2>4. CASE Next(B(k)) = B(k)
    <3> HIDE DEF Next
    <3> QED
      BY <2>1, <2>3, <2>4
  <2>5. CASE Next(B(k)) # B(k)
    <3>1. B(k) # B(k + 1) /\ Cardinality(B(k)) >= k
      BY <2>1, <2>2, <2>5
    <3>2. IsFiniteSet(B(k)) /\ IsFiniteSet(B(k + 1))
      BY <2>3, FS_Subset
    <3>3. Cardinality(B(k)) \in Nat /\ Cardinality(B(k + 1)) \in Nat /\ Cardinality(B(k)) < Cardinality(B(k + 1))
      BY <2>3, <3>1, <3>2, FS_CardinalityType, FS_Subset
    <3> HIDE DEF Next
    <3> QED
      BY <2>3, <3>1, <3>3
  <2> QED
    BY <2>4, <2>5
<1>5. \A k \in Nat : k \in Good
  <2> HIDE DEF Good
  <2> QED
    BY <1>3, <1>4, NatSetInduction
<1>6. Next(B(n)) = B(n)
  <2>1. B(n) \subseteq spans /\ (Next(B(n)) = B(n) \/ Cardinality(B(n)) >= n)
    <3> HIDE DEF Next
    <3> QED
      BY <1>1, <1>5
  <2>2. IsFiniteSet(B(n)) /\ Cardinality(B(n)) <= n /\ Cardinality(B(n)) \in Nat
    BY <1>1, <2>1, FS_Subset, FS_CardinalityType
  <2>3. Cardinality(B(n)) >= n => B(n) = spans
    <3>1. Cardinality(B(n)) >= n => Cardinality(B(n)) = Cardinality(spans)
      BY <1>1, <2>2
    <3> QED
      BY <2>1, <3>1, FS_Subset
  <2>4. CASE B(n) = spans
    BY <2>4
  <2>5. CASE B(n) # spans
    <3> HIDE DEF Next
    <3> QED
      BY <2>1, <2>3, <2>5
  <2> QED
    BY <2>4, <2>5
<1>7. \A k \in 0 .. n : B(k) \subseteq spans /\ B(0) \subseteq B(k)
  BY <1>1, <1>5
<1>8. \A s \in spans : \A t \in B(n) : s.parent = t.id => s \in B(n)
  BY <1>6
<1> QED
  BY <1>7, <1>8 DEF n, B

\* The spans within tools are those to which a chain of parents of any length leads from
\* a tool: the least set with every span that is called by a tool or by a member.
Nested(spans, inside) == \A s \in spans : s.parent \in ToolSpans(spans) \cup inside => s.id \in inside

THEOREM InternalSpansAreLeast ==
  ASSUME NEW spans, IsFiniteSet(spans), \A s \in spans : s.id # NoSource
  PROVE  /\ Nested(spans, ToolInternalSpans(spans))
         /\ \A inside : Nested(spans, inside) => ToolInternalSpans(spans) \subseteq inside
<1> DEFINE n    == Steps(spans)
           B(k) == Descended(spans, k)
<1>1. ToolInternalSpans(spans) = {s.id : s \in B(n)}
  BY UpIsDown, NestedIs DEF Descended, Steps
<1>2. n \in Nat
  BY ClimbSteps
<1>3. /\ \A k \in 0 .. n : B(k) \subseteq spans /\ B(0) \subseteq B(k)
      /\ \A s \in spans : \A t \in B(n) : s.parent = t.id => s \in B(n)
  BY DescentIsOver
<1>4. /\ B(0) = {s \in spans : s.parent \in ToolSpans(spans)}
      /\ \A k \in 1 .. n : B(k) = B(k - 1) \cup {s \in spans : \E t \in B(k - 1) : s.parent = t.id}
  BY DescentSteps
<1> HIDE DEF n, B
<1>5. Nested(spans, ToolInternalSpans(spans))
  BY <1>1, <1>2, <1>3, <1>4 DEF Nested
<1>6. ASSUME NEW inside, Nested(spans, inside) PROVE {s.id : s \in B(n)} \subseteq inside
  <2> DEFINE Good == {k \in Nat : k <= n => \A s \in B(k) : s.id \in inside}
  <2>1. 0 \in Good
    BY <1>4, <1>6 DEF Nested
  <2>2. ASSUME NEW k \in Nat, k \in Good PROVE k + 1 \in Good
    <3> SUFFICES ASSUME k + 1 <= n, NEW s \in B(k + 1) PROVE s.id \in inside
      OBVIOUS
    <3>1. B(k + 1) = B(k) \cup {t \in spans : \E u \in B(k) : t.parent = u.id}
      BY <1>2, <1>4
    <3>2. \A u \in B(k) : u.id \in inside
      BY <1>2, <2>2
    <3> QED
      BY <1>6, <3>1, <3>2 DEF Nested
  <2>3. \A k \in Nat : k \in Good
    <3> HIDE DEF Good
    <3> QED
      BY <2>1, <2>2, NatSetInduction
  <2> QED
    BY <1>2, <2>3
<1> QED
  BY <1>1, <1>5, <1>6

(***************************************************************************)
(* What the runs check of graphs, for inputs of every size                 *)
(***************************************************************************)
\* What the runs make of a recorded trace and of the spans around its calls, without their
\* bounds: any calls in the order of their starts, whatever they say, and any finite set
\* of spans, whatever their parents.
AnyTrace ==
  /\ case.alg = "trace" =>
       /\ InOrderOfStart(case.made.calls)
       /\ case.made.graph = BuildGraph(case.made.calls)
       /\ case.made.preds = [i \in 1 .. Len(case.made.graph) |-> case.made.graph[i].preds]
  /\ case.alg = "spans" => IsFiniteSet(case.made) /\ \A s \in case.made : s.id # NoSource

\* The graph of every trace keeps its causes and its timing: whoever's output came back in
\* a prompt is an ancestor, only direct edges are kept, no call waits longer than recorded,
\* and the calls within tools are told apart.
THEOREM GraphsAreFaithful == ASSUME AnyTrace PROVE GraphIsFaithful
<1>1. ASSUME case.alg = "trace"
      PROVE  /\ FeedersAreAncestors(case.made.calls, case.made.preds)
             /\ CausalEdgesAreDirect(case.made.calls, case.made.preds)
             /\ NeverSlowerThanRecorded(case.made.graph)
  <2> DEFINE calls == case.made.calls
             graph == case.made.graph
             preds == Predecessors(calls)
             n     == Len(calls)
  <2>1. InOrderOfStart(calls) /\ graph = BuildGraph(calls) /\ n \in Nat
    BY <1>1 DEF AnyTrace, InOrderOfStart
  <2>2. Timed(graph) /\ Len(graph) = n
    BY <2>1, GraphsAreTimed
  <2>3. /\ preds \in Seq(PredecessorFunctions(n)) /\ Len(preds) = n
        /\ \A i \in 1 .. n :
             /\ \A j \in 1 .. i - 1 : Feeds(calls, j, i) => j \in CausalAncestors(preds, i)
             /\ \A j, k \in Causal(preds[i]) : j \notin CausalAncestors(preds, k)
    BY <2>1, PredecessorsAreFound
  <2>4. \A i \in 1 .. n : graph[i].preds = preds[i]
    BY <2>1, EventsOfCalls
  <2> HIDE DEF preds
  <2>5. case.made.preds = preds
    <3>1. case.made.preds = [i \in 1 .. n |-> graph[i].preds]
      BY <1>1, <2>2 DEF AnyTrace
    <3>2. preds = [i \in 1 .. n |-> preds[i]]
      BY <2>3
    <3>3. [i \in 1 .. n |-> graph[i].preds] = [i \in 1 .. n |-> preds[i]]
      BY <2>4
    <3> HIDE DEF graph, n
    <3> QED
      BY <3>1, <3>2, <3>3
  <2>6. FeedersAreAncestors(calls, preds)
    BY <2>3 DEF FeedersAreAncestors, Feeds
  <2>7. CausalEdgesAreDirect(calls, preds)
    BY <2>3 DEF CausalEdgesAreDirect
  <2> QED
    BY <2>2, <2>5, <2>6, <2>7, TimedIsNotSlower
<1>2. ASSUME case.alg = "spans" PROVE NestedSpansAreInternal(case.made)
  BY <1>2, UpIsDown DEF AnyTrace
<1> QED
  BY <1>1, <1>2 DEF GraphIsFaithful, OnTrace, On

(***************************************************************************)
(* Sums of sequences                                                       *)
(***************************************************************************)
\* h is the function by which the fold of the community modules adds up.
AddsUp(h, counts) ==
  h = [T \in SUBSET DOMAIN counts |-> IF T = {} THEN 0 ELSE h[T \ {Max(T)}] + counts[Max(T)]]

\* The sums of the first numbers of a sequence, one after the other.
RunningSums(sums, n, counts) ==
  /\ sums \in [0 .. n -> Int]
  /\ sums[0] = 0
  /\ \A k \in 1 .. n : sums[k] = sums[k - 1] + counts[k]

Integral(n, counts) == \A k \in 1 .. n : counts[k] \in Int

LEMMA AddingExists ==
  ASSUME NEW n \in Nat, NEW counts, DOMAIN counts = 1 .. n, Integral(n, counts)
  PROVE  \E h \in [SUBSET (1 .. n) -> Int] : AddsUp(h, counts)
<1> DEFINE step == [p \in (SUBSET (1 .. n)) \X Int |-> IF p[1] = {} THEN 0 ELSE p[2] + counts[Max(p[1])]]
<1>1. step \in [(SUBSET (1 .. n)) \X Int -> Int]
  <2> SUFFICES ASSUME NEW T \in SUBSET (1 .. n), NEW v \in Int PROVE (IF T = {} THEN 0 ELSE v + counts[Max(T)]) \in Int
    BY Zenon
  <2>1. CASE T = {}
    BY <2>1
  <2>2. CASE T # {}
    <3>1. Max(T) \in 1 .. n
      BY <2>2, ExtremesOfPart
    <3> QED
      BY <2>2, <3>1 DEF Integral
  <2> QED
    BY <2>1, <2>2
<1>2. PICK h \in [SUBSET (1 .. n) -> Int] : FoldsUp(h, n, 0, step)
  <2>1. 0 \in Int
    OBVIOUS
  <2> HIDE DEF step
  <2> QED
    BY <1>1, <2>1, FoldRecursion
<1>3. ASSUME NEW T \in SUBSET (1 .. n) PROVE h[T] = IF T = {} THEN 0 ELSE h[T \ {Max(T)}] + counts[Max(T)]
  <2>1. h[T] = IF T = {} THEN 0 ELSE step[<<T, h[T \ {Max(T)}]>>]
    BY <1>2 DEF FoldsUp
  <2>2. h[T \ {Max(T)}] \in Int
    BY <1>2
  <2>3. T # {} => step[<<T, h[T \ {Max(T)}]>>] = h[T \ {Max(T)}] + counts[Max(T)]
    BY <2>2
  <2> QED
    BY <2>1, <2>3
<1> QED
  BY <1>2, <1>3, Zenon DEF AddsUp

\* A sum is what the running sums come to.
LEMMA SumIsRunning ==
  ASSUME NEW n \in Nat, NEW counts, DOMAIN counts = 1 .. n, Integral(n, counts),
         NEW sums, RunningSums(sums, n, counts)
  PROVE  SumOf(counts) = sums[n]
<1> DEFINE h == CHOOSE h : AddsUp(h, counts)
<1>1. SumOf(counts) = h[DOMAIN counts]
  BY Zenon DEF SumOf, FoldLeft, MapThenFoldSet, AddsUp, Max
<1>2. AddsUp(h, counts)
  BY AddingExists, Zenon
<1> HIDE DEF h
<1>3. \A T \in SUBSET (1 .. n) : h[T] = IF T = {} THEN 0 ELSE h[T \ {Max(T)}] + counts[Max(T)]
  BY <1>2, Zenon DEF AddsUp
<1> DEFINE Good == {k \in Nat : k <= n => h[1 .. k] = sums[k]}
<1>4. 0 \in Good
  <2>1. 1 .. 0 = {} /\ 1 .. 0 \in SUBSET (1 .. n)
    OBVIOUS
  <2> QED
    BY <1>3, <2>1 DEF RunningSums
<1>5. ASSUME NEW k \in Nat, k \in Good PROVE k + 1 \in Good
  <2> SUFFICES ASSUME k + 1 <= n PROVE h[1 .. k + 1] = sums[k + 1]
    OBVIOUS
  <2>1. 1 .. k + 1 # {} /\ Max(1 .. k + 1) = k + 1 /\ (1 .. k + 1) \ {Max(1 .. k + 1)} = 1 .. k
    <3>1. k + 1 \in Nat /\ k + 1 # 0 /\ (k + 1) - 1 = k
      OBVIOUS
    <3> QED
      BY <3>1, LastOfInterval
  <2>2. 1 .. k + 1 \in SUBSET (1 .. n)
    OBVIOUS
  <2>3. h[1 .. k + 1] = h[1 .. k] + counts[k + 1]
    BY <1>3, <2>1, <2>2
  <2> QED
    BY <1>5, <2>3 DEF RunningSums
<1>6. \A k \in Nat : k \in Good
  <2> HIDE DEF Good
  <2> QED
    BY <1>4, <1>5, NatSetInduction
<1> QED
  BY <1>1, <1>6

LEMMA RunningSumsExist ==
  ASSUME NEW n \in Nat, NEW counts, Integral(n, counts)
  PROVE  \E sums : RunningSums(sums, n, counts)
<1> DEFINE whole == [k \in 1 .. n |-> counts[k]]
           h == CHOOSE h \in [SUBSET (1 .. n) -> Int] : AddsUp(h, whole)
           sums == [k \in 0 .. n |-> h[1 .. k]]
<1>1. h \in [SUBSET (1 .. n) -> Int] /\ AddsUp(h, whole)
  <2>1. Integral(n, whole) /\ DOMAIN whole = 1 .. n
    BY DEF Integral
  <2> HIDE DEF whole
  <2> QED
    BY <2>1, AddingExists
<1> HIDE DEF h
<1>2. sums[0] = 0
  <2>1. 1 .. 0 = {} /\ 1 .. 0 \in SUBSET DOMAIN whole
    OBVIOUS
  <2>2. h[1 .. 0] = 0
    BY <1>1, <2>1 DEF AddsUp
  <2> QED
    BY <2>2
<1>3. ASSUME NEW k \in 1 .. n PROVE sums[k] = sums[k - 1] + counts[k]
  <2>1. 1 .. k # {} /\ Max(1 .. k) = k /\ (1 .. k) \ {Max(1 .. k)} = 1 .. k - 1
    <3>1. k \in Nat /\ k # 0
      OBVIOUS
    <3> QED
      BY <3>1, LastOfInterval
  <2>2. 1 .. k \in SUBSET DOMAIN whole /\ whole[k] = counts[k]
    OBVIOUS
  <2> HIDE DEF whole
  <2>3. h[1 .. k] = h[1 .. k - 1] + counts[k]
    BY <1>1, <2>1, <2>2 DEF AddsUp
  <2> QED
    BY <2>3
<1>4. sums \in [0 .. n -> Int]
  BY <1>1
<1> QED
  BY <1>2, <1>3, <1>4 DEF RunningSums

\* The sums of all beginnings of a sequence at once.
LEMMA SumsOfBeginnings ==
  ASSUME NEW n \in Nat, NEW counts, Integral(n, counts)
  PROVE  \E sums : /\ RunningSums(sums, n, counts)
                   /\ \A k \in 0 .. n : SumOf([l \in 1 .. k |-> counts[l]]) = sums[k]
<1>1. PICK sums : RunningSums(sums, n, counts)
  BY RunningSumsExist
<1>2. ASSUME NEW k \in 0 .. n PROVE SumOf([l \in 1 .. k |-> counts[l]]) = sums[k]
  <2> DEFINE part == [l \in 1 .. k |-> counts[l]]
             upto == [l \in 0 .. k |-> sums[l]]
  <2>1. DOMAIN part = 1 .. k /\ Integral(k, part)
    BY DEF Integral
  <2>2. RunningSums(upto, k, part)
    BY <1>1 DEF RunningSums
  <2>3. SumOf(part) = upto[k]
    <3> HIDE DEF part, upto
    <3> QED
      BY <2>1, <2>2, SumIsRunning
  <2> QED
    BY <2>3
<1> QED
  BY <1>1, <1>2

(***************************************************************************)
(* The idle-gap cap                                                        *)
(***************************************************************************)
\* Starts in ascending order, whole units of time, and a cap that is not negative.
AscendingStarts(starts) ==
  /\ Len(starts) \in Nat
  /\ \A k \in 1 .. Len(starts) : starts[k] \in Int
  /\ \A k, l \in 1 .. Len(starts) : k <= l => starts[k] <= starts[l]

\* What is cut from the gap before start k, and from all gaps up to it.
Excess(starts, cap, k) == IF k \in Gaps(starts, cap) THEN starts[k] - starts[k - 1] - cap ELSE 0
CutUpTo(shift, starts, cap) ==
  /\ shift \in [0 .. Len(starts) -> Int]
  /\ shift[0] = 0
  /\ \A k \in 1 .. Len(starts) : shift[k] = shift[k - 1] + Excess(starts, cap, k)
  /\ \A k \in 0 .. Len(starts) : ShiftBefore(starts, cap, k) = shift[k]

LEMMA ShiftsExist ==
  ASSUME NEW starts, AscendingStarts(starts), NEW cap \in Nat
  PROVE  \E shift : CutUpTo(shift, starts, cap)
<1> DEFINE n == Len(starts)
           excess == [k \in 1 .. n |-> Excess(starts, cap, k)]
<1>1. Integral(n, excess)
  <2> SUFFICES ASSUME NEW k \in 1 .. n PROVE Excess(starts, cap, k) \in Int
    BY DEF Integral
  <2>1. CASE k \in Gaps(starts, cap)
    <3>1. k - 1 \in 1 .. n
      BY <2>1 DEF Gaps
    <3>2. starts[k] \in Int /\ starts[k - 1] \in Int
      BY <3>1 DEF AscendingStarts
    <3> QED
      BY <2>1, <3>2 DEF Excess
  <2>2. CASE k \notin Gaps(starts, cap)
    BY <2>2 DEF Excess
  <2> QED
    BY <2>1, <2>2
<1>2. PICK shift : RunningSums(shift, n, excess) /\ \A k \in 0 .. n : SumOf([l \in 1 .. k |-> excess[l]]) = shift[k]
  <2>1. n \in Nat
    BY DEF AscendingStarts
  <2> HIDE DEF n, excess
  <2> QED
    BY <1>1, <2>1, SumsOfBeginnings
<1>3. \A k \in 0 .. n : ShiftBefore(starts, cap, k) = shift[k]
  <2> SUFFICES ASSUME NEW k \in 0 .. n PROVE ShiftBefore(starts, cap, k) = shift[k]
    OBVIOUS
  <2>1. ShiftBefore(starts, cap, k) = SumOf([l \in 1 .. k |-> Excess(starts, cap, l)])
    BY Zenon DEF ShiftBefore, Excess
  <2>2. [l \in 1 .. k |-> Excess(starts, cap, l)] = [l \in 1 .. k |-> excess[l]]
    BY DEF AscendingStarts
  <2> QED
    BY <1>2, <2>1, <2>2
<1>4. \A k \in 1 .. n : shift[k] = shift[k - 1] + Excess(starts, cap, k)
  BY <1>2 DEF RunningSums
<1> QED
  BY <1>2, <1>3, <1>4 DEF CutUpTo, RunningSums

\* A start is warped by what is cut up to it. Warped starts are in order, and their
\* distances are the gaps, capped.
LEMMA WarpedStarts ==
  ASSUME NEW starts, AscendingStarts(starts), NEW cap \in Nat, NEW shift, CutUpTo(shift, starts, cap)
  PROVE  /\ \A k \in 2 .. Len(starts) :
              /\ shift[k] >= shift[k - 1]
              /\ (starts[k] - shift[k]) - (starts[k - 1] - shift[k - 1])
                   = IF starts[k] - starts[k - 1] > cap THEN cap ELSE starts[k] - starts[k - 1]
         /\ Len(starts) > 0 => shift[1] = 0
         /\ \A k, l \in 1 .. Len(starts) :
              k <= l => shift[k] <= shift[l] /\ starts[k] - shift[k] <= starts[l] - shift[l]
<1> DEFINE n == Len(starts)
<1>n. n \in Nat
  BY DEF AscendingStarts
<1>1. ASSUME NEW k \in 2 .. n
      PROVE  /\ shift[k] >= shift[k - 1]
             /\ (starts[k] - shift[k]) - (starts[k - 1] - shift[k - 1])
                  = IF starts[k] - starts[k - 1] > cap THEN cap ELSE starts[k] - starts[k - 1]
             /\ starts[k] - shift[k] >= starts[k - 1] - shift[k - 1]
  <2>1. k \in 1 .. n /\ k - 1 \in 1 .. n /\ k \in 0 .. n /\ k - 1 \in 0 .. n /\ k - 1 <= k
    BY <1>n
  <2>2. starts[k] \in Int /\ starts[k - 1] \in Int /\ starts[k - 1] <= starts[k]
    BY <2>1 DEF AscendingStarts
  <2>3. shift[k] = shift[k - 1] + Excess(starts, cap, k) /\ shift[k] \in Int /\ shift[k - 1] \in Int
    BY <2>1 DEF CutUpTo
  <2>4. Excess(starts, cap, k) = IF starts[k] - starts[k - 1] > cap THEN starts[k] - starts[k - 1] - cap ELSE 0
    BY <1>n DEF Excess, Gaps
  <2>5. \A a, b, s, e \in Int :
          a <= b /\ e = (IF b - a > cap THEN b - a - cap ELSE 0) =>
            s + e >= s /\ (b - (s + e)) - (a - s) = (IF b - a > cap THEN cap ELSE b - a) /\ b - (s + e) >= a - s
    OBVIOUS
  <2>6. Excess(starts, cap, k) \in Int
    BY <2>2, <2>4
  <2> DEFINE a == starts[k - 1]
             b == starts[k]
             s == shift[k - 1]
             e == Excess(starts, cap, k)
  <2>7. a \in Int /\ b \in Int /\ s \in Int /\ e \in Int /\ a <= b /\ e = (IF b - a > cap THEN b - a - cap ELSE 0) /\ shift[k] = s + e
    BY <2>2, <2>3, <2>4, <2>6
  <2> HIDE DEF a, b, s, e
  <2>8. s + e >= s /\ (b - (s + e)) - (a - s) = (IF b - a > cap THEN cap ELSE b - a) /\ b - (s + e) >= a - s
    BY <2>5, <2>7
  <2> QED
    BY <2>7, <2>8 DEF a, b, s
<1>2. n > 0 => shift[1] = 0
  <2> SUFFICES ASSUME n > 0 PROVE shift[1] = 0
    OBVIOUS
  <2>1. Excess(starts, cap, 1) = 0
    BY DEF Excess, Gaps
  <2>2. 1 \in 1 .. n /\ 1 - 1 = 0
    BY <1>n
  <2>3. shift[1] = shift[0] + Excess(starts, cap, 1) /\ shift[0] = 0
    BY <2>2 DEF CutUpTo
  <2> QED
    BY <2>1, <2>3
<1>3. ASSUME NEW k \in 1 .. n
      PROVE  \A l \in 1 .. n : k <= l => shift[k] <= shift[l] /\ starts[k] - shift[k] <= starts[l] - shift[l]
  <2> DEFINE Good == {l \in Nat : l \in k .. n => shift[k] <= shift[l] /\ starts[k] - shift[k] <= starts[l] - shift[l]}
  <2>1. 0 \in Good
    OBVIOUS
  <2>2. ASSUME NEW l \in Nat, l \in Good PROVE l + 1 \in Good
    <3> SUFFICES ASSUME l + 1 \in k .. n
                 PROVE  shift[k] <= shift[l + 1] /\ starts[k] - shift[k] <= starts[l + 1] - shift[l + 1]
      OBVIOUS
    <3>1. \A m \in 1 .. n : starts[m] \in Int /\ shift[m] \in Int
      <4>1. \A m \in 1 .. n : starts[m] \in Int
        BY DEF AscendingStarts
      <4>2. \A m \in 0 .. n : shift[m] \in Int
        BY DEF CutUpTo
      <4> QED
        BY <1>n, <4>1, <4>2
    <3>2. CASE l + 1 = k
      BY <3>1, <3>2
    <3>3. CASE l + 1 # k
      <4>1. l \in k .. n /\ l + 1 \in 2 .. n /\ (l + 1) - 1 = l /\ l \in 1 .. n /\ l + 1 \in 1 .. n
        BY <3>3
      <4>2. shift[k] <= shift[l] /\ starts[k] - shift[k] <= starts[l] - shift[l]
        BY <2>2, <4>1
      <4>3. shift[l + 1] >= shift[l] /\ starts[l + 1] - shift[l + 1] >= starts[l] - shift[l]
        BY <1>1, <4>1
      <4>4. /\ starts[k] \in Int /\ starts[l] \in Int /\ starts[l + 1] \in Int
            /\ shift[k] \in Int /\ shift[l] \in Int /\ shift[l + 1] \in Int
        BY <3>1, <4>1
      <4>5. shift[k] <= shift[l + 1]
        BY <4>2, <4>3, <4>4
      <4>6. \A a, b, c, d, e, f \in Int : a - d <= b - e /\ c - f >= b - e => a - d <= c - f
        OBVIOUS
      <4>7. starts[k] - shift[k] <= starts[l + 1] - shift[l + 1]
        BY <4>2, <4>3, <4>4, <4>6, SMTT(30)
      <4> QED
        BY <4>5, <4>7
    <3> QED
      BY <3>2, <3>3
  <2>3. \A l \in Nat : l \in Good
    <3> HIDE DEF Good
    <3> QED
      BY <2>1, <2>2, NatSetInduction
  <2> QED
    BY <2>3
<1> QED
  BY <1>1, <1>2, <1>3

\* The last start that is not after t.
LastBefore(k, starts, t) ==
  /\ k \in 0 .. Len(starts)
  /\ \A l \in 1 .. Len(starts) : starts[l] <= t <=> l <= k

LEMMA LastBeforeExists ==
  ASSUME NEW starts, AscendingStarts(starts), NEW t \in Int
  PROVE  \E k : LastBefore(k, starts, t)
<1> DEFINE n == Len(starts)
           past == {l \in 1 .. n : starts[l] <= t}
<1>1. n \in Nat
  BY DEF AscendingStarts
<1>2. CASE past = {}
  <2>1. LastBefore(0, starts, t)
    BY <1>1, <1>2 DEF LastBefore
  <2> QED
    BY <2>1
<1>3. CASE past # {}
  <2>1. past \in SUBSET (1 .. n)
    OBVIOUS
  <2>2. Max(past) \in past /\ \A l \in past : l <= Max(past)
    <3> HIDE DEF past
    <3> QED
      BY <1>1, <1>3, <2>1, ExtremesOfPart
  <2> DEFINE k == Max(past)
  <2>3. k \in 1 .. n /\ starts[k] <= t
    BY <2>2
  <2>4. \A l \in 1 .. n : starts[l] <= t => l <= k
    BY <2>2
  <2> HIDE DEF past, k
  <2>5. \A l \in 1 .. n : l <= k => starts[l] <= t
    BY <2>3 DEF AscendingStarts
  <2>6. LastBefore(k, starts, t)
    BY <2>3, <2>4, <2>5 DEF LastBefore
  <2> QED
    BY <2>6
<1> QED
  BY <1>2, <1>3

\* Where a time goes: back by all that was cut before it, and no further than the cap
\* allows behind the last start.
LEMMA WarpIs ==
  ASSUME NEW starts, AscendingStarts(starts), NEW cap \in Nat, NEW shift, CutUpTo(shift, starts, cap),
         NEW t \in Int, NEW k, LastBefore(k, starts, t)
  PROVE  Warp(starts, cap, t)
           = (IF k + 1 \in Gaps(starts, cap) /\ t - starts[k] > cap THEN starts[k] + cap ELSE t) - shift[k]
<1> DEFINE n == Len(starts)
           gaps == Gaps(starts, cap)
           inside == {l \in gaps : starts[l - 1] <= t /\ t < starts[l]}
           passed == {l \in gaps : starts[l] <= t}
<1>1. n \in Nat /\ k \in 0 .. n
  BY DEF AscendingStarts, LastBefore
<1>2. \A l \in gaps : l \in 2 .. n /\ l \in 1 .. n /\ l - 1 \in 1 .. n /\ starts[l] \in Int /\ starts[l - 1] \in Int
  BY <1>1 DEF Gaps, AscendingStarts
<1>3. \A l \in gaps : (starts[l - 1] <= t <=> l - 1 <= k) /\ (starts[l] <= t <=> l <= k)
  BY <1>2 DEF LastBefore
<1>4. inside = {l \in gaps : l = k + 1}
  <2>1. \A l \in gaps : starts[l - 1] <= t /\ t < starts[l] <=> l = k + 1
    <3> SUFFICES ASSUME NEW l \in gaps PROVE starts[l - 1] <= t /\ t < starts[l] <=> l = k + 1
      OBVIOUS
    <3>1. l \in 2 .. n /\ starts[l] \in Int
      BY <1>2
    <3>2. t < starts[l] <=> ~(l <= k)
      BY <1>3, <3>1
    <3>3. starts[l - 1] <= t <=> l - 1 <= k
      BY <1>3
    <3> QED
      BY <1>1, <3>1, <3>2, <3>3
  <2> QED
    BY <2>1
<1>5. passed = {l \in gaps : l <= k}
  BY <1>3
<1>6. shift \in [0 .. n -> Int] /\ \A l \in 0 .. n : ShiftBefore(starts, cap, l) = shift[l]
  BY DEF CutUpTo
<1>7. Warp(starts, cap, t)
        = IF inside # {} THEN WithinGap(starts, cap, CHOOSE l \in inside : TRUE, t)
          ELSE IF passed = {} THEN t
          ELSE t - ShiftBefore(starts, cap, CHOOSE l \in passed : \A m \in passed : m <= l)
  BY Zenon DEF Warp
<1>8. CASE k + 1 \in gaps
  <2>1. inside # {} /\ (CHOOSE l \in inside : TRUE) = k + 1
    BY <1>4, <1>8
  <2>2. WithinGap(starts, cap, k + 1, t) = (IF t - starts[k] <= cap THEN t ELSE starts[k] + cap) - shift[k]
    <3>1. (k + 1) - 1 = k
      BY <1>1
    <3> QED
      BY <1>1, <1>6, <3>1 DEF WithinGap
  <2>3. starts[k] \in Int
    <3>1. (k + 1) - 1 = k
      BY <1>1
    <3> QED
      BY <1>2, <1>8, <3>1
  <2>4. Warp(starts, cap, t) = (IF t - starts[k] <= cap THEN t ELSE starts[k] + cap) - shift[k]
    <3> HIDE DEF inside, passed
    <3> QED
      BY <1>7, <2>1, <2>2
  <2>5. (t - starts[k] <= cap) <=> ~(t - starts[k] > cap)
    BY <2>3
  <2> QED
    BY <1>8, <2>4, <2>5
<1>9. CASE k + 1 \notin gaps
  <2>1. inside = {}
    BY <1>4, <1>9
  <2>2. CASE passed = {}
    <3>1. shift[k] = 0
      <4> DEFINE Good == {l \in Nat : l <= k => shift[l] = 0}
      <4>1. 0 \in Good
        BY DEF CutUpTo
      <4>2. ASSUME NEW l \in Nat, l \in Good PROVE l + 1 \in Good
        <5> SUFFICES ASSUME l + 1 <= k PROVE shift[l + 1] = 0
          OBVIOUS
        <5>1. l + 1 \notin gaps
          BY <1>5, <2>2
        <5>2. Excess(starts, cap, l + 1) = 0
          BY <5>1 DEF Excess
        <5>3. l + 1 \in 1 .. n /\ (l + 1) - 1 = l
          BY <1>1
        <5>4. shift[l + 1] = shift[l] + Excess(starts, cap, l + 1)
          BY <5>3 DEF CutUpTo
        <5>5. shift[l] = 0
          BY <1>1, <4>2
        <5> QED
          BY <5>2, <5>4, <5>5
      <4>3. \A l \in Nat : l \in Good
        <5> HIDE DEF Good
        <5> QED
          BY <4>1, <4>2, NatSetInduction
      <4> QED
        BY <1>1, <4>3
    <3> QED
      BY <1>7, <1>9, <2>1, <2>2, <3>1
  <2>3. CASE passed # {}
    <3> DEFINE last == CHOOSE l \in passed : \A m \in passed : m <= l
    <3>1. last \in passed /\ \A m \in passed : m <= last
      <4>1. passed \in SUBSET (1 .. n)
        BY <1>2
      <4>2. \E l \in passed : \A m \in passed : m <= l
        <5> HIDE DEF passed
        <5> QED
          BY <1>1, <2>3, <4>1, ExtremesOfPart
      <4> HIDE DEF passed
      <4> QED
        BY <4>2
    <3> HIDE DEF last
    <3>2. last \in 1 .. n /\ last <= k
      BY <1>2, <1>5, <3>1
    <3>3. shift[k] = shift[last]
      <4> DEFINE Good == {l \in Nat : l \in last .. k => shift[l] = shift[last]}
      <4>1. 0 \in Good
        BY <3>2
      <4>2. ASSUME NEW l \in Nat, l \in Good PROVE l + 1 \in Good
        <5> SUFFICES ASSUME l + 1 \in last .. k PROVE shift[l + 1] = shift[last]
          OBVIOUS
        <5>1. CASE l + 1 = last
          BY <5>1
        <5>2. CASE l + 1 # last
          <6>1. l + 1 \notin gaps
            BY <1>1, <1>5, <3>1, <3>2, <5>2
          <6>2. Excess(starts, cap, l + 1) = 0
            BY <6>1 DEF Excess
          <6>3. l + 1 \in 1 .. n /\ (l + 1) - 1 = l /\ l \in last .. k /\ l \in 0 .. n
            BY <1>1, <3>2, <5>2
          <6>4. shift[l + 1] = shift[l] + Excess(starts, cap, l + 1) /\ shift[l] \in Int
            BY <6>3 DEF CutUpTo
          <6>5. shift[l] = shift[last]
            BY <4>2, <6>3
          <6> QED
            BY <6>2, <6>4, <6>5
        <5> QED
          BY <5>1, <5>2
      <4>3. \A l \in Nat : l \in Good
        <5> HIDE DEF Good
        <5> QED
          BY <4>1, <4>2, NatSetInduction
      <4> QED
        BY <1>1, <3>2, <4>3
    <3>4. Warp(starts, cap, t) = t - ShiftBefore(starts, cap, last)
      BY <1>7, <2>1, <2>3 DEF last
    <3>5. last \in 0 .. n
      BY <1>1, <3>2
    <3> QED
      BY <1>6, <1>9, <3>3, <3>4, <3>5
  <2> QED
    BY <2>2, <2>3
<1> QED
  BY <1>8, <1>9

\* Wherever times are looked at: the warp keeps their order, and the gaps between starts
\* are what they were, or the cap if that is less.
LEMMA WarpIsOrderly ==
  ASSUME NEW starts, AscendingStarts(starts), NEW cap \in Nat, NEW times, times \subseteq Int
  PROVE  WarpKeepsOrder(starts, cap, times)
<1> DEFINE n == Len(starts)
<1>1. PICK shift : CutUpTo(shift, starts, cap)
  BY ShiftsExist
<1>2. n \in Nat /\ (\A k \in 1 .. n : starts[k] \in Int) /\ \A k \in 0 .. n : shift[k] \in Int
  BY <1>1 DEF AscendingStarts, CutUpTo
<1>3. /\ \A k \in 2 .. n : (starts[k] - shift[k]) - (starts[k - 1] - shift[k - 1])
                             = IF starts[k] - starts[k - 1] > cap THEN cap ELSE starts[k] - starts[k - 1]
      /\ n > 0 => shift[1] = 0
      /\ \A k, l \in 1 .. n : k <= l => shift[k] <= shift[l] /\ starts[k] - shift[k] <= starts[l] - shift[l]
  BY <1>1, WarpedStarts
<1>4. ASSUME NEW k \in 1 .. n PROVE Warp(starts, cap, starts[k]) = starts[k] - shift[k]
  <2>1. PICK l : LastBefore(l, starts, starts[k])
    BY <1>2, LastBeforeExists
  <2>2. k <= l /\ l \in 1 .. n /\ starts[l] <= starts[k]
    BY <1>2, <2>1 DEF LastBefore
  <2>3. starts[l] = starts[k]
    BY <1>2, <2>2 DEF AscendingStarts
  <2>4. shift[l] = shift[k]
    <3>1. shift[k] <= shift[l] /\ starts[k] - shift[k] <= starts[l] - shift[l]
      BY <1>3, <2>2
    <3>2. shift[k] \in Int /\ shift[l] \in Int /\ starts[k] \in Int
      BY <1>2, <2>2
    <3> QED
      BY <2>3, <3>1, <3>2
  <2>5. starts[k] \in Int
    BY <1>2
  <2>6. Warp(starts, cap, starts[k])
          = (IF l + 1 \in Gaps(starts, cap) /\ starts[k] - starts[l] > cap THEN starts[l] + cap ELSE starts[k]) - shift[l]
    BY <1>1, <2>1, <2>5, WarpIs
  <2> QED
    BY <2>3, <2>4, <2>5, <2>6
<1>5. ASSUME NEW k \in 2 .. n
      PROVE  Warp(starts, cap, starts[k]) - Warp(starts, cap, starts[k - 1])
               = IF starts[k] - starts[k - 1] > cap THEN cap ELSE starts[k] - starts[k - 1]
  <2>1. k \in 1 .. n /\ k - 1 \in 1 .. n
    BY <1>2
  <2> QED
    BY <1>3, <1>4, <2>1
<1>6. ASSUME NEW t \in times PROVE Warp(starts, cap, t) <= Warp(starts, cap, t + 1)
  <2>1. t \in Int /\ t + 1 \in Int
    OBVIOUS
  <2>2. PICK k : LastBefore(k, starts, t)
    BY <2>1, LastBeforeExists
  <2>3. PICK l : LastBefore(l, starts, t + 1)
    BY <2>1, LastBeforeExists
  <2>4. k \in 0 .. n /\ l \in 0 .. n /\ k <= l
    BY <1>2, <2>1, <2>2, <2>3 DEF LastBefore
  <2>5. /\ Warp(starts, cap, t)
             = (IF k + 1 \in Gaps(starts, cap) /\ t - starts[k] > cap THEN starts[k] + cap ELSE t) - shift[k]
        /\ Warp(starts, cap, t + 1)
             = (IF l + 1 \in Gaps(starts, cap) /\ (t + 1) - starts[l] > cap THEN starts[l] + cap ELSE t + 1) - shift[l]
    BY <1>1, <2>1, <2>2, <2>3, WarpIs
  <2>6. k + 1 \in Gaps(starts, cap) => k \in 1 .. n /\ k + 1 \in 1 .. n /\ starts[k] \in Int /\ starts[k + 1] \in Int
    BY <1>2, <2>4 DEF Gaps
  <2>7. l + 1 \in Gaps(starts, cap) => l \in 1 .. n /\ starts[l] \in Int
    BY <1>2, <2>4 DEF Gaps
  <2>8. shift[k] \in Int /\ shift[l] \in Int
    BY <1>2, <2>4
  <2>9. CASE k = l
    <3>1. CASE k + 1 \in Gaps(starts, cap)
      <4>1. starts[k] \in Int
        BY <2>6, <3>1
      <4>2. CASE t - starts[k] > cap
        BY <2>1, <2>5, <2>8, <2>9, <3>1, <4>1, <4>2
      <4>3. CASE ~(t - starts[k] > cap)
        BY <2>1, <2>5, <2>8, <2>9, <3>1, <4>1, <4>3
      <4> QED
        BY <4>2, <4>3
    <3>2. CASE k + 1 \notin Gaps(starts, cap)
      BY <2>1, <2>5, <2>8, <2>9, <3>2
    <3> QED
      BY <3>1, <3>2
  <2>10. CASE k # l
    <3>1. l \in 1 .. n /\ k + 1 \in 1 .. n /\ k + 1 <= l
      BY <2>4, <2>10
    <3>2. starts[l] = t + 1 /\ starts[k + 1] = t + 1
      <4>1. starts[l] <= t + 1 /\ ~(starts[k + 1] <= t) /\ starts[k + 1] <= starts[l]
        BY <2>2, <2>3, <2>4, <3>1 DEF LastBefore, AscendingStarts
      <4>2. starts[l] \in Int /\ starts[k + 1] \in Int
        BY <1>2, <3>1
      <4> QED
        BY <2>1, <4>1, <4>2
    <3>3. Warp(starts, cap, t + 1) = starts[l] - shift[l]
      BY <2>1, <2>5, <3>2
    <3>4. starts[k + 1] - shift[k + 1] <= starts[l] - shift[l]
      BY <1>3, <3>1
    <3>5. shift[k + 1] \in Int
      BY <1>2, <3>1
    <3>6. CASE k = 0
      <4>1. shift[0] = 0 /\ shift[1] = 0 /\ 0 + 1 = 1 /\ 1 \notin Gaps(starts, cap)
        BY <1>1, <1>2, <1>3, <3>1 DEF CutUpTo, Gaps
      <4>2. Warp(starts, cap, t) = t
        BY <2>1, <2>5, <3>6, <4>1
      <4> QED
        BY <2>1, <2>8, <3>2, <3>3, <3>4, <3>6, <4>1, <4>2
    <3>7. CASE k # 0
      <4>1. k + 1 \in 2 .. n /\ (k + 1) - 1 = k /\ k \in 1 .. n
        BY <2>4, <3>1, <3>7
      <4>2. (starts[k + 1] - shift[k + 1]) - (starts[k] - shift[k])
              = IF starts[k + 1] - starts[k] > cap THEN cap ELSE starts[k + 1] - starts[k]
        BY <1>3, <4>1
      <4>3. starts[k] \in Int /\ starts[k] <= t
        BY <1>2, <2>2, <4>1 DEF LastBefore
      <4>4. k + 1 \in Gaps(starts, cap) <=> starts[k + 1] - starts[k] > cap
        BY <4>1 DEF Gaps
      <4>5. Warp(starts, cap, t) <= starts[k + 1] - shift[k + 1]
        BY <2>1, <2>5, <2>8, <3>2, <3>5, <4>2, <4>3, <4>4
      <4>6. starts[l] \in Int
        BY <1>2, <3>1
      <4> QED
        BY <2>1, <2>8, <3>2, <3>3, <3>4, <3>5, <4>3, <4>5, <4>6, <2>5
    <3> QED
      BY <3>6, <3>7
  <2> QED
    BY <2>9, <2>10
<1> QED
  BY <1>5, <1>6 DEF WarpKeepsOrder
(***************************************************************************)
(* Streams of a sub-agent                                                  *)
(***************************************************************************)
\* Requests in the order of their starts.
InTimeOrder(requests) ==
  /\ Len(requests) \in Nat
  /\ \A r \in 1 .. Len(requests) : requests[r].t \in Int /\ requests[r].time \in Nat
  /\ \A r, q \in 1 .. Len(requests) : r <= q => requests[r].t <= requests[q].t

\* The streams after one more request.
FreeStreams(requests, streams, r) ==
  {k \in 1 .. Len(streams) : Free(StreamEnd(requests, streams[k]), requests[r].t)}
LeastIn(S) == CHOOSE k \in S : \A l \in S : k <= l
Placed(requests, streams, r) ==
  IF FreeStreams(requests, streams, r) = {} THEN Append(streams, <<r>>)
  ELSE [streams EXCEPT ![LeastIn(FreeStreams(requests, streams, r))] = Append(@, r)]

Places(h, requests) ==
  h = [T \in SUBSET DOMAIN [r \in 1 .. Len(requests) |-> r] |->
         IF T = {} THEN <<>> ELSE Placed(requests, h[T \ {Max(T)}], [r \in 1 .. Len(requests) |-> r][Max(T)])]

LEMMA PackingIs ==
  ASSUME NEW requests
  PROVE  PackIntoStreams(requests) = (CHOOSE h : Places(h, requests))[DOMAIN [r \in 1 .. Len(requests) |-> r]]
  BY Zenon DEF PackIntoStreams, FoldLeft, MapThenFoldSet, Places, Placed, FreeStreams, LeastIn, Max

\* The least of some numbers up to n.
LEMMA LeastIs ==
  ASSUME NEW n \in Nat, NEW S \in SUBSET (1 .. n), S # {}
  PROVE  LeastIn(S) \in S /\ \A l \in S : LeastIn(S) <= l
<1>1. \E k \in S : \A l \in S : k <= l
  BY ExtremesOfPart
<1> QED
  BY <1>1 DEF LeastIn

\* What one more request does to the streams: it begins one, or goes on with one that is free.
BeginsStream(streams, after, r) ==
  /\ Len(after) = Len(streams) + 1
  /\ \A k \in 1 .. Len(streams) : after[k] = streams[k]
  /\ Len(after[Len(streams) + 1]) = 1
  /\ after[Len(streams) + 1][1] = r
GoesOn(streams, after, j, r) ==
  /\ Len(after) = Len(streams)
  /\ j \in 1 .. Len(streams)
  /\ \A k \in 1 .. Len(streams) : k # j => after[k] = streams[k]
  /\ Len(after[j]) = Len(streams[j]) + 1
  /\ after[j][Len(streams[j]) + 1] = r
  /\ \A i \in 1 .. Len(streams[j]) : after[j][i] = streams[j][i]

\* Streams and their requests can be counted.
Sized(streams) == Len(streams) \in Nat /\ \A s \in 1 .. Len(streams) : Len(streams[s]) \in Nat
LEMMA StreamsAreSized == ASSUME NEW V, NEW streams \in Seq(Seq(V)) PROVE Sized(streams)
<1>1. \A s \in 1 .. Len(streams) : streams[s] \in Seq(V)
  OBVIOUS
<1>2. Len(streams) \in Nat
  OBVIOUS
<1>3. \A s \in 1 .. Len(streams) : Len(streams[s]) \in Nat
  BY <1>1
<1> QED
  BY <1>2, <1>3 DEF Sized

LEMMA PlacedIs ==
  ASSUME NEW requests, NEW n \in Nat, NEW streams \in Seq(Seq(1 .. n)), NEW r \in 1 .. n
  PROVE  /\ Placed(requests, streams, r) \in Seq(Seq(1 .. n))
         /\ \/ /\ BeginsStream(streams, Placed(requests, streams, r), r)
               /\ \A k \in 1 .. Len(streams) : ~Free(StreamEnd(requests, streams[k]), requests[r].t)
            \/ \E j \in 1 .. Len(streams) :
                 /\ GoesOn(streams, Placed(requests, streams, r), j, r)
                 /\ Free(StreamEnd(requests, streams[j]), requests[r].t)
<1> DEFINE free == FreeStreams(requests, streams, r)
           V    == Seq(1 .. n)
<1>1. CASE free = {}
  <2>1. Placed(requests, streams, r) = Append(streams, <<r>>)
    BY <1>1 DEF Placed
  <2>2. <<r>> \in V
    OBVIOUS
  <2>3. \A k \in 1 .. Len(streams) : ~Free(StreamEnd(requests, streams[k]), requests[r].t)
    BY <1>1 DEF FreeStreams
  <2> HIDE DEF V
  <2>4. Append(streams, <<r>>) \in Seq(V) /\ BeginsStream(streams, Append(streams, <<r>>), r)
    BY <2>2 DEF BeginsStream, V
  <2> QED
    BY <2>1, <2>3, <2>4 DEF V
<1>2. CASE free # {}
  <2> DEFINE j == LeastIn(free)
  <2>1. Len(streams) \in Nat /\ free \in SUBSET (1 .. Len(streams))
    BY DEF FreeStreams
  <2>2. j \in free
    <3> HIDE DEF free
    <3> QED
      BY <1>2, <2>1, LeastIs
  <2>3. Placed(requests, streams, r) = [streams EXCEPT ![j] = Append(@, r)]
    BY <1>2 DEF Placed
  <2>4. j \in 1 .. Len(streams) /\ Free(StreamEnd(requests, streams[j]), requests[r].t)
    BY <2>2 DEF FreeStreams
  <2> HIDE DEF j
  <2>5. Append(streams[j], r) \in Seq(1 .. n)
    <3>1. streams[j] \in Seq(1 .. n)
      BY <2>4
    <3> QED
      BY <3>1
  <2>6. [streams EXCEPT ![j] = Append(@, r)] \in Seq(Seq(1 .. n))
    BY <2>4, <2>5
  <2>7. GoesOn(streams, [streams EXCEPT ![j] = Append(@, r)], j, r)
    <3> DEFINE after == [streams EXCEPT ![j] = Append(@, r)]
    <3> HIDE DEF V
    <3>1. streams \in Seq(V)
      BY DEF V
    <3>2. Len(after) = Len(streams)
      BY <3>1, <2>4
    <3>3. \A k \in 1 .. Len(streams) : after[k] = IF k = j THEN Append(streams[k], r) ELSE streams[k]
      BY <3>1, <2>4
    <3> HIDE DEF after
    <3>4. /\ Len(after[j]) = Len(streams[j]) + 1
          /\ after[j][Len(streams[j]) + 1] = r
          /\ \A i \in 1 .. Len(streams[j]) : after[j][i] = streams[j][i]
      <4>1. streams[j] \in V
        BY <2>4, <3>1
      <4>2. streams[j] \in Seq(1 .. n)
        BY <4>1 DEF V
      <4>3. after[j] = Append(streams[j], r)
        BY <2>4, <3>3
      <4> QED
        BY <4>2, <4>3
    <3>5. GoesOn(streams, after, j, r)
      BY <2>4, <3>2, <3>3, <3>4 DEF GoesOn
    <3> QED
      BY <3>5 DEF after
  <2> QED
    BY <2>3, <2>4, <2>6, <2>7
<1> QED
  BY <1>1, <1>2

\* The streams request by request.
Fills(history, requests) ==
  /\ \A k \in 0 .. Len(requests) : history[k] \in Seq(Seq(1 .. Len(requests)))
  /\ history[0] = <<>>
  /\ \A k \in 1 .. Len(requests) : history[k] = Placed(requests, history[k - 1], k)

LEMMA StreamsFill ==
  ASSUME NEW requests, Len(requests) \in Nat
  PROVE  \E history : Fills(history, requests) /\ PackIntoStreams(requests) = history[Len(requests)]
<1> DEFINE n == Len(requests)
           V == Seq(Seq(1 .. n))
           D == DOMAIN [r \in 1 .. n |-> r]
           next == [p \in (SUBSET (1 .. n)) \X V |-> IF p[1] = {} THEN <<>> ELSE Placed(requests, p[2], Max(p[1]))]
           h == CHOOSE h : Places(h, requests)
<1>1. D = 1 .. n
  OBVIOUS
<1>2. ASSUME NEW T \in SUBSET (1 .. n), T # {}, NEW s \in V PROVE Placed(requests, s, Max(T)) \in V
  <2>1. Max(T) \in 1 .. n
    BY <1>2, ExtremesOfPart
  <2> QED
    BY <2>1, PlacedIs
<1>3. <<>> \in V
  OBVIOUS
<1>4. next \in [(SUBSET (1 .. n)) \X V -> V]
  <2> HIDE DEF V, n
  <2> SUFFICES ASSUME NEW T \in SUBSET (1 .. n), NEW s \in V PROVE (IF T = {} THEN <<>> ELSE Placed(requests, s, Max(T))) \in V
    BY Zenon
  <2> QED
    BY <1>2, <1>3
<1>5. PICK f \in [SUBSET (1 .. n) -> V] : FoldsUp(f, n, <<>>, next)
  <2> HIDE DEF V, next
  <2> QED
    BY <1>3, <1>4, FoldRecursion
<1>6. \A T \in SUBSET (1 .. n) : T # {} => [r \in 1 .. n |-> r][Max(T)] = Max(T)
  BY ExtremesOfPart
<1>7. ASSUME NEW T \in SUBSET (1 .. n)
      PROVE  f[T] = IF T = {} THEN <<>> ELSE Placed(requests, f[T \ {Max(T)}], [r \in 1 .. n |-> r][Max(T)])
  <2>1. f[T] = IF T = {} THEN <<>> ELSE next[<<T, f[T \ {Max(T)}]>>]
    BY <1>5 DEF FoldsUp
  <2>2. f[T \ {Max(T)}] \in V
    <3> HIDE DEF V
    <3> QED
      BY <1>5
  <2>3. T # {} => next[<<T, f[T \ {Max(T)}]>>] = Placed(requests, f[T \ {Max(T)}], Max(T))
    <3> HIDE DEF V
    <3> QED
      BY <2>2
  <2> QED
    BY <1>6, <2>1, <2>3
<1>8. Places(f, requests)
  <2>1. f = [T \in SUBSET (1 .. n) |-> IF T = {} THEN <<>> ELSE Placed(requests, f[T \ {Max(T)}], [r \in 1 .. n |-> r][Max(T)])]
    <3> HIDE DEF V
    <3> QED
      BY <1>5, <1>7
  <2> QED
    BY <1>1, <2>1, Zenon DEF Places
<1>9. Places(h, requests)
  BY <1>8, Zenon
<1>10. PackIntoStreams(requests) = h[D]
  BY PackingIs
<1> HIDE DEF h
<1>11. ASSUME NEW T \in SUBSET (1 .. n)
       PROVE  h[T] = IF T = {} THEN <<>> ELSE Placed(requests, h[T \ {Max(T)}], Max(T))
  <2>1. T \in SUBSET D
    BY <1>1
  <2>2. h[T] = IF T = {} THEN <<>> ELSE Placed(requests, h[T \ {Max(T)}], [r \in 1 .. n |-> r][Max(T)])
    BY <1>9, <2>1, Zenon DEF Places
  <2> QED
    BY <1>6, <2>2
<1> DEFINE history == [k \in 0 .. n |-> h[1 .. k]]
<1>12. history[0] = <<>>
  <2>1. 1 .. 0 = {} /\ 1 .. 0 \in SUBSET (1 .. n)
    OBVIOUS
  <2>2. h[1 .. 0] = <<>>
    BY <1>11, <2>1
  <2> QED
    BY <2>2
<1>13. ASSUME NEW k \in 1 .. n PROVE history[k] = Placed(requests, history[k - 1], k)
  <2>1. 1 .. k # {} /\ Max(1 .. k) = k /\ (1 .. k) \ {Max(1 .. k)} = 1 .. k - 1
    <3>1. k \in Nat /\ k # 0
      OBVIOUS
    <3> QED
      BY <3>1, LastOfInterval
  <2>2. 1 .. k \in SUBSET (1 .. n)
    OBVIOUS
  <2>3. h[1 .. k] = Placed(requests, h[1 .. k - 1], k)
    BY <1>11, <2>1, <2>2
  <2>4. history[k] = h[1 .. k] /\ history[k - 1] = h[1 .. k - 1]
    OBVIOUS
  <2> HIDE DEF history
  <2> QED
    BY <2>3, <2>4
<1>14. PackIntoStreams(requests) = history[n]
  BY <1>1, <1>10
<1> HIDE DEF history
<1>15. \A k \in 0 .. n : history[k] \in V
  <2> DEFINE Good == {k \in Nat : k <= n => history[k] \in V}
  <2>1. 0 \in Good
    <3> HIDE DEF V
    <3> QED
      BY <1>3, <1>12
  <2>2. ASSUME NEW k \in Nat, k \in Good PROVE k + 1 \in Good
    <3> SUFFICES ASSUME k + 1 <= n PROVE history[k + 1] \in V
      OBVIOUS
    <3>1. history[k] \in V
      <4> HIDE DEF V
      <4> QED
        BY <2>2
    <3>2. k + 1 \in 1 .. n /\ (k + 1) - 1 = k
      OBVIOUS
    <3>3. history[k + 1] = Placed(requests, history[k], k + 1)
      BY <1>13, <3>2
    <3>4. n \in Nat /\ history[k] \in Seq(Seq(1 .. n)) /\ k + 1 \in 1 .. n
      BY <3>1, <3>2
    <3>5. Placed(requests, history[k], k + 1) \in Seq(Seq(1 .. n))
      <4> HIDE DEF n
      <4> QED
        BY <3>4, PlacedIs
    <3> QED
      BY <3>3, <3>5
  <2>3. \A k \in Nat : k \in Good
    <3> HIDE DEF Good
    <3> QED
      BY <2>1, <2>2, NatSetInduction
  <2> HIDE DEF V
  <2> QED
    BY <2>3
<1> QED
  BY <1>12, <1>13, <1>14, <1>15 DEF Fills

\* The requests that run when a request starts.
RunningAt(requests, t) == {r \in 1 .. Len(requests) : requests[r].t <= t /\ t < requests[r].t + requests[r].time}
LastOf(stream) == stream[Len(stream)]

\* The streams of the first k requests: every one of the k is in one stream, a stream is in the
\* order of its requests and without overlap, and there were as many requests at a time as there
\* are streams.
EachRequest(streams, n, k) ==
  /\ \A s \in 1 .. Len(streams) : Len(streams[s]) > 0 /\ \A i \in 1 .. Len(streams[s]) : streams[s][i] \in 1 .. k
  /\ \A r \in 1 .. k : \E s \in 1 .. Len(streams) : \E i \in 1 .. Len(streams[s]) : streams[s][i] = r
Disjoint(streams) ==
  \A s, u \in 1 .. Len(streams) : \A i \in 1 .. Len(streams[s]), j \in 1 .. Len(streams[u]) :
      streams[s][i] = streams[u][j] => s = u
Together(streams, k) ==
  \E sums : /\ RunningSums(sums, Len(streams), [s \in 1 .. Len(streams) |-> Len(streams[s])])
            /\ sums[Len(streams)] = k
NoOverlap(requests, streams) ==
  \A s \in 1 .. Len(streams) : \A i \in 2 .. Len(streams[s]) :
      requests[streams[s][i - 1]].t + requests[streams[s][i - 1]].time <= requests[streams[s][i]].t
Needed(requests, streams) ==
  \A s \in 2 .. Len(streams) : \E r \in 1 .. Len(requests) :
      Cardinality(RunningAt(requests, requests[r].t) \cup {r}) >= s

\* A new stream holds the new request; what held of the others holds.
LEMMA BeginKeeps ==
  ASSUME NEW n \in Nat, NEW k \in 0 .. n - 1,
         NEW streams, Sized(streams), NEW after, Sized(after),
         BeginsStream(streams, after, k + 1), EachRequest(streams, n, k), Disjoint(streams), Together(streams, k)
  PROVE  EachRequest(after, n, k + 1) /\ Disjoint(after) /\ Together(after, k + 1)
<1> DEFINE m == Len(streams)
<1>1. m \in Nat /\ Len(after) = m + 1 /\ k \in Nat
  BY DEF BeginsStream, Sized
<1>2. \A s \in 1 .. m : after[s] = streams[s]
  BY DEF BeginsStream
<1>3. Len(after[m + 1]) = 1 /\ after[m + 1][1] = k + 1
  BY DEF BeginsStream
<1>4. \A s \in 1 .. m + 1 : s \in 1 .. m \/ s = m + 1
  BY <1>1
<1>5. \A s \in 1 .. m : s \in 1 .. m + 1
  BY <1>1
<1>11. \A s \in 1 .. m : Len(streams[s]) \in Nat
  BY DEF Sized
<1> HIDE DEF m
<1>6. \A s \in 1 .. m : Len(streams[s]) > 0
  BY DEF EachRequest, m
<1>7. \A s \in 1 .. m : \A i \in 1 .. Len(streams[s]) : streams[s][i] \in 1 .. k + 1 /\ streams[s][i] # k + 1
  <2>1. \A s \in 1 .. m : \A i \in 1 .. Len(streams[s]) : streams[s][i] \in 1 .. k
    BY DEF EachRequest, m
  <2>2. \A i \in 1 .. k : i \in 1 .. k + 1 /\ i # k + 1
    BY <1>1
  <2> QED
    BY <2>1, <2>2
<1>12. \A r \in 1 .. k : \E s \in 1 .. m : \E i \in 1 .. Len(streams[s]) : streams[s][i] = r
  BY DEF EachRequest, m
<1>13. 1 .. Len(after[m + 1]) = {1}
  BY <1>3
<1>8. EachRequest(after, n, k + 1)
  <2>1. ASSUME NEW s \in 1 .. m + 1
        PROVE  Len(after[s]) > 0 /\ \A i \in 1 .. Len(after[s]) : after[s][i] \in 1 .. k + 1
    <3>1. CASE s \in 1 .. m
      BY <1>2, <1>6, <1>7, <3>1
    <3>2. CASE s = m + 1
      BY <1>1, <1>3, <1>13, <3>2
    <3> QED
      BY <1>4, <3>1, <3>2
  <2>2. ASSUME NEW r \in 1 .. k + 1
        PROVE  \E s \in 1 .. m + 1 : \E i \in 1 .. Len(after[s]) : after[s][i] = r
    <3>1. CASE r \in 1 .. k
      <4>1. PICK s \in 1 .. m : \E i \in 1 .. Len(streams[s]) : streams[s][i] = r
        BY <1>12, <3>1
      <4> QED
        BY <1>2, <1>5, <4>1
    <3>2. CASE r = k + 1
      <4>1. m + 1 \in 1 .. m + 1 /\ 1 \in 1 .. Len(after[m + 1]) /\ after[m + 1][1] = r
        BY <1>1, <1>3, <1>13, <3>2
      <4> QED
        BY <4>1
    <3> QED
      BY <1>1, <3>1, <3>2
  <2> QED
    BY <1>1, <2>1, <2>2 DEF EachRequest
<1>9. Disjoint(after)
  <2> SUFFICES ASSUME NEW s \in 1 .. m + 1, NEW u \in 1 .. m + 1,
                      NEW i \in 1 .. Len(after[s]), NEW j \in 1 .. Len(after[u]), after[s][i] = after[u][j]
               PROVE  s = u
    BY <1>1 DEF Disjoint
  <2>1. CASE s \in 1 .. m /\ u \in 1 .. m
    <3>1. i \in 1 .. Len(streams[s]) /\ j \in 1 .. Len(streams[u]) /\ streams[s][i] = streams[u][j]
      BY <1>2, <2>1
    <3> QED
      BY <2>1, <3>1 DEF Disjoint, m
  <2>2. CASE s = m + 1 /\ u \in 1 .. m
    <3>1. j \in 1 .. Len(streams[u]) /\ after[u][j] = streams[u][j]
      BY <1>2, <2>2
    <3>2. after[u][j] # k + 1
      BY <1>7, <2>2, <3>1
    <3>3. after[s][i] = k + 1
      BY <1>3, <1>13, <2>2
    <3> QED
      BY <3>2, <3>3
  <2>3. CASE s \in 1 .. m /\ u = m + 1
    <3>1. i \in 1 .. Len(streams[s]) /\ after[s][i] = streams[s][i]
      BY <1>2, <2>3
    <3>2. after[s][i] # k + 1
      BY <1>7, <2>3, <3>1
    <3>3. after[u][j] = k + 1
      BY <1>3, <1>13, <2>3
    <3> QED
      BY <3>2, <3>3
  <2>4. CASE s = m + 1 /\ u = m + 1
    BY <2>4
  <2> QED
    BY <1>4, <2>1, <2>2, <2>3, <2>4
<1>10. Together(after, k + 1)
  <2>1. PICK sums : RunningSums(sums, m, [s \in 1 .. m |-> Len(streams[s])]) /\ sums[m] = k
    BY DEF Together, m
  <2>2. /\ sums \in [0 .. m -> Int] /\ sums[0] = 0
        /\ \A s \in 1 .. m : sums[s] = sums[s - 1] + Len(streams[s])
    BY <2>1 DEF RunningSums
  <2> DEFINE longer == [s \in 0 .. m + 1 |-> IF s = m + 1 THEN k + 1 ELSE sums[s]]
             lengths == [s \in 1 .. m + 1 |-> Len(after[s])]
  <2>3. longer \in [0 .. m + 1 -> Int] /\ longer[0] = 0 /\ longer[m + 1] = k + 1
    BY <1>1, <2>2
  <2>4. ASSUME NEW s \in 1 .. m + 1 PROVE longer[s] = longer[s - 1] + lengths[s]
    <3>1. CASE s \in 1 .. m
      <4>1. longer[s] = sums[s] /\ longer[s - 1] = sums[s - 1]
        BY <1>1, <3>1
      <4>2. lengths[s] = Len(streams[s])
        BY <1>2, <1>5, <3>1
      <4> HIDE DEF longer, lengths
      <4> QED
        BY <2>2, <3>1, <4>1, <4>2
    <3>2. CASE s = m + 1
      <4>1. longer[s] = k + 1 /\ longer[s - 1] = sums[m]
        BY <1>1, <3>2
      <4>2. lengths[s] = 1
        BY <1>3, <3>2
      <4> HIDE DEF longer, lengths
      <4> QED
        BY <2>1, <4>1, <4>2
    <3> QED
      BY <1>4, <3>1, <3>2
  <2>5. RunningSums(longer, m + 1, lengths)
    BY <2>3, <2>4 DEF RunningSums
  <2> HIDE DEF longer
  <2> QED
    BY <1>1, <2>3, <2>5 DEF Together
<1> QED
  BY <1>8, <1>9, <1>10

\* The same when a stream goes on.
LEMMA GoingOnKeeps ==
  ASSUME NEW n \in Nat, NEW k \in 0 .. n - 1,
         NEW streams, Sized(streams), NEW after, Sized(after), NEW h \in 1 .. Len(streams),
         GoesOn(streams, after, h, k + 1), EachRequest(streams, n, k), Disjoint(streams), Together(streams, k)
  PROVE  EachRequest(after, n, k + 1) /\ Disjoint(after) /\ Together(after, k + 1)
<1> DEFINE m == Len(streams)
<1>1. m \in Nat /\ Len(after) = m /\ k \in Nat /\ h \in 1 .. m
  BY DEF GoesOn, Sized
<1>2. \A s \in 1 .. m : s # h => after[s] = streams[s]
  BY DEF GoesOn
<1>3. /\ Len(after[h]) = Len(streams[h]) + 1
      /\ after[h][Len(streams[h]) + 1] = k + 1
      /\ \A i \in 1 .. Len(streams[h]) : after[h][i] = streams[h][i]
  BY DEF GoesOn
<1>4. \A s \in 1 .. m : Len(streams[s]) \in Nat
  BY DEF Sized
<1> HIDE DEF m
<1>5. \A s \in 1 .. m : Len(streams[s]) > 0
  BY DEF EachRequest, m
<1>6. \A s \in 1 .. m : \A i \in 1 .. Len(streams[s]) : streams[s][i] \in 1 .. k + 1 /\ streams[s][i] # k + 1
  <2>1. \A s \in 1 .. m : \A i \in 1 .. Len(streams[s]) : streams[s][i] \in 1 .. k
    BY DEF EachRequest, m
  <2>2. \A i \in 1 .. k : i \in 1 .. k + 1 /\ i # k + 1
    BY <1>1
  <2> QED
    BY <2>1, <2>2
<1>12. \A r \in 1 .. k : \E s \in 1 .. m : \E i \in 1 .. Len(streams[s]) : streams[s][i] = r
  BY DEF EachRequest, m
<1>13. Len(streams[h]) \in Nat /\ \A i \in 1 .. Len(after[h]) : i \in 1 .. Len(streams[h]) \/ i = Len(streams[h]) + 1
  <2>1. \A l \in Nat : \A i \in 1 .. l + 1 : i \in 1 .. l \/ i = l + 1
    OBVIOUS
  <2> QED
    BY <1>1, <1>3, <1>4, <2>1
<1>14. \A i \in 1 .. Len(streams[h]) : i \in 1 .. Len(after[h])
  BY <1>3, <1>13
<1>15. Len(streams[h]) + 1 \in 1 .. Len(after[h]) /\ Len(after[h]) > 0 /\ k + 1 \in 1 .. k + 1
  <2>1. \A l \in Nat : l + 1 \in 1 .. l + 1 /\ l + 1 > 0
    OBVIOUS
  <2> QED
    BY <1>1, <1>3, <1>13, <2>1
<1>7. ASSUME NEW s \in 1 .. m, NEW i \in 1 .. Len(after[s])
      PROVE  \/ i \in 1 .. Len(streams[s]) /\ after[s][i] = streams[s][i]
             \/ s = h /\ i = Len(streams[h]) + 1 /\ after[s][i] = k + 1
  <2>1. CASE s # h
    BY <1>2, <2>1
  <2>2. CASE s = h
    BY <1>3, <1>13, <2>2
  <2> QED
    BY <2>1, <2>2
<1>8. \A s \in 1 .. m : \A i \in 1 .. Len(streams[s]) : i \in 1 .. Len(after[s]) /\ after[s][i] = streams[s][i]
  BY <1>2, <1>3, <1>14
<1>9. EachRequest(after, n, k + 1)
  <2>1. ASSUME NEW s \in 1 .. m PROVE Len(after[s]) > 0 /\ \A i \in 1 .. Len(after[s]) : after[s][i] \in 1 .. k + 1
    <3>1. Len(after[s]) > 0
      BY <1>2, <1>5, <1>15
    <3>2. \A i \in 1 .. Len(after[s]) : after[s][i] \in 1 .. k + 1
      <4> SUFFICES ASSUME NEW i \in 1 .. Len(after[s]) PROVE after[s][i] \in 1 .. k + 1
        OBVIOUS
      <4>1. CASE i \in 1 .. Len(streams[s]) /\ after[s][i] = streams[s][i]
        BY <1>6, <4>1
      <4>2. CASE after[s][i] = k + 1
        BY <1>15, <4>2
      <4> QED
        BY <1>7, <4>1, <4>2
    <3> QED
      BY <3>1, <3>2
  <2>2. ASSUME NEW r \in 1 .. k + 1
        PROVE  \E s \in 1 .. m : \E i \in 1 .. Len(after[s]) : after[s][i] = r
    <3>1. CASE r \in 1 .. k
      <4>1. PICK s \in 1 .. m : \E i \in 1 .. Len(streams[s]) : streams[s][i] = r
        BY <1>12, <3>1
      <4> QED
        BY <1>8, <4>1
    <3>2. CASE r = k + 1
      <4>1. Len(streams[h]) + 1 \in 1 .. Len(after[h]) /\ after[h][Len(streams[h]) + 1] = r /\ h \in 1 .. m
        BY <1>1, <1>3, <1>15, <3>2
      <4> QED
        BY <4>1
    <3>3. r \in 1 .. k \/ r = k + 1
      BY <1>1
    <3> QED
      BY <3>1, <3>2, <3>3
  <2> QED
    BY <1>1, <2>1, <2>2 DEF EachRequest
<1>10. Disjoint(after)
  <2> SUFFICES ASSUME NEW s \in 1 .. m, NEW u \in 1 .. m,
                      NEW i \in 1 .. Len(after[s]), NEW j \in 1 .. Len(after[u]), after[s][i] = after[u][j]
               PROVE  s = u
    BY <1>1 DEF Disjoint
  <2>1. \A v \in 1 .. m : \A l \in 1 .. Len(streams[v]) : streams[v][l] # k + 1
    BY <1>6
  <2>2. CASE i \in 1 .. Len(streams[s]) /\ after[s][i] = streams[s][i] /\ j \in 1 .. Len(streams[u]) /\ after[u][j] = streams[u][j]
    BY <2>2 DEF Disjoint, m
  <2>3. CASE i \in 1 .. Len(streams[s]) /\ after[s][i] = streams[s][i] /\ after[u][j] = k + 1
    BY <2>1, <2>3
  <2>4. CASE j \in 1 .. Len(streams[u]) /\ after[u][j] = streams[u][j] /\ after[s][i] = k + 1
    BY <2>1, <2>4
  <2> QED
    BY <1>7, <2>2, <2>3, <2>4
<1>11. Together(after, k + 1)
  <2>1. PICK sums : RunningSums(sums, m, [s \in 1 .. m |-> Len(streams[s])]) /\ sums[m] = k
    BY DEF Together, m
  <2>2. /\ sums \in [0 .. m -> Int] /\ sums[0] = 0
        /\ \A s \in 1 .. m : sums[s] = sums[s - 1] + Len(streams[s])
    BY <2>1 DEF RunningSums
  <2> DEFINE longer == [s \in 0 .. m |-> IF s >= h THEN sums[s] + 1 ELSE sums[s]]
             lengths == [s \in 1 .. m |-> Len(after[s])]
  <2>3. longer \in [0 .. m -> Int] /\ longer[0] = 0 /\ longer[m] = k + 1
    BY <1>1, <2>1, <2>2
  <2>4. ASSUME NEW s \in 1 .. m PROVE longer[s] = longer[s - 1] + lengths[s]
    <3>1. s \in 0 .. m /\ s - 1 \in 0 .. m /\ sums[s] \in Int /\ sums[s - 1] \in Int
      BY <1>1, <2>2
    <3>2. sums[s] = sums[s - 1] + Len(streams[s]) /\ Len(streams[s]) \in Nat
      BY <1>4, <2>2
    <3>3. CASE s = h
      <4>1. longer[s] = sums[s] + 1 /\ longer[s - 1] = sums[s - 1]
        BY <1>1, <3>1, <3>3
      <4>2. lengths[s] = Len(streams[s]) + 1
        BY <1>3, <3>3
      <4> HIDE DEF longer, lengths
      <4>3. \A a, b \in Int, c \in Nat : a = b + c => a + 1 = b + (c + 1)
        OBVIOUS
      <4>4. sums[s] + 1 = sums[s - 1] + (Len(streams[s]) + 1)
        BY <3>1, <3>2, <4>3
      <4> QED
        BY <4>1, <4>2, <4>4
    <3>4. CASE s > h
      <4>1. longer[s] = sums[s] + 1 /\ longer[s - 1] = sums[s - 1] + 1
        BY <1>1, <3>1, <3>4
      <4>2. lengths[s] = Len(streams[s])
        <5>1. s # h
          BY <1>1, <3>4
        <5> QED
          BY <1>2, <5>1
      <4> HIDE DEF longer, lengths
      <4>3. \A a, b \in Int, c \in Nat : a = b + c => a + 1 = (b + 1) + c
        OBVIOUS
      <4>4. sums[s] + 1 = (sums[s - 1] + 1) + Len(streams[s])
        BY <3>1, <3>2, <4>3
      <4> QED
        BY <4>1, <4>2, <4>4
    <3>5. CASE s < h
      <4>1. longer[s] = sums[s] /\ longer[s - 1] = sums[s - 1]
        BY <1>1, <3>1, <3>5
      <4>2. lengths[s] = Len(streams[s])
        <5>1. s # h
          BY <1>1, <3>5
        <5> QED
          BY <1>2, <5>1
      <4> HIDE DEF longer, lengths
      <4> QED
        BY <3>2, <4>1, <4>2
    <3> HIDE DEF longer, lengths
    <3> QED
      BY <1>1, <3>3, <3>4, <3>5
  <2>5. RunningSums(longer, m, lengths)
    BY <2>3, <2>4 DEF RunningSums
  <2> HIDE DEF longer
  <2> QED
    BY <1>1, <2>3, <2>5 DEF Together
<1> QED
  BY <1>9, <1>10, <1>11

\* A stream is begun only while every other has a request that runs.
LEMMA BeginIsNeeded ==
  ASSUME NEW requests, InTimeOrder(requests), NEW k \in 0 .. Len(requests) - 1,
         NEW streams, Sized(streams), NEW after, BeginsStream(streams, after, k + 1),
         EachRequest(streams, Len(requests), k), Disjoint(streams),
         NoOverlap(requests, streams), Needed(requests, streams),
         \A s \in 1 .. Len(streams) : ~Free(StreamEnd(requests, streams[s]), requests[k + 1].t)
  PROVE  NoOverlap(requests, after) /\ Needed(requests, after)
<1> DEFINE n == Len(requests)
           m == Len(streams)
           R == RunningAt(requests, requests[k + 1].t)
           last == [s \in 1 .. m |-> LastOf(streams[s])]
<1>1. m \in Nat /\ n \in Nat /\ Len(after) = m + 1 /\ k \in Nat /\ k + 1 \in 1 .. n
  BY DEF BeginsStream, Sized, InTimeOrder
<1>2. \A s \in 1 .. m : after[s] = streams[s]
  BY DEF BeginsStream
<1>3. Len(after[m + 1]) = 1
  BY DEF BeginsStream
<1>4. \A s \in 1 .. m + 1 : s \in 1 .. m \/ s = m + 1
  BY <1>1
<1>5. NoOverlap(requests, after)
  <2> SUFFICES ASSUME NEW s \in 1 .. m + 1, NEW i \in 2 .. Len(after[s])
               PROVE  requests[after[s][i - 1]].t + requests[after[s][i - 1]].time <= requests[after[s][i]].t
    BY <1>1 DEF NoOverlap
  <2>1. CASE s \in 1 .. m
    <3>1. after[s] = streams[s] /\ i \in 2 .. Len(streams[s])
      BY <1>2, <2>1
    <3> QED
      BY <2>1, <3>1 DEF NoOverlap
  <2>2. CASE s = m + 1
    BY <1>3, <2>2
  <2> QED
    BY <1>4, <2>1, <2>2
<1>6. ASSUME NEW s \in 1 .. m PROVE LastOf(streams[s]) \in R \ {k + 1}
  <2>1. Len(streams[s]) \in 1 .. Len(streams[s])
    BY DEF EachRequest, Sized
  <2>2. LastOf(streams[s]) \in 1 .. k
    BY <2>1 DEF EachRequest, LastOf
  <2>3. LastOf(streams[s]) \in 1 .. n /\ LastOf(streams[s]) # k + 1 /\ LastOf(streams[s]) <= k + 1
    BY <1>1, <2>2
  <2>4. requests[LastOf(streams[s])].t <= requests[k + 1].t
    BY <1>1, <2>3 DEF InTimeOrder
  <2>5. ~(requests[LastOf(streams[s])].t + requests[LastOf(streams[s])].time <= requests[k + 1].t)
    BY DEF Free, StreamEnd, LastOf
  <2>6. /\ requests[LastOf(streams[s])].t \in Int /\ requests[LastOf(streams[s])].time \in Nat
        /\ requests[k + 1].t \in Int
    BY <1>1, <2>3 DEF InTimeOrder
  <2>7. requests[k + 1].t < requests[LastOf(streams[s])].t + requests[LastOf(streams[s])].time
    <3>1. \A a, b, c \in Int : ~(a + b <= c) => c < a + b
      OBVIOUS
    <3>2. requests[LastOf(streams[s])].time \in Int
      BY <2>6
    <3> QED
      BY <2>5, <2>6, <3>1, <3>2
  <2> QED
    BY <2>3, <2>4, <2>7 DEF RunningAt
<1>7. \A s, u \in 1 .. m : LastOf(streams[s]) = LastOf(streams[u]) => s = u
  <2>1. \A s \in 1 .. m : Len(streams[s]) \in 1 .. Len(streams[s])
    BY DEF EachRequest, Sized
  <2> QED
    BY <2>1 DEF Disjoint, LastOf
<1>8. IsFiniteSet(R \ {k + 1}) /\ IsFiniteSet(1 .. m) /\ Cardinality(1 .. m) = m
  <2>1. IsFiniteSet(1 .. n)
    BY <1>1, FS_Interval
  <2>2. R \ {k + 1} \in SUBSET (1 .. n)
    BY DEF RunningAt
  <2>3. 1 \in Int /\ m \in Int
    BY <1>1
  <2> HIDE DEF R, m
  <2>4. IsFiniteSet(R \ {k + 1})
    BY <2>1, <2>2, FS_Subset
  <2>5. IsFiniteSet(1 .. m) /\ Cardinality(1 .. m) = IF 1 > m THEN 0 ELSE m - 1 + 1
    BY <2>3, FS_Interval
  <2> QED
    BY <1>1, <2>4, <2>5
<1>9. last \in Injection(1 .. m, R \ {k + 1})
  <2> HIDE DEF m, R
  <2>1. last \in [1 .. m -> R \ {k + 1}]
    BY <1>6
  <2>2. \A s, u \in 1 .. m : last[s] = last[u] => s = u
    BY <1>7
  <2> HIDE DEF last
  <2> QED
    BY <2>1, <2>2 DEF Injection, IsInjective
<1>10. Cardinality(R \cup {k + 1}) >= m + 1
  <2> HIDE DEF R, m, last
  <2>1. m <= Cardinality(R \ {k + 1})
    BY <1>8, <1>9, FS_Injection
  <2>2. Cardinality(R \ {k + 1}) \in Nat
    BY <1>8, FS_CardinalityType
  <2>3. Cardinality((R \ {k + 1}) \cup {k + 1}) = Cardinality(R \ {k + 1}) + 1
    BY <1>8, FS_AddElement
  <2>4. (R \ {k + 1}) \cup {k + 1} = R \cup {k + 1}
    OBVIOUS
  <2>5. \A a, b \in Int : a <= b => b + 1 >= a + 1
    OBVIOUS
  <2>6. Cardinality(R \ {k + 1}) + 1 >= m + 1
    BY <1>1, <2>1, <2>2, <2>5
  <2> QED
    BY <2>3, <2>4, <2>6
<1>11. Needed(requests, after)
  <2> SUFFICES ASSUME NEW s \in 2 .. m + 1
               PROVE  \E r \in 1 .. n : Cardinality(RunningAt(requests, requests[r].t) \cup {r}) >= s
    BY <1>1 DEF Needed
  <2>1. CASE s = m + 1
    BY <1>1, <1>10, <2>1
  <2>2. CASE s # m + 1
    <3>1. s \in 2 .. m
      BY <1>1, <2>2
    <3> QED
      BY <3>1 DEF Needed
  <2> QED
    BY <2>1, <2>2
<1> QED
  BY <1>5, <1>11

LEMMA GoingOnIsFree ==
  ASSUME NEW requests, NEW k \in 0 .. Len(requests) - 1, Len(requests) \in Nat,
         NEW streams, Sized(streams), NEW after, NEW h \in 1 .. Len(streams), GoesOn(streams, after, h, k + 1),
         EachRequest(streams, Len(requests), k), NoOverlap(requests, streams), Needed(requests, streams),
         Free(StreamEnd(requests, streams[h]), requests[k + 1].t)
  PROVE  NoOverlap(requests, after) /\ Needed(requests, after)
<1> DEFINE m == Len(streams)
           l == Len(streams[h])
<1>1. Len(after) = m /\ l \in Nat /\ l > 0 /\ Len(after[h]) = l + 1
  BY DEF GoesOn, Sized, EachRequest
<1>2. Needed(requests, after)
  BY <1>1 DEF Needed
<1>3. ASSUME NEW s \in 1 .. m, NEW i \in 2 .. Len(after[s])
      PROVE  requests[after[s][i - 1]].t + requests[after[s][i - 1]].time <= requests[after[s][i]].t
  <2>1. CASE s # h
    <3>1. after[s] = streams[s]
      BY <2>1 DEF GoesOn
    <3> QED
      BY <3>1 DEF NoOverlap
  <2>2. CASE s = h /\ i # l + 1
    <3>1. i \in 2 .. l /\ i \in 1 .. l /\ i - 1 \in 1 .. l
      BY <1>1, <2>2
    <3>2. after[h][i] = streams[h][i] /\ after[h][i - 1] = streams[h][i - 1]
      BY <3>1 DEF GoesOn
    <3> QED
      BY <2>2, <3>1, <3>2 DEF NoOverlap
  <2>3. CASE s = h /\ i = l + 1
    <3>1. i - 1 = l /\ l \in 1 .. l
      BY <1>1, <2>3
    <3>2. after[h][l + 1] = k + 1 /\ after[h][l] = streams[h][l]
      BY <3>1 DEF GoesOn
    <3>3. requests[streams[h][l]].t + requests[streams[h][l]].time <= requests[k + 1].t
      BY DEF Free, StreamEnd
    <3> QED
      BY <2>3, <3>1, <3>2, <3>3
  <2> QED
    BY <2>1, <2>2, <2>3
<1> QED
  BY <1>1, <1>2, <1>3 DEF NoOverlap

\* The streams of requests in the order of their starts: without overlap, and as few as can be.
LEMMA StreamsAreFew ==
  ASSUME NEW requests, InTimeOrder(requests)
  PROVE  StreamsAreFewest(requests, PackIntoStreams(requests))
<1> DEFINE n == Len(requests)
           Right(streams, k) == /\ EachRequest(streams, n, k) /\ Disjoint(streams) /\ Together(streams, k)
                                /\ NoOverlap(requests, streams) /\ Needed(requests, streams)
<1>1. n \in Nat
  BY DEF InTimeOrder
<1>2. PICK history : Fills(history, requests) /\ PackIntoStreams(requests) = history[n]
  BY <1>1, StreamsFill
<1>3. /\ \A k \in 0 .. n : history[k] \in Seq(Seq(1 .. n)) /\ Sized(history[k])
      /\ history[0] = <<>>
      /\ \A k \in 1 .. n : history[k] = Placed(requests, history[k - 1], k)
  BY <1>2, StreamsAreSized DEF Fills
<1> DEFINE Good == {k \in Nat : k <= n => Right(history[k], k)}
<1>4. 0 \in Good
  <2>1. Len(<<>>) = 0 /\ 1 .. 0 = {} /\ 2 .. 0 = {}
    OBVIOUS
  <2>2. Together(<<>>, 0)
    <3> DEFINE zero == [s \in 0 .. 0 |-> 0]
    <3>1. RunningSums(zero, 0, [s \in 1 .. 0 |-> Len(<<>>[s])]) /\ zero[0] = 0
      BY DEF RunningSums
    <3> QED
      BY <2>1, <3>1 DEF Together
  <2>3. Right(<<>>, 0)
    BY <2>1, <2>2 DEF EachRequest, Disjoint, NoOverlap, Needed
  <2> QED
    BY <1>3, <2>3
<1>5. ASSUME NEW k \in Nat, k \in Good PROVE k + 1 \in Good
  <2> SUFFICES ASSUME k + 1 <= n PROVE Right(history[k + 1], k + 1)
    OBVIOUS
  <2> DEFINE streams == history[k]
             after   == history[k + 1]
  <2>1. k \in 0 .. n - 1 /\ k + 1 \in 0 .. n /\ k + 1 \in 1 .. n /\ k \in 0 .. n /\ (k + 1) - 1 = k
    BY <1>1
  <2>2. streams \in Seq(Seq(1 .. n)) /\ Sized(streams) /\ Sized(after) /\ after = Placed(requests, streams, k + 1)
    BY <1>3, <2>1
  <2>3. Right(streams, k)
    <3>1. k <= n
      BY <1>1
    <3>2. k <= n => Right(history[k], k)
      <4> HIDE DEF Right, n
      <4> QED
        BY <1>5
    <3> QED
      BY <3>1, <3>2
  <2>4. \/ /\ BeginsStream(streams, after, k + 1)
           /\ \A s \in 1 .. Len(streams) : ~Free(StreamEnd(requests, streams[s]), requests[k + 1].t)
        \/ \E h \in 1 .. Len(streams) :
             /\ GoesOn(streams, after, h, k + 1)
             /\ Free(StreamEnd(requests, streams[h]), requests[k + 1].t)
    <3> HIDE DEF streams, after, n
    <3> QED
      BY <1>1, <2>1, <2>2, PlacedIs
  <2> HIDE DEF streams, after
  <2>5. CASE /\ BeginsStream(streams, after, k + 1)
             /\ \A s \in 1 .. Len(streams) : ~Free(StreamEnd(requests, streams[s]), requests[k + 1].t)
    <3>1. EachRequest(after, n, k + 1) /\ Disjoint(after) /\ Together(after, k + 1)
      BY <1>1, <2>1, <2>2, <2>3, <2>5, BeginKeeps
    <3>2. NoOverlap(requests, after) /\ Needed(requests, after)
      BY <2>1, <2>2, <2>3, <2>5, BeginIsNeeded
    <3> QED
      BY <3>1, <3>2 DEF after
  <2>6. ASSUME NEW h \in 1 .. Len(streams), GoesOn(streams, after, h, k + 1),
               Free(StreamEnd(requests, streams[h]), requests[k + 1].t)
        PROVE  Right(history[k + 1], k + 1)
    <3>1. EachRequest(after, n, k + 1) /\ Disjoint(after) /\ Together(after, k + 1)
      BY <1>1, <2>1, <2>2, <2>3, <2>6, GoingOnKeeps
    <3>2. NoOverlap(requests, after) /\ Needed(requests, after)
      BY <1>1, <2>1, <2>2, <2>3, <2>6, GoingOnIsFree
    <3> QED
      BY <3>1, <3>2 DEF after
  <2> QED
    BY <2>4, <2>5, <2>6
<1>6. \A k \in Nat : k \in Good
  <2> HIDE DEF Good
  <2> QED
    BY <1>4, <1>5, NatSetInduction
<1> DEFINE streams == history[n]
<1>7. Right(streams, n) /\ Sized(streams) /\ streams \in Seq(Seq(1 .. n))
  BY <1>1, <1>3, <1>6
<1>8. PackIntoStreams(requests) = streams
  BY <1>2
<1> HIDE DEF streams
<1>9. ASSUME NEW s \in 1 .. Len(streams) PROVE streams[s] \in Seq(1 .. n)
  BY <1>7
<1>10. \A r \in 1 .. n : \E s \in 1 .. Len(streams) : r \in ToSet(streams[s])
  <2> SUFFICES ASSUME NEW r \in 1 .. n PROVE \E s \in 1 .. Len(streams) : r \in ToSet(streams[s])
    OBVIOUS
  <2>1. PICK s \in 1 .. Len(streams) : \E i \in 1 .. Len(streams[s]) : streams[s][i] = r
    BY <1>7 DEF EachRequest
  <2>2. DOMAIN streams[s] = 1 .. Len(streams[s])
    BY <1>9
  <2> QED
    BY <2>1, <2>2 DEF ToSet
<1>11. SumOf([s \in 1 .. Len(streams) |-> Len(streams[s])]) = n
  <2> DEFINE lengths == [s \in 1 .. Len(streams) |-> Len(streams[s])]
  <2>1. PICK sums : RunningSums(sums, Len(streams), lengths) /\ sums[Len(streams)] = n
    BY <1>7 DEF Together
  <2>2. Len(streams) \in Nat /\ DOMAIN lengths = 1 .. Len(streams) /\ Integral(Len(streams), lengths)
    BY <1>7 DEF Sized, Integral
  <2> HIDE DEF lengths
  <2>3. SumOf(lengths) = sums[Len(streams)]
    BY <2>1, <2>2, SumIsRunning
  <2> QED
    BY <2>1, <2>3 DEF lengths
<1>12. ASSUME NEW s \in 1 .. Len(streams), NEW l \in 2 .. Len(streams[s])
       PROVE  StreamEnd(requests, SubSeq(streams[s], 1, l - 1)) <= requests[streams[s][l]].t
  <2>1. Len(SubSeq(streams[s], 1, l - 1)) = l - 1 /\ SubSeq(streams[s], 1, l - 1)[l - 1] = streams[s][l - 1]
    <3>1. \A stream \in Seq(1 .. n) : \A i \in 2 .. Len(stream) :
              Len(SubSeq(stream, 1, i - 1)) = i - 1 /\ SubSeq(stream, 1, i - 1)[i - 1] = stream[i - 1]
      BY SMTT(30)
    <3>2. streams[s] \in Seq(1 .. n)
      BY <1>9
    <3> QED
      BY <3>1, <3>2
  <2>2. requests[streams[s][l - 1]].t + requests[streams[s][l - 1]].time <= requests[streams[s][l]].t
    BY <1>7 DEF NoOverlap
  <2> QED
    BY <2>1, <2>2 DEF StreamEnd
<1>13. \A s \in 2 .. Len(streams) : \E r \in 1 .. n :
          Cardinality({q \in 1 .. n : requests[q].t <= requests[r].t /\ requests[r].t < requests[q].t + requests[q].time}
                            \cup {r}) >= s
  BY <1>7 DEF Needed, RunningAt
<1> QED
  BY <1>8, <1>10, <1>11, <1>12, <1>13 DEF StreamsAreFewest

(***************************************************************************)
(* Joined sequences                                                        *)
(***************************************************************************)
\* What the first sequences are joined to.
Joins(joined, seqs, V) ==
  /\ joined \in [0 .. Len(seqs) -> Seq(V)]
  /\ joined[0] = <<>>
  /\ \A k \in 1 .. Len(seqs) : joined[k] = joined[k - 1] \o seqs[k]

Flattens(f, seqs) == f = [i \in 1 .. Len(seqs) |-> IF i = 1 THEN seqs[i] ELSE f[i - 1] \o seqs[i]]

LEMMA FlattenIs ==
  ASSUME NEW seqs
  PROVE  FlattenSeq(seqs) = IF Len(seqs) = 0 THEN seqs ELSE (CHOOSE f : Flattens(f, seqs))[Len(seqs)]
  BY Zenon DEF FlattenSeq, Flattens

LEMMA FlatteningExists ==
  ASSUME NEW V, NEW seqs \in Seq(Seq(V))
  PROVE  \E f \in [1 .. Len(seqs) -> Seq(V)] : Flattens(f, seqs)
<1> DEFINE n == Len(seqs)
           W == Seq(V)
           step == [p \in (1 .. n) \X Histories(n, W) |-> IF p[1] = 1 \/ p[1] - 1 \notin DOMAIN p[2] THEN seqs[p[1]] ELSE p[2][p[1] - 1] \o seqs[p[1]]]
<1>1. n \in Nat /\ \A k \in 1 .. n : seqs[k] \in W
  OBVIOUS
<1>2. \A a, b \in W : a \o b \in W
  OBVIOUS
<1> HIDE DEF W, n
<1>3. step \in [(1 .. n) \X Histories(n, W) -> W]
  <2> SUFFICES ASSUME NEW k \in 1 .. n, NEW h \in Histories(n, W)
               PROVE  (IF k = 1 \/ k - 1 \notin DOMAIN h THEN seqs[k] ELSE h[k - 1] \o seqs[k]) \in W
    BY Zenon
  <2>1. k - 1 \in DOMAIN h => h[k - 1] \in W
    BY DEF Histories
  <2> QED
    BY <1>1, <1>2, <2>1
<1>4. PICK f \in [1 .. n -> W] : FollowsCourse(f, n, step)
  <2> HIDE DEF step
  <2> QED
    BY <1>1, <1>3, CourseRecursion
<1>5. ASSUME NEW k \in 1 .. n PROVE f[k] = IF k = 1 THEN seqs[k] ELSE f[k - 1] \o seqs[k]
  <2> DEFINE past == [j \in 1 .. k - 1 |-> f[j]]
  <2>1. f[k] = step[<<k, past>>]
    BY <1>4 DEF FollowsCourse
  <2>2. k - 1 \in 0 .. n /\ past \in [1 .. k - 1 -> W]
    BY <1>1, <1>4
  <2>3. past \in Histories(n, W)
    <3> HIDE DEF past
    <3> QED
      BY <1>1, <2>2, HistoryIsOne
  <2>4. DOMAIN past = 1 .. k - 1 /\ (k # 1 => k - 1 \in 1 .. k - 1 /\ past[k - 1] = f[k - 1])
    BY <1>1
  <2> HIDE DEF past
  <2>5. step[<<k, past>>] = IF k = 1 \/ k - 1 \notin DOMAIN past THEN seqs[k] ELSE past[k - 1] \o seqs[k]
    BY <2>3
  <2> QED
    BY <2>1, <2>4, <2>5
<1>6. f = [k \in 1 .. n |-> IF k = 1 THEN seqs[k] ELSE f[k - 1] \o seqs[k]]
  BY <1>4, <1>5
<1> QED
  BY <1>4, <1>6 DEF Flattens, n, W

LEMMA FlattenJoins ==
  ASSUME NEW V, NEW seqs \in Seq(Seq(V))
  PROVE  \E joined : Joins(joined, seqs, V) /\ FlattenSeq(seqs) = joined[Len(seqs)]
<1> DEFINE n == Len(seqs)
           W == Seq(V)
           f == CHOOSE f : Flattens(f, seqs)
           joined == [k \in 0 .. n |-> IF k = 0 THEN <<>> ELSE f[k]]
<1>1. n \in Nat /\ (\A k \in 1 .. n : seqs[k] \in W) /\ (n = 0 => seqs = <<>>) /\ <<>> \in W
  OBVIOUS
<1>2. \A a, b \in W : a \o b \in W
  OBVIOUS
<1>3. \A a \in W : <<>> \o a = a
  OBVIOUS
<1>4. Flattens(f, seqs)
  BY FlatteningExists, Zenon
<1>5. FlattenSeq(seqs) = IF n = 0 THEN seqs ELSE f[n]
  BY FlattenIs
<1> HIDE DEF W, n, f
<1>6. \A k \in 1 .. n : f[k] = IF k = 1 THEN seqs[k] ELSE f[k - 1] \o seqs[k]
  BY <1>4 DEF Flattens, n
<1>7. \A k \in 1 .. n : f[k] \in W
  <2> DEFINE Good == {k \in Nat : k \in 1 .. n => f[k] \in W}
  <2>1. 0 \in Good
    OBVIOUS
  <2>2. ASSUME NEW k \in Nat, k \in Good PROVE k + 1 \in Good
    <3> SUFFICES ASSUME k + 1 \in 1 .. n PROVE f[k + 1] \in W
      OBVIOUS
    <3>1. (k + 1) - 1 = k /\ (k + 1 # 1 => k \in 1 .. n)
      BY <1>1
    <3> QED
      BY <1>1, <1>2, <1>6, <2>2, <3>1
  <2>3. \A k \in Nat : k \in Good
    <3> HIDE DEF Good
    <3> QED
      BY <2>1, <2>2, NatSetInduction
  <2> QED
    BY <1>1, <2>3
<1>8. ASSUME NEW k \in 1 .. n PROVE joined[k] = joined[k - 1] \o seqs[k]
  <2>1. k \in 0 .. n /\ k - 1 \in 0 .. n /\ k # 0 /\ (k - 1 = 0 <=> k = 1)
    BY <1>1
  <2>2. joined[k] = f[k] /\ joined[k - 1] = IF k = 1 THEN <<>> ELSE f[k - 1]
    BY <2>1
  <2> HIDE DEF joined
  <2> QED
    BY <1>1, <1>3, <1>6, <2>2
<1>9. joined \in [0 .. n -> W] /\ joined[0] = <<>> /\ joined[n] = IF n = 0 THEN <<>> ELSE f[n]
  BY <1>1, <1>7
<1> HIDE DEF joined
<1> QED
  BY <1>1, <1>5, <1>8, <1>9 DEF Joins, n, W

\* Containment, element by element.
LEMMA WithinIs ==
  ASSUME NEW V, NEW t \in Seq(V), NEW s \in Seq(V)
  PROVE  Within(t, s) <=> \E k \in 0 .. Len(s) - Len(t) : \A i \in 1 .. Len(t) : s[k + i] = t[i]
<1>1. ASSUME NEW k \in 0 .. Len(s) - Len(t)
      PROVE  SubSeq(s, k + 1, k + Len(t)) = t <=> \A i \in 1 .. Len(t) : s[k + i] = t[i]
  <2> DEFINE u == SubSeq(s, k + 1, k + Len(t))
  <2>1. k \in Nat /\ Len(t) \in Nat /\ Len(s) \in Nat /\ k + Len(t) <= Len(s)
    OBVIOUS
  <2>2. u \in Seq(V) /\ Len(u) = Len(t) /\ \A i \in 1 .. Len(t) : u[i] = s[k + i]
    BY <2>1
  <2> HIDE DEF u
  <2>3. u = t <=> \A i \in 1 .. Len(t) : u[i] = t[i]
    <3>1. u = [i \in 1 .. Len(t) |-> u[i]] /\ t = [i \in 1 .. Len(t) |-> t[i]]
      BY <2>2
    <3> QED
      BY <3>1
  <2> QED
    BY <2>2, <2>3 DEF u
<1> QED
  BY <1>1 DEF Within

\* What is within a part is within the whole.
LEMMA WithinJoined ==
  ASSUME NEW V, NEW t \in Seq(V), NEW a \in Seq(V), NEW b \in Seq(V), Within(t, a) \/ Within(t, b)
  PROVE  Within(t, a \o b)
<1>1. /\ a \o b \in Seq(V) /\ Len(a \o b) = Len(a) + Len(b)
      /\ \A i \in 1 .. Len(a) : (a \o b)[i] = a[i]
      /\ \A i \in 1 .. Len(b) : (a \o b)[Len(a) + i] = b[i]
      /\ Len(a) \in Nat /\ Len(b) \in Nat /\ Len(t) \in Nat
  OBVIOUS
<1> DEFINE whole == a \o b
<1> HIDE DEF whole
<1>2. CASE Within(t, a)
  <2>0. \E k \in 0 .. Len(a) - Len(t) : \A i \in 1 .. Len(t) : a[k + i] = t[i]
    BY <1>2, WithinIs, Zenon
  <2>1. PICK k \in 0 .. Len(a) - Len(t) : \A i \in 1 .. Len(t) : a[k + i] = t[i]
    BY <2>0, Zenon
  <2>2. k \in 0 .. Len(whole) - Len(t) /\ \A i \in 1 .. Len(t) : k + i \in 1 .. Len(a)
    BY <1>1 DEF whole
  <2>3. \A i \in 1 .. Len(t) : whole[k + i] = t[i]
    BY <1>1, <2>1, <2>2 DEF whole
  <2>4. whole \in Seq(V)
    BY <1>1 DEF whole
  <2> QED
    BY <2>2, <2>3, <2>4, WithinIs DEF whole
<1>3. CASE Within(t, b)
  <2>1. PICK k \in 0 .. Len(b) - Len(t) : \A i \in 1 .. Len(t) : b[k + i] = t[i]
    BY <1>3, WithinIs, ZenonT(40)
  <2>2. Len(a) + k \in 0 .. Len(whole) - Len(t) /\ \A i \in 1 .. Len(t) : k + i \in 1 .. Len(b) /\ (Len(a) + k) + i = Len(a) + (k + i)
    BY <1>1 DEF whole
  <2>3. \A i \in 1 .. Len(t) : whole[(Len(a) + k) + i] = t[i]
    BY <1>1, <2>1, <2>2 DEF whole
  <2>4. whole \in Seq(V)
    BY <1>1 DEF whole
  <2> QED
    BY <2>2, <2>3, <2>4, WithinIs DEF whole
<1> QED
  BY <1>2, <1>3

LEMMA WithinFlattened ==
  ASSUME NEW V, NEW t \in Seq(V), NEW seqs \in Seq(Seq(V)), NEW l \in 1 .. Len(seqs), Within(t, seqs[l])
  PROVE  Within(t, FlattenSeq(seqs))
<1> DEFINE n == Len(seqs)
<1>1. PICK joined : Joins(joined, seqs, V) /\ FlattenSeq(seqs) = joined[n]
  BY FlattenJoins
<1>2. n \in Nat /\ \A k \in 1 .. n : seqs[k] \in Seq(V)
  OBVIOUS
<1> DEFINE Good == {k \in Nat : l <= k /\ k <= n => Within(t, joined[k])}
<1>3. 0 \in Good
  OBVIOUS
<1>4. ASSUME NEW k \in Nat, k \in Good PROVE k + 1 \in Good
  <2>0. k + 1 \in Nat
    OBVIOUS
  <2> SUFFICES ASSUME l <= k + 1, k + 1 <= n PROVE Within(t, joined[k + 1])
    BY <2>0, Zenon
  <2>1. k \in 0 .. n /\ k + 1 \in 1 .. n /\ (k + 1) - 1 = k
    BY <1>2
  <2>2. joined[k + 1] = joined[k] \o seqs[k + 1] /\ joined[k] \in Seq(V) /\ seqs[k + 1] \in Seq(V)
    BY <1>1, <1>2, <2>1 DEF Joins
  <2>3. Within(t, joined[k]) \/ Within(t, seqs[k + 1])
    BY <1>2, <1>4, SMTT(40)
  <2> QED
    BY <2>2, <2>3, WithinJoined
<1>5. \A k \in Nat : k \in Good
  <2> HIDE DEF Good
  <2> QED
    BY <1>3, <1>4, NatSetInduction
<1> QED
  BY <1>1, <1>2, <1>5

(***************************************************************************)
(* The search for predecessors                                             *)
(***************************************************************************)
\* The text and those of the messages are sequences of pieces.
Texts(text, messages) ==
  /\ Len(messages) \in Nat
  /\ \E V : text \in Seq(V) /\ \A k \in 1 .. Len(messages) : MessageText(messages[k]) \in Seq(V)

LEMMA FirstHoldingIs ==
  ASSUME NEW text, NEW messages
  PROVE  LET held == {k \in 1 .. Len(messages) : /\ messages[k].role = "assistant"
                                                 /\ \/ MessageText(messages[k]) = text
                                                    \/ Within(text, MessageText(messages[k]))}
         IN  FirstHolding(text, messages) = IF held # {} THEN LeastIn(held) ELSE 0
<1> DEFINE held    == {k \in 1 .. Len(messages) : /\ messages[k].role = "assistant"
                                                 /\ \/ MessageText(messages[k]) = text
                                                    \/ Within(text, MessageText(messages[k]))}
           matched == {k \in 1 .. Len(messages) : OutputMatches(text, messages[k], TRUE)}
<1>1. FirstHolding(text, messages) = IF matched # {} THEN LeastIn(matched) ELSE 0
  BY Zenon DEF FirstHolding, SelectInSeq, Min, LeastIn
<1>2. matched = held
  BY DEF OutputMatches
<1> QED
  BY <1>1, <1>2

LEMMA SearchesAgree ==
  ASSUME NEW text, NEW messages, Texts(text, messages)
  PROVE  FastSearchAgrees(text, messages)
<1> DEFINE n     == Len(messages)
           T(k)  == MessageText(messages[k])
           m     == AssistantMessages(messages)
           exact == {k \in m : T(k) = text /\ \A l \in m : T(l) = text => k <= l}
           held  == {k \in m : Within(text, T(k))}
           hits  == {k \in m : k \in exact \/ Within(text, T(k))}
           each  == [k \in 1 .. n |-> IF k \in m THEN T(k) ELSE <<>>]
<1>1. PICK V : text \in Seq(V) /\ \A k \in 1 .. n : T(k) \in Seq(V)
  BY DEF Texts
<1>2. n \in Nat /\ m \in SUBSET (1 .. n)
  BY DEF Texts, AssistantMessages
<1>3. \A k \in 1 .. n : T(k) = text => Within(text, T(k))
  <2>1. Within(text, text)
    <3>1. 0 \in 0 .. Len(text) - Len(text) /\ \A i \in 1 .. Len(text) : 0 + i = i
      BY <1>1
    <3> QED
      BY <1>1, <3>1, WithinIs
  <2> QED
    BY <2>1
<1>4. FirstHolding(text, messages) = IF held # {} THEN LeastIn(held) ELSE 0
  <2>1. held = {k \in 1 .. n : messages[k].role = "assistant" /\ (T(k) = text \/ Within(text, T(k)))}
    BY <1>3 DEF AssistantMessages
  <2> QED
    BY <2>1, FirstHoldingIs, Zenon
<1>5. hits = held
  BY <1>2, <1>3
<1>6. \A set : Min(set) = LeastIn(set)
  BY Zenon DEF Min, LeastIn
<1>7. held # {} => LeastIn(held) \in held
  <2>1. held \in SUBSET (1 .. n)
    BY <1>2
  <2> HIDE DEF held, n
  <2> QED
    BY <1>2, <2>1, LeastIs
<1>8. text = <<>> => held = m
  <2> SUFFICES ASSUME text = <<>>, NEW k \in m PROVE Within(text, T(k))
    OBVIOUS
  <2>1. T(k) \in Seq(V) /\ Len(text) = 0
    BY <1>1, <1>2
  <2>2. 0 \in 0 .. Len(T(k)) - Len(text) /\ 1 .. Len(text) = {}
    BY <2>1
  <2> QED
    BY <1>1, <2>1, <2>2, WithinIs
<1>9. ASSUME NEW k \in held PROVE ~(Len(text) > Len(T(k)))
  <2>1. T(k) \in Seq(V) /\ Within(text, T(k))
    BY <1>1, <1>2
  <2>2. PICK j \in 0 .. Len(T(k)) - Len(text) : TRUE
    BY <1>1, <2>1, WithinIs
  <2>3. Len(T(k)) \in Nat /\ Len(text) \in Nat
    BY <1>1, <2>1
  <2> QED
    BY <2>2, <2>3
<1>10. ASSUME NEW k \in held PROVE Within(text, FlattenSeq(each))
  <2>1. each \in Seq(Seq(V)) /\ Len(each) = n
    BY <1>1, <1>2
  <2>2. k \in 1 .. n /\ each[k] = T(k) /\ Within(text, T(k))
    BY <1>2
  <2> HIDE DEF each
  <2> QED
    BY <1>1, <2>1, <2>2, WithinFlattened
<1> DEFINE found == FirstAssistantMatch(text, messages)
<1>11. found = IF m = {} THEN <<0, FALSE>>
               ELSE IF text = <<>> THEN <<LeastIn(m), T(LeastIn(m)) = <<>>>>
               ELSE IF \A k \in m : Len(text) > Len(T(k)) THEN <<0, FALSE>>
               ELSE IF exact = {} /\ ~Within(text, FlattenSeq(each)) THEN <<0, FALSE>>
               ELSE IF hits = {} THEN <<0, FALSE>> ELSE <<LeastIn(hits), T(LeastIn(hits)) = text>>
  BY Zenon, <1>6 DEF FirstAssistantMatch
<1>12. found = IF held = {} THEN <<0, FALSE>> ELSE <<LeastIn(held), T(LeastIn(held)) = text>>
  <2>1. held \subseteq m
    OBVIOUS
  <2> HIDE DEF held, hits, exact, each, m, found
  <2> QED
    BY <1>5, <1>8, <1>9, <1>10, <1>11, <2>1
<1>13. held # {} => LeastIn(held) # 0 /\ messages[LeastIn(held)].role = "assistant"
  BY <1>2, <1>7 DEF AssistantMessages
<1> DEFINE k == FirstHolding(text, messages)
<1>14. <<k, k # 0 /\ OutputMatches(text, messages[k], FALSE)>>
         = IF held = {} THEN <<0, FALSE>> ELSE <<LeastIn(held), T(LeastIn(held)) = text>>
  <2>1. CASE held = {}
    BY <1>4, <2>1
  <2>2. CASE held # {}
    <3>1. k = LeastIn(held) /\ k # 0
      BY <1>4, <1>13, <2>2
    <3>2. OutputMatches(text, messages[k], FALSE) <=> T(k) = text
      BY <1>13, <2>2, <3>1 DEF OutputMatches
    <3>3. (k # 0 /\ OutputMatches(text, messages[k], FALSE)) = (T(k) = text)
      BY <3>1, <3>2
    <3> QED
      BY <2>2, <3>1, <3>3
  <2> QED
    BY <2>1, <2>2
<1> QED
  BY <1>12, <1>14 DEF FastSearchAgrees

\* Texts of plain messages are sequences of pieces.
TextParts(parts) == Len(parts) \in Nat /\ \A k \in 1 .. Len(parts) : IsText(parts[k])
PlainMessages(messages) ==
  /\ Len(messages) \in Nat
  /\ \A k \in 1 .. Len(messages) : messages[k].shape = "plain" /\ TextParts(messages[k].parts)

LEMMA TextOfParts ==
  ASSUME NEW parts, TextParts(parts), NEW V, \A k \in 1 .. Len(parts) : <<"text", parts[k].content>> \in V
  PROVE  TextOf(parts) \in Seq(V)
<1> DEFINE texts == [k \in 1 .. Len(parts) |-> PartText(parts[k])]
<1>1. \A k \in 1 .. Len(parts) : PartText(parts[k]) = <<<<"text", parts[k].content>>>>
  BY DEF TextParts, PartText, IsText, IsImage, IsCall, IsResult
<1>2. \A k \in 1 .. Len(parts) : PartText(parts[k]) \in Seq(V)
  <2>1. \A piece \in V : <<piece>> \in Seq(V)
    OBVIOUS
  <2> QED
    BY <1>1, <2>1
<1>3. texts \in Seq(Seq(V))
  BY <1>2 DEF TextParts
<1>4. PICK joined : Joins(joined, texts, V) /\ FlattenSeq(texts) = joined[Len(texts)]
  <2> HIDE DEF texts
  <2> QED
    BY <1>3, FlattenJoins
<1>5. joined[Len(texts)] \in Seq(V)
  <2>1. Len(texts) \in Nat
    BY <1>3
  <2> HIDE DEF texts
  <2> QED
    BY <1>4, <2>1 DEF Joins
<1> QED
  BY <1>4, <1>5 DEF TextOf

LEMMA PlainTexts ==
  ASSUME NEW said, TextParts(said), NEW messages, PlainMessages(messages)
  PROVE  Texts(TextOf(said), messages)
<1> DEFINE V == {<<"text", said[k].content>> : k \in 1 .. Len(said)}
                \cup UNION {{<<"text", messages[k].parts[l].content>> : l \in 1 .. Len(messages[k].parts)} : k \in 1 .. Len(messages)}
<1>1. \A k \in 1 .. Len(said) : <<"text", said[k].content>> \in V
  OBVIOUS
<1>2. \A k \in 1 .. Len(messages) : \A l \in 1 .. Len(messages[k].parts) : <<"text", messages[k].parts[l].content>> \in V
  OBVIOUS
<1> HIDE DEF V
<1>3. TextOf(said) \in Seq(V)
  BY <1>1, TextOfParts
<1>4. ASSUME NEW k \in 1 .. Len(messages) PROVE MessageText(messages[k]) \in Seq(V)
  <2>1. TextParts(messages[k].parts) /\ messages[k].shape = "plain"
    BY DEF PlainMessages
  <2>2. MessageText(messages[k]) = TextOf(messages[k].parts)
    BY <2>1 DEF MessageText
  <2>3. \A l \in 1 .. Len(messages[k].parts) : <<"text", messages[k].parts[l].content>> \in V
    BY <1>2
  <2> QED
    BY <2>1, <2>2, <2>3, TextOfParts
<1> QED
  BY <1>3, <1>4 DEF Texts, PlainMessages

(***************************************************************************)
(* Parts of sequences                                                      *)
(***************************************************************************)
LEMMA SameSequence ==
  ASSUME NEW V, NEW a \in Seq(V), NEW b \in Seq(V), Len(a) = Len(b), \A k \in 1 .. Len(a) : a[k] = b[k]
  PROVE  a = b
<1>1. a = [k \in 1 .. Len(a) |-> a[k]] /\ b = [k \in 1 .. Len(a) |-> b[k]]
  OBVIOUS
<1> QED
  BY <1>1

LEMMA PartIs ==
  ASSUME NEW V, NEW s \in Seq(V), NEW j \in 1 .. Len(s) + 1, NEW k \in j - 1 .. Len(s)
  PROVE  /\ SubSeq(s, j, k) \in Seq(V)
         /\ Len(SubSeq(s, j, k)) = (k - j) + 1
         /\ \A i \in 1 .. (k - j) + 1 : SubSeq(s, j, k)[i] = s[(j - 1) + i]
  OBVIOUS

LEMMA ConcatIs ==
  ASSUME NEW V, NEW a \in Seq(V), NEW b \in Seq(V)
  PROVE  /\ a \o b \in Seq(V)
         /\ Len(a \o b) = Len(a) + Len(b)
         /\ \A i \in 1 .. Len(a) : (a \o b)[i] = a[i]
         /\ \A i \in 1 .. Len(b) : (a \o b)[Len(a) + i] = b[i]
         /\ Len(a) \in Nat /\ Len(b) \in Nat
  OBVIOUS

\* A sequence is its first k elements and the rest.
LEMMA SplitSequence ==
  ASSUME NEW V, NEW s \in Seq(V), NEW k \in 0 .. Len(s)
  PROVE  /\ s = SubSeq(s, 1, k) \o SubSeq(s, k + 1, Len(s))
         /\ SubSeq(s, 1, k) \in Seq(V) /\ Len(SubSeq(s, 1, k)) = k
         /\ SubSeq(s, k + 1, Len(s)) \in Seq(V) /\ Len(SubSeq(s, k + 1, Len(s))) = Len(s) - k
<1> DEFINE a == SubSeq(s, 1, k)
           b == SubSeq(s, k + 1, Len(s))
<1>1. Len(s) \in Nat /\ k \in Nat
  OBVIOUS
<1>2. a \in Seq(V) /\ Len(a) = k /\ \A i \in 1 .. k : a[i] = s[i]
  <2>1. 1 \in 1 .. Len(s) + 1 /\ k \in 1 - 1 .. Len(s) /\ (k - 1) + 1 = k /\ \A i \in 1 .. k : (1 - 1) + i = i
    BY <1>1
  <2> QED
    BY <2>1, PartIs
<1>3. b \in Seq(V) /\ Len(b) = Len(s) - k /\ \A i \in 1 .. Len(s) - k : b[i] = s[k + i]
  <2> DEFINE j == k + 1
  <2>1. j \in 1 .. Len(s) + 1 /\ Len(s) \in j - 1 .. Len(s) /\ (Len(s) - j) + 1 = Len(s) - k /\ j - 1 = k
    BY <1>1
  <2>2. b = SubSeq(s, j, Len(s))
    OBVIOUS
  <2> HIDE DEF j, b
  <2>3. /\ b \in Seq(V) /\ Len(b) = (Len(s) - j) + 1
        /\ \A i \in 1 .. (Len(s) - j) + 1 : b[i] = s[(j - 1) + i]
    BY <2>1, <2>2, PartIs
  <2> QED
    BY <2>1, <2>3
<1> HIDE DEF a, b
<1>4. /\ a \o b \in Seq(V) /\ Len(a \o b) = Len(s)
      /\ \A i \in 1 .. k : (a \o b)[i] = s[i]
      /\ \A i \in 1 .. Len(s) - k : (a \o b)[k + i] = s[k + i]
  BY <1>1, <1>2, <1>3, ConcatIs
<1>5. ASSUME NEW i \in 1 .. Len(s) PROVE (a \o b)[i] = s[i]
  <2>1. CASE i \in 1 .. k
    BY <1>4, <2>1
  <2>2. CASE i \notin 1 .. k
    <3>1. i - k \in 1 .. Len(s) - k /\ k + (i - k) = i
      BY <1>1, <2>2
    <3> QED
      BY <1>4, <3>1
  <2> QED
    BY <2>1, <2>2
<1>6. a \o b = s
  <2> DEFINE c == a \o b
  <2> HIDE DEF c
  <2>1. c \in Seq(V) /\ Len(c) = Len(s) /\ \A i \in 1 .. Len(c) : c[i] = s[i]
    BY <1>4, <1>5 DEF c
  <2>2. c = s
    BY <2>1, SameSequence
  <2> QED
    BY <2>2 DEF c
<1> QED
  BY <1>2, <1>3, <1>6 DEF a, b

\* The beginning of a joined sequence.
LEMMA BeginningOfJoined ==
  ASSUME NEW V, NEW a \in Seq(V), NEW b \in Seq(V), NEW k \in 0 .. Len(b)
  PROVE  SubSeq(a \o b, 1, Len(a) + k) = a \o SubSeq(b, 1, k)
<1> DEFINE c == a \o b
           d == SubSeq(c, 1, Len(a) + k)
           e == SubSeq(b, 1, k)
           f == a \o e
<1>1. /\ c \in Seq(V) /\ Len(c) = Len(a) + Len(b)
      /\ \A i \in 1 .. Len(a) : c[i] = a[i]
      /\ \A i \in 1 .. Len(b) : c[Len(a) + i] = b[i]
      /\ Len(a) \in Nat /\ Len(b) \in Nat /\ k \in Nat
  BY ConcatIs
<1> HIDE DEF c
<1>2. e \in Seq(V) /\ Len(e) = k /\ \A i \in 1 .. k : e[i] = b[i]
  <2>1. 1 \in 1 .. Len(b) + 1 /\ k \in 1 - 1 .. Len(b) /\ (k - 1) + 1 = k /\ \A i \in 1 .. k : (1 - 1) + i = i
    BY <1>1
  <2> QED
    BY <2>1, PartIs
<1>3. d \in Seq(V) /\ Len(d) = Len(a) + k /\ \A i \in 1 .. Len(a) + k : d[i] = c[i]
  <2>1. /\ 1 \in 1 .. Len(c) + 1 /\ Len(a) + k \in 1 - 1 .. Len(c) /\ ((Len(a) + k) - 1) + 1 = Len(a) + k
        /\ \A i \in 1 .. Len(a) + k : (1 - 1) + i = i
    BY <1>1
  <2> QED
    BY <1>1, <2>1, PartIs
<1> HIDE DEF d, e
<1>4. /\ f \in Seq(V) /\ Len(f) = Len(a) + k
      /\ \A i \in 1 .. Len(a) : f[i] = a[i]
      /\ \A i \in 1 .. k : f[Len(a) + i] = e[i]
  <2>1. e \in Seq(V) /\ f = a \o e
    BY <1>2
  <2> HIDE DEF f
  <2>2. /\ f \in Seq(V) /\ Len(f) = Len(a) + Len(e)
        /\ \A i \in 1 .. Len(a) : f[i] = a[i]
        /\ \A i \in 1 .. Len(e) : f[Len(a) + i] = e[i]
    BY <2>1, ConcatIs
  <2> QED
    BY <1>2, <2>2
<1> HIDE DEF f
<1>5. ASSUME NEW i \in 1 .. Len(a) + k PROVE d[i] = f[i]
  <2>1. CASE i \in 1 .. Len(a)
    BY <1>1, <1>3, <1>4, <2>1
  <2>2. CASE i \notin 1 .. Len(a)
    <3>1. i - Len(a) \in 1 .. k /\ i - Len(a) \in 1 .. Len(b) /\ Len(a) + (i - Len(a)) = i
      BY <1>1, <2>2
    <3>2. d[i] = b[i - Len(a)]
      BY <1>1, <1>3, <3>1
    <3>3. f[i] = b[i - Len(a)]
      BY <1>2, <1>4, <3>1
    <3> QED
      BY <3>2, <3>3
  <2> QED
    BY <2>1, <2>2
<1>6. d = f
  BY <1>3, <1>4, <1>5, SameSequence
<1> QED
  BY <1>6 DEF d, f, e, c

LEMMA JoinedTwice ==
  ASSUME NEW V, NEW a \in Seq(V), NEW b \in Seq(V), NEW c \in Seq(V)
  PROVE  (a \o b) \o c = a \o (b \o c)
<1> DEFINE l    == a \o b
           r    == b \o c
           left == l \o c
           right == a \o r
<1>1. /\ l \in Seq(V) /\ Len(l) = Len(a) + Len(b) /\ Len(a) \in Nat /\ Len(b) \in Nat
      /\ \A i \in 1 .. Len(a) : l[i] = a[i]
      /\ \A i \in 1 .. Len(b) : l[Len(a) + i] = b[i]
  BY ConcatIs
<1>2. /\ r \in Seq(V) /\ Len(r) = Len(b) + Len(c) /\ Len(c) \in Nat
      /\ \A i \in 1 .. Len(b) : r[i] = b[i]
      /\ \A i \in 1 .. Len(c) : r[Len(b) + i] = c[i]
  BY ConcatIs
<1> HIDE DEF l, r
<1>3. /\ left \in Seq(V) /\ Len(left) = Len(l) + Len(c)
      /\ \A i \in 1 .. Len(l) : left[i] = l[i]
      /\ \A i \in 1 .. Len(c) : left[Len(l) + i] = c[i]
  <2>1. left = l \o c /\ l \in Seq(V)
    BY <1>1
  <2> HIDE DEF left
  <2> QED
    BY <2>1, ConcatIs
<1>4. /\ right \in Seq(V) /\ Len(right) = Len(a) + Len(r)
      /\ \A i \in 1 .. Len(a) : right[i] = a[i]
      /\ \A i \in 1 .. Len(r) : right[Len(a) + i] = r[i]
  <2>1. right = a \o r /\ r \in Seq(V)
    BY <1>2
  <2> HIDE DEF right
  <2> QED
    BY <2>1, ConcatIs
<1> HIDE DEF left, right
<1>5. Len(left) = Len(right)
  BY <1>1, <1>2, <1>3, <1>4
<1>6. ASSUME NEW i \in 1 .. Len(left) PROVE left[i] = right[i]
  <2>1. CASE i \in 1 .. Len(a)
    <3>1. i \in 1 .. Len(l)
      BY <1>1, <2>1
    <3> QED
      BY <1>1, <1>3, <1>4, <2>1, <3>1
  <2>2. CASE i \notin 1 .. Len(a) /\ i \in 1 .. Len(l)
    <3>1. PICK j \in 1 .. Len(b) : i = Len(a) + j
      <4>1. i - Len(a) \in 1 .. Len(b) /\ i = Len(a) + (i - Len(a))
        BY <1>1, <2>2
      <4> QED
        BY <4>1
    <3>2. left[i] = b[j]
      BY <1>1, <1>3, <2>2, <3>1
    <3>3. j \in 1 .. Len(r)
      BY <1>1, <1>2, <3>1
    <3>4. right[i] = b[j]
      BY <1>2, <1>4, <3>1, <3>3
    <3> QED
      BY <3>2, <3>4
  <2>3. CASE i \notin 1 .. Len(l)
    <3>1. PICK j \in 1 .. Len(c) : i = Len(l) + j
      <4>1. i - Len(l) \in 1 .. Len(c) /\ i = Len(l) + (i - Len(l))
        BY <1>1, <1>2, <1>3, <2>3
      <4> QED
        BY <4>1
    <3>2. left[i] = c[j]
      BY <1>3, <3>1
    <3>3. Len(b) + j \in 1 .. Len(r) /\ i = Len(a) + (Len(b) + j)
      BY <1>1, <1>2, <3>1
    <3>4. right[i] = r[Len(b) + j]
      BY <1>4, <3>3
    <3>5. r[Len(b) + j] = c[j]
      BY <1>2, <3>1
    <3> QED
      BY <3>2, <3>4, <3>5
  <2> QED
    BY <1>1, <2>1, <2>2, <2>3
<1>7. left = right
  BY <1>3, <1>4, <1>5, <1>6, SameSequence
<1> QED
  BY <1>7 DEF left, right, l, r

LEMMA JoinedWithNone ==
  ASSUME NEW V, NEW a \in Seq(V)
  PROVE  <<>> \in Seq(V) /\ a \o <<>> = a /\ <<>> \o a = a
  OBVIOUS

LEMMA EmptyIs == ASSUME NEW V, NEW a \in Seq(V) PROVE a = <<>> <=> Len(a) = 0
  OBVIOUS

(***************************************************************************)
(* What joined sequences are joined to                                     *)
(***************************************************************************)
LEMMA FlattenNone == FlattenSeq(<<>>) = <<>>
  BY FlattenIs

LEMMA FlattenIn == ASSUME NEW V, NEW seqs \in Seq(Seq(V)) PROVE FlattenSeq(seqs) \in Seq(V)
<1>1. PICK joined : Joins(joined, seqs, V) /\ FlattenSeq(seqs) = joined[Len(seqs)]
  BY FlattenJoins
<1>2. Len(seqs) \in 0 .. Len(seqs)
  OBVIOUS
<1> QED
  BY <1>1, <1>2 DEF Joins

LEMMA FlattenOne == ASSUME NEW V, NEW s \in Seq(V) PROVE FlattenSeq(<<s>>) = s
<1> DEFINE seqs == <<s>>
           W == Seq(V)
<1>1. seqs \in Seq(W) /\ Len(seqs) = 1 /\ seqs[1] = s
  <2> HIDE DEF W
  <2>1. s \in W
    BY DEF W
  <2> QED
    BY <2>1
<1> HIDE DEF seqs
<1>2. PICK joined : Joins(joined, seqs, V) /\ FlattenSeq(seqs) = joined[1]
  BY <1>1, FlattenJoins
<1>3. joined[0] = <<>> /\ joined[1] = joined[1 - 1] \o seqs[1] /\ 1 - 1 = 0
  BY <1>1, <1>2 DEF Joins
<1>4. joined[1] = s
  BY <1>1, <1>3, JoinedWithNone
<1> QED
  BY <1>2, <1>4 DEF seqs

LEMMA FlattenJoined ==
  ASSUME NEW V, NEW a \in Seq(Seq(V)), NEW b \in Seq(Seq(V))
  PROVE  FlattenSeq(a \o b) = FlattenSeq(a) \o FlattenSeq(b)
<1> DEFINE W == Seq(V)
           c == a \o b
           m == Len(a)
           n == Len(b)
<1>1. /\ c \in Seq(W) /\ Len(c) = m + n /\ m \in Nat /\ n \in Nat
      /\ \A i \in 1 .. m : c[i] = a[i]
      /\ \A i \in 1 .. n : c[m + i] = b[i]
  <2> HIDE DEF W
  <2>1. a \in Seq(W) /\ b \in Seq(W)
    BY DEF W
  <2> QED
    BY <2>1, ConcatIs
<1> HIDE DEF c
<1>2. PICK A : Joins(A, a, V) /\ FlattenSeq(a) = A[m]
  BY FlattenJoins
<1>3. PICK B : Joins(B, b, V) /\ FlattenSeq(b) = B[n]
  BY FlattenJoins
<1>4. PICK C : Joins(C, c, V) /\ FlattenSeq(c) = C[m + n]
  BY <1>1, FlattenJoins
<1>5. /\ A[0] = <<>> /\ \A k \in 1 .. m : A[k] = A[k - 1] \o a[k]
      /\ B[0] = <<>> /\ \A k \in 1 .. n : B[k] = B[k - 1] \o b[k]
      /\ C[0] = <<>> /\ \A k \in 1 .. m + n : C[k] = C[k - 1] \o c[k]
  BY <1>1, <1>2, <1>3, <1>4 DEF Joins
<1>6. (\A k \in 0 .. m : A[k] \in W) /\ (\A k \in 0 .. n : B[k] \in W) /\ (\A k \in 1 .. n : b[k] \in W)
  <2>1. (\A k \in 0 .. m : A[k] \in W) /\ (\A k \in 0 .. n : B[k] \in W)
    BY <1>1, <1>2, <1>3 DEF Joins
  <2>2. \A k \in 1 .. n : b[k] \in W
    <3> HIDE DEF W
    <3>1. b \in Seq(W)
      BY DEF W
    <3> QED
      BY <3>1
  <2> QED
    BY <2>1, <2>2
<1> DEFINE First == {k \in Nat : k <= m => C[k] = A[k]}
           Reached(k) == C[m + k] = A[m] \o B[k]
           Then  == {k \in Nat : k <= n => Reached(k)}
<1> HIDE DEF m, n, W
<1>7. 0 \in First
  BY <1>5
<1>8. ASSUME NEW k \in Nat, k \in First PROVE k + 1 \in First
  <2> SUFFICES ASSUME k + 1 <= m PROVE C[k + 1] = A[k + 1]
    OBVIOUS
  <2>1. k + 1 \in 1 .. m /\ k + 1 \in 1 .. m + n /\ (k + 1) - 1 = k /\ C[k] = A[k]
    BY <1>1, <1>8
  <2> QED
    BY <1>1, <1>5, <2>1, ZenonT(40)
<1>9. \A k \in Nat : k \in First
  <2> HIDE DEF First
  <2> QED
    BY <1>7, <1>8, NatSetInduction
<1>10. 0 \in Then
  <2>1. C[m] = A[m] /\ A[m] \in W /\ m + 0 = m
    <3>1. m \in First
      <4> HIDE DEF First
      <4> QED
        BY <1>1, <1>9
    <3>2. m <= m /\ m \in 0 .. m /\ m + 0 = m
      BY <1>1
    <3>3. C[m] = A[m]
      BY <3>1, <3>2
    <3>4. A[m] \in W
      BY <1>6, <3>2
    <3> QED
      BY <3>2, <3>3, <3>4, Zenon
  <2>2. A[m] \o <<>> = A[m]
    BY <2>1, JoinedWithNone DEF W
  <2>3. Reached(0)
    BY <1>5, <2>1, <2>2
  <2> HIDE DEF Reached
  <2> QED
    BY <2>3
<1>11. ASSUME NEW k \in Nat, k \in Then PROVE k + 1 \in Then
  <2> HIDE DEF Reached
  <2> SUFFICES ASSUME k + 1 <= n PROVE Reached(k + 1)
    OBVIOUS
  <2> DEFINE j == k + 1
             i == m + j
  <2>1. /\ j \in 1 .. n /\ k \in 0 .. n /\ i \in 1 .. m + n /\ i - 1 = m + k /\ j - 1 = k /\ m \in 0 .. m /\ k <= n
    BY <1>1
  <2>2. C[m + k] = A[m] \o B[k]
    BY <1>11, <2>1 DEF Reached
  <2>3. c[i] = b[j]
    BY <1>1, <2>1
  <2> HIDE DEF i, j
  <2>4. C[i] = (A[m] \o B[k]) \o b[j]
    BY <1>5, <2>1, <2>2, <2>3
  <2>5. B[j] = B[k] \o b[j]
    BY <1>5, <2>1
  <2>6. A[m] \in W /\ B[k] \in W /\ b[j] \in W
    BY <1>6, <2>1
  <2>7. C[i] = A[m] \o B[j]
    <3>1. \A x, y, z \in W : (x \o y) \o z = x \o (y \o z)
      BY JoinedTwice, SMTT(30) DEF W
    <3>2. (A[m] \o B[k]) \o b[j] = A[m] \o (B[k] \o b[j])
      BY <2>6, <3>1
    <3> QED
      BY <2>4, <2>5, <3>2, Zenon
  <2> QED
    BY <2>7 DEF Reached, i, j
<1>12. \A k \in Nat : k \in Then
  <2> HIDE DEF Then
  <2> QED
    BY <1>10, <1>11, NatSetInduction
<1>13. C[m + n] = A[m] \o B[n]
  <2>1. n \in Then /\ n <= n
    <3> HIDE DEF Then
    <3> QED
      BY <1>1, <1>12
  <2>2. Reached(n)
    <3> HIDE DEF Reached
    <3> QED
      BY <2>1
  <2> QED
    BY <2>2
<1> QED
  BY <1>2, <1>3, <1>4, <1>13 DEF c, m, n

(***************************************************************************)
(* Blocks                                                                  *)
(***************************************************************************)
LEMMA Products ==
  /\ \A a \in Nat : a \div BlockSize \in Nat /\ a % BlockSize \in Nat /\ a * BlockSize \in Nat
  /\ \A a, b \in Int : /\ (a + b) * BlockSize = a * BlockSize + b * BlockSize
                       /\ (a - b) * BlockSize = a * BlockSize - b * BlockSize
                       /\ a * BlockSize <= b * BlockSize => a <= b
                       /\ a <= b => a * BlockSize <= b * BlockSize
                       /\ a * BlockSize = b * BlockSize => a = b
                       /\ a * BlockSize \in Int
  /\ 0 * BlockSize = 0 /\ 1 * BlockSize = BlockSize
<1>1. \A a \in Nat : a \div BlockSize \in Nat /\ a % BlockSize \in Nat /\ a * BlockSize \in Nat
  BY BlockSizeAssumption
<1>2. \A a, b \in Int : (a + b) * BlockSize = a * BlockSize + b * BlockSize
  BY BlockSizeAssumption
<1>3. \A a, b \in Int : (a - b) * BlockSize = a * BlockSize - b * BlockSize
  BY BlockSizeAssumption
<1>4. \A a, b \in Int : a * BlockSize <= b * BlockSize => a <= b
  BY BlockSizeAssumption
<1>5. \A a, b \in Int : a <= b => a * BlockSize <= b * BlockSize
  BY BlockSizeAssumption
<1>6. \A a, b \in Int : a * BlockSize = b * BlockSize => a = b
  BY BlockSizeAssumption
<1>7. \A a \in Int : a * BlockSize \in Int
  BY BlockSizeAssumption
<1>8. 0 * BlockSize = 0 /\ 1 * BlockSize = BlockSize
  BY BlockSizeAssumption
<1> QED
  BY <1>1, <1>2, <1>3, <1>4, <1>5, <1>6, <1>7, <1>8

\* The tokens of prompts whose blocks have their hashes in H.
Tokens(H) == ({"block"} \X H \X (1 .. BlockSize)) \cup ({"tail"} \X Nat \X Nat)
BlockOf(hash) == [l \in 1 .. BlockSize |-> <<"block", hash, l>>]
BlockRows(hashes) == [k \in 1 .. Len(hashes) |-> BlockOf(hashes[k])]

LEMMA BlockIs ==
  ASSUME NEW H, NEW hash \in H
  PROVE  BlockOf(hash) \in Seq(Tokens(H)) /\ Len(BlockOf(hash)) = BlockSize
<1>1. \A l \in 1 .. BlockSize : <<"block", hash, l>> \in Tokens(H)
  BY DEF Tokens
<1> QED
  BY <1>1, BlockSizeAssumption DEF BlockOf

LEMMA RowsAre ==
  ASSUME NEW H, NEW hashes \in Seq(H)
  PROVE  BlockRows(hashes) \in Seq(Seq(Tokens(H))) /\ Len(BlockRows(hashes)) = Len(hashes)
<1>1. \A k \in 1 .. Len(hashes) : BlockOf(hashes[k]) \in Seq(Tokens(H))
  <2>1. \A k \in 1 .. Len(hashes) : hashes[k] \in H
    OBVIOUS
  <2> QED
    BY <2>1, BlockIs
<1> DEFINE W == Seq(Tokens(H))
<1> HIDE DEF W
<1>2. \A k \in 1 .. Len(hashes) : BlockOf(hashes[k]) \in W
  BY <1>1 DEF W
<1>3. BlockRows(hashes) \in Seq(W) /\ Len(BlockRows(hashes)) = Len(hashes)
  BY <1>2 DEF BlockRows
<1> QED
  BY <1>3 DEF W

LEMMA BlocksAreRows == ASSUME NEW hashes PROVE Blocks(hashes) = FlattenSeq(BlockRows(hashes))
  BY Zenon DEF Blocks, BlockRows, BlockOf

LEMMA BlocksIn == ASSUME NEW H, NEW hashes \in Seq(H) PROVE Blocks(hashes) \in Seq(Tokens(H))
  BY RowsAre, BlocksAreRows, FlattenIn

\* The same of a sequence that is joined of two.
LEMMA JoinIs ==
  ASSUME NEW V, NEW a \in Seq(V), NEW b \in Seq(V), NEW c, c = a \o b
  PROVE  /\ c \in Seq(V)
         /\ Len(c) = Len(a) + Len(b)
         /\ \A i \in 1 .. Len(a) : c[i] = a[i]
         /\ \A i \in 1 .. Len(b) : c[Len(a) + i] = b[i]
         /\ Len(a) \in Nat /\ Len(b) \in Nat
  BY ConcatIs

\* What has the elements of one sequence and then those of another is the two joined.
LEMMA JoinedIs ==
  ASSUME NEW V, NEW a \in Seq(V), NEW b \in Seq(V), NEW c \in Seq(V), Len(c) = Len(a) + Len(b),
         \A i \in 1 .. Len(a) : c[i] = a[i],
         \A i \in 1 .. Len(b) : c[Len(a) + i] = b[i]
  PROVE  c = a \o b
<1>0. PICK r : r = a \o b
  OBVIOUS
<1>1. /\ r \in Seq(V)
      /\ Len(r) = Len(a) + Len(b)
      /\ \A i \in 1 .. Len(a) : r[i] = a[i]
      /\ \A i \in 1 .. Len(b) : r[Len(a) + i] = b[i]
      /\ Len(a) \in Nat /\ Len(b) \in Nat
  BY <1>0, JoinIs
<1>2. ASSUME NEW i \in 1 .. Len(c) PROVE c[i] = r[i]
  <2>1. CASE i \in 1 .. Len(a)
    BY <1>1, <2>1
  <2>2. CASE i \notin 1 .. Len(a)
    <3>1. PICK j \in 1 .. Len(b) : i = Len(a) + j
      <4>1. i - Len(a) \in 1 .. Len(b) /\ i = Len(a) + (i - Len(a))
        BY <1>1, <2>2
      <4> QED
        BY <4>1
    <3> QED
      BY <1>1, <3>1
  <2> QED
    BY <2>1, <2>2
<1>3. c = r
  BY <1>1, <1>2, SameSequence
<1> QED
  BY <1>0, <1>3

LEMMA BlocksJoined ==
  ASSUME NEW H, NEW a \in Seq(H), NEW b \in Seq(H)
  PROVE  Blocks(a \o b) = Blocks(a) \o Blocks(b)
<1>0. PICK c : c = a \o b
  OBVIOUS
<1>1. /\ c \in Seq(H)
      /\ Len(c) = Len(a) + Len(b)
      /\ \A i \in 1 .. Len(a) : c[i] = a[i]
      /\ \A i \in 1 .. Len(b) : c[Len(a) + i] = b[i]
      /\ Len(a) \in Nat /\ Len(b) \in Nat
  BY <1>0, JoinIs
<1> DEFINE ra == BlockRows(a)
           rb == BlockRows(b)
           rc == BlockRows(c)
           W == Seq(Tokens(H))
<1>2. ra \in Seq(W) /\ rb \in Seq(W) /\ rc \in Seq(W) /\ Len(ra) = Len(a) /\ Len(rb) = Len(b) /\ Len(rc) = Len(c)
  BY <1>1, RowsAre
<1>3. /\ \A i \in 1 .. Len(a) : ra[i] = BlockOf(a[i])
      /\ \A i \in 1 .. Len(b) : rb[i] = BlockOf(b[i])
      /\ \A i \in 1 .. Len(c) : rc[i] = BlockOf(c[i])
  BY DEF BlockRows
<1> HIDE DEF ra, rb, rc, W
<1>4. /\ \A i \in 1 .. Len(ra) : rc[i] = ra[i]
      /\ \A i \in 1 .. Len(rb) : rc[Len(ra) + i] = rb[i]
      /\ Len(rc) = Len(ra) + Len(rb)
  <2>1. \A i \in 1 .. Len(a) : i \in 1 .. Len(c)
    BY <1>1
  <2>2. \A i \in 1 .. Len(b) : Len(a) + i \in 1 .. Len(c)
    BY <1>1
  <2> QED
    BY <1>1, <1>2, <1>3, <2>1, <2>2
<1>5. rc = ra \o rb
  BY <1>2, <1>4, JoinedIs
<1>6. FlattenSeq(ra \o rb) = FlattenSeq(ra) \o FlattenSeq(rb)
  BY <1>2, FlattenJoined DEF W
<1>7. /\ Blocks(c) = FlattenSeq(rc)
      /\ Blocks(a) = FlattenSeq(ra)
      /\ Blocks(b) = FlattenSeq(rb)
  BY BlocksAreRows DEF ra, rb, rc
<1> QED
  BY <1>0, <1>5, <1>6, <1>7

LEMMA BlockCount ==
  ASSUME NEW H, NEW hashes \in Seq(H)
  PROVE  Len(Blocks(hashes)) = Len(hashes) * BlockSize
<1> DEFINE n == Len(hashes)
           W == Seq(Tokens(H))
           rows == BlockRows(hashes)
<1>1. n \in Nat /\ rows \in Seq(W) /\ Len(rows) = n /\ \A k \in 1 .. n : hashes[k] \in H
  BY RowsAre
<1>2. PICK joined : Joins(joined, rows, Tokens(H)) /\ FlattenSeq(rows) = joined[n]
  BY <1>1, FlattenJoins
<1>3. \A k \in 1 .. n : rows[k] = BlockOf(hashes[k])
  BY DEF BlockRows
<1>4. \A k \in 1 .. n : rows[k] \in W /\ Len(rows[k]) = BlockSize
  BY <1>1, <1>3, BlockIs
<1>5. /\ \A k \in 0 .. n : joined[k] \in W
      /\ joined[0] = <<>>
      /\ \A k \in 1 .. n : joined[k] = joined[k - 1] \o rows[k]
  BY <1>1, <1>2 DEF Joins
<1> HIDE DEF rows
<1> DEFINE Good == {k \in Nat : k <= n => Len(joined[k]) = k * BlockSize}
<1>6. 0 \in Good
  BY <1>5, Products
<1>7. ASSUME NEW k \in Nat, k \in Good PROVE k + 1 \in Good
  <2> SUFFICES ASSUME k + 1 <= n PROVE Len(joined[k + 1]) = (k + 1) * BlockSize
    OBVIOUS
  <2>1. k + 1 \in 1 .. n /\ k \in 0 .. n /\ (k + 1) - 1 = k /\ Len(joined[k]) = k * BlockSize
    BY <1>1, <1>7
  <2>2. joined[k + 1] = joined[k] \o rows[k + 1] /\ joined[k] \in Seq(Tokens(H)) /\ rows[k + 1] \in Seq(Tokens(H))
    BY <1>4, <1>5, <2>1
  <2>3. Len(joined[k + 1]) = Len(joined[k]) + Len(rows[k + 1])
    BY <2>2, ConcatIs
  <2>4. Len(rows[k + 1]) = BlockSize
    BY <1>4, <2>1
  <2>5. (k + 1) * BlockSize = k * BlockSize + 1 * BlockSize /\ 1 * BlockSize = BlockSize
    <3>1. k \in Int /\ 1 \in Int
      OBVIOUS
    <3> QED
      BY <3>1, Products
  <2> QED
    BY <2>1, <2>3, <2>4, <2>5
<1>8. \A k \in Nat : k \in Good
  <2> HIDE DEF Good
  <2> QED
    BY <1>6, <1>7, NatSetInduction
<1>9. Len(joined[n]) = n * BlockSize
  BY <1>1, <1>8
<1> QED
  BY <1>2, <1>9, BlocksAreRows DEF rows

\* The blocks of the first hashes are the first tokens.
LEMMA BlocksSplit ==
  ASSUME NEW H, NEW hashes \in Seq(H), NEW k \in 0 .. Len(hashes)
  PROVE  LET first == SubSeq(hashes, 1, k)
             rest  == SubSeq(hashes, k + 1, Len(hashes))
         IN  /\ first \in Seq(H) /\ rest \in Seq(H) /\ Len(first) = k /\ Len(rest) = Len(hashes) - k
             /\ Blocks(hashes) = Blocks(first) \o Blocks(rest)
             /\ Len(Blocks(first)) = k * BlockSize
             /\ SubSeq(Blocks(hashes), 1, k * BlockSize) = Blocks(first)
<1> DEFINE first == SubSeq(hashes, 1, k)
           rest  == SubSeq(hashes, k + 1, Len(hashes))
           A     == Blocks(first)
           B     == Blocks(rest)
<1>1. hashes = first \o rest /\ first \in Seq(H) /\ Len(first) = k /\ rest \in Seq(H) /\ Len(rest) = Len(hashes) - k
  BY SplitSequence, ZenonT(40)
<1> HIDE DEF first, rest
<1>2. Blocks(hashes) = A \o B
  BY <1>1, BlocksJoined
<1>3. A \in Seq(Tokens(H)) /\ B \in Seq(Tokens(H)) /\ Len(A) = k * BlockSize
  BY <1>1, BlocksIn, BlockCount
<1> HIDE DEF A, B
<1>4. SubSeq(A \o B, 1, Len(A) + 0) = A \o SubSeq(B, 1, 0)
  <2>1. 0 \in 0 .. Len(B)
    BY <1>3
  <2> QED
    BY <1>3, <2>1, BeginningOfJoined
<1>5. Len(A) + 0 = Len(A) /\ SubSeq(B, 1, 0) = <<>> /\ A \o <<>> = A
  BY <1>3, JoinedWithNone
<1> QED
  BY <1>1, <1>2, <1>3, <1>4, <1>5 DEF first, rest, A, B

(***************************************************************************)
(* Segments of prompts                                                     *)
(***************************************************************************)
Segments(V) == [role : {"system", "user", "assistant"}, count : Nat, tokens : Seq(V)]
TokenRows(segments) == [k \in 1 .. Len(segments) |-> segments[k].tokens]
WholeSegments(segments) == \A k \in 1 .. Len(segments) : Len(segments[k].tokens) = segments[k].count * BlockSize

LEMMA TokensAreRows == ASSUME NEW segments PROVE TokensOf(segments) = FlattenSeq(TokenRows(segments))
  BY Zenon DEF TokensOf, TokenRows

LEMMA TokenRowsAre ==
  ASSUME NEW V, NEW segments \in Seq(Segments(V))
  PROVE  TokenRows(segments) \in Seq(Seq(V)) /\ Len(TokenRows(segments)) = Len(segments)
<1> DEFINE W == Seq(V)
<1>1. \A k \in 1 .. Len(segments) : segments[k] \in Segments(V)
  OBVIOUS
<1>2. \A k \in 1 .. Len(segments) : segments[k].tokens \in W
  BY <1>1 DEF Segments
<1>3. Len(segments) \in Nat
  OBVIOUS
<1> HIDE DEF W
<1>4. TokenRows(segments) \in Seq(W) /\ Len(TokenRows(segments)) = Len(segments)
  BY <1>2, <1>3 DEF TokenRows
<1> QED
  BY <1>4 DEF W

LEMMA TokensIn == ASSUME NEW V, NEW segments \in Seq(Segments(V)) PROVE TokensOf(segments) \in Seq(V)
  BY TokenRowsAre, TokensAreRows, FlattenIn

LEMMA TokensOfNone == TokensOf(<<>>) = <<>>
<1>1. TokenRows(<<>>) = <<>>
  BY DEF TokenRows
<1> QED
  BY <1>1, TokensAreRows, FlattenNone

LEMMA TokensOfOne == ASSUME NEW V, NEW segment \in Segments(V) PROVE TokensOf(<<segment>>) = segment.tokens
<1>1. TokenRows(<<segment>>) = <<segment.tokens>>
  BY DEF TokenRows
<1>2. segment.tokens \in Seq(V)
  BY DEF Segments
<1> QED
  BY <1>1, <1>2, TokensAreRows, FlattenOne

LEMMA TokensJoined ==
  ASSUME NEW V, NEW a \in Seq(Segments(V)), NEW b \in Seq(Segments(V))
  PROVE  TokensOf(a \o b) = TokensOf(a) \o TokensOf(b)
<1>0. PICK c : c = a \o b
  OBVIOUS
<1>1. /\ c \in Seq(Segments(V))
      /\ Len(c) = Len(a) + Len(b)
      /\ \A i \in 1 .. Len(a) : c[i] = a[i]
      /\ \A i \in 1 .. Len(b) : c[Len(a) + i] = b[i]
      /\ Len(a) \in Nat /\ Len(b) \in Nat
  BY <1>0, JoinIs
<1> DEFINE ra == TokenRows(a)
           rb == TokenRows(b)
           rc == TokenRows(c)
           W == Seq(V)
<1>2. ra \in Seq(W) /\ rb \in Seq(W) /\ rc \in Seq(W) /\ Len(ra) = Len(a) /\ Len(rb) = Len(b) /\ Len(rc) = Len(c)
  BY <1>1, TokenRowsAre
<1>3. /\ \A i \in 1 .. Len(a) : ra[i] = a[i].tokens
      /\ \A i \in 1 .. Len(b) : rb[i] = b[i].tokens
      /\ \A i \in 1 .. Len(c) : rc[i] = c[i].tokens
  BY DEF TokenRows
<1> HIDE DEF ra, rb, rc, W
<1>4. /\ \A i \in 1 .. Len(ra) : rc[i] = ra[i]
      /\ \A i \in 1 .. Len(rb) : rc[Len(ra) + i] = rb[i]
      /\ Len(rc) = Len(ra) + Len(rb)
  <2>1. \A i \in 1 .. Len(a) : i \in 1 .. Len(c)
    BY <1>1
  <2>2. \A i \in 1 .. Len(b) : Len(a) + i \in 1 .. Len(c)
    BY <1>1
  <2>3. ASSUME NEW i \in 1 .. Len(a) PROVE rc[i] = ra[i]
    <3>1. rc[i] = c[i].tokens /\ c[i] = a[i] /\ ra[i] = a[i].tokens
      BY <1>1, <1>3, <2>1
    <3> QED
      BY <3>1, Zenon
  <2>4. ASSUME NEW i \in 1 .. Len(b) PROVE rc[Len(a) + i] = rb[i]
    <3>1. rc[Len(a) + i] = c[Len(a) + i].tokens /\ c[Len(a) + i] = b[i] /\ rb[i] = b[i].tokens
      BY <1>1, <1>3, <2>2
    <3> QED
      BY <3>1, Zenon
  <2> QED
    BY <1>1, <1>2, <2>3, <2>4
<1>5. rc = ra \o rb
  BY <1>2, <1>4, JoinedIs
<1>6. FlattenSeq(ra \o rb) = FlattenSeq(ra) \o FlattenSeq(rb)
  BY <1>2, FlattenJoined DEF W
<1>7. /\ TokensOf(c) = FlattenSeq(rc)
      /\ TokensOf(a) = FlattenSeq(ra)
      /\ TokensOf(b) = FlattenSeq(rb)
  BY TokensAreRows DEF ra, rb, rc
<1> QED
  BY <1>0, <1>5, <1>6, <1>7

LEMMA WholeJoined ==
  ASSUME NEW V, NEW a \in Seq(Segments(V)), NEW b \in Seq(Segments(V)), WholeSegments(a), WholeSegments(b)
  PROVE  WholeSegments(a \o b)
<1>0. PICK c : c = a \o b
  OBVIOUS
<1>1. /\ c \in Seq(Segments(V))
      /\ Len(c) = Len(a) + Len(b)
      /\ \A i \in 1 .. Len(a) : c[i] = a[i]
      /\ \A i \in 1 .. Len(b) : c[Len(a) + i] = b[i]
      /\ Len(a) \in Nat /\ Len(b) \in Nat
  BY <1>0, JoinIs
<1>2. ASSUME NEW i \in 1 .. Len(c) PROVE Len(c[i].tokens) = c[i].count * BlockSize
  <2>1. CASE i \in 1 .. Len(a)
    BY <1>1, <2>1 DEF WholeSegments
  <2>2. CASE i \notin 1 .. Len(a)
    <3>1. PICK j \in 1 .. Len(b) : i = Len(a) + j
      <4>1. i - Len(a) \in 1 .. Len(b) /\ i = Len(a) + (i - Len(a))
        BY <1>1, <2>2
      <4> QED
        BY <4>1
    <3> QED
      BY <1>1, <3>1 DEF WholeSegments
  <2> QED
    BY <2>1, <2>2
<1> QED
  BY <1>0, <1>2 DEF WholeSegments

LEMMA BeginningOfFirst ==
  ASSUME NEW V, NEW a \in Seq(V), NEW b \in Seq(V), NEW k \in 0 .. Len(a)
  PROVE  SubSeq(a \o b, 1, k) = SubSeq(a, 1, k)
<1> DEFINE first == SubSeq(a, 1, k)
           rest  == SubSeq(a, k + 1, Len(a))
           more  == rest \o b
<1>1. a = first \o rest /\ first \in Seq(V) /\ Len(first) = k /\ rest \in Seq(V)
  BY SplitSequence, ZenonT(40)
<1> HIDE DEF first, rest
<1>2. more \in Seq(V)
  BY <1>1, ConcatIs
<1>3. a \o b = first \o more
  BY <1>1, JoinedTwice
<1> HIDE DEF more
<1>4. SubSeq(first \o more, 1, Len(first) + 0) = first \o SubSeq(more, 1, 0)
  <2>1. 0 \in 0 .. Len(more)
    BY <1>2
  <2> QED
    BY <1>1, <1>2, <2>1, BeginningOfJoined
<1>5. Len(first) + 0 = k /\ SubSeq(more, 1, 0) = <<>> /\ first \o <<>> = first
  BY <1>1, <1>2, JoinedWithNone
<1> QED
  BY <1>3, <1>4, <1>5 DEF first

\* The beginnings of a sequence grow by an element at a time.
LEMMA OneMore ==
  ASSUME NEW V, NEW s \in Seq(V), NEW k \in Nat, k + 1 <= Len(s)
  PROVE  /\ SubSeq(s, 1, k) \in Seq(V)
         /\ SubSeq(s, 1, k + 1) = SubSeq(s, 1, k) \o <<s[k + 1]>>
         /\ s[k + 1] \in V
<1>1. PICK a : a = SubSeq(s, 1, k)
  OBVIOUS
<1>2. PICK c : c = SubSeq(s, 1, k + 1)
  OBVIOUS
<1>3. a \in Seq(V) /\ Len(a) = k /\ \A i \in 1 .. k : a[i] = s[i]
  BY <1>1
<1>4. c \in Seq(V) /\ Len(c) = k + 1 /\ \A i \in 1 .. k + 1 : c[i] = s[i]
  BY <1>2
<1>5. PICK b : b = <<s[k + 1]>>
  OBVIOUS
<1>6. s[k + 1] \in V /\ b \in Seq(V) /\ Len(b) = 1 /\ b[1] = s[k + 1]
  BY <1>5
<1>7. c = a \o b
  <2>1. Len(c) = Len(a) + Len(b)
    BY <1>3, <1>4, <1>6
  <2>2. ASSUME NEW i \in 1 .. Len(a) PROVE c[i] = a[i]
    <3>1. i \in 1 .. k /\ i \in 1 .. k + 1
      BY <1>3
    <3> QED
      BY <1>3, <1>4, <3>1
  <2>3. \A i \in 1 .. Len(b) : c[Len(a) + i] = b[i]
    BY <1>3, <1>4, <1>6
  <2> QED
    BY <1>3, <1>4, <1>6, <2>1, <2>2, <2>3, JoinedIs
<1> QED
  BY <1>1, <1>2, <1>3, <1>5, <1>6, <1>7

(***************************************************************************)
(* What is left of the segments when the history is cut                    *)
(***************************************************************************)
Counts(segments) == [k \in 1 .. Len(segments) |-> segments[k].count]

LEMMA SegmentsAre ==
  ASSUME NEW V, NEW segments \in Seq(Segments(V)), NEW k \in 1 .. Len(segments)
  PROVE  /\ segments[k] \in Segments(V)
         /\ segments[k].role \in {"system", "user", "assistant"}
         /\ segments[k].count \in Nat
         /\ segments[k].tokens \in Seq(V)
<1>1. segments[k] \in Segments(V)
  OBVIOUS
<1> QED
  BY <1>1 DEF Segments

\* The first k of whole segments hold as many tokens as their blocks.
LEMMA TokensOfBeginning ==
  ASSUME NEW V, NEW segments \in Seq(Segments(V)), WholeSegments(segments),
         NEW sums, RunningSums(sums, Len(segments), Counts(segments))
  PROVE  \A k \in 0 .. Len(segments) : /\ Len(TokensOf(SubSeq(segments, 1, k))) = sums[k] * BlockSize
                                       /\ TokensOf(SubSeq(segments, 1, k)) \in Seq(V)
                                       /\ sums[k] \in Nat
<1> DEFINE n == Len(segments)
           X == Segments(V)
           F(k) == TokensOf(SubSeq(segments, 1, k))
           Fits(k) == Len(F(k)) = sums[k] * BlockSize /\ F(k) \in Seq(V) /\ sums[k] \in Nat
           Good == {k \in Nat : k <= n => Fits(k)}
<1>1. n \in Nat
  OBVIOUS
<1>2. /\ sums[0] = 0
      /\ \A k \in 1 .. n : sums[k] = sums[k - 1] + segments[k].count
  BY DEF RunningSums, Counts
<1>3. 0 \in Good
  <2>1. SubSeq(segments, 1, 0) = <<>>
    OBVIOUS
  <2>2. F(0) = <<>>
    BY <2>1, TokensOfNone
  <2>3. Fits(0)
    <3>1. <<>> \in Seq(V) /\ Len(<<>>) = 0 /\ 0 \in Nat
      OBVIOUS
    <3>2. sums[0] * BlockSize = 0
      BY <1>2, Products
    <3> HIDE DEF F
    <3> QED
      BY <1>2, <2>2, <3>1, <3>2
  <2> HIDE DEF Fits
  <2> QED
    BY <2>3
<1>4. ASSUME NEW k \in Nat, k \in Good PROVE k + 1 \in Good
  <2> HIDE DEF Fits, F
  <2> SUFFICES ASSUME k + 1 <= n PROVE Fits(k + 1)
    OBVIOUS
  <2>1. Fits(k)
    BY <1>1, <1>4
  <2>2. k + 1 \in 1 .. n /\ (k + 1) - 1 = k
    BY <1>1
  <2>3. PICK seg : seg = segments[k + 1]
    OBVIOUS
  <2>4. /\ SubSeq(segments, 1, k) \in Seq(Segments(V))
        /\ SubSeq(segments, 1, k + 1) = SubSeq(segments, 1, k) \o <<seg>>
        /\ seg \in Segments(V)
    BY <2>3, OneMore
  <2>5. /\ seg.count \in Nat /\ seg.tokens \in Seq(V)
        /\ Len(seg.tokens) = seg.count * BlockSize
        /\ sums[k + 1] = sums[k] + seg.count
    <3>1. seg.count \in Nat /\ seg.tokens \in Seq(V)
      BY <2>4 DEF Segments
    <3> QED
      BY <1>2, <2>2, <2>3, <3>1 DEF WholeSegments
  <2>6. <<seg>> \in Seq(Segments(V))
    BY <2>4
  <2>7. F(k + 1) = F(k) \o TokensOf(<<seg>>)
    BY <2>4, <2>6, TokensJoined DEF F
  <2>8. TokensOf(<<seg>>) = seg.tokens
    BY <2>4, TokensOfOne
  <2>9. PICK f : f = F(k)
    OBVIOUS
  <2>10. PICK g : g = F(k + 1)
    OBVIOUS
  <2>11. g = f \o seg.tokens /\ f \in Seq(V) /\ Len(f) = sums[k] * BlockSize /\ sums[k] \in Nat
    BY <2>1, <2>7, <2>8, <2>9, <2>10 DEF Fits
  <2>12. g \in Seq(V) /\ Len(g) = Len(f) + Len(seg.tokens)
    <3>1. PICK s : s = seg.tokens
      OBVIOUS
    <3>2. f \in Seq(V) /\ s \in Seq(V) /\ g = f \o s
      BY <2>5, <2>11, <3>1
    <3>3. /\ g \in Seq(V)
          /\ Len(g) = Len(f) + Len(s)
          /\ \A i \in 1 .. Len(f) : g[i] = f[i]
          /\ \A i \in 1 .. Len(s) : g[Len(f) + i] = s[i]
          /\ Len(f) \in Nat /\ Len(s) \in Nat
      BY <3>2, JoinIs
    <3> QED
      BY <3>1, <3>3
  <2>13. Len(g) = sums[k + 1] * BlockSize
    <3>1. \A x, y \in Nat : (x + y) * BlockSize = x * BlockSize + y * BlockSize
      BY Products
    <3>2. (sums[k] + seg.count) * BlockSize = sums[k] * BlockSize + seg.count * BlockSize
      BY <2>5, <2>11, <3>1
    <3> QED
      BY <2>5, <2>11, <2>12, <3>2
  <2>14. sums[k + 1] \in Nat
    <3>1. \A x, y \in Nat : x + y \in Nat
      OBVIOUS
    <3>2. sums[k] + seg.count \in Nat
      BY <2>5, <2>11, <3>1
    <3> QED
      BY <2>5, <3>2, Zenon
  <2> QED
    BY <2>10, <2>12, <2>13, <2>14 DEF Fits
<1>5. \A k \in Nat : k \in Good
  <2> HIDE DEF Good
  <2> QED
    BY <1>3, <1>4, NatSetInduction
<1>6. \A k \in 0 .. n : Fits(k)
  <2> HIDE DEF Fits
  <2> QED
    BY <1>1, <1>5
<1> QED
  BY <1>6

LEMMA WholeBeginning ==
  ASSUME NEW V, NEW segments \in Seq(Segments(V)), WholeSegments(segments), NEW k \in 0 .. Len(segments)
  PROVE  SubSeq(segments, 1, k) \in Seq(Segments(V)) /\ WholeSegments(SubSeq(segments, 1, k))
<1>1. PICK a : a = SubSeq(segments, 1, k)
  OBVIOUS
<1>2. a \in Seq(Segments(V)) /\ Len(a) = k /\ \A i \in 1 .. k : a[i] = segments[i]
  BY <1>1
<1>3. ASSUME NEW i \in 1 .. Len(a) PROVE Len(a[i].tokens) = a[i].count * BlockSize
  <2>1. a[i] = segments[i] /\ i \in 1 .. Len(segments)
    BY <1>2
  <2>2. Len(segments[i].tokens) = segments[i].count * BlockSize
    BY <2>1 DEF WholeSegments
  <2> QED
    BY <2>1, <2>2, Zenon
<1> QED
  BY <1>1, <1>2, <1>3 DEF WholeSegments

LEMMA WholeOne ==
  ASSUME NEW V, NEW segment \in Segments(V), Len(segment.tokens) = segment.count * BlockSize
  PROVE  <<segment>> \in Seq(Segments(V)) /\ WholeSegments(<<segment>>)
<1>1. PICK s : s = <<segment>>
  OBVIOUS
<1>2. s \in Seq(Segments(V)) /\ Len(s) = 1 /\ s[1] = segment
  BY <1>1
<1>3. ASSUME NEW i \in 1 .. Len(s) PROVE Len(s[i].tokens) = s[i].count * BlockSize
  <2>1. i = 1
    BY <1>2
  <2> QED
    BY <1>2, <2>1, Zenon
<1> QED
  BY <1>1, <1>2, <1>3 DEF WholeSegments

\* Segments up to one that is cut at the target hold the tokens up to the target.
LEMMA CutIs ==
  ASSUME NEW V, NEW segments \in Seq(Segments(V)), WholeSegments(segments),
         NEW sums, RunningSums(sums, Len(segments), Counts(segments)),
         NEW m \in 1 .. Len(segments), NEW target \in Nat, sums[m - 1] <= target, target <= sums[m],
         NEW cut \in Segments(V), cut.count = target - sums[m - 1],
         cut.tokens = SubSeq(segments[m].tokens, 1, cut.count * BlockSize)
  PROVE  LET kept == SubSeq(segments, 1, m - 1) \o <<cut>>
         IN  /\ kept \in Seq(Segments(V))
             /\ WholeSegments(kept)
             /\ TokensOf(kept) = SubSeq(TokensOf(segments), 1, target * BlockSize)
<1>1. PICK a : a = SubSeq(segments, 1, m - 1)
  OBVIOUS
<1>2. PICK rest : rest = SubSeq(segments, m + 1, Len(segments))
  OBVIOUS
<1>3. PICK seg : seg = segments[m]
  OBVIOUS
<1>4. PICK b : b = SubSeq(segments, 1, m)
  OBVIOUS
<1>5. Len(segments) \in Nat /\ m - 1 \in Nat /\ m - 1 \in 0 .. Len(segments) /\ m \in 0 .. Len(segments) /\ (m - 1) + 1 = m
  OBVIOUS
<1>6. /\ a \in Seq(Segments(V)) /\ b = a \o <<seg>> /\ seg \in Segments(V)
  <2>1. (m - 1) + 1 <= Len(segments)
    OBVIOUS
  <2> QED
    BY <1>1, <1>3, <1>4, <1>5, <2>1, OneMore
<1>7. segments = b \o rest /\ b \in Seq(Segments(V)) /\ rest \in Seq(Segments(V))
  BY <1>2, <1>4, <1>5, SplitSequence
<1>8. WholeSegments(a)
  BY <1>1, <1>5, WholeBeginning
<1>9. /\ seg.count \in Nat /\ seg.tokens \in Seq(V) /\ Len(seg.tokens) = seg.count * BlockSize
      /\ sums[m] = sums[m - 1] + seg.count
  <2>1. seg.count \in Nat /\ seg.tokens \in Seq(V)
    BY <1>6 DEF Segments
  <2>2. Len(seg.tokens) = seg.count * BlockSize
    BY <1>3 DEF WholeSegments
  <2>3. sums[m] = sums[m - 1] + seg.count
    BY <1>3 DEF RunningSums, Counts
  <2> QED
    BY <2>1, <2>2, <2>3
<1>10. PICK A : A = TokensOf(a)
  OBVIOUS
<1>11. PICK R : R = TokensOf(rest)
  OBVIOUS
<1>12. PICK S : S = seg.tokens
  OBVIOUS
<1>13. PICK q : q = cut.count * BlockSize
  OBVIOUS
<1>14. /\ A \in Seq(V) /\ R \in Seq(V) /\ S \in Seq(V) /\ Len(A) = sums[m - 1] * BlockSize /\ sums[m - 1] \in Nat
  <2>1. \A k \in 0 .. Len(segments) : /\ Len(TokensOf(SubSeq(segments, 1, k))) = sums[k] * BlockSize
                                      /\ sums[k] \in Nat
    BY TokensOfBeginning
  <2>2. Len(A) = sums[m - 1] * BlockSize /\ sums[m - 1] \in Nat
    BY <1>1, <1>5, <1>10, <2>1
  <2>3. A \in Seq(V) /\ R \in Seq(V)
    BY <1>6, <1>7, <1>10, <1>11, TokensIn
  <2> QED
    BY <1>9, <1>12, <2>2, <2>3
<1>15. /\ cut.count \in Nat /\ cut.count <= seg.count
       /\ q \in 0 .. Len(S) /\ Len(A) + q = target * BlockSize
  <2>1. PICK u : u = sums[m - 1]
    OBVIOUS
  <2>2. PICK c : c = cut.count
    OBVIOUS
  <2>3. PICK s : s = seg.count
    OBVIOUS
  <2>4. c \in Nat /\ c <= s /\ s \in Nat /\ u \in Nat /\ target = u + c
    <3>1. /\ c = target - u /\ u <= target /\ target <= sums[m]
          /\ sums[m] = u + s /\ s \in Nat /\ u \in Nat
      BY <1>9, <1>14, <2>1, <2>2, <2>3
    <3> QED
      BY <3>1
  <2>5. c * BlockSize \in Nat /\ c * BlockSize <= s * BlockSize /\ (u + c) * BlockSize = u * BlockSize + c * BlockSize
    <3>1. c \in Int /\ s \in Int /\ u \in Int
      BY <2>4
    <3> QED
      BY <2>4, <3>1, Products
  <2>6. q = c * BlockSize /\ Len(S) = s * BlockSize /\ Len(A) = u * BlockSize
    BY <1>9, <1>12, <1>13, <1>14, <2>1, <2>2, <2>3
  <2>7. Len(S) \in Nat
    BY <1>14
  <2>8. q \in Nat /\ q <= Len(S)
    BY <2>5, <2>6
  <2>9. Len(A) + q = target * BlockSize
    BY <2>4, <2>5, <2>6, Zenon
  <2>10. q \in 0 .. Len(S)
    BY <2>7, <2>8
  <2>11. cut.count \in Nat /\ cut.count <= seg.count
    BY <2>2, <2>3, <2>4, Zenon
  <2> QED
    BY <2>9, <2>10, <2>11, Zenon
<1>16. TokensOf(segments) = A \o (S \o R)
  <2>1. TokensOf(segments) = TokensOf(b) \o R
    BY <1>7, <1>11, TokensJoined
  <2>2. <<seg>> \in Seq(Segments(V))
    BY <1>6
  <2>3. TokensOf(b) = A \o TokensOf(<<seg>>)
    BY <1>6, <1>10, <2>2, TokensJoined
  <2>4. TokensOf(<<seg>>) = S
    BY <1>6, <1>12, TokensOfOne
  <2>5. (A \o S) \o R = A \o (S \o R)
    <3>1. A \in Seq(V) /\ S \in Seq(V) /\ R \in Seq(V)
      BY <1>14
    <3> QED
      BY <3>1, JoinedTwice, SMTT(30)
  <2> QED
    BY <2>1, <2>3, <2>4, <2>5, Zenon
<1>17. PICK SR : SR = S \o R
  OBVIOUS
<1>18. SR \in Seq(V) /\ q \in 0 .. Len(SR)
  <2>1. SR \in Seq(V) /\ Len(SR) = Len(S) + Len(R) /\ Len(S) \in Nat /\ Len(R) \in Nat
    BY <1>14, <1>17, JoinIs
  <2> QED
    BY <1>15, <2>1
<1>19. SubSeq(A \o SR, 1, Len(A) + q) = A \o SubSeq(SR, 1, q)
  BY <1>14, <1>18, BeginningOfJoined
<1>20. SubSeq(SR, 1, q) = SubSeq(S, 1, q)
  BY <1>14, <1>15, <1>17, BeginningOfFirst
<1>21. cut.tokens = SubSeq(S, 1, q)
  BY <1>3, <1>12, <1>13
<1>22. SubSeq(TokensOf(segments), 1, target * BlockSize) = A \o cut.tokens
  BY <1>15, <1>16, <1>17, <1>19, <1>20, <1>21, Zenon
<1>23. <<cut>> \in Seq(Segments(V)) /\ WholeSegments(<<cut>>)
  <2>1. Len(SubSeq(S, 1, q)) = q
    BY <1>14, <1>15
  <2>2. Len(cut.tokens) = cut.count * BlockSize
    BY <1>13, <1>21, <2>1
  <2> QED
    BY <2>2, WholeOne
<1>24. PICK one : one = <<cut>>
  OBVIOUS
<1>25. TokensOf(a \o one) = A \o cut.tokens
  <2>1. TokensOf(one) = cut.tokens
    BY <1>24, TokensOfOne
  <2>2. TokensOf(a \o one) = TokensOf(a) \o TokensOf(one)
    BY <1>6, <1>23, <1>24, TokensJoined
  <2> QED
    BY <1>10, <2>1, <2>2, Zenon
<1>26. WholeSegments(a \o one)
  BY <1>6, <1>8, <1>23, <1>24, WholeJoined
<1>27. PICK kept : kept = a \o one
  OBVIOUS
<1>28. kept \in Seq(Segments(V))
  <2>1. a \in Seq(Segments(V)) /\ one \in Seq(Segments(V))
    BY <1>6, <1>23, <1>24
  <2> QED
    BY <1>27, <2>1, JoinIs
<1> QED
  BY <1>1, <1>22, <1>24, <1>25, <1>26, <1>27, <1>28, Zenon

\* Where segment k ends, and the last segment that the blocks up to the target reach into.
EndOf(segments, k) == SumOf([l \in 1 .. k |-> segments[l].count])
LastKept(segments, target) ==
  CHOOSE k \in 1 .. Len(segments) : EndOf(segments, k) >= target /\ \A l \in 1 .. k - 1 : EndOf(segments, l) < target

LEMMA TruncatedIs ==
  ASSUME NEW segments, NEW target, NEW tail
  PROVE  Truncated(segments, target, tail) =
           IF target <= 0 THEN <<>>
           ELSE IF EndOf(segments, Len(segments)) < target THEN segments
           ELSE SubSeq(segments, 1, LastKept(segments, target) - 1) \o
                <<IF EndOf(segments, LastKept(segments, target)) = target
                  THEN WithoutTail(segments[LastKept(segments, target)], tail)
                  ELSE CutWithin(segments[LastKept(segments, target)],
                                       target - EndOf(segments, LastKept(segments, target) - 1))>>
  BY Zenon DEF Truncated, EndOf, LastKept

LEMMA EndsAreSums ==
  ASSUME NEW V, NEW segments \in Seq(Segments(V))
  PROVE  \E sums : /\ RunningSums(sums, Len(segments), Counts(segments))
                  /\ \A k \in 0 .. Len(segments) : EndOf(segments, k) = sums[k]
<1>1. Len(segments) \in Nat /\ Integral(Len(segments), Counts(segments))
  <2>1. \A k \in 1 .. Len(segments) : segments[k].count \in Nat
    BY SegmentsAre
  <2> QED
    BY <2>1 DEF Integral, Counts
<1>2. PICK sums : /\ RunningSums(sums, Len(segments), Counts(segments))
                  /\ \A k \in 0 .. Len(segments) : SumOf([l \in 1 .. k |-> Counts(segments)[l]]) = sums[k]
  BY <1>1, SumsOfBeginnings
<1>3. ASSUME NEW k \in 0 .. Len(segments) PROVE EndOf(segments, k) = sums[k]
  <2>1. [l \in 1 .. k |-> Counts(segments)[l]] = [l \in 1 .. k |-> segments[l].count]
    BY <1>1 DEF Counts
  <2>2. EndOf(segments, k) = SumOf([l \in 1 .. k |-> segments[l].count])
    BY Zenon DEF EndOf
  <2> QED
    BY <1>2, <2>1, <2>2
<1> QED
  BY <1>2, <1>3

\* A segment that is cut keeps the tokens of the blocks it keeps; one that is not loses none.
LEMMA CutSegments ==
  ASSUME NEW V, NEW segment \in Segments(V), Len(segment.tokens) = segment.count * BlockSize,
         NEW kept \in Nat, kept <= segment.count
  PROVE  LET within == CutWithin(segment, kept)
             whole  == WithoutTail(segment, 0)
         IN  /\ within \in Segments(V) /\ within.count = kept
             /\ within.tokens = SubSeq(segment.tokens, 1, kept * BlockSize)
             /\ whole \in Segments(V) /\ whole.count = segment.count
             /\ whole.tokens = SubSeq(segment.tokens, 1, segment.count * BlockSize)
<1>1. PICK n : n = Len(segment.tokens)
  OBVIOUS
<1>2. PICK tk : tk = segment.tokens
  OBVIOUS
<1>3. PICK q : q = kept * BlockSize
  OBVIOUS
<1>4. segment.count \in Nat /\ segment.role \in {"system", "user", "assistant"} /\ tk \in Seq(V)
  BY <1>2 DEF Segments
<1>5. q \in Nat /\ q <= n /\ n = Len(tk) /\ n \in Nat
  <2>1. PICK c : c = segment.count
    OBVIOUS
  <2>2. c \in Int /\ kept \in Int /\ kept <= c
    BY <1>4, <2>1
  <2>3. kept * BlockSize <= c * BlockSize
    BY <2>2, Products
  <2>4. q <= n
    BY <1>1, <1>3, <2>1, <2>3
  <2>5. q \in Nat
    BY <1>3, Products
  <2> QED
    BY <1>1, <1>2, <1>4, <2>4, <2>5
<1>6. (IF q < n THEN q ELSE n) = q /\ n - (IF 0 < n THEN 0 ELSE n) = n
  BY <1>5
<1>7. /\ CutWithin(segment, kept) = [segment EXCEPT !.count = kept, !.tokens = SubSeq(tk, 1, q)]
      /\ WithoutTail(segment, 0) = [segment EXCEPT !.tokens = SubSeq(tk, 1, n)]
  <2>1. CutWithin(segment, kept) = [segment EXCEPT !.count = kept, !.tokens = SubSeq(tk, 1, IF q < n THEN q ELSE n)]
    BY <1>1, <1>2, <1>3, Zenon DEF CutWithin
  <2>2. WithoutTail(segment, 0) = [segment EXCEPT !.tokens = SubSeq(tk, 1, n - (IF 0 < n THEN 0 ELSE n))]
    BY <1>1, <1>2, Zenon DEF WithoutTail
  <2> QED
    BY <1>6, <2>1, <2>2, Zenon
<1>8. SubSeq(tk, 1, q) \in Seq(V) /\ SubSeq(tk, 1, n) \in Seq(V)
  BY <1>4, <1>5
<1>9. PICK s : s = SubSeq(tk, 1, q)
  OBVIOUS
<1>10. PICK w : w = SubSeq(tk, 1, n)
  OBVIOUS
<1>11. PICK within : within = [segment EXCEPT !.count = kept, !.tokens = s]
  OBVIOUS
<1>12. PICK whole : whole = [segment EXCEPT !.tokens = w]
  OBVIOUS
<1>13. within \in Segments(V) /\ within.count = kept /\ within.tokens = s
  BY <1>8, <1>9, <1>11 DEF Segments
<1>14. whole \in Segments(V) /\ whole.count = segment.count /\ whole.tokens = w
  BY <1>8, <1>10, <1>12 DEF Segments
<1> QED
  BY <1>1, <1>2, <1>3, <1>7, <1>9, <1>10, <1>11, <1>12, <1>13, <1>14, Zenon

\* Segments cut at a block hold the tokens up to that block.
LEMMA KeptTokens ==
  ASSUME NEW V, NEW segments \in Seq(Segments(V)), WholeSegments(segments),
         NEW target \in Nat, target * BlockSize <= Len(TokensOf(segments))
  PROVE  LET kept == Truncated(segments, target, 0)
         IN  /\ kept \in Seq(Segments(V))
             /\ WholeSegments(kept)
             /\ TokensOf(kept) = SubSeq(TokensOf(segments), 1, target * BlockSize)
<1>1. PICK n : n = Len(segments)
  OBVIOUS
<1>2. n \in Nat
  BY <1>1
<1>3. PICK kept : kept = Truncated(segments, target, 0)
  OBVIOUS
<1>4. PICK sums : /\ RunningSums(sums, Len(segments), Counts(segments))
                  /\ \A k \in 0 .. Len(segments) : EndOf(segments, k) = sums[k]
  BY EndsAreSums
<1>5. \A k \in 0 .. n : /\ Len(TokensOf(SubSeq(segments, 1, k))) = sums[k] * BlockSize
                       /\ sums[k] \in Nat
  BY <1>1, <1>4, TokensOfBeginning
<1>6. target <= sums[n]
  <2>1. SubSeq(segments, 1, n) = segments /\ n \in 0 .. n
    BY <1>1
  <2>2. PICK u : u = sums[n]
    OBVIOUS
  <2>3. target * BlockSize <= u * BlockSize /\ u \in Int /\ target \in Int
    <3>1. Len(TokensOf(SubSeq(segments, 1, n))) = sums[n] * BlockSize /\ sums[n] \in Nat
      BY <1>2, <1>5, <2>1
    <3>2. Len(TokensOf(segments)) = u * BlockSize
      BY <2>1, <2>2, <3>1, Zenon
    <3>3. u \in Int /\ target \in Int
      BY <2>2, <3>1
    <3> QED
      BY <3>2, <3>3
  <2> QED
    BY <2>2, <2>3, Products
<1>7. CASE target = 0
  <2>1. kept = <<>>
    <3>1. target <= 0
      BY <1>7
    <3> QED
      BY <1>3, <3>1, TruncatedIs, Zenon
  <2>2. PICK tk : tk = TokensOf(segments)
    OBVIOUS
  <2>3. tk \in Seq(V)
    BY <2>2, TokensIn
  <2>4. target * BlockSize = 0
    BY <1>7, Products
  <2>5. SubSeq(tk, 1, 0) = <<>>
    BY <2>3
  <2>6. <<>> \in Seq(Segments(V)) /\ WholeSegments(<<>>)
    BY DEF WholeSegments
  <2> QED
    BY <1>3, <2>1, <2>2, <2>4, <2>5, <2>6, TokensOfNone, Zenon
<1>8. CASE target # 0
  <2> DEFINE Enough == {k \in 1 .. n : sums[k] >= target}
  <2>1. sums[0] = 0 /\ n # 0
    BY <1>2, <1>4, <1>6, <1>8 DEF RunningSums
  <2>2. n \in Enough
    BY <1>2, <1>6, <1>5, <2>1
  <2>3. PICK m \in Enough : \A l \in Enough : m <= l
    <3>1. Enough \in SUBSET (1 .. n) /\ Enough # {}
      BY <2>2
    <3> HIDE DEF Enough
    <3> QED
      BY <1>2, <3>1, ExtremesOfPart
  <2>4. \A k \in 0 .. n : EndOf(segments, k) = sums[k]
    BY <1>1, <1>4
  <2>5. \E k \in 1 .. n : EndOf(segments, k) >= target /\ \A l \in 1 .. k - 1 : EndOf(segments, l) < target
    <3>1. m \in 1 .. n /\ EndOf(segments, m) >= target
      BY <2>3, <2>4
    <3>2. ASSUME NEW l \in 1 .. m - 1 PROVE EndOf(segments, l) < target
      <4>1. l \in 1 .. n /\ l \notin Enough /\ l \in 0 .. n
        BY <1>2, <2>3, <3>1
      <4>2. sums[l] \in Nat /\ EndOf(segments, l) = sums[l]
        BY <1>5, <2>4, <4>1
      <4> QED
        BY <4>1, <4>2
    <3> QED
      BY <3>1, <3>2
  <2> HIDE DEF Enough
  <2>6. PICK last : last = LastKept(segments, target)
    OBVIOUS
  <2>7. last \in 1 .. n /\ EndOf(segments, last) >= target /\ \A l \in 1 .. last - 1 : EndOf(segments, l) < target
    BY <1>1, <2>5, <2>6 DEF LastKept
  <2>8. PICK before : before = sums[last - 1]
    OBVIOUS
  <2>9. PICK seg : seg = segments[last]
    OBVIOUS
  <2>10. /\ last \in 0 .. n /\ last - 1 \in 0 .. n
         /\ EndOf(segments, last) = sums[last] /\ EndOf(segments, last - 1) = before
         /\ before \in Nat /\ sums[last] \in Nat
    <3>1. last \in 0 .. n /\ last - 1 \in 0 .. n
      BY <1>2, <2>7
    <3> QED
      BY <1>5, <2>4, <2>8, <3>1
  <2>11. /\ seg \in Segments(V) /\ Len(seg.tokens) = seg.count * BlockSize
         /\ seg.count \in Nat /\ sums[last] = before + seg.count
    <3>1. seg \in Segments(V) /\ seg.count \in Nat
      BY <1>1, <2>7, <2>9, SegmentsAre
    <3>2. Len(seg.tokens) = seg.count * BlockSize
      BY <1>1, <2>7, <2>9 DEF WholeSegments
    <3>3. sums[last] = before + seg.count
      BY <1>1, <1>4, <2>7, <2>8, <2>9 DEF RunningSums, Counts
    <3> QED
      BY <3>1, <3>2, <3>3
  <2>12. before <= target
    <3>1. CASE last = 1
      BY <2>1, <2>8, <3>1
    <3>2. CASE last # 1
      <4>1. last - 1 \in 1 .. last - 1
        BY <2>7, <3>2
      <4>2. before < target
        BY <2>7, <2>10, <4>1
      <4> QED
        BY <2>10, <4>2
    <3> QED
      BY <3>1, <3>2
  <2>13. PICK left : left = target - before
    OBVIOUS
  <2>14. PICK c : c = seg.count
    OBVIOUS
  <2>15. left \in Nat /\ left <= c /\ (sums[last] = target => left = c)
    <3>1. sums[last] = before + c /\ sums[last] >= target /\ c \in Nat
      BY <2>7, <2>10, <2>11, <2>14
    <3> QED
      BY <2>10, <2>12, <2>13, <3>1
  <2>16. PICK cut : cut = IF sums[last] = target THEN WithoutTail(seg, 0) ELSE CutWithin(seg, left)
    OBVIOUS
  <2>17. /\ cut \in Segments(V) /\ cut.count = left
         /\ cut.tokens = SubSeq(seg.tokens, 1, left * BlockSize)
    <3>1. left \in Nat /\ left <= seg.count
      BY <2>14, <2>15
    <3>2. /\ CutWithin(seg, left) \in Segments(V) /\ CutWithin(seg, left).count = left
          /\ CutWithin(seg, left).tokens = SubSeq(seg.tokens, 1, left * BlockSize)
          /\ WithoutTail(seg, 0) \in Segments(V) /\ WithoutTail(seg, 0).count = seg.count
          /\ WithoutTail(seg, 0).tokens = SubSeq(seg.tokens, 1, seg.count * BlockSize)
      BY <2>11, <3>1, CutSegments
    <3>3. sums[last] = target => left = seg.count
      BY <2>14, <2>15
    <3> QED
      BY <2>16, <3>2, <3>3, Zenon
  <2>18. kept = SubSeq(segments, 1, last - 1) \o <<cut>>
    <3>1. ~(target <= 0) /\ ~(EndOf(segments, Len(segments)) < target)
      <4>1. EndOf(segments, Len(segments)) = sums[n] /\ sums[n] \in Nat
        BY <1>1, <1>2, <1>5, <2>4
      <4> QED
        BY <1>6, <1>8, <4>1
    <3>2. kept = SubSeq(segments, 1, last - 1) \o
                   <<IF EndOf(segments, last) = target THEN WithoutTail(segments[last], 0)
                     ELSE CutWithin(segments[last], target - EndOf(segments, last - 1))>>
      BY <1>3, <2>6, <3>1, TruncatedIs, Zenon
    <3> QED
      BY <2>9, <2>10, <2>13, <2>16, <3>2, Zenon
  <2>19. /\ SubSeq(segments, 1, last - 1) \o <<cut>> \in Seq(Segments(V))
         /\ WholeSegments(SubSeq(segments, 1, last - 1) \o <<cut>>)
         /\ TokensOf(SubSeq(segments, 1, last - 1) \o <<cut>>)
              = SubSeq(TokensOf(segments), 1, target * BlockSize)
    <3>1. last \in 1 .. Len(segments) /\ sums[last - 1] <= target /\ target <= sums[last]
      BY <1>1, <2>7, <2>8, <2>10, <2>12
    <3>2. cut.count = target - sums[last - 1]
      BY <2>8, <2>13, <2>17
    <3>3. cut.tokens = SubSeq(segments[last].tokens, 1, cut.count * BlockSize)
      BY <2>9, <2>17
    <3> QED
      BY <1>4, <2>17, <3>1, <3>2, <3>3, CutIs
  <2> QED
    BY <1>3, <2>18, <2>19, Zenon
<1> QED
  BY <1>7, <1>8

(***************************************************************************)
(* What two prompts have in common                                         *)
(***************************************************************************)
Common(a, b) == CommonPrefixes({a, b})

LEMMA CommonIs ==
  ASSUME NEW V, NEW a \in Seq(V), NEW b \in Seq(V), NEW p \in Common(a, b)
  PROVE  /\ Len(p) \in 0 .. Len(a) /\ Len(p) <= Len(b)
         /\ SubSeq(a, 1, Len(p)) = SubSeq(b, 1, Len(p))
<1>1. /\ p \in UNION {Prefixes(seq) : seq \in {a, b}}
      /\ IsPrefix(p, a) /\ IsPrefix(p, b)
  BY Zenon DEF Common, CommonPrefixes
<1>2. p \in Prefixes(a) \/ p \in Prefixes(b)
  BY <1>1, Zenon
<1>3. p \in Seq(V)
  <2>1. ASSUME NEW s \in Seq(V), p \in Prefixes(s) PROVE p \in Seq(V)
    <3>1. PICK l \in 0 .. Len(s) : p = SubSeq(s, 1, l)
      BY <2>1, Zenon DEF Prefixes
    <3> QED
      BY <3>1
  <2> QED
    BY <1>2, <2>1
<1>4. /\ Len(p) <= Len(a) /\ SubSeq(p, 1, Len(p)) = SubSeq(a, 1, Len(p))
      /\ Len(p) <= Len(b) /\ SubSeq(p, 1, Len(p)) = SubSeq(b, 1, Len(p))
  BY <1>1, Zenon DEF IsPrefix
<1>5. Len(p) \in 0 .. Len(a)
  BY <1>3, <1>4
<1> QED
  BY <1>4, <1>5, Zenon

\* The longest common beginning of two sequences is one.
LEMMA LongestIsCommon ==
  ASSUME NEW V, NEW a \in Seq(V), NEW b \in Seq(V)
  PROVE  LongestCommonPrefix({a, b}) \in Common(a, b)
<1> DEFINE Lengths == {n \in 1 .. Len(a) + 1 : \E p \in Common(a, b) : n = Len(p) + 1}
<1>1. <<>> \in Common(a, b)
  <2>1. <<>> \in Prefixes(a)
    <3>1. 0 \in 0 .. Len(a) /\ SubSeq(a, 1, 0) = <<>>
      OBVIOUS
    <3> QED
      BY <3>1, Zenon DEF Prefixes
  <2>2. <<>> \in UNION {Prefixes(seq) : seq \in {a, b}}
    BY <2>1, Zenon
  <2>3. /\ Len(<<>>) <= Len(a) /\ SubSeq(<<>>, 1, Len(<<>>)) = SubSeq(a, 1, Len(<<>>))
        /\ Len(<<>>) <= Len(b) /\ SubSeq(<<>>, 1, Len(<<>>)) = SubSeq(b, 1, Len(<<>>))
    OBVIOUS
  <2>4. IsPrefix(<<>>, a) /\ IsPrefix(<<>>, b)
    BY <2>3, Zenon DEF IsPrefix
  <2> QED
    BY <2>2, <2>4, Zenon DEF Common, CommonPrefixes
<1>2. ASSUME NEW p \in Common(a, b) PROVE Len(p) + 1 \in Lengths /\ Len(p) \in Nat
  <2>1. Len(p) \in 0 .. Len(a) /\ Len(a) \in Nat
    BY CommonIs
  <2> QED
    BY <2>1
<1>3. PICK n \in Lengths : \A m \in Lengths : m <= n
  <2>1. Lengths \in SUBSET (1 .. Len(a) + 1) /\ Lengths # {} /\ Len(a) + 1 \in Nat
    BY <1>1, <1>2
  <2> HIDE DEF Lengths
  <2> QED
    BY <2>1, ExtremesOfPart
<1>4. PICK p \in Common(a, b) : n = Len(p) + 1
  BY <1>3
<1>5. ASSUME NEW q \in Common(a, b) PROVE Len(q) <= Len(p)
  <2>1. Len(q) + 1 <= Len(p) + 1 /\ Len(q) \in Nat /\ Len(p) \in Nat
    <3> HIDE DEF Lengths
    <3> QED
      BY <1>2, <1>3, <1>4
  <2> QED
    BY <2>1
<1>6. LongestCommonPrefix({a, b}) =
        CHOOSE longest \in Common(a, b) : \A other \in Common(a, b) : Len(other) <= Len(longest)
  BY Zenon DEF Common, LongestCommonPrefix
<1> QED
  BY <1>4, <1>5, <1>6, Zenon

LEMMA SharedIs ==
  ASSUME NEW V, NEW a \in Seq(V), NEW b \in Seq(V)
  PROVE  LET k == Len(LongestCommonPrefix({a, b}))
         IN  k \in Nat /\ k \in 0 .. Len(a) /\ k \in 0 .. Len(b) /\ SubSeq(a, 1, k) = SubSeq(b, 1, k)
<1>1. PICK p : p = LongestCommonPrefix({a, b})
  OBVIOUS
<1>2. p \in Common(a, b)
  BY <1>1, LongestIsCommon
<1>3. Len(p) \in 0 .. Len(a) /\ Len(p) <= Len(b) /\ SubSeq(a, 1, Len(p)) = SubSeq(b, 1, Len(p))
  BY <1>2, CommonIs
<1>4. Len(p) \in Nat /\ Len(p) \in 0 .. Len(b)
  BY <1>3
<1> QED
  BY <1>1, <1>3, <1>4, Zenon

(***************************************************************************)
(* Prompts                                                                 *)
(***************************************************************************)
GoodTurn(turn, H) == turn.hashes \in Seq(H) /\ turn.in \in Nat /\ turn.out \in Nat

\* The segments of a prompt hold its blocks and its tail.
HoldsPrompt(segments, turn, seed, H) ==
  /\ segments \in Seq(Segments(Tokens(H)))
  /\ TokensOf(segments) = Blocks(turn.hashes) \o PartialTail(TailOf(turn), seed)
  /\ TailOf(turn) = 0 => WholeSegments(segments)

LEMMA TailIs ==
  ASSUME NEW H, NEW n \in Nat, NEW seed \in Nat
  PROVE  /\ PartialTail(n, seed) \in Seq(Tokens(H))
         /\ Len(PartialTail(n, seed)) = n
         /\ n = 0 => PartialTail(n, seed) = <<>>
<1>1. PICK tail : tail = PartialTail(n, seed)
  OBVIOUS
<1>2. tail = [l \in 1 .. n |-> <<"tail", seed, l>>]
  BY <1>1, Zenon DEF PartialTail
<1>3. \A l \in 1 .. n : <<"tail", seed, l>> \in Tokens(H)
  BY DEF Tokens
<1>4. tail \in Seq(Tokens(H)) /\ Len(tail) = n
  BY <1>2, <1>3
<1>5. n = 0 => tail = <<>>
  BY <1>4, EmptyIs
<1> QED
  BY <1>1, <1>4, <1>5, Zenon

LEMMA BlocksForIn == ASSUME NEW n \in Nat PROVE BlocksFor(n) \in Nat
<1>1. n + (BlockSize - 1) \in Nat
  BY BlockSizeAssumption
<1>2. (n + (BlockSize - 1)) \div BlockSize \in Nat
  BY <1>1, Products
<1>3. BlocksFor(n) = (n + (BlockSize - 1)) \div BlockSize
  BY Zenon DEF BlocksFor
<1> QED
  BY <1>2, <1>3, Zenon

\* A segment that is left out when it has no tokens.
LEMMA PartOfPrompt ==
  ASSUME NEW V, NEW role \in {"system", "user", "assistant"}, NEW count \in Nat, NEW tokens \in Seq(V),
         NEW none \in BOOLEAN, none => tokens = <<>>
  PROVE  LET part == IF none THEN <<>> ELSE <<RoleSegment(role, count, tokens)>>
         IN  /\ part \in Seq(Segments(V))
             /\ TokensOf(part) = tokens
             /\ Len(tokens) = count * BlockSize => WholeSegments(part)
<1>1. PICK seg : seg = RoleSegment(role, count, tokens)
  OBVIOUS
<1>2. seg = [role |-> role, count |-> count, tokens |-> tokens]
  BY <1>1, Zenon DEF RoleSegment
<1>3. seg \in Segments(V) /\ seg.count = count /\ seg.tokens = tokens
  BY <1>2 DEF Segments
<1>4. PICK part : part = IF none THEN <<>> ELSE <<seg>>
  OBVIOUS
<1>5. CASE none
  <2>1. part = <<>> /\ tokens = <<>>
    BY <1>4, <1>5
  <2>2. <<>> \in Seq(Segments(V)) /\ WholeSegments(<<>>)
    BY DEF WholeSegments
  <2> QED
    BY <1>1, <1>4, <2>1, <2>2, TokensOfNone, Zenon
<1>6. CASE ~none
  <2>1. part = <<seg>>
    BY <1>4, <1>6
  <2>2. <<seg>> \in Seq(Segments(V))
    BY <1>3
  <2>3. TokensOf(<<seg>>) = tokens
    BY <1>3, TokensOfOne
  <2>4. ASSUME Len(tokens) = count * BlockSize PROVE WholeSegments(<<seg>>)
    BY <1>3, <2>4, WholeOne
  <2> QED
    BY <1>1, <1>4, <2>1, <2>2, <2>3, <2>4, Zenon
<1> QED
  BY <1>5, <1>6

\* The first prompt of a conversation.
LEMMA FirstPrompt ==
  ASSUME NEW H, NEW turn, GoodTurn(turn, H), NEW prefix \in Nat, NEW seed \in Nat
  PROVE  HoldsPrompt(InitTurn0(turn, prefix, seed), turn, seed, H)
<1>1. PICK h : h = turn.hashes
  OBVIOUS
<1>2. h \in Seq(H) /\ Len(h) \in Nat
  BY <1>1 DEF GoodTurn
<1>3. PICK n : n = TailOf(turn)
  OBVIOUS
<1>4. n \in Nat
  <2>1. n = turn.in % BlockSize
    BY <1>3, Zenon DEF TailOf
  <2> QED
    BY <2>1, Products DEF GoodTurn
<1>5. PICK system : system = IF BlocksFor(prefix) < Len(h) THEN BlocksFor(prefix) ELSE Len(h)
  OBVIOUS
<1>6. system \in 0 .. Len(h) /\ system \in Nat
  BY <1>2, <1>5, BlocksForIn
<1>7. PICK first : first = SubSeq(h, 1, system)
  OBVIOUS
<1>8. PICK user : user = SubSeq(h, system + 1, Len(h))
  OBVIOUS
<1>9. PICK tail : tail = PartialTail(n, seed)
  OBVIOUS
<1>10. PICK A : A = Blocks(first)
  OBVIOUS
<1>11. PICK B : B = Blocks(user)
  OBVIOUS
<1>12. PICK C : C = B \o tail
  OBVIOUS
<1>13. tail \in Seq(Tokens(H)) /\ Len(tail) = n /\ (n = 0 => tail = <<>>)
  BY <1>4, <1>9, TailIs
<1>14. /\ first \in Seq(H) /\ user \in Seq(H) /\ Blocks(h) = A \o B /\ Len(A) = system * BlockSize
       /\ Len(user) \in Nat
  <2>1. /\ first \in Seq(H) /\ user \in Seq(H) /\ Len(first) = system /\ Len(user) = Len(h) - system
        /\ Blocks(h) = Blocks(first) \o Blocks(user)
        /\ Len(Blocks(first)) = system * BlockSize
    BY <1>2, <1>6, <1>7, <1>8, BlocksSplit, ZenonT(40)
  <2>2. Len(user) \in Nat
    BY <2>1
  <2> QED
    BY <1>10, <1>11, <2>1, <2>2, Zenon
<1>15. A \in Seq(Tokens(H)) /\ B \in Seq(Tokens(H)) /\ Len(B) = Len(user) * BlockSize
  BY <1>10, <1>11, <1>14, BlocksIn, BlockCount
<1>16. C \in Seq(Tokens(H)) /\ (n = 0 => C = B)
  <2>1. C \in Seq(Tokens(H))
    BY <1>12, <1>13, <1>15, JoinIs
  <2>2. n = 0 => C = B
    BY <1>12, <1>13, <1>15, JoinedWithNone
  <2> QED
    BY <2>1, <2>2
<1>17. PICK none : none = (system = 0)
  OBVIOUS
<1>18. none \in BOOLEAN /\ (none => A = <<>>)
  <2>1. none => Len(A) = 0
    BY <1>14, <1>17, Products
  <2> QED
    BY <1>15, <1>17, <2>1, EmptyIs
<1>19. PICK p : p = IF none THEN <<>> ELSE <<RoleSegment("system", system, A)>>
  OBVIOUS
<1>0. PICK never : never = FALSE
  OBVIOUS
<1>20. PICK q : q = IF never THEN <<>> ELSE <<RoleSegment("user", Len(user), C)>>
  OBVIOUS
<1>21. p \in Seq(Segments(Tokens(H))) /\ TokensOf(p) = A /\ WholeSegments(p)
  <2>1. "system" \in {"system", "user", "assistant"}
    OBVIOUS
  <2> QED
    BY <1>6, <1>14, <1>15, <1>18, <1>19, <2>1, PartOfPrompt
<1>22. q \in Seq(Segments(Tokens(H))) /\ TokensOf(q) = C /\ (n = 0 => WholeSegments(q))
  <2>1. "user" \in {"system", "user", "assistant"} /\ never \in BOOLEAN /\ (never => C = <<>>)
    BY <1>0
  <2>2. q \in Seq(Segments(Tokens(H))) /\ TokensOf(q) = C /\ (Len(C) = Len(user) * BlockSize => WholeSegments(q))
    <3>1. Len(user) \in Nat /\ C \in Seq(Tokens(H))
      BY <1>14, <1>16
    <3> QED
      BY <1>20, <2>1, <3>1, PartOfPrompt
  <2> QED
    BY <1>15, <1>16, <2>2
<1>23. PICK s : s = InitTurn0(turn, prefix, seed)
  OBVIOUS
<1>24. s = p \o q
  <2>1. s = (IF system = 0 THEN <<>> ELSE <<RoleSegment("system", system, A)>>)
             \o <<RoleSegment("user", Len(user), C)>>
    BY <1>1, <1>3, <1>5, <1>7, <1>8, <1>9, <1>10, <1>11, <1>12, <1>23, Zenon DEF InitTurn0
  <2> QED
    BY <1>0, <1>17, <1>19, <1>20, <2>1, Zenon
<1>25. s \in Seq(Segments(Tokens(H)))
  <2>1. p \in Seq(Segments(Tokens(H))) /\ q \in Seq(Segments(Tokens(H)))
    BY <1>21, <1>22
  <2> QED
    BY <1>24, <2>1, JoinIs
<1>26. TokensOf(s) = Blocks(h) \o tail
  <2>1. TokensOf(p \o q) = TokensOf(p) \o TokensOf(q)
    BY <1>21, <1>22, TokensJoined
  <2>2. (A \o B) \o tail = A \o (B \o tail)
    <3>1. A \in Seq(Tokens(H)) /\ B \in Seq(Tokens(H)) /\ tail \in Seq(Tokens(H))
      BY <1>13, <1>15
    <3> QED
      BY <3>1, JoinedTwice
  <2> QED
    BY <1>12, <1>14, <1>21, <1>22, <1>24, <2>1, <2>2, Zenon
<1>27. n = 0 => WholeSegments(s)
  BY <1>21, <1>22, <1>24, WholeJoined
<1> QED
  BY <1>1, <1>3, <1>9, <1>23, <1>25, <1>26, <1>27, Zenon DEF HoldsPrompt

\* The next prompt of a conversation whose last prompt filled its blocks.
LEMMA NextPrompt ==
  ASSUME NEW H, NEW prev, GoodTurn(prev, H), NEW turn, GoodTurn(turn, H), TailOf(prev) = 0,
         NEW last, NEW segments, HoldsPrompt(segments, prev, last, H), NEW seed \in Nat
  PROVE  HoldsPrompt(AdvanceTurn(segments, prev, turn, seed), turn, seed, H)
<1>1. PICK g : g = prev.hashes
  OBVIOUS
<1>2. PICK h : h = turn.hashes
  OBVIOUS
<1>3. g \in Seq(H) /\ h \in Seq(H) /\ Len(g) \in Nat /\ Len(h) \in Nat /\ prev.out \in Nat
  BY <1>1, <1>2 DEF GoodTurn
<1>4. PICK n : n = TailOf(turn)
  OBVIOUS
<1>5. n \in Nat
  <2>1. n = turn.in % BlockSize
    BY <1>4, Zenon DEF TailOf
  <2> QED
    BY <2>1, Products DEF GoodTurn
<1>6. PICK k : k = SharedBlocks(prev, turn)
  OBVIOUS
<1>7. k \in Nat /\ k \in 0 .. Len(g) /\ k \in 0 .. Len(h) /\ SubSeq(g, 1, k) = SubSeq(h, 1, k)
  <2>1. k = Len(LongestCommonPrefix({g, h}))
    BY <1>1, <1>2, <1>6, Zenon DEF SharedBlocks
  <2> QED
    BY <1>3, <2>1, SharedIs
<1>8. PICK first : first = SubSeq(h, 1, k)
  OBVIOUS
<1>9. PICK rest : rest = SubSeq(h, k + 1, Len(h))
  OBVIOUS
<1>10. PICK A : A = Blocks(first)
  OBVIOUS
<1>11. PICK B : B = Blocks(rest)
  OBVIOUS
<1>12. PICK tail : tail = PartialTail(n, seed)
  OBVIOUS
<1>13. PICK tokens : tokens = B \o tail
  OBVIOUS
<1>14. PICK new : new = Len(h) - k
  OBVIOUS
<1>15. new \in Nat
  BY <1>3, <1>7, <1>14
<1>16. tail \in Seq(Tokens(H)) /\ Len(tail) = n /\ (n = 0 => tail = <<>>)
  BY <1>5, <1>12, TailIs
<1>17. /\ first \in Seq(H) /\ rest \in Seq(H) /\ Len(rest) = new
       /\ Blocks(h) = A \o B /\ Len(A) = k * BlockSize
  <2>1. /\ first \in Seq(H) /\ rest \in Seq(H) /\ Len(first) = k /\ Len(rest) = Len(h) - k
        /\ Blocks(h) = Blocks(first) \o Blocks(rest)
        /\ Len(Blocks(first)) = k * BlockSize
    <3>1. h \in Seq(H) /\ k \in 0 .. Len(h)
      BY <1>3, <1>7
    <3> QED
      BY <1>8, <1>9, <3>1, BlocksSplit, SMTT(30)
  <2> QED
    BY <1>10, <1>11, <1>14, <2>1, Zenon
<1>18. A \in Seq(Tokens(H)) /\ B \in Seq(Tokens(H)) /\ Len(B) = new * BlockSize
  <2>1. Len(B) = Len(rest) * BlockSize
    BY <1>11, <1>17, BlockCount
  <2> QED
    BY <1>10, <1>11, <1>17, <2>1, BlocksIn
<1>19. tokens \in Seq(Tokens(H)) /\ Len(tokens) = Len(B) + n /\ Len(B) \in Nat /\ Len(tokens) \in Nat
  <2>1. B \in Seq(Tokens(H)) /\ tail \in Seq(Tokens(H))
    BY <1>16, <1>18
  <2>2. tokens \in Seq(Tokens(H)) /\ Len(tokens) = Len(B) + Len(tail) /\ Len(B) \in Nat
    BY <1>13, <2>1, JoinIs
  <2> QED
    BY <1>5, <1>16, <2>2
<1>20. PICK kept : kept = Truncated(segments, k, TailOf(prev))
  OBVIOUS
<1>21. kept \in Seq(Segments(Tokens(H))) /\ WholeSegments(kept) /\ TokensOf(kept) = A
  <2>1. PICK G0 : G0 = Blocks(g)
    OBVIOUS
  <2>2. G0 \in Seq(Tokens(H)) /\ Len(G0) = Len(g) * BlockSize
    BY <1>3, <2>1, BlocksIn, BlockCount
  <2>3. TokensOf(segments) = G0
    <3>1. TokensOf(segments) = G0 \o PartialTail(0, last)
      BY <1>1, <2>1, Zenon DEF HoldsPrompt
    <3>2. PartialTail(0, last) = <<>>
      BY DEF PartialTail
    <3> QED
      BY <2>2, <3>1, <3>2, JoinedWithNone
  <2>4. segments \in Seq(Segments(Tokens(H))) /\ WholeSegments(segments)
    BY Zenon DEF HoldsPrompt
  <2>5. k * BlockSize <= Len(TokensOf(segments))
    <3>1. k \in Int /\ Len(g) \in Int /\ k <= Len(g)
      BY <1>3, <1>7
    <3>2. k * BlockSize <= Len(g) * BlockSize
      BY <3>1, Products
    <3> QED
      BY <2>2, <2>3, <3>2, Zenon
  <2>6. kept = Truncated(segments, k, 0)
    BY <1>20, Zenon
  <2>7. /\ kept \in Seq(Segments(Tokens(H))) /\ WholeSegments(kept)
        /\ TokensOf(kept) = SubSeq(TokensOf(segments), 1, k * BlockSize)
    BY <1>7, <2>4, <2>5, <2>6, KeptTokens
  <2>8. SubSeq(G0, 1, k * BlockSize) = Blocks(SubSeq(g, 1, k))
    BY <1>3, <1>7, <2>1, BlocksSplit
  <2> QED
    BY <1>7, <1>8, <1>10, <2>3, <2>7, <2>8, Zenon
<1>22. PICK assistant : assistant = IF BlocksFor(prev.out) < new THEN BlocksFor(prev.out) ELSE new
  OBVIOUS
<1>23. assistant \in Nat /\ assistant <= new
  <2>1. PICK o : o = BlocksFor(prev.out)
    OBVIOUS
  <2>2. o \in Nat
    BY <1>3, <2>1, BlocksForIn
  <2>3. assistant = IF o < new THEN o ELSE new
    BY <1>22, <2>1, Zenon
  <2> QED
    BY <1>15, <2>2, <2>3
<1>24. PICK cut : cut = assistant * BlockSize
  OBVIOUS
<1>25. PICK left : left = new - assistant
  OBVIOUS
<1>26. left \in Nat /\ cut \in Nat /\ cut + left * BlockSize = Len(B) /\ left * BlockSize \in Nat
  <2>1. left \in Nat
    BY <1>15, <1>23, <1>25
  <2>2. assistant \in Int /\ left \in Int /\ new = assistant + left
    BY <1>15, <1>23, <1>25
  <2>3. (assistant + left) * BlockSize = assistant * BlockSize + left * BlockSize
    BY <2>2, Products
  <2>4. cut + left * BlockSize = Len(B)
    BY <1>18, <1>24, <2>2, <2>3, Zenon
  <2>5. cut \in Nat /\ left * BlockSize \in Nat
    BY <1>23, <1>24, <2>1, Products
  <2> QED
    BY <2>1, <2>4, <2>5
<1>27. PICK asst : asst = SubSeq(tokens, 1, cut)
  OBVIOUS
<1>28. PICK user : user = SubSeq(tokens, cut + 1, Len(tokens))
  OBVIOUS
<1>29. /\ tokens = asst \o user /\ asst \in Seq(Tokens(H)) /\ user \in Seq(Tokens(H))
       /\ Len(asst) = cut /\ Len(user) = Len(tokens) - cut
  <2>1. cut \in 0 .. Len(tokens)
    BY <1>5, <1>19, <1>26
  <2> QED
    <3>1. tokens \in Seq(Tokens(H))
      BY <1>19
    <3>2. /\ tokens = SubSeq(tokens, 1, cut) \o SubSeq(tokens, cut + 1, Len(tokens))
          /\ SubSeq(tokens, 1, cut) \in Seq(Tokens(H)) /\ Len(SubSeq(tokens, 1, cut)) = cut
          /\ SubSeq(tokens, cut + 1, Len(tokens)) \in Seq(Tokens(H))
          /\ Len(SubSeq(tokens, cut + 1, Len(tokens))) = Len(tokens) - cut
      BY <2>1, <3>1, SplitSequence, ZenonT(40)
    <3> QED
      BY <1>27, <1>28, <3>2, Zenon
<1>30. PICK none : none = (assistant = 0)
  OBVIOUS
<1>31. PICK nothing : nothing = (user = <<>>)
  OBVIOUS
<1>32. PICK p : p = IF none THEN <<>> ELSE <<RoleSegment("assistant", assistant, asst)>>
  OBVIOUS
<1>33. PICK q : q = IF nothing THEN <<>> ELSE <<RoleSegment("user", left, user)>>
  OBVIOUS
<1>34. p \in Seq(Segments(Tokens(H))) /\ TokensOf(p) = asst /\ WholeSegments(p)
  <2>1. "assistant" \in {"system", "user", "assistant"} /\ none \in BOOLEAN
    BY <1>30
  <2>2. none => asst = <<>>
    <3>1. none => Len(asst) = 0
      BY <1>24, <1>29, <1>30, Products
    <3>2. asst \in Seq(Tokens(H))
      BY <1>29
    <3> QED
      BY <3>1, <3>2, EmptyIs
  <2>3. asst \in Seq(Tokens(H)) /\ Len(asst) = assistant * BlockSize /\ assistant \in Nat
    BY <1>23, <1>24, <1>29
  <2> QED
    BY <1>32, <2>1, <2>2, <2>3, PartOfPrompt
<1>35. q \in Seq(Segments(Tokens(H))) /\ TokensOf(q) = user /\ (n = 0 => WholeSegments(q))
  <2>1. "user" \in {"system", "user", "assistant"} /\ nothing \in BOOLEAN /\ (nothing => user = <<>>)
    BY <1>31
  <2>2. user \in Seq(Tokens(H)) /\ left \in Nat
    BY <1>26, <1>29
  <2>3. n = 0 => Len(user) = left * BlockSize
    BY <1>19, <1>26, <1>29
  <2>4. q \in Seq(Segments(Tokens(H))) /\ TokensOf(q) = user /\ (Len(user) = left * BlockSize => WholeSegments(q))
    BY <1>33, <2>1, <2>2, PartOfPrompt
  <2> QED
    BY <2>3, <2>4, Zenon
<1>36. PICK s : s = AdvanceTurn(segments, prev, turn, seed)
  OBVIOUS
<1>37. PICK kp : kp = kept \o p
  OBVIOUS
<1>38. s = kp \o q
  <2>1. s = kept \o (IF assistant = 0 THEN <<>> ELSE <<RoleSegment("assistant", assistant, asst)>>)
             \o (IF user = <<>> THEN <<>> ELSE <<RoleSegment("user", left, user)>>)
    BY <1>2, <1>4, <1>6, <1>9, <1>11, <1>12, <1>13, <1>14, <1>20, <1>22, <1>24, <1>25, <1>27, <1>28, <1>36, Zenon
       DEF AdvanceTurn
  <2> QED
    BY <1>30, <1>31, <1>32, <1>33, <1>37, <2>1, Zenon
<1>39. kp \in Seq(Segments(Tokens(H))) /\ TokensOf(kp) = A \o asst /\ WholeSegments(kp)
  <2>1. kept \in Seq(Segments(Tokens(H))) /\ p \in Seq(Segments(Tokens(H)))
    BY <1>21, <1>34
  <2>2. kp \in Seq(Segments(Tokens(H)))
    BY <1>37, <2>1, JoinIs
  <2>3. TokensOf(kept \o p) = TokensOf(kept) \o TokensOf(p)
    BY <2>1, TokensJoined
  <2>4. WholeSegments(kept \o p)
    BY <1>21, <1>34, <2>1, WholeJoined
  <2> QED
    BY <1>21, <1>34, <1>37, <2>2, <2>3, <2>4, Zenon
<1>40. s \in Seq(Segments(Tokens(H)))
  <2>1. kp \in Seq(Segments(Tokens(H))) /\ q \in Seq(Segments(Tokens(H)))
    BY <1>35, <1>39
  <2> QED
    BY <1>38, <2>1, JoinIs
<1>41. TokensOf(s) = Blocks(h) \o tail
  <2>1. kp \in Seq(Segments(Tokens(H))) /\ q \in Seq(Segments(Tokens(H)))
    BY <1>35, <1>39
  <2>2. TokensOf(kp \o q) = TokensOf(kp) \o TokensOf(q)
    BY <2>1, TokensJoined
  <2>3. A \in Seq(Tokens(H)) /\ asst \in Seq(Tokens(H)) /\ user \in Seq(Tokens(H))
        /\ B \in Seq(Tokens(H)) /\ tail \in Seq(Tokens(H))
    BY <1>16, <1>18, <1>29
  <2>4. (A \o asst) \o user = A \o (asst \o user)
    <3>1. A \in Seq(Tokens(H)) /\ asst \in Seq(Tokens(H)) /\ user \in Seq(Tokens(H))
      BY <2>3
    <3> QED
      BY <3>1, JoinedTwice
  <2>5. (A \o B) \o tail = A \o (B \o tail)
    <3>1. A \in Seq(Tokens(H)) /\ B \in Seq(Tokens(H)) /\ tail \in Seq(Tokens(H))
      BY <2>3
    <3> QED
      BY <3>1, JoinedTwice
  <2> QED
    BY <1>13, <1>17, <1>29, <1>35, <1>38, <1>39, <2>2, <2>4, <2>5, Zenon
<1>42. n = 0 => WholeSegments(s)
  <2>1. kp \in Seq(Segments(Tokens(H))) /\ q \in Seq(Segments(Tokens(H))) /\ WholeSegments(kp)
    BY <1>35, <1>39
  <2> QED
    BY <1>35, <1>38, <2>1, WholeJoined
<1> QED
  BY <1>2, <1>4, <1>12, <1>36, <1>40, <1>41, <1>42, Zenon DEF HoldsPrompt

(***************************************************************************)
(* Conversations                                                           *)
(***************************************************************************)
\* The prompts of a conversation, as the recursion defines them.
PromptSteps(f, turns, prefix) ==
  f = [k \in 1 .. Len(turns) |->
         IF k = 1 THEN InitTurn0(turns[1], prefix, 1)
         ELSE AdvanceTurn(f[k - 1], turns[k - 1], turns[k], k)]

LEMMA PromptsIs ==
  ASSUME NEW turns, NEW prefix
  PROVE  Prompts(turns, prefix) = CHOOSE f : PromptSteps(f, turns, prefix)
  BY Zenon DEF Prompts, PromptSteps

LEMMA PromptsExist ==
  ASSUME NEW turns, Len(turns) \in Nat, NEW prefix
  PROVE  \E f : PromptSteps(f, turns, prefix)
<1> DEFINE Step(f, k)  == IF k = 1 THEN InitTurn0(turns[1], prefix, 1)
                          ELSE AdvanceTurn(f[k - 1], turns[k - 1], turns[k], k)
           Upto(f, m)  == f = [k \in 1 .. m |-> Step(f, k)]
           Defined     == {m \in Nat : \E f : Upto(f, m)}
<1>1. 0 \in Defined
  <2>1. <<>> = [k \in 1 .. 0 |-> Step(<<>>, k)]
    <3> HIDE DEF Step
    <3> QED
      OBVIOUS
  <2>2. \E f : Upto(f, 0)
    BY <2>1, Zenon
  <2> HIDE DEF Upto
  <2> QED
    BY <2>2
<1>2. ASSUME NEW m \in Nat, m \in Defined PROVE m + 1 \in Defined
  <2>1. PICK f : Upto(f, m)
    BY <1>2
  <2> DEFINE g == [k \in 1 .. m + 1 |-> IF k = m + 1 THEN Step(f, m + 1) ELSE f[k]]
  <2>2. ASSUME NEW k \in 1 .. m + 1 PROVE g[k] = Step(g, k)
    <3>1. k - 1 \in 1 .. m => k - 1 \in 1 .. m + 1 /\ k - 1 # m + 1
      OBVIOUS
    <3>2. k # 1 => k - 1 \in 1 .. m
      OBVIOUS
    <3>3. k # 1 => g[k - 1] = f[k - 1]
      BY <3>1, <3>2, Zenon
    <3>4. Step(g, k) = Step(f, k)
      <4>1. CASE k = 1
        BY <4>1, Zenon
      <4>2. CASE k # 1
        <5>1. g[k - 1] = f[k - 1]
          BY <3>3, <4>2
        <5> HIDE DEF g
        <5> QED
          BY <4>2, <5>1, Zenon
      <4> QED
        BY <4>1, <4>2
    <3> HIDE DEF Step
    <3>5. CASE k = m + 1
      BY <3>4, <3>5
    <3>6. CASE k # m + 1
      <4>1. k \in 1 .. m
        BY <3>6
      <4>2. f[k] = Step(f, k)
        BY <2>1, <4>1
      <4> QED
        BY <3>4, <3>6, <4>2
    <3> QED
      BY <3>5, <3>6
  <2>3. Upto(g, m + 1)
    <3>1. g = [k \in 1 .. m + 1 |-> g[k]]
      <4> HIDE DEF Step
      <4> QED
        OBVIOUS
    <3> HIDE DEF g, Step
    <3> QED
      BY <2>2, <3>1
  <2> HIDE DEF Upto, g
  <2> QED
    BY <2>3
<1>3. \A m \in Nat : m \in Defined
  <2> HIDE DEF Defined
  <2> QED
    BY <1>1, <1>2, NatSetInduction
<1>4. PICK f : Upto(f, Len(turns))
  <2> HIDE DEF Upto
  <2> QED
    BY <1>3
<1> QED
  BY <1>4, Zenon DEF PromptSteps

GoodTurns(turns, H) == Len(turns) \in Nat /\ \A k \in 1 .. Len(turns) : GoodTurn(turns[k], H)

\* The prompts of a conversation in whole blocks hit and miss in the cache what the recorded ones did.
LEMMA PromptsAreAligned ==
  ASSUME NEW H, NEW turns, GoodTurns(turns, H), NEW prefix \in Nat
  PROVE  WholeBlocksAreAligned(turns, Prompts(turns, prefix))
<1> SUFFICES ASSUME WholeBlocks(turns) PROVE EveryBlockIsAligned(turns, Prompts(turns, prefix))
  BY Zenon DEF WholeBlocksAreAligned
<1>1. PICK f : f = Prompts(turns, prefix)
  OBVIOUS
<1>2. PICK n : n = Len(turns)
  OBVIOUS
<1>3. n \in Nat /\ \A k \in 1 .. n : GoodTurn(turns[k], H)
  BY <1>2, Zenon DEF GoodTurns
<1>4. \A k \in 1 .. n : f[k] = IF k = 1 THEN InitTurn0(turns[1], prefix, 1)
                              ELSE AdvanceTurn(f[k - 1], turns[k - 1], turns[k], k)
  <2>1. \E g : PromptSteps(g, turns, prefix)
    BY <1>2, <1>3, PromptsExist
  <2>2. PromptSteps(f, turns, prefix)
    BY <1>1, <2>1, PromptsIs, Zenon
  <2> QED
    BY <1>2, <2>2, Zenon DEF PromptSteps
<1>5. \A k \in 1 .. n - 1 : TailOf(turns[k]) = 0
  BY <1>2, Zenon DEF WholeBlocks
<1> DEFINE Good == {k \in Nat : k + 1 <= n => HoldsPrompt(f[k + 1], turns[k + 1], k + 1, H)}
<1>6. 0 \in Good
  <2> SUFFICES ASSUME 1 <= n PROVE HoldsPrompt(f[1], turns[1], 1, H)
    OBVIOUS
  <2>1. 1 \in 1 .. n /\ 1 \in Nat
    BY <1>3
  <2>2. f[1] = InitTurn0(turns[1], prefix, 1) /\ GoodTurn(turns[1], H)
    BY <1>3, <1>4, <2>1, Zenon
  <2> QED
    BY <2>1, <2>2, FirstPrompt
<1>7. ASSUME NEW k \in Nat, k \in Good PROVE k + 1 \in Good
  <2>1. PICK j : j = k + 1
    OBVIOUS
  <2>2. PICK i : i = k + 2
    OBVIOUS
  <2>3. i = j + 1 /\ i - 1 = j /\ j \in Nat /\ i \in Nat /\ i # 1
    BY <2>1, <2>2
  <2>4. ASSUME i <= n PROVE HoldsPrompt(f[i], turns[i], i, H)
    <3>1. i \in 1 .. n /\ j \in 1 .. n /\ j \in 1 .. n - 1
      BY <1>3, <2>1, <2>2, <2>4
    <3>2. HoldsPrompt(f[j], turns[j], j, H)
      BY <1>3, <1>7, <2>1, <3>1
    <3>3. f[i] = AdvanceTurn(f[j], turns[j], turns[i], i)
      BY <1>4, <2>3, <3>1, Zenon
    <3>4. GoodTurn(turns[j], H) /\ GoodTurn(turns[i], H) /\ TailOf(turns[j]) = 0
      BY <1>3, <1>5, <3>1
    <3> QED
      BY <2>3, <3>2, <3>3, <3>4, NextPrompt
  <2>5. (k + 1) + 1 = i
    BY <2>2
  <2> QED
    BY <2>4, <2>5
<1>8. \A k \in Nat : k \in Good
  <2> HIDE DEF Good
  <2> QED
    BY <1>6, <1>7, NatSetInduction
<1>9. ASSUME NEW k \in 1 .. n
      PROVE  TokensOf(f[k]) = Blocks(turns[k].hashes) \o PartialTail(TailOf(turns[k]), k)
  <2>1. HoldsPrompt(f[k], turns[k], k, H)
    <3>1. k - 1 \in Nat /\ (k - 1) + 1 = k /\ k <= n
      BY <1>3
    <3> QED
      BY <1>8, <3>1
  <2> QED
    BY <2>1, Zenon DEF HoldsPrompt
<1> QED
  BY <1>1, <1>2, <1>9, Zenon DEF EveryBlockIsAligned

(***************************************************************************)
(* What the runs check of Weka traces, for inputs of every size            *)
(***************************************************************************)
\* What the runs make of a Weka trace, without their bounds: conversations of any turns,
\* requests in the order of their starts, any ascending starts and cap, and plain messages.
AnyWekaTrace ==
  /\ case.alg = "conversation" =>
       /\ \E H : GoodTurns(case.made.turns, H)
       /\ \E prefix \in Nat : case.made.prompts = Prompts(case.made.turns, prefix)
  /\ case.alg = "streams" =>
       /\ InTimeOrder(case.made.requests)
       /\ case.made.streams = PackIntoStreams(case.made.requests)
  /\ case.alg = "warp" => AscendingStarts(case.made.starts) /\ case.made.cap \in Nat
  /\ case.alg = "search" =>
       /\ PlainMessages(case.made.messages)
       /\ \E said : TextParts(said) /\ case.made.text = TextOf(said)

\* Every Weka trace is rebuilt as it was measured: prompts in whole blocks are made of the
\* blocks that were hashed, whatever a turn takes back; the streams of a sub-agent are as few
\* as its requests overlap; the idle-gap cap keeps the order of calls and shortens no gap
\* below it; and the fast search for predecessors finds what the general one finds.
THEOREM WekaTracesAreFaithful == ASSUME AnyWekaTrace PROVE WekaIsFaithful
<1>1. ASSUME case.alg = "conversation" PROVE WholeBlocksAreAligned(case.made.turns, case.made.prompts)
  <2>1. PICK turns : turns = case.made.turns
    OBVIOUS
  <2>2. PICK H : GoodTurns(turns, H)
    BY <1>1, <2>1, Zenon DEF AnyWekaTrace
  <2>3. PICK prefix \in Nat : case.made.prompts = Prompts(turns, prefix)
    BY <1>1, <2>1, Zenon DEF AnyWekaTrace
  <2>4. WholeBlocksAreAligned(turns, Prompts(turns, prefix))
    BY <2>2, PromptsAreAligned
  <2> QED
    BY <2>1, <2>3, <2>4, Zenon
<1>2. ASSUME case.alg = "streams" PROVE StreamsAreFewest(case.made.requests, case.made.streams)
  <2>1. PICK requests : requests = case.made.requests
    OBVIOUS
  <2>2. InTimeOrder(requests) /\ case.made.streams = PackIntoStreams(requests)
    BY <1>2, <2>1, Zenon DEF AnyWekaTrace
  <2>3. StreamsAreFewest(requests, PackIntoStreams(requests))
    BY <2>2, StreamsAreFew
  <2> QED
    BY <2>1, <2>2, <2>3, Zenon
<1>3. ASSUME case.alg = "warp" PROVE WarpKeepsOrder(case.made.starts, case.made.cap, 0 .. 12)
  <2>1. PICK starts : starts = case.made.starts
    OBVIOUS
  <2>2. PICK cap : cap = case.made.cap
    OBVIOUS
  <2>3. PICK times : times = 0 .. 12
    OBVIOUS
  <2>4. AscendingStarts(starts) /\ cap \in Nat /\ times \subseteq Int
    BY <1>3, <2>1, <2>2, <2>3 DEF AnyWekaTrace
  <2>5. WarpKeepsOrder(starts, cap, times)
    BY <2>4, WarpIsOrderly
  <2> QED
    BY <2>1, <2>2, <2>3, <2>5, Zenon
<1>4. ASSUME case.alg = "search" PROVE FastSearchAgrees(case.made.text, case.made.messages)
  <2>1. PICK messages : messages = case.made.messages
    OBVIOUS
  <2>2. PICK said : TextParts(said) /\ case.made.text = TextOf(said)
    BY <1>4, Zenon DEF AnyWekaTrace
  <2>3. PlainMessages(messages)
    BY <1>4, <2>1, Zenon DEF AnyWekaTrace
  <2>4. Texts(TextOf(said), messages)
    BY <2>2, <2>3, PlainTexts
  <2>5. FastSearchAgrees(TextOf(said), messages)
    BY <2>4, SearchesAgree
  <2> QED
    BY <2>1, <2>2, <2>5, Zenon
<1> QED
  BY <1>1, <1>2, <1>3, <1>4 DEF WekaIsFaithful, On

\* Each Weka trace of the runs is one of those: the theorem above is about all of them.
LEMMA WekaCasesAreWekaTraces ==
  ASSUME ConversationCase \/ StreamCase \/ WarpCase \/ SearchCase
  PROVE  AnyWekaTrace'
<1>1. CASE ConversationCase
  <2>1. PICK turns \in Conversations, prefix \in {0, 3} :
          case' = [alg |-> "conversation", made |-> [turns |-> turns, prompts |-> Prompts(turns, prefix)]]
    BY <1>1 DEF ConversationCase, Make
  <2>2. PICK prompts : prompts = Prompts(turns, prefix)
    OBVIOUS
  <2>3. GoodTurns(turns, Nat)
    <3>1. ASSUME NEW hashes \in SUBSET Seq(Nat), NEW outs \in SUBSET Nat, NEW turn \in Turns(hashes, outs)
          PROVE  GoodTurn(turn, Nat)
      <4>1. PICK h \in hashes, tail \in {0, 1}, out \in outs :
              turn = [hashes |-> h, in |-> BlockSize * Len(h) + tail, out |-> out]
        BY <3>1 DEF Turns
      <4>2. h \in Seq(Nat) /\ Len(h) \in Nat /\ BlockSize \in Nat
        BY BlockSizeAssumption
      <4>3. \A a, b \in Nat : a * b \in Nat
        OBVIOUS
      <4>4. BlockSize * Len(h) + tail \in Nat
        BY <4>2, <4>3
      <4> QED
        BY <4>1, <4>2, <4>4 DEF GoodTurn
    <3>2. /\ {<<1, 2>>} \in SUBSET Seq(Nat)
          /\ {<<1>>, <<1, 2>>, <<1, 2, 3>>, <<1, 3, 4>>, <<1, 2, 3, 4>>} \in SUBSET Seq(Nat)
          /\ {<<1, 2>>, <<1, 2, 3>>, <<1, 3, 5>>, <<1, 2, 3, 4>>, <<1, 2, 3, 5>>, <<2>>, <<1, 2, 3, 4, 5>>}
                \in SUBSET Seq(Nat)
          /\ {0, 3} \in SUBSET Nat /\ {0} \in SUBSET Nat
      OBVIOUS
    <3>3. \E a, b, c : turns = <<a, b, c>> /\ GoodTurn(a, Nat) /\ GoodTurn(b, Nat) /\ GoodTurn(c, Nat)
      <4>1. PICK a \in Turns({<<1, 2>>}, {0, 3}),
                 b \in Turns({<<1>>, <<1, 2>>, <<1, 2, 3>>, <<1, 3, 4>>, <<1, 2, 3, 4>>}, {0, 3}),
                 c \in Turns({<<1, 2>>, <<1, 2, 3>>, <<1, 3, 5>>, <<1, 2, 3, 4>>, <<1, 2, 3, 5>>, <<2>>,
                              <<1, 2, 3, 4, 5>>}, {0}) : turns = <<a, b, c>>
        BY <2>1 DEF Conversations
      <4>2. GoodTurn(a, Nat) /\ GoodTurn(b, Nat) /\ GoodTurn(c, Nat)
        BY <3>1, <3>2, Zenon
      <4> QED
        BY <4>1, <4>2
    <3> QED
      BY <3>3 DEF GoodTurns
  <2>4. /\ case'.alg = "conversation" /\ case'.made.turns = turns /\ case'.made.prompts = prompts
        /\ prefix \in Nat
    BY <2>1, <2>2
  <2> QED
    BY <2>2, <2>3, <2>4 DEF AnyWekaTrace
<1>2. CASE StreamCase
  <2>1. PICK t \in [1 .. 4 -> 0 .. 3], time \in [1 .. 4 -> 0 .. 2] :
          LET requests == [r \in 1 .. 4 |-> [t |-> t[r], time |-> time[r]]]
          IN  /\ \A r \in 1 .. 3 : t[r] <= t[r + 1]
              /\ case' = [alg |-> "streams", made |-> [requests |-> requests, streams |-> PackIntoStreams(requests)]]
    BY <1>2 DEF StreamCase, Make
  <2>2. PICK requests : requests = [r \in 1 .. 4 |-> [t |-> t[r], time |-> time[r]]]
    OBVIOUS
  <2>3. InTimeOrder(requests)
    <3>1. t[1] <= t[2] /\ t[2] <= t[3] /\ t[3] <= t[4]
      BY <2>1
    <3> QED
      BY <2>1, <2>2, <3>1 DEF InTimeOrder
  <2>4. PICK streams : streams = PackIntoStreams(requests)
    OBVIOUS
  <2>5. case' = [alg |-> "streams", made |-> [requests |-> requests, streams |-> streams]]
    BY <2>1, <2>2, <2>4
  <2> QED
    BY <2>3, <2>4, <2>5 DEF AnyWekaTrace
<1>3. CASE WarpCase
  <2>1. PICK a \in {0, 1}, gap \in [1 .. 3 -> {0, 1, 2, 4}], cap \in 1 .. 3 :
          case' = [alg |-> "warp", made |->
                     [starts |-> <<a, a + gap[1], a + gap[1] + gap[2], a + gap[1] + gap[2] + gap[3]>>, cap |-> cap]]
    BY <1>3 DEF WarpCase, Make
  <2>2. PICK starts : starts = <<a, a + gap[1], a + gap[1] + gap[2], a + gap[1] + gap[2] + gap[3]>>
    OBVIOUS
  <2>3. AscendingStarts(starts)
    <3>1. gap[1] \in Nat /\ gap[2] \in Nat /\ gap[3] \in Nat /\ a \in Nat
      BY <2>1
    <3>2. /\ Len(starts) = 4
          /\ starts[1] = a /\ starts[2] = a + gap[1] /\ starts[3] = a + gap[1] + gap[2]
          /\ starts[4] = a + gap[1] + gap[2] + gap[3]
      BY <2>2
    <3>3. \A k \in 1 .. 4 : k = 1 \/ k = 2 \/ k = 3 \/ k = 4
      OBVIOUS
    <3>4. \A k \in 1 .. 4 : starts[k] \in Int
      BY <3>1, <3>2, <3>3
    <3>5. \A k, l \in 1 .. 4 : k <= l => starts[k] <= starts[l]
      BY <3>1, <3>2, <3>3
    <3> QED
      BY <3>2, <3>4, <3>5 DEF AscendingStarts
  <2>4. case' = [alg |-> "warp", made |-> [starts |-> starts, cap |-> cap]] /\ cap \in Nat
    BY <2>1, <2>2
  <2> QED
    BY <2>3, <2>4 DEF AnyWekaTrace
<1>4. CASE SearchCase
  <2>1. PICK text \in Sayings \cup {<<"x", "y", "x">>}, role \in [1 .. 3 -> {"user", "assistant"}], said \in [1 .. 3 -> Sayings] :
          case' = [alg |-> "search", made |->
                     [text |-> TextOf([k \in 1 .. Len(text) |-> TextPart(text[k])]),
                      messages |-> [k \in 1 .. 3 |-> WekaPlain(role[k], said[k])]]]
    BY <1>4 DEF SearchCase, Make
  <2>2. \A s \in Sayings \cup {<<"x", "y", "x">>} : TextParts([k \in 1 .. Len(s) |-> TextPart(s[k])])
    BY DEF Sayings, TextParts, IsText, TextPart, Part
  <2>3. PICK parts : parts = [k \in 1 .. Len(text) |-> TextPart(text[k])]
    OBVIOUS
  <2>4. TextParts(parts)
    BY <2>2, <2>3
  <2>5. PICK messages : messages = [k \in 1 .. 3 |-> WekaPlain(role[k], said[k])]
    OBVIOUS
  <2>6. PlainMessages(messages)
    <3>1. \A r, s : WekaPlain(r, s).shape = "plain"
                    /\ WekaPlain(r, s).parts = [k \in 1 .. Len(s) |-> TextPart(s[k])]
      BY DEF WekaPlain
    <3>2. ASSUME NEW k \in 1 .. 3 PROVE messages[k].shape = "plain" /\ TextParts(messages[k].parts)
      <4>1. messages[k] = WekaPlain(role[k], said[k]) /\ said[k] \in Sayings
        BY <2>1, <2>5
      <4>2. TextParts([m \in 1 .. Len(said[k]) |-> TextPart(said[k][m])])
        BY <2>2, <4>1
      <4> QED
        BY <3>1, <4>1, <4>2
    <3>3. Len(messages) = 3
      BY <2>5
    <3> QED
      BY <3>2, <3>3 DEF PlainMessages
  <2>7. PICK joined : joined = TextOf(parts)
    OBVIOUS
  <2>8. case' = [alg |-> "search", made |-> [text |-> joined, messages |-> messages]]
    BY <2>1, <2>3, <2>5, <2>7
  <2> QED
    BY <2>4, <2>6, <2>7, <2>8 DEF AnyWekaTrace
<1> QED
  BY <1>1, <1>2, <1>3, <1>4

(***************************************************************************)
(* Prompts, users and workers of synthetic turns                           *)
(***************************************************************************)
LEMMA ProductIsNat == ASSUME NEW a \in Nat, NEW b \in Nat PROVE a * b \in Nat
  OBVIOUS

LEMMA ProductIsPositive == ASSUME NEW a \in Nat \ {0}, NEW b \in Nat \ {0} PROVE a * b \in Nat \ {0}
  OBVIOUS

LEMMA RemainderIn == ASSUME NEW a \in Nat, NEW b \in Nat \ {0} PROVE a % b \in 0 .. b - 1
  OBVIOUS

LEMMA Division ==
  ASSUME NEW i \in Nat, NEW m \in Nat \ {0}
  PROVE  \E q \in Nat, r \in Nat : i = q * m + r /\ r < m /\ r = i % m /\ q = i \div m
<1>1. i \div m \in Nat /\ i % m \in Nat /\ i % m < m
  OBVIOUS
<1>2. i % m = i - m * (i \div m)
  OBVIOUS
<1>3. PICK q \in Nat : q = i \div m
  BY <1>1
<1>4. PICK r \in Nat : r = i % m
  BY <1>1
<1>5. PICK p \in Nat : p = m * q
  OBVIOUS
<1>6. r = i - p
  BY <1>2, <1>3, <1>4, <1>5
<1>7. i = p + r
  BY <1>6
<1>8. p = q * m
  BY <1>5
<1> QED
  BY <1>1, <1>3, <1>4, <1>7, <1>8

\* A number is divided in one way.
LEMMA DivisionIsOne ==
  ASSUME NEW q \in Nat, NEW m \in Nat \ {0}, NEW r \in Nat, r < m
  PROVE  (q * m + r) % m = r /\ (q * m + r) \div m = q
<1>1. PICK i \in Nat : i = q * m + r
  BY ProductIsNat
<1>2. PICK p \in Nat, s \in Nat : i = p * m + s /\ s < m /\ s = i % m /\ p = i \div m
  BY Division
<1>3. q <= p
  <2>1. ASSUME p + 1 <= q PROVE FALSE
    <3>1. (p + 1) * m <= q * m
      BY <2>1
    <3>2. (p + 1) * m = p * m + m
      OBVIOUS
    <3>3. PICK a \in Nat : a = p * m
      OBVIOUS
    <3>4. PICK b \in Nat : b = q * m
      OBVIOUS
    <3> QED
      BY <1>1, <1>2, <3>1, <3>2, <3>3, <3>4
  <2> QED
    BY <2>1
<1>4. p <= q
  <2>1. ASSUME q + 1 <= p PROVE FALSE
    <3>1. (q + 1) * m <= p * m
      BY <2>1
    <3>2. (q + 1) * m = q * m + m
      OBVIOUS
    <3>3. PICK a \in Nat : a = p * m
      OBVIOUS
    <3>4. PICK b \in Nat : b = q * m
      OBVIOUS
    <3> QED
      BY <1>1, <1>2, <3>1, <3>2, <3>3, <3>4
  <2> QED
    BY <2>1
<1>5. p = q
  BY <1>3, <1>4
<1>6. PICK b \in Nat : b = q * m
  OBVIOUS
<1>7. s = r
  BY <1>1, <1>2, <1>5, <1>6
<1> QED
  BY <1>1, <1>2, <1>5, <1>7

\* The remainders by a number and by a multiple of it.
LEMMA RemainderOfRemainder ==
  ASSUME NEW i \in Nat, NEW a \in Nat \ {0}, NEW b \in Nat \ {0}
  PROVE  (i % (a * b)) % a = i % a
<1>1. PICK m \in Nat \ {0} : m = a * b
  BY ProductIsPositive
<1>2. PICK q \in Nat, r \in Nat : i = q * m + r /\ r = i % m
  BY Division
<1>3. PICK p \in Nat, s \in Nat : r = p * a + s /\ s < a /\ s = r % a
  BY Division
<1>4. PICK x \in Nat : x = q * b
  OBVIOUS
<1>5. q * m = x * a
  <2>1. q * (a * b) = (q * b) * a
    OBVIOUS
  <2> QED
    BY <1>1, <1>4, <2>1
<1>6. (x + p) * a = x * a + p * a
  OBVIOUS
<1>7. i = (x + p) * a + s
  <2>1. PICK y \in Nat : y = x * a
    OBVIOUS
  <2>2. PICK z \in Nat : z = p * a
    OBVIOUS
  <2>3. r = z + s /\ i = y + r
    BY <1>2, <1>3, <1>5, <2>1, <2>2
  <2>4. i = (y + z) + s
    BY <2>3
  <2> QED
    BY <1>6, <2>1, <2>2, <2>4
<1>8. i % a = s
  <2>1. PICK w \in Nat : w = x + p
    OBVIOUS
  <2>2. (w * a + s) % a = s
    BY <1>3, DivisionIsOne
  <2> QED
    BY <1>7, <2>1, <2>2
<1> QED
  BY <1>1, <1>2, <1>3, <1>8

\* A prompt, its prefix, output, images and session belong together in every request, however
\* many groups and prompts there are and however the lists are shuffled
\* (shared_prefix_datagen.py).
THEOREM PromptsBelong ==
  ASSUME NEW groups \in Nat \ {0}, NEW prompts \in Nat \ {0},
         NEW order \in [1 .. groups * prompts -> 1 .. groups * prompts], NEW n \in Nat
  PROVE  PromptsBelongTogether(groups, prompts, order, n)
<1> DEFINE N == groups * prompts
<1>1. N \in Nat \ {0}
  BY ProductIsPositive
<1>2. PICK all : all = Generated(groups, prompts)
  OBVIOUS
<1>3. DOMAIN all = 1 .. N
  BY <1>2 DEF Generated
<1>4. PICK lists : lists = Lists(groups, prompts, order)
  OBVIOUS
<1>5. /\ lists.prompts = [k \in 1 .. N |-> all[order[k]]]
      /\ lists.outputs = [k \in 1 .. N |-> all[order[k]]]
      /\ lists.sessions = [k \in 1 .. N |-> all[order[k]]]
      /\ lists.prefixes = [k \in 1 .. N |-> all[order[k]].group]
      /\ lists.groups = [k \in 1 .. N |-> all[order[k]].group]
  <2>1. Shuffled(all, order) = [k \in 1 .. N |-> all[order[k]]]
    BY <1>3 DEF Shuffled
  <2>2. Shuffled([k \in DOMAIN all |-> all[k].group], order) = [k \in 1 .. N |-> all[order[k]].group]
    BY <1>3 DEF Shuffled
  <2> QED
    BY <1>2, <1>4, <2>1, <2>2, Zenon DEF Lists, ShuffledSessions
<1> HIDE DEF N
<1>6. ASSUME NEW i \in 0 .. n - 1, NEW registered \in BOOLEAN
      PROVE  LET turn == SharedTurn(lists, i, registered) IN
             /\ turn.session = turn.question /\ turn.output = turn.question
             /\ turn.prefix = turn.question.group /\ turn.image = turn.question.group
  <2>1. PICK k : k = (i % N) + 1
    OBVIOUS
  <2>2. k \in 1 .. N
    BY <1>1, <2>1
  <2>3. Len(lists.prompts) = N /\ Len(lists.sessions) = N
    BY <1>1, <1>5
  <2>4. PICK x : x = all[order[k]]
    OBVIOUS
  <2>5. /\ lists.prompts[k] = x /\ lists.outputs[k] = x /\ lists.sessions[k] = x
        /\ lists.prefixes[k] = x.group /\ lists.groups[k] = x.group
    BY <1>5, <2>2, <2>4
  <2> QED
    BY <2>1, <2>3, <2>5 DEF SharedTurn
<1> QED
  BY <1>4, <1>6, Zenon DEF PromptsBelongTogether

\* All turns of a user go to one worker that is running, for any workers and concurrency
\* (LoadGenerator.run_stage).
THEOREM UsersStay ==
  ASSUME NEW groups \in Nat \ {0}, NEW prompts \in Nat \ {0}, NEW workers \in Nat \ {0},
         NEW level, level # <<>> => level[1] \in Nat, NEW n \in Nat
  PROVE  UsersStayTogether(groups, prompts, workers, level, n)
<1>1. PICK active : active = ActiveWorkers(workers, level, groups)
  OBVIOUS
<1>2. active \in 1 .. workers
  BY <1>1 DEF ActiveWorkers, LeastOf
<1>3. PICK users : users = groups * prompts
  OBVIOUS
<1>4. ASSUME NEW i \in 0 .. n - 1 PROVE WorkerOf(groups, active, i) \in 0 .. workers - 1
  <2>1. i % groups \in Nat
    OBVIOUS
  <2>2. \A k \in Nat : k % active \in 0 .. active - 1
    BY <1>2
  <2>3. (i % groups) % active \in 0 .. active - 1
    BY <2>1, <2>2
  <2> QED
    BY <1>2, <2>3 DEF WorkerOf, Preferred
<1>5. ASSUME NEW i \in 0 .. n - 1, NEW j \in 0 .. n - 1, i % users = j % users
      PROVE  WorkerOf(groups, active, i) = WorkerOf(groups, active, j)
  <2>1. i % groups = j % groups
    <3>1. i \in Nat /\ j \in Nat
      OBVIOUS
    <3>2. (i % users) % groups = i % groups /\ (j % users) % groups = j % groups
      BY <1>3, <3>1, RemainderOfRemainder
    <3> QED
      BY <1>5, <3>2
  <2> QED
    BY <2>1 DEF WorkerOf, Preferred
<1> QED
  BY <1>1, <1>3, <1>4, <1>5, Zenon DEF UsersStayTogether

LEMMA OutputsFit ==
  ASSUME NEW dist, dist.min \in Int, dist.mean \in Int, dist.max \in Int, NEW maxModelLen \in Int
  PROVE  OutputsLeaveRoom(dist, maxModelLen)
BY DEF OutputsLeaveRoom, LengthAccepted, Ceiling, Samples, Buffer

(***************************************************************************)
(* Prompts of stages, and texts of an exact length                         *)
(***************************************************************************)
LEMMA ElementIn == ASSUME NEW S, NEW s \in Seq(S), NEW k \in 1 .. Len(s) PROVE s[k] \in S
  OBVIOUS

LEMMA AppendIs ==
  ASSUME NEW S, NEW seq \in Seq(S), NEW e \in S
  PROVE  /\ Append(seq, e) \in Seq(S) /\ Len(Append(seq, e)) = Len(seq) + 1 /\ Append(seq, e)[Len(seq) + 1] = e
         /\ \A k \in 1 .. Len(seq) : Append(seq, e)[k] = seq[k]
<1>1. Append(seq, e) \in Seq(S)
  OBVIOUS
<1>2. Len(Append(seq, e)) = Len(seq) + 1
  OBVIOUS
<1>3. Append(seq, e)[Len(seq) + 1] = e
  OBVIOUS
<1>4. \A k \in 1 .. Len(seq) : Append(seq, e)[k] = seq[k]
  OBVIOUS
<1> QED
  BY <1>1, <1>2, <1>3, <1>4

\* h is the function by which the fold goes over the stages.
Primes(h, stages) ==
  h = [T \in SUBSET DOMAIN stages |->
         IF T = {} THEN [cached |-> <<>>, used |-> <<>>]
         ELSE [cached |-> StagePrompt(h[T \ {Max(T)}].cached, stages[Max(T)]),
               used |-> Append(h[T \ {Max(T)}].used, StagePrompt(h[T \ {Max(T)}].cached, stages[Max(T)]))]]

LEMMA PromptsAreOfTheirStage ==
  ASSUME NEW S, NEW stages \in Seq(S)
  PROVE  StagesShareAPrompt(stages)
<1>1. PICK n \in Nat : n = Len(stages) /\ DOMAIN stages = 1 .. n
  OBVIOUS
<1> DEFINE V    == [cached : Seq(S), used : Seq(Seq(S))]
           base == [cached |-> <<>>, used |-> <<>>]
           step == [p \in (1 .. n) \X V |->
                      [cached |-> StagePrompt(p[2].cached, stages[p[1]]),
                       used |-> Append(p[2].used, StagePrompt(p[2].cached, stages[p[1]]))]]
           h == CHOOSE h : Primes(h, stages)
<1>2. base \in V
  OBVIOUS
<1>3. \A cached, s : StagePrompt(cached, s) = <<s>>
  BY DEF StagePrompt
<1>4. ASSUME NEW k \in 1 .. n, NEW v \in V
      PROVE  /\ step[<<k, v>>] = [cached |-> <<stages[k]>>, used |-> Append(v.used, <<stages[k]>>)]
             /\ step[<<k, v>>] \in V
  <2>1. <<k, v>> \in (1 .. n) \X V /\ <<k, v>>[1] = k /\ <<k, v>>[2] = v
    OBVIOUS
  <2>2. step[<<k, v>>] = [cached |-> <<stages[k]>>, used |-> Append(v.used, <<stages[k]>>)]
    BY <1>3, <2>1, Zenon
  <2>3. stages[k] \in S /\ v.used \in Seq(Seq(S))
    BY <1>1
  <2>4. <<stages[k]>> \in Seq(S)
    BY <2>3
  <2> HIDE DEF step
  <2>5. Append(v.used, <<stages[k]>>) \in Seq(Seq(S))
    BY <2>3, <2>4
  <2> QED
    BY <2>2, <2>4, <2>5
<1>5. step \in [(1 .. n) \X V -> V]
  <2>1. step = [p \in (1 .. n) \X V |-> step[p]]
    BY Zenon
  <2>2. \A p \in (1 .. n) \X V : step[p] \in V
    <3> HIDE DEF step, V
    <3>1. \A p \in (1 .. n) \X V : \E k \in 1 .. n, v \in V : p = <<k, v>>
      OBVIOUS
    <3> QED
      BY <1>4, <3>1
  <2> HIDE DEF step, V
  <2> QED
    BY <2>1, <2>2, Zenon
<1>6. PromptsOf(stages) = h[DOMAIN stages].used
  BY Zenon DEF PromptsOf, FoldLeft, MapThenFoldSet, Primes, Max
<1>7. \A T \in SUBSET (1 .. n) : T # {} => Max(T) \in 1 .. n
  BY ExtremesOfPart
<1>8. \E g : Primes(g, stages)
  <2>1. PICK g \in [SUBSET (1 .. n) -> V] : StepsUp(g, n, V, base, step)
    <3> HIDE DEF V, base, step
    <3> QED
      BY <1>1, <1>2, <1>5, FoldSteps
  <2>2. ASSUME NEW T \in SUBSET (1 .. n)
        PROVE  g[T] = IF T = {} THEN base
                      ELSE [cached |-> StagePrompt(g[T \ {Max(T)}].cached, stages[Max(T)]),
                            used |-> Append(g[T \ {Max(T)}].used, StagePrompt(g[T \ {Max(T)}].cached, stages[Max(T)]))]
    <3> HIDE DEF V, base, step
    <3>1. g[T \ {Max(T)}] \in V
      BY <2>1
    <3>2. T # {} => g[T] = step[<<Max(T), g[T \ {Max(T)}]>>]
      BY <2>1, <3>1, Zenon DEF StepsUp
    <3>3. T = {} => g[T] = base
      BY <2>1, Zenon DEF StepsUp
    <3> QED
      BY <1>3, <1>4, <1>7, <3>1, <3>2, <3>3, Zenon
  <2>3. g = [T \in SUBSET (1 .. n) |-> g[T]]
    BY <2>1, Zenon
  <2> QED
    BY <1>1, <2>2, <2>3, Zenon DEF Primes
<1>9. Primes(h, stages)
  BY <1>8, Zenon
<1> HIDE DEF h
<1>10. StepsUp(h, n, V, base, step)
  <2> SUFFICES ASSUME NEW T \in SUBSET (1 .. n)
               PROVE  /\ T = {} => h[T] = base
                      /\ T # {} /\ h[T \ {Max(T)}] \in V => h[T] = step[<<Max(T), h[T \ {Max(T)}]>>]
    BY Zenon DEF StepsUp
  <2>1. h[T] = IF T = {} THEN base
               ELSE [cached |-> StagePrompt(h[T \ {Max(T)}].cached, stages[Max(T)]),
                     used |-> Append(h[T \ {Max(T)}].used, StagePrompt(h[T \ {Max(T)}].cached, stages[Max(T)]))]
    BY <1>1, <1>9, Zenon DEF Primes
  <2> HIDE DEF V, base, step
  <2> QED
    BY <1>3, <1>4, <1>7, <2>1, Zenon
<1> HIDE DEF V, base, step
<1>11. PICK r \in [0 .. n -> V] : Runs(r, n, base, step) /\ RunsAlong(h, r, n)
  BY <1>2, <1>5, <1>10, FoldRuns, Zenon
<1>12. PromptsOf(stages) = r[n].used
  BY <1>1, <1>6, <1>11 DEF RunsAlong
<1> DEFINE Right == {m \in Nat : m <= n => Len(r[m].used) = m /\ \A k \in 1 .. m : r[m].used[k] = <<stages[k]>>}
<1>13. 0 \in Right
  BY <1>11 DEF Runs, base
<1>14. ASSUME NEW m \in Nat, m \in Right PROVE m + 1 \in Right
  <2> SUFFICES ASSUME m + 1 <= n
               PROVE  Len(r[m + 1].used) = m + 1 /\ \A k \in 1 .. m + 1 : r[m + 1].used[k] = <<stages[k]>>
    OBVIOUS
  <2>1. m + 1 \in 1 .. n /\ (m + 1) - 1 = m /\ m \in 0 .. n
    OBVIOUS
  <2>2. r[m] \in V /\ r[m + 1] = step[<<m + 1, r[m]>>]
    BY <1>11, <2>1 DEF Runs
  <2>3. r[m + 1].used = Append(r[m].used, <<stages[m + 1]>>)
    <3>1. step[<<m + 1, r[m]>>] = [cached |-> <<stages[m + 1]>>, used |-> Append(r[m].used, <<stages[m + 1]>>)]
      BY <1>4, <2>1, <2>2, Zenon
    <3> QED
      BY <2>2, <3>1
  <2>4. PICK used \in Seq(Seq(S)) : used = r[m].used
    BY <2>2 DEF V
  <2>5. Len(used) = m /\ \A k \in 1 .. m : used[k] = <<stages[k]>>
    BY <1>14, <2>1, <2>4
  <2>6. stages[m + 1] \in S
    BY <1>1, <2>1
  <2>7. <<stages[m + 1]>> \in Seq(S)
    BY <2>6
  <2>8. PICK last \in Seq(S) : last = <<stages[m + 1]>>
    BY <2>7
  <2>9. PICK all : all = Append(used, last)
    OBVIOUS
  <2>10. Len(all) = m + 1 /\ all[m + 1] = last /\ \A k \in 1 .. m : all[k] = used[k]
    BY <2>4, <2>5, <2>8, <2>9, AppendIs
  <2> QED
    BY <2>3, <2>4, <2>5, <2>8, <2>9, <2>10
<1>15. \A m \in Nat : m \in Right
  <2> HIDE DEF Right
  <2> QED
    BY <1>13, <1>14, NatSetInduction
<1>16. \A k \in 1 .. n : r[n].used[k] = <<stages[k]>>
  BY <1>1, <1>15
<1> QED
  BY <1>1, <1>12, <1>16 DEF StagesShareAPrompt
(***************************************************************************)
(* Texts of an exact length                                                *)
(***************************************************************************)
\* The tries with one more, unless the last has the length.
Tried(tried, target, count, suffix) ==
  IF count[tried[Len(tried)]] = target THEN tried
  ELSE Append(tried, NextTry(tried[Len(tried)], count[tried[Len(tried)]], target, suffix))

\* h is the function by which the fold goes over the tries.
TriesFolds(h, n, target, count, suffix) ==
  h = [T \in SUBSET (1 .. n) |-> IF T = {} THEN <<target>> ELSE Tried(h[T \ {Max(T)}], target, count, suffix)]

TriesStays(V, n, target, count, suffix) == <<target>> \in V /\ \A k \in 1 .. n, v \in V : Tried(v, target, count, suffix) \in V
TriesGoes(r, n, target, count, suffix) ==
  r[0] = <<target>> /\ r[n] = Tries(target, count, suffix) /\ \A k \in 1 .. n : r[k] = Tried(r[k - 1], target, count, suffix)

LEMMA TriesRun ==
  ASSUME NEW n \in Nat, NEW V, NEW target, NEW count, NEW suffix, n = Attempts - 1,
         TriesStays(V, n, target, count, suffix)
  PROVE  \E r \in [0 .. n -> V] : TriesGoes(r, n, target, count, suffix)
<1> DEFINE step == [p \in (1 .. n) \X V |-> Tried(p[2], target, count, suffix)]
           h == CHOOSE h : TriesFolds(h, n, target, count, suffix)
<1>1. \A k \in 1 .. n, v \in V : step[<<k, v>>] = Tried(v, target, count, suffix)
  OBVIOUS
<1>2. <<target>> \in V /\ step \in [(1 .. n) \X V -> V]
  BY DEF TriesStays
<1>3. Tries(target, count, suffix) = h[1 .. n]
  BY Zenon DEF Tries, FoldLeft, MapThenFoldSet, Max, Tried, TriesFolds
<1>4. \A T \in SUBSET (1 .. n) : T # {} => Max(T) \in 1 .. n
  BY ExtremesOfPart
<1> HIDE DEF step
<1>5. \E g : TriesFolds(g, n, target, count, suffix)
  <2>1. PICK g \in [SUBSET (1 .. n) -> V] : StepsUp(g, n, V, <<target>>, step)
    BY <1>2, FoldSteps
  <2>2. ASSUME NEW T \in SUBSET (1 .. n)
        PROVE  g[T] = IF T = {} THEN <<target>> ELSE Tried(g[T \ {Max(T)}], target, count, suffix)
    <3>1. g[T \ {Max(T)}] \in V
      BY <2>1
    <3>2. T # {} => g[T] = step[<<Max(T), g[T \ {Max(T)}]>>]
      BY <2>1, <3>1, Zenon DEF StepsUp
    <3>3. T = {} => g[T] = <<target>>
      BY <2>1, Zenon DEF StepsUp
    <3> QED
      BY <1>1, <1>4, <3>1, <3>2, <3>3, Zenon
  <2>3. g = [T \in SUBSET (1 .. n) |-> g[T]]
    BY <2>1, Zenon
  <2> QED
    BY <2>2, <2>3, Zenon DEF TriesFolds
<1>6. TriesFolds(h, n, target, count, suffix)
  BY <1>5, Zenon
<1> HIDE DEF h
<1>7. StepsUp(h, n, V, <<target>>, step)
  <2> SUFFICES ASSUME NEW T \in SUBSET (1 .. n)
               PROVE  /\ T = {} => h[T] = <<target>>
                      /\ T # {} /\ h[T \ {Max(T)}] \in V => h[T] = step[<<Max(T), h[T \ {Max(T)}]>>]
    BY Zenon DEF StepsUp
  <2>1. h[T] = IF T = {} THEN <<target>> ELSE Tried(h[T \ {Max(T)}], target, count, suffix)
    BY <1>6, Zenon DEF TriesFolds
  <2> QED
    BY <1>1, <1>4, <2>1, Zenon
<1>8. PICK r \in [0 .. n -> V] : Runs(r, n, <<target>>, step) /\ RunsAlong(h, r, n)
  BY <1>2, <1>7, FoldRuns, Zenon
<1>9. r[n] = h[1 .. n]
  BY <1>8 DEF RunsAlong
<1>10. ASSUME NEW k \in 1 .. n PROVE r[k] = Tried(r[k - 1], target, count, suffix)
  <2>1. r[k - 1] \in V /\ r[k] = step[<<k, r[k - 1]>>]
    BY <1>8 DEF Runs
  <2> QED
    BY <1>1, <2>1
<1>11. r[0] = <<target>>
  BY <1>8 DEF Runs
<1> QED
  BY <1>3, <1>8, <1>9, <1>10, <1>11 DEF TriesGoes

LEMMA SuffixIsNotEmpty ==
  ASSUME NEW m \in Nat, m >= 1, NEW length \in Nat, NEW target \in Int
  PROVE  AdjustedSuffix(m, length, target) \in Nat /\ AdjustedSuffix(m, length, target) >= 1
BY DEF AdjustedSuffix, LeastOf

\* Tries which all have a token.
NoneEmpty == {s \in Seq(Nat) : Len(s) >= 1 /\ \A k \in 1 .. Len(s) : s[k] >= 1}

LEMMA NoneEmptyAnd ==
  ASSUME NEW s \in NoneEmpty, NEW next \in Nat, next >= 1
  PROVE  Append(s, next) \in NoneEmpty
<1>1. s \in Seq(Nat) /\ Len(s) \in Nat /\ Len(s) >= 1 /\ \A k \in 1 .. Len(s) : s[k] >= 1
  BY DEF NoneEmpty
<1>2. PICK all : all = Append(s, next)
  OBVIOUS
<1>3. PICK l \in Nat : l = Len(s)
  BY <1>1
<1>4. all \in Seq(Nat) /\ Len(all) = l + 1 /\ all[l + 1] = next /\ \A k \in 1 .. l : all[k] = s[k]
  BY <1>1, <1>2, <1>3, AppendIs
<1>5. \A k \in 1 .. l + 1 : k \in 1 .. l \/ k = l + 1
  OBVIOUS
<1>6. \A k \in 1 .. l + 1 : all[k] >= 1
  BY <1>1, <1>3, <1>4, <1>5, Zenon
<1>7. l + 1 >= 1
  OBVIOUS
<1> QED
  BY <1>2, <1>4, <1>6, <1>7, Zenon DEF NoneEmpty

\* Whatever the tokenizer counts in a text.
LEMMA SuffixesStart ==
  ASSUME NEW target \in Int, NEW count \in [Nat -> Nat]
  PROVE  SuffixesKeepTheirStart(target, count)
<1>1. PICK suffix : suffix = TRUE
  OBVIOUS
<1> SUFFICES ASSUME target > 0
             PROVE  \A k \in DOMAIN Tries(target, count, TRUE) : Tries(target, count, TRUE)[k] >= 1
  BY Zenon DEF SuffixesKeepTheirStart
<1>2. PICK n \in Nat : n = Attempts - 1
  BY DEF Attempts
<1>3. <<target>> \in NoneEmpty
  BY DEF NoneEmpty
<1>4. ASSUME NEW s \in NoneEmpty PROVE Tried(s, target, count, suffix) \in NoneEmpty
  <2>1. PICK m \in Nat : m = s[Len(s)] /\ m >= 1
    <3>1. s \in Seq(Nat) /\ Len(s) \in Nat /\ Len(s) >= 1 /\ \A k \in 1 .. Len(s) : s[k] >= 1
      BY DEF NoneEmpty
    <3>2. Len(s) \in 1 .. Len(s)
      BY <3>1
    <3>3. s[Len(s)] \in Nat
      BY <3>1, <3>2, ElementIn
    <3> QED
      BY <3>1, <3>2, <3>3, Zenon
  <2>2. PICK length \in Nat : length = count[m]
    OBVIOUS
  <2>3. NextTry(m, length, target, suffix) = AdjustedSuffix(m, length, target)
    BY <1>1, Zenon DEF NextTry
  <2>4. PICK next \in Nat : next = AdjustedSuffix(m, length, target) /\ next >= 1
    BY <2>1, SuffixIsNotEmpty
  <2>5. Tried(s, target, count, suffix) = IF length = target THEN s ELSE Append(s, next)
    BY <2>1, <2>2, <2>3, <2>4, Zenon DEF Tried
  <2>6. Append(s, next) \in NoneEmpty
    BY <2>4, NoneEmptyAnd
  <2> QED
    BY <2>5, <2>6
<1>5. TriesStays(NoneEmpty, n, target, count, suffix)
  BY <1>3, <1>4, Zenon DEF TriesStays
<1>6. PICK r \in [0 .. n -> NoneEmpty] : TriesGoes(r, n, target, count, suffix)
  BY <1>2, <1>5, TriesRun, Zenon
<1>7. PICK tries \in NoneEmpty : tries = Tries(target, count, TRUE)
  <2>1. n \in 0 .. n
    OBVIOUS
  <2> QED
    BY <1>1, <1>6, <2>1 DEF TriesGoes
<1>8. \A k \in DOMAIN tries : tries[k] >= 1
  <2>1. tries \in Seq(Nat) /\ \A k \in 1 .. Len(tries) : tries[k] >= 1
    BY Zenon DEF NoneEmpty
  <2>2. DOMAIN tries = 1 .. Len(tries)
    BY <2>1
  <2> QED
    BY <2>1, <2>2
<1> QED
  BY <1>7, <1>8

\* A template adds its own tokens to any text.
LEMMA TemplatesCount ==
  ASSUME NEW overhead \in Nat, NEW S, NEW lengths \in [S -> Int]
  PROVE  TemplatesAreCounted(lengths, overhead)
<1> SUFFICES ASSUME NEW i \in S, lengths[i] > overhead
             PROVE  RandomPrompt(lengths, overhead, i).tokens = <<lengths[i] - overhead>>
  BY DEF TemplatesAreCounted, TemplateFits
<1>1. PICK target \in Nat : target = lengths[i] /\ target > overhead
  OBVIOUS
<1>2. PICK count : count = [m \in 0 .. 2 * target |-> m + overhead]
  OBVIOUS
<1> DEFINE first == <<target>>
           last  == IF overhead = 0 THEN first ELSE Append(first, target - overhead)
           V     == {first, last}
<1>3. last \in Seq(Int) /\ last[Len(last)] = target - overhead
  <2>1. PICK shorter \in Int : shorter = target - overhead
    OBVIOUS
  <2>2. <<target>> \in Seq(Int) /\ Len(<<target>>) = 1 /\ <<target>>[1] = target
    OBVIOUS
  <2>3. PICK one \in Seq(Int) : one = first /\ Len(one) = 1 /\ one[1] = target
    BY <2>2, Zenon
  <2>4. PICK two : two = Append(one, shorter)
    OBVIOUS
  <2>5. two \in Seq(Int) /\ Len(two) = Len(one) + 1 /\ two[Len(one) + 1] = shorter
    BY <2>4, AppendIs, Zenon
  <2>6. two \in Seq(Int) /\ Len(two) = 2 /\ two[2] = shorter
    BY <2>3, <2>5
  <2> HIDE DEF first
  <2>7. last = IF overhead = 0 THEN one ELSE two
    BY <2>1, <2>3, <2>4, Zenon
  <2> HIDE DEF last
  <2>8. overhead = 0 => shorter = target
    BY <2>1
  <2> QED
    BY <2>1, <2>3, <2>6, <2>7, <2>8, Zenon
<1>4. count[target] = target + overhead /\ count[target - overhead] = target
  BY <1>1, <1>2
<1>5. PICK suffix : suffix = FALSE
  OBVIOUS
<1>6. Tried(first, target, count, suffix) = last
  <2>1. Tried(first, target, count, suffix) =
          IF target + overhead = target THEN first ELSE Append(first, NextTry(target, target + overhead, target, suffix))
    BY <1>4 DEF Tried
  <2>2. overhead # 0 => NextTry(target, target + overhead, target, suffix) = target - overhead
    BY <1>1, <1>5 DEF NextTry, Adjusted
  <2>3. target + overhead = target <=> overhead = 0
    OBVIOUS
  <2> QED
    BY <2>1, <2>2, <2>3, Zenon
<1>7. Tried(last, target, count, suffix) = last
  <2> HIDE DEF last
  <2> QED
    BY <1>3, <1>4, Zenon DEF Tried
<1>8. PICK n \in Nat : n = Attempts - 1 /\ n >= 1
  BY DEF Attempts
<1>9. TriesStays(V, n, target, count, suffix)
  <2>1. <<target>> \in V
    OBVIOUS
  <2> HIDE DEF first, last
  <2> QED
    BY <1>6, <1>7, <2>1 DEF TriesStays
<1> HIDE DEF first, last
<1>10. PICK r \in [0 .. n -> V] : TriesGoes(r, n, target, count, suffix)
  <2> HIDE DEF V
  <2> QED
    BY <1>8, <1>9, TriesRun, Zenon
<1>11. Tries(target, count, FALSE) = last
  <2>1. n \in 1 .. n /\ n - 1 \in 0 .. n
    BY <1>8
  <2>2. r[n - 1] = first \/ r[n - 1] = last
    BY <2>1
  <2>3. r[n] = Tried(r[n - 1], target, count, suffix) /\ r[n] = Tries(target, count, FALSE)
    BY <1>5, <1>10, <2>1, Zenon DEF TriesGoes
  <2> QED
    BY <1>6, <1>7, <2>2, <2>3, Zenon
<1>12. Converged(target, count, FALSE) = <<target - overhead>>
  <2>1. ~(target <= 0)
    BY <1>1
  <2> QED
    BY <1>3, <1>4, <1>11, <2>1, Zenon DEF Converged, Last
<1> QED
  BY <1>1, <1>2, <1>12 DEF RandomPrompt

(***************************************************************************)
(* Sweeps                                                                  *)
(***************************************************************************)
LEMMA SaturationsAreServed ==
  ASSUME NEW S, NEW samples \in Seq(S), NEW end,
         \A k, l \in DOMAIN samples : k < l => samples[k].at < samples[l].at
  PROVE  SaturationIsServed(samples, end)
<1> SUFFICES ASSUME Saturations(samples, end) # TooFew, NEW rate \in Saturations(samples, end)[1]
             PROVE  \E k, l \in DOMAIN samples : /\ samples[k].at < samples[l].at /\ samples[l].at < end
                                                 /\ rate = Time(samples[k].active - samples[l].active, samples[l].at - samples[k].at)
  BY Zenon DEF SaturationIsServed
<1>1. PICK kept \in SUBSET DOMAIN samples : kept = InTime(samples, end)
  BY DEF InTime
<1>2. PICK rates : rates = {EndRate(samples, p) : p \in Falls(samples, kept)}
  OBVIOUS
<1>3. Saturations(samples, end) = <<rates>>
  BY <1>1, <1>2, Zenon DEF Saturations
<1>4. rate \in rates
  BY <1>3
<1>5. PICK p \in Falls(samples, kept) : rate = EndRate(samples, p)
  BY <1>2, <1>4, Zenon
<1>6. p \in kept \X kept /\ p[1] < p[2]
  BY <1>5, Zenon DEF Falls
<1>7. p[1] \in kept /\ p[2] \in kept
  BY <1>6
<1>8. samples[p[2]].at < end /\ p[1] \in DOMAIN samples /\ p[2] \in DOMAIN samples
  BY <1>1, <1>7 DEF InTime
<1>9. samples[p[1]].at < samples[p[2]].at
  BY <1>6, <1>8, Zenon
<1> QED
  BY <1>5, <1>8, <1>9, Zenon DEF EndRate

LEMMA ProductsKeepOrder ==
  ASSUME NEW a \in Int, NEW b \in Int, NEW c \in Nat, a <= b
  PROVE  a * c <= b * c
  OBVIOUS

\* A linear series, or one that mirrors a falling one.
LEMMA SweepsReach ==
  ASSUME NEW target \in Nat \ {0}, NEW size \in Nat \ {0}, NEW falling,
         falling = <<>> \/ /\ falling \in [1 .. size -> 1 .. target] /\ falling[1] = target /\ (size > 1 => falling[size] = 1)
                           /\ \A k \in 1 .. size - 1 : falling[k] >= falling[k + 1]
  PROVE  SweepReachesSaturation(target, size, falling)
<1>1. PICK rates : rates = GenerateRates(target, size, falling)
  OBVIOUS
<1> SUFFICES /\ rates[1].num = rates[1].den
             /\ size > 1 => Last(rates).num = target * Last(rates).den
             /\ \A k \in 1 .. Len(rates) - 1 : NotAfter(rates[k], rates[k + 1])
  BY <1>1, Zenon DEF SweepReachesSaturation
<1>2. CASE falling = <<>>
  <2>1. rates = [k \in 1 .. size |-> IF size = 1 THEN Time(1, 1)
                                     ELSE Time((size - 1) + (target - 1) * (k - 1), size - 1)]
    BY <1>1, <1>2, Zenon DEF GenerateRates, LinearRates
  <2>2. Len(rates) = size
    BY <2>1
  <2>3. CASE size = 1
    BY <2>1, <2>2, <2>3 DEF Time
  <2>4. CASE size # 1
    <3>1. PICK d \in Nat \ {0} : d = size - 1
      BY <2>4
    <3>2. PICK e \in Nat : e = target - 1
      OBVIOUS
    <3>3. \A k \in 1 .. size : rates[k].num = d + e * (k - 1) /\ rates[k].den = d
      BY <2>1, <2>4, <3>1, <3>2 DEF Time
    <3>4. rates[1].num = rates[1].den
      BY <3>3
    <3>5. rates[size].num = target * rates[size].den
      <4>1. d + e * d = (e + 1) * d
        OBVIOUS
      <4>2. size \in 1 .. size /\ size - 1 = d /\ target = e + 1
        BY <3>1, <3>2
      <4>3. rates[size].num = d + e * d /\ rates[size].den = d
        BY <3>3, <4>2, Zenon
      <4> QED
        BY <4>1, <4>2, <4>3, Zenon
    <3>6. ASSUME NEW k \in 1 .. size - 1 PROVE NotAfter(rates[k], rates[k + 1])
      <4>1. e * (k - 1) <= e * k
        OBVIOUS
      <4>2. rates[k].num = d + e * (k - 1) /\ rates[k + 1].num = d + e * k /\ rates[k].den = d /\ rates[k + 1].den = d
        BY <3>3
      <4>3. PICK x \in Int : x = d + e * (k - 1)
        OBVIOUS
      <4>4. PICK y \in Int : y = d + e * k
        OBVIOUS
      <4>5. x <= y
        BY <4>1, <4>3, <4>4
      <4>6. x * d <= y * d
        BY <4>5, ProductsKeepOrder
      <4>7. ~(y * d < x * d)
        BY <4>6
      <4> QED
        BY <4>2, <4>3, <4>4, <4>7, Zenon DEF NotAfter, Before
    <3> QED
      BY <2>2, <3>4, <3>5, <3>6, Zenon DEF Last
  <2> QED
    BY <2>3, <2>4
<1>3. CASE falling # <<>>
  <2>1. rates = [k \in 1 .. size |-> Time(1 + target - falling[k], 1)]
    BY <1>1, <1>3, Zenon DEF GenerateRates, MirroredRates
  <2>2. Len(rates) = size
    BY <2>1
  <2>3. \A k \in 1 .. size : rates[k].num = 1 + target - falling[k] /\ rates[k].den = 1 /\ falling[k] \in Int
    BY <1>3, <2>1 DEF Time
  <2>4. rates[1].num = rates[1].den
    BY <1>3, <2>3
  <2>5. size > 1 => rates[size].num = target * rates[size].den
    <3>1. size \in 1 .. size /\ 1 + target - 1 = target /\ target * 1 = target
      OBVIOUS
    <3> QED
      BY <1>3, <2>3, <3>1, Zenon
  <2>6. ASSUME NEW k \in 1 .. size - 1 PROVE NotAfter(rates[k], rates[k + 1])
    <3>1. k \in 1 .. size /\ k + 1 \in 1 .. size
      OBVIOUS
    <3>2. PICK f \in Int : f = falling[k] /\ rates[k].num = 1 + target - f
      BY <2>3, <3>1, Zenon
    <3>3. PICK g \in Int : g = falling[k + 1] /\ rates[k + 1].num = 1 + target - g
      BY <2>3, <3>1, Zenon
    <3>4. f >= g
      BY <1>3, <3>2, <3>3
    <3>5. ~((1 + target - g) * 1 < (1 + target - f) * 1)
      BY <3>4
    <3>6. rates[k].den = 1 /\ rates[k + 1].den = 1
      BY <2>3, <3>1, Zenon
    <3> QED
      BY <3>2, <3>3, <3>5, <3>6, Zenon DEF NotAfter, Before
  <2> QED
    BY <2>2, <2>4, <2>5, <2>6, Zenon DEF Last
<1> QED
  BY <1>2, <1>3

(***************************************************************************)
(* Sums of the first members of a sequence                                 *)
(***************************************************************************)
\* h is the function by which a fold adds the members of a sequence.
SumFolds(h, n, s) ==
  h = [T \in SUBSET (1 .. n) |-> IF T = {} THEN 0 ELSE h[T \ {Max(T)}] + s[Max(T)]]

SumStays(V, n, s) == 0 \in V /\ \A k \in 1 .. n, v \in V : v + s[k] \in V
SumGoes(r, n, s) ==
  r[0] = 0 /\ r[n] = Sum(s) /\ \A k \in 1 .. n : r[k] = r[k - 1] + s[k]

LEMMA SumRun ==
  ASSUME NEW n \in Nat, NEW V, NEW s, n = Len(s), DOMAIN s = 1 .. n,
         SumStays(V, n, s)
  PROVE  \E r \in [0 .. n -> V] : SumGoes(r, n, s)
<1> DEFINE step == [p \in (1 .. n) \X V |-> p[2] + s[p[1]]]
           h == CHOOSE h : SumFolds(h, n, s)
<1>1. \A k \in 1 .. n, v \in V : step[<<k, v>>] = v + s[k]
  OBVIOUS
<1>2. 0 \in V /\ step \in [(1 .. n) \X V -> V]
  BY DEF SumStays
<1>3. Sum(s) = h[1 .. n]
  BY Zenon DEF Sum, FoldLeft, MapThenFoldSet, Max, SumFolds
<1>4. \A T \in SUBSET (1 .. n) : T # {} => Max(T) \in 1 .. n
  BY ExtremesOfPart
<1> HIDE DEF step
<1>5. \E g : SumFolds(g, n, s)
  <2>1. PICK g \in [SUBSET (1 .. n) -> V] : StepsUp(g, n, V, 0, step)
    BY <1>2, FoldSteps
  <2>2. ASSUME NEW T \in SUBSET (1 .. n)
        PROVE  g[T] = IF T = {} THEN 0 ELSE g[T \ {Max(T)}] + s[Max(T)]
    <3>1. g[T \ {Max(T)}] \in V
      BY <2>1
    <3>2. T # {} => g[T] = step[<<Max(T), g[T \ {Max(T)}]>>]
      BY <2>1, <3>1, Zenon DEF StepsUp
    <3>3. T = {} => g[T] = 0
      BY <2>1, Zenon DEF StepsUp
    <3> QED
      BY <1>1, <1>4, <3>1, <3>2, <3>3, Zenon
  <2>3. g = [T \in SUBSET (1 .. n) |-> g[T]]
    BY <2>1, Zenon
  <2> QED
    BY <2>2, <2>3, Zenon DEF SumFolds
<1>6. SumFolds(h, n, s)
  BY <1>5, Zenon
<1> HIDE DEF h
<1>7. StepsUp(h, n, V, 0, step)
  <2> SUFFICES ASSUME NEW T \in SUBSET (1 .. n)
               PROVE  /\ T = {} => h[T] = 0
                      /\ T # {} /\ h[T \ {Max(T)}] \in V => h[T] = step[<<Max(T), h[T \ {Max(T)}]>>]
    BY Zenon DEF StepsUp
  <2>1. h[T] = IF T = {} THEN 0 ELSE h[T \ {Max(T)}] + s[Max(T)]
    BY <1>6, Zenon DEF SumFolds
  <2> QED
    BY <1>1, <1>4, <2>1, Zenon
<1>8. PICK r \in [0 .. n -> V] : Runs(r, n, 0, step) /\ RunsAlong(h, r, n)
  BY <1>2, <1>7, FoldRuns, Zenon
<1>9. r[n] = h[1 .. n]
  BY <1>8 DEF RunsAlong
<1>10. ASSUME NEW k \in 1 .. n PROVE r[k] = r[k - 1] + s[k]
  <2>1. r[k - 1] \in V /\ r[k] = step[<<k, r[k - 1]>>]
    BY <1>8 DEF Runs
  <2> QED
    BY <1>1, <2>1
<1>11. r[0] = 0
  BY <1>8 DEF Runs
<1> QED
  BY <1>3, <1>8, <1>9, <1>10, <1>11 DEF SumGoes

\* sums[k] is the sum of the first k members.
SumsUp(sums, s) ==
  /\ sums \in [0 .. Len(s) -> Int] /\ sums[0] = 0
  /\ \A k \in 1 .. Len(s) : sums[k] = sums[k - 1] + s[k]
  /\ \A k \in 0 .. Len(s) : Sum(SubSeq(s, 1, k)) = sums[k]

LEMMA SumOfSeq ==
  ASSUME NEW s \in Seq(Int)
  PROVE  \E r \in [0 .. Len(s) -> Int] : SumGoes(r, Len(s), s)
<1>1. Len(s) \in Nat /\ DOMAIN s = 1 .. Len(s)
  OBVIOUS
<1>2. SumStays(Int, Len(s), s)
  <2>1. \A k \in 1 .. Len(s) : s[k] \in Int
    OBVIOUS
  <2> QED
    BY <2>1 DEF SumStays
<1> QED
  BY <1>1, <1>2, SumRun, Zenon

LEMMA PrefixSums ==
  ASSUME NEW s \in Seq(Int)
  PROVE  \E sums : SumsUp(sums, s) /\ Sum(s) = sums[Len(s)]
<1>1. PICK n \in Nat : n = Len(s)
  OBVIOUS
<1>2. PICK r \in [0 .. n -> Int] : SumGoes(r, n, s)
  BY <1>1, SumOfSeq
<1>3. ASSUME NEW k \in 0 .. n PROVE Sum(SubSeq(s, 1, k)) = r[k]
  <2>1. PICK q : q = SubSeq(s, 1, k)
    OBVIOUS
  <2>2. q \in Seq(Int) /\ Len(q) = k /\ \A i \in 1 .. k : q[i] = s[i]
    BY <1>1, <2>1
  <2>3. PICK p \in [0 .. k -> Int] : SumGoes(p, k, q)
    BY <2>2, SumOfSeq
  <2>4. /\ p[0] = 0 /\ r[0] = 0 /\ p[k] = Sum(q)
        /\ \A i \in 1 .. k : p[i] = p[i - 1] + q[i]
        /\ \A i \in 1 .. n : r[i] = r[i - 1] + s[i]
    BY <1>2, <2>3, Zenon DEF SumGoes
  <2> DEFINE Same == {i \in Nat : i <= k => p[i] = r[i]}
  <2>5. 0 \in Same
    BY <2>4
  <2>6. ASSUME NEW i \in Nat, i \in Same PROVE i + 1 \in Same
    <3> SUFFICES ASSUME i + 1 <= k PROVE p[i + 1] = r[i + 1]
      OBVIOUS
    <3>1. PICK j \in Nat : j = i + 1 /\ j \in 1 .. k /\ j \in 1 .. n /\ j - 1 = i /\ p[i] = r[i]
      BY <2>6
    <3>2. p[j] = p[j - 1] + q[j] /\ r[j] = r[j - 1] + s[j] /\ q[j] = s[j]
      BY <2>2, <2>4, <3>1, Zenon
    <3> QED
      BY <3>1, <3>2, Zenon
  <2>7. \A i \in Nat : i \in Same
    <3> HIDE DEF Same
    <3> QED
      BY <2>5, <2>6, NatSetInduction
  <2>8. p[k] = r[k]
    BY <2>7
  <2> QED
    BY <2>1, <2>4, <2>8
<1>4. SumsUp(r, s)
  BY <1>1, <1>2, <1>3, Zenon DEF SumsUp, SumGoes
<1>5. Sum(s) = r[n]
  BY <1>2, Zenon DEF SumGoes
<1> QED
  BY <1>1, <1>4, <1>5

\* Sums of positive numbers grow.
LEMMA SumsGrowUp ==
  ASSUME NEW s \in Seq(Nat \ {0}), NEW sums, SumsUp(sums, s)
  PROVE  /\ \A k \in 0 .. Len(s) : sums[k] \in Nat
         /\ \A k \in 1 .. Len(s) : sums[k - 1] < sums[k] /\ 0 < sums[k] /\ sums[k] <= sums[Len(s)]
<1>1. PICK n \in Nat : n = Len(s)
  OBVIOUS
<1>2. \A k \in 1 .. n : s[k] \in Nat \ {0}
  BY <1>1
<1>3. /\ sums \in [0 .. n -> Int] /\ sums[0] = 0
      /\ \A k \in 1 .. n : sums[k] = sums[k - 1] + s[k]
  BY <1>1, Zenon DEF SumsUp
<1>4. ASSUME NEW k \in 1 .. n PROVE sums[k - 1] < sums[k] /\ sums[k - 1] \in Int /\ sums[k] \in Int
  <2>1. sums[k - 1] \in Int /\ s[k] \in Nat \ {0} /\ sums[k] = sums[k - 1] + s[k]
    BY <1>2, <1>3
  <2> QED
    BY <2>1
<1> DEFINE Grown == {m \in Nat : m <= n => sums[m] >= 0 /\ \A k \in 0 .. m : sums[k] <= sums[m]}
<1>5. 0 \in Grown
  BY <1>3
<1>6. ASSUME NEW m \in Nat, m \in Grown PROVE m + 1 \in Grown
  <2> SUFFICES ASSUME m + 1 <= n
               PROVE  sums[m + 1] >= 0 /\ \A k \in 0 .. m + 1 : sums[k] <= sums[m + 1]
    OBVIOUS
  <2>1. PICK j \in Nat : j = m + 1 /\ j \in 1 .. n /\ j - 1 = m
    OBVIOUS
  <2>2. sums[m] < sums[j] /\ sums[m] \in Int /\ sums[j] \in Int
    BY <1>4, <2>1, Zenon
  <2>3. \A k \in 0 .. n : sums[k] \in Int
    BY <1>3
  <2>4. sums[m] >= 0 /\ \A k \in 0 .. m : sums[k] <= sums[m]
    BY <1>6, <2>1
  <2>5. ASSUME NEW k \in 0 .. j PROVE sums[k] <= sums[j]
    <3>1. CASE k = j
      BY <2>2, <3>1
    <3>2. CASE k # j
      <4>1. k \in 0 .. m /\ k \in 0 .. n
        BY <2>1, <3>2
      <4>2. sums[k] <= sums[m] /\ sums[k] \in Int
        BY <2>3, <2>4, <4>1
      <4> QED
        BY <2>2, <4>2
    <3> QED
      BY <3>1, <3>2
  <2>6. sums[j] >= 0
    BY <2>2, <2>4
  <2> QED
    BY <2>1, <2>5, <2>6, Zenon
<1>7. \A m \in Nat : m \in Grown
  <2> HIDE DEF Grown
  <2> QED
    BY <1>5, <1>6, NatSetInduction
<1>8. \A k \in 0 .. n : sums[k] >= 0 /\ sums[k] <= sums[n] /\ sums[k] \in Int
  <2>1. \A k \in 0 .. n : k \in Nat /\ k <= n
    OBVIOUS
  <2> QED
    BY <1>3, <1>7, <2>1
<1>9. \A k \in 1 .. n : k \in 0 .. n /\ k - 1 \in 0 .. n
  OBVIOUS
<1>10. ASSUME NEW k \in 1 .. n PROVE 0 < sums[k]
  <2>1. sums[k - 1] >= 0 /\ sums[k - 1] < sums[k] /\ sums[k - 1] \in Int /\ sums[k] \in Int
    BY <1>4, <1>8, <1>9, Zenon
  <2> QED
    BY <2>1
<1> QED
  BY <1>1, <1>4, <1>8, <1>9, <1>10

LEMMA ProductsGrow ==
  ASSUME NEW a \in Int, NEW b \in Int, NEW c \in Nat \ {0}
  PROVE  (a < b <=> a * c < b * c) /\ (a <= b <=> a * c <= b * c) /\ (a = b <=> a * c = b * c)
  OBVIOUS

\* The times of requests, and the sums they come from.
LEMMA DueCompares ==
  ASSUME NEW i \in Int, NEW d \in Nat \ {0}, NEW T \in Nat \ {0}, NEW l \in Nat \ {0}, NEW P \in Int, NEW Q \in Int
  PROVE  /\ 0 < P <=> i * (d * T) < (i * T + l * P * d) * d
         /\ P <= T <=> (i * T + l * P * d) * d <= (i + l * d) * (d * T)
         /\ P >= T <=> (i * T + l * P * d) * d >= (i + l * d) * (d * T)
         /\ P < Q <=> (i * T + l * P * d) * (d * T) < (i * T + l * Q * d) * (d * T)
<1>1. PICK Y \in Nat \ {0} : Y = (l * d) * d
  <2>1. PICK y \in Nat \ {0} : y = l * d
    BY ProductIsPositive
  <2> QED
    BY <2>1, ProductIsPositive
<1>2. PICK X \in Int : X = i * (d * T)
  OBVIOUS
<1>3. ASSUME NEW R \in Int PROVE (i * T + l * R * d) * d = X + R * Y
  <2>1. (i * T + l * R * d) * d = i * (d * T) + R * ((l * d) * d)
    OBVIOUS
  <2> QED
    BY <1>1, <1>2, <2>1
<1>4. (i + l * d) * (d * T) = X + T * Y
  <2>1. (i + l * d) * (d * T) = i * (d * T) + T * ((l * d) * d)
    OBVIOUS
  <2> QED
    BY <1>1, <1>2, <2>1
<1>5. PICK p \in Int : p = P * Y
  OBVIOUS
<1>6. PICK q \in Int : q = Q * Y
  OBVIOUS
<1>7. PICK t \in Int : t = T * Y
  OBVIOUS
<1>8. 0 * Y = 0
  OBVIOUS
<1>9. (0 < P <=> 0 < p) /\ (P <= T <=> p <= t) /\ (P >= T <=> p >= t) /\ (P < Q <=> p < q)
  <2>1. P >= T <=> T <= P
    OBVIOUS
  <2>2. p >= t <=> t <= p
    OBVIOUS
  <2>3. 0 < P <=> 0 * Y < P * Y
    BY ProductsGrow
  <2>4. P <= T <=> P * Y <= T * Y
    BY ProductsGrow
  <2>5. T <= P <=> T * Y <= P * Y
    BY ProductsGrow
  <2>6. P < Q <=> P * Y < Q * Y
    BY ProductsGrow
  <2> QED
    BY <1>5, <1>6, <1>7, <1>8, <2>1, <2>2, <2>3, <2>4, <2>5, <2>6, Zenon
<1>10. /\ 0 < P <=> X < X + p
       /\ P <= T <=> X + p <= X + t
       /\ P >= T <=> X + p >= X + t
  BY <1>9
<1>11. P < Q <=> (i * T + l * P * d) * (d * T) < (i * T + l * Q * d) * (d * T)
  <2>1. PICK c \in Nat \ {0} : c = d * T
    BY ProductIsPositive
  <2>2. PICK a \in Int : a = i * T + l * P * d
    OBVIOUS
  <2>3. PICK b \in Int : b = i * T + l * Q * d
    OBVIOUS
  <2>4. a < b <=> a * c < b * c
    BY ProductsGrow
  <2>5. a < b <=> a * d < b * d
    BY ProductsGrow
  <2>6. a * d = X + p /\ b * d = X + q
    BY <1>3, <1>5, <1>6, <2>2, <2>3, Zenon
  <2>7. P < Q <=> X + p < X + q
    BY <1>9
  <2> QED
    BY <2>1, <2>2, <2>3, <2>4, <2>5, <2>6, <2>7, Zenon
<1> QED
  BY <1>2, <1>3, <1>4, <1>5, <1>7, <1>10, <1>11, Zenon

IsTime(x) == x.num \in Int /\ x.den \in Nat \ {0}

LEMMA DueTimes ==
  ASSUME NEW initial, IsTime(initial), NEW intervals \in Seq(Nat \ {0}), NEW duration \in Nat \ {0}
  PROVE  /\ \A k \in 1 .. Len(intervals) :
              /\ IsTime(Due(initial, intervals, duration, k))
              /\ Before(initial, Due(initial, intervals, duration, k))
              /\ NotAfter(Due(initial, intervals, duration, k), Later(initial, duration))
         /\ \A k \in 1 .. Len(intervals) - 1 :
              Before(Due(initial, intervals, duration, k), Due(initial, intervals, duration, k + 1))
         /\ intervals # <<>> =>
              NotAfter(Later(initial, duration), Due(initial, intervals, duration, Len(intervals)))
<1>1. PICK n \in Nat : n = Len(intervals)
  OBVIOUS
<1>2. PICK i \in Int : i = initial.num
  BY DEF IsTime
<1>3. PICK d \in Nat \ {0} : d = initial.den
  BY DEF IsTime
<1>4. PICK sums : SumsUp(sums, intervals) /\ Sum(intervals) = sums[n]
  <2>1. intervals \in Seq(Int)
    OBVIOUS
  <2> QED
    BY <1>1, <2>1, PrefixSums
<1>5. /\ \A k \in 0 .. n : sums[k] \in Nat
      /\ \A k \in 1 .. n : sums[k - 1] < sums[k] /\ 0 < sums[k] /\ sums[k] <= sums[n]
  BY <1>1, <1>4, SumsGrowUp, Zenon
<1>6. ASSUME NEW k \in 1 .. n
      PROVE  /\ sums[k] \in Nat \ {0} /\ sums[n] \in Nat \ {0} /\ sums[k] <= sums[n]
             /\ Due(initial, intervals, duration, k) = Time(i * sums[n] + duration * sums[k] * d, d * sums[n])
  <2>1. k \in 0 .. n /\ n \in 0 .. n /\ n \in 1 .. n
    OBVIOUS
  <2>2. sums[k] \in Nat /\ 0 < sums[k] /\ sums[n] \in Nat /\ 0 < sums[n] /\ sums[k] <= sums[n]
    BY <1>5, <2>1, Zenon
  <2>3. sums[k] \in Nat \ {0} /\ sums[n] \in Nat \ {0}
    BY <2>2
  <2>4. Sum(SubSeq(intervals, 1, k)) = sums[k]
    BY <1>1, <1>4, <2>1, Zenon DEF SumsUp
  <2> QED
    BY <1>2, <1>3, <1>4, <2>2, <2>3, <2>4, Zenon DEF Due
<1>7. ASSUME NEW k \in 1 .. n
      PROVE  /\ IsTime(Due(initial, intervals, duration, k))
             /\ Before(initial, Due(initial, intervals, duration, k))
             /\ NotAfter(Due(initial, intervals, duration, k), Later(initial, duration))
             /\ k = n => NotAfter(Later(initial, duration), Due(initial, intervals, duration, k))
  <2>1. PICK P \in Nat \ {0} : P = sums[k]
    BY <1>6
  <2>2. PICK T \in Nat \ {0} : T = sums[n]
    BY <1>6
  <2>3. PICK num \in Int : num = i * T + duration * P * d
    OBVIOUS
  <2>4. PICK den \in Nat \ {0} : den = d * T
    BY ProductIsPositive
  <2>5. PICK due : due = Due(initial, intervals, duration, k)
    OBVIOUS
  <2>6. due = Time(num, den)
    BY <1>6, <2>1, <2>2, <2>3, <2>4, <2>5, Zenon
  <2>7. due.num = num /\ due.den = den
    BY <2>6 DEF Time
  <2>8. PICK last \in Int : last = i + duration * d
    OBVIOUS
  <2>9. PICK later : later = Later(initial, duration)
    OBVIOUS
  <2>10. later.num = last /\ later.den = d
    BY <1>2, <1>3, <2>8, <2>9 DEF Later, Time
  <2>11. 0 < P /\ P <= T /\ (k = n => P >= T)
    <3>1. P <= T /\ (k = n => P = T)
      BY <1>6, <2>1, <2>2, Zenon
    <3> QED
      BY <3>1
  <2>12. /\ i * den < num * d
         /\ num * d <= last * den
         /\ k = n => num * d >= last * den
    <3>1. /\ 0 < P <=> i * (d * T) < (i * T + duration * P * d) * d
          /\ P <= T <=> (i * T + duration * P * d) * d <= (i + duration * d) * (d * T)
          /\ P >= T <=> (i * T + duration * P * d) * d >= (i + duration * d) * (d * T)
      <4>1. P \in Int
        OBVIOUS
      <4> QED
        BY <4>1, DueCompares, Zenon
    <3> QED
      BY <2>3, <2>4, <2>8, <2>11, <3>1, Zenon
  <2>13. ~(last * den < num * d) /\ (k = n => ~(num * d < last * den))
    <3>1. PICK a \in Int : a = num * d
      OBVIOUS
    <3>2. PICK b \in Int : b = last * den
      OBVIOUS
    <3> QED
      BY <2>12, <3>1, <3>2
  <2> QED
    BY <1>2, <1>3, <2>5, <2>7, <2>9, <2>10, <2>12, <2>13, Zenon DEF IsTime, Before, NotAfter
<1>8. ASSUME NEW k \in 1 .. n - 1
      PROVE  Before(Due(initial, intervals, duration, k), Due(initial, intervals, duration, k + 1))
  <2>1. PICK j \in 1 .. n : j = k + 1 /\ j - 1 = k /\ k \in 1 .. n
    OBVIOUS
  <2>2. PICK P \in Nat \ {0} : P = sums[k]
    BY <1>6, <2>1
  <2>3. PICK Q \in Nat \ {0} : Q = sums[j]
    BY <1>6, <2>1
  <2>4. PICK T \in Nat \ {0} : T = sums[n]
    BY <1>6, <2>1
  <2>5. P < Q
    BY <1>5, <2>1, <2>2, <2>3, Zenon
  <2>6. (i * T + duration * P * d) * (d * T) < (i * T + duration * Q * d) * (d * T)
    <3>1. P \in Int /\ Q \in Int
      OBVIOUS
    <3>2. P < Q <=> (i * T + duration * P * d) * (d * T) < (i * T + duration * Q * d) * (d * T)
      BY <3>1, DueCompares, Zenon
    <3> QED
      BY <2>5, <3>2, Zenon
  <2>7. /\ Due(initial, intervals, duration, k) = Time(i * T + duration * P * d, d * T)
        /\ Due(initial, intervals, duration, j) = Time(i * T + duration * Q * d, d * T)
    BY <1>6, <2>1, <2>2, <2>3, <2>4, Zenon
  <2>8. PICK a : a = i * T + duration * P * d
    OBVIOUS
  <2>9. PICK b : b = i * T + duration * Q * d
    OBVIOUS
  <2>10. PICK c : c = d * T
    OBVIOUS
  <2>11. Time(a, c).num = a /\ Time(a, c).den = c /\ Time(b, c).num = b /\ Time(b, c).den = c
    BY DEF Time
  <2>12. Before(Time(a, c), Time(b, c))
    BY <2>6, <2>8, <2>9, <2>10, <2>11, Zenon DEF Before
  <2> QED
    BY <2>1, <2>7, <2>8, <2>9, <2>10, <2>12, Zenon
<1>9. intervals # <<>> => n \in 1 .. n
  BY <1>1
<1> QED
  BY <1>1, <1>7, <1>8, <1>9, Zenon

LEMMA RatesAreKept ==
  ASSUME NEW initial, IsTime(initial), NEW intervals \in Seq(Nat \ {0}), NEW duration \in Nat \ {0}
  PROVE  RateIsKept(initial, intervals, duration)
<1>1. PICK n \in Nat : n = Len(intervals) /\ DOMAIN intervals = 1 .. n
  OBVIOUS
<1>2. PICK times : times = ConstantTimes(initial, intervals, duration)
  OBVIOUS
<1>3. times = [k \in 1 .. n |-> Due(initial, intervals, duration, k)]
  BY <1>1, <1>2, Zenon DEF ConstantTimes
<1>4. DOMAIN times = 1 .. n /\ Len(times) = n
  BY <1>3
<1>5. \A k \in 1 .. n : times[k] = Due(initial, intervals, duration, k)
  BY <1>3
<1>6. \A k \in 1 .. n - 1 : k \in 1 .. n /\ k + 1 \in 1 .. n
  OBVIOUS
<1>7. times # <<>> => n \in 1 .. n /\ intervals # <<>>
  <2>1. n = 0 => times = <<>>
    BY <1>3
  <2>2. Len(<<>>) = 0
    OBVIOUS
  <2> QED
    BY <1>1, <2>1, <2>2
<1>8. Last(times) = times[n]
  BY <1>4, Zenon DEF Last
<1> QED
  BY <1>1, <1>2, <1>4, <1>5, <1>6, <1>7, <1>8, DueTimes, Zenon DEF RateIsKept

\* x is the time m seconds after the start.
MomentOf(x, initial, m) == x.num * initial.den = (initial.num + m * initial.den) * x.den

SameOrder(a, b, x, y) == (a < b <=> x < y) /\ (b < a <=> y < x)

LEMMA SameMoment ==
  ASSUME NEW d \in Nat \ {0}, NEW a \in Int, NEW N \in Int, NEW D \in Nat \ {0}, N * d = a * D,
         NEW T \in Int, NEW E \in Nat \ {0}
  PROVE  SameOrder(N * E, T * D, a * E, T * d)
<1>1. PICK x \in Int : x = N * E
  OBVIOUS
<1>2. PICK y \in Int : y = T * D
  OBVIOUS
<1>3. PICK z \in Int : z = a * E
  OBVIOUS
<1>4. PICK w \in Int : w = T * d
  OBVIOUS
<1>5. x * d = z * D
  <2>1. (N * E) * d = (N * d) * E
    OBVIOUS
  <2>2. (a * E) * D = (a * D) * E
    OBVIOUS
  <2> QED
    BY <1>1, <1>3, <2>1, <2>2, Zenon
<1>6. y * d = w * D
  <2>1. (T * D) * d = (T * d) * D
    OBVIOUS
  <2> QED
    BY <1>2, <1>4, <2>1, Zenon
<1>7. (x < y <=> x * d < y * d) /\ (y < x <=> y * d < x * d)
  BY ProductsGrow, Zenon
<1>8. (z < w <=> z * D < w * D) /\ (w < z <=> w * D < z * D)
  BY ProductsGrow, Zenon
<1> QED
  BY <1>1, <1>2, <1>3, <1>4, <1>5, <1>6, <1>7, <1>8, Zenon DEF SameOrder

LEMMA LaterIs ==
  ASSUME NEW x, IsTime(x), NEW m \in Int
  PROVE  /\ IsTime(Later(x, m)) /\ Later(x, m).num = x.num + m * x.den /\ Later(x, m).den = x.den
<1>1. PICK num \in Int : num = x.num + m * x.den
  BY DEF IsTime
<1> QED
  BY <1>1 DEF IsTime, Later, Time

LEMMA MomentCompares ==
  ASSUME NEW initial, IsTime(initial), NEW x, IsTime(x), NEW y, IsTime(y), NEW m \in Int, MomentOf(x, initial, m)
  PROVE  /\ Before(x, y) <=> Before(Later(initial, m), y)
         /\ Before(y, x) <=> Before(y, Later(initial, m))
<1>1. PICK N \in Int, D \in Nat \ {0} : N = x.num /\ D = x.den
  BY DEF IsTime
<1>2. PICK T \in Int, E \in Nat \ {0} : T = y.num /\ E = y.den
  BY DEF IsTime
<1>3. PICK i \in Int, d \in Nat \ {0} : i = initial.num /\ d = initial.den
  BY DEF IsTime
<1>4. PICK a \in Int : a = i + m * d
  OBVIOUS
<1>5. Later(initial, m).num = a /\ Later(initial, m).den = d
  BY <1>3, <1>4, LaterIs, Zenon
<1>6. N * d = a * D
  BY <1>1, <1>3, <1>4, Zenon DEF MomentOf
<1>7. SameOrder(N * E, T * D, a * E, T * d)
  BY <1>6, SameMoment, Zenon
<1> QED
  BY <1>1, <1>2, <1>5, <1>7, Zenon DEF Before, SameOrder

LEMMA NextMoment ==
  ASSUME NEW initial, IsTime(initial), NEW x, IsTime(x), NEW m \in Int, MomentOf(x, initial, m)
  PROVE  IsTime(Later(x, 1)) /\ MomentOf(Later(x, 1), initial, m + 1)
<1>1. PICK N \in Int, D \in Nat \ {0} : N = x.num /\ D = x.den
  BY DEF IsTime
<1>2. PICK i \in Int, d \in Nat \ {0} : i = initial.num /\ d = initial.den
  BY DEF IsTime
<1>3. N * d = (i + m * d) * D
  BY <1>1, <1>2, Zenon DEF MomentOf
<1>4. (N + 1 * D) * d = (i + (m + 1) * d) * D
  <2>1. (N + 1 * D) * d = N * d + D * d
    OBVIOUS
  <2>2. (i + (m + 1) * d) * D = (i + m * d) * D + D * d
    OBVIOUS
  <2> QED
    BY <1>3, <2>1, <2>2, Zenon
<1>5. IsTime(Later(x, 1)) /\ Later(x, 1).num = N + 1 * D /\ Later(x, 1).den = D
  <2>1. 1 \in Int
    OBVIOUS
  <2> QED
    BY <1>1, <2>1, LaterIs, Zenon
<1> QED
  BY <1>2, <1>4, <1>5, Zenon DEF MomentOf

LEMMA MomentIs ==
  ASSUME NEW initial, IsTime(initial), NEW x, IsTime(x), NEW y, IsTime(y), NEW m \in Int, MomentOf(x, initial, m),
         NotAfter(y, x), NotAfter(x, y)
  PROVE  MomentOf(y, initial, m)
<1>1. ~Before(y, Later(initial, m)) /\ ~Before(Later(initial, m), y)
  BY MomentCompares, Zenon DEF NotAfter
<1>2. PICK T \in Int, E \in Nat \ {0} : T = y.num /\ E = y.den
  BY DEF IsTime
<1>3. PICK i \in Int, d \in Nat \ {0} : i = initial.num /\ d = initial.den
  BY DEF IsTime
<1>4. PICK a \in Int : a = i + m * d
  OBVIOUS
<1>5. Later(initial, m).num = a /\ Later(initial, m).den = d
  BY <1>3, <1>4, LaterIs, Zenon
<1>6. ~(T * d < a * E) /\ ~(a * E < T * d)
  BY <1>1, <1>2, <1>5, Zenon DEF Before
<1>7. T * d = a * E
  BY <1>6
<1> QED
  BY <1>2, <1>3, <1>4, <1>7, Zenon DEF MomentOf

LEMMA LaterInOrder ==
  ASSUME NEW initial, IsTime(initial), NEW y, IsTime(y), NEW s \in Int, NEW m \in Int, s <= m,
         Before(Later(initial, m), y)
  PROVE  Before(Later(initial, s), y)
<1>1. PICK T \in Int, E \in Nat \ {0} : T = y.num /\ E = y.den
  BY DEF IsTime
<1>2. PICK i \in Int, d \in Nat \ {0} : i = initial.num /\ d = initial.den
  BY DEF IsTime
<1>3. PICK a \in Int : a = i + m * d
  OBVIOUS
<1>4. PICK b \in Int : b = i + s * d
  OBVIOUS
<1>5. b <= a
  <2>1. s * d <= m * d
    BY ProductsKeepOrder
  <2> QED
    BY <1>3, <1>4, <2>1
<1>6. b * E <= a * E
  BY <1>5, ProductsKeepOrder
<1>7. a * E < T * d
  BY <1>1, <1>2, <1>3, LaterIs, Zenon DEF Before
<1>8. b * E < T * d
  BY <1>6, <1>7
<1> QED
  BY <1>1, <1>2, <1>4, <1>8, LaterIs, Zenon DEF Before

(***************************************************************************)
(* Seconds of requests                                                     *)
(***************************************************************************)
Seconded(made, intervals) ==
  IF intervals = <<>> THEN [made EXCEPT !.next = EmptySecond(@)]
  ELSE [times |-> made.times \o ConstantTimes(made.next, intervals, 1),
        next |-> Last(ConstantTimes(made.next, intervals, 1))]

\* h is the function by which the fold goes over the seconds.
PoissonFolds(h, n, initial, seconds) ==
  h = [T \in SUBSET (1 .. n) |-> IF T = {} THEN [times |-> <<>>, next |-> initial] ELSE Seconded(h[T \ {Max(T)}], seconds[Max(T)])]

PoissonStays(V, n, initial, seconds) == [times |-> <<>>, next |-> initial] \in V /\ \A k \in 1 .. n, v \in V : Seconded(v, seconds[k]) \in V
PoissonGoes(r, n, initial, seconds) ==
  r[0] = [times |-> <<>>, next |-> initial] /\ r[n].times = PoissonTimes(initial, seconds) /\ \A k \in 1 .. n : r[k] = Seconded(r[k - 1], seconds[k])

LEMMA PoissonRun ==
  ASSUME NEW n \in Nat, NEW V, NEW initial, NEW seconds, n = Len(seconds), DOMAIN seconds = 1 .. n,
         PoissonStays(V, n, initial, seconds)
  PROVE  \E r \in [0 .. n -> V] : PoissonGoes(r, n, initial, seconds)
<1> DEFINE step == [p \in (1 .. n) \X V |-> Seconded(p[2], seconds[p[1]])]
           h == CHOOSE h : PoissonFolds(h, n, initial, seconds)
<1>1. \A k \in 1 .. n, v \in V : step[<<k, v>>] = Seconded(v, seconds[k])
  OBVIOUS
<1>2. [times |-> <<>>, next |-> initial] \in V /\ step \in [(1 .. n) \X V -> V]
  BY DEF PoissonStays
<1>3. PoissonTimes(initial, seconds) = h[1 .. n].times
  BY Zenon DEF PoissonTimes, FoldLeft, MapThenFoldSet, Max, Seconded, PoissonFolds
<1>4. \A T \in SUBSET (1 .. n) : T # {} => Max(T) \in 1 .. n
  BY ExtremesOfPart
<1> HIDE DEF step
<1>5. \E g : PoissonFolds(g, n, initial, seconds)
  <2>1. PICK g \in [SUBSET (1 .. n) -> V] : StepsUp(g, n, V, [times |-> <<>>, next |-> initial], step)
    BY <1>2, FoldSteps
  <2>2. ASSUME NEW T \in SUBSET (1 .. n)
        PROVE  g[T] = IF T = {} THEN [times |-> <<>>, next |-> initial] ELSE Seconded(g[T \ {Max(T)}], seconds[Max(T)])
    <3>1. g[T \ {Max(T)}] \in V
      BY <2>1
    <3>2. T # {} => g[T] = step[<<Max(T), g[T \ {Max(T)}]>>]
      BY <2>1, <3>1, Zenon DEF StepsUp
    <3>3. T = {} => g[T] = [times |-> <<>>, next |-> initial]
      BY <2>1, Zenon DEF StepsUp
    <3> QED
      BY <1>1, <1>4, <3>1, <3>2, <3>3, Zenon
  <2>3. g = [T \in SUBSET (1 .. n) |-> g[T]]
    BY <2>1, Zenon
  <2> QED
    BY <2>2, <2>3, ZenonT(40) DEF PoissonFolds
<1>6. PoissonFolds(h, n, initial, seconds)
  BY <1>5, Zenon
<1> HIDE DEF h
<1>7. StepsUp(h, n, V, [times |-> <<>>, next |-> initial], step)
  <2> SUFFICES ASSUME NEW T \in SUBSET (1 .. n)
               PROVE  /\ T = {} => h[T] = [times |-> <<>>, next |-> initial]
                      /\ T # {} /\ h[T \ {Max(T)}] \in V => h[T] = step[<<Max(T), h[T \ {Max(T)}]>>]
    BY Zenon DEF StepsUp
  <2>1. h[T] = IF T = {} THEN [times |-> <<>>, next |-> initial] ELSE Seconded(h[T \ {Max(T)}], seconds[Max(T)])
    BY <1>6, Zenon DEF PoissonFolds
  <2> QED
    BY <1>1, <1>4, <2>1, Zenon
<1>8. PICK r \in [0 .. n -> V] : Runs(r, n, [times |-> <<>>, next |-> initial], step) /\ RunsAlong(h, r, n)
  BY <1>2, <1>7, FoldRuns, Zenon
<1>9. r[n] = h[1 .. n]
  BY <1>8 DEF RunsAlong
<1>10. ASSUME NEW k \in 1 .. n PROVE r[k] = Seconded(r[k - 1], seconds[k])
  <2>0. k - 1 \in 0 .. n
    OBVIOUS
  <2>1. r[k - 1] \in V /\ r[k] = step[<<k, r[k - 1]>>]
    BY <1>8, <2>0, Zenon DEF Runs
  <2> QED
    BY <1>1, <2>1
<1>11. r[0] = [times |-> <<>>, next |-> initial]
  BY <1>8 DEF Runs
<1> QED
  BY <1>3, <1>8, <1>9, <1>10, <1>11 DEF PoissonGoes

Moments == [num : Int, den : Nat \ {0}]
PoissonStates == [times : Seq(Moments), next : Moments]

\* x is the next time after a second that begins with the time b.
EndsSecond(x, b) == NotAfter(x, Later(b, 1)) /\ NotAfter(Later(b, 1), x)

\* What a second adds to the times.
AddsSecond(made, intervals, after) ==
  /\ after \in PoissonStates
  /\ Len(after.times) = Len(made.times) + Len(intervals)
  /\ \A k \in 1 .. Len(made.times) : after.times[k] = made.times[k]
  /\ \A k \in 1 .. Len(intervals) : /\ Before(made.next, after.times[Len(made.times) + k])
                                    /\ NotAfter(after.times[Len(made.times) + k], Later(made.next, 1))
  /\ EndsSecond(after.next, made.next)

LEMMA SecondedIs ==
  ASSUME NEW made \in PoissonStates, NEW intervals \in Seq(Nat \ {0})
  PROVE  AddsSecond(made, intervals, Seconded(made, intervals))
<1>1. PICK times \in Seq(Moments), next \in Moments : times = made.times /\ next = made.next
  BY DEF PoissonStates
<1>2. IsTime(next)
  BY DEF IsTime, Moments
<1>3. PICK after : after = Seconded(made, intervals)
  OBVIOUS
<1>4. CASE intervals = <<>>
  <2>1. PICK later : later = Later(next, 1)
    OBVIOUS
  <2>2. later \in Moments /\ IsTime(later)
    <3>1. next.num + 1 * next.den \in Int /\ next.den \in Nat \ {0}
      BY <1>2 DEF IsTime
    <3>2. later = [num |-> next.num + 1 * next.den, den |-> next.den]
      BY <2>1, Zenon DEF Later, Time
    <3> QED
      BY <3>1, <3>2 DEF Moments, IsTime
  <2>3. after = [made EXCEPT !.next = later]
    BY <1>1, <1>3, <1>4, <2>1, Zenon DEF Seconded, EmptySecond
  <2>4. after \in PoissonStates /\ after.times = times /\ after.next = later
    BY <1>1, <2>2, <2>3 DEF PoissonStates
  <2>5. ~Before(later, later)
    <3>1. PICK x \in Int : x = later.num * later.den
      BY <2>2 DEF IsTime
    <3> QED
      BY <3>1 DEF Before
  <2>6. Len(intervals) = 0 /\ Len(times) \in Nat
    BY <1>4
  <2>7. Len(times) = Len(times) + Len(intervals) /\ 1 .. Len(intervals) = {}
    BY <2>6
  <2>8. EndsSecond(after.next, next)
    BY <2>1, <2>4, <2>5, Zenon DEF EndsSecond, NotAfter
  <2> QED
    BY <1>1, <1>3, <2>4, <2>7, <2>8, Zenon DEF AddsSecond
<1>5. CASE intervals # <<>>
  <2>1. PICK n \in Nat : n = Len(intervals) /\ DOMAIN intervals = 1 .. n
    OBVIOUS
  <2>2. n \in 1 .. n
    BY <1>5, <2>1, EmptyIs
  <2>3. PICK due : due = ConstantTimes(next, intervals, 1)
    OBVIOUS
  <2>4. due = [k \in 1 .. n |-> Due(next, intervals, 1, k)]
    BY <2>1, <2>3, Zenon DEF ConstantTimes
  <2>5. Len(due) = n /\ \A k \in 1 .. n : due[k] = Due(next, intervals, 1, k)
    BY <2>4
  <2>6. 1 \in Nat \ {0}
    OBVIOUS
  <2>7. \A k \in 1 .. n : /\ IsTime(due[k]) /\ Before(next, due[k])
                          /\ NotAfter(due[k], Later(next, 1))
    BY <1>2, <2>1, <2>5, <2>6, DueTimes, Zenon
  <2>8. \A k \in 1 .. n : due[k] \in Moments
    <3>1. ASSUME NEW k \in 1 .. n PROVE due[k] \in Moments
      <4>1. \E num, den : due[k] = Time(num, den)
        BY <2>5, Zenon DEF Due
      <4>2. PICK num, den : due[k] = [num |-> num, den |-> den]
        BY <4>1 DEF Time
      <4>3. num \in Int /\ den \in Nat \ {0}
        BY <2>7, <4>2 DEF IsTime
      <4> QED
        BY <4>2, <4>3 DEF Moments
    <3> QED
      BY <3>1
  <2>9. due \in Seq(Moments)
    BY <2>4, <2>5, <2>8
  <2>10. Last(due) = due[n]
    BY <2>5, Zenon DEF Last
  <2>11. EndsSecond(due[n], next)
    BY <1>2, <1>5, <2>1, <2>2, <2>5, <2>6, <2>7, DueTimes, Zenon DEF EndsSecond
  <2>12. PICK all : all = times \o due
    OBVIOUS
  <2>13. after = [times |-> all, next |-> due[n]]
    BY <1>1, <1>3, <1>5, <2>3, <2>10, <2>12, Zenon DEF Seconded
  <2>14. /\ all \in Seq(Moments) /\ Len(all) = Len(times) + Len(due)
         /\ \A k \in 1 .. Len(times) : all[k] = times[k]
         /\ \A k \in 1 .. Len(due) : all[Len(times) + k] = due[k]
    BY <2>9, <2>12, JoinIs
  <2>15. after.times = all /\ after.next = due[n] /\ after \in PoissonStates
    BY <2>2, <2>8, <2>13, <2>14 DEF PoissonStates
  <2> QED
    BY <1>1, <1>3, <2>1, <2>5, <2>7, <2>11, <2>14, <2>15, Zenon DEF AddsSecond
<1> QED
  BY <1>4, <1>5

\* In the states of the first m seconds, a time is after second s when it is none of the first lens[s].
TimesAreSorted(state, lens, initial, m) ==
  /\ Len(state.times) = lens[m]
  /\ MomentOf(state.next, initial, m)
  /\ \A s \in 0 .. m, k \in 1 .. Len(state.times) : Before(Later(initial, s), state.times[k]) <=> k > lens[s]

LEMMA SortedAfterSecond ==
  ASSUME NEW initial \in Moments, NEW made \in PoissonStates, NEW intervals \in Seq(Nat \ {0}), NEW after,
         AddsSecond(made, intervals, after), NEW m \in Nat, NEW lens, \A s \in 0 .. m + 1 : lens[s] \in Nat,
         \A s \in 0 .. m : lens[s] <= lens[m], lens[m + 1] = lens[m] + Len(intervals),
         TimesAreSorted(made, lens, initial, m)
  PROVE  TimesAreSorted(after, lens, initial, m + 1)
<1>1. PICK j \in Nat : j = m + 1 /\ m \in 0 .. m
  OBVIOUS
<1>2. PICK l \in Nat, n \in Nat : l = lens[m] /\ n = Len(intervals) /\ lens[j] = l + n
  BY <1>1
<1>3. PICK times \in Seq(Moments), next \in Moments : times = made.times /\ next = made.next
  BY DEF PoissonStates
<1>4. PICK all \in Seq(Moments), end \in Moments : all = after.times /\ end = after.next
  BY DEF AddsSecond, PoissonStates
<1>5. Len(times) = l /\ Len(all) = l + n
  BY <1>2, <1>3, <1>4, Zenon DEF TimesAreSorted, AddsSecond
<1>6. \A x \in Moments : IsTime(x)
  BY DEF Moments, IsTime
<1>7. MomentOf(next, initial, m)
  BY <1>3, Zenon DEF TimesAreSorted
<1>8. PICK later : later = Later(next, 1)
  OBVIOUS
<1>9. IsTime(later) /\ MomentOf(later, initial, j)
  <2>1. m \in Int
    OBVIOUS
  <2> QED
    BY <1>1, <1>6, <1>7, <1>8, <2>1, NextMoment, Zenon
<1>10. MomentOf(end, initial, j)
  <2>1. NotAfter(end, later) /\ NotAfter(later, end)
    BY <1>3, <1>4, <1>8, Zenon DEF AddsSecond, EndsSecond
  <2>2. j \in Int
    OBVIOUS
  <2> QED
    BY <1>6, <1>9, <2>1, <2>2, MomentIs, Zenon
<1>11. \A k \in 1 .. l + n : all[k] \in Moments
  BY <1>5
<1>12. \A k \in 1 .. l : all[k] = times[k]
  BY <1>3, <1>4, <1>5, Zenon DEF AddsSecond
<1>13. ASSUME NEW s \in 0 .. j, NEW k \in 1 .. l + n
       PROVE  Before(Later(initial, s), all[k]) <=> k > lens[s]
  <2>1. IsTime(initial) /\ IsTime(all[k]) /\ IsTime(next) /\ IsTime(later) /\ s \in Int /\ m \in Int /\ j \in Int /\ lens[s] \in Nat /\ k \in Nat
    <3>1. s \in 0 .. m + 1 /\ s \in Int /\ m \in Int /\ j \in Int /\ k \in Nat
      BY <1>1
    <3>2. lens[s] \in Nat /\ all[k] \in Moments
      BY <1>11, <3>1, Zenon
    <3> QED
      BY <1>6, <1>9, <3>1, <3>2, Zenon
  <2>2. CASE k <= l
    <3>1. k \in 1 .. l
      BY <2>2
    <3>2. \A r \in 0 .. m : Before(Later(initial, r), all[k]) <=> k > lens[r]
      BY <1>3, <1>5, <1>12, <3>1, Zenon DEF TimesAreSorted
    <3>3. CASE s \in 0 .. m
      BY <3>2, <3>3
    <3>4. CASE s = j
      <4>1. ~(k > l) /\ ~(k > l + n)
        BY <2>1, <2>2
      <4>2. ~Before(Later(initial, m), all[k])
        BY <1>1, <1>2, <3>2, <4>1, Zenon
      <4>3. m <= j
        BY <1>1
      <4>4. ~Before(Later(initial, j), all[k])
        BY <2>1, <4>2, <4>3, LaterInOrder, Zenon
      <4> QED
        BY <1>2, <3>4, <4>1, <4>4, Zenon
    <3> QED
      BY <1>1, <3>3, <3>4
  <2>3. CASE ~(k <= l)
    <3>1. PICK i \in 1 .. n : k = l + i
      <4>1. k - l \in 1 .. n /\ k = l + (k - l)
        BY <2>3
      <4> QED
        BY <4>1, Zenon
    <3>2. Before(next, all[k]) /\ NotAfter(all[k], later)
      BY <1>2, <1>3, <1>4, <1>5, <1>8, <3>1, Zenon DEF AddsSecond
    <3>3. Before(Later(initial, m), all[k])
      BY <1>7, <2>1, <3>2, MomentCompares, Zenon
    <3>4. CASE s \in 0 .. m
      <4>1. s <= m
        BY <3>4
      <4>2. Before(Later(initial, s), all[k])
        BY <2>1, <3>3, <4>1, LaterInOrder, Zenon
      <4>3. lens[s] <= l
        BY <1>2, <3>4
      <4>4. k > lens[s]
        BY <2>1, <2>3, <4>3
      <4> QED
        BY <4>2, <4>4
    <3>5. CASE s = j
      <4>1. ~Before(Later(initial, j), all[k])
        BY <1>9, <2>1, <3>2, MomentCompares, Zenon DEF NotAfter
      <4>2. ~(k > l + n)
        OBVIOUS
      <4> QED
        BY <1>2, <3>5, <4>1, <4>2, Zenon
    <3> QED
      BY <1>1, <3>4, <3>5
  <2> QED
    BY <2>2, <2>3
<1> QED
  BY <1>1, <1>2, <1>4, <1>5, <1>10, <1>13, Zenon DEF TimesAreSorted

LEMMA SecondsAreOwn ==
  ASSUME NEW initial \in Moments, NEW seconds \in Seq(Seq(Nat \ {0}))
  PROVE  SecondsAreTheirOwn(initial, seconds)
<1>1. PICK n \in Nat : n = Len(seconds) /\ DOMAIN seconds = 1 .. n
  OBVIOUS
<1>2. \A k \in 1 .. n : seconds[k] \in Seq(Nat \ {0}) /\ Len(seconds[k]) \in Nat
  <2>1. ASSUME NEW k \in 1 .. n PROVE seconds[k] \in Seq(Nat \ {0})
    BY <1>1, ElementIn
  <2> QED
    BY <2>1
<1>3. PICK first \in PoissonStates : first = [times |-> <<>>, next |-> initial]
  <2>1. <<>> \in Seq(Moments)
    OBVIOUS
  <2>2. [times |-> <<>>, next |-> initial] \in PoissonStates
    BY <2>1, Zenon DEF PoissonStates
  <2> QED
    BY <2>2, Zenon
<1>4. PoissonStays(PoissonStates, n, initial, seconds)
  <2>1. \A k \in 1 .. n, v \in PoissonStates : Seconded(v, seconds[k]) \in PoissonStates
    BY <1>2, SecondedIs, Zenon DEF AddsSecond
  <2> QED
    BY <1>3, <2>1, Zenon DEF PoissonStays
<1>5. PICK r \in [0 .. n -> PoissonStates] : PoissonGoes(r, n, initial, seconds)
  BY <1>1, <1>4, PoissonRun, Zenon
<1>6. \A k \in 0 .. n : r[k] \in PoissonStates /\ r[k].times \in Seq(Moments) /\ Len(r[k].times) \in Nat
  <2>1. ASSUME NEW state \in PoissonStates PROVE state.times \in Seq(Moments) /\ Len(state.times) \in Nat
    BY DEF PoissonStates
  <2> QED
    BY <2>1
<1>7. ASSUME NEW k \in 1 .. n
      PROVE  k - 1 \in 0 .. n /\ k \in 0 .. n /\ AddsSecond(r[k - 1], seconds[k], r[k])
  <2>1. k - 1 \in 0 .. n /\ k \in 0 .. n
    OBVIOUS
  <2>2. r[k] = Seconded(r[k - 1], seconds[k])
    BY <1>5, Zenon DEF PoissonGoes
  <2> QED
    BY <1>2, <1>6, <2>1, <2>2, SecondedIs, Zenon
<1>8. PICK lens \in [0 .. n -> Nat] : lens = [k \in 0 .. n |-> Len(r[k].times)]
  BY <1>6
<1>9. \A k \in 0 .. n : lens[k] = Len(r[k].times)
  BY <1>8
<1>10. \A k \in 1 .. n : lens[k] = lens[k - 1] + Len(seconds[k])
  BY <1>7, <1>9, Zenon DEF AddsSecond
<1> DEFINE Sorted == {m \in Nat : m <= n => /\ \A s \in 0 .. m : lens[s] <= lens[m]
                                            /\ TimesAreSorted(r[m], lens, initial, m)}
<1>11. 0 \in Sorted
  <2>1. 0 \in 0 .. n /\ r[0] = first
    BY <1>3, <1>5 DEF PoissonGoes
  <2>2. r[0].times = <<>> /\ r[0].next = initial
    BY <1>3, <2>1
  <2>3. Len(r[0].times) = 0 /\ 1 .. 0 = {}
    BY <2>2
  <2>4. MomentOf(initial, initial, 0)
    <3>1. initial.num \in Int /\ initial.den \in Int
      BY DEF Moments
    <3>2. 0 * initial.den = 0 /\ initial.num + 0 = initial.num
      BY <3>1
    <3> QED
      BY <3>2, Zenon DEF MomentOf
  <2>5. TimesAreSorted(r[0], lens, initial, 0)
    BY <1>9, <2>1, <2>2, <2>3, <2>4, Zenon DEF TimesAreSorted
  <2>6. \A s \in 0 .. 0 : lens[s] <= lens[0]
    BY <2>1
  <2> QED
    BY <2>5, <2>6
<1>12. ASSUME NEW m \in Nat, m \in Sorted PROVE m + 1 \in Sorted
  <2> SUFFICES ASSUME m + 1 <= n
               PROVE  /\ \A s \in 0 .. m + 1 : lens[s] <= lens[m + 1]
                      /\ TimesAreSorted(r[m + 1], lens, initial, m + 1)
    OBVIOUS
  <2>1. PICK j \in 1 .. n : j = m + 1 /\ j - 1 = m /\ m \in 0 .. n /\ j \in 0 .. n
    OBVIOUS
  <2>2. (\A s \in 0 .. m : lens[s] <= lens[m]) /\ TimesAreSorted(r[m], lens, initial, m)
    BY <1>12, <2>1
  <2>3. AddsSecond(r[m], seconds[j], r[j]) /\ lens[j] = lens[m] + Len(seconds[j])
    BY <1>7, <1>10, <2>1, Zenon
  <2>4. \A s \in 0 .. m + 1 : lens[s] \in Nat
    BY <2>1
  <2>5. TimesAreSorted(r[j], lens, initial, m + 1)
    <3>1. seconds[j] \in Seq(Nat \ {0}) /\ r[m] \in PoissonStates
      BY <1>2, <1>6, <2>1, Zenon
    <3>2. lens[m + 1] = lens[m] + Len(seconds[j])
      BY <2>1, <2>3
    <3> QED
      BY <2>2, <2>3, <2>4, <3>1, <3>2, SortedAfterSecond, Zenon
  <2>6. ASSUME NEW s \in 0 .. j PROVE lens[s] <= lens[j]
    <3>1. lens[m] \in Nat /\ lens[j] \in Nat /\ lens[s] \in Nat
      BY <2>1
    <3>2. lens[m] <= lens[j]
      <4>1. PICK c \in Nat : c = Len(seconds[j])
        BY <1>2, <2>1
      <4>2. lens[j] = lens[m] + c
        BY <2>3, <4>1
      <4> QED
        BY <3>1, <4>2
    <3>3. s \in 0 .. m \/ s = j
      BY <2>1
    <3>4. CASE s \in 0 .. m
      <4>1. lens[s] <= lens[m]
        BY <2>2, <3>4
      <4>2. PICK a \in Nat, b \in Nat, c \in Nat : a = lens[s] /\ b = lens[m] /\ c = lens[j]
        BY <3>1, Zenon
      <4>3. a <= b /\ b <= c
        BY <3>2, <4>1, <4>2, Zenon
      <4>4. a <= c
        BY <4>3
      <4> QED
        BY <4>2, <4>4, Zenon
    <3>5. CASE s = j
      BY <3>1, <3>5
    <3> QED
      BY <3>3, <3>4, <3>5
  <2> QED
    BY <2>1, <2>5, <2>6
<1>13. \A m \in Nat : m \in Sorted
  <2> HIDE DEF Sorted
  <2> QED
    BY <1>11, <1>12, NatSetInduction
<1>14. (\A s \in 0 .. n : lens[s] <= lens[n]) /\ TimesAreSorted(r[n], lens, initial, n)
  BY <1>13
<1> DEFINE times == PoissonTimes(initial, seconds)
<1>15. times = r[n].times
  BY <1>5, Zenon DEF PoissonGoes
<1>16. Len(times) = lens[n] /\ DOMAIN times = 1 .. lens[n]
  <2>1. n \in 0 .. n
    OBVIOUS
  <2>2. PICK made \in Seq(Moments) : made = r[n].times
    BY <1>6, <2>1, Zenon
  <2>3. DOMAIN made = 1 .. Len(made)
    OBVIOUS
  <2> QED
    BY <1>9, <1>15, <2>1, <2>2, <2>3, Zenon
<1> HIDE DEF times
<1>17. ASSUME NEW s \in DOMAIN seconds
       PROVE  Cardinality({k \in DOMAIN times : /\ Before(Later(initial, s - 1), times[k])
                                                /\ NotAfter(times[k], Later(initial, s))})
              = Len(seconds[s])
  <2>1. s - 1 \in 0 .. n /\ s \in 0 .. n /\ s \in 1 .. n
    BY <1>1
  <2>2. PICK a \in Nat : a = lens[s - 1]
    BY <2>1
  <2>3. PICK b \in Nat : b = lens[s]
    BY <2>1
  <2>4. PICK c \in Nat : c = Len(seconds[s])
    BY <1>2, <2>1
  <2>5. b = a + c /\ b <= lens[n] /\ lens[n] \in Nat
    BY <1>10, <1>14, <2>1, <2>2, <2>3, <2>4
  <2>6. \A k \in DOMAIN times : /\ Before(Later(initial, s - 1), times[k]) <=> k > a
                                /\ Before(Later(initial, s), times[k]) <=> k > b
    BY <1>14, <1>15, <1>16, <2>1, <2>2, <2>3, Zenon DEF TimesAreSorted
  <2>7. PICK within : within = {k \in DOMAIN times : /\ Before(Later(initial, s - 1), times[k])
                                                     /\ NotAfter(times[k], Later(initial, s))}
    OBVIOUS
  <2>8. within = {k \in DOMAIN times : k > a /\ ~(k > b)}
    BY <2>6, <2>7, Zenon DEF NotAfter
  <2>9. within = a + 1 .. b
    BY <1>16, <2>5, <2>8
  <2>10. Cardinality(a + 1 .. b) = c
    BY <2>5, FS_Interval, SMTT(40)
  <2> QED
    BY <2>4, <2>7, <2>9, <2>10, Zenon
<1> QED
  BY <1>17, Zenon DEF SecondsAreTheirOwn, times

(***************************************************************************)
(* Conversations                                                           *)
(***************************************************************************)
NothingLoaded(blueprints) == [turns |-> <<>>, sessions |-> [s \in DOMAIN blueprints |-> <<s>>]]

Loaded(blueprints, made, i) ==
  [turns |-> Append(made.turns, ConversationTurn(blueprints, made.sessions, i)),
   sessions |-> [made.sessions EXCEPT ![ConversationTurn(blueprints, made.sessions, i).slot]
                   = ConversationTurn(blueprints, made.sessions, i).session]]

LoadedNext(blueprints, n, made, k) == Loaded(blueprints, made, [i \in 1 .. n |-> i - 1][k])

\* h is the function by which the fold goes over the requests.
TurnsFolds(h, n, blueprints) ==
  h = [T \in SUBSET (1 .. n) |-> IF T = {} THEN NothingLoaded(blueprints) ELSE LoadedNext(blueprints, n, h[T \ {Max(T)}], Max(T))]

TurnsStays(V, n, blueprints) == NothingLoaded(blueprints) \in V /\ \A k \in 1 .. n, v \in V : LoadedNext(blueprints, n, v, k) \in V
TurnsGoes(r, n, blueprints) ==
  r[0] = NothingLoaded(blueprints) /\ r[n].turns = ConversationTurns(blueprints, n) /\ \A k \in 1 .. n : r[k] = LoadedNext(blueprints, n, r[k - 1], k)

LEMMA TurnsRun ==
  ASSUME NEW n \in Nat, NEW V, NEW blueprints,
         TurnsStays(V, n, blueprints)
  PROVE  \E r \in [0 .. n -> V] : TurnsGoes(r, n, blueprints)
<1> DEFINE step == [p \in (1 .. n) \X V |-> LoadedNext(blueprints, n, p[2], p[1])]
           h == CHOOSE h : TurnsFolds(h, n, blueprints)
<1>1. \A k \in 1 .. n, v \in V : step[<<k, v>>] = LoadedNext(blueprints, n, v, k)
  OBVIOUS
<1>2. NothingLoaded(blueprints) \in V /\ step \in [(1 .. n) \X V -> V]
  BY DEF TurnsStays
<1>3. ConversationTurns(blueprints, n) = h[1 .. n].turns
  BY Zenon DEF ConversationTurns, FoldLeft, MapThenFoldSet, Max, Loaded, LoadedNext, NothingLoaded, TurnsFolds
<1>4. \A T \in SUBSET (1 .. n) : T # {} => Max(T) \in 1 .. n
  BY ExtremesOfPart
<1> HIDE DEF step
<1>5. \E g : TurnsFolds(g, n, blueprints)
  <2>1. PICK g \in [SUBSET (1 .. n) -> V] : StepsUp(g, n, V, NothingLoaded(blueprints), step)
    BY <1>2, FoldSteps
  <2>2. ASSUME NEW T \in SUBSET (1 .. n)
        PROVE  g[T] = IF T = {} THEN NothingLoaded(blueprints) ELSE LoadedNext(blueprints, n, g[T \ {Max(T)}], Max(T))
    <3>1. g[T \ {Max(T)}] \in V
      BY <2>1
    <3>2. T # {} => g[T] = step[<<Max(T), g[T \ {Max(T)}]>>]
      BY <2>1, <3>1, Zenon DEF StepsUp
    <3>3. T = {} => g[T] = NothingLoaded(blueprints)
      BY <2>1, Zenon DEF StepsUp
    <3> QED
      BY <1>1, <1>4, <3>1, <3>2, <3>3, Zenon
  <2>3. g = [T \in SUBSET (1 .. n) |-> g[T]]
    BY <2>1, Zenon
  <2> QED
    BY <2>2, <2>3, Zenon DEF TurnsFolds
<1>6. TurnsFolds(h, n, blueprints)
  BY <1>5, Zenon
<1> HIDE DEF h
<1>7. StepsUp(h, n, V, NothingLoaded(blueprints), step)
  <2> SUFFICES ASSUME NEW T \in SUBSET (1 .. n)
               PROVE  /\ T = {} => h[T] = NothingLoaded(blueprints)
                      /\ T # {} /\ h[T \ {Max(T)}] \in V => h[T] = step[<<Max(T), h[T \ {Max(T)}]>>]
    BY Zenon DEF StepsUp
  <2>1. h[T] = IF T = {} THEN NothingLoaded(blueprints) ELSE LoadedNext(blueprints, n, h[T \ {Max(T)}], Max(T))
    BY <1>6, Zenon DEF TurnsFolds
  <2> QED
    BY <1>1, <1>4, <2>1, Zenon
<1>8. PICK r \in [0 .. n -> V] : Runs(r, n, NothingLoaded(blueprints), step) /\ RunsAlong(h, r, n)
  BY <1>2, <1>7, FoldRuns, Zenon
<1>9. r[n] = h[1 .. n]
  BY <1>8 DEF RunsAlong
<1>10. ASSUME NEW k \in 1 .. n PROVE r[k] = LoadedNext(blueprints, n, r[k - 1], k)
  <2>1. r[k - 1] \in V /\ r[k] = step[<<k, r[k - 1]>>]
    BY <1>8 DEF Runs
  <2> QED
    BY <1>1, <2>1
<1>11. r[0] = NothingLoaded(blueprints)
  BY <1>8 DEF Runs
<1> QED
  BY <1>3, <1>8, <1>9, <1>10, <1>11 DEF TurnsGoes

\* The id of a slot's conversation.
IdOf(slot, q) == IF q = 0 THEN <<slot>> ELSE <<slot, q>>

LEMMA IdIsOne ==
  ASSUME NEW s, NEW r, NEW p \in Nat, NEW q \in Nat, IdOf(s, p) = IdOf(r, q)
  PROVE  s = r /\ p = q
  BY DEF IdOf

\* To go to the next turn of a conversation, or to the first one of the next.
LEMMA NextRound ==
  ASSUME NEW round \in Nat \ {0}, NEW turns \in Nat \ {0}
  PROVE  IF round % turns = 0 THEN round \div turns # 0
         ELSE (round - 1) \div turns = round \div turns /\ (round - 1) % turns = (round % turns) - 1
<1>1. PICK q \in Nat, r \in Nat : round = q * turns + r /\ r < turns /\ r = round % turns /\ q = round \div turns
  BY Division
<1>2. CASE r = 0
  <2>1. ASSUME q = 0 PROVE FALSE
    <3>1. 0 * turns + 0 = 0
      OBVIOUS
    <3> QED
      BY <1>1, <1>2, <2>1, <3>1
  <2> QED
    BY <1>1, <1>2, <2>1
<1>3. CASE r # 0
  <2>1. PICK l \in Nat : l = r - 1 /\ l < turns
    <3>1. r - 1 \in Nat /\ r - 1 < turns
      BY <1>1, <1>3
    <3> QED
      BY <3>1, Zenon
  <2>2. PICK p \in Nat : p = q * turns
    OBVIOUS
  <2>3. round - 1 = p + l
    <3>1. round = p + r /\ l = r - 1
      BY <1>1, <2>1, <2>2
    <3> QED
      BY <3>1
  <2>4. (q * turns + l) % turns = l /\ (q * turns + l) \div turns = q
    BY <2>1, DivisionIsOne
  <2> QED
    BY <1>1, <1>3, <2>1, <2>2, <2>3, <2>4, Zenon
<1> QED
  BY <1>2, <1>3

\* The slot of a request comes again after as many requests as there are slots.
LEMMA SlotComesAgain ==
  ASSUME NEW i \in Nat, NEW m \in Nat \ {0}
  PROVE  (i + m) % m = i % m /\ (i + m) \div m = (i \div m) + 1
<1>1. PICK q \in Nat, r \in Nat : i = q * m + r /\ r < m /\ r = i % m /\ q = i \div m
  BY Division
<1>2. PICK p \in Nat : p = q * m
  OBVIOUS
<1>3. (q + 1) * m = q * m + m
  OBVIOUS
<1>4. i + m = (p + m) + r
  BY <1>1, <1>2
<1>5. ((q + 1) * m + r) % m = r /\ ((q + 1) * m + r) \div m = q + 1
  <2>1. q + 1 \in Nat
    OBVIOUS
  <2> QED
    BY <1>1, <2>1, DivisionIsOne
<1> QED
  BY <1>1, <1>2, <1>3, <1>4, <1>5, Zenon

\* Requests of one slot are as many apart as there are slots, or more.
LEMMA SlotsApart ==
  ASSUME NEW i \in Nat, NEW j \in Nat, NEW m \in Nat \ {0}, i < j, i % m = j % m
  PROVE  i + m <= j /\ i \div m < j \div m
<1>1. PICK q \in Nat, r \in Nat : i = q * m + r /\ r < m /\ r = i % m /\ q = i \div m
  BY Division
<1>2. PICK p \in Nat : j = p * m + r /\ p = j \div m
  <2>1. PICK p \in Nat, s \in Nat : j = p * m + s /\ s < m /\ s = j % m /\ p = j \div m
    BY Division
  <2> QED
    BY <1>1, <2>1
<1>3. q < p
  <2>1. ASSUME p <= q PROVE FALSE
    <3>1. p * m <= q * m
      BY <2>1, ProductsKeepOrder
    <3>2. PICK a \in Nat : a = p * m
      OBVIOUS
    <3>3. PICK b \in Nat : b = q * m
      OBVIOUS
    <3> QED
      BY <1>1, <1>2, <3>1, <3>2, <3>3
  <2> QED
    BY <2>1
<1>4. (q + 1) * m <= p * m
  <2>1. q + 1 <= p /\ q + 1 \in Int
    BY <1>3
  <2> QED
    BY <2>1, ProductsKeepOrder
<1>5. (q + 1) * m = q * m + m
  OBVIOUS
<1>6. PICK a \in Nat : a = p * m
  OBVIOUS
<1>7. PICK b \in Nat : b = q * m
  OBVIOUS
<1> QED
  BY <1>1, <1>2, <1>3, <1>4, <1>5, <1>6, <1>7

SlotOf(counts, i) == (i % Len(counts)) + 1
RoundOf(counts, i) == i \div Len(counts)
TurnsOf(counts, i) == counts[SlotOf(counts, i)]
TurnNumber(counts, i) == RoundOf(counts, i) % TurnsOf(counts, i)

\* Request i as a turn that is sent under an id.
TurnAs(counts, i, id) ==
  [slot |-> SlotOf(counts, i), turn |-> TurnNumber(counts, i),
   prompt |-> TurnOffset(counts, SlotOf(counts, i)) + (TurnNumber(counts, i) + 1),
   session |-> id, round |-> RoundOf(counts, i)]

SlotsPlay(counts) == counts \in Seq(Nat \ {0}) /\ Len(counts) \in Nat \ {0}

LEMMA SlotFacts ==
  ASSUME NEW counts, SlotsPlay(counts), NEW i \in Nat
  PROVE  /\ SlotOf(counts, i) \in 1 .. Len(counts) /\ RoundOf(counts, i) \in Nat
         /\ TurnsOf(counts, i) \in Nat \ {0} /\ TurnNumber(counts, i) \in 0 .. TurnsOf(counts, i) - 1
<1>1. PICK m \in Nat \ {0} : m = Len(counts)
  BY DEF SlotsPlay
<1>2. i % m \in 0 .. m - 1 /\ i \div m \in Nat
  OBVIOUS
<1>3. SlotOf(counts, i) \in 1 .. m /\ RoundOf(counts, i) \in Nat
  BY <1>1, <1>2 DEF SlotOf, RoundOf
<1>4. TurnsOf(counts, i) \in Nat \ {0}
  <2>1. counts \in Seq(Nat \ {0}) /\ SlotOf(counts, i) \in 1 .. Len(counts)
    BY <1>1, <1>3 DEF SlotsPlay
  <2> QED
    BY <2>1, ElementIn DEF TurnsOf
<1>5. TurnNumber(counts, i) \in 0 .. TurnsOf(counts, i) - 1
  BY <1>3, <1>4, RemainderIn DEF TurnNumber
<1> QED
  BY <1>1, <1>3, <1>4, <1>5

BlueprintsOf(b, counts) ==
  /\ b = [c \in 1 .. Len(counts) |-> [t \in 1 .. counts[c] |-> TurnOffset(counts, c) + t]]
  /\ Len(b) = Len(counts) /\ DOMAIN b = 1 .. Len(counts)
  /\ \A c \in 1 .. Len(counts) : Len(b[c]) = counts[c] /\ \A t \in 1 .. counts[c] : b[c][t] = TurnOffset(counts, c) + t

LEMMA BlueprintsAre == ASSUME NEW counts, SlotsPlay(counts) PROVE BlueprintsOf(Blueprints(counts), counts)
<1>1. PICK m \in Nat \ {0} : m = Len(counts) /\ DOMAIN counts = 1 .. m
  BY DEF SlotsPlay
<1>2. PICK b : b = Blueprints(counts)
  OBVIOUS
<1>3. b = [c \in 1 .. m |-> [t \in 1 .. counts[c] |-> TurnOffset(counts, c) + t]]
  BY <1>1, <1>2, Zenon DEF Blueprints
<1>4. Len(b) = m /\ DOMAIN b = 1 .. m
  BY <1>3
<1>5. ASSUME NEW c \in 1 .. m PROVE Len(b[c]) = counts[c] /\ \A t \in 1 .. counts[c] : b[c][t] = TurnOffset(counts, c) + t
  <2>1. counts \in Seq(Nat \ {0}) /\ c \in 1 .. Len(counts)
    BY <1>1 DEF SlotsPlay
  <2>2. PICK l \in Nat : l = counts[c]
    BY <2>1, ElementIn
  <2>3. b[c] = [t \in 1 .. l |-> TurnOffset(counts, c) + t]
    BY <1>3, <2>2
  <2> QED
    BY <2>2, <2>3
<1> QED
  BY <1>1, <1>2, <1>3, <1>4, <1>5, Zenon DEF BlueprintsOf

LEMMA ConversationTurnIs ==
  ASSUME NEW counts, SlotsPlay(counts), NEW i \in Nat, NEW sessions
  PROVE  ConversationTurn(Blueprints(counts), sessions, i) =
           TurnAs(counts, i, IF TurnNumber(counts, i) = 0 /\ RoundOf(counts, i) > 0
                             THEN <<SlotOf(counts, i), RoundOf(counts, i) \div TurnsOf(counts, i)>>
                             ELSE sessions[SlotOf(counts, i)])
<1>1. PICK b : b = Blueprints(counts)
  OBVIOUS
<1>2. PICK slot \in 1 .. Len(counts) : slot = SlotOf(counts, i)
  BY SlotFacts
<1>3. PICK round \in Nat : round = RoundOf(counts, i)
  BY SlotFacts
<1>4. PICK turns \in Nat \ {0} : turns = TurnsOf(counts, i) /\ turns = counts[slot]
  BY <1>2, SlotFacts, Zenon DEF TurnsOf
<1>5. PICK turn \in 0 .. turns - 1 : turn = TurnNumber(counts, i) /\ turn = round % turns
  BY <1>3, <1>4, SlotFacts, Zenon DEF TurnNumber
<1>6. Len(b) = Len(counts) /\ Len(b[slot]) = turns /\ b[slot][turn + 1] = TurnOffset(counts, slot) + (turn + 1)
  <2>1. turn + 1 \in 1 .. turns
    BY <1>5
  <2> QED
    <3>1. BlueprintsOf(b, counts)
      BY <1>1, BlueprintsAre, Zenon
    <3>2. /\ Len(b) = Len(counts) /\ Len(b[slot]) = counts[slot]
          /\ \A t \in 1 .. counts[slot] : b[slot][t] = TurnOffset(counts, slot) + t
      BY <3>1, Zenon DEF BlueprintsOf
    <3> QED
      BY <1>4, <2>1, <3>2, Zenon
<1>7. slot = (i % Len(b)) + 1 /\ round = i \div Len(b)
  BY <1>2, <1>3, <1>6, Zenon DEF SlotOf, RoundOf
<1>8. ConversationTurn(b, sessions, i) =
        [slot |-> slot, turn |-> turn, prompt |-> b[slot][turn + 1],
         session |-> IF turn = 0 /\ round > 0 THEN <<slot, round \div turns>> ELSE sessions[slot], round |-> round]
  BY <1>5, <1>6, <1>7, Zenon DEF ConversationTurn, TurnIndex
<1> QED
  BY <1>1, <1>2, <1>3, <1>4, <1>5, <1>6, <1>8, Zenon DEF TurnAs

\* A turn under the id of its conversation.
ConversationOf(counts, i) == IdOf(SlotOf(counts, i), RoundOf(counts, i) \div TurnsOf(counts, i))
PlayedTurn(counts, i) == TurnAs(counts, i, ConversationOf(counts, i))

\* The id that is kept for the slot of a request.
KeptId(counts, i) == IF RoundOf(counts, i) = 0 THEN <<SlotOf(counts, i)>>
                     ELSE IdOf(SlotOf(counts, i), (RoundOf(counts, i) - 1) \div TurnsOf(counts, i))

\* What the worker has after the first k requests.
PlayedTo(state, counts, k) ==
  /\ Len(state.turns) = k
  /\ \A j \in 1 .. k : state.turns[j] = PlayedTurn(counts, j - 1)
  /\ \A i \in k .. k + Len(counts) - 1 : state.sessions[SlotOf(counts, i)] = KeptId(counts, i)

LoadedTurns == [slot : Nat, turn : Nat, prompt : Int, session : Seq(Nat), round : Nat]
TurnStates(m) == [turns : Seq(LoadedTurns), sessions : [1 .. m -> Seq(Nat)]]

LEMMA OffsetsAre ==
  ASSUME NEW counts, SlotsPlay(counts)
  PROVE  \E sums : /\ SumsUp(sums, counts) /\ Sum(counts) = sums[Len(counts)]
                   /\ \A c \in 1 .. Len(counts) + 1 : TurnOffset(counts, c) = sums[c - 1]
<1>1. counts \in Seq(Int)
  BY DEF SlotsPlay
<1>2. PICK sums : SumsUp(sums, counts) /\ Sum(counts) = sums[Len(counts)]
  BY <1>1, PrefixSums
<1>3. ASSUME NEW c \in 1 .. Len(counts) + 1 PROVE TurnOffset(counts, c) = sums[c - 1]
  <2>1. TurnOffset(counts, c) = Sum(SubSeq(counts, 1, c - 1))
    BY Zenon DEF TurnOffset, Sum
  <2>2. c - 1 \in 0 .. Len(counts)
    BY DEF SlotsPlay
  <2> QED
    BY <1>2, <2>1, <2>2, Zenon DEF SumsUp
<1> QED
  BY <1>2, <1>3, Zenon

LEMMA TurnIn ==
  ASSUME NEW counts, SlotsPlay(counts), NEW i \in Nat, NEW id \in Seq(Nat)
  PROVE  TurnAs(counts, i, id) \in LoadedTurns
<1>1. PICK sums : SumsUp(sums, counts) /\ \A c \in 1 .. Len(counts) + 1 : TurnOffset(counts, c) = sums[c - 1]
  BY OffsetsAre
<1>2. PICK slot \in 1 .. Len(counts) : slot = SlotOf(counts, i)
  BY SlotFacts
<1>3. PICK turn \in Nat : turn = TurnNumber(counts, i)
  BY SlotFacts
<1>4. PICK round \in Nat : round = RoundOf(counts, i)
  BY SlotFacts
<1>5. PICK m \in Nat : m = Len(counts)
  BY DEF SlotsPlay
<1>6. slot \in 1 .. m + 1 /\ slot - 1 \in 0 .. m /\ slot \in Nat
  BY <1>5
<1>7. TurnOffset(counts, slot) \in Int
  <2>1. sums \in [0 .. m -> Int]
    BY <1>1, <1>5, Zenon DEF SumsUp
  <2>2. TurnOffset(counts, slot) = sums[slot - 1]
    BY <1>1, <1>5, <1>6
  <2> QED
    BY <1>6, <2>1, <2>2
<1>8. TurnOffset(counts, slot) + (turn + 1) \in Int
  BY <1>7
<1>9. TurnAs(counts, i, id) = [slot |-> slot, turn |-> turn, prompt |-> TurnOffset(counts, slot) + (turn + 1), session |-> id, round |-> round]
  BY <1>2, <1>3, <1>4, Zenon DEF TurnAs
<1> QED
  BY <1>6, <1>8, <1>9 DEF LoadedTurns

\* A worker that has states of one kind goes on to another.
LEMMA LoadedIn ==
  ASSUME NEW counts, SlotsPlay(counts), NEW made \in TurnStates(Len(counts)), NEW i \in Nat
  PROVE  Loaded(Blueprints(counts), made, i) \in TurnStates(Len(counts))
<1>1. PICK slot \in 1 .. Len(counts) : slot = SlotOf(counts, i)
  BY SlotFacts
<1>2. PICK q \in Nat : q = RoundOf(counts, i) \div TurnsOf(counts, i)
  <2>1. RoundOf(counts, i) \in Nat /\ TurnsOf(counts, i) \in Nat \ {0}
    BY SlotFacts
  <2> QED
    BY <2>1
<1>3. made.turns \in Seq(LoadedTurns) /\ made.sessions \in [1 .. Len(counts) -> Seq(Nat)]
  BY DEF TurnStates
<1>4. made.sessions[slot] \in Seq(Nat)
  BY <1>3
<1>5. <<slot, q>> \in Seq(Nat)
  <2>1. slot \in Nat
    BY DEF SlotsPlay
  <2> QED
    BY <2>1
<1>6. PICK id \in Seq(Nat) : id = IF TurnNumber(counts, i) = 0 /\ RoundOf(counts, i) > 0 THEN <<slot, q>> ELSE made.sessions[slot]
  BY <1>4, <1>5, Zenon
<1>7. PICK turn \in LoadedTurns : turn = TurnAs(counts, i, id)
  BY TurnIn
<1>8. ConversationTurn(Blueprints(counts), made.sessions, i) = turn
  BY <1>1, <1>2, <1>6, <1>7, ConversationTurnIs, Zenon
<1>9. turn.slot = slot /\ turn.session = id
  BY <1>1, <1>7 DEF TurnAs
<1>10. Loaded(Blueprints(counts), made, i) =
         [turns |-> Append(made.turns, turn), sessions |-> [made.sessions EXCEPT ![slot] = id]]
  BY <1>8, <1>9, Zenon DEF Loaded
<1>11. Append(made.turns, turn) \in Seq(LoadedTurns)
  BY <1>3, AppendIs
<1>12. [made.sessions EXCEPT ![slot] = id] \in [1 .. Len(counts) -> Seq(Nat)]
  BY <1>3
<1> QED
  BY <1>10, <1>11, <1>12 DEF TurnStates

\* The id that is sent is that of the conversation.
LEMMA SentIdIs ==
  ASSUME NEW counts, SlotsPlay(counts), NEW i \in Nat
  PROVE  (IF TurnNumber(counts, i) = 0 /\ RoundOf(counts, i) > 0
          THEN <<SlotOf(counts, i), RoundOf(counts, i) \div TurnsOf(counts, i)>> ELSE KeptId(counts, i)) = ConversationOf(counts, i)
<1>1. PICK slot : slot = SlotOf(counts, i)
  OBVIOUS
<1>2. PICK round \in Nat : round = RoundOf(counts, i)
  BY SlotFacts
<1>3. PICK turns \in Nat \ {0} : turns = TurnsOf(counts, i)
  BY SlotFacts
<1>4. TurnNumber(counts, i) = round % turns
  BY <1>2, <1>3, Zenon DEF TurnNumber
<1>5. CASE round = 0
  <2>1. 0 \div turns = 0 /\ ~(0 > 0)
    OBVIOUS
  <2> QED
    BY <1>1, <1>2, <1>3, <1>5, <2>1, Zenon DEF KeptId, ConversationOf, IdOf
<1>6. CASE round # 0
  <2>1. round \in Nat \ {0} /\ round > 0
    BY <1>6
  <2>2. CASE round % turns = 0
    <3>1. round \div turns # 0
      BY <2>1, <2>2, NextRound
    <3> QED
      BY <1>1, <1>2, <1>3, <1>4, <2>1, <2>2, <3>1, Zenon DEF ConversationOf, IdOf
  <2>3. CASE round % turns # 0
    <3>1. (round - 1) \div turns = round \div turns
      BY <2>1, <2>3, NextRound
    <3> QED
      BY <1>1, <1>2, <1>3, <1>4, <1>6, <2>3, <3>1, Zenon DEF KeptId, ConversationOf
  <2> QED
    BY <2>2, <2>3
<1> QED
  BY <1>5, <1>6

LEMMA PlayedOn ==
  ASSUME NEW counts, SlotsPlay(counts), NEW made \in TurnStates(Len(counts)), NEW k \in Nat, PlayedTo(made, counts, k)
  PROVE  PlayedTo(Loaded(Blueprints(counts), made, k), counts, k + 1)
<1>1. PICK m \in Nat \ {0} : m = Len(counts)
  BY DEF SlotsPlay
<1>2. PICK slot \in 1 .. m : slot = SlotOf(counts, k)
  BY <1>1, SlotFacts
<1>3. PICK id : id = ConversationOf(counts, k)
  OBVIOUS
<1>4. PICK turn : turn = PlayedTurn(counts, k)
  OBVIOUS
<1>5. turn.slot = slot /\ turn.session = id
  BY <1>2, <1>3, <1>4 DEF PlayedTurn, TurnAs
<1>6. ConversationTurn(Blueprints(counts), made.sessions, k) = turn
  <2>1. k \in k .. k + m - 1
    OBVIOUS
  <2>2. made.sessions[SlotOf(counts, k)] = KeptId(counts, k)
    BY <1>1, <2>1 DEF PlayedTo
  <2> QED
    BY <1>4, <2>2, ConversationTurnIs, SentIdIs, Zenon DEF PlayedTurn
<1>7. PICK turns \in Seq(LoadedTurns), sessions \in [1 .. m -> Seq(Nat)] : turns = made.turns /\ sessions = made.sessions
  BY <1>1 DEF TurnStates
<1>8. PICK after : after = Loaded(Blueprints(counts), made, k)
  OBVIOUS
<1>9. after.turns = Append(turns, turn) /\ after.sessions = [sessions EXCEPT ![slot] = id]
  BY <1>5, <1>6, <1>7, <1>8 DEF Loaded
<1>10. Len(turns) = k
  BY <1>7, Zenon DEF PlayedTo
<1>11. turn \in LoadedTurns
  <2>1. \E q \in Nat : id = IdOf(slot, q)
    <3>1. RoundOf(counts, k) \in Nat /\ TurnsOf(counts, k) \in Nat \ {0}
      BY SlotFacts
    <3>2. PICK round \in Nat, size \in Nat \ {0} : round = RoundOf(counts, k) /\ size = TurnsOf(counts, k)
      BY <3>1, Zenon
    <3>3. PICK q \in Nat : q = round \div size
      BY Division, Zenon
    <3> QED
      BY <1>2, <1>3, <3>2, <3>3, Zenon DEF ConversationOf
  <2>2. id \in Seq(Nat)
    <3>1. slot \in Nat
      OBVIOUS
    <3> QED
      BY <2>1, <3>1 DEF IdOf
  <2> QED
    BY <1>3, <1>4, <2>2, TurnIn, Zenon DEF PlayedTurn
<1>12. PICK all : all = Append(turns, turn)
  OBVIOUS
<1>13. Len(all) = k + 1 /\ all[k + 1] = turn /\ \A j \in 1 .. k : all[j] = turns[j]
  BY <1>10, <1>11, <1>12, AppendIs
<1>14. ASSUME NEW j \in 1 .. k + 1 PROVE all[j] = PlayedTurn(counts, j - 1)
  <2>1. CASE j = k + 1
    <3>1. j - 1 = k
      BY <2>1
    <3> QED
      BY <1>4, <1>13, <2>1, <3>1, Zenon
  <2>2. CASE j # k + 1
    <3>1. j \in 1 .. k
      BY <2>2
    <3> QED
      BY <1>7, <1>13, <3>1, Zenon DEF PlayedTo
  <2> QED
    BY <2>1, <2>2
<1>15. ASSUME NEW i \in k + 1 .. k + 1 + m - 1 PROVE after.sessions[SlotOf(counts, i)] = KeptId(counts, i)
  <2>1. i \in Nat /\ SlotOf(counts, i) \in 1 .. m
    <3>1. i \in Nat
      OBVIOUS
    <3> QED
      BY <1>1, <3>1, SlotFacts, Zenon
  <2>2. CASE i = k + m
    <3>1. SlotOf(counts, i) = slot /\ RoundOf(counts, i) = RoundOf(counts, k) + 1
      BY <1>1, <1>2, <2>2, SlotComesAgain, Zenon DEF SlotOf, RoundOf
    <3>2. PICK round \in Nat : round = RoundOf(counts, k)
      BY SlotFacts
    <3>3. round + 1 # 0 /\ (round + 1) - 1 = round
      OBVIOUS
    <3>4. TurnsOf(counts, i) = TurnsOf(counts, k)
      BY <1>2, <3>1, Zenon DEF TurnsOf
    <3>5. KeptId(counts, i) = id
      BY <1>2, <1>3, <3>1, <3>2, <3>3, <3>4, Zenon DEF KeptId, ConversationOf
    <3>6. after.sessions[slot] = id
      BY <1>2, <1>7, <1>9
    <3> QED
      BY <3>1, <3>5, <3>6, Zenon
  <2>3. CASE i # k + m
    <3>1. i \in k .. k + m - 1 /\ k < i /\ ~(k + m <= i)
      BY <2>3
    <3>2. SlotOf(counts, i) # slot
      <4>1. i % m # k % m
        BY <2>1, <3>1, SlotsApart
      <4>2. \A a, b \in Nat : a + 1 = b + 1 => a = b
        OBVIOUS
      <4>3. i % m \in Nat /\ k % m \in Nat
        BY <2>1
      <4> QED
        BY <1>1, <1>2, <4>1, <4>2, <4>3, Zenon DEF SlotOf
    <3>3. sessions[SlotOf(counts, i)] = KeptId(counts, i)
      BY <1>1, <1>7, <3>1, Zenon DEF PlayedTo
    <3>4. after.sessions[SlotOf(counts, i)] = sessions[SlotOf(counts, i)]
      BY <1>2, <1>7, <1>9, <2>1, <3>2
    <3> QED
      BY <3>3, <3>4, Zenon
  <2> QED
    BY <2>2, <2>3
<1> QED
  BY <1>1, <1>8, <1>9, <1>12, <1>13, <1>14, <1>15, Zenon DEF PlayedTo

LEMMA TurnsPlayed ==
  ASSUME NEW counts, SlotsPlay(counts), NEW n \in Nat
  PROVE  \E turns \in Seq(LoadedTurns) : /\ turns = ConversationTurns(Blueprints(counts), n) /\ Len(turns) = n
                                         /\ \A k \in 1 .. n : turns[k] = PlayedTurn(counts, k - 1)
<1>1. PICK b : b = Blueprints(counts)
  OBVIOUS
<1>2. PICK m \in Nat \ {0} : m = Len(counts)
  BY DEF SlotsPlay
<1>3. PICK V : V = TurnStates(m)
  OBVIOUS
<1>4. \A k \in 1 .. n : [i \in 1 .. n |-> i - 1][k] = k - 1 /\ k - 1 \in Nat
  OBVIOUS
<1>5. NothingLoaded(b) \in V /\ PlayedTo(NothingLoaded(b), counts, 0)
  <2>1. NothingLoaded(b) = [turns |-> <<>>, sessions |-> [s \in 1 .. m |-> <<s>>]]
    <3>1. DOMAIN b = 1 .. m
      BY <1>1, <1>2, BlueprintsAre, Zenon DEF BlueprintsOf
    <3> QED
      BY <3>1, Zenon DEF NothingLoaded
  <2>2. <<>> \in Seq(LoadedTurns)
    OBVIOUS
  <2>3. [s \in 1 .. m |-> <<s>>] \in [1 .. m -> Seq(Nat)]
    OBVIOUS
  <2>4. NothingLoaded(b) \in V
    BY <1>3, <2>1, <2>2, <2>3 DEF TurnStates
  <2>5. NothingLoaded(b).turns = <<>> /\ NothingLoaded(b).sessions = [s \in 1 .. m |-> <<s>>]
    BY <2>1
  <2>6. Len(NothingLoaded(b).turns) = 0 /\ 1 .. 0 = {}
    BY <2>5
  <2>7. ASSUME NEW i \in 0 .. 0 + m - 1 PROVE NothingLoaded(b).sessions[SlotOf(counts, i)] = KeptId(counts, i)
    <3>1. i \in Nat /\ i \div m = 0
      <4>1. i \in Nat /\ i < m
        OBVIOUS
      <4>2. (0 * m + i) \div m = 0
        BY <4>1, DivisionIsOne
      <4>3. 0 * m + i = i
        OBVIOUS
      <4> QED
        BY <4>1, <4>2, <4>3
    <3>2. SlotOf(counts, i) \in 1 .. m /\ RoundOf(counts, i) = 0
      BY <1>2, <3>1, SlotFacts DEF RoundOf
    <3>3. KeptId(counts, i) = <<SlotOf(counts, i)>>
      BY <3>2, Zenon DEF KeptId
    <3> QED
      BY <2>5, <3>2, <3>3
  <2> QED
    BY <1>2, <2>4, <2>6, <2>7, Zenon DEF PlayedTo
<1>6. TurnsStays(V, n, b)
  <2>1. ASSUME NEW k \in 1 .. n, NEW v \in V PROVE LoadedNext(b, n, v, k) \in V
    <3>1. k - 1 \in Nat /\ LoadedNext(b, n, v, k) = Loaded(b, v, k - 1)
      BY <1>4, Zenon DEF LoadedNext
    <3> QED
      BY <1>1, <1>2, <1>3, <3>1, LoadedIn, Zenon
  <2> QED
    BY <1>5, <2>1, Zenon DEF TurnsStays
<1>7. PICK r \in [0 .. n -> V] : TurnsGoes(r, n, b)
  BY <1>6, TurnsRun, Zenon
<1> DEFINE Played == {k \in Nat : k <= n => PlayedTo(r[k], counts, k)}
<1>8. 0 \in Played
  BY <1>5, <1>7 DEF TurnsGoes
<1>9. ASSUME NEW k \in Nat, k \in Played PROVE k + 1 \in Played
  <2> SUFFICES ASSUME k + 1 <= n PROVE PlayedTo(r[k + 1], counts, k + 1)
    OBVIOUS
  <2>1. PICK j \in 1 .. n : j = k + 1 /\ j - 1 = k /\ k \in 0 .. n /\ PlayedTo(r[k], counts, k)
    BY <1>9
  <2>2. r[j] = LoadedNext(b, n, r[k], j)
    BY <1>7, <2>1, Zenon DEF TurnsGoes
  <2>3. r[j] = Loaded(b, r[k], k)
    BY <1>4, <2>1, <2>2, Zenon DEF LoadedNext
  <2>4. r[k] \in TurnStates(Len(counts))
    BY <1>2, <1>3, <1>7, <2>1
  <2> QED
    BY <1>1, <2>1, <2>3, <2>4, PlayedOn, Zenon
<1>10. \A k \in Nat : k \in Played
  <2> HIDE DEF Played
  <2> QED
    BY <1>8, <1>9, NatSetInduction
<1>11. PlayedTo(r[n], counts, n) /\ r[n] \in V
  <2>1. n \in 0 .. n
    OBVIOUS
  <2> QED
    BY <1>7, <1>10, <2>1
<1>12. r[n].turns = ConversationTurns(b, n) /\ r[n].turns \in Seq(LoadedTurns)
  BY <1>3, <1>7, <1>11 DEF TurnsGoes, TurnStates
<1> QED
  BY <1>1, <1>11, <1>12, Zenon DEF PlayedTo

\* Sequences with the same elements are the same.
LEMMA SameSeq ==
  ASSUME NEW S, NEW a \in Seq(S), NEW b \in Seq(S), Len(a) = Len(b), \A k \in 1 .. Len(b) : a[k] = b[k]
  PROVE  a = b
  OBVIOUS

\* Numbers after numbers.
LEMMA NumbersJoin ==
  ASSUME NEW old \in Seq(Int), NEW more \in Seq(Int)
  PROVE  /\ Len(old \o more) = Len(old) + Len(more)
         /\ \A i \in 1 .. Len(old) : (old \o more)[i] = old[i]
         /\ \A i \in 1 .. Len(more) : (old \o more)[Len(old) + i] = more[i]
  OBVIOUS

\* The prompts of all slots are the numbers of all turns.
LEMMA AllTurnsAreDealt ==
  ASSUME NEW counts, SlotsPlay(counts)
  PROVE  FlattenSeq(Blueprints(counts)) =
           [k \in 1 .. TurnOffset(Append(counts, 0), Len(counts) + 1) |-> k]
<1>1. PICK m \in Nat \ {0} : m = Len(counts)
  BY DEF SlotsPlay
<1>2. PICK sums : /\ SumsUp(sums, counts) /\ Sum(counts) = sums[m]
                  /\ \A c \in 1 .. m + 1 : TurnOffset(counts, c) = sums[c - 1]
  BY <1>1, OffsetsAre, Zenon
<1>3. \A k \in 0 .. m : sums[k] \in Nat
  <2>1. counts \in Seq(Nat \ {0})
    BY DEF SlotsPlay
  <2> QED
    BY <1>1, <1>2, <2>1, SumsGrowUp, Zenon
<1>4. sums[0] = 0 /\ \A k \in 1 .. m : sums[k] = sums[k - 1] + counts[k]
  BY <1>1, <1>2, Zenon DEF SumsUp
<1>5. \A k \in 1 .. m : counts[k] \in Nat
  <2>1. counts \in Seq(Nat \ {0})
    BY DEF SlotsPlay
  <2> QED
    BY <1>1, <2>1, ElementIn
<1>6. PICK b : b = Blueprints(counts)
  OBVIOUS
<1>7. BlueprintsOf(b, counts)
  BY <1>6, BlueprintsAre, Zenon
<1>8. ASSUME NEW c \in 1 .. m
      PROVE  b[c] \in Seq(Int) /\ Len(b[c]) = counts[c] /\ \A t \in 1 .. counts[c] : b[c][t] = sums[c - 1] + t
  <2>1. PICK l \in Nat : l = counts[c]
    BY <1>5
  <2>2. PICK off \in Nat : off = sums[c - 1] /\ off = TurnOffset(counts, c)
    <3>1. c - 1 \in 0 .. m /\ c \in 1 .. m + 1
      OBVIOUS
    <3> QED
      BY <1>2, <1>3, <3>1, Zenon
  <2>3. b[c] = [t \in 1 .. l |-> off + t]
    BY <1>1, <1>7, <2>1, <2>2 DEF BlueprintsOf
  <2>4. b[c] \in Seq(Int) /\ Len(b[c]) = l /\ \A t \in 1 .. l : b[c][t] = off + t
    BY <2>3
  <2> QED
    BY <2>1, <2>2, <2>4, Zenon
<1>9. b \in Seq(Seq(Int)) /\ Len(b) = m
  <2>1. Len(b) = m /\ DOMAIN b = 1 .. m /\ b = [c \in 1 .. m |-> b[c]]
    BY <1>1, <1>7 DEF BlueprintsOf
  <2>2. \A c \in 1 .. m : b[c] \in Seq(Int)
    BY <1>8
  <2>3. PICK W : W = Seq(Int)
    OBVIOUS
  <2>4. b \in Seq(W)
    BY <2>1, <2>2, <2>3
  <2> QED
    BY <2>1, <2>3, <2>4
<1>10. PICK joined : Joins(joined, b, Int) /\ FlattenSeq(b) = joined[m]
  BY <1>9, FlattenJoins
<1>11. joined \in [0 .. m -> Seq(Int)] /\ joined[0] = <<>> /\ \A k \in 1 .. m : joined[k] = joined[k - 1] \o b[k]
  BY <1>9, <1>10, Zenon DEF Joins
<1> DEFINE Counted == {k \in Nat : k <= m => Len(joined[k]) = sums[k] /\ \A i \in 1 .. sums[k] : joined[k][i] = i}
<1>12. 0 \in Counted
  BY <1>4, <1>11
<1>13. ASSUME NEW k \in Nat, k \in Counted PROVE k + 1 \in Counted
  <2> SUFFICES ASSUME k + 1 <= m
               PROVE  Len(joined[k + 1]) = sums[k + 1] /\ \A i \in 1 .. sums[k + 1] : joined[k + 1][i] = i
    OBVIOUS
  <2>1. PICK j \in 1 .. m : j = k + 1 /\ j - 1 = k /\ k \in 0 .. m /\ j \in 0 .. m
    OBVIOUS
  <2>2. PICK s \in Nat : s = sums[k]
    BY <1>3, <2>1
  <2>3. PICK c \in Nat : c = counts[j]
    BY <1>5
  <2>4. sums[j] = s + c
    BY <1>4, <2>1, <2>2, <2>3, Zenon
  <2>5. PICK old \in Seq(Int) : old = joined[k] /\ Len(old) = s /\ \A i \in 1 .. s : old[i] = i
    <3>1. joined[k] \in Seq(Int)
      BY <1>11, <2>1
    <3>2. Len(joined[k]) = s /\ \A i \in 1 .. s : joined[k][i] = i
      BY <1>13, <2>1, <2>2
    <3> QED
      BY <3>1, <3>2, Zenon
  <2>6. PICK more \in Seq(Int) : more = b[j] /\ Len(more) = c /\ \A t \in 1 .. c : more[t] = s + t
    <3>1. b[j] \in Seq(Int) /\ Len(b[j]) = counts[j] /\ \A t \in 1 .. counts[j] : b[j][t] = sums[j - 1] + t
      BY <1>8
    <3>2. sums[j - 1] = s
      BY <2>1, <2>2, Zenon
    <3> QED
      BY <2>3, <3>1, <3>2, Zenon
  <2>7. PICK new : new = old \o more
    OBVIOUS
  <2>8. joined[j] = new
    BY <1>11, <2>1, <2>5, <2>6, <2>7, Zenon
  <2>9. Len(new) = s + c /\ (\A i \in 1 .. s : new[i] = old[i]) /\ \A i \in 1 .. c : new[s + i] = more[i]
    <3>1. Len(new) = Len(old) + Len(more) /\ (\A i \in 1 .. Len(old) : new[i] = old[i])
            /\ \A i \in 1 .. Len(more) : new[Len(old) + i] = more[i]
      BY <2>7, NumbersJoin, Zenon
    <3> QED
      BY <2>5, <2>6, <3>1, Zenon
  <2>10. ASSUME NEW i \in 1 .. s + c PROVE new[i] = i
    <3>1. CASE i <= s
      <4>1. i \in 1 .. s
        BY <3>1
      <4> QED
        BY <2>5, <2>9, <4>1, Zenon
    <3>2. CASE ~(i <= s)
      <4>1. PICK t \in 1 .. c : t = i - s /\ s + t = i
        <5>1. i - s \in 1 .. c /\ s + (i - s) = i
          BY <3>2
        <5> QED
          BY <5>1, Zenon
      <4> QED
        BY <2>6, <2>9, <4>1, Zenon
    <3> QED
      BY <3>1, <3>2
  <2> QED
    BY <2>1, <2>4, <2>8, <2>9, <2>10, Zenon
<1>14. \A k \in Nat : k \in Counted
  <2> HIDE DEF Counted
  <2> QED
    BY <1>12, <1>13, NatSetInduction
<1>15. PICK all \in Seq(Int), total \in Nat : all = joined[m] /\ total = sums[m] /\ Len(all) = total /\ \A i \in 1 .. total : all[i] = i
  <2>1. m \in 0 .. m /\ joined[m] \in Seq(Int)
    BY <1>11
  <2> QED
    BY <1>3, <1>14, <2>1
<1>16. all = [k \in 1 .. total |-> k]
  <2>1. DOMAIN all = 1 .. total /\ all = [k \in 1 .. total |-> all[k]]
    BY <1>15
  <2> QED
    BY <1>15, <2>1
<1>17. TurnOffset(Append(counts, 0), m + 1) = total
  <2>1. PICK more : more = Append(counts, 0)
    OBVIOUS
  <2>2. counts \in Seq(Int) /\ 0 \in Int
    BY DEF SlotsPlay
  <2>3. more \in Seq(Int) /\ Len(more) = m + 1 /\ \A k \in 1 .. m : more[k] = counts[k]
    BY <1>1, <2>1, <2>2, AppendIs
  <2>4. SubSeq(more, 1, m) = counts
    <3>1. SubSeq(more, 1, m) \in Seq(Int) /\ Len(SubSeq(more, 1, m)) = m /\ \A k \in 1 .. m : SubSeq(more, 1, m)[k] = more[k]
      BY <2>3
    <3>2. PICK part \in Seq(Int) : part = SubSeq(more, 1, m)
      BY <3>1
    <3>3. Len(part) = Len(counts) /\ \A k \in 1 .. Len(counts) : part[k] = counts[k]
      BY <1>1, <2>3, <3>1, <3>2
    <3>4. part = counts
      BY <2>2, <3>2, <3>3, SameSeq, Zenon
    <3> QED
      BY <3>2, <3>4
  <2>5. (m + 1) - 1 = m
    OBVIOUS
  <2>6. TurnOffset(more, m + 1) = Sum(SubSeq(more, 1, m))
    BY <2>5, Zenon DEF TurnOffset, Sum
  <2> QED
    BY <1>2, <1>15, <2>1, <2>4, <2>6, Zenon
<1> QED
  BY <1>1, <1>6, <1>10, <1>15, <1>16, <1>17, Zenon

\* The requests of one slot before a request are as many as its rounds.
LEMMA SlotsCount ==
  ASSUME NEW i \in Nat, NEW m \in Nat \ {0}
  PROVE  Cardinality({l \in 1 .. i : (l - 1) % m = i % m}) = i \div m
<1>1. PICK q \in Nat, r \in Nat : i = q * m + r /\ r < m /\ r = i % m /\ q = i \div m
  BY Division
<1> DEFINE Upto(p) == {l \in 1 .. p * m + r : (l - 1) % m = r}
           Counted == {p \in Nat : IsFiniteSet(Upto(p)) /\ Cardinality(Upto(p)) = p}
<1>2. 0 \in Counted
  <2>1. ASSUME NEW l \in 1 .. r PROVE (l - 1) % m # r
    <3>1. PICK j \in Nat : j = l - 1 /\ j < r /\ j < m
      <4>1. l - 1 \in Nat /\ l - 1 < r /\ l - 1 < m
        BY <1>1
      <4> QED
        BY <4>1, Zenon
    <3>2. (0 * m + j) % m = j
      BY <3>1, DivisionIsOne
    <3>3. 0 * m + j = j
      OBVIOUS
    <3>4. j # r
      BY <3>1
    <3> QED
      BY <3>1, <3>2, <3>3, <3>4, Zenon
  <2>2. 0 * m + r = r
    OBVIOUS
  <2>3. Upto(0) = {}
    BY <2>1, <2>2, Zenon
  <2> QED
    BY <2>3, FS_EmptySet
<1>3. ASSUME NEW p \in Nat, p \in Counted PROVE p + 1 \in Counted
  <2>1. PICK w \in Nat : w = p * m + r
    <3>1. PICK v \in Nat : v = p * m
      OBVIOUS
    <3>2. v + r \in Nat
      OBVIOUS
    <3> QED
      BY <3>1, <3>2, Zenon
  <2>2. (p + 1) * m + r = w + m
    <3>1. PICK v \in Nat : v = p * m
      OBVIOUS
    <3>2. (p + 1) * m = p * m + m
      OBVIOUS
    <3>3. w = v + r
      BY <2>1, <3>1
    <3>4. (v + m) + r = w + m
      BY <3>3
    <3> QED
      BY <3>1, <3>2, <3>4, Zenon
  <2>3. w % m = r
    BY <1>1, <2>1, DivisionIsOne
  <2>4. PICK S : S = {l \in 1 .. w : (l - 1) % m = r}
    OBVIOUS
  <2>5. PICK T : T = {l \in 1 .. w + m : (l - 1) % m = r}
    OBVIOUS
  <2>6. IsFiniteSet(S) /\ Cardinality(S) = p
    BY <1>3, <2>1, <2>4, Zenon
  <2>7. w + 1 \notin S
    BY <2>4
  <2>8. ASSUME NEW l \in 1 .. w + m PROVE (l - 1) % m = r <=> (l \in S \/ l = w + 1)
    <3>1. CASE l <= w
      <4>1. l \in 1 .. w /\ l # w + 1
        BY <3>1
      <4> QED
        BY <2>4, <4>1, Zenon
    <3>2. CASE l = w + 1
      <4>1. l - 1 = w
        BY <3>2
      <4> QED
        BY <2>3, <3>2, <4>1, Zenon
    <3>3. CASE w + 1 < l
      <4>1. PICK j \in Nat : j = l - 1 /\ w < j /\ j < w + m
        <5>1. l - 1 \in Nat /\ w < l - 1 /\ l - 1 < w + m
          BY <3>3
        <5> QED
          BY <5>1, Zenon
      <4>2. ASSUME j % m = w % m PROVE FALSE
        <5>1. w + m <= j
          BY <4>1, <4>2, SlotsApart
        <5> QED
          BY <4>1, <5>1
      <4>3. l # w + 1 /\ l \notin 1 .. w
        BY <3>3
      <4> QED
        BY <2>3, <2>4, <4>1, <4>2, <4>3, Zenon
    <3> QED
      BY <3>1, <3>2, <3>3
  <2>9. T = S \cup {w + 1}
    <3>1. S \subseteq 1 .. w + m /\ w + 1 \in 1 .. w + m
      BY <2>4
    <3> QED
      BY <2>5, <2>8, <3>1, Zenon
  <2>10. IsFiniteSet(T) /\ Cardinality(T) = p + 1
    BY <2>6, <2>7, <2>9, FS_AddElement
  <2>11. p + 1 \in Nat
    OBVIOUS
  <2> QED
    BY <2>2, <2>5, <2>10, <2>11, Zenon
<1>4. \A p \in Nat : p \in Counted
  <2> HIDE DEF Counted
  <2> QED
    BY <1>2, <1>3, NatSetInduction
<1> QED
  BY <1>1, <1>4, Zenon

\* The turns a worker plays.
TurnsAre(turns, counts) ==
  turns \in Seq(LoadedTurns) /\ \A k \in DOMAIN turns : turns[k] = PlayedTurn(counts, k - 1)

EarlierTurns(turns, k) == {l \in 1 .. (k - 1) : turns[l].slot = turns[k].slot}

LEMMA TurnIs ==
  ASSUME NEW counts, SlotsPlay(counts), NEW turns, TurnsAre(turns, counts), NEW k \in DOMAIN turns
  PROVE  /\ k - 1 \in Nat /\ turns[k].slot = SlotOf(counts, k - 1) /\ turns[k].turn = TurnNumber(counts, k - 1)
         /\ turns[k].prompt = TurnOffset(counts, SlotOf(counts, k - 1)) + (TurnNumber(counts, k - 1) + 1)
         /\ turns[k].session = ConversationOf(counts, k - 1) /\ turns[k].round = RoundOf(counts, k - 1)
<1>1. k - 1 \in Nat
  BY DEF TurnsAre
<1>2. turns[k] = TurnAs(counts, k - 1, ConversationOf(counts, k - 1))
  BY Zenon DEF TurnsAre, PlayedTurn
<1> QED
  BY <1>1, <1>2 DEF TurnAs

LEMMA EarlierCount ==
  ASSUME NEW counts, SlotsPlay(counts), NEW turns, TurnsAre(turns, counts), NEW k \in DOMAIN turns
  PROVE  Cardinality(EarlierTurns(turns, k)) = RoundOf(counts, k - 1)
<1>1. PICK m \in Nat \ {0} : m = Len(counts)
  BY DEF SlotsPlay
<1>2. PICK i \in Nat : i = k - 1
  BY TurnIs
<1>3. 1 .. i \subseteq DOMAIN turns
  BY <1>2 DEF TurnsAre
<1>4. ASSUME NEW l \in 1 .. i PROVE turns[l].slot = turns[k].slot <=> (l - 1) % m = i % m
  <2>1. PICK j \in Nat : j = l - 1
    OBVIOUS
  <2>2. turns[l].slot = SlotOf(counts, j) /\ turns[k].slot = SlotOf(counts, i)
    BY <1>2, <1>3, <2>1, TurnIs, Zenon
  <2>3. turns[l].slot = (j % m) + 1 /\ turns[k].slot = (i % m) + 1
    BY <1>1, <2>2, Zenon DEF SlotOf
  <2>4. j % m \in Nat /\ i % m \in Nat
    OBVIOUS
  <2>5. \A a, b \in Nat : a + 1 = b + 1 => a = b
    OBVIOUS
  <2> QED
    BY <2>1, <2>3, <2>4, <2>5, Zenon
<1>5. EarlierTurns(turns, k) = {l \in 1 .. i : (l - 1) % m = i % m}
  BY <1>2, <1>4, Zenon DEF EarlierTurns
<1> QED
  BY <1>1, <1>2, <1>5, SlotsCount, Zenon DEF RoundOf

\* A turn of a conversation is the one that comes next, under an id of this conversation only,
\* and after the turn before it.
PromptComesNext(turns, blueprints, counts, k) ==
  turns[k].prompt = blueprints[turns[k].slot][(Cardinality(EarlierTurns(turns, k)) % counts[turns[k].slot]) + 1]

SameConversation(turns, counts, k, l) ==
  /\ turns[l].slot = turns[k].slot
  /\ turns[l].round \div counts[turns[k].slot] = turns[k].round \div counts[turns[k].slot]

ComesAfterOne(turns, k) ==
  \E l \in EarlierTurns(turns, k) : /\ \A e \in EarlierTurns(turns, k) : e <= l
                                    /\ turns[l].session = turns[k].session /\ turns[l].turn = turns[k].turn - 1

LEMMA PromptIsNext ==
  ASSUME NEW counts, SlotsPlay(counts), NEW turns, TurnsAre(turns, counts), NEW k \in DOMAIN turns,
         NEW b, BlueprintsOf(b, counts)
  PROVE  PromptComesNext(turns, b, counts, k)
<1>1. PICK i \in Nat : i = k - 1
  BY TurnIs
<1>2. PICK slot \in 1 .. Len(counts) : slot = SlotOf(counts, i)
  BY SlotFacts
<1>3. turns[k].slot = slot /\ turns[k].prompt = TurnOffset(counts, slot) + (TurnNumber(counts, i) + 1)
  BY <1>1, <1>2, TurnIs, Zenon
<1>4. TurnNumber(counts, i) = Cardinality(EarlierTurns(turns, k)) % counts[slot]
  BY <1>1, <1>2, EarlierCount, Zenon DEF TurnNumber, TurnsOf
<1>5. PICK size \in Nat \ {0} : size = counts[slot] /\ size = TurnsOf(counts, i)
  BY <1>2, SlotFacts, Zenon DEF TurnsOf
<1>6. PICK t \in 1 .. size : t = TurnNumber(counts, i) + 1
  <2>1. TurnNumber(counts, i) \in 0 .. size - 1
    BY <1>1, <1>5, SlotFacts, Zenon
  <2>2. PICK number \in 0 .. size - 1 : number = TurnNumber(counts, i)
    BY <2>1, Zenon
  <2>3. number + 1 \in 1 .. size
    OBVIOUS
  <2> QED
    BY <2>2, <2>3, Zenon
<1>7. b[slot][t] = TurnOffset(counts, slot) + t
  BY <1>2, <1>5, <1>6, Zenon DEF BlueprintsOf
<1> QED
  BY <1>3, <1>4, <1>6, <1>7, Zenon DEF PromptComesNext

LEMMA SessionIsOwn ==
  ASSUME NEW counts, SlotsPlay(counts), NEW turns, TurnsAre(turns, counts), NEW k \in DOMAIN turns, NEW l \in DOMAIN turns,
         turns[l].session = turns[k].session
  PROVE  SameConversation(turns, counts, k, l)
<1>1. PICK i \in Nat, j \in Nat : i = k - 1 /\ j = l - 1
  BY TurnIs
<1>2. PICK slot : slot = SlotOf(counts, i)
  OBVIOUS
<1>3. PICK other : other = SlotOf(counts, j)
  OBVIOUS
<1>4. PICK p \in Nat : p = RoundOf(counts, i) \div counts[slot]
  <2>1. PICK round \in Nat, size \in Nat \ {0} : round = RoundOf(counts, i) /\ size = counts[slot]
    BY <1>2, SlotFacts, Zenon DEF TurnsOf
  <2>2. PICK p \in Nat : p = round \div size
    BY Division, Zenon
  <2> QED
    BY <2>1, <2>2, Zenon
<1>5. PICK q \in Nat : q = RoundOf(counts, j) \div counts[other]
  <2>1. PICK round \in Nat, size \in Nat \ {0} : round = RoundOf(counts, j) /\ size = counts[other]
    BY <1>3, SlotFacts, Zenon DEF TurnsOf
  <2>2. PICK q \in Nat : q = round \div size
    BY Division, Zenon
  <2> QED
    BY <2>1, <2>2, Zenon
<1>6. turns[k].slot = slot /\ turns[k].round = RoundOf(counts, i) /\ turns[k].session = IdOf(slot, p)
  BY <1>1, <1>2, <1>4, TurnIs, Zenon DEF ConversationOf, TurnsOf
<1>7. turns[l].slot = other /\ turns[l].round = RoundOf(counts, j) /\ turns[l].session = IdOf(other, q)
  BY <1>1, <1>3, <1>5, TurnIs, Zenon DEF ConversationOf, TurnsOf
<1>8. slot = other /\ p = q
  <2>1. IdOf(slot, p) = IdOf(other, q)
    BY <1>6, <1>7, Zenon
  <2> QED
    BY <2>1, IdIsOne
<1> QED
  BY <1>4, <1>5, <1>6, <1>7, <1>8, Zenon DEF SameConversation

LEMMA TurnFollows ==
  ASSUME NEW counts, SlotsPlay(counts), NEW turns, TurnsAre(turns, counts), NEW k \in DOMAIN turns, turns[k].turn > 0
  PROVE  ComesAfterOne(turns, k)
<1>1. PICK m \in Nat \ {0} : m = Len(counts)
  BY DEF SlotsPlay
<1>2. PICK i \in Nat : i = k - 1
  BY TurnIs
<1>3. PICK round \in Nat, size \in Nat \ {0} : round = RoundOf(counts, i) /\ size = TurnsOf(counts, i)
  BY SlotFacts
<1>4. turns[k].slot = SlotOf(counts, i) /\ turns[k].turn = round % size /\ turns[k].session = ConversationOf(counts, i)
  BY <1>2, <1>3, TurnIs, Zenon DEF TurnNumber
<1>5. round # 0 /\ round % size # 0
  <2>1. round % size # 0
    BY <1>4
  <2>2. 0 % size = 0
    OBVIOUS
  <2> QED
    BY <2>1, <2>2, Zenon
<1>6. (round - 1) \div size = round \div size /\ (round - 1) % size = (round % size) - 1
  BY <1>5, NextRound
<1>7. m <= i
  <2>1. ASSUME i < m PROVE FALSE
    <3>1. (0 * m + i) \div m = 0
      BY <2>1, DivisionIsOne
    <3>2. 0 * m + i = i
      OBVIOUS
    <3> QED
      BY <1>1, <1>3, <1>5, <3>1, <3>2, Zenon DEF RoundOf
  <2> QED
    BY <2>1
<1>8. PICK j \in Nat : i = j + m
  <2>1. i - m \in Nat /\ i = (i - m) + m
    BY <1>7
  <2> QED
    BY <2>1, Zenon
<1>9. SlotOf(counts, j) = SlotOf(counts, i) /\ round = RoundOf(counts, j) + 1
  BY <1>1, <1>3, <1>8, SlotComesAgain, Zenon DEF SlotOf, RoundOf
<1>10. RoundOf(counts, j) = round - 1 /\ TurnsOf(counts, j) = size
  <2>1. PICK before \in Nat : before = RoundOf(counts, j)
    BY SlotFacts
  <2>2. before = round - 1
    BY <1>9, <2>1
  <2> QED
    BY <1>3, <1>9, <2>1, <2>2, Zenon DEF TurnsOf
<1>11. PICK l \in DOMAIN turns : l = j + 1 /\ l - 1 = j /\ l \in 1 .. k - 1
  <2>1. k \in Nat /\ 1 .. k \subseteq DOMAIN turns
    BY DEF TurnsAre
  <2> QED
    BY <1>2, <1>8, <2>1
<1>12. turns[l].slot = SlotOf(counts, j) /\ turns[l].turn = TurnNumber(counts, j) /\ turns[l].session = ConversationOf(counts, j)
  <2>1. /\ turns[l].slot = SlotOf(counts, l - 1) /\ turns[l].turn = TurnNumber(counts, l - 1)
        /\ turns[l].session = ConversationOf(counts, l - 1)
    BY TurnIs, Zenon
  <2> QED
    BY <1>11, <2>1, Zenon
<1>13. turns[l].turn = turns[k].turn - 1
  BY <1>4, <1>6, <1>10, <1>12, Zenon DEF TurnNumber
<1>14. turns[l].session = turns[k].session
  BY <1>3, <1>4, <1>6, <1>9, <1>10, <1>12, Zenon DEF ConversationOf
<1>15. l \in EarlierTurns(turns, k)
  BY <1>4, <1>9, <1>11, <1>12, Zenon DEF EarlierTurns
<1>16. ASSUME NEW x \in EarlierTurns(turns, k) PROVE x <= l
  <2>1. x \in 1 .. k - 1 /\ turns[x].slot = turns[k].slot
    BY Zenon DEF EarlierTurns
  <2>2. PICK y \in Nat : y = x - 1 /\ y < i /\ x \in DOMAIN turns
    <3>1. k \in Nat /\ 1 .. k \subseteq DOMAIN turns
      BY DEF TurnsAre
    <3>2. x - 1 \in Nat /\ x - 1 < i /\ x \in DOMAIN turns
      BY <1>2, <2>1, <3>1
    <3> QED
      BY <3>2, Zenon
  <2>3. SlotOf(counts, y) = SlotOf(counts, i)
    BY <1>4, <2>1, <2>2, TurnIs, Zenon
  <2>4. y % m = i % m
    <3>1. y % m \in Nat /\ i % m \in Nat
      OBVIOUS
    <3>2. \A a, b \in Nat : a + 1 = b + 1 => a = b
      OBVIOUS
    <3> QED
      BY <1>1, <2>3, <3>1, <3>2, Zenon DEF SlotOf
  <2>5. y + m <= i
    BY <2>2, <2>4, SlotsApart
  <2>6. x \in Int
    BY <2>1
  <2> QED
    BY <1>8, <1>11, <2>2, <2>5, <2>6
<1> QED
  BY <1>13, <1>14, <1>15, <1>16, Zenon DEF ComesAfterOne

\* A slot plays its conversations through, turn by turn and each under an id of its own, and
\* every turn that was sampled is dealt to one slot: for any conversations and requests
\* (conversation_replay_datagen.py).
THEOREM ConversationsPlay ==
  ASSUME NEW counts, SlotsPlay(counts), NEW n \in Nat
  PROVE  ConversationsPlayThrough(counts, n)
<1> DEFINE turns == ConversationTurns(Blueprints(counts), n)
           b == Blueprints(counts)
<1>1. TurnsAre(turns, counts)
  <2>1. PICK made \in Seq(LoadedTurns) : made = turns /\ Len(made) = n /\ \A k \in 1 .. n : made[k] = PlayedTurn(counts, k - 1)
    BY TurnsPlayed, Zenon
  <2>2. DOMAIN made = 1 .. n
    BY <2>1
  <2> QED
    BY <2>1, <2>2, Zenon DEF TurnsAre
<1>2. BlueprintsOf(b, counts)
  BY BlueprintsAre, Zenon
<1> HIDE DEF turns, b
<1>3. \A k \in DOMAIN turns : PromptComesNext(turns, b, counts, k)
  BY <1>1, <1>2, PromptIsNext, Zenon
<1>4. \A k, l \in DOMAIN turns : turns[l].session = turns[k].session => SameConversation(turns, counts, k, l)
  BY <1>1, SessionIsOwn, Zenon
<1>5. \A k \in DOMAIN turns : turns[k].turn > 0 => ComesAfterOne(turns, k)
  BY <1>1, TurnFollows, Zenon
<1>6. FlattenSeq(b) = [k \in 1 .. TurnOffset(Append(counts, 0), Len(counts) + 1) |-> k]
  BY AllTurnsAreDealt, Zenon DEF b
<1> QED
  BY <1>3, <1>4, <1>5, <1>6, Zenon
  DEF ConversationsPlayThrough, PromptComesNext, SameConversation, ComesAfterOne, EarlierTurns, turns, b

(***************************************************************************)
(* What the runs check of turns, for inputs of every size                  *)
(***************************************************************************)
\* What the runs make of turns, without their bounds.
AnyUsers(x) ==
  x.groups \in Nat \ {0} /\ x.prompts \in Nat \ {0} /\ x.order \in [1 .. x.groups * x.prompts -> 1 .. x.groups * x.prompts]
AnyWorkers(x) == x.groups \in Nat \ {0} /\ x.prompts \in Nat \ {0} /\ x.workers \in Nat \ {0} /\ x.level \in Seq(Nat)
AnyLengths(x) == x.dist.min \in Int /\ x.dist.mean \in Int /\ x.dist.max \in Int /\ x.length \in Int
AnyCount(x) == x.target \in Int /\ \E D : x.count \in [D -> Nat] /\ 5 \in D
AnyTemplate(x) == x.overhead \in Nat /\ \E S : x.lengths \in [S -> Int]
AnyLoad(x) == IsTime(x.start) /\ x.drawn \in Seq(Nat \ {0}) /\ x.duration \in Nat \ {0}
AnyArrivals(x) == x.start \in Moments /\ x.drawn \in Seq(Seq(Nat \ {0}))
AnySamples(x) == (\E S : x.samples \in Seq(S)) /\ \A k, l \in DOMAIN x.samples : k < l => x.samples[k].at < x.samples[l].at
AnySweep(x) ==
  /\ x.target \in Nat \ {0} /\ x.size \in Nat \ {0}
  /\ x.falling = <<>> \/ /\ x.falling \in [1 .. x.size -> 1 .. x.target] /\ x.falling[1] = x.target
                         /\ x.size > 1 => x.falling[x.size] = 1
                         /\ \A k \in 1 .. x.size - 1 : x.falling[k] >= x.falling[k + 1]

AnyTurns ==
  /\ case.alg = "shared" => AnyUsers(case.made)
  /\ case.alg = "worker" => AnyWorkers(case.made)
  /\ case.alg = "slot" => SlotsPlay(case.made)
  /\ case.alg = "stages" => \E S : case.made \in Seq(S)
  /\ case.alg = "ceiling" => AnyLengths(case.made)
  /\ case.alg = "exact" => AnyCount(case.made)
  /\ case.alg = "template" => AnyTemplate(case.made)
  /\ case.alg = "constant" => AnyLoad(case.made)
  /\ case.alg = "poisson" => AnyArrivals(case.made)
  /\ case.alg = "sample" => AnySamples(case.made)
  /\ case.alg = "sweep" => AnySweep(case.made)

\* The texts of an exact length, for whatever the tokenizer counts.
LEMMA AnySuffixesStart == ASSUME NEW x, AnyCount(x) PROVE SuffixesKeepTheirStart(x.target, Counting(x.count))
<1>1. PICK D : x.count \in [D -> Nat] /\ 5 \in D
  BY DEF AnyCount
<1>2. PICK target \in Int : target = x.target
  BY DEF AnyCount
<1>3. PICK count : count = x.count
  OBVIOUS
<1>4. Counting(count) \in [Nat -> Nat]
  BY <1>1, <1>3 DEF Counting
<1>5. SuffixesKeepTheirStart(target, Counting(count))
  BY <1>4, SuffixesStart
<1> QED
  BY <1>2, <1>3, <1>5, Zenon

\* Every turn is placed well, whatever the number of groups, prompts, workers, conversations,
\* turns, stages and requests: it is of the group, session and worker it belongs with, a
\* conversation is played through, turn by turn and under an id of its own, outputs leave room
\* for prompts and texts have their length; requests are due when the load asks for them, in
\* their own second; and a sweep climbs to a rate the server was seen to bear.
THEOREM TurnsAreRight == ASSUME AnyTurns PROVE TurnsAreWellPlaced
<1>0. PICK x : x = case.made
  OBVIOUS
<1>1. ASSUME case.alg = "shared" PROVE PromptsBelongTogether(x.groups, x.prompts, x.order, 9)
  <2>1. AnyUsers(x)
    BY <1>0, <1>1, Zenon DEF AnyTurns
  <2>2. 9 \in Nat
    OBVIOUS
  <2> QED
    BY <2>1, <2>2, PromptsBelong, Zenon DEF AnyUsers
<1>2. ASSUME case.alg = "worker" PROVE UsersStayTogether(x.groups, x.prompts, x.workers, x.level, 24)
  <2>1. AnyWorkers(x)
    BY <1>0, <1>2, Zenon DEF AnyTurns
  <2>2. PICK level \in Seq(Nat) : level = x.level
    BY <2>1, Zenon DEF AnyWorkers
  <2>3. level # <<>> => level[1] \in Nat
    OBVIOUS
  <2>4. 24 \in Nat
    OBVIOUS
  <2>5. UsersStayTogether(x.groups, x.prompts, x.workers, level, 24)
    BY <2>1, <2>3, <2>4, UsersStay, Zenon DEF AnyWorkers
  <2> QED
    BY <2>2, <2>5, Zenon
<1>3. ASSUME case.alg = "slot" PROVE ConversationsPlayThrough(x, 15)
  <2>1. SlotsPlay(x)
    BY <1>0, <1>3, Zenon DEF AnyTurns
  <2>2. 15 \in Nat
    OBVIOUS
  <2> QED
    BY <2>1, <2>2, ConversationsPlay, Zenon
<1>4. ASSUME case.alg = "stages" PROVE StagesShareAPrompt(x)
  <2>1. PICK S : x \in Seq(S)
    BY <1>0, <1>4, Zenon DEF AnyTurns
  <2> QED
    BY <2>1, PromptsAreOfTheirStage, Zenon
<1>5. ASSUME case.alg = "ceiling" PROVE OutputsLeaveRoom(x.dist, x.length)
  <2>1. AnyLengths(x)
    BY <1>0, <1>5, Zenon DEF AnyTurns
  <2> QED
    BY <2>1, OutputsFit, Zenon DEF AnyLengths
<1>6. ASSUME case.alg = "exact" PROVE SuffixesKeepTheirStart(x.target, Counting(x.count))
  <2>1. AnyCount(x)
    BY <1>0, <1>6, Zenon DEF AnyTurns
  <2> QED
    BY <2>1, AnySuffixesStart, Zenon
<1>7. ASSUME case.alg = "template" PROVE TemplatesAreCounted(x.lengths, x.overhead)
  <2>1. AnyTemplate(x)
    BY <1>0, <1>7, Zenon DEF AnyTurns
  <2> QED
    BY <2>1, TemplatesCount, Zenon DEF AnyTemplate
<1>8. ASSUME case.alg = "constant" PROVE RateIsKept(x.start, x.drawn, x.duration)
  <2>1. AnyLoad(x)
    BY <1>0, <1>8, Zenon DEF AnyTurns
  <2> QED
    BY <2>1, RatesAreKept, Zenon DEF AnyLoad
<1>9. ASSUME case.alg = "poisson" PROVE SecondsAreTheirOwn(x.start, x.drawn)
  <2>1. AnyArrivals(x)
    BY <1>0, <1>9, Zenon DEF AnyTurns
  <2> QED
    BY <2>1, SecondsAreOwn, Zenon DEF AnyArrivals
<1>10. ASSUME case.alg = "sample" PROVE SaturationIsServed(x.samples, x.end)
  <2>1. AnySamples(x)
    BY <1>0, <1>10, Zenon DEF AnyTurns
  <2> QED
    BY <2>1, SaturationsAreServed, Zenon DEF AnySamples
<1>11. ASSUME case.alg = "sweep" PROVE SweepReachesSaturation(x.target, x.size, x.falling)
  <2>1. AnySweep(x)
    BY <1>0, <1>11, Zenon DEF AnyTurns
  <2> QED
    BY <2>1, SweepsReach, Zenon DEF AnySweep
<1> QED
  BY <1>0, <1>1, <1>2, <1>3, <1>4, <1>5, <1>6, <1>7, <1>8, <1>9, <1>10, <1>11, ZenonT(60) DEF TurnsAreWellPlaced, On

\* Each input of the runs is one of those: the theorem above is about all of them.
LEMMA IntervalsArePositive == ASSUME NEW n \in Nat, NEW drawn \in Intervals(n) PROVE drawn \in Seq(Nat \ {0})
<1>1. PICK k \in 0 .. n : drawn \in [1 .. k -> 1 .. 3]
  BY DEF Intervals
<1> QED
  BY <1>1

LEMMA ThreeAreSeq == ASSUME NEW V, NEW f \in [1 .. 3 -> V] PROVE f \in Seq(V)
<1>1. f = [k \in 1 .. 3 |-> f[k]] /\ DOMAIN f = 1 .. 3 /\ 3 \in Nat
  OBVIOUS
<1>2. \A k \in 1 .. 3 : f[k] \in V
  OBVIOUS
<1> QED
  BY <1>1, <1>2

LEMMA StartsAreMoments == Starts \subseteq Moments
<1>1. Starts = {[num |-> 0, den |-> 1], [num |-> 5, den |-> 2]}
  BY Zenon DEF Starts, Time
<1> QED
  BY <1>1 DEF Moments

LEMMA SharedCaseIsAny == ASSUME SharedCase PROVE AnyTurns'
<1>1. PICK groups \in 1 .. 3, prompts \in 1 .. 2 : \E order \in Orders(groups * prompts) :
        case' = [alg |-> "shared", made |-> [groups |-> groups, prompts |-> prompts, order |-> order]]
  BY DEF SharedCase, Make
<1>2. PICK order \in Orders(groups * prompts) :
        case' = [alg |-> "shared", made |-> [groups |-> groups, prompts |-> prompts, order |-> order]]
  BY <1>1
<1>3. PICK m : m = groups * prompts
  OBVIOUS
<1>4. order \in [1 .. m -> 1 .. m]
  BY <1>2, <1>3 DEF Orders
<1>5. /\ case'.alg = "shared" /\ case'.made.groups = groups /\ case'.made.prompts = prompts /\ case'.made.order = order
  BY <1>2
<1>6. AnyUsers(case'.made)
  <2>1. groups \in Nat \ {0} /\ prompts \in Nat \ {0}
    OBVIOUS
  <2> QED
    BY <1>3, <1>4, <1>5, <2>1, Zenon DEF AnyUsers
<1> QED
  BY <1>5, <1>6 DEF AnyTurns

LEMMA WorkerCaseIsAny == ASSUME WorkerCase PROVE AnyTurns'
<1>1. PICK groups \in 1 .. 4, prompts \in 1 .. 3, workers \in 1 .. 4, level \in {<<>>} \cup {<<n>> : n \in 1 .. 4} :
        case' = [alg |-> "worker", made |-> [groups |-> groups, prompts |-> prompts, workers |-> workers, level |-> level]]
  BY DEF WorkerCase, Make
<1>2. level \in Seq(Nat)
  <2>1. CASE level = <<>>
    BY <2>1
  <2>2. CASE level # <<>>
    <3>1. PICK n \in 1 .. 4 : level = <<n>>
      BY <1>1, <2>2, Zenon
    <3>2. n \in Nat
      OBVIOUS
    <3> QED
      BY <3>1, <3>2
  <2> QED
    BY <2>1, <2>2
<1>3. /\ case'.alg = "worker" /\ case'.made.groups = groups /\ case'.made.prompts = prompts
      /\ case'.made.workers = workers /\ case'.made.level = level
  BY <1>1
<1>4. AnyWorkers(case'.made)
  BY <1>2, <1>3 DEF AnyWorkers
<1> QED
  BY <1>3, <1>4 DEF AnyTurns

LEMMA SlotsCaseIsAny == ASSUME SlotsCase PROVE AnyTurns'
<1>1. PICK n \in 1 .. 3 : \E counts \in [1 .. n -> 1 .. 3] : case' = [alg |-> "slot", made |-> counts]
  BY DEF SlotsCase, Make
<1>2. PICK counts \in [1 .. n -> 1 .. 3] : case' = [alg |-> "slot", made |-> counts]
  BY <1>1
<1>3. SlotsPlay(counts)
  BY DEF SlotsPlay
<1>4. case'.alg = "slot" /\ case'.made = counts
  BY <1>2
<1> QED
  BY <1>3, <1>4 DEF AnyTurns

LEMMA StagesCaseIsAny == ASSUME StagesCase PROVE AnyTurns'
<1>1. PICK n \in 1 .. 3 : \E stages \in [1 .. n -> 0 .. 2] : case' = [alg |-> "stages", made |-> stages]
  BY DEF StagesCase, Make
<1>2. PICK stages \in [1 .. n -> 0 .. 2] : case' = [alg |-> "stages", made |-> stages]
  BY <1>1
<1>3. \E S : stages \in Seq(S)
  <2>1. stages \in Seq(Nat)
    OBVIOUS
  <2> QED
    BY <2>1, Zenon
<1>4. case'.alg = "stages" /\ case'.made = stages
  BY <1>2
<1> QED
  BY <1>3, <1>4 DEF AnyTurns

LEMMA CeilingCaseIsAny == ASSUME CeilingCase PROVE AnyTurns'
<1>1. PICK type \in {"fixed", "uniform"}, min \in 0 .. 1, mean \in 1 .. 4, max \in 1 .. 3, length \in 1 .. 6 :
        case' = [alg |-> "ceiling", made |-> [dist |-> [type |-> type, min |-> min, mean |-> mean, max |-> max], length |-> length]]
  BY Zenon DEF CeilingCase, Make
<1>2. /\ case'.alg = "ceiling" /\ case'.made.length = length /\ case'.made.dist.min = min
      /\ case'.made.dist.mean = mean /\ case'.made.dist.max = max
  BY <1>1
<1>3. AnyLengths(case'.made)
  BY <1>2 DEF AnyLengths
<1> QED
  BY <1>2, <1>3 DEF AnyTurns

LEMMA ExactCaseIsAny == ASSUME ExactCase PROVE AnyTurns'
<1>1. PICK target \in 0 .. 2, count \in [0 .. 5 -> 0 .. 2] :
        case' = [alg |-> "exact", made |-> [target |-> target, count |-> count]]
  BY DEF ExactCase, Make
<1>2. case'.alg = "exact" /\ case'.made.target = target /\ case'.made.count = count
  BY <1>1
<1>3. count \in [0 .. 5 -> Nat] /\ 5 \in 0 .. 5
  OBVIOUS
<1>4. AnyCount(case'.made)
  BY <1>2, <1>3 DEF AnyCount
<1> QED
  BY <1>2, <1>4 DEF AnyTurns

LEMMA TemplateCaseIsAny == ASSUME TemplateCase PROVE AnyTurns'
<1>1. PICK overhead \in 0 .. 3, lengths \in [1 .. 2 -> 1 .. 5] :
        case' = [alg |-> "template", made |-> [overhead |-> overhead, lengths |-> lengths]]
  BY DEF TemplateCase, Make
<1>2. case'.alg = "template" /\ case'.made.overhead = overhead /\ case'.made.lengths = lengths
  BY <1>1
<1>3. lengths \in [1 .. 2 -> Int]
  OBVIOUS
<1>4. AnyTemplate(case'.made)
  BY <1>2, <1>3 DEF AnyTemplate
<1> QED
  BY <1>2, <1>4 DEF AnyTurns

LEMMA ConstantCaseIsAny == ASSUME ConstantCase PROVE AnyTurns'
<1>1. PICK start \in Starts, drawn \in Intervals(3), duration \in 1 .. 3 :
        case' = [alg |-> "constant", made |-> [start |-> start, drawn |-> drawn, duration |-> duration]]
  BY Zenon DEF ConstantCase, Make
<1>2. /\ case'.alg = "constant" /\ case'.made.start = start /\ case'.made.drawn = drawn /\ case'.made.duration = duration
  BY <1>1
<1>3. drawn \in Seq(Nat \ {0})
  BY IntervalsArePositive
<1>4. IsTime(start)
  BY StartsAreMoments DEF Moments, IsTime
<1>5. AnyLoad(case'.made)
  <2>1. duration \in Nat \ {0}
    OBVIOUS
  <2> QED
    BY <1>2, <1>3, <1>4, <2>1, Zenon DEF AnyLoad
<1> QED
  BY <1>2, <1>5 DEF AnyTurns

LEMMA PoissonCaseIsAny == ASSUME PoissonCase PROVE AnyTurns'
<1>1. PICK start \in Starts, drawn \in [1 .. 3 -> Intervals(2)] :
        case' = [alg |-> "poisson", made |-> [start |-> start, drawn |-> drawn]]
  BY Zenon DEF PoissonCase, Make
<1>2. case'.alg = "poisson" /\ case'.made.start = start /\ case'.made.drawn = drawn
  BY <1>1
<1>3. drawn \in Seq(Seq(Nat \ {0}))
  <2>1. PICK V : V = Seq(Nat \ {0})
    OBVIOUS
  <2>2. \A k \in 1 .. 3 : drawn[k] \in V
    BY <2>1, IntervalsArePositive
  <2>3. drawn \in [1 .. 3 -> V]
    BY <2>2
  <2>4. drawn \in Seq(V)
    BY <2>3, ThreeAreSeq, Zenon
  <2> QED
    BY <2>1, <2>4
<1>4. start \in Moments
  BY StartsAreMoments
<1>5. AnyArrivals(case'.made)
  BY <1>2, <1>3, <1>4, Zenon DEF AnyArrivals
<1> QED
  BY <1>2, <1>5 DEF AnyTurns

LEMMA SampleCaseIsAny == ASSUME SampleCase PROVE AnyTurns'
<1>1. PICK n \in 0 .. 5 : \E active \in [1 .. n -> 0 .. 3], end \in 1 .. 6 :
        case' = [alg |-> "sample", made |-> [samples |-> [k \in 1 .. n |-> [at |-> k, active |-> active[k]]], end |-> end]]
  BY Zenon DEF SampleCase, Make
<1>2. PICK active \in [1 .. n -> 0 .. 3], end \in 1 .. 6 :
        case' = [alg |-> "sample", made |-> [samples |-> [k \in 1 .. n |-> [at |-> k, active |-> active[k]]], end |-> end]]
  BY <1>1, Zenon
<1>3. PICK samples : samples = [k \in 1 .. n |-> [at |-> k, active |-> active[k]]]
  OBVIOUS
<1>4. case'.alg = "sample" /\ case'.made.samples = samples
  BY <1>2, <1>3
<1>5. samples \in Seq([at : Nat, active : Nat]) /\ DOMAIN samples = 1 .. n /\ \A k \in 1 .. n : samples[k].at = k
  <2>1. DOMAIN samples = 1 .. n /\ \A k \in 1 .. n : samples[k] = [at |-> k, active |-> active[k]]
    BY <1>3, Zenon
  <2>2. samples \in [1 .. n -> [at : Nat, active : Nat]]
    <3>1. \A k \in 1 .. n : active[k] \in 0 .. 3
      OBVIOUS
    <3>2. \A k \in 1 .. n : [at |-> k, active |-> active[k]] \in [at : Nat, active : Nat]
      BY <3>1
    <3> QED
      BY <1>3, <3>2, Zenon
  <2>3. \A k \in 1 .. n : samples[k].at = k
    BY <2>1
  <2>4. \A S : [1 .. n -> S] \subseteq Seq(S)
    <3>1. n \in Nat
      OBVIOUS
    <3> QED
      BY <3>1
  <2> QED
    BY <2>1, <2>2, <2>3, <2>4, Zenon
<1>6. \A k, l \in DOMAIN samples : k < l => samples[k].at < samples[l].at
  BY <1>5, Zenon
<1>7. AnySamples(case'.made)
  BY <1>4, <1>5, <1>6, Zenon DEF AnySamples
<1> QED
  BY <1>4, <1>7 DEF AnyTurns

LEMMA SweepCaseIsAny == ASSUME SweepCase PROVE AnyTurns'
<1> DEFINE Series(target, size) == {f \in [1 .. size -> 1 .. target] :
             f[1] = target /\ (size > 1 => f[size] = 1) /\ \A k \in 1 .. (size - 1) : f[k] >= f[k + 1]}
<1>1. PICK target \in 1 .. 6, size \in 1 .. 4 : \E falling \in {<<>>} \cup Series(target, size) :
        case' = [alg |-> "sweep", made |-> [target |-> target, size |-> size, falling |-> falling]]
  BY Zenon DEF SweepCase, Make
<1>2. PICK falling \in {<<>>} \cup Series(target, size) :
        case' = [alg |-> "sweep", made |-> [target |-> target, size |-> size, falling |-> falling]]
  BY <1>1, Zenon
<1>3. falling = <<>> \/ /\ falling \in [1 .. size -> 1 .. target] /\ falling[1] = target /\ (size > 1 => falling[size] = 1)
                        /\ \A k \in 1 .. (size - 1) : falling[k] >= falling[k + 1]
  BY <1>2, Zenon
<1>4. case'.alg = "sweep" /\ case'.made.target = target /\ case'.made.size = size /\ case'.made.falling = falling
  BY <1>2
<1>5. AnySweep(case'.made)
  <2>1. target \in Nat \ {0} /\ size \in Nat \ {0}
    OBVIOUS
  <2> QED
    BY <1>3, <1>4, <2>1, Zenon DEF AnySweep
<1> QED
  BY <1>4, <1>5 DEF AnyTurns

LEMMA TurnsCasesAreTurns == ASSUME TurnsCases PROVE AnyTurns'
  BY SharedCaseIsAny, WorkerCaseIsAny, SlotsCaseIsAny, StagesCaseIsAny, CeilingCaseIsAny, ExactCaseIsAny,
     TemplateCaseIsAny, ConstantCaseIsAny, PoissonCaseIsAny, SampleCaseIsAny, SweepCaseIsAny, Zenon DEF TurnsCases
=============================================================================
