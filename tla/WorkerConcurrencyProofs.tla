----------------------- MODULE WorkerConcurrencyProofs -----------------------
(***************************************************************************)
(* Proofs about the concurrency of the workers, for every number of        *)
(* workers and requests and every plan: a worker's permits are conserved,  *)
(* and no worker has a negative share of a level.                          *)
(***************************************************************************)
EXTENDS WorkerConcurrency, RecursionTheorems, TLAPS

(* Lemmas about the split *)

\* The least of up to three positive numbers is one of them.
LEMMA LeastOfThree ==
  ASSUME NEW a \in Nat \ {0}, NEW b \in Nat \ {0}, NEW c \in Nat
  PROVE  Min({a, b} \cup {n \in {c} : n > 0}) \in Nat \ {0}
<1> DEFINE S == {a, b} \cup {n \in {c} : n > 0}
<1>1. S \subseteq Nat \ {0}
  OBVIOUS
<1>2. \E x \in S : \A y \in S : x =< y
  OBVIOUS
<1>3. Min(S) \in S
  BY <1>2 DEF Min
<1> QED
  BY <1>1, <1>3

\* Requests always reach some worker.
LEMMA ActiveWorkersPositive ==
  ASSUME WorkerConcurrencyAssumption, plan \in Plans, NEW l \in Nat \ {0}
  PROVE  ActiveWorkers(l) \in Nat \ {0}
<1>1. plan.pinned \in Nat /\ NumWorkers \in Nat \ {0}
  BY DEF WorkerConcurrencyAssumption, Plan
<1> QED
  BY <1>1, LeastOfThree DEF ActiveWorkers

\* A share is a number of permits.
LEMMA ShareIsNat ==
  ASSUME WorkerConcurrencyAssumption, plan \in Plans, NEW l \in Nat \ {0}, NEW w \in Nat
  PROVE  Share(w, l) \in Nat
<1> DEFINE active == ActiveWorkers(l)
<1>1. active \in Nat \ {0}
  BY ActiveWorkersPositive
<1> HIDE DEF active
<1>2. l \div active \in Nat
  BY <1>1
<1> QED
  BY <1>2 DEF Share, active

\* The level of a stage is a positive number.
LEMMA LevelIsPositive ==
  ASSUME WorkerConcurrencyAssumption, plan \in Plans, level \in 1 .. Len(plan.levels)
  PROVE  ConcurrencyLevel \in Nat \ {0}
<1>1. plan.levels \in Seq(Nat \ {0})
  BY DEF WorkerConcurrencyAssumption, Plan
<1> QED
  BY <1>1 DEF ConcurrencyLevel

(* The types the counting needs *)

Counts ==
  /\ plan \in Plans
  /\ level \in 1 .. Len(plan.levels)
  /\ assigned \in Nat
  /\ share \in [Worker -> Nat]
  /\ current \in [Worker -> Nat]
  /\ free \in [Worker -> Nat]
  /\ running \in [Worker -> Nat]
  /\ abandoned \in [Worker -> Nat]

\* A request in flight holds a permit, and a dead worker has none.
IInv == Counts /\ PermitsConserved

LEMMA InitCounts == ASSUME WorkerConcurrencyAssumption, Init PROVE IInv
<1>1. plan.levels \in Seq(Nat \ {0}) /\ plan.levels # <<>>
  BY DEF Init, WorkerConcurrencyAssumption, Plan
<1>2. level \in 1 .. Len(plan.levels)
  BY <1>1 DEF Init
<1> QED
  BY <1>2 DEF Init, IInv, Counts, PermitsConserved

\* The main process sets shares and, at a boundary, replaces dead workers by
\* ones that have no permit yet.
LEMMA MainKeeps == ASSUME WorkerConcurrencyAssumption, IInv, Main PROVE IInv'
<1> USE DEF IInv, Counts, PermitsConserved
<1>1. CASE SetShare
  <2>1. Share(assigned, ConcurrencyLevel) \in Nat
    BY ShareIsNat, LevelIsPositive
  <2>2. share' \in [Worker -> Nat]
    BY <1>1, <2>1 DEF SetShare
  <2>3. UNCHANGED <<plan, level, current, free, running, abandoned>> /\ assigned' = assigned + 1
    BY <1>1 DEF SetShare, semVars
  <2> QED
    BY <2>2, <2>3
<1>2. CASE StartStage
  BY <1>2 DEF StartStage, semVars
<1>3. CASE EndStage
  BY <1>3 DEF EndStage, semVars
<1>4. CASE Rendezvous
  <2>1. level' \in 1 .. Len(plan'.levels) /\ assigned' \in Nat
    <3>1. plan.levels \in Seq(Nat \ {0}) /\ plan' = plan
      BY <1>4 DEF Rendezvous, WorkerConcurrencyAssumption, Plan
    <3> QED
      BY <1>4, <3>1 DEF Rendezvous
  <2>2. /\ current' \in [Worker -> Nat] /\ free' \in [Worker -> Nat]
        /\ running' \in [Worker -> Nat] /\ abandoned' \in [Worker -> Nat]
    BY <1>4 DEF Rendezvous
  <2>3. PermitsConserved'
    <3> SUFFICES ASSUME NEW w \in Worker
                 PROVE  free'[w] + running'[w] + abandoned'[w] = current'[w]
      OBVIOUS
    <3>1. CASE wpc[w] = "dead"
      BY <1>4, <3>1 DEF Rendezvous
    <3>2. CASE wpc[w] # "dead"
      BY <1>4, <3>2 DEF Rendezvous
    <3> QED
      BY <3>1, <3>2
  <2> QED
    BY <1>4, <2>1, <2>2, <2>3 DEF Rendezvous
<1> QED
  BY <1>1, <1>2, <1>3, <1>4 DEF Main

\* A resize waits for every permit, so nothing runs on the old semaphore.
LEMMA ResizeKeeps == ASSUME IInv, NEW w \in Worker, Resize(w) PROVE IInv'
<1> USE DEF IInv, Counts, PermitsConserved
<1>1. running[w] = 0 /\ abandoned[w] = 0
  BY DEF Resize, EveryPermitBack
<1>2. /\ current' = [current EXCEPT ![w] = share[w]] /\ free' = [free EXCEPT ![w] = share[w]]
      /\ UNCHANGED <<mainVars, running, abandoned>>
  BY DEF Resize
<1> QED
  BY <1>1, <1>2 DEF mainVars

\* A permit that is taken belongs to the task that is started with it.
LEMMA PullKeeps == ASSUME IInv, NEW w \in Worker, Pull(w) PROVE IInv'
<1> USE DEF IInv, Counts, PermitsConserved
<1>1. /\ free' = [free EXCEPT ![w] = free[w] - 1]
      /\ running' = [running EXCEPT ![w] = running[w] + 1]
      /\ UNCHANGED <<mainVars, current, abandoned>>
  BY DEF Pull
<1>2. free[w] - 1 \in Nat /\ running[w] + 1 \in Nat
  BY DEF Pull
<1>3. free' \in [Worker -> Nat] /\ running' \in [Worker -> Nat]
  BY <1>1, <1>2
<1>4. ASSUME NEW v \in Worker PROVE free'[v] + running'[v] + abandoned'[v] = current'[v]
  BY <1>1, v = w \/ v # w
<1> QED
  BY <1>1, <1>3, <1>4 DEF mainVars

\* Winding down gives back the permits of the tasks that ended, and no other.
LEMMA WindDownKeeps == ASSUME IInv, NEW w \in Worker, WindDown(w) PROVE IInv'
<1> USE DEF IInv, Counts, PermitsConserved
<1>1. PICK deaf \in 0 .. running[w] :
        /\ abandoned' = [abandoned EXCEPT ![w] = @ + deaf]
        /\ free' = [free EXCEPT ![w] = @ + PermitsBack(running[w], deaf)]
  BY DEF WindDown
<1>2. running' = [running EXCEPT ![w] = 0] /\ UNCHANGED <<mainVars, current>>
  BY DEF WindDown
<1>3. PermitsBack(running[w], deaf) = running[w] - deaf /\ running[w] - deaf \in Nat
  BY DEF PermitsBack
<1>4. /\ free' \in [Worker -> Nat] /\ abandoned' \in [Worker -> Nat] /\ running' \in [Worker -> Nat]
  <2>1. free[w] + (running[w] - deaf) \in Nat /\ abandoned[w] + deaf \in Nat
    <3>1. free[w] \in Nat /\ abandoned[w] \in Nat /\ deaf \in Nat
      OBVIOUS
    <3> HIDE DEF IInv, Counts, PermitsConserved
    <3> QED
      BY <1>3, <3>1
  <2>2. /\ free' = [free EXCEPT ![w] = free[w] + (running[w] - deaf)]
        /\ abandoned' = [abandoned EXCEPT ![w] = abandoned[w] + deaf]
    BY <1>1, <1>3
  <2> QED
    BY <1>2, <2>1, <2>2
<1>5. PermitsConserved'
  <2> SUFFICES ASSUME NEW v \in Worker
               PROVE  free'[v] + running'[v] + abandoned'[v] = current'[v]
    OBVIOUS
  <2>1. CASE v = w
    BY <1>1, <1>2, <1>3, <2>1
  <2>2. CASE v # w
    BY <1>1, <1>2, <2>2
  <2> QED
    BY <2>1, <2>2
<1> QED
  BY <1>2, <1>4, <1>5 DEF mainVars

\* A task that ends gives back its own permit, also after its stage.
LEMMA FinishKeeps == ASSUME IInv, NEW w \in Worker, Finish(w) PROVE IInv'
<1> USE DEF IInv, Counts, PermitsConserved
<1>1. /\ free' = [free EXCEPT ![w] = free[w] + 1]
      /\ UNCHANGED <<mainVars, current>>
  BY DEF Finish
<1>2. \/ running[w] - 1 \in Nat /\ running' = [running EXCEPT ![w] = running[w] - 1] /\ abandoned' = abandoned
      \/ abandoned[w] - 1 \in Nat /\ abandoned' = [abandoned EXCEPT ![w] = abandoned[w] - 1] /\ running' = running
  BY DEF Finish
<1>3. free' \in [Worker -> Nat]
  BY <1>1
<1>4. running' \in [Worker -> Nat] /\ abandoned' \in [Worker -> Nat]
  BY <1>2
<1>5. ASSUME NEW v \in Worker PROVE free'[v] + running'[v] + abandoned'[v] = current'[v]
  <2>1. CASE v = w
    <3>1. free'[w] = free[w] + 1 /\ current'[w] = current[w]
      BY <1>1
    <3>2. running'[w] + abandoned'[w] = running[w] + abandoned[w] - 1
      BY <1>2
    <3>3. running'[w] \in Nat /\ abandoned'[w] \in Nat
      BY <1>4
    <3>4. /\ free[w] \in Nat /\ running[w] \in Nat /\ abandoned[w] \in Nat /\ current[w] \in Nat
          /\ free[w] + running[w] + abandoned[w] = current[w]
      OBVIOUS
    <3> HIDE DEF IInv, Counts, PermitsConserved
    <3>5. free'[w] + (running'[w] + abandoned'[w]) = current'[w]
      BY <3>1, <3>2, <3>4
    <3>6. free'[w] \in Nat
      BY <3>1, <3>4
    <3> QED
      BY <2>1, <3>3, <3>5, <3>6
  <2>2. CASE v # w
    BY <1>1, <1>2, <2>2
  <2> QED
    BY <2>1, <2>2
<1> QED
  BY <1>1, <1>3, <1>4, <1>5 DEF mainVars

LEMMA KillKeeps == ASSUME IInv, NEW w \in Worker, Kill(w) PROVE IInv'
BY DEF IInv, Counts, PermitsConserved, Kill, mainVars

LEMMA LoopKeeps == ASSUME IInv, NEW w \in Worker, Loop(w) PROVE IInv'
<1>1. CASE Skip(w) \/ Keep(w) \/ Leave(w) \/ Again(w) \/ Unhold(w)
  BY <1>1 DEF IInv, Counts, PermitsConserved, Skip, Keep, Leave, Again, Unhold, mainVars, semVars
<1> QED
  BY <1>1, ResizeKeeps, PullKeeps, WindDownKeeps DEF Loop

LEMMA NextKeeps == ASSUME WorkerConcurrencyAssumption, IInv, [Next]_vars PROVE IInv'
<1>1. CASE UNCHANGED vars
  BY <1>1 DEF IInv, Counts, PermitsConserved, vars, mainVars, semVars
<1>2. CASE Done
  BY <1>2 DEF Done, IInv, Counts, PermitsConserved, vars, mainVars, semVars
<1> QED
  BY <1>1, <1>2, MainKeeps, LoopKeeps, FinishKeeps, KillKeeps DEF Next

\* Permits are conserved across resizes, cancellations, abandoned tasks and
\* killed workers, whatever the levels of the stages and the number of workers.
THEOREM PermitsAreConserved ==
  ASSUME WorkerConcurrencyAssumption
  PROVE  Spec => []PermitsConserved
<1>1. IInv => PermitsConserved
  BY DEF IInv
<1>2. Init => IInv
  BY InitCounts
<1>3. IInv /\ [Next]_vars => IInv'
  BY NextKeeps
<1> QED
  BY <1>1, <1>2, <1>3, PTL DEF Spec

\* A worker's tasks, and those it has abandoned, never outnumber the permits of
\* its semaphore: what bounds the requests a worker has in flight.
TasksWithinPermits == \A w \in Worker : running[w] + abandoned[w] <= current[w]

THEOREM TasksStayWithinPermits ==
  ASSUME WorkerConcurrencyAssumption
  PROVE  Spec => []TasksWithinPermits
<1>1. IInv => TasksWithinPermits
  BY DEF IInv, Counts, PermitsConserved, TasksWithinPermits
<1>2. Init => IInv
  BY InitCounts
<1>3. IInv /\ [Next]_vars => IInv'
  BY NextKeeps
<1> QED
  BY <1>1, <1>2, <1>3, PTL DEF Spec
-----------------------------------------------------------------------------
(* The split of a level over the workers, and what they hold of it *)

\* The main process has set the shares of the workers below assigned; before the
\* first stage nobody else has a share, later the others still have an old one.
SplitInv ==
  /\ main \in {"shares", "serve", "teardown", "done"}
  /\ assigned \in 0 .. NumWorkers
  /\ main \in {"serve", "teardown"} => assigned = NumWorkers
  /\ main # "done" => \A w \in Worker : w < assigned => share[w] = Share(w, ConcurrencyLevel)
  /\ main = "shares" /\ level = 1 => \A w \in Worker : w >= assigned => share[w] = 0

\* A worker that has acknowledged the boundary waits in the hold, with nothing in
\* flight, and only a replacement is elsewhere when the next shares are set.
BoundaryInv ==
  /\ boundary \in Nat /\ acknowledged \in [Worker -> Nat]
  /\ wpc \in [Worker -> {"top", "inner", "leave", "hold", "dead"}] /\ fresh \in [Worker -> BOOLEAN]
  /\ open \in BOOLEAN
  /\ main = "teardown" \/ (main = "shares" /\ level # 1) => ~open
  /\ \A w \in Worker :
       /\ acknowledged[w] <= boundary
       /\ wpc[w] \in {"hold", "dead"} => running[w] = 0
       /\ main = "teardown" /\ acknowledged[w] = boundary => wpc[w] \in {"hold", "dead"}
       /\ main = "shares" /\ level # 1 => /\ acknowledged[w] = boundary
                                          /\ fresh[w] \/ wpc[w] = "hold"

\* Where a level is looked at, and whose requests count.
Bound(w) == /\ main \in {"serve", "teardown"} \/ (main = "shares" /\ level = 1)
            /\ ~fresh[w] \/ level = 1

\* A worker with requests in flight has its share of permits.
ShareInv ==
  \A w \in Worker : Bound(w) =>
    /\ running[w] = 0 \/ current[w] = share[w]
    /\ wpc[w] = "inner" => current[w] = share[w] /\ share[w] # 0

LInv == IInv /\ SplitInv /\ BoundaryInv /\ ShareInv

\* A share depends on the plan and the stage.
LEMMA ShareKept ==
  ASSUME UNCHANGED <<plan, level>>, NEW w PROVE Share(w, ConcurrencyLevel)' = Share(w, ConcurrencyLevel)
BY DEF Share, ActiveWorkers, ConcurrencyLevel

\* While the main process stands still, so does the split.
LEMMA SplitStays == ASSUME SplitInv, UNCHANGED mainVars PROVE SplitInv'
<1>1. UNCHANGED <<plan, main, level, assigned, share>>
  BY DEF mainVars
<1>2. \A w \in Worker : Share(w, ConcurrencyLevel)' = Share(w, ConcurrencyLevel)
  BY <1>1, ShareKept
<1> QED
  BY <1>1, <1>2 DEF SplitInv

LEMMA InitHolds == ASSUME WorkerConcurrencyAssumption, Init PROVE LInv
<1>1. IInv
  BY InitCounts
<1>2. SplitInv
  BY DEF Init, SplitInv, WorkerConcurrencyAssumption, Worker
<1>3. BoundaryInv
  BY DEF Init, BoundaryInv
<1>4. ShareInv
  BY DEF Init, ShareInv, Bound
<1> QED
  BY <1>1, <1>2, <1>3, <1>4 DEF LInv

\* A share is set while no worker but a replacement looks at it; before the first
\* stage the worker has had none, and nothing in flight.
LEMMA SetShareHolds ==
  ASSUME WorkerConcurrencyAssumption, LInv, SetShare PROVE SplitInv' /\ BoundaryInv' /\ ShareInv'
<1> USE DEF LInv
<1>1. /\ main = "shares" /\ assigned < NumWorkers /\ assigned \in Nat /\ assigned' = assigned + 1
      /\ share' = [share EXCEPT ![assigned] = Share(assigned, ConcurrencyLevel)]
      /\ UNCHANGED <<plan, main, level, open, boundary, wpc, current, running, abandoned, free, acknowledged, fresh>>
  BY DEF SetShare, semVars, SplitInv
<1>2. share \in [Worker -> Nat] /\ NumWorkers \in Nat
  BY DEF IInv, Counts, WorkerConcurrencyAssumption
<1>3. assigned \in Worker /\ \A w \in Worker : w \in Nat /\ w < NumWorkers
  BY <1>1, <1>2 DEF Worker
<1>4. share'[assigned] = Share(assigned, ConcurrencyLevel) /\ \A w \in Worker : w # assigned => share'[w] = share[w]
  BY <1>1, <1>2, <1>3
<1>5. SplitInv'
  <2>1. \A w \in Worker : Share(w, ConcurrencyLevel)' = Share(w, ConcurrencyLevel)
    BY <1>1, ShareKept
  <2>2. ASSUME NEW w \in Worker, w < assigned + 1 PROVE share'[w] = Share(w, ConcurrencyLevel)'
    <3>1. CASE w = assigned
      BY <1>4, <2>1, <3>1
    <3>2. CASE w # assigned
      <4>1. w < assigned
        BY <1>1, <1>3, <2>2, <3>2
      <4> QED
        BY <1>1, <1>4, <2>1, <3>2, <4>1 DEF SplitInv
    <3> QED
      BY <3>1, <3>2
  <2>3. ASSUME NEW w \in Worker, w >= assigned + 1, level = 1 PROVE share'[w] = 0
    <3>1. w # assigned /\ w >= assigned
      BY <1>1, <1>3, <2>3
    <3> QED
      BY <1>1, <1>4, <2>3, <3>1 DEF SplitInv
  <2>4. assigned + 1 \in 0 .. NumWorkers
    BY <1>1, <1>2
  <2> QED
    BY <1>1, <2>2, <2>3, <2>4 DEF SplitInv
<1>6. BoundaryInv'
  BY <1>1 DEF BoundaryInv
<1>7. ShareInv'
  <2> SUFFICES ASSUME NEW w \in Worker, Bound(w)'
               PROVE  /\ running[w] = 0 \/ current[w] = share'[w]
                      /\ wpc[w] = "inner" => current[w] = share'[w] /\ share'[w] # 0
    BY <1>1 DEF ShareInv
  <2>1. Bound(w) /\ level = 1
    BY <1>1 DEF Bound
  <2>2. CASE w # assigned
    BY <1>4, <2>1, <2>2 DEF ShareInv
  <2>3. CASE w = assigned
    <3>1. share[w] = 0
      BY <1>1, <1>3, <2>1, <2>3 DEF SplitInv
    <3>2. wpc[w] # "inner"
      BY <2>1, <3>1 DEF ShareInv
    <3>3. running[w] = 0 \/ current[w] = 0
      BY <2>1, <3>1 DEF ShareInv
    <3>4. running[w] = 0
      BY <3>3 DEF IInv, Counts, PermitsConserved
    <3> QED
      BY <3>2, <3>4
  <2> QED
    BY <2>2, <2>3
<1> QED
  BY <1>5, <1>6, <1>7

\* When a stage starts, every worker but a replacement waits in the hold.
LEMMA StartStageHolds == ASSUME LInv, StartStage PROVE SplitInv' /\ BoundaryInv' /\ ShareInv'
<1> USE DEF LInv
<1>1. /\ main = "shares" /\ assigned = NumWorkers /\ main' = "serve" /\ open' = TRUE
      /\ UNCHANGED <<plan, level, assigned, boundary, share, wpc, current, running, acknowledged, fresh>>
  BY DEF StartStage, semVars
<1>2. \A w \in Worker : Share(w, ConcurrencyLevel)' = Share(w, ConcurrencyLevel)
  BY <1>1, ShareKept
<1>3. SplitInv'
  BY <1>1, <1>2 DEF SplitInv
<1>4. BoundaryInv'
  BY <1>1 DEF BoundaryInv
<1>5. ShareInv'
  <2> SUFFICES ASSUME NEW w \in Worker, Bound(w)'
               PROVE  /\ running[w] = 0 \/ current[w] = share[w]
                      /\ wpc[w] = "inner" => current[w] = share[w] /\ share[w] # 0
    BY <1>1 DEF ShareInv
  <2>1. CASE level = 1
    BY <1>1, <2>1 DEF ShareInv, Bound
  <2>2. CASE level # 1
    <3>1. wpc[w] = "hold"
      BY <1>1, <2>2 DEF Bound, BoundaryInv
    <3> QED
      BY <3>1 DEF BoundaryInv
  <2> QED
    BY <2>1, <2>2
<1> QED
  BY <1>3, <1>4, <1>5

LEMMA EndStageHolds == ASSUME LInv, EndStage PROVE SplitInv' /\ BoundaryInv' /\ ShareInv'
<1> USE DEF LInv
<1>1. /\ main = "serve" /\ main' = "teardown" /\ open' = FALSE /\ boundary' = boundary + 1
      /\ UNCHANGED <<plan, level, assigned, share, wpc, current, running, acknowledged, fresh>>
  BY DEF EndStage, semVars
<1>2. \A w \in Worker : Share(w, ConcurrencyLevel)' = Share(w, ConcurrencyLevel)
  BY <1>1, ShareKept
<1>3. SplitInv'
  BY <1>1, <1>2 DEF SplitInv
<1>4. BoundaryInv'
  <2>1. boundary + 1 \in Nat /\ \A w \in Worker : acknowledged[w] <= boundary + 1 /\ acknowledged[w] # boundary + 1
    BY DEF BoundaryInv
  <2> QED
    BY <1>1, <2>1 DEF BoundaryInv
<1>5. ShareInv'
  BY <1>1 DEF ShareInv, Bound
<1> QED
  BY <1>3, <1>4, <1>5

\* The living are in the hold then, and the dead are replaced.
LEMMA RendezvousHolds ==
  ASSUME WorkerConcurrencyAssumption, LInv, Rendezvous PROVE SplitInv' /\ BoundaryInv' /\ ShareInv'
<1> USE DEF LInv
<1>1. /\ main = "teardown" /\ UNCHANGED <<open, boundary>>
      /\ main' \in {"done", "shares"}
      /\ main' = "shares" => level' = level + 1 /\ assigned' = 0
      /\ main' = "done" => UNCHANGED assigned
  BY DEF Rendezvous
<1>2. level \in Nat /\ level >= 1
  <2>1. plan.levels \in Seq(Nat \ {0})
    BY DEF IInv, Counts, WorkerConcurrencyAssumption, Plan
  <2> QED
    BY <2>1 DEF IInv, Counts
<1>3. main' = "shares" => level' # 1
  BY <1>1, <1>2
<1>4. SplitInv'
  <2>1. NumWorkers \in Nat /\ \A w \in Worker : w \in Nat
    BY DEF WorkerConcurrencyAssumption, Worker
  <2>2. assigned' \in 0 .. NumWorkers
    BY <1>1, <2>1 DEF SplitInv
  <2>3. main' = "shares" => \A w \in Worker : ~(w < assigned')
    BY <1>1, <2>1
  <2> QED
    BY <1>1, <1>3, <2>2, <2>3 DEF SplitInv
<1>5. ASSUME NEW w \in Worker
      PROVE  IF wpc[w] = "dead"
               THEN wpc'[w] = "top" /\ running'[w] = 0 /\ acknowledged'[w] = boundary /\ fresh'[w]
               ELSE /\ wpc'[w] = wpc[w] /\ running'[w] = running[w]
                    /\ acknowledged'[w] = acknowledged[w] /\ fresh'[w] = fresh[w]
                    /\ acknowledged[w] >= boundary
  BY DEF Rendezvous
<1>6. /\ wpc' \in [Worker -> {"top", "inner", "leave", "hold", "dead"}]
      /\ acknowledged' \in [Worker -> Nat] /\ fresh' \in [Worker -> BOOLEAN]
  BY DEF Rendezvous, BoundaryInv
<1>7. ASSUME NEW w \in Worker
      PROVE  /\ acknowledged'[w] = boundary
             /\ wpc'[w] = "hold" => running'[w] = 0
             /\ wpc'[w] # "dead"
             /\ fresh'[w] \/ wpc'[w] = "hold"
  <2>1. CASE wpc[w] = "dead"
    BY <1>5, <2>1
  <2>2. CASE wpc[w] # "dead"
    <3>1. acknowledged[w] = boundary
      BY <1>5, <2>2 DEF BoundaryInv
    <3>2. wpc[w] = "hold" /\ running[w] = 0
      BY <1>1, <2>2, <3>1 DEF BoundaryInv
    <3> QED
      BY <1>5, <2>2, <3>1, <3>2
  <2> QED
    BY <2>1, <2>2
<1>8. BoundaryInv'
  <2>1. boundary \in Nat /\ ~open
    BY <1>1 DEF BoundaryInv
  <2>2. ASSUME NEW w \in Worker PROVE acknowledged'[w] <= boundary
    BY <1>7, <2>1
  <2>3. main' # "teardown"
    BY <1>1
  <2> QED
    BY <1>1, <1>6, <1>7, <2>1, <2>2, <2>3 DEF BoundaryInv
<1>9. ShareInv'
  <2>1. \A w \in Worker : ~Bound(w)'
    BY <1>1, <1>3 DEF Bound
  <2> QED
    BY <2>1 DEF ShareInv
<1> QED
  BY <1>4, <1>8, <1>9

\* What a step of a worker leaves alone.
Others(w) ==
  /\ UNCHANGED mainVars
  /\ \A v \in Worker \ {w} : /\ wpc'[v] = wpc[v] /\ current'[v] = current[v] /\ running'[v] = running[v]
                             /\ acknowledged'[v] = acknowledged[v] /\ fresh'[v] = fresh[v]
  /\ wpc' \in [Worker -> {"top", "inner", "leave", "hold", "dead"}]
  /\ acknowledged' \in [Worker -> Nat] /\ fresh' \in [Worker -> BOOLEAN]

LEMMA OthersHold ==
  ASSUME LInv, NEW w \in Worker, Others(w),
         acknowledged'[w] <= boundary,
         wpc'[w] \in {"hold", "dead"} => running'[w] = 0,
         main = "teardown" /\ acknowledged'[w] = boundary => wpc'[w] \in {"hold", "dead"},
         main = "shares" /\ level # 1 => acknowledged'[w] = boundary /\ (fresh'[w] \/ wpc'[w] = "hold"),
         Bound(w)' => /\ running'[w] = 0 \/ current'[w] = share[w]
                      /\ wpc'[w] = "inner" => current'[w] = share[w] /\ share[w] # 0
  PROVE  SplitInv' /\ BoundaryInv' /\ ShareInv'
<1> USE DEF LInv
<1>1. UNCHANGED mainVars /\ UNCHANGED <<plan, main, level, assigned, open, boundary, share>>
  BY DEF Others, mainVars
<1>2. SplitInv'
  BY <1>1, SplitStays
<1>3. BoundaryInv'
  <2>1. ASSUME NEW v \in Worker
        PROVE  /\ acknowledged'[v] <= boundary
               /\ wpc'[v] \in {"hold", "dead"} => running'[v] = 0
               /\ main = "teardown" /\ acknowledged'[v] = boundary => wpc'[v] \in {"hold", "dead"}
               /\ main = "shares" /\ level # 1 => /\ acknowledged'[v] = boundary
                                                  /\ fresh'[v] \/ wpc'[v] = "hold"
    <3>1. CASE v = w
      BY <3>1
    <3>2. CASE v # w
      <4>1. /\ wpc'[v] = wpc[v] /\ running'[v] = running[v]
            /\ acknowledged'[v] = acknowledged[v] /\ fresh'[v] = fresh[v]
        BY <3>2 DEF Others
      <4> QED
        BY <4>1 DEF BoundaryInv
    <3> QED
      BY <3>1, <3>2
  <2> QED
    BY <1>1, <2>1 DEF BoundaryInv, Others
<1>4. ShareInv'
  <2> SUFFICES ASSUME NEW v \in Worker, Bound(v)'
               PROVE  /\ running'[v] = 0 \/ current'[v] = share[v]
                      /\ wpc'[v] = "inner" => current'[v] = share[v] /\ share[v] # 0
    BY <1>1 DEF ShareInv
  <2>1. CASE v = w
    BY <2>1
  <2>2. CASE v # w
    <3>1. wpc'[v] = wpc[v] /\ running'[v] = running[v] /\ current'[v] = current[v] /\ fresh'[v] = fresh[v]
      BY <2>2 DEF Others
    <3>2. Bound(v)
      BY <1>1, <3>1 DEF Bound
    <3> QED
      BY <3>1, <3>2 DEF ShareInv
  <2> QED
    BY <2>1, <2>2
<1> QED
  BY <1>2, <1>3, <1>4

\* What the invariant says of worker w.
LEMMA OfWorker ==
  ASSUME LInv, NEW w \in Worker
  PROVE  /\ acknowledged[w] <= boundary /\ acknowledged[w] \in Nat /\ boundary \in Nat
         /\ wpc[w] \in {"hold", "dead"} => running[w] = 0
         /\ main = "teardown" /\ acknowledged[w] = boundary => wpc[w] \in {"hold", "dead"}
         /\ main = "shares" /\ level # 1 => acknowledged[w] = boundary /\ (fresh[w] \/ wpc[w] = "hold")
         /\ Bound(w) => /\ running[w] = 0 \/ current[w] = share[w]
                        /\ wpc[w] = "inner" => current[w] = share[w] /\ share[w] # 0
         /\ free[w] \in Nat /\ running[w] \in Nat /\ abandoned[w] \in Nat
         /\ free[w] + running[w] + abandoned[w] = current[w]
         /\ main = "teardown" \/ (main = "shares" /\ level # 1) => ~open
  BY DEF LInv, IInv, Counts, PermitsConserved, BoundaryInv, ShareInv

\* A worker that moves on, with the permits and requests it has.
LEMMA MoveHolds ==
  ASSUME LInv, NEW w \in Worker, Skip(w) \/ Keep(w) \/ Leave(w) \/ Again(w)
  PROVE  SplitInv' /\ BoundaryInv' /\ ShareInv'
<1> DEFINE Held == {"hold", "dead"}
<1>1. UNCHANGED <<mainVars, current, running, acknowledged, fresh>>
  BY DEF Skip, Keep, Leave, Again, semVars
<1>2. PICK pc \in {"top", "inner", "leave"} :
        /\ wpc' = [wpc EXCEPT ![w] = pc]
        /\ pc = "inner" => share[w] = current[w] /\ share[w] # 0
        /\ wpc[w] \notin Held
  BY DEF Skip, Keep, Leave, Again, Goto
<1>3. wpc \in [Worker -> {"top", "inner", "leave", "hold", "dead"}] /\ acknowledged \in [Worker -> Nat] /\ fresh \in [Worker -> BOOLEAN]
  BY DEF LInv, BoundaryInv
<1>4. Others(w)
  BY <1>1, <1>2, <1>3 DEF Others
<1>5. wpc'[w] = pc
  BY <1>2, <1>3
<1>6. Bound(w)' => Bound(w)
  BY <1>1 DEF Bound, mainVars
<1> QED
  BY <1>1, <1>2, <1>4, <1>5, <1>6, OfWorker, OthersHold

LEMMA ResizeHolds == ASSUME LInv, NEW w \in Worker, Resize(w) PROVE SplitInv' /\ BoundaryInv' /\ ShareInv'
<1>1. /\ UNCHANGED <<mainVars, running, acknowledged, fresh>>
      /\ current' = [current EXCEPT ![w] = share[w]] /\ wpc' = [wpc EXCEPT ![w] = "inner"]
      /\ wpc[w] = "top" /\ share[w] # 0 /\ free[w] = current[w]
  BY DEF Resize, Goto, EveryPermitBack
<1>2. wpc \in [Worker -> {"top", "inner", "leave", "hold", "dead"}] /\ acknowledged \in [Worker -> Nat] /\ fresh \in [Worker -> BOOLEAN]
  BY DEF LInv, BoundaryInv
<1>3. current \in [Worker -> Nat]
  BY DEF LInv, IInv, Counts
<1>4. Others(w)
  BY <1>1, <1>2, <1>3 DEF Others
<1>5. wpc'[w] = "inner" /\ current'[w] = share[w]
  BY <1>1, <1>2, <1>3
<1> QED
  BY <1>1, <1>4, <1>5, OfWorker, OthersHold

\* A request is pulled in a phase, and not in the hold.
LEMMA PullHolds == ASSUME LInv, NEW w \in Worker, Pull(w) PROVE SplitInv' /\ BoundaryInv' /\ ShareInv'
<1>1. /\ UNCHANGED <<mainVars, wpc, current, acknowledged, fresh>>
      /\ running' = [running EXCEPT ![w] = @ + 1]
      /\ wpc[w] = "inner"
  BY DEF Pull
<1>2. wpc \in [Worker -> {"top", "inner", "leave", "hold", "dead"}] /\ acknowledged \in [Worker -> Nat] /\ fresh \in [Worker -> BOOLEAN]
  BY DEF LInv, BoundaryInv
<1>3. running \in [Worker -> Nat]
  BY DEF LInv, IInv, Counts
<1>4. Others(w)
  BY <1>1, <1>2, <1>3 DEF Others
<1>5. Bound(w)' => Bound(w)
  BY <1>1 DEF Bound, mainVars
<1> QED
  BY <1>1, <1>4, <1>5, OfWorker, OthersHold

\* Nothing is in flight in the hold.
LEMMA WindDownHolds == ASSUME LInv, NEW w \in Worker, WindDown(w) PROVE SplitInv' /\ BoundaryInv' /\ ShareInv'
<1>1. /\ UNCHANGED <<mainVars, current, fresh>>
      /\ running' = [running EXCEPT ![w] = 0]
      /\ acknowledged' = [acknowledged EXCEPT ![w] = boundary]
      /\ wpc' = [wpc EXCEPT ![w] = "hold"]
  BY DEF WindDown, Goto
<1>2. /\ wpc \in [Worker -> {"top", "inner", "leave", "hold", "dead"}]
      /\ acknowledged \in [Worker -> Nat] /\ fresh \in [Worker -> BOOLEAN] /\ boundary \in Nat
  BY DEF LInv, BoundaryInv
<1>3. running \in [Worker -> Nat]
  BY DEF LInv, IInv, Counts
<1>4. Others(w)
  BY <1>1, <1>2, <1>3 DEF Others
<1>5. wpc'[w] = "hold" /\ running'[w] = 0 /\ acknowledged'[w] = boundary
  BY <1>1, <1>2, <1>3
<1> QED
  BY <1>2, <1>4, <1>5, OthersHold

\* The hold is left in a phase, or at a newer boundary.
LEMMA UnholdHolds == ASSUME LInv, NEW w \in Worker, Unhold(w) PROVE SplitInv' /\ BoundaryInv' /\ ShareInv'
<1>1. /\ UNCHANGED <<mainVars, current, running, acknowledged>>
      /\ fresh' = [fresh EXCEPT ![w] = FALSE]
      /\ wpc' = [wpc EXCEPT ![w] = "top"]
      /\ wpc[w] = "hold" /\ (open \/ boundary > acknowledged[w])
  BY DEF Unhold, semVars, Goto
<1>2. wpc \in [Worker -> {"top", "inner", "leave", "hold", "dead"}] /\ acknowledged \in [Worker -> Nat] /\ fresh \in [Worker -> BOOLEAN]
  BY DEF LInv, BoundaryInv
<1>3. Others(w)
  BY <1>1, <1>2 DEF Others
<1>4. wpc'[w] = "top"
  BY <1>1, <1>2
<1> QED
  BY <1>1, <1>3, <1>4, OfWorker, OthersHold

LEMMA FinishHolds == ASSUME LInv, NEW w \in Worker, Finish(w) PROVE SplitInv' /\ BoundaryInv' /\ ShareInv'
<1>1. UNCHANGED <<mainVars, wpc, current, acknowledged, fresh>>
  BY DEF Finish
<1>2. running \in [Worker -> Nat]
  BY DEF LInv, IInv, Counts
<1>3. \/ running[w] > 0 /\ running' = [running EXCEPT ![w] = @ - 1]
      \/ running' = running
  BY DEF Finish
<1>4. wpc \in [Worker -> {"top", "inner", "leave", "hold", "dead"}] /\ acknowledged \in [Worker -> Nat] /\ fresh \in [Worker -> BOOLEAN]
  BY DEF LInv, BoundaryInv
<1>5. Others(w)
  BY <1>1, <1>2, <1>3, <1>4 DEF Others
<1>6. running[w] = 0 => running'[w] = 0
  BY <1>2, <1>3
<1>7. Bound(w)' => Bound(w)
  BY <1>1 DEF Bound, mainVars
<1> QED
  BY <1>1, <1>5, <1>6, <1>7, OfWorker, OthersHold

LEMMA KillHolds == ASSUME LInv, NEW w \in Worker, Kill(w) PROVE SplitInv' /\ BoundaryInv' /\ ShareInv'
<1>1. /\ UNCHANGED <<mainVars, acknowledged, fresh>>
      /\ main \in {"serve", "teardown"}
      /\ wpc' = [wpc EXCEPT ![w] = "dead"]
      /\ current' = [current EXCEPT ![w] = 0] /\ running' = [running EXCEPT ![w] = 0]
  BY DEF Kill, Goto
<1>2. wpc \in [Worker -> {"top", "inner", "leave", "hold", "dead"}] /\ acknowledged \in [Worker -> Nat] /\ fresh \in [Worker -> BOOLEAN]
  BY DEF LInv, BoundaryInv
<1>3. running \in [Worker -> Nat] /\ current \in [Worker -> Nat]
  BY DEF LInv, IInv, Counts
<1>4. Others(w)
  BY <1>1, <1>2, <1>3 DEF Others
<1>5. wpc'[w] = "dead" /\ running'[w] = 0 /\ acknowledged'[w] = acknowledged[w]
  BY <1>1, <1>2, <1>3
<1> QED
  BY <1>1, <1>4, <1>5, OfWorker, OthersHold

LEMMA LNextKeeps == ASSUME WorkerConcurrencyAssumption, LInv, [Next]_vars PROVE LInv'
<1>1. IInv'
  BY NextKeeps DEF LInv
<1>2. CASE UNCHANGED vars \/ Done
  <2>1. UNCHANGED <<mainVars, wpc, current, running, acknowledged, fresh>>
    BY <1>2 DEF vars, Done, semVars
  <2>2. SplitInv'
    BY <2>1, SplitStays DEF LInv
  <2>3. BoundaryInv' /\ ShareInv'
    BY <2>1 DEF LInv, BoundaryInv, ShareInv, Bound, mainVars
  <2> QED
    BY <1>1, <2>2, <2>3 DEF LInv
<1>3. CASE Main
  BY <1>1, <1>3, SetShareHolds, StartStageHolds, EndStageHolds, RendezvousHolds DEF Main, LInv
<1>4. ASSUME NEW w \in Worker, Loop(w) PROVE LInv'
  <2>1. SplitInv' /\ BoundaryInv' /\ ShareInv'
    BY <1>4, MoveHolds, ResizeHolds, PullHolds, WindDownHolds, UnholdHolds DEF Loop
  <2> QED
    BY <1>1, <2>1 DEF LInv
<1>5. ASSUME NEW w \in Worker, Finish(w) \/ Kill(w) PROVE LInv'
  BY <1>1, <1>5, FinishHolds, KillHolds DEF LInv
<1> QED
  BY <1>2, <1>3, <1>4, <1>5 DEF Next

\* The shares of the first n workers, of which a are active, q the quotient and r
\* what the division leaves.
LEMMA SharesOfSome ==
  ASSUME WorkerConcurrencyAssumption, plan \in Plans, NEW l \in Nat \ {0}, NEW f, \A w \in Worker : f[w] = Share(w, l)
  PROVE  SumOver(f, Worker) = l
<1> DEFINE a == ActiveWorkers(l)
           q == l \div a
           r == l % a
           First(n)  == 0 .. n - 1
           Shares(n) == IF n >= a THEN l ELSE n * q + (IF n < r THEN n ELSE r)
           Good == {n \in Nat : n <= NumWorkers => SumOver(f, First(n)) = Shares(n)}
<1>1. a \in Nat \ {0} /\ a <= NumWorkers /\ NumWorkers \in Nat
  <2>1. plan.pinned \in Nat /\ NumWorkers \in Nat \ {0}
    BY DEF WorkerConcurrencyAssumption, Plan
  <2>2. a \in Nat \ {0}
    BY ActiveWorkersPositive
  <2>3. a <= NumWorkers
    <3> DEFINE S == {NumWorkers, l} \cup {n \in {plan.pinned} : n > 0}
    <3>1. \E x \in S : \A y \in S : x <= y
      BY <2>1
    <3>2. \A y \in S : Min(S) <= y
      BY <3>1 DEF Min
    <3> QED
      BY <3>2 DEF ActiveWorkers
  <2> QED
    BY <2>1, <2>2, <2>3
<1>2. \A w \in Worker : f[w] \in Nat
  <2>1. \A w \in Worker : w \in Nat
    BY <1>1 DEF Worker
  <2> QED
    BY <2>1, ShareIsNat
<1>3. \A w \in Worker : f[w] = IF w >= a THEN 0 ELSE q + (IF w < r THEN 1 ELSE 0)
  BY DEF Share
<1> HIDE DEF a
<1>4. q \in Nat /\ r \in Nat /\ r < a /\ l = a * q + r
  BY <1>1
<1> HIDE DEF q, r
<1>5. 0 \in Good
  <2>1. First(0) = {}
    OBVIOUS
  <2>2. SumOver(f, First(0)) = 0
    BY <2>1, SumEmpty
  <2>3. Shares(0) = 0
    BY <1>1, <1>4
  <2> QED
    BY <2>2, <2>3
<1>6. ASSUME NEW n \in Nat, n \in Good PROVE n + 1 \in Good
  <2> SUFFICES ASSUME n + 1 <= NumWorkers PROVE SumOver(f, First(n + 1)) = Shares(n + 1)
    OBVIOUS
  <2> DEFINE S == First(n + 1)
  <2>1. n \in S /\ S \ {n} = First(n) /\ S \subseteq Worker /\ n \in Worker
    BY <1>1 DEF Worker
  <2>2. IsFiniteSet(S)
    BY FS_Interval
  <2>3. SumOver(f, First(n)) = Shares(n)
    BY <1>1, <1>6
  <2>4. SumOver(f, S) = f[n] + Shares(n)
    <3>1. \A y \in S : f[y] \in Nat
      BY <1>2, <2>1
    <3>2. n \in S
      BY <2>1
    <3> HIDE DEF S, Shares, First
    <3>3. SumOver(f, S) = f[n] + SumOver(f, S \ {n})
      BY <2>2, <3>1, <3>2, SumAdd
    <3> QED
      BY <2>1, <2>3, <3>3
  <2>5. f[n] + Shares(n) = Shares(n + 1)
    <3>1. CASE n >= a
      BY <1>1, <1>3, <2>1, <3>1
    <3>2. CASE n < a
      <4>1. f[n] = q + (IF n < r THEN 1 ELSE 0) /\ Shares(n) = n * q + (IF n < r THEN n ELSE r)
        BY <1>1, <1>3, <2>1, <3>2
      <4>2. (n + 1) * q = n * q + q /\ n * q \in Nat
        BY <1>4
      <4>3. CASE n + 1 = a
        <5>1. Shares(n + 1) = l /\ l = n * q + q + r
          BY <1>4, <4>2, <4>3
        <5>2. r <= n
          BY <1>1, <1>4, <4>3
        <5> HIDE DEF Shares
        <5> QED
          BY <1>4, <4>1, <4>2, <5>1, <5>2
      <4>4. CASE n + 1 # a
        <5>1. Shares(n + 1) = n * q + q + (IF n + 1 < r THEN n + 1 ELSE r)
          BY <1>1, <3>2, <4>2, <4>4
        <5> HIDE DEF Shares
        <5> QED
          BY <1>4, <4>1, <4>2, <5>1
      <4> QED
        BY <4>3, <4>4
    <3> QED
      BY <1>1, <3>1, <3>2
  <2> QED
    BY <2>4, <2>5
<1>7. NumWorkers \in Good
  <2> HIDE DEF Good
  <2> QED
    BY <1>1, <1>5, <1>6, NatSetInduction
<1>8. First(NumWorkers) = Worker
  BY DEF Worker
<1> QED
  BY <1>1, <1>7, <1>8

\* Split over the workers, a level is never exceeded by the requests in flight.
LEMMA LevelFollows == ASSUME WorkerConcurrencyAssumption, LInv PROVE LevelRespected
<1> SUFFICES ASSUME main \in {"serve", "teardown"}
             PROVE  Total(running, {w \in Worker : ~fresh[w] \/ level = 1}) <= ConcurrencyLevel
  BY DEF LevelRespected
<1> DEFINE R == {w \in Worker : ~fresh[w] \/ level = 1}
<1>1. plan \in Plans /\ level \in 1 .. Len(plan.levels) /\ running \in [Worker -> Nat] /\ share \in [Worker -> Nat]
  BY DEF LInv, IInv, Counts
<1>2. \A w \in Worker : share[w] = Share(w, ConcurrencyLevel)
  <2>1. NumWorkers \in Nat /\ \A w \in Worker : w < NumWorkers
    BY DEF WorkerConcurrencyAssumption, Worker
  <2> QED
    BY <2>1 DEF LInv, SplitInv
<1>3. SumOver(share, Worker) = ConcurrencyLevel
  BY <1>1, <1>2, LevelIsPositive, SharesOfSome
<1>4. ASSUME NEW w \in R PROVE running[w] <= share[w]
  <2>1. w \in Worker /\ Bound(w)
    BY DEF Bound
  <2>2. running[w] = 0 \/ current[w] = share[w]
    BY <2>1, OfWorker
  <2>3. running[w] <= current[w] /\ share[w] \in Nat /\ running[w] \in Nat
    BY <1>1, <2>1, OfWorker
  <2> QED
    BY <2>2, <2>3
<1>5. IsFiniteSet(Worker)
  <2>1. NumWorkers - 1 \in Int
    BY DEF WorkerConcurrencyAssumption
  <2> QED
    BY <2>1, FS_Interval DEF Worker
<1>6. SumOver(running, R) <= SumOver(share, Worker)
  <2>1. R \in SUBSET Worker /\ \A w \in Worker : running[w] \in Nat /\ share[w] \in Nat
    BY <1>1
  <2> HIDE DEF R
  <2> QED
    BY <1>4, <1>5, <2>1, SumGrows
<1>7. Total(running, R) = SumOver(running, R)
  BY Zenon DEF Total, SumOver
<1> QED
  BY <1>3, <1>6, <1>7

\* However the level of a stage is split, the requests of its workers never exceed
\* it, whatever the levels before, the faults and the number of workers.
THEOREM LevelIsRespected ==
  ASSUME WorkerConcurrencyAssumption
  PROVE  Spec => []LevelRespected
<1>1. LInv => LevelRespected
  BY LevelFollows
<1>2. Init => LInv
  BY InitHolds
<1>3. LInv /\ [Next]_vars => LInv'
  BY LNextKeeps
<1> QED
  BY <1>1, <1>2, <1>3, PTL DEF Spec
=============================================================================
