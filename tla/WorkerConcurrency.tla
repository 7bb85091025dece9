-------------------------- MODULE WorkerConcurrency --------------------------
(***************************************************************************)
(* The concurrency of the workers (loadgen/load_generator.py).  A stage of *)
(* a concurrent load has a concurrency level, which the main process       *)
(* splits into shares, one shared integer per worker.  A worker reads its  *)
(* share between two stages, takes back every permit of its semaphore and  *)
(* makes one of the new size; during a stage it never looks at the share.  *)
(* A task that survives its cancellation is abandoned and keeps its permit.*)
(***************************************************************************)
EXTENDS Integers, Sequences, FiniteSets, FiniteSetsExt

CONSTANTS
  NumWorkers,
  NumRequests,    \* requests of a stage
  Plans           \* the configurations, one of which is run

\* A plan: the concurrency level of each stage, how many workers the preferred
\* workers of the requests reach (0: no request prefers a worker), and what may
\* happen: "cut": a stage is ended early, by a breaker or a signal; "deaf": a task
\* survives its cancellation; "kill": a worker dies.
Plan == [levels : Seq(Nat \ {0}), pinned : 0 .. NumWorkers, faults : SUBSET {"cut", "deaf", "kill"}]

WorkerConcurrencyAssumption ==
  /\ NumWorkers \in Nat \ {0}
  /\ NumRequests \in Nat
  /\ \A p \in Plans : p \in Plan /\ p.levels # <<>>

Worker == 0 .. NumWorkers - 1

VARIABLES
  plan,
  main,         \* shares, serve, teardown, done
  level,        \* index of the stage
  assigned,     \* workers whose share of this stage is set
  open,         \* request_phase
  boundary,     \* stage_boundary_seq
  share,        \* shared_max_concurrency of each worker
  wpc,          \* where each worker is: top, inner, leave, hold, dead
  current,      \* current_concurrency
  free,         \* permits of its semaphore that are not taken
  running,      \* its tasks of the stage
  abandoned,    \* its tasks that survived the end of theirs
  acknowledged, \* stage_done_counter
  fresh,        \* started, and at no boundary yet (history)
  queued,       \* requests in each worker's channel, or all in the shared channel 0
  finished      \* finished_requests_counter

mainVars == <<plan, main, level, assigned, open, boundary, share>>
semVars  == <<current, free, running, abandoned>>
vars     == <<mainVars, wpc, semVars, acknowledged, fresh, queued, finished>>

ConcurrencyLevel == plan.levels[level]

Permits == 0 .. Max({plan.levels[i] : i \in 1 .. Len(plan.levels)})

TypeOK ==
  /\ plan \in Plans
  /\ main \in {"shares", "serve", "teardown", "done"}
  /\ level \in 1 .. Len(plan.levels)
  /\ assigned \in 0 .. NumWorkers
  /\ open \in BOOLEAN
  /\ boundary \in Nat
  /\ wpc \in [Worker -> {"top", "inner", "leave", "hold", "dead"}]
  /\ {share, current, free, running, abandoned} \subseteq [Worker -> Permits]
  /\ {acknowledged, queued} \subseteq [Worker -> Nat]
  /\ fresh \in [Worker -> BOOLEAN]
  /\ finished \in Nat
-----------------------------------------------------------------------------
(* The split of a level *)

\* Defect: requests are routed to workers without a share.
AllWorkers(l) == NumWorkers

\* _active_worker_count
ActiveWorkers(l) ==
  Min({NumWorkers, l} \cup {n \in {plan.pinned} : n > 0})

\* Defect: one worker too many gets what the division leaves.
ShareRoundedUp(w, l) ==
  LET active == ActiveWorkers(l) IN
    IF w >= active THEN 0 ELSE (l \div active) + (IF w <= l % active THEN 1 ELSE 0)

Share(w, l) ==
  LET active == ActiveWorkers(l) IN
    IF w >= active THEN 0 ELSE (l \div active) + (IF w < l % active THEN 1 ELSE 0)

\* The channel of a worker, and that of the i-th request.
Channel(w) == IF plan.pinned = 0 THEN 0 ELSE w

Route(i) == IF plan.pinned = 0 THEN 0 ELSE (i % plan.pinned) % ActiveWorkers(ConcurrencyLevel)
-----------------------------------------------------------------------------
(* The main process *)

SetShare ==
  /\ main = "shares"
  /\ assigned < NumWorkers
  /\ share' = [share EXCEPT ![assigned] = Share(assigned, ConcurrencyLevel)]
  /\ assigned' = assigned + 1
  /\ UNCHANGED <<plan, main, level, open, boundary, wpc, semVars, acknowledged, fresh, queued, finished>>

\* run_stage opens the phase and queues the requests.
StartStage ==
  /\ main = "shares"
  /\ assigned = NumWorkers
  /\ main' = "serve"
  /\ open' = TRUE
  /\ finished' = 0
  /\ queued' = [w \in Worker |-> Cardinality({i \in 1 .. NumRequests : Route(i) = w})]
  /\ UNCHANGED <<plan, level, assigned, boundary, share, wpc, semVars, acknowledged, fresh>>

\* All requests are finished, a worker has died, or the stage is cut short.
EndStage ==
  /\ main = "serve"
  /\ \/ finished >= NumRequests
     \/ \E w \in Worker : wpc[w] = "dead"
     \/ "cut" \in plan.faults
  /\ main' = "teardown"
  /\ open' = FALSE
  /\ boundary' = boundary + 1
  /\ UNCHANGED <<plan, level, assigned, share, wpc, semVars, acknowledged, fresh, queued, finished>>

\* Every living worker is at the boundary: the channels are drained, the dead
\* workers are replaced, and the next stage begins.
Rendezvous ==
  LET dead == {w \in Worker : wpc[w] = "dead"}
      Reset(f, v) == [w \in Worker |-> IF w \in dead THEN v ELSE f[w]]
  IN
  /\ main = "teardown"
  /\ \A w \in Worker \ dead : acknowledged[w] >= boundary
  /\ queued' = [w \in Worker |-> 0]
  /\ wpc' = Reset(wpc, "top")
  /\ current' = Reset(current, 0) /\ free' = Reset(free, 0)
  /\ running' = Reset(running, 0) /\ abandoned' = Reset(abandoned, 0)
  /\ acknowledged' = Reset(acknowledged, boundary)
  /\ fresh' = Reset(fresh, TRUE)
  /\ IF level = Len(plan.levels) THEN main' = "done" /\ UNCHANGED <<level, assigned>>
                                 ELSE main' = "shares" /\ level' = level + 1 /\ assigned' = 0
  /\ UNCHANGED <<plan, open, boundary, share, finished>>
-----------------------------------------------------------------------------
(* A worker's loop *)

Goto(w, pc) == wpc' = [wpc EXCEPT ![w] = pc]

\* No share: the worker does not enter its serving loop.
Skip(w) ==
  /\ wpc[w] = "top"
  /\ share[w] = 0
  /\ Goto(w, "leave")
  /\ UNCHANGED <<mainVars, semVars, acknowledged, fresh, queued, finished>>

\* Defect: the permits that are taken are not waited for.
SomePermitBack(w) == free[w] > 0 \/ current[w] = 0

EveryPermitBack(w) == free[w] = current[w]

\* The share has changed: a new semaphore, once every permit of the old is back.
\* No time limit bounds the wait.
Resize(w) ==
  /\ wpc[w] = "top"
  /\ share[w] \notin {0, current[w]}
  /\ EveryPermitBack(w)
  /\ current' = [current EXCEPT ![w] = share[w]]
  /\ free' = [free EXCEPT ![w] = share[w]]
  /\ Goto(w, "inner")
  /\ UNCHANGED <<mainVars, running, abandoned, acknowledged, fresh, queued, finished>>

Keep(w) ==
  /\ wpc[w] = "top"
  /\ share[w] = current[w] /\ share[w] # 0
  /\ Goto(w, "inner")
  /\ UNCHANGED <<mainVars, semVars, acknowledged, fresh, queued, finished>>

\* The serving loop: a permit, then a request.
Pull(w) ==
  /\ wpc[w] = "inner"
  /\ open
  /\ free[w] > 0
  /\ queued[Channel(w)] > 0
  /\ free' = [free EXCEPT ![w] = @ - 1]
  /\ running' = [running EXCEPT ![w] = @ + 1]
  /\ queued' = [queued EXCEPT ![Channel(w)] = @ - 1]
  /\ UNCHANGED <<mainVars, wpc, current, abandoned, acknowledged, fresh, finished>>

Leave(w) ==
  /\ wpc[w] = "inner"
  /\ ~open
  /\ Goto(w, "leave")
  /\ UNCHANGED <<mainVars, semVars, acknowledged, fresh, queued, finished>>

Again(w) ==
  /\ wpc[w] = "leave"
  /\ open
  /\ Goto(w, "top")
  /\ UNCHANGED <<mainVars, semVars, acknowledged, fresh, queued, finished>>

\* Defect: the permit of an abandoned task is given back.
PermitsOfAll(n, deaf) == n

PermitsBack(n, deaf) == n - deaf

\* _wind_down_stage: tasks that are still running are cancelled, those that do
\* not react are abandoned; then the boundary is acknowledged.
WindDown(w) ==
  /\ wpc[w] = "leave"
  /\ ~open
  /\ \E deaf \in 0 .. running[w] :
       /\ deaf > 0 => "deaf" \in plan.faults
       /\ abandoned' = [abandoned EXCEPT ![w] = @ + deaf]
       /\ free' = [free EXCEPT ![w] = @ + PermitsBack(running[w], deaf)]
       /\ finished' = finished + running[w] - deaf
  /\ running' = [running EXCEPT ![w] = 0]
  /\ acknowledged' = [acknowledged EXCEPT ![w] = boundary]
  /\ Goto(w, "hold")
  /\ UNCHANGED <<mainVars, current, fresh, queued>>

\* The hold ends when a phase is open or a newer boundary is published.
Unhold(w) ==
  /\ wpc[w] = "hold"
  /\ open \/ boundary > acknowledged[w]
  /\ Goto(w, "top")
  /\ fresh' = [fresh EXCEPT ![w] = FALSE]
  /\ UNCHANGED <<mainVars, semVars, acknowledged, queued, finished>>

Loop(w) ==
  Skip(w) \/ Resize(w) \/ Keep(w) \/ Pull(w) \/ Leave(w) \/ Again(w) \/ WindDown(w) \/ Unhold(w)

\* A task ends, in its stage or in a later one.
Finish(w) ==
  /\ \/ running[w] > 0 /\ running' = [running EXCEPT ![w] = @ - 1] /\ UNCHANGED abandoned
     \/ abandoned[w] > 0 /\ abandoned' = [abandoned EXCEPT ![w] = @ - 1] /\ UNCHANGED running
  /\ free' = [free EXCEPT ![w] = @ + 1]
  /\ finished' = finished + 1
  /\ UNCHANGED <<mainVars, wpc, current, acknowledged, fresh, queued>>

\* The process dies, or is terminated at the end of a stage; its tasks are gone.
Kill(w) ==
  /\ "kill" \in plan.faults
  /\ main \in {"serve", "teardown"}
  /\ wpc[w] # "dead"
  /\ Goto(w, "dead")
  /\ current' = [current EXCEPT ![w] = 0] /\ free' = [free EXCEPT ![w] = 0]
  /\ running' = [running EXCEPT ![w] = 0] /\ abandoned' = [abandoned EXCEPT ![w] = 0]
  /\ UNCHANGED <<mainVars, acknowledged, fresh, queued, finished>>

Done == main = "done" /\ UNCHANGED vars
-----------------------------------------------------------------------------
\* The workers start in an open phase, with no share of anything.
Init ==
  /\ plan \in Plans
  /\ main = "shares"
  /\ level = 1
  /\ assigned = 0
  /\ open = TRUE
  /\ boundary = 0
  /\ wpc = [w \in Worker |-> "top"]
  /\ share = [w \in Worker |-> 0]
  /\ current = share /\ free = share /\ running = share /\ abandoned = share
  /\ acknowledged = share /\ queued = share
  /\ fresh = [w \in Worker |-> TRUE]
  /\ finished = 0

Main == SetShare \/ StartStage \/ EndStage \/ Rendezvous

Next ==
  \/ Main
  \/ \E w \in Worker : Loop(w) \/ Finish(w) \/ Kill(w)
  \/ Done

Spec == Init /\ [][Next]_vars

\* The processes run, and every request ends: the client's timeout bounds it,
\* also when its task has been abandoned.
FairSpec ==
  /\ Spec
  /\ WF_vars(Main)
  /\ \A w \in Worker : WF_vars(Loop(w)) /\ WF_vars(Finish(w))
-----------------------------------------------------------------------------
(* Properties *)

Total(f, S) == MapThenSumSet(LAMBDA w : f[w], S)

\* The requests of a stage never exceed its level, whatever the level of the
\* stage before and however its tasks ended. A replacement that reads its share
\* just before it changes, and looks at the phase just after, is left out.
LevelRespected ==
  main \in {"serve", "teardown"} =>
    Total(running, {w \in Worker : ~fresh[w] \/ level = 1}) <= ConcurrencyLevel

\* A permit is free or held by one task, across resizes, cancellations and tasks
\* that outlive their stage.
PermitsConserved ==
  \A w \in Worker : free[w] + running[w] + abandoned[w] = current[w]

\* Every stage ends and the run with it: no worker waits for ever for permits
\* that its own tasks hold, and no request for a worker that will not serve.
RunEnds == <>(main = "done")
=============================================================================
