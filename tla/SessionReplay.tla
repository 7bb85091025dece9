---------------------------- MODULE SessionReplay ----------------------------
(***************************************************************************)
(* Session stages: run_session_stage (load_generator.py) keeps a pool of   *)
(* sessions running; the events of a session are requests with             *)
(* predecessors, all replayed by one worker                                *)
(* (replay_graph_session_datagen.py); the worker tells the main process    *)
(* through the completion queue that a session has completed or failed.    *)
(*                                                                         *)
(* A worker is one event loop: what happens between two awaits is a step.  *)
(* How a stage is torn down is the subject of module StageLifecycle; here  *)
(* the main process leaves the teardown when no live worker has a task.    *)
(***************************************************************************)
EXTENDS Integers, Sequences, FiniteSets

CONSTANTS
  Sessions,            \* number of sessions in the corpus
  Unbuildable,         \* sessions whose graph cannot be built
  Event,               \* the events of a session
  Preds,               \* [Event -> SUBSET Event]: their predecessors
  Stages,              \* number of stages
  NumSessions,         \* sessions a stage takes from the corpus
  ConcurrentSessions,  \* size of the pool, 0 = unlimited
  Workers,
  MaxConcurrency,      \* worker_max_concurrency
  MaxCrashes,          \* bound: workers that die
  Faults               \* what else may happen, see FaultKind

\* "fail":     a request fails (process_failure)
\* "mismatch": the output of a predecessor cannot be substituted
\* "timeout":  the wait for a predecessor times out
\* "raise":    an event raises before it is sent, or its data cannot be loaded
\* "exit":     a stage ends early: interrupt, open breaker or max_stage_duration
FaultKind == {"fail", "mismatch", "timeout", "raise", "exit"}

Session == 1 .. Sessions
ID      == Session \X Event

ASSUME SessionAssumption ==
  /\ Sessions \in Nat
  /\ Stages \in Nat \ {0}
  /\ NumSessions \in Nat \ {0}
  /\ ConcurrentSessions \in Nat
  /\ MaxConcurrency \in Nat \ {0}
  /\ MaxCrashes \in Nat
  /\ Unbuildable \subseteq Session
  /\ Event # {} /\ IsFiniteSet(Event)
  /\ Preds \in [Event -> SUBSET Event]
  /\ Faults \subseteq FaultKind

VARIABLES
  mpc,                    \* begin, loop, teardown, done
  stage,
  stage_status,
  session_cursor,         \* sessions handed to stages so far
  pending, active, completed_ids,
  known, state,           \* session_graph_state of the main process: its sessions, their state
  session_metrics,        \* session metrics, in the order they were recorded
  stage_info,             \* status and stranded sessions published for each stage
  completion_queue,
  home,                   \* the worker that replays each session
  wpc,                    \* where each worker is: serve, wind, hold, dead
  ev,                     \* where each event is
  outputs, failed_ids,    \* EventOutputRegistry of the workers
  completions, failed_sessions, drained,   \* their WorkerSessionTracker
  crashes

mainVars   == <<mpc, stage, stage_status, session_cursor, pending, active, completed_ids,
                known, state, session_metrics, stage_info>>
workerVars == <<outputs, failed_ids, completions, failed_sessions, drained>>
vars == <<mainVars, completion_queue, home, wpc, ev, workerVars, crashes>>

TaskState == {"created", "waiting", "woken", "admission", "sent"}

\* The three terminal paths of an event; the ends of a task that takes none.
Settled == {"completed", "failed", "skipped"}
Retired == {"retired", "cancelled", "dropped", "lost", "raised"}
EvState == {"absent", "queued"} \cup TaskState \cup Settled \cup Retired

Cause == {"request_failed", "substitution", "predecessor_wait_failed",
          "predecessor_failed", "session_already_failed"}

SessionState ==
  [is_complete : BOOLEAN, failed : BOOLEAN, cause : Cause \cup {"none"},
   completed : SUBSET Event, cancelled : Int]

Fresh == [is_complete |-> FALSE, failed |-> FALSE, cause |-> "none", completed |-> {}, cancelled |-> 0]

Notice == [session : Session, failed : BOOLEAN, cause : Cause \cup {"none"},
           completed : SUBSET Event, cancelled : Int]

Metric == [session : Session, stage : 1 .. Stages, error : Cause \cup {"none"},
           completed : SUBSET Event, cancelled : Int]

StageStatus == {"RUNNING", "COMPLETED", "FAILED", "TIMED_OUT", "INTERRUPTED"}

TypeOK ==
  /\ mpc \in {"begin", "loop", "teardown", "done"}
  /\ stage \in 1 .. Stages
  /\ stage_status \in StageStatus
  /\ session_cursor \in 0 .. Sessions
  /\ pending \subseteq Session
  /\ active \subseteq Session
  /\ completed_ids \subseteq Session
  /\ known \subseteq Session
  /\ state \in [Session -> SessionState]
  /\ session_metrics \in Seq(Metric)
  /\ stage_info \in [1 .. Stages -> [status : StageStatus \cup {"none"}, stranded : SUBSET Session]]
  /\ completion_queue \in Seq(Notice)
  /\ home \in [Session -> Workers]
  /\ wpc \in [Workers -> {"serve", "wind", "hold", "dead"}]
  /\ ev \in [ID -> EvState]
  /\ outputs \subseteq ID
  /\ failed_ids \subseteq ID
  /\ completions \subseteq ID
  /\ failed_sessions \subseteq Session
  /\ drained \subseteq ID
  /\ crashes \in Nat
-----------------------------------------------------------------------------
(* State functions *)

Of(s)       == {s} \X Event
Tasks(w)    == {x \in ID : home[x[1]] = w /\ ev[x] \in TaskState}

\* Defect: the end of the corpus is not looked at.
SlicePastEnd(n) == session_cursor + 1 .. session_cursor + n

\* The next n sessions of the corpus, or those that are left.
Slice(n) == {s \in Session : session_cursor < s /\ s <= session_cursor + n}

PoolHasRoom == ConcurrentSessions = 0 \/ Cardinality(active) < ConcurrentSessions

LostWorker == \E w \in Workers : wpc[w] = "dead"
-----------------------------------------------------------------------------
(* The main process: run_session_stage *)

BeginStage ==
  /\ mpc = "begin"
  /\ LET taken == Slice(NumSessions) IN
       /\ taken # {}
       /\ pending' = taken
       /\ session_cursor' = session_cursor + Cardinality(taken)
  /\ active' = {}
  /\ completed_ids' = {}
  /\ stage_status' = "RUNNING"
  /\ mpc' = "loop"
  /\ wpc' = [w \in Workers |-> IF wpc[w] = "hold" THEN "serve" ELSE wpc[w]]
  /\ UNCHANGED <<stage, known, state, session_metrics, stage_info, completion_queue, home, ev,
                 workerVars, crashes>>

NextStage ==
  IF stage = Stages \/ stage_status = "INTERRUPTED"
  THEN mpc' = "done" /\ UNCHANGED stage
  ELSE mpc' = "begin" /\ stage' = stage + 1

\* The corpus is used up: the stage is skipped, but its workers already serve.
SkipStage ==
  /\ mpc = "begin"
  /\ Slice(NumSessions) = {}
  /\ NextStage
  /\ wpc' = [w \in Workers |-> IF wpc[w] = "hold" THEN "serve" ELSE wpc[w]]
  /\ UNCHANGED <<stage_status, session_cursor, pending, active, completed_ids, known, state,
                 session_metrics, stage_info, completion_queue, home, ev, workerVars, crashes>>

\* Interrupt, open breaker, max_stage_duration or a dead worker end the loop.
EarlyStatus ==
  (IF "exit" \in Faults THEN {"INTERRUPTED", "FAILED", "TIMED_OUT"} ELSE {})
  \cup (IF LostWorker THEN {"FAILED"} ELSE {})

ExitEarly ==
  /\ mpc = "loop"
  /\ stage_status' \in EarlyStatus
  /\ mpc' = "teardown"
  /\ UNCHANGED <<stage, session_cursor, pending, active, completed_ids, known, state,
                 session_metrics, stage_info, completion_queue, home, wpc, ev, workerVars, crashes>>

\* What _process_completion_queue makes of notice n about session s.
StateAfter(s, n) ==
  [is_complete |-> TRUE,
   failed      |-> state[s].failed \/ n.failed,
   cause       |-> IF state[s].cause = "none" THEN n.cause ELSE state[s].cause,
   completed   |-> state[s].completed \cup n.completed,
   cancelled   |-> n.cancelled]

\* _process_completion_queue takes one notice; a session without state is ignored.
Receive ==
  /\ mpc = "loop"
  /\ completion_queue # <<>>
  /\ LET n == Head(completion_queue) IN
       state' = IF n.session \in known
                THEN [state EXCEPT ![n.session] = StateAfter(n.session, n)]
                ELSE state
  /\ completion_queue' = Tail(completion_queue)
  /\ UNCHANGED <<mpc, stage, stage_status, session_cursor, pending, active, completed_ids,
                 known, session_metrics, stage_info, home, wpc, ev, workerVars, crashes>>

\* build_session_metric
MetricOf(s) ==
  [session |-> s, stage |-> stage,
   error     |-> IF state[s].failed THEN state[s].cause ELSE "none",
   completed |-> state[s].completed,
   cancelled |-> IF state[s].failed THEN state[s].cancelled ELSE 0]

\* A complete session leaves the pool: its metric is recorded, its state cleaned up.
Collect(s) ==
  /\ mpc = "loop"
  /\ s \in active
  /\ state[s].is_complete
  /\ active' = active \ {s}
  /\ completed_ids' = completed_ids \cup {s}
  /\ session_metrics' = Append(session_metrics, MetricOf(s))
  /\ known' = known \ {s}
  /\ UNCHANGED <<mpc, stage, stage_status, session_cursor, pending, state, stage_info,
                 completion_queue, home, wpc, ev, workerVars, crashes>>

IsNext(s) == s \in pending /\ \A t \in pending : s <= t

\* Every event of the session is put on the channel of its worker.
Dispatch(s) ==
  /\ mpc = "loop"
  /\ PoolHasRoom
  /\ IsNext(s)
  /\ s \notin Unbuildable
  /\ pending' = pending \ {s}
  /\ active' = active \cup {s}
  /\ known' = known \cup {s}
  /\ state' = [state EXCEPT ![s] = Fresh]
  /\ ev' = [x \in ID |-> IF x \in Of(s) THEN "queued" ELSE ev[x]]
  /\ UNCHANGED <<mpc, stage, stage_status, session_cursor, completed_ids, session_metrics,
                 stage_info, completion_queue, home, wpc, workerVars, crashes>>

\* Defect: the session is counted, and not taken off the pending ones.
PassOverStaysPending(s) ==
  /\ mpc = "loop"
  /\ PoolHasRoom
  /\ IsNext(s)
  /\ s \in Unbuildable
  /\ completed_ids' = completed_ids \cup {s}
  /\ UNCHANGED <<mpc, stage, stage_status, session_cursor, pending, active, known, state, session_metrics,
                 stage_info, completion_queue, home, wpc, ev, workerVars, crashes>>

\* A session that cannot be built counts as complete and is not reported.
PassOver(s) ==
  /\ mpc = "loop"
  /\ PoolHasRoom
  /\ IsNext(s)
  /\ s \in Unbuildable
  /\ pending' = pending \ {s}
  /\ completed_ids' = completed_ids \cup {s}
  /\ UNCHANGED <<mpc, stage, stage_status, session_cursor, active, known, state, session_metrics,
                 stage_info, completion_queue, home, wpc, ev, workerVars, crashes>>

AllSessionsDone == pending = {} /\ active = {}

LeaveLoop ==
  /\ mpc = "loop"
  /\ AllSessionsDone
  /\ stage_status' = "COMPLETED"
  /\ mpc' = "teardown"
  /\ UNCHANGED <<stage, session_cursor, pending, active, completed_ids, known, state,
                 session_metrics, stage_info, completion_queue, home, wpc, ev, workerVars, crashes>>

\* Defect: sessions that were never dispatched are forgotten.
StrandedActive == active

Stranded == active \cup pending

\* The rendezvous of the stage (module StageLifecycle), the drain of the
\* channels, the replacement of dead workers, and the StageRuntimeInfo.
EndTeardown ==
  /\ mpc = "teardown"
  /\ \A w \in Workers : wpc[w] \in {"hold", "dead"}
  /\ ev' = [x \in ID |-> IF ev[x] = "queued" THEN "dropped" ELSE ev[x]]
  /\ wpc' = [w \in Workers |-> "hold"]
  /\ stage_info' = [stage_info EXCEPT ![stage] =
       [status   |-> IF LostWorker /\ stage_status = "COMPLETED" THEN "FAILED" ELSE stage_status,
        stranded |-> Stranded]]
  /\ NextStage
  /\ UNCHANGED <<stage_status, session_cursor, pending, active, completed_ids, known, state,
                 session_metrics, completion_queue, home, workerVars, crashes>>

Main ==
  \/ BeginStage \/ SkipStage \/ ExitEarly \/ Receive \/ LeaveLoop \/ EndTeardown
  \/ \E s \in Session : Collect(s) \/ Dispatch(s) \/ PassOver(s)
-----------------------------------------------------------------------------
(* A worker: its loop coroutine *)

unchangedByWorkers == <<mainVars, home, crashes>>

Take(x) ==
  /\ ev[x] = "queued"
  /\ wpc[home[x[1]]] = "serve"
  /\ \E outcome \in {"created"} \cup (IF "raise" \in Faults THEN {"raised"} ELSE {}) :
       ev' = [ev EXCEPT ![x] = outcome]
  /\ UNCHANGED <<unchangedByWorkers, completion_queue, wpc, workerVars>>

\* The worker sees the end of the stage; from here on it is draining.
StartDraining(w) ==
  /\ mpc = "teardown"
  /\ wpc[w] = "serve"
  /\ wpc' = [wpc EXCEPT ![w] = "wind"]
  /\ UNCHANGED <<unchangedByWorkers, completion_queue, ev, workerVars>>

\* stage_teardown_grace_seconds have passed.
CancelTasks(w) ==
  /\ wpc[w] = "wind"
  /\ Tasks(w) # {}
  /\ ev' = [x \in ID |-> IF x \in Tasks(w) THEN "cancelled" ELSE ev[x]]
  /\ UNCHANGED <<unchangedByWorkers, completion_queue, wpc, workerVars>>

ReachBoundary(w) ==
  /\ wpc[w] = "wind"
  /\ Tasks(w) = {}
  /\ wpc' = [wpc EXCEPT ![w] = "hold"]
  /\ UNCHANGED <<unchangedByWorkers, completion_queue, ev, workerVars>>

\* The tracker and the registry die with the process.
Crash(w) ==
  /\ crashes < MaxCrashes
  /\ mpc # "done"
  /\ wpc[w] # "dead"
  /\ crashes' = crashes + 1
  /\ wpc' = [wpc EXCEPT ![w] = "dead"]
  /\ LET here(x) == home[x[1]] = w IN
       /\ ev' = [x \in ID |-> IF x \in Tasks(w) THEN "lost" ELSE ev[x]]
       /\ outputs' = {x \in outputs : ~here(x)}
       /\ failed_ids' = {x \in failed_ids : ~here(x)}
       /\ completions' = {x \in completions : ~here(x)}
       /\ drained' = {x \in drained : ~here(x)}
       /\ failed_sessions' = {s \in failed_sessions : home[s] # w}
  /\ UNCHANGED <<mainVars, completion_queue, home>>
-----------------------------------------------------------------------------
(* A worker: the task of an event x *)

Running(x, s) == ev[x] = s /\ wpc[home[x[1]]] \in {"serve", "wind"}

Draining(x) == wpc[home[x[1]]] = "wind"

\* Defect: only completed events count.
DrainedByCompletion(x, how) == IF how = "completed" THEN drained \cup {x} ELSE drained

\* The events of the session that have drained once x has ended with how.
DrainedWith(x, how) == drained \cup {x}

\* _mark_drained_and_maybe_evict: the last event of a session takes with it all
\* the worker keeps of the session.  o, f, c, fs are the registry and the tracker
\* after what the terminal path itself wrote.
Settle(x, how, o, f, c, fs) ==
  LET s == x[1]
      evict == Of(s) \subseteq DrainedWith(x, how)
      kept(S) == IF evict THEN S \ Of(s) ELSE S
  IN /\ ev' = [ev EXCEPT ![x] = how]
     /\ outputs' = kept(o)
     /\ failed_ids' = kept(f)
     /\ completions' = kept(c)
     /\ drained' = kept(DrainedWith(x, how))
     /\ failed_sessions' = IF evict THEN fs \ {s} ELSE fs

DoneBy(s, c) == {e \in Event : <<s, e>> \in c}

FirstFailure(s) == s \notin failed_sessions

\* _fail_and_notify and process_failure: the first failure of a session is
\* reported to the main process, with the events it takes to be cancelled.
FailEvent(x, how, cause) ==
  LET s == x[1] IN
  /\ completion_queue' =
       IF FirstFailure(s)
       THEN Append(completion_queue,
              [session |-> s, failed |-> TRUE, cause |-> cause, completed |-> DoneBy(s, completions),
               cancelled |-> Cardinality(Event) - Cardinality(DoneBy(s, completions)) - 1])
       ELSE completion_queue
  /\ Settle(x, how, outputs, failed_ids \cup {x}, completions, failed_sessions \cup {s})
  /\ UNCHANGED <<unchangedByWorkers, wpc>>

\* The task returns and leaves no trace in the tracker.
Retire(x, how) ==
  /\ ev' = [ev EXCEPT ![x] = how]
  /\ UNCHANGED <<unchangedByWorkers, completion_queue, wpc, workerVars>>

Advance(x, to) == Retire(x, to)

\* The pre-wait check.
Start(x) ==
  /\ Running(x, "created")
  /\ IF x[1] \in failed_sessions
     THEN FailEvent(x, "skipped", "session_already_failed")
     ELSE Advance(x, "waiting")

PredsOf(x) == {x[1]} \X Preds[x[2]]

\* Defect: one predecessor is enough.
AnyPredDone(x) == PredsOf(x) = {} \/ PredsOf(x) \cap outputs # {}

AllPredsDone(x) == PredsOf(x) \subseteq outputs

\* Every predecessor has recorded its output.
Wake(x) ==
  /\ Running(x, "waiting")
  /\ AllPredsDone(x)
  /\ PredsOf(x) \cap failed_ids = {}
  /\ Advance(x, "woken")

PredFailed(x) == PredsOf(x) \cap failed_ids # {}

WakeToFailure(x) ==
  /\ Running(x, "waiting")
  /\ PredFailed(x)
  /\ FailEvent(x, "skipped", "predecessor_failed")

WaitTimesOut(x) ==
  /\ "timeout" \in Faults
  /\ Running(x, "waiting")
  /\ ~AllPredsDone(x)
  /\ FailEvent(x, "skipped", "predecessor_wait_failed")

\* After wait_ms, the outputs of the predecessors are substituted; a worker
\* that is draining does not go on to admission.
Prepare(x) ==
  /\ Running(x, "woken")
  /\ \/ "mismatch" \in Faults /\ Preds[x[2]] # {} /\ FailEvent(x, "skipped", "substitution")
     \/ "raise" \in Faults /\ Retire(x, "raised")
     \/ IF Draining(x) THEN Retire(x, "retired") ELSE Advance(x, "admission")

HasPermit(x) ==
  Cardinality({y \in Tasks(home[x[1]]) : ev[y] = "sent"}) < MaxConcurrency

StageOver(x) == Draining(x) \/ mpc # "loop"

GiveUpAdmission(x) ==
  /\ Running(x, "admission")
  /\ StageOver(x)
  /\ Retire(x, "retired")

\* Defect: the session is not looked at again after the wait for a permit.
NoPostPermitCheck(x) == FALSE

SessionFailed(x) == x[1] \in failed_sessions

Admit(x) ==
  /\ Running(x, "admission")
  /\ ~StageOver(x)
  /\ HasPermit(x)
  /\ IF SessionFailed(x)
     THEN FailEvent(x, "skipped", "session_already_failed")
     ELSE Advance(x, "sent")

\* Defect: off by one.
AllButOneCompleted(s, c) == Cardinality(Of(s) \ c) <= 1

AllCompleted(s, c) == Of(s) \subseteq c

\* on_completion
Complete(x) ==
  LET s == x[1]
      c == completions \cup {x}
  IN
  /\ Running(x, "sent")
  /\ completion_queue' =
       IF AllCompleted(s, c)
       THEN Append(completion_queue,
              [session |-> s, failed |-> s \in failed_sessions, cause |-> "none",
               completed |-> Event, cancelled |-> 0])
       ELSE completion_queue
  /\ Settle(x, "completed", outputs \cup {x}, failed_ids, c, failed_sessions)
  /\ UNCHANGED <<unchangedByWorkers, wpc>>

\* process_failure
Fail(x) ==
  /\ "fail" \in Faults
  /\ Running(x, "sent")
  /\ FailEvent(x, "failed", "request_failed")

Raise(x) ==
  /\ "raise" \in Faults
  /\ Running(x, "sent")
  /\ Retire(x, "raised")

Task(x) ==
  \/ Take(x) \/ Start(x) \/ Wake(x) \/ WakeToFailure(x) \/ WaitTimesOut(x) \/ Prepare(x)
  \/ GiveUpAdmission(x) \/ Admit(x) \/ Complete(x) \/ Fail(x) \/ Raise(x)
-----------------------------------------------------------------------------
Init ==
  /\ mpc = "begin"
  /\ stage = 1
  /\ stage_status = "RUNNING"
  /\ session_cursor = 0
  /\ pending = {}
  /\ active = {}
  /\ completed_ids = {}
  /\ known = {}
  /\ state = [s \in Session |-> Fresh]
  /\ session_metrics = <<>>
  /\ stage_info = [n \in 1 .. Stages |-> [status |-> "none", stranded |-> {}]]
  /\ completion_queue = <<>>
  /\ home \in [Session -> Workers]
  /\ wpc = [w \in Workers |-> "hold"]
  /\ ev = [x \in ID |-> "absent"]
  /\ outputs = {}
  /\ failed_ids = {}
  /\ completions = {}
  /\ failed_sessions = {}
  /\ drained = {}
  /\ crashes = 0

\* The run is over.
Done == mpc = "done" /\ UNCHANGED vars

Next ==
  \/ Main
  \/ Done
  \/ \E x \in ID : Task(x)
  \/ \E w \in Workers : StartDraining(w) \/ CancelTasks(w) \/ ReachBoundary(w) \/ Crash(w)

Spec == Init /\ [][Next]_vars

\* No process is starved, a request that was sent ends, timers expire, and a
\* semaphore admits its waiters in turn.
Fairness ==
  /\ WF_vars(Main)
  /\ \A w \in Workers : WF_vars(StartDraining(w)) /\ WF_vars(CancelTasks(w)) /\ WF_vars(ReachBoundary(w))
  /\ \A x \in ID :
       /\ WF_vars(Take(x)) /\ WF_vars(Start(x)) /\ WF_vars(Wake(x)) /\ WF_vars(WakeToFailure(x))
       /\ WF_vars(WaitTimesOut(x)) /\ WF_vars(Prepare(x)) /\ WF_vars(GiveUpAdmission(x)) /\ SF_vars(Admit(x))
       /\ WF_vars(Complete(x) \/ Fail(x) \/ Raise(x))

FairSpec == Spec /\ Fairness
-----------------------------------------------------------------------------
(* Properties *)

\* A request is sent only when every predecessor has really answered: with all
\* outputs there to be substituted, and none of them evicted.
SentAfterPredecessors ==
  [][\A x \in ID : ev[x] # "sent" /\ ev'[x] = "sent"
       => \A p \in PredsOf(x) : ev[p] = "completed" /\ p \in outputs]_vars

\* Once an event of a session has failed, no further request of it is sent.
NothingSentAfterFailure ==
  [][\A x \in ID : ev[x] # "sent" /\ ev'[x] = "sent"
       => \A y \in Of(x[1]) : ev[y] \notin {"failed", "skipped"}]_vars

\* What a worker keeps of a session goes with the session's last event, not
\* before (an event that still runs would find its predecessors forgotten) and
\* not later (memory grows with the sessions played).
KeptExactlyWhileRunning ==
  \A s \in Session :
    LET settled == {x \in Of(s) : ev[x] \in Settled}
        kept == Of(s) \cap (outputs \cup failed_ids \cup completions \cup drained)
    IN IF settled = Of(s)
       THEN kept = {} /\ s \notin failed_sessions
       ELSE wpc[home[s]] # "dead" /\ (\E x \in Of(s) : ev[x] \in {"queued"} \cup TaskState)
              => /\ drained \cap Of(s) = settled
                 /\ outputs \cap Of(s) = {x \in Of(s) : ev[x] = "completed"}

MetricsOf(s) == {i \in 1 .. Len(session_metrics) : session_metrics[i].session = s}

\* A session is reported as succeeded only if all of its events have completed,
\* and a failed one with the cause that broke it, never a consequence of it
\* ("first-write-wins is what keeps the reported cause pointing at the thing
\* that actually broke rather than at the cascade").
ReportedTruly ==
  \A s \in Session : \A i \in MetricsOf(s) :
    LET error == session_metrics[i].error IN
      /\ error = "none" <=> (\A x \in Of(s) : ev[x] = "completed")
      /\ error \notin {"predecessor_failed", "session_already_failed"}

\* A session the stages have taken is reported once or stranded in one stage,
\* never both; only one that could not be built leaves no trace; and a stage
\* that calls itself completed has stranded none.
SessionsAccounted ==
  mpc \in {"begin", "done"} =>
    /\ \A s \in 1 .. session_cursor :
         LET traces == Cardinality({n \in 1 .. Stages : s \in stage_info[n].stranded})
                       + Cardinality(MetricsOf(s))
         IN traces = 1 \/ (s \in Unbuildable /\ traces = 0)
    /\ \A n \in 1 .. Stages : stage_info[n].status = "COMPLETED" => stage_info[n].stranded = {}

\* A session that the stage waits for although nothing is left to come of it: an
\* event of it raised, of which the main process is not told.
Abandoned(s) ==
  /\ s \in active /\ ~state[s].is_complete /\ completion_queue = <<>>
  /\ \E x \in Of(s) : ev[x] = "raised"
  /\ \A x \in Of(s) : ev[x] \notin {"queued"} \cup TaskState

\* Every session stage ends, whether its requests are answered, fail, time out or
\* are lost with their worker ("Clean shutdown: sessions complete even when events
\* fail", docs/otel_trace_replay.md), unless an event raised and is the last of
\* its session to end.
StagesEnd == <>(mpc = "done" \/ \E s \in Session : Abandoned(s))
=============================================================================
