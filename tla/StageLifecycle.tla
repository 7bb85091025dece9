--------------------------- MODULE StageLifecycle ---------------------------
(***************************************************************************)
(* The multi-process stage protocol of LoadGenerator (load_generator.py):  *)
(* the main process runs stage after stage (run_stage, _teardown_stage,    *)
(* mp_run), worker processes pull requests, run one asyncio task for each, *)
(* and meet the main process at the stage rendezvous.                      *)
(*                                                                         *)
(* Shared memory is mp.Event and mp.Value: a step reads or writes it once, *)
(* except that the condition of one statement is evaluated in one step     *)
(* (but see Faults, "torn").  A request that is retired is counted under   *)
(* one lock after the other, in two steps: in skipped or active first,     *)
(* then in finished, which the main process polls (counting, Count).       *)
(* Between two awaits a worker is one thread, and its tasks only run while *)
(* its loop coroutine awaits: LoopAwaits.  In particular a worker in the   *)
(* boundary hold blocks its event loop.                                    *)
(***************************************************************************)
EXTENDS Integers, FiniteSets

CONSTANTS
  Workers,        \* ids of the worker processes
  Stages,         \* number of stages of the run
  StageSize,      \* requests of a stage (num_requests)
  MaxConcurrency, \* semaphore permits of a worker
  NoWorker,       \* owner of a request no worker has taken
  MaxCrashes,     \* bound: workers that die abruptly (OOM kill, unhandled error)
  MaxWedges,      \* bound: workers whose event loop stops for good
  Unloadable,     \* requests whose data may fail to load in the worker
  Faults          \* what else may happen, see FaultKind

\* "timeout":   run_stage has a timeout and it passes (only the sweep gives one)
\* "slow":      a sound worker misses the deadlines of the main process
\* "grace":     requests outlive stage_teardown_grace_seconds
\* "deaf":      a request outlives its cancellation, and with it the reap
\* "torn":      a worker in the hold is preempted between its reads of two events
\* "raise":     process_request raises instead of recording a metric
\* "strand":    a dying worker holds the lock of the finished counter
\* "interrupt", "breaker": what may end a stage early
FaultKind == {"timeout", "slow", "grace", "deaf", "torn", "raise", "strand", "interrupt", "breaker"}

ASSUME ConstantsAssumption ==
  /\ NoWorker \notin Workers
  /\ Stages \in Nat \ {0}
  /\ StageSize \in Nat \ {0}
  /\ MaxConcurrency \in Nat \ {0}
  /\ MaxCrashes \in Nat
  /\ MaxWedges \in Nat
  /\ Faults \subseteq FaultKind

Request == (1 .. Stages) \X (1 .. StageSize)

StageOf(r) == r[1]

VARIABLES
  mpc,                        \* where the main process is
  stage,                      \* the stage it runs
  stage_status,               \* local stage_status of run_stage
  clean,                      \* local clean of _teardown_stage
  forced,                     \* local forced of _teardown_stage
  stage_runtime_info,         \* status published for each stage
  interrupt_sig,
  breaker_open,               \* a circuit breaker is open, as the parent sees it
  request_phase, cancel_signal, force_stop_signal, stop_signal,
  stage_boundary_seq,         \* also _expected_stage_done, its private copy
  finished_requests_counter, skipped_requests_counter, active_requests_counter,
  lock_stranded,              \* finished_requests_counter's lock died with its holder
  counting,                   \* workers that retired a request and have yet to count it finished
  wpc,                        \* where each worker's loop coroutine is
  stage_done_counter,         \* per worker, written at each rendezvous
  doomed,                     \* workers terminate() was called on
  respawned,                  \* history: workers that are a replacement process
  req,                        \* where each request is
  owner,                      \* the worker that took it
  failures                    \* crashes and wedges that happened so far

mainVars   == <<mpc, stage, stage_status, clean, forced, stage_runtime_info>>
inputVars  == <<interrupt_sig, breaker_open>>
signalVars == <<request_phase, cancel_signal, force_stop_signal, stop_signal, stage_boundary_seq>>
countVars  == <<finished_requests_counter, skipped_requests_counter, active_requests_counter,
                lock_stranded, counting>>
workerVars == <<wpc, stage_done_counter, doomed, respawned, failures>>
reqVars    == <<req, owner>>
vars == <<mainVars, inputVars, signalVars, countVars, workerVars, reqVars>>

StageStatus == {"RUNNING", "COMPLETED", "FAILED", "TIMED_OUT", "INTERRUPTED"}

MainPc == {"begin", "reset", "put", "poll", "publish", "cancel", "clear", "rendezvous",
           "drain", "release", "respawn", "end", "phase", "stop", "join", "done"}

\* "retire": the loop coroutine is retiring a request it could not load.
WorkerPc == {"top", "fetch", "retire", "leave", "wind", "reap", "ack", "hold", "peek",
             "wedged", "exited", "dead"}

\* A task is waiting (for its time or for admission), inflight or cancelling
\* (task.cancel() was called).  It holds a permit in each of them.
TaskState == {"waiting", "inflight", "cancelling"}
Retired   == {"recorded", "raised", "unloadable", "skipped", "cancelled"}
ReqState  == {"unborn", "queued", "dropped", "lost"} \cup TaskState \cup Retired

TypeOK ==
  /\ mpc \in MainPc
  /\ stage \in 1 .. Stages
  /\ stage_status \in StageStatus
  /\ clean \in BOOLEAN
  /\ forced \in SUBSET Workers
  /\ stage_runtime_info \in [1 .. Stages -> StageStatus \cup {"none"}]
  /\ interrupt_sig \in BOOLEAN
  /\ breaker_open \in BOOLEAN
  /\ request_phase \in BOOLEAN
  /\ cancel_signal \in BOOLEAN
  /\ force_stop_signal \in BOOLEAN
  /\ stop_signal \in BOOLEAN
  /\ stage_boundary_seq \in Nat
  /\ finished_requests_counter \in Nat
  /\ skipped_requests_counter \in Nat
  /\ active_requests_counter \in Int
  /\ lock_stranded \in BOOLEAN
  /\ counting \in SUBSET Workers
  /\ wpc \in [Workers -> WorkerPc]
  /\ stage_done_counter \in [Workers -> Nat]
  /\ doomed \in SUBSET Workers
  /\ respawned \in SUBSET Workers
  /\ failures \in Nat
  /\ req \in [Request -> ReqState]
  /\ owner \in [Request -> Workers \cup {NoWorker}]
-----------------------------------------------------------------------------
(* State functions *)

IsAlive(w) == wpc[w] \notin {"exited", "dead"}

\* Tasks of worker w that are not done.
Tasks(w) == {r \in Request : owner[r] = w /\ req[r] \in TaskState}

\* The event loop of w runs tasks: the loop coroutine is at one of its awaits, and
\* no task is between its two counters.
LoopAwaits(w) == wpc[w] \in {"fetch", "wind", "reap"} /\ w \notin counting

Draining(w) == wpc[w] \in {"wind", "reap"}

Queued == {r \in Request : req[r] = "queued"}

\* Defect: the dead are waited for.
PendingWithDead == {w \in Workers : stage_done_counter[w] < stage_boundary_seq}

\* Workers the rendezvous still waits for.
Pending == {w \in Workers : IsAlive(w) /\ stage_done_counter[w] < stage_boundary_seq}

LostWorker == \E w \in Workers : ~IsAlive(w)
-----------------------------------------------------------------------------
(* The main process: run_stage *)

Goto(pc) == mpc' = pc

BeginStage ==
  /\ mpc = "begin"
  /\ request_phase' = TRUE
  /\ stage_status' = "RUNNING"
  /\ clean' = TRUE
  /\ forced' = {}
  /\ Goto("reset")
  /\ UNCHANGED <<stage, stage_runtime_info, inputVars, cancel_signal, force_stop_signal,
                 stop_signal, stage_boundary_seq, countVars, workerVars, reqVars>>

\* Defect: a counter keeps what the stage before left in it.
FinishedCarriedOver == finished_requests_counter
SkippedCarriedOver  == skipped_requests_counter

FinishedAtStart == 0
SkippedAtStart  == 0

ResetCounters ==
  /\ mpc = "reset"
  /\ ~lock_stranded
  /\ finished_requests_counter' = FinishedAtStart
  /\ skipped_requests_counter' = SkippedAtStart
  /\ Goto("put")
  /\ UNCHANGED <<stage, stage_status, clean, forced, stage_runtime_info, inputVars,
                 signalVars, active_requests_counter, lock_stranded, counting, workerVars, reqVars>>

PutRequest ==
  /\ mpc = "put"
  /\ \E i \in 1 .. StageSize :
       /\ req[<<stage, i>>] = "unborn"
       /\ \A j \in 1 .. i - 1 : req[<<stage, j>>] # "unborn"
       /\ req' = [req EXCEPT ![<<stage, i>>] = "queued"]
       /\ Goto(IF i = StageSize THEN "poll" ELSE "put")
  /\ UNCHANGED <<stage, stage_status, clean, forced, stage_runtime_info, inputVars,
                 signalVars, countVars, workerVars, owner>>

\* Defect: one request too early.
AllButOneFinished == finished_requests_counter >= StageSize - 1

AllFinished == finished_requests_counter >= StageSize

\* The statuses with which one turn of the polling loop may leave it.
PollExit ==
  IF AllFinished
  THEN {"COMPLETED"}
  ELSE (IF "timeout" \in Faults THEN {"TIMED_OUT"} ELSE {})
       \cup (IF interrupt_sig THEN {"INTERRUPTED"}
             ELSE IF breaker_open \/ LostWorker THEN {"FAILED"} ELSE {})

Poll ==
  /\ mpc = "poll"
  /\ ~lock_stranded
  /\ stage_status' \in PollExit
  /\ Goto("publish")
  /\ UNCHANGED <<stage, clean, forced, stage_runtime_info, inputVars,
                 signalVars, countVars, workerVars, reqVars>>
-----------------------------------------------------------------------------
(* The main process: _teardown_stage *)

PublishBoundary ==
  /\ mpc = "publish"
  /\ stage_boundary_seq' = stage_boundary_seq + 1
  /\ Goto("cancel")
  /\ UNCHANGED <<stage, stage_status, clean, forced, stage_runtime_info, inputVars,
                 request_phase, cancel_signal, force_stop_signal, stop_signal,
                 countVars, workerVars, reqVars>>

SetCancel ==
  /\ mpc = "cancel"
  /\ cancel_signal' = TRUE
  /\ Goto("clear")
  /\ UNCHANGED <<stage, stage_status, clean, forced, stage_runtime_info, inputVars,
                 request_phase, force_stop_signal, stop_signal, stage_boundary_seq,
                 countVars, workerVars, reqVars>>

ClearPhase ==
  /\ mpc = "clear"
  /\ request_phase' = FALSE
  /\ Goto("rendezvous")
  /\ UNCHANGED <<stage, stage_status, clean, forced, stage_runtime_info, inputVars,
                 cancel_signal, force_stop_signal, stop_signal, stage_boundary_seq,
                 countVars, workerVars, reqVars>>

Rendezvous ==
  /\ mpc = "rendezvous"
  /\ Pending = {}
  /\ Goto("drain")
  /\ UNCHANGED <<stage, stage_status, clean, forced, stage_runtime_info, inputVars,
                 signalVars, countVars, workerVars, reqVars>>

\* The margins of the main process exceed what a wind-down takes, so that a
\* deadline passes for a wedged worker, for one that is slow to be scheduled, for
\* one that reaps a deaf request (asyncio.wait_for waits for what it cancels), and
\* for one that waits for a lock nobody will release.
DeadlinePasses ==
  \E w \in Pending :
    \/ "slow" \in Faults
    \/ wpc[w] = "wedged"
    \/ "deaf" \in Faults /\ wpc[w] = "reap" /\ Tasks(w) # {}
    \/ lock_stranded /\ w \in counting

\* grace_deadline passed: teardown_grace_seconds plus the margin.
ForceStop ==
  /\ mpc = "rendezvous"
  /\ DeadlinePasses
  /\ ~force_stop_signal
  /\ force_stop_signal' = TRUE
  /\ UNCHANGED <<mainVars, inputVars, request_phase, cancel_signal, stop_signal,
                 stage_boundary_seq, countVars, workerVars, reqVars>>

\* Defect: forcing does not start the second deadline.
ForceDeadlineNeverSet == FALSE

ForceDeadlineSet == force_stop_signal

\* force_deadline passed.
TerminatePending ==
  /\ mpc = "rendezvous"
  /\ DeadlinePasses
  /\ ForceDeadlineSet
  /\ doomed' = doomed \cup Pending
  /\ forced' = Pending
  /\ clean' = FALSE
  /\ Goto("drain")
  /\ UNCHANGED <<stage, stage_status, stage_runtime_info, inputVars, signalVars,
                 countVars, wpc, stage_done_counter, respawned, failures, reqVars>>

\* RequestQueue.drain, taken as reaching its sentinel (module RequestQueue has the rest).
Drain ==
  /\ mpc = "drain"
  /\ req' = [r \in Request |-> IF req[r] = "queued" THEN "dropped" ELSE req[r]]
  /\ Goto("release")
  /\ UNCHANGED <<stage, stage_status, clean, forced, stage_runtime_info, inputVars,
                 signalVars, countVars, workerVars, owner>>

Release ==
  /\ mpc = "release"
  /\ force_stop_signal' = FALSE
  /\ cancel_signal' = FALSE
  /\ Goto("respawn")
  /\ UNCHANGED <<stage, stage_status, clean, forced, stage_runtime_info, inputVars,
                 request_phase, stop_signal, stage_boundary_seq, countVars, workerVars, reqVars>>

\* Defect: only the workers terminated here are replaced.
NeedsReplacingForcedOnly(w) == w \in forced

NeedsReplacing(w) ==
  \/ w \in forced
  \/ ~IsAlive(w)
  \/ stage_done_counter[w] < stage_boundary_seq

\* A dead process never runs its tasks again; nothing undoes what they counted.
LoseTasks(W) ==
  req' = [r \in Request |-> IF owner[r] \in W /\ req[r] \in TaskState THEN "lost" ELSE req[r]]

\* The counter a replacement process starts from (_respawn_worker).
RespawnCounter == stage_boundary_seq

\* join, kill if need be, and start the replacements.
RespawnWorkers ==
  /\ mpc = "respawn"
  /\ LET replaced == {w \in Workers : NeedsReplacing(w)} IN
       /\ clean' = (clean /\ replaced = {})
       /\ wpc' = [w \in Workers |-> IF w \in replaced THEN "top" ELSE wpc[w]]
       /\ stage_done_counter' =
            [w \in Workers |-> IF w \in replaced THEN RespawnCounter ELSE stage_done_counter[w]]
       /\ doomed' = doomed \ replaced
       /\ respawned' = respawned \cup replaced
       /\ counting' = counting \ replaced
       /\ LoseTasks(replaced)
  /\ Goto("end")
  /\ UNCHANGED <<stage, stage_status, forced, stage_runtime_info, inputVars, signalVars,
                 finished_requests_counter, skipped_requests_counter, active_requests_counter,
                 lock_stranded, failures, owner>>

FinalStatus == IF stage_status = "COMPLETED" /\ ~clean THEN "FAILED" ELSE stage_status

\* Defect: one stage too many.
RunPastLastStage == interrupt_sig \/ stage > Stages

RunOver == interrupt_sig \/ stage = Stages

\* StageRuntimeInfo is stored, and mp_run goes to the next stage or leaves its loop.
EndStage ==
  /\ mpc = "end"
  /\ stage_runtime_info' = [stage_runtime_info EXCEPT ![stage] = FinalStatus]
  /\ IF RunOver
     THEN Goto("phase") /\ UNCHANGED stage
     ELSE Goto("begin") /\ stage' = stage + 1
  /\ UNCHANGED <<stage_status, clean, forced, inputVars, signalVars, countVars,
                 workerVars, reqVars>>
-----------------------------------------------------------------------------
(* The main process: the end of mp_run, and stop() *)

SetLastPhase ==
  /\ mpc = "phase"
  /\ request_phase' = TRUE
  /\ Goto("stop")
  /\ UNCHANGED <<stage, stage_status, clean, forced, stage_runtime_info, inputVars,
                 cancel_signal, force_stop_signal, stop_signal, stage_boundary_seq,
                 countVars, workerVars, reqVars>>

SetStop ==
  /\ mpc = "stop"
  /\ stop_signal' = TRUE
  /\ Goto("join")
  /\ UNCHANGED <<stage, stage_status, clean, forced, stage_runtime_info, inputVars,
                 request_phase, cancel_signal, force_stop_signal, stage_boundary_seq,
                 countVars, workerVars, reqVars>>

\* Defect: join without terminate.
NoStragglers == {}

Stragglers == {w \in Workers : IsAlive(w)}

\* stop(): a worker that has not exited one second later is terminated.
StopWorkers ==
  /\ mpc = "join"
  /\ doomed' = doomed \cup Stragglers
  /\ Goto("done")
  /\ UNCHANGED <<stage, stage_status, clean, forced, stage_runtime_info, inputVars,
                 signalVars, countVars, wpc, stage_done_counter, respawned, failures, reqVars>>

Main ==
  \/ BeginStage \/ ResetCounters \/ PutRequest \/ Poll
  \/ PublishBoundary \/ SetCancel \/ ClearPhase
  \/ Rendezvous \/ ForceStop \/ TerminatePending
  \/ Drain \/ Release \/ RespawnWorkers \/ EndStage \/ SetLastPhase \/ SetStop \/ StopWorkers
-----------------------------------------------------------------------------
(* A worker process: Worker.loop *)

At(w, pc)   == wpc[w] = pc
Runs(w, pc) == At(w, pc) /\ w \notin counting
Move(w, pc) == wpc' = [wpc EXCEPT ![w] = pc]

unchangedByWorkers == <<mainVars, inputVars, signalVars, doomed, respawned, failures>>

ServePhase == request_phase /\ ~cancel_signal /\ ~stop_signal

\* The condition of the inner loop, evaluated before each turn.
NextTurn == IF ServePhase THEN "fetch" ELSE "leave"

Top(w) ==
  /\ At(w, "top")
  /\ ~stop_signal
  /\ Move(w, NextTurn)
  /\ UNCHANGED <<unchangedByWorkers, countVars, stage_done_counter, reqVars>>

\* asyncio.run cancels what loop() left behind, and the process exits.
Exit(w) ==
  /\ At(w, "top")
  /\ stop_signal
  /\ Move(w, "exited")
  /\ LoseTasks({w})
  /\ UNCHANGED <<unchangedByWorkers, countVars, stage_done_counter, owner>>

\* The channel is a FIFO.
IsNext(r) == r \in Queued /\ \A q \in Queued : r[1] < q[1] \/ (r[1] = q[1] /\ r[2] <= q[2])

HasPermit(w) == Cardinality(Tasks(w)) < MaxConcurrency

\* A permit, then get_nowait, then a task for the request.
Fetch(w) ==
  /\ Runs(w, "fetch")
  /\ HasPermit(w)
  /\ \E r \in Request :
       /\ IsNext(r)
       /\ req' = [req EXCEPT ![r] = "waiting"]
       /\ owner' = [owner EXCEPT ![r] = w]
  /\ Move(w, NextTurn)
  /\ UNCHANGED <<unchangedByWorkers, countVars, stage_done_counter>>

\* The same, but the data of the request cannot be loaded: it is retired on the spot.
FetchUnloadable(w) ==
  /\ Runs(w, "fetch")
  /\ HasPermit(w)
  /\ \E r \in Request : r \in Unloadable /\ IsNext(r) /\ req' = [req EXCEPT ![r] = "unloadable"]
  /\ skipped_requests_counter' = skipped_requests_counter + 1
  /\ counting' = counting \cup {w}
  /\ Move(w, "retire")
  /\ UNCHANGED <<unchangedByWorkers, finished_requests_counter, active_requests_counter,
                 lock_stranded, stage_done_counter, owner>>

\* No permit within the timeout, Empty (the feeder thread may lag), or an error.
FetchNothing(w) ==
  /\ Runs(w, "fetch")
  /\ Move(w, NextTurn)
  /\ UNCHANGED <<unchangedByWorkers, countVars, stage_done_counter, reqVars>>

Leave(w) ==
  /\ At(w, "leave")
  /\ Move(w, IF cancel_signal \/ ~request_phase THEN "wind" ELSE "top")
  /\ UNCHANGED <<unchangedByWorkers, countVars, stage_done_counter, reqVars>>

\* Defect: only requests that were sent are waited for.
NothingInFlight(w) == \A r \in Tasks(w) : req[r] = "waiting"

NothingPending(w) == Tasks(w) = {}

\* _wind_down_stage: nothing left to wait for.
WindDown(w) ==
  /\ Runs(w, "wind")
  /\ NothingPending(w)
  /\ Move(w, "ack")
  /\ UNCHANGED <<unchangedByWorkers, countVars, stage_done_counter, reqVars>>

\* _wind_down_stage: the grace is over, or the main process forces the boundary.
CancelTasks(w) ==
  /\ Runs(w, "wind")
  /\ Tasks(w) # {}
  /\ "grace" \in Faults \/ force_stop_signal
  /\ req' = [r \in Request |->
               IF r \in Tasks(w) /\ req[r] = "inflight" THEN "cancelling" ELSE req[r]]
  /\ Move(w, "reap")
  /\ UNCHANGED <<unchangedByWorkers, countVars, stage_done_counter, owner>>

\* The reap ends with the last task: its timeout does not end it, wait_for only
\* cancels the tasks once more.
Reap(w) ==
  /\ Runs(w, "reap")
  /\ Tasks(w) = {}
  /\ Move(w, "ack")
  /\ UNCHANGED <<unchangedByWorkers, countVars, stage_done_counter, reqVars>>

\* What a worker writes at the rendezvous.
AckValue(w) == stage_boundary_seq

Ack(w) ==
  /\ At(w, "ack")
  /\ stage_done_counter' = [stage_done_counter EXCEPT ![w] = AckValue(w)]
  /\ Move(w, "hold")
  /\ UNCHANGED <<unchangedByWorkers, countVars, reqVars>>

\* Defects: the cancel signal is not looked at; a newer boundary is not.
HoldReleasedByPhase(w) ==
  stop_signal \/ request_phase \/ stage_boundary_seq > stage_done_counter[w]
HoldReleasedByEdgeOnly(w) == stop_signal \/ (request_phase /\ ~cancel_signal)

HoldReleased(w) ==
  \/ stop_signal
  \/ request_phase /\ ~cancel_signal
  \/ stage_boundary_seq > stage_done_counter[w]

Hold(w) ==
  /\ At(w, "hold")
  /\ HoldReleased(w)
  /\ Move(w, "top")
  /\ UNCHANGED <<unchangedByWorkers, countVars, stage_done_counter, reqVars>>

\* A torn hold: the phase is found set now, the cancel signal is read later.
Peek(w) ==
  /\ "torn" \in Faults
  /\ At(w, "hold")
  /\ request_phase
  /\ Move(w, "peek")
  /\ UNCHANGED <<unchangedByWorkers, countVars, stage_done_counter, reqVars>>

HoldTorn(w) ==
  /\ At(w, "peek")
  /\ Move(w, IF cancel_signal THEN "hold" ELSE "top")
  /\ UNCHANGED <<unchangedByWorkers, countVars, stage_done_counter, reqVars>>
-----------------------------------------------------------------------------
(* The tasks of a worker: schedule_client *)

Running(w, r, s) == owner[r] = w /\ req[r] = s /\ LoopAwaits(w)

MayDispatch(w) == ~Draining(w) /\ request_phase /\ ~cancel_signal

Dispatch(w, r) ==
  /\ Running(w, r, "waiting")
  /\ MayDispatch(w)
  /\ req' = [req EXCEPT ![r] = "inflight"]
  /\ active_requests_counter' = active_requests_counter + 1
  /\ UNCHANGED <<unchangedByWorkers, finished_requests_counter, skipped_requests_counter,
                 lock_stranded, counting, wpc, stage_done_counter, owner>>

Skip(w, r) ==
  /\ Running(w, r, "waiting")
  /\ ~MayDispatch(w)
  /\ req' = [req EXCEPT ![r] = "skipped"]
  /\ skipped_requests_counter' = skipped_requests_counter + 1
  /\ counting' = counting \cup {w}
  /\ UNCHANGED <<unchangedByWorkers, finished_requests_counter, active_requests_counter,
                 lock_stranded, wpc, stage_done_counter, owner>>

\* Defect: a cancelled request stays in the in-flight count.
ActiveAfterUnlessCancelled(outcome) ==
  active_requests_counter - (IF outcome = "cancelled" THEN 0 ELSE 1)

ActiveAfter(outcome) == active_requests_counter - 1

\* The finally block of a request that was sent; how it ended is outcome.
Finish(w, r, outcome) ==
  /\ req' = [req EXCEPT ![r] = outcome]
  /\ active_requests_counter' = ActiveAfter(outcome)
  /\ counting' = counting \cup {w}
  /\ UNCHANGED <<unchangedByWorkers, finished_requests_counter, skipped_requests_counter,
                 lock_stranded, wpc, stage_done_counter, owner>>

\* process_request returns, having recorded one metric.
Respond(w, r)  == Running(w, r, "inflight") /\ Finish(w, r, "recorded")

\* process_request raises without recording one.
Raise(w, r)    == "raise" \in Faults /\ Running(w, r, "inflight") /\ Finish(w, r, "raised")

Cancelled(w, r) == Running(w, r, "cancelling") /\ Finish(w, r, "cancelled")

Task(w, r) ==
  Dispatch(w, r) \/ Skip(w, r) \/ Respond(w, r) \/ Raise(w, r) \/ Cancelled(w, r)

\* Then the retired request is counted in finished, under a lock of its own.
Count(w) ==
  /\ w \in counting
  /\ IsAlive(w)
  /\ ~lock_stranded
  /\ finished_requests_counter' = finished_requests_counter + 1
  /\ counting' = counting \ {w}
  /\ Move(w, IF At(w, "retire") THEN NextTurn ELSE wpc[w])
  /\ UNCHANGED <<unchangedByWorkers, skipped_requests_counter, active_requests_counter,
                 lock_stranded, stage_done_counter, reqVars>>

Loop(w) ==
  \/ Top(w) \/ Exit(w) \/ Fetch(w) \/ FetchUnloadable(w) \/ FetchNothing(w) \/ Leave(w)
  \/ WindDown(w) \/ CancelTasks(w) \/ Reap(w) \/ Ack(w) \/ Hold(w)
  \/ Peek(w) \/ HoldTorn(w) \/ Count(w)
-----------------------------------------------------------------------------
(* What happens to the processes *)

\* It dies inside the critical section of the finished counter: before it has
\* incremented it, or after.
StrandLock(w) ==
  /\ "strand" \in Faults
  /\ w \in counting
  /\ ~lock_stranded
  /\ lock_stranded' = TRUE
  /\ \/ UNCHANGED <<finished_requests_counter, counting>>
     \/ /\ finished_requests_counter' = finished_requests_counter + 1
        /\ counting' = counting \ {w}

\* A dead worker stays in counting: its request is never counted in finished.
Die(w) ==
  /\ IsAlive(w)
  /\ wpc' = [wpc EXCEPT ![w] = "dead"]
  /\ LoseTasks({w})
  /\ StrandLock(w) \/ UNCHANGED <<finished_requests_counter, counting, lock_stranded>>
  /\ UNCHANGED <<mainVars, inputVars, signalVars, skipped_requests_counter,
                 active_requests_counter, stage_done_counter, doomed, respawned, owner>>

\* SIGTERM has its default action in a worker.
Terminated(w) ==
  /\ w \in doomed
  /\ Die(w)
  /\ UNCHANGED failures

Crash(w) ==
  /\ failures < MaxCrashes
  /\ Die(w)
  /\ failures' = failures + 1

\* A callback or a client blocks the event loop for good.
Wedge(w) ==
  /\ failures < MaxWedges
  /\ LoopAwaits(w)
  /\ failures' = failures + 1
  /\ Move(w, "wedged")
  /\ UNCHANGED <<mainVars, inputVars, signalVars, countVars, stage_done_counter, doomed,
                 respawned, reqVars>>

Interrupt ==
  /\ "interrupt" \in Faults
  /\ ~interrupt_sig
  /\ interrupt_sig' = TRUE
  /\ UNCHANGED <<mainVars, breaker_open, signalVars, countVars, workerVars, reqVars>>

OpenBreaker ==
  /\ "breaker" \in Faults
  /\ ~breaker_open
  /\ breaker_open' = TRUE
  /\ UNCHANGED <<mainVars, interrupt_sig, signalVars, countVars, workerVars, reqVars>>

Environment ==
  \/ \E w \in Workers : Terminated(w) \/ Crash(w) \/ Wedge(w)
  \/ Interrupt \/ OpenBreaker
-----------------------------------------------------------------------------
Init ==
  /\ mpc = "begin"
  /\ stage = 1
  /\ stage_status = "RUNNING"
  /\ clean = TRUE
  /\ forced = {}
  /\ stage_runtime_info = [s \in 1 .. Stages |-> "none"]
  /\ interrupt_sig = FALSE
  /\ breaker_open = FALSE
  /\ request_phase = TRUE
  /\ cancel_signal = FALSE
  /\ force_stop_signal = FALSE
  /\ stop_signal = FALSE
  /\ stage_boundary_seq = 0
  /\ finished_requests_counter = 0
  /\ skipped_requests_counter = 0
  /\ active_requests_counter = 0
  /\ lock_stranded = FALSE
  /\ counting = {}
  /\ wpc = [w \in Workers |-> "top"]
  /\ stage_done_counter = [w \in Workers |-> 0]
  /\ doomed = {}
  /\ respawned = {}
  /\ failures = 0
  /\ req = [r \in Request |-> "unborn"]
  /\ owner = [r \in Request |-> NoWorker]

Next ==
  \/ Main
  \/ \E w \in Workers : Loop(w) \/ (\E r \in Request : Task(w, r))
  \/ Environment

Spec == Init /\ [][Next]_vars
-----------------------------------------------------------------------------
(* Fairness: no process is starved by the scheduler, the feeder thread of the  *)
(* queue delivers, and a request that was sent ends (SF where a worker is at  *)
(* its await only now and then).  Nothing is assumed of a wedged worker.      *)

MainFairness == WF_vars(Main) /\ \A w \in Workers : WF_vars(Terminated(w))

WorkerFairness ==
  \A w \in Workers :
    /\ WF_vars(Loop(w))
    /\ SF_vars(Fetch(w) \/ FetchUnloadable(w))
    /\ SF_vars(\E r \in Request : Task(w, r))

MainFairSpec == Spec /\ MainFairness
FairSpec     == MainFairSpec /\ WorkerFairness
-----------------------------------------------------------------------------
(* Properties *)

\* Requests of stage s that are in one of the states S.
InState(s, S) == {r \in Request : StageOf(r) = s /\ req[r] \in S}

\* A worker process that has been there since the run started.
Original(w) == IsAlive(w) /\ w \notin doomed /\ w \notin respawned

\* The stage barrier as the original workers and the main process implement it.
BarrierPhase ==
  CASE mpc \in {"reset", "put", "poll", "publish", "cancel"} -> "open"
    [] mpc \in {"clear", "rendezvous"} -> "closing"
    [] OTHER -> "closed"

BarrierRound == IF mpc = "begin" THEN stage - 1 ELSE stage

Members == {w \in Workers : Original(w)}

Arrived == {w \in Members : BarrierPhase # "open" /\ stage_done_counter[w] = stage_boundary_seq}

Busy == {w \in Members : Tasks(w) # {}}

Barrier == INSTANCE StageBarrier WITH
  phase <- BarrierPhase, round <- BarrierRound, members <- Members, arrived <- Arrived, busy <- Busy

\* The stage protocol implements the stage barrier for its original workers.
ImplementsBarrier == Barrier!Spec

\* When the main process is past the rendezvous, every worker process of the
\* first hour that it did not give up on has wound its stage down: it holds at
\* the boundary and none of the tasks it may still cancel is left
\* (_teardown_stage leaves its loop only for workers that acknowledged).
RendezvousHolds ==
  mpc \in {"drain", "release", "respawn"} =>
    \A w \in Workers : Original(w) => At(w, "hold") /\ Tasks(w) = {}

\* A request is only sent to the server during its own stage, and never by a
\* worker that has already acknowledged the boundary of that stage.
SentInItsStage ==
  [][\A r \in Request :
       req[r] = "waiting" /\ req'[r] = "inflight" /\ owner[r] \notin respawned
         => /\ StageOf(r) = stage
            /\ stage_done_counter[owner[r]] < stage]_vars

\* A stage reported COMPLETED has finished all of its requests: none was left in
\* the queue, lost with its worker, or cut off ("Wait until all requests are
\* finished processing").  Not claimed once a worker has been replaced: see NobodyPulls.
CompletedMeansRetired ==
  mpc = "end" /\ FinalStatus = "COMPLETED" /\ respawned = {}
    => InState(stage, Retired \ {"cancelled", "skipped"}) = InState(stage, ReqState)

\* From the reset of the counters to the end of its stage every retired request
\* is accounted for: finished is skipped plus the outcomes of requests that were
\* sent (StageContext), less one for each worker that is between its counters or
\* died there, whatever ends the stage.  So the totals agree once the workers
\* hold at the boundary, and then differ by no more than the dead.
CountersReconcile ==
  mpc \notin {"begin", "reset"} /\ respawned = {} =>
    /\ finished_requests_counter + Cardinality(counting) =
         skipped_requests_counter + Cardinality(InState(stage, {"recorded", "raised", "cancelled"}))
    /\ \A w \in counting : wpc[w] \in {"fetch", "retire", "wind", "reap", "dead"}

InFlight == {r \in Request : req[r] \in {"inflight", "cancelling"}}
Lost     == {r \in Request : req[r] = "lost"}

\* The in-flight gauge is exact until a process dies with requests, and then too
\* high by no more than the requests that died.
InFlightIsExact ==
  active_requests_counter \in Cardinality(InFlight) .. Cardinality(InFlight \cup Lost)

\* What _teardown_stage says before it drains the queue: "Nobody is pulling
\* anymore".  A worker it has just terminated does not count.
NobodyPulls == mpc = "drain" => \A w \in Workers : At(w, "fetch") => w \in doomed

\* Teardown always returns, whatever the workers do.
TeardownReturns ==
  mpc \in {"publish", "cancel", "clear", "rendezvous", "drain", "release", "respawn"} ~> mpc = "end"

\* The main process waits for a lock that died with its holder.
WaitsForTheDead == lock_stranded /\ mpc \in {"reset", "poll"}

\* A worker that dies while a stage is loaded is replaced: later stages run at
\* full capacity.
DeadWorkerReplaced ==
  \A w \in Workers : (wpc[w] = "dead" /\ mpc = "poll") ~> (IsAlive(w) \/ WaitsForTheDead)

\* The run ends, so that its reports are generated.  Of what the workers and the main
\* process share, but for the channels (RequestQueue), a counter's lock that died with
\* its holder is the one thing that stops it (run_stage polls the counter through its
\* lock), and it stops it nowhere else.
RunEnds == <>(mpc = "done" \/ WaitsForTheDead)

\* No worker process outlives the run, not even one whose event loop is stuck.
WorkersGone == mpc = "done" ~> (\A w \in Workers : ~IsAlive(w))

\* A worker that hangs holds up neither a stage nor the end of the run: no step
\* of a worker is needed for them.
NoWorkerHoldsTheRun == TeardownReturns /\ WorkersGone
=============================================================================
