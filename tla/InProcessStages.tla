--------------------------- MODULE InProcessStages ---------------------------
(***************************************************************************)
(* A load without workers (loadgen/load_generator.py, run): the main       *)
(* process sends the requests of a stage itself, as tasks of its event     *)
(* loop, each at its time, and leaves the stage when all of them have      *)
(* ended.  A task starts when the loop awaits something: one that is       *)
(* cancelled before that never counts.  Every stage, of this or of another *)
(* runner, is wrapped so that its observer sees one start and one end,     *)
(* however the runner exits.                                               *)
(***************************************************************************)
EXTENDS Integers, Sequences, FiniteSets, FiniteSetsExt

CONSTANTS
  Schedule,   \* the times of a stage's requests, after its start
  Duration,   \* of a stage
  NumStages,
  MaxTime     \* bound of the clock

InProcessAssumption ==
  /\ Schedule \in Seq(Nat)
  /\ \A i \in 1 .. Len(Schedule) - 1 : Schedule[i] <= Schedule[i + 1]
  /\ Duration \in Nat /\ NumStages \in Nat \ {0} /\ MaxTime \in Nat

VARIABLES
  pc,              \* ready, loop, asleep, join, leave, done
  stage,
  clock,           \* time since the stage has begun
  next,            \* the next request
  unstarted,       \* tasks created, which the event loop has not started
  tasks,           \* requests in flight, _local_in_flight
  finished,        \* _local_finished
  interrupt_sig,
  breaker,         \* whether a circuit breaker is open
  status,          \* of the stage
  runtime_info,    \* what is recorded of each stage
  raising,         \* whether an exception is on its way out
  open_stage,      \* _open_stage, 0 if none
  started_before,  \* _stages_started when the runner began
  starts, ends     \* what the observer was told of each stage

reportVars == <<open_stage, started_before, starts, ends>>
stageVars  == <<clock, next, unstarted, tasks, finished, status>>
vars == <<pc, stage, stageVars, interrupt_sig, breaker, runtime_info, raising, reportVars>>

Stage       == 1 .. NumStages
StageStatus == {"RUNNING", "COMPLETED", "FAILED", "INTERRUPTED"}

TypeOK ==
  /\ pc \in {"ready", "loop", "asleep", "join", "leave", "done"}
  /\ stage \in Stage
  /\ clock \in 0 .. MaxTime
  /\ next \in 1 .. Len(Schedule) + 1
  /\ {unstarted, tasks} \subseteq 0 .. Len(Schedule) /\ finished \in 0 .. Len(Schedule)
  /\ {interrupt_sig, breaker, raising} \subseteq BOOLEAN
  /\ status \in StageStatus
  /\ runtime_info \in [Stage -> {"none"} \cup StageStatus]
  /\ open_stage \in 0 .. NumStages /\ started_before \in Nat
  /\ starts \in [Stage -> Nat] /\ ends \in [Stage -> Nat]

Init ==
  /\ pc = "ready" /\ stage = 1
  /\ clock = 0 /\ next = 1 /\ unstarted = 0 /\ tasks = 0 /\ finished = 0 /\ status = "RUNNING"
  /\ interrupt_sig = FALSE /\ breaker = FALSE /\ raising = FALSE
  /\ runtime_info = [s \in Stage |-> "none"]
  /\ open_stage = 0 /\ started_before = 0
  /\ starts = [s \in Stage |-> 0] /\ ends = starts
-----------------------------------------------------------------------------
(* Reports *)

Tell(told) == [told EXCEPT ![stage] = @ + 1]

StagesStarted == MapThenSumSet(LAMBDA s : starts[s], Stage)

\* Defect: only a runner that has started the stage is looked at.
StartForgotten == starts

\* A runner that has not started its stage has it started for it.
StartIfMissing == IF StagesStarted = started_before THEN Tell(starts) ELSE starts

\* _run_reported_stage, when the runner has exited.
EndReportedStage ==
  /\ starts' = StartIfMissing
  /\ IF starts' # starts \/ open_stage # 0 THEN ends' = Tell(ends) ELSE UNCHANGED ends
  /\ open_stage' = 0
  /\ UNCHANGED started_before
-----------------------------------------------------------------------------
(* A stage *)

\* Defect: the requests of the stage before are counted.
FinishedCarriedOver == finished

FinishedAtStart == 0

BeginStage ==
  /\ pc = "ready"
  /\ clock' = 0 /\ next' = 1 /\ unstarted' = 0 /\ tasks' = 0 /\ status' = "RUNNING"
  /\ started_before' = StagesStarted
  /\ \/ /\ pc' = "loop"
        /\ finished' = FinishedAtStart
        /\ open_stage' = stage
        /\ starts' = Tell(starts)
        /\ UNCHANGED raising
     \/ \* The timer cannot be made.
        /\ pc' = "leave"
        /\ raising' = TRUE
        /\ UNCHANGED <<finished, open_stage, starts>>
  /\ UNCHANGED <<stage, interrupt_sig, breaker, runtime_info, ends>>

Leave(s) ==
  /\ pc' = "join"
  /\ status' = s
  /\ UNCHANGED <<stage, clock, next, unstarted, tasks, finished, interrupt_sig, breaker, runtime_info, raising, reportVars>>

HasNext == next <= Len(Schedule)

Interrupted == pc = "loop" /\ HasNext /\ interrupt_sig /\ Leave("INTERRUPTED")

\* Defect: the stage that a breaker ends is not marked.
BreakerOpenUnmarked == pc = "loop" /\ HasNext /\ ~interrupt_sig /\ breaker /\ Leave(status)

BreakerOpen == pc = "loop" /\ HasNext /\ ~interrupt_sig /\ breaker /\ Leave("FAILED")

MayStillSend == HasNext /\ ~interrupt_sig /\ ~breaker

InTime == Schedule[next] < Duration /\ clock < Duration

TimeIsOver ==
  /\ pc = "loop"
  /\ ~HasNext \/ (MayStillSend /\ ~InTime)
  /\ Leave(status)

CreateTask ==
  /\ next' = next + 1
  /\ unstarted' = unstarted + 1
  /\ pc' = "loop"
  /\ UNCHANGED <<stage, clock, tasks, finished, status, interrupt_sig, breaker, runtime_info, raising, reportVars>>

\* The loop awaits nothing while it is behind its schedule.
SendNow == pc = "loop" /\ MayStillSend /\ InTime /\ Schedule[next] <= clock /\ CreateTask

Sleep ==
  /\ pc = "loop" /\ MayStillSend /\ InTime /\ Schedule[next] > clock
  /\ pc' = "asleep"
  /\ UNCHANGED <<stage, stageVars, interrupt_sig, breaker, runtime_info, raising, reportVars>>

\* Nothing is looked at again after the sleep, during which all tasks have started.
Wake == pc = "asleep" /\ Schedule[next] <= clock /\ unstarted = 0 /\ CreateTask

\* Defect: a task that was cancelled before it started is counted.
CancelsEveryTask == finished + tasks + unstarted

CancelsStarted == finished + tasks

\* The task group cancels its tasks: only of one that has started does the finally
\* run that counts it.
Raise ==
  /\ finished' = CancelsStarted
  /\ tasks' = 0
  /\ raising' = TRUE
  /\ pc' = "leave"
  /\ UNCHANGED <<stage, clock, next, unstarted, status, interrupt_sig, breaker, runtime_info, reportVars>>

\* Loading a request raises, and nothing was awaited since the last task was created.
LoadRaises == pc = "loop" /\ HasNext /\ ~interrupt_sig /\ Raise

\* Tasks run while the loop awaits something.
Awaits == pc \in {"asleep", "join"}

StartTasks ==
  /\ Awaits /\ unstarted > 0
  /\ tasks' = tasks + unstarted
  /\ unstarted' = 0
  /\ UNCHANGED <<pc, stage, clock, next, finished, status, interrupt_sig, breaker, runtime_info, raising, reportVars>>

\* A request ends, and its metric may open a breaker.
TaskEnds ==
  /\ Awaits /\ tasks > 0
  /\ tasks' = tasks - 1
  /\ finished' = finished + 1
  /\ breaker' \in {breaker, TRUE}
  /\ UNCHANGED <<pc, stage, clock, next, unstarted, status, interrupt_sig, runtime_info, raising, reportVars>>

\* A task raises: the task group cancels the others and the loop, which may have
\* created some since.
TaskRaises == Awaits /\ tasks > 0 /\ Raise

\* Defect: the stage is recorded with requests in flight.
NotJoined == TRUE

AllEnded == unstarted = 0 /\ tasks = 0

Join ==
  /\ pc = "join" /\ AllEnded
  /\ status' = IF status = "RUNNING" THEN "COMPLETED" ELSE status
  /\ runtime_info' = [runtime_info EXCEPT ![stage] = status']
  /\ pc' = "leave"
  /\ UNCHANGED <<stage, clock, next, unstarted, tasks, finished, interrupt_sig, breaker, raising, reportVars>>

LeaveStage ==
  /\ pc = "leave"
  /\ EndReportedStage
  /\ IF raising \/ interrupt_sig \/ stage = NumStages THEN pc' = "done" /\ UNCHANGED stage
                                                      ELSE pc' = "ready" /\ stage' = stage + 1
  /\ UNCHANGED <<stageVars, interrupt_sig, breaker, runtime_info, raising>>

Interrupt ==
  /\ ~interrupt_sig /\ pc # "done"
  /\ interrupt_sig' = TRUE
  /\ UNCHANGED <<pc, stage, stageVars, breaker, runtime_info, raising, reportVars>>

Tick ==
  /\ Awaits /\ clock < MaxTime
  /\ clock' = clock + 1
  /\ UNCHANGED <<pc, stage, next, unstarted, tasks, finished, status, interrupt_sig, breaker, runtime_info, raising, reportVars>>

Done == pc = "done" /\ UNCHANGED vars

Run ==
  \/ BeginStage \/ Interrupted \/ BreakerOpen \/ TimeIsOver \/ SendNow \/ Sleep \/ StartTasks
  \/ Wake \/ LoadRaises \/ Join \/ LeaveStage

Next == Run \/ TaskEnds \/ TaskRaises \/ Interrupt \/ Tick \/ Done

Spec == Init /\ [][Next]_vars

\* The loop runs, time passes, and requests end.
FairSpec == Spec /\ WF_vars(Run) /\ WF_vars(TaskEnds) /\ WF_vars(Tick)
-----------------------------------------------------------------------------
(* Properties *)

\* The observer sees one start and one end of every stage that is over, and at
\* most one stage open, whether the runner returns, raises before it has started
\* the stage, or in the middle of it.
ReportedOnce ==
  \A s \in Stage :
    IF s < stage \/ (pc = "done" /\ s = stage) THEN starts[s] = 1 /\ ends[s] = 1
    ELSE starts[s] \in {0, 1} /\ ends[s] = 0 /\ (starts[s] = 1 => open_stage = s)

\* No request outlives its stage, also when one of them raises, and every request
\* the loop has made a task of is counted as finished then, but for those that an
\* exception has cancelled before they started.
NothingOutlivesItsStage ==
  pc \in {"leave", "done"} =>
    /\ tasks = 0
    /\ open_stage = stage => finished + unstarted = next - 1 /\ (~raising => unstarted = 0)

\* A stage counts as completed only if no breaker and no interrupt has cut it
\* short: all requests due within the duration are sent, or the time is over.
CompletedIsWhole ==
  (pc = "leave" /\ runtime_info[stage] = "COMPLETED") =>
    \/ clock >= Duration
    \/ \A i \in next .. Len(Schedule) : Schedule[i] >= Duration

\* The run ends, whatever its requests do as long as they end.
RunIsOver == <>(pc = "done")
=============================================================================
