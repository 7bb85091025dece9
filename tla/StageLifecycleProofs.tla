----------------------- MODULE StageLifecycleProofs -----------------------
(***************************************************************************)
(* Proofs about StageLifecycle, for every number of workers, stages,       *)
(* requests, crashes and for every kind of fault.                          *)
(***************************************************************************)
EXTENDS StageLifecycle, FiniteSetTheorems, TLAPS

LEMMA TypeOKInit == Init => TypeOK
<1> SUFFICES ASSUME Init PROVE TypeOK
  OBVIOUS
<1>1. stage \in 1 .. Stages
  BY ConstantsAssumption DEF Init
<1>2. stage_runtime_info \in [1 .. Stages -> StageStatus \cup {"none"}]
  BY DEF Init
<1>3. /\ wpc \in [Workers -> WorkerPc]
      /\ stage_done_counter \in [Workers -> Nat]
  BY DEF Init, WorkerPc
<1>4. /\ req \in [Request -> ReqState]
      /\ owner \in [Request -> Workers \cup {NoWorker}]
  BY DEF Init, ReqState
<1>5. mpc \in MainPc /\ stage_status \in StageStatus
  BY DEF Init, MainPc, StageStatus
<1>6. /\ forced \in SUBSET Workers /\ doomed \in SUBSET Workers /\ respawned \in SUBSET Workers
      /\ clean \in BOOLEAN /\ interrupt_sig \in BOOLEAN /\ breaker_open \in BOOLEAN
      /\ counting \in SUBSET Workers
      /\ lock_stranded \in BOOLEAN /\ request_phase \in BOOLEAN /\ cancel_signal \in BOOLEAN
      /\ force_stop_signal \in BOOLEAN /\ stop_signal \in BOOLEAN
  BY Zenon DEF Init
<1>7. /\ stage_boundary_seq \in Nat /\ failures \in Nat
      /\ finished_requests_counter \in Nat /\ skipped_requests_counter \in Nat
      /\ active_requests_counter \in Int
  BY DEF Init
<1>8. QED
  BY <1>1, <1>2, <1>3, <1>4, <1>5, <1>6, <1>7 DEF TypeOK

LEMMA TypeOKMain == TypeOK /\ Main => TypeOK'
<1> SUFFICES ASSUME TypeOK, Main PROVE TypeOK'
  OBVIOUS
<1> USE DEF TypeOK, Goto, inputVars, signalVars, countVars, workerVars, reqVars, mainVars
<1>1. CASE BeginStage
  BY <1>1 DEF BeginStage, MainPc, StageStatus
<1>2. CASE ResetCounters
  BY <1>2 DEF ResetCounters, FinishedAtStart, SkippedAtStart, MainPc
<1>3. CASE PutRequest
  BY <1>3 DEF PutRequest, MainPc, ReqState, Request
<1>4. CASE Poll
  BY <1>4 DEF Poll, PollExit, MainPc, StageStatus
<1>5. CASE PublishBoundary
  BY <1>5 DEF PublishBoundary, MainPc
<1>6. CASE SetCancel
  BY <1>6 DEF SetCancel, MainPc
<1>7. CASE ClearPhase
  BY <1>7 DEF ClearPhase, MainPc
<1>8. CASE Rendezvous
  BY <1>8 DEF Rendezvous, MainPc
<1>9. CASE ForceStop
  BY <1>9 DEF ForceStop
<1>10. CASE TerminatePending
  BY <1>10 DEF TerminatePending, Pending, MainPc
<1>11. CASE Drain
  BY <1>11 DEF Drain, MainPc, ReqState
<1>12. CASE Release
  BY <1>12 DEF Release, MainPc
<1>13. CASE RespawnWorkers
  <2> DEFINE replaced == {w \in Workers : NeedsReplacing(w)}
  <2>1. /\ clean' \in BOOLEAN
        /\ mpc' \in MainPc
        /\ doomed' \in SUBSET Workers
        /\ respawned' \in SUBSET Workers
    BY <1>13 DEF RespawnWorkers, MainPc
  <2>2. wpc' \in [Workers -> WorkerPc]
    BY <1>13 DEF RespawnWorkers, WorkerPc
  <2>3. stage_done_counter' \in [Workers -> Nat]
    BY <1>13 DEF RespawnWorkers, RespawnCounter
  <2>4. req' \in [Request -> ReqState]
    BY <1>13 DEF RespawnWorkers, LoseTasks, ReqState
  <2>5. counting' \in SUBSET Workers
    BY <1>13 DEF RespawnWorkers
  <2>6. QED
    BY <1>13, <2>1, <2>2, <2>3, <2>4, <2>5 DEF RespawnWorkers
<1>14. CASE EndStage
  <2>1. FinalStatus \in StageStatus
    BY DEF FinalStatus, StageStatus
  <2>2. stage' \in 1 .. Stages /\ mpc' \in MainPc
    BY <1>14, ConstantsAssumption DEF EndStage, RunOver, MainPc
  <2>3. QED
    BY <1>14, <2>1, <2>2 DEF EndStage
<1>15. CASE SetLastPhase
  BY <1>15 DEF SetLastPhase, MainPc
<1>16. CASE SetStop
  BY <1>16 DEF SetStop, MainPc
<1>17. CASE StopWorkers
  BY <1>17 DEF StopWorkers, Stragglers, MainPc
<1>18. QED
  BY <1>1, <1>2, <1>3, <1>4, <1>5, <1>6, <1>7, <1>8, <1>9, <1>10, <1>11, <1>12, <1>13,
     <1>14, <1>15, <1>16, <1>17 DEF Main

LEMMA TypeOKLoop ==
  ASSUME TypeOK, NEW w \in Workers, Loop(w)
  PROVE  TypeOK'
<1> USE DEF TypeOK, Move, unchangedByWorkers, mainVars, inputVars, signalVars, countVars, reqVars
<1>0. NextTurn \in WorkerPc
  BY DEF NextTurn, WorkerPc
<1>1. CASE Top(w)
  BY <1>1, <1>0 DEF Top
<1>2. CASE Exit(w)
  BY <1>2 DEF Exit, LoseTasks, WorkerPc, ReqState
<1>3. CASE Fetch(w)
  BY <1>3, <1>0 DEF Fetch, ReqState, TaskState
<1>4. CASE FetchUnloadable(w)
  BY <1>4 DEF FetchUnloadable, WorkerPc, ReqState, Retired
<1>5. CASE FetchNothing(w)
  BY <1>5, <1>0 DEF FetchNothing
<1>6. CASE Leave(w)
  BY <1>6 DEF Leave, WorkerPc
<1>7. CASE WindDown(w)
  BY <1>7 DEF WindDown, WorkerPc
<1>8. CASE CancelTasks(w)
  BY <1>8 DEF CancelTasks, WorkerPc, ReqState, TaskState
<1>9. CASE Reap(w)
  BY <1>9 DEF Reap, WorkerPc
<1>10. CASE Ack(w)
  BY <1>10 DEF Ack, AckValue, WorkerPc
<1>11. CASE Hold(w) \/ Peek(w) \/ HoldTorn(w)
  BY <1>11, SMTT(30) DEF Hold, Peek, HoldTorn, WorkerPc
<1>12. CASE Count(w)
  BY <1>12, <1>0 DEF Count
<1>13. QED
  BY <1>1, <1>2, <1>3, <1>4, <1>5, <1>6, <1>7, <1>8, <1>9, <1>10, <1>11, <1>12 DEF Loop

LEMMA TypeOKTask ==
  ASSUME TypeOK, NEW w \in Workers, NEW r \in Request, Task(w, r)
  PROVE  TypeOK'
<1> USE DEF TypeOK, unchangedByWorkers, mainVars, inputVars, signalVars
<1>1. CASE Dispatch(w, r)
  BY <1>1 DEF Dispatch, ReqState, TaskState
<1>2. CASE Skip(w, r)
  BY <1>2 DEF Skip, ReqState, Retired
<1>3. ASSUME NEW outcome \in Retired, Finish(w, r, outcome)
      PROVE  TypeOK'
  BY <1>3 DEF Finish, ActiveAfter, ReqState
<1>4. QED
  BY <1>1, <1>2, <1>3 DEF Task, Respond, Raise, Cancelled, Retired

LEMMA TypeOKEnvironment == TypeOK /\ Environment => TypeOK'
<1> SUFFICES ASSUME TypeOK, Environment PROVE TypeOK'
  OBVIOUS
<1> USE DEF TypeOK, mainVars, inputVars, signalVars, countVars, workerVars, reqVars
<1>1. ASSUME NEW w \in Workers, Die(w), failures' \in Nat PROVE TypeOK'
  <2>1. lock_stranded' \in BOOLEAN /\ counting' \in SUBSET Workers /\ finished_requests_counter' \in Nat
    <3>1. CASE StrandLock(w)
      BY <3>1 DEF StrandLock
    <3>2. CASE ~StrandLock(w)
      BY <1>1, <3>2 DEF Die
    <3>3. QED
      BY <3>1, <3>2
  <2>2. QED
    BY <1>1, <2>1 DEF Die, LoseTasks, WorkerPc, ReqState
<1>2. ASSUME NEW w \in Workers, Terminated(w) \/ Crash(w) PROVE TypeOK'
  BY <1>1, <1>2 DEF Terminated, Crash
<1>3. ASSUME NEW w \in Workers, Wedge(w) PROVE TypeOK'
  BY <1>3 DEF Wedge, Move, WorkerPc
<1>4. CASE Interrupt
  BY <1>4 DEF Interrupt
<1>5. CASE OpenBreaker
  BY <1>5 DEF OpenBreaker
<1>6. QED
  BY <1>2, <1>3, <1>4, <1>5 DEF Environment

LEMMA TypeOKStep == TypeOK /\ [Next]_vars => TypeOK'
<1>1. TypeOK /\ UNCHANGED vars => TypeOK'
  BY DEF TypeOK, vars, mainVars, inputVars, signalVars, countVars, workerVars, reqVars
<1>2. QED
  BY <1>1, TypeOKMain, TypeOKLoop, TypeOKTask, TypeOKEnvironment DEF Next

(* Every variable keeps its type: the shared counters stay counts, every   *)
(* worker stays at one of its program points, every request in one state.  *)
THEOREM TypeCorrect == Spec => []TypeOK
BY TypeOKInit, TypeOKStep, PTL DEF Spec
-----------------------------------------------------------------------------
(* The inductive invariant of the rendezvous.                              *)

\* What the events are worth at each point of the main process.
SignalInv ==
  /\ request_phase <=> \/ mpc \in {"reset", "put", "poll", "publish", "cancel", "clear",
                                   "stop", "join", "done"}
                       \/ mpc = "begin" /\ stage_boundary_seq = 0
  /\ cancel_signal <=> mpc \in {"clear", "rendezvous", "drain", "release"}
  /\ stop_signal <=> mpc \in {"join", "done"}

\* The boundary sequence counts the stages that are over.
SeqInv ==
  /\ mpc \in {"begin", "reset", "put", "poll", "publish"} => stage_boundary_seq = stage - 1
  /\ mpc \in {"cancel", "clear", "rendezvous", "drain", "release", "respawn", "end"}
       => stage_boundary_seq = stage

DoomedInv ==
  /\ mpc \in {"drain", "release", "respawn"} => doomed \subseteq forced
  /\ mpc \notin {"drain", "release", "respawn", "done"} => doomed = {}

\* An original worker acknowledges a boundary only after the cancel signal is
\* up, and then cannot leave the hold before the next stage begins.
ServingPc == {"top", "fetch", "retire", "wedged"}

OriginalInv(w) ==
  LET done == stage_done_counter[w] IN
  /\ mpc = "begin" => \/ stage_boundary_seq = 0 /\ done = 0 /\ wpc[w] \in ServingPc
                      \/ stage_boundary_seq > 0 /\ done = stage_boundary_seq /\ wpc[w] = "hold"
  /\ mpc \in {"reset", "put", "poll", "publish"} =>
       done = stage_boundary_seq /\ wpc[w] \in ServingPc \cup {"hold"}
  /\ mpc = "cancel" => done < stage_boundary_seq /\ wpc[w] \in ServingPc \cup {"hold"}
  /\ mpc \in {"clear", "rendezvous"} =>
       \/ done < stage_boundary_seq
       \/ done = stage_boundary_seq /\ wpc[w] = "hold"
  /\ mpc \in {"drain", "release", "respawn", "end", "phase"} =>
       done = stage_boundary_seq /\ wpc[w] = "hold"
  /\ mpc \in {"stop", "join", "done"} => done = stage_boundary_seq

\* A worker that has wound down keeps no task it could still run.
WoundDownInv == \A w \in Workers : wpc[w] \in {"ack", "hold", "peek"} => Tasks(w) = {}

\* Holds as long as no worker is preempted between its reads in the hold.
UntornInv == \A w \in Workers : wpc[w] # "peek"

\* The queue only ever holds requests of the stage that is running.
QueueInv ==
  \A r \in Request : req[r] = "queued" =>
    /\ StageOf(r) = stage
    /\ mpc \in {"put", "poll", "publish", "cancel", "clear", "rendezvous", "drain"}

\* So do the tasks of original workers.
TaskInv ==
  \A r \in Request : req[r] \in TaskState =>
    /\ owner[r] \in Workers
    /\ owner[r] \notin respawned =>
         /\ StageOf(r) = stage
         /\ mpc \in {"put", "poll", "publish", "cancel", "clear", "rendezvous",
                      "drain", "release", "respawn"}

IInv ==
  /\ TypeOK
  /\ SignalInv
  /\ SeqInv
  /\ DoomedInv
  /\ \A w \in Workers : Original(w) => OriginalInv(w)
  /\ UntornInv
  /\ WoundDownInv
  /\ QueueInv
  /\ TaskInv
-----------------------------------------------------------------------------
(* Workers, their tasks and the environment leave the main process and the *)
(* signals it owns alone.                                                  *)
LEMMA OnlyMain ==
  ASSUME \/ \E w \in Workers : Loop(w) \/ (\E r \in Request : Task(w, r))
         \/ Environment
         \/ UNCHANGED vars
  PROVE  UNCHANGED <<mpc, stage, stage_status, forced, request_phase, cancel_signal, stop_signal,
                     stage_boundary_seq, doomed, respawned>>
<1>1. ASSUME NEW w \in Workers, Loop(w)
      PROVE  UNCHANGED <<mainVars, signalVars, doomed, respawned>>
  BY <1>1 DEF Loop, Top, Exit, Fetch, FetchUnloadable, FetchNothing, Leave, WindDown,
              CancelTasks, Reap, Ack, Hold, Peek, HoldTorn, Count, unchangedByWorkers
<1>2. ASSUME NEW w \in Workers, NEW r \in Request, Task(w, r)
      PROVE  UNCHANGED <<mainVars, signalVars, doomed, respawned>>
  BY <1>2 DEF Task, Dispatch, Skip, Respond, Raise, Cancelled, Finish, unchangedByWorkers
<1>3. CASE Environment
  BY <1>3 DEF Environment, Terminated, Crash, Wedge, Die, Interrupt, OpenBreaker, mainVars,
              signalVars, workerVars
<1>4. QED
  BY <1>1, <1>2, <1>3 DEF vars, mainVars, signalVars, workerVars

LEMMA SignalsStep ==
  ASSUME TypeOK, SignalInv, SeqInv, DoomedInv, [Next]_vars
  PROVE  SignalInv' /\ SeqInv' /\ DoomedInv'
<1>1. CASE Main
  <2> USE <1>1 DEF Goto, SignalInv, SeqInv, DoomedInv, TypeOK, inputVars, signalVars, countVars,
                   workerVars, reqVars, mainVars
  <2>1. CASE BeginStage
    BY <2>1 DEF BeginStage
  <2>2. CASE ResetCounters
    BY <2>2 DEF ResetCounters
  <2>3. CASE PutRequest
    BY <2>3 DEF PutRequest
  <2>4. CASE Poll
    BY <2>4 DEF Poll
  <2>5. CASE PublishBoundary
    BY <2>5 DEF PublishBoundary
  <2>6. CASE SetCancel
    BY <2>6 DEF SetCancel
  <2>7. CASE ClearPhase
    BY <2>7 DEF ClearPhase
  <2>8. CASE Rendezvous
    BY <2>8 DEF Rendezvous
  <2>9. CASE ForceStop
    BY <2>9 DEF ForceStop
  <2>10. CASE TerminatePending
    BY <2>10 DEF TerminatePending
  <2>11. CASE Drain
    BY <2>11 DEF Drain
  <2>12. CASE Release
    BY <2>12 DEF Release
  <2>13. CASE RespawnWorkers
    <3>1. doomed' = {}
      BY <2>13 DEF RespawnWorkers, NeedsReplacing
    <3>2. QED
      BY <2>13, <3>1 DEF RespawnWorkers
  <2>14. CASE EndStage
    BY <2>14, SMTT(30) DEF EndStage
  <2>15. CASE SetLastPhase
    BY <2>15 DEF SetLastPhase
  <2>16. CASE SetStop
    BY <2>16 DEF SetStop
  <2>17. CASE StopWorkers
    BY <2>17 DEF StopWorkers
  <2>18. QED
    BY <2>1, <2>2, <2>3, <2>4, <2>5, <2>6, <2>7, <2>8, <2>9, <2>10, <2>11, <2>12, <2>13,
       <2>14, <2>15, <2>16, <2>17 DEF Main
<1>2. CASE ~Main
  <2>1. UNCHANGED <<mpc, stage, forced, request_phase, cancel_signal, stop_signal,
                    stage_boundary_seq, doomed>>
    BY <1>2, OnlyMain DEF Next
  <2>2. QED
    BY <2>1 DEF SignalInv, SeqInv, DoomedInv
<1>3. QED
  BY <1>1, <1>2
-----------------------------------------------------------------------------
(* Only a worker itself, its death or its replacement moves it.            *)

LEMMA LoopMovesOneWorker ==
  ASSUME TypeOK, NEW w \in Workers, Loop(w), NEW v \in Workers, v # w
  PROVE  wpc'[v] = wpc[v] /\ stage_done_counter'[v] = stage_done_counter[v]
BY DEF TypeOK, Loop, Top, Exit, Fetch, FetchUnloadable, FetchNothing, Leave, WindDown,
       CancelTasks, Reap, Ack, Hold, Peek, HoldTorn, Count, Move

LEMMA TaskMovesNoWorker ==
  ASSUME NEW w \in Workers, NEW r \in Request, Task(w, r)
  PROVE  UNCHANGED <<wpc, stage_done_counter, owner>>
BY DEF Task, Dispatch, Skip, Respond, Raise, Cancelled, Finish

\* A worker that dies or wedges was not holding at the boundary, or is no longer alive.
LEMMA EnvironmentMovesWorkers ==
  ASSUME TypeOK, Environment, NEW v \in Workers
  PROVE  /\ stage_done_counter' = stage_done_counter
         /\ \/ wpc'[v] = wpc[v]
            \/ wpc'[v] = "dead"
            \/ wpc[v] \in {"fetch", "wind", "reap"} /\ wpc'[v] = "wedged"
<1>1. ASSUME NEW w \in Workers, Die(w)
      PROVE  /\ stage_done_counter' = stage_done_counter
             /\ wpc'[v] = wpc[v] \/ wpc'[v] = "dead"
  BY <1>1 DEF Die, TypeOK
<1>2. ASSUME NEW w \in Workers, Wedge(w)
      PROVE  /\ stage_done_counter' = stage_done_counter
             /\ \/ wpc'[v] = wpc[v]
                \/ wpc[v] \in {"fetch", "wind", "reap"} /\ wpc'[v] = "wedged"
  BY <1>2 DEF Wedge, Move, LoopAwaits, TypeOK
<1>3. CASE Interrupt \/ OpenBreaker
  BY <1>3 DEF Interrupt, OpenBreaker, workerVars
<1>4. QED
  BY <1>1, <1>2, <1>3 DEF Environment, Terminated, Crash

LEMMA OriginalMain ==
  ASSUME TypeOK, SignalInv, SeqInv, DoomedInv, Main,
         \A w \in Workers : Original(w) => OriginalInv(w)
  PROVE  \A w \in Workers : Original(w)' => OriginalInv(w)'
<1> SUFFICES ASSUME NEW w \in Workers, Original(w)' PROVE OriginalInv(w)'
  OBVIOUS
<1> USE DEF Goto, workerVars, TypeOK
<1>1. CASE TerminatePending
  <2>1. Original(w) /\ w \notin Pending
    BY <1>1 DEF TerminatePending, Original, IsAlive
  <2>2. stage_done_counter[w] >= stage_boundary_seq
    BY <2>1 DEF Pending, Original
  <2>3. stage_done_counter[w] = stage_boundary_seq /\ wpc[w] = "hold"
    BY <1>1, <2>1, <2>2 DEF TerminatePending, OriginalInv
  <2>4. QED
    BY <1>1, <2>3 DEF TerminatePending, OriginalInv, signalVars
<1>2. CASE RespawnWorkers
  <2>1. Original(w) /\ ~NeedsReplacing(w)
    BY <1>2 DEF RespawnWorkers, Original, IsAlive
  <2>2. wpc'[w] = wpc[w] /\ stage_done_counter'[w] = stage_done_counter[w]
    BY <1>2, <2>1 DEF RespawnWorkers
  <2>3. QED
    BY <1>2, <2>1, <2>2 DEF RespawnWorkers, OriginalInv, signalVars
<1>3. CASE StopWorkers
  <2>1. Original(w) /\ mpc = "join" /\ mpc' = "done"
    BY <1>3 DEF StopWorkers, Original, IsAlive
  <2>2. QED
    BY <1>3, <2>1 DEF StopWorkers, OriginalInv, signalVars
<1>4. CASE ~TerminatePending /\ ~RespawnWorkers /\ ~StopWorkers
  <2>1. UNCHANGED workerVars
    BY <1>4 DEF Main, BeginStage, ResetCounters, PutRequest, Poll, PublishBoundary, SetCancel,
                ClearPhase, Rendezvous, ForceStop, Drain, Release, EndStage, SetLastPhase, SetStop
  <2>2. Original(w)
    BY <2>1 DEF Original, IsAlive
  <2> USE <2>1, <2>2 DEF OriginalInv, signalVars, SeqInv
  <2>3. CASE BeginStage
    BY <2>3 DEF BeginStage
  <2>4. CASE ResetCounters \/ PutRequest \/ Poll
    BY <2>4 DEF ResetCounters, PutRequest, Poll
  <2>5. CASE PublishBoundary
    BY <2>5 DEF PublishBoundary
  <2>6. CASE SetCancel
    BY <2>6 DEF SetCancel
  <2>7. CASE ClearPhase
    BY <2>7 DEF ClearPhase
  <2>8. CASE Rendezvous
    <3>1. w \notin Pending
      BY <2>8 DEF Rendezvous
    <3>2. stage_done_counter[w] >= stage_boundary_seq
      BY <3>1 DEF Pending, Original
    <3>3. QED
      BY <2>8, <3>2 DEF Rendezvous
  <2>9. CASE ForceStop
    BY <2>9 DEF ForceStop, mainVars
  <2>10. CASE Drain \/ Release
    BY <2>10 DEF Drain, Release
  <2>11. CASE EndStage
    <3>1. stage_boundary_seq > 0
      BY <2>11 DEF EndStage
    <3>2. QED
      BY <2>11, <3>1 DEF EndStage
  <2>12. CASE SetLastPhase \/ SetStop
    BY <2>12 DEF SetLastPhase, SetStop
  <2>13. QED
    BY <1>4, <2>3, <2>4, <2>5, <2>6, <2>7, <2>8, <2>9, <2>10, <2>11, <2>12 DEF Main
<1>5. QED
  BY <1>1, <1>2, <1>3, <1>4

LEMMA OriginalLoop ==
  ASSUME "torn" \notin Faults, TypeOK, SignalInv, SeqInv, UntornInv, NEW w \in Workers, Loop(w),
         \A v \in Workers : Original(v) => OriginalInv(v)
  PROVE  \A v \in Workers : Original(v)' => OriginalInv(v)'
<1> SUFFICES ASSUME NEW v \in Workers, Original(v)' PROVE OriginalInv(v)'
  OBVIOUS
<1>0. UNCHANGED <<mpc, stage, request_phase, cancel_signal, stop_signal, stage_boundary_seq,
                  doomed, respawned>>
  BY OnlyMain
<1>1. CASE v # w
  <2>1. wpc'[v] = wpc[v] /\ stage_done_counter'[v] = stage_done_counter[v]
    BY <1>1, LoopMovesOneWorker
  <2>2. QED
    BY <1>0, <2>1 DEF Original, IsAlive, OriginalInv
<1>2. CASE v = w
  <2> USE <1>0, <1>2 DEF At, Runs, Move, TypeOK, OriginalInv, ServingPc
  <2>0. IsAlive(w) => Original(w)
    BY DEF Original
  <2>1. CASE Top(w) \/ Fetch(w) \/ FetchNothing(w) \/ (Count(w) /\ wpc[w] = "retire")
    <3>1. Original(w) /\ wpc[w] \in {"top", "fetch", "retire"}
      BY <2>0, <2>1 DEF Top, Fetch, FetchNothing, IsAlive
    <3>2. wpc'[w] = NextTurn /\ stage_done_counter'[w] = stage_done_counter[w]
      BY <2>1 DEF Top, Fetch, FetchNothing, Count
    <3>3. \/ mpc \in {"reset", "put", "poll", "publish", "cancel"}
          \/ mpc = "begin" /\ stage_boundary_seq = 0
          => NextTurn = "fetch"
      BY DEF NextTurn, ServePhase, SignalInv
    <3>4. CASE mpc = "begin"
      BY <3>1, <3>2, <3>3, <3>4
    <3>5. CASE mpc \in {"reset", "put", "poll", "publish", "cancel"}
      BY <3>1, <3>2, <3>3, <3>5
    <3>6. CASE mpc \in {"clear", "rendezvous"}
      BY <3>1, <3>2, <3>6
    <3>7. CASE mpc \in {"drain", "release", "respawn", "end", "phase"}
      BY <3>1, <3>7
    <3>8. CASE mpc \in {"stop", "join", "done"}
      BY <3>1, <3>2, <3>8
    <3>9. QED
      BY <3>4, <3>5, <3>6, <3>7, <3>8 DEF MainPc
  <2>2. CASE Exit(w)
    BY <2>2 DEF Exit, Original, IsAlive
  <2>3. CASE Leave(w) \/ WindDown(w) \/ CancelTasks(w) \/ Reap(w)
    <3>1. Original(w) /\ wpc[w] \in {"leave", "wind", "reap"} /\ stage_done_counter' = stage_done_counter
      BY <2>0, <2>3 DEF Leave, WindDown, CancelTasks, Reap, IsAlive
    <3>2. QED
      BY <3>1
  <2>4. CASE Ack(w)
    <3>1. Original(w) /\ wpc[w] = "ack"
      BY <2>0, <2>4 DEF Ack, IsAlive
    <3>2. wpc'[w] = "hold" /\ stage_done_counter'[w] = stage_boundary_seq
      BY <2>4 DEF Ack, AckValue
    <3>3. mpc \notin {"begin", "reset", "put", "poll", "publish", "cancel", "drain", "release",
                      "respawn", "end", "phase"}
      BY <3>1
    <3>4. QED
      BY <3>2, <3>3
  <2>5. CASE Hold(w)
    <3>1. Original(w) /\ wpc[w] = "hold" /\ HoldReleased(w)
      BY <2>0, <2>5 DEF Hold, IsAlive
    <3>2. wpc'[w] = "top" /\ stage_done_counter' = stage_done_counter
      BY <2>5 DEF Hold
    <3>3. mpc \notin {"begin", "drain", "release", "respawn", "end", "phase"}
      BY <3>1 DEF HoldReleased, SignalInv
    <3>4. mpc \in {"clear", "rendezvous"} => stage_done_counter[w] < stage_boundary_seq
      BY <3>1 DEF HoldReleased, SignalInv
    <3>5. QED
      BY <3>1, <3>2, <3>3, <3>4
  <2>6. CASE FetchUnloadable(w)
    <3>1. /\ Original(w) /\ wpc[w] = "fetch"
          /\ wpc'[w] = "retire" /\ stage_done_counter' = stage_done_counter
      BY <2>0, <2>6 DEF FetchUnloadable, IsAlive
    <3>2. QED
      BY <3>1
  <2>7. CASE Count(w) /\ wpc[w] # "retire"
    <3>1. Original(w) /\ wpc'[w] = wpc[w] /\ stage_done_counter' = stage_done_counter
      BY <2>0, <2>7 DEF Count
    <3>2. QED
      BY <3>1
  <2>8. ~Peek(w) /\ ~HoldTorn(w)
    BY DEF Peek, HoldTorn, UntornInv
  <2> HIDE DEF OriginalInv
  <2>9. QED
    BY <2>1, <2>2, <2>3, <2>4, <2>5, <2>6, <2>7, <2>8 DEF Loop
<1>3. QED
  BY <1>1, <1>2

LEMMA OriginalStep ==
  ASSUME "torn" \notin Faults, TypeOK, SignalInv, SeqInv, DoomedInv, UntornInv, [Next]_vars,
         \A v \in Workers : Original(v) => OriginalInv(v)
  PROVE  \A v \in Workers : Original(v)' => OriginalInv(v)'
<1>1. CASE Main
  BY <1>1, OriginalMain
<1>2. ASSUME NEW w \in Workers, Loop(w)
      PROVE  \A v \in Workers : Original(v)' => OriginalInv(v)'
  BY <1>2, OriginalLoop
<1>3. ASSUME NEW w \in Workers, NEW r \in Request, Task(w, r)
      PROVE  \A v \in Workers : Original(v)' => OriginalInv(v)'
  <2>1. UNCHANGED <<wpc, stage_done_counter, mpc, stage_boundary_seq, doomed, respawned>>
    BY <1>3, TaskMovesNoWorker, OnlyMain
  <2>2. QED
    BY <2>1 DEF Original, IsAlive, OriginalInv
<1>4. CASE Environment
  <2> SUFFICES ASSUME NEW v \in Workers, Original(v)' PROVE OriginalInv(v)'
    OBVIOUS
  <2>1. UNCHANGED <<mpc, stage_boundary_seq, doomed, respawned>>
    BY <1>4, OnlyMain
  <2>2. /\ stage_done_counter' = stage_done_counter
        /\ \/ wpc'[v] = wpc[v]
           \/ wpc[v] \in {"fetch", "wind", "reap"} /\ wpc'[v] = "wedged"
    BY <1>4, EnvironmentMovesWorkers DEF Original, IsAlive
  <2>3. QED
    BY <2>1, <2>2 DEF Original, IsAlive, OriginalInv, ServingPc
<1>5. CASE UNCHANGED vars
  BY <1>5 DEF vars, mainVars, signalVars, workerVars, Original, IsAlive, OriginalInv
<1>6. QED
  BY <1>1, <1>2, <1>3, <1>4, <1>5 DEF Next
-----------------------------------------------------------------------------
(* What the steps of a worker and of the environment do to the requests.   *)

LEMMA LoopRequests ==
  ASSUME TypeOK, NEW w \in Workers, Loop(w), NEW r \in Request
  PROVE  \/ req'[r] = req[r] /\ owner'[r] = owner[r]
         \/ /\ wpc[w] = "fetch" /\ wpc'[w] = NextTurn
            /\ req[r] = "queued" /\ req'[r] = "waiting" /\ owner'[r] = w
         \/ /\ req'[r] \notin {"queued", "waiting", "inflight"}
            /\ owner'[r] = owner[r]
            /\ \/ req'[r] \notin TaskState
               \/ owner[r] = w /\ wpc'[w] = "reap" /\ req[r] \in TaskState
<1> USE DEF TypeOK, reqVars, TaskState, Retired
<1>1. CASE Top(w) \/ FetchNothing(w) \/ Leave(w) \/ WindDown(w) \/ Reap(w) \/ Ack(w) \/ Hold(w)
           \/ Peek(w) \/ HoldTorn(w) \/ Count(w)
  BY <1>1 DEF Top, FetchNothing, Leave, WindDown, Reap, Ack, Hold, Peek, HoldTorn, Count
<1>2. CASE Exit(w)
  BY <1>2 DEF Exit, LoseTasks
<1>3. CASE Fetch(w)
  BY <1>3 DEF Fetch, At, Runs, Move, IsNext, Queued
<1>4. CASE FetchUnloadable(w)
  BY <1>4 DEF FetchUnloadable
<1>5. CASE CancelTasks(w)
  BY <1>5 DEF CancelTasks, Move, Tasks
<1>6. QED
  BY <1>1, <1>2, <1>3, <1>4, <1>5 DEF Loop

LEMMA TaskRequests ==
  ASSUME TypeOK, NEW w \in Workers, NEW q \in Request, Task(w, q), NEW r \in Request
  PROVE  /\ owner' = owner
         /\ \/ req'[r] = req[r]
            \/ /\ r = q /\ LoopAwaits(w) /\ owner[r] = w
               /\ \/ req[r] = "waiting" /\ req'[r] = "inflight" /\ MayDispatch(w)
                  \/ req'[r] \in Retired
<1>1. ASSUME NEW outcome \in Retired, Running(w, q, "inflight") \/ Running(w, q, "cancelling"),
             Finish(w, q, outcome)
      PROVE  /\ owner' = owner
             /\ \/ req'[r] = req[r]
                \/ r = q /\ LoopAwaits(w) /\ owner[r] = w /\ req'[r] \in Retired
  <2>1. owner[q] = w /\ LoopAwaits(w)
    BY <1>1 DEF Running
  <2>2. req' = [req EXCEPT ![q] = outcome] /\ owner' = owner
    BY <1>1 DEF Finish
  <2>3. QED
    BY <2>1, <2>2 DEF TypeOK
<1>2. QED
  BY <1>1 DEF Task, Dispatch, Skip, Respond, Raise, Cancelled, Running, TypeOK, Retired

LEMMA EnvironmentRequests ==
  ASSUME TypeOK, Environment, NEW r \in Request
  PROVE  /\ owner' = owner
         /\ req'[r] = req[r] \/ req'[r] = "lost"
<1>1. ASSUME NEW w \in Workers, Die(w)
      PROVE  /\ owner' = owner
             /\ req'[r] = req[r] \/ req'[r] = "lost"
  BY <1>1 DEF Die, LoseTasks, TypeOK
<1>2. ASSUME NEW w \in Workers, Wedge(w)
      PROVE  UNCHANGED reqVars
  BY <1>2 DEF Wedge
<1>3. CASE Interrupt \/ OpenBreaker
  BY <1>3 DEF Interrupt, OpenBreaker, reqVars
<1>4. QED
  BY <1>1, <1>2, <1>3 DEF Environment, Terminated, Crash, reqVars

LEMMA MainRequests ==
  ASSUME TypeOK, Main, NEW r \in Request
  PROVE  /\ owner' = owner
         /\ \/ req'[r] = req[r]
            \/ /\ mpc = "put" /\ mpc' \in {"put", "poll"} /\ stage' = stage
               /\ StageOf(r) = stage /\ req'[r] = "queued"
            \/ req'[r] \in {"dropped", "lost"}
         /\ Drain => req'[r] # "queued"
<1> USE DEF TypeOK, reqVars
<1>1. CASE PutRequest
  <2>1. PICK i \in 1 .. StageSize :
               /\ req' = [req EXCEPT ![<<stage, i>>] = "queued"]
               /\ mpc' \in {"put", "poll"}
    BY <1>1 DEF PutRequest, Goto
  <2>2. mpc = "put" /\ stage' = stage /\ owner' = owner
    BY <1>1 DEF PutRequest
  <2>3. req'[r] = req[r] \/ (r = <<stage, i>> /\ req'[r] = "queued")
    <3>1. CASE r = <<stage, i>>
      BY <2>1, <3>1
    <3>2. CASE r # <<stage, i>>
      BY <2>1, <3>2
    <3>3. QED
      BY <3>1, <3>2
  <2>4. r = <<stage, i>> => StageOf(r) = stage
    BY DEF StageOf
  <2>5. QED
    BY <2>1, <2>2, <2>3, <2>4 DEF Drain
<1>2. CASE Drain
  BY <1>2 DEF Drain
<1>3. CASE RespawnWorkers
  BY <1>3 DEF RespawnWorkers, LoseTasks, Drain
<1>4. CASE ~PutRequest /\ ~Drain /\ ~RespawnWorkers
  BY <1>4 DEF Main, BeginStage, ResetCounters, Poll, PublishBoundary, SetCancel, ClearPhase,
     Rendezvous, ForceStop, TerminatePending, Release, EndStage, SetLastPhase, SetStop, StopWorkers
<1>5. QED
  BY <1>1, <1>2, <1>3, <1>4

LEMMA UntornStep ==
  ASSUME "torn" \notin Faults, TypeOK, UntornInv, [Next]_vars
  PROVE  UntornInv'
<1> SUFFICES ASSUME NEW w \in Workers PROVE wpc'[w] # "peek"
  BY DEF UntornInv
<1>1. wpc[w] # "peek"
  BY DEF UntornInv
<1>2. CASE Main
  <2>1. CASE RespawnWorkers
    BY <1>1, <2>1 DEF RespawnWorkers, TypeOK
  <2>2. CASE ~RespawnWorkers
    BY <1>1, <1>2, <2>2 DEF Main, BeginStage, ResetCounters, PutRequest, Poll, PublishBoundary,
       SetCancel, ClearPhase, Rendezvous, ForceStop, TerminatePending, Drain, Release, EndStage,
       SetLastPhase, SetStop, StopWorkers, workerVars
  <2>3. QED
    BY <2>1, <2>2
<1>3. ASSUME NEW v \in Workers, Loop(v) PROVE wpc'[w] # "peek"
  <2>1. CASE v # w
    BY <1>1, <1>3, <2>1, LoopMovesOneWorker
  <2>2. CASE v = w
    BY <1>1, <1>3, <2>2 DEF Loop, Top, Exit, Fetch, FetchUnloadable, FetchNothing, Leave, WindDown,
       CancelTasks, Reap, Ack, Hold, Peek, HoldTorn, Count, Move, At, NextTurn, TypeOK
  <2>3. QED
    BY <2>1, <2>2
<1>4. ASSUME NEW v \in Workers, NEW r \in Request, Task(v, r) PROVE wpc'[w] # "peek"
  BY <1>1, <1>4, TaskMovesNoWorker
<1>5. CASE Environment
  BY <1>1, <1>5, EnvironmentMovesWorkers
<1>6. CASE UNCHANGED vars
  BY <1>1, <1>6 DEF vars, workerVars
<1>7. QED
  BY <1>2, <1>3, <1>4, <1>5, <1>6 DEF Next

LEMMA WoundDownStep ==
  ASSUME TypeOK, WoundDownInv, [Next]_vars
  PROVE  WoundDownInv'
<1> SUFFICES ASSUME NEW w \in Workers, wpc'[w] \in {"ack", "hold", "peek"} PROVE Tasks(w)' = {}
  BY DEF WoundDownInv
<1>1. CASE Main
  <2>1. wpc'[w] = wpc[w]
    <3>1. CASE RespawnWorkers
      BY <3>1 DEF RespawnWorkers, TypeOK
    <3>2. CASE ~RespawnWorkers
      BY <1>1, <3>2 DEF Main, BeginStage, ResetCounters, PutRequest, Poll, PublishBoundary,
         SetCancel, ClearPhase, Rendezvous, ForceStop, TerminatePending, Drain, Release, EndStage,
         SetLastPhase, SetStop, StopWorkers, workerVars
    <3>3. QED
      BY <3>1, <3>2
  <2>2. QED
    BY <1>1, <2>1, MainRequests DEF WoundDownInv, Tasks, TaskState
<1>2. ASSUME NEW v \in Workers, Loop(v) PROVE Tasks(w)' = {}
  <2>1. CASE v # w
    <3>1. wpc'[w] = wpc[w]
      BY <1>2, <2>1, LoopMovesOneWorker
    <3>2. ASSUME NEW r \in Request, owner'[r] = w, req'[r] \in TaskState
          PROVE  owner[r] = w /\ req[r] \in TaskState
      BY <1>2, <2>1, <3>2, LoopRequests DEF TaskState, NextTurn
    <3>3. QED
      BY <3>1, <3>2 DEF WoundDownInv, Tasks, TaskState
  <2>2. CASE v = w
    <3>1. CASE WindDown(w) \/ Reap(w)
      BY <3>1 DEF WindDown, Reap, NothingPending, Tasks, reqVars
    <3>2. CASE Ack(w)
      BY <3>2 DEF Ack, At, WoundDownInv, Tasks, reqVars
    <3>3. CASE Peek(w) \/ HoldTorn(w)
      BY <3>3 DEF Peek, HoldTorn, At, WoundDownInv, Tasks, reqVars
    <3>4. CASE Top(w) \/ Exit(w) \/ Fetch(w) \/ FetchUnloadable(w) \/ FetchNothing(w)
               \/ Leave(w) \/ CancelTasks(w) \/ Hold(w)
      <4>1. wpc'[w] \in {"fetch", "retire", "leave", "exited", "wind", "top", "reap"}
        BY <3>4 DEF Top, Exit, Fetch, FetchUnloadable, FetchNothing, Leave, CancelTasks, Hold,
                    Move, NextTurn, TypeOK
      <4>2. QED
        BY <4>1
    <3>5. CASE Count(w)
      <4>1. wpc'[w] = wpc[w] \/ wpc'[w] \in {"fetch", "leave"}
        BY <3>5 DEF Count, Move, NextTurn, TypeOK
      <4>2. wpc[w] \in {"ack", "hold", "peek"}
        BY <4>1
      <4>3. QED
        BY <3>5, <4>2 DEF Count, WoundDownInv, Tasks, reqVars
    <3>6. QED
      BY <1>2, <2>2, <3>1, <3>2, <3>3, <3>4, <3>5 DEF Loop
  <2>3. QED
    BY <2>1, <2>2
<1>3. ASSUME NEW v \in Workers, NEW q \in Request, Task(v, q) PROVE Tasks(w)' = {}
  <2>1. wpc' = wpc
    BY <1>3, TaskMovesNoWorker
  <2>2. Tasks(w) = {}
    BY <2>1 DEF WoundDownInv
  <2>3. ASSUME NEW r \in Request, r \in Tasks(w)' PROVE r \in Tasks(w)
    <3>1. owner'[r] = w /\ req'[r] \in TaskState
      BY <2>3 DEF Tasks, TaskState
    <3>2. owner' = owner
      BY <1>3, TaskRequests
    <3>3. CASE req'[r] = req[r]
      BY <3>1, <3>2, <3>3 DEF Tasks, TaskState
    <3>4. CASE req'[r] # req[r]
      BY <1>3, <3>1, <3>4, TaskRequests DEF Tasks, TaskState, Retired
    <3>5. QED
      BY <3>3, <3>4
  <2>4. QED
    BY <2>2, <2>3 DEF Tasks, TaskState
<1>4. CASE Environment
  <2>1. wpc'[w] = wpc[w]
    BY <1>4, EnvironmentMovesWorkers
  <2>2. QED
    BY <1>4, <2>1, EnvironmentRequests DEF WoundDownInv, Tasks, TaskState
<1>5. CASE UNCHANGED vars
  BY <1>5 DEF vars, workerVars, reqVars, WoundDownInv, Tasks
<1>6. QED
  BY <1>1, <1>2, <1>3, <1>4, <1>5 DEF Next

LEMMA QueueStep ==
  ASSUME TypeOK, QueueInv, [Next]_vars
  PROVE  QueueInv'
<1> SUFFICES ASSUME NEW r \in Request, req'[r] = "queued"
             PROVE  /\ StageOf(r) = stage'
                    /\ mpc' \in {"put", "poll", "publish", "cancel", "clear", "rendezvous", "drain"}
  BY DEF QueueInv, StageOf
<1>1. CASE Main
  <2>1. CASE req[r] = "queued"
    <3>1. /\ StageOf(r) = stage
          /\ mpc \in {"put", "poll", "publish", "cancel", "clear", "rendezvous", "drain"}
          /\ ~Drain
      BY <1>1, <2>1, MainRequests DEF QueueInv
    <3>2. QED
      BY <1>1, <3>1 DEF Main, BeginStage, ResetCounters, PutRequest, Poll, PublishBoundary,
         SetCancel, ClearPhase, Rendezvous, ForceStop, TerminatePending, Release, RespawnWorkers,
         EndStage, SetLastPhase, SetStop, StopWorkers, Goto, mainVars
  <2>2. CASE req[r] # "queued"
    BY <1>1, <2>2, MainRequests
  <2>3. QED
    BY <2>1, <2>2
<1>2. CASE ~Main
  <2>1. UNCHANGED <<mpc, stage>>
    BY <1>2, OnlyMain DEF Next
  <2>2. ASSUME NEW w \in Workers, Loop(w) PROVE req[r] = "queued"
    BY <2>2, LoopRequests
  <2>3. ASSUME NEW w \in Workers, NEW q \in Request, Task(w, q) PROVE req[r] = "queued"
    BY <2>3, TaskRequests DEF Retired
  <2>4. Environment => req[r] = "queued"
    BY EnvironmentRequests
  <2>5. req[r] = "queued"
    BY <1>2, <2>2, <2>3, <2>4 DEF Next, vars, reqVars
  <2>6. QED
    BY <2>1, <2>5 DEF QueueInv
<1>3. QED
  BY <1>1, <1>2

\* Before the respawn, an original worker that is not replaced has nothing left to send.
LEMMA RespawnedOrIdle ==
  ASSUME TypeOK, DoomedInv, WoundDownInv, NEW w \in Workers,
         \A v \in Workers : Original(v) => OriginalInv(v),
         mpc = "respawn", w \notin respawned
  PROVE  NeedsReplacing(w) \/ Tasks(w) = {}
<1> SUFFICES ASSUME ~NeedsReplacing(w) PROVE Tasks(w) = {}
  OBVIOUS
<1>1. Original(w)
  BY DEF NeedsReplacing, Original, DoomedInv
<1>2. wpc[w] = "hold"
  BY <1>1 DEF OriginalInv
<1>3. QED
  BY <1>2 DEF WoundDownInv

LEMMA TaskStep ==
  ASSUME IInv, [Next]_vars
  PROVE  TaskInv'
<1> USE DEF IInv
<1> SUFFICES ASSUME NEW r \in Request, req'[r] \in TaskState
             PROVE  /\ owner'[r] \in Workers
                    /\ owner'[r] \notin respawned' =>
                         /\ StageOf(r) = stage'
                         /\ mpc' \in {"put", "poll", "publish", "cancel", "clear", "rendezvous",
                                      "drain", "release", "respawn"}
  BY DEF TaskInv, StageOf
<1>1. CASE Main
  <2>1. owner'[r] = owner[r] /\ req[r] \in TaskState /\ owner[r] \in Workers
    BY <1>1, MainRequests DEF TaskInv, TaskState
  <2>2. SUFFICES ASSUME owner[r] \notin respawned'
                 PROVE  /\ StageOf(r) = stage'
                        /\ mpc' \in {"put", "poll", "publish", "cancel", "clear", "rendezvous",
                                     "drain", "release", "respawn"}
    BY <2>1
  <2>3. owner[r] \notin respawned
    BY <1>1, <2>2 DEF Main, BeginStage, ResetCounters, PutRequest, Poll, PublishBoundary,
         SetCancel, ClearPhase, Rendezvous, ForceStop, TerminatePending, Drain, Release,
         RespawnWorkers, EndStage, SetLastPhase, SetStop, StopWorkers, workerVars
  <2>4. /\ StageOf(r) = stage
        /\ mpc \in {"put", "poll", "publish", "cancel", "clear", "rendezvous",
                    "drain", "release", "respawn"}
    BY <2>1, <2>3 DEF TaskInv
  <2>5. CASE RespawnWorkers
    <3>1. ~NeedsReplacing(owner[r])
      BY <2>1, <2>2, <2>5 DEF RespawnWorkers
    <3>2. Tasks(owner[r]) = {}
      BY <2>1, <2>3, <2>5, <3>1, RespawnedOrIdle DEF RespawnWorkers
    <3>3. QED
      BY <2>1, <3>2 DEF Tasks
  <2>6. CASE ~RespawnWorkers
    BY <1>1, <2>4, <2>6 DEF Main, BeginStage, ResetCounters, PutRequest, Poll, PublishBoundary,
         SetCancel, ClearPhase, Rendezvous, ForceStop, TerminatePending, Drain, Release,
         EndStage, SetLastPhase, SetStop, StopWorkers, Goto, mainVars
  <2>7. QED
    BY <2>5, <2>6
<1>2. CASE ~Main
  <2>1. UNCHANGED <<mpc, stage, respawned>>
    BY <1>2, OnlyMain DEF Next
  <2>2. CASE req[r] \in TaskState /\ owner'[r] = owner[r]
    BY <2>1, <2>2 DEF TaskInv
  <2>3. ASSUME NEW w \in Workers, Loop(w)
        PROVE  \/ req[r] \in TaskState /\ owner'[r] = owner[r]
               \/ req[r] = "queued" /\ owner'[r] \in Workers
    BY <2>3, LoopRequests DEF TaskState
  <2>4. ASSUME NEW w \in Workers, NEW q \in Request, Task(w, q)
        PROVE  req[r] \in TaskState /\ owner'[r] = owner[r]
    BY <2>4, TaskRequests DEF Retired, TaskState
  <2>5. Environment => req[r] \in TaskState /\ owner'[r] = owner[r]
    BY EnvironmentRequests DEF TaskState
  <2>6. CASE req[r] = "queued" /\ owner'[r] \in Workers
    BY <2>1, <2>6 DEF QueueInv
  <2>7. QED
    BY <1>2, <2>2, <2>3, <2>4, <2>5, <2>6 DEF Next, vars, reqVars
<1>3. QED
  BY <1>1, <1>2
-----------------------------------------------------------------------------
LEMMA IInvInit == Init => IInv
<1> SUFFICES ASSUME Init PROVE IInv
  OBVIOUS
<1>1. TypeOK
  BY TypeOKInit
<1>2. SignalInv /\ SeqInv /\ DoomedInv
  BY DEF Init, SignalInv, SeqInv, DoomedInv
<1>3. \A w \in Workers : OriginalInv(w)
  BY DEF Init, OriginalInv, ServingPc
<1>4. UntornInv /\ WoundDownInv /\ QueueInv /\ TaskInv
  BY DEF Init, UntornInv, WoundDownInv, QueueInv, TaskInv, TaskState
<1>5. QED
  BY <1>1, <1>2, <1>3, <1>4 DEF IInv

LEMMA IInvStep ==
  ASSUME "torn" \notin Faults, IInv, [Next]_vars
  PROVE  IInv'
<1>1. TypeOK'
  BY TypeOKStep DEF IInv
<1>2. SignalInv' /\ SeqInv' /\ DoomedInv'
  BY SignalsStep DEF IInv
<1>3. (\A w \in Workers : Original(w) => OriginalInv(w))'
  BY OriginalStep DEF IInv
<1>4. UntornInv' /\ WoundDownInv' /\ QueueInv' /\ TaskInv'
  BY UntornStep, WoundDownStep, QueueStep, TaskStep DEF IInv
<1>5. QED
  BY <1>1, <1>2, <1>3, <1>4 DEF IInv

LEMMA Invariance ==
  ASSUME "torn" \notin Faults
  PROVE  Spec => []IInv
<1>1. IInv /\ [Next]_vars => IInv'
  BY IInvStep
<1>2. QED
  BY <1>1, IInvInit, PTL DEF Spec

(* When the main process is past the rendezvous, every original worker it  *)
(* did not give up on holds at the boundary with none of its tasks left    *)
(* (_teardown_stage and Worker.loop), however many workers crash or wedge, *)
(* as long as no worker is preempted between its two reads in the hold.    *)
THEOREM RendezvousCorrect ==
  ASSUME "torn" \notin Faults
  PROVE  Spec => []RendezvousHolds
<1>1. IInv => RendezvousHolds
  BY DEF IInv, RendezvousHolds, OriginalInv, WoundDownInv, At
<1>2. QED
  BY <1>1, Invariance, PTL

(* A request is sent to the server only in its own stage, by a worker that *)
(* has not acknowledged the end of it (schedule_client and Worker.loop),   *)
(* under the same condition.                                               *)
THEOREM SentInStage ==
  ASSUME "torn" \notin Faults
  PROVE  Spec => SentInItsStage
<1> DEFINE Sent == \A r \in Request :
                     req[r] = "waiting" /\ req'[r] = "inflight" /\ owner[r] \notin respawned
                       => /\ StageOf(r) = stage
                          /\ stage_done_counter[owner[r]] < stage
<1>1. IInv /\ [Next]_vars => Sent
  <2> SUFFICES ASSUME IInv, [Next]_vars, NEW r \in Request,
                      req[r] = "waiting", req'[r] = "inflight", owner[r] \notin respawned
               PROVE  StageOf(r) = stage /\ stage_done_counter[owner[r]] < stage
    OBVIOUS
  <2> USE DEF IInv
  <2>1. LoopAwaits(owner[r]) /\ request_phase /\ ~cancel_signal
    <3>1. ~Main
      BY MainRequests
    <3>2. ~ \E w \in Workers : Loop(w)
      BY LoopRequests
    <3>3. ~Environment /\ ~UNCHANGED vars
      BY EnvironmentRequests DEF vars, reqVars
    <3>4. PICK w \in Workers, q \in Request : Task(w, q)
      BY <3>1, <3>2, <3>3 DEF Next
    <3>5. LoopAwaits(w) /\ owner[r] = w /\ MayDispatch(w)
      BY <3>4, TaskRequests DEF Retired
    <3>6. QED
      BY <3>5 DEF MayDispatch
  <2>2. /\ owner[r] \in Workers
        /\ StageOf(r) = stage
        /\ mpc \in {"put", "poll", "publish", "cancel"}
    BY <2>1 DEF TaskInv, TaskState, SignalInv
  <2>3. Original(owner[r])
    BY <2>1, <2>2 DEF Original, IsAlive, LoopAwaits, DoomedInv
  <2>4. stage_done_counter[owner[r]] < stage
    BY <2>2, <2>3 DEF OriginalInv, SeqInv, TypeOK
  <2>5. QED
    BY <2>2, <2>4
<1>2. QED
  BY <1>1, Invariance, PTL DEF Spec, SentInItsStage
-----------------------------------------------------------------------------
(* The accounts.  Every step sends one request, settles one, gives one up, *)
(* counts one as finished, resets the counters, or moves requests without  *)
(* counting.                                                               *)

Settled == {"recorded", "raised", "cancelled"}
GivenUp == {"skipped", "unloadable"}

\* One more worker is between the two counters of a request.
StartsCounting == \E w \in Workers \ counting : counting' = counting \cup {w}

Sends(q) ==
  /\ req[q] = "waiting"
  /\ req' = [req EXCEPT ![q] = "inflight"]
  /\ active_requests_counter' = active_requests_counter + 1
  /\ UNCHANGED <<finished_requests_counter, skipped_requests_counter, counting>>

Settles(q) ==
  /\ req[q] \in {"inflight", "cancelling"}
  /\ \E outcome \in Settled : /\ req' = [req EXCEPT ![q] = outcome]
                              /\ outcome = "cancelled" => req[q] = "cancelling"
  /\ active_requests_counter' = active_requests_counter - 1
  /\ StartsCounting
  /\ UNCHANGED <<finished_requests_counter, skipped_requests_counter>>

GivesUp(q) ==
  /\ req[q] \in {"queued", "waiting"}
  /\ \E outcome \in GivenUp : req' = [req EXCEPT ![q] = outcome]
  /\ skipped_requests_counter' = skipped_requests_counter + 1
  /\ StartsCounting
  /\ UNCHANGED <<finished_requests_counter, active_requests_counter>>

Resets ==
  /\ mpc = "reset" /\ mpc' = "put"
  /\ finished_requests_counter' = 0
  /\ skipped_requests_counter' = 0
  /\ UNCHANGED <<active_requests_counter, counting, req, stage>>

\* How a request may move without being counted.
Uncounted(before, after) ==
  \/ before = after
  \/ before = "unborn" /\ after = "queued"
  \/ before = "queued" /\ after \in {"waiting", "dropped"}
  \/ before = "inflight" /\ after = "cancelling"
  \/ before \in TaskState /\ after = "lost"

Shifts ==
  /\ \A r \in Request : Uncounted(req[r], req'[r])
  /\ UNCHANGED <<active_requests_counter, skipped_requests_counter>>

\* A worker leaves the set only by being replaced.
Moves ==
  /\ Shifts
  /\ UNCHANGED finished_requests_counter
  /\ respawned' = {} => counting' = counting

Counts ==
  /\ Shifts
  /\ finished_requests_counter' = finished_requests_counter + 1
  /\ \E w \in counting : counting' = counting \ {w}

LEMMA MainCounts ==
  ASSUME TypeOK, Main
  PROVE  Resets \/ Moves
<1> USE DEF TypeOK, Moves, Shifts, Uncounted, countVars
<1>1. CASE ResetCounters
  BY <1>1 DEF ResetCounters, Resets, FinishedAtStart, SkippedAtStart, Goto, reqVars
<1>2. CASE PutRequest
  <2>1. PICK i \in 1 .. StageSize : /\ req[<<stage, i>>] = "unborn"
                                    /\ req' = [req EXCEPT ![<<stage, i>>] = "queued"]
    BY <1>2 DEF PutRequest
  <2>2. QED
    BY <1>2, <2>1 DEF PutRequest
<1>3. CASE Drain
  BY <1>3 DEF Drain
<1>4. CASE RespawnWorkers
  <2>1. respawned' = {} => counting' = counting
    BY <1>4 DEF RespawnWorkers
  <2>2. QED
    BY <1>4, <2>1 DEF RespawnWorkers, LoseTasks
<1>5. CASE ~ResetCounters /\ ~PutRequest /\ ~Drain /\ ~RespawnWorkers
  BY <1>5 DEF Main, BeginStage, Poll, PublishBoundary, SetCancel, ClearPhase, Rendezvous,
     ForceStop, TerminatePending, Release, EndStage, SetLastPhase, SetStop, StopWorkers, reqVars
<1>6. QED
  BY <1>1, <1>2, <1>3, <1>4, <1>5

LEMMA LoopCounts ==
  ASSUME TypeOK, NEW w \in Workers, Loop(w)
  PROVE  Moves \/ Counts \/ \E q \in Request : GivesUp(q)
<1> USE DEF TypeOK, Moves, Shifts, Uncounted, countVars, reqVars
<1>1. CASE Top(w) \/ FetchNothing(w) \/ Leave(w) \/ WindDown(w) \/ Reap(w) \/ Ack(w) \/ Hold(w)
           \/ Peek(w) \/ HoldTorn(w)
  BY <1>1 DEF Top, FetchNothing, Leave, WindDown, Reap, Ack, Hold, Peek, HoldTorn
<1>2. CASE Exit(w)
  BY <1>2 DEF Exit, LoseTasks
<1>3. CASE Fetch(w)
  BY <1>3 DEF Fetch, IsNext, Queued
<1>4. CASE FetchUnloadable(w)
  BY <1>4 DEF FetchUnloadable, Runs, IsNext, Queued, GivesUp, GivenUp, StartsCounting
<1>5. CASE CancelTasks(w)
  BY <1>5 DEF CancelTasks
<1>6. CASE Count(w)
  BY <1>6 DEF Count, Counts
<1>7. QED
  BY <1>1, <1>2, <1>3, <1>4, <1>5, <1>6 DEF Loop

LEMMA TaskCounts ==
  ASSUME NEW w \in Workers, NEW r \in Request, Task(w, r)
  PROVE  Sends(r) \/ Settles(r) \/ GivesUp(r)
<1>1. CASE Dispatch(w, r)
  BY <1>1 DEF Dispatch, Running, Sends
<1>2. CASE Skip(w, r)
  BY <1>2 DEF Skip, Running, LoopAwaits, GivesUp, GivenUp, StartsCounting
<1>3. CASE Respond(w, r) \/ Raise(w, r) \/ Cancelled(w, r)
  BY <1>3 DEF Respond, Raise, Cancelled, Running, LoopAwaits, Finish, ActiveAfter, Settles, Settled,
     StartsCounting
<1>4. QED
  BY <1>1, <1>2, <1>3 DEF Task

LEMMA EnvironmentCounts ==
  ASSUME TypeOK, Environment
  PROVE  Moves \/ Counts
<1> USE DEF TypeOK, Moves, Shifts, Uncounted, countVars, reqVars
<1>1. ASSUME NEW w \in Workers, Die(w) PROVE Moves \/ Counts
  <2>1. Shifts
    BY <1>1 DEF Die, LoseTasks
  <2>2. \/ UNCHANGED <<finished_requests_counter, counting>>
        \/ /\ finished_requests_counter' = finished_requests_counter + 1
           /\ w \in counting /\ counting' = counting \ {w}
    BY <1>1 DEF Die, StrandLock
  <2>3. QED
    BY <2>1, <2>2 DEF Counts
<1>2. ASSUME NEW w \in Workers, Wedge(w) PROVE Moves
  BY <1>2 DEF Wedge
<1>3. CASE Interrupt \/ OpenBreaker
  BY <1>3 DEF Interrupt, OpenBreaker
<1>4. QED
  BY <1>1, <1>2, <1>3 DEF Environment, Terminated, Crash

LEMMA CountedSteps ==
  ASSUME TypeOK, [Next]_vars
  PROVE  \/ Resets \/ Moves \/ Counts
         \/ \E q \in Request : Sends(q) \/ Settles(q) \/ GivesUp(q)
<1>1. UNCHANGED vars => Moves
  BY DEF vars, countVars, reqVars, Moves, Shifts, Uncounted
<1>2. QED
  BY <1>1, MainCounts, LoopCounts, TaskCounts, EnvironmentCounts DEF Next

LEMMA RequestsFinite ==
  /\ IsFiniteSet(Request)
  /\ \A S \in SUBSET Request : IsFiniteSet(S)
<1>1. IsFiniteSet(1 .. Stages) /\ IsFiniteSet(1 .. StageSize)
  BY FS_Interval, ConstantsAssumption
<1>2. IsFiniteSet(Request)
  BY <1>1, FS_Product DEF Request
<1>3. QED
  BY <1>2, FS_Subset

LEMMA OneMore ==
  ASSUME NEW S, IsFiniteSet(S), NEW x, x \notin S
  PROVE  Cardinality(S \cup {x}) = Cardinality(S) + 1
BY FS_AddElement

LEMMA OneLess ==
  ASSUME NEW S, IsFiniteSet(S), NEW x, x \in S
  PROVE  Cardinality(S \ {x}) = Cardinality(S) - 1
BY FS_RemoveElement

LEMMA InFlightStep ==
  ASSUME TypeOK, InFlightIsExact, [Next]_vars
  PROVE  InFlightIsExact'
<1> DEFINE Counted == InFlight \cup Lost
<1> USE DEF TypeOK, InFlight, Lost
<1>1. /\ IsFiniteSet(InFlight) /\ IsFiniteSet(Counted)
      /\ IsFiniteSet(InFlight') /\ IsFiniteSet(Counted')
  BY RequestsFinite
<1>2. /\ Cardinality(InFlight) \in Nat /\ Cardinality(Counted) \in Nat
      /\ Cardinality(InFlight') \in Nat /\ Cardinality(Counted') \in Nat
  BY <1>1, FS_CardinalityType
<1>3. SUFFICES /\ Cardinality(InFlight') <= active_requests_counter'
               /\ active_requests_counter' <= Cardinality(Counted')
               /\ active_requests_counter' \in Int
  BY <1>2 DEF InFlightIsExact
<1>4. /\ Cardinality(InFlight) <= active_requests_counter
      /\ active_requests_counter <= Cardinality(Counted)
      /\ active_requests_counter \in Int
  BY <1>2 DEF InFlightIsExact
<1>5. ASSUME NEW q \in Request, Sends(q)
      PROVE  /\ Cardinality(InFlight') = Cardinality(InFlight) + 1
             /\ Cardinality(Counted') = Cardinality(Counted) + 1
             /\ active_requests_counter' = active_requests_counter + 1
  <2>1. InFlight' = InFlight \cup {q} /\ Counted' = Counted \cup {q}
    BY <1>5 DEF Sends
  <2>2. q \notin InFlight /\ q \notin Counted
    BY <1>5 DEF Sends
  <2> HIDE DEF InFlight, Counted
  <2>3. QED
    BY <1>1, <1>5, <2>1, <2>2, OneMore DEF Sends
<1>6. ASSUME NEW q \in Request, Settles(q)
      PROVE  /\ Cardinality(InFlight') = Cardinality(InFlight) - 1
             /\ Cardinality(Counted') = Cardinality(Counted) - 1
             /\ active_requests_counter' = active_requests_counter - 1
  <2>1. InFlight' = InFlight \ {q} /\ Counted' = Counted \ {q}
    BY <1>6 DEF Settles, Settled
  <2>2. q \in InFlight /\ q \in Counted
    BY <1>6 DEF Settles
  <2> HIDE DEF InFlight, Counted
  <2>3. QED
    BY <1>1, <1>6, <2>1, <2>2, OneLess DEF Settles
<1>7. ASSUME NEW q \in Request, GivesUp(q)
      PROVE  InFlight' = InFlight /\ Counted' = Counted
  BY <1>7 DEF GivesUp, GivenUp
<1>8. ASSUME Shifts
      PROVE  /\ Cardinality(InFlight') <= Cardinality(InFlight)
             /\ Cardinality(Counted) <= Cardinality(Counted')
  <2>1. InFlight' \subseteq InFlight /\ Counted \subseteq Counted'
    BY <1>8 DEF Shifts, Uncounted, TaskState
  <2>2. QED
    BY <1>1, <2>1, FS_Subset
<1>0. Resets => InFlight' = InFlight /\ Counted' = Counted
  BY DEF Resets
<1> HIDE DEF InFlight, Counted
<1>9. CASE Moves \/ Counts
  BY <1>2, <1>4, <1>8, <1>9 DEF Moves, Counts, Shifts
<1>10. CASE Resets
  BY <1>0, <1>4, <1>10 DEF Resets
<1>11. CASE \E q \in Request : Sends(q) \/ Settles(q) \/ GivesUp(q)
  BY <1>2, <1>4, <1>5, <1>6, <1>7, <1>11 DEF GivesUp
<1>12. QED
  BY <1>9, <1>10, <1>11, CountedSteps

(* The in-flight gauge is exact as long as no process dies with requests,  *)
(* and from then on too high by at most the requests that died             *)
(* (schedule_client), whatever else happens to the workers.                *)
THEOREM InFlightExact == Spec => []InFlightIsExact
<1>1. Init => InFlightIsExact
  <2> SUFFICES ASSUME Init PROVE InFlightIsExact
    OBVIOUS
  <2>1. InFlight = {} /\ InFlight \cup Lost = {}
    BY DEF Init, InFlight, Lost
  <2>2. QED
    BY <2>1, FS_EmptySet DEF Init, InFlightIsExact
<1>2. TypeOK /\ InFlightIsExact /\ [Next]_vars => InFlightIsExact'
  BY InFlightStep
<1>3. QED
  BY <1>1, <1>2, TypeCorrect, PTL DEF Spec

\* Only a worker whose loop coroutine awaits, or retires a request itself, is between
\* the two counters of a request, or died there.
CountingInv == \A w \in counting : wpc[w] \in {"fetch", "retire", "wind", "reap", "dead"}

\* Until a worker is replaced: no count is left open by the stage before, the finished
\* counter and the open counts make the retired requests of the stage, and the loading
\* of a stage cuts none of them off.
BornInv ==
  \A r \in Request :
    \/ StageOf(r) > stage
    \/ StageOf(r) = stage /\ mpc \in {"begin", "reset"}
    => req[r] = "unborn"

ClosedInv == mpc \in {"end", "phase", "begin", "reset"} /\ respawned = {} => counting = {}

Retiring == finished_requests_counter + Cardinality(counting)

CountInv ==
  mpc \notin {"begin", "reset"} /\ respawned = {} =>
    /\ IsFiniteSet(counting)
    /\ Retiring = Cardinality(InState(stage, Retired))
    /\ Retiring = skipped_requests_counter + Cardinality(InState(stage, Settled))

WholeInv ==
  respawned = {} =>
    /\ mpc \in {"put", "poll"} => InState(stage, {"cancelling", "cancelled", "skipped"}) = {}
    /\ mpc \notin {"begin", "reset", "put", "poll"} /\ stage_status = "COMPLETED" =>
         InState(stage, Retired \ {"cancelled", "skipped"}) = InState(stage, ReqState)

AccountInv == CountingInv /\ BornInv /\ ClosedInv /\ CountInv /\ WholeInv

\* What is counted in a stage is a request of this stage.
LEMMA CountedInStage ==
  ASSUME IInv, respawned = {}, NEW q \in Request, req[q] \in TaskState \cup {"queued"}
  PROVE  StageOf(q) = stage /\ mpc \notin {"begin", "reset", "end", "phase", "stop", "join", "done"}
BY DEF IInv, QueueInv, TaskInv

LEMMA StageStays ==
  ASSUME TypeOK, [Next]_vars
  PROVE  /\ respawned \subseteq respawned'
         /\ \/ stage' = stage
            \/ stage' = stage + 1 /\ mpc = "end" /\ mpc' = "begin"
         /\ mpc' \in {"begin", "reset"} /\ mpc \notin {"begin", "reset"} => stage' = stage + 1
<1>1. CASE Main
  BY <1>1 DEF Main, BeginStage, ResetCounters, PutRequest, Poll, PublishBoundary, SetCancel,
     ClearPhase, Rendezvous, ForceStop, TerminatePending, Drain, Release, RespawnWorkers, EndStage,
     SetLastPhase, SetStop, StopWorkers, Goto, mainVars, workerVars
<1>2. CASE ~Main
  BY <1>2, OnlyMain DEF Next
<1>3. QED
  BY <1>1, <1>2

LEMMA BornStep ==
  ASSUME TypeOK, BornInv, [Next]_vars
  PROVE  BornInv'
<1> SUFFICES ASSUME NEW r \in Request,
                    \/ StageOf(r) > stage'
                    \/ StageOf(r) = stage' /\ mpc' \in {"begin", "reset"}
             PROVE  req'[r] = "unborn"
  BY DEF BornInv, StageOf
<1>1. StageOf(r) \in Int /\ stage \in Int
  BY DEF TypeOK, StageOf, Request
<1>2. req[r] = "unborn" /\ (StageOf(r) = stage => mpc # "put")
  <2>1. CASE stage' = stage /\ StageOf(r) > stage
    BY <1>1, <2>1 DEF BornInv
  <2>2. CASE stage' = stage /\ mpc \in {"begin", "reset"} /\ StageOf(r) = stage
    BY <2>2 DEF BornInv
  <2>3. CASE stage' = stage + 1
    <3>1. StageOf(r) > stage
      BY <1>1, <2>3
    <3>2. QED
      BY <1>1, <3>1 DEF BornInv
  <2>4. stage' = stage \/ stage' = stage + 1
    BY StageStays
  <2>5. stage' = stage /\ mpc' \in {"begin", "reset"} => mpc \in {"begin", "reset"}
    BY <1>1, StageStays
  <2>6. QED
    BY <2>1, <2>2, <2>3, <2>4, <2>5
<1>3. CASE Main
  BY <1>1, <1>2, <1>3, MainRequests, MainCounts DEF Moves, Shifts, Uncounted, Resets, TaskState
<1>4. CASE ~Main
  <2>1. Shifts \/ \E q \in Request : Sends(q) \/ Settles(q) \/ GivesUp(q)
    BY <1>4, LoopCounts, TaskCounts, EnvironmentCounts DEF Next, vars, countVars, reqVars, Moves, Counts,
       Shifts, Uncounted
  <2>2. req'[r] \in {"unborn", "queued"}
    BY <1>2, <2>1 DEF Shifts, Uncounted, Sends, Settles, GivesUp, TypeOK, TaskState
  <2>3. req'[r] # "queued"
    BY <1>2, <1>4, LoopRequests, TaskRequests, EnvironmentRequests DEF Next, vars, reqVars, Retired
  <2>4. QED
    BY <2>2, <2>3
<1>5. QED
  BY <1>3, <1>4

LEMMA CountingStep ==
  ASSUME TypeOK, CountingInv, [Next]_vars
  PROVE  CountingInv'
<1> DEFINE Places == {"fetch", "retire", "wind", "reap", "dead"}
<1> SUFFICES ASSUME NEW w \in counting' PROVE wpc'[w] \in Places
  BY DEF CountingInv
<1>1. w \in Workers
  BY TypeOKStep DEF TypeOK
<1>2. CASE Main
  <2>1. w \in counting /\ wpc'[w] = wpc[w]
    <3>1. CASE RespawnWorkers
      BY <1>1, <3>1 DEF RespawnWorkers
    <3>2. CASE ~RespawnWorkers
      BY <1>2, <3>2 DEF Main, BeginStage, ResetCounters, PutRequest, Poll, PublishBoundary, SetCancel,
         ClearPhase, Rendezvous, ForceStop, TerminatePending, Drain, Release, EndStage, SetLastPhase,
         SetStop, StopWorkers, workerVars, countVars
    <3>3. QED
      BY <3>1, <3>2
  <2>2. QED
    BY <2>1 DEF CountingInv
<1>3. ASSUME NEW v \in Workers, Loop(v) PROVE wpc'[w] \in Places
  <2>1. CASE v # w
    <3>1. wpc'[w] = wpc[w]
      BY <1>1, <1>3, <2>1, LoopMovesOneWorker
    <3>2. w \in counting
      BY <1>3, <2>1 DEF Loop, Top, Exit, Fetch, FetchUnloadable, FetchNothing, Leave, WindDown, CancelTasks,
         Reap, Ack, Hold, Peek, HoldTorn, Count, countVars
    <3>3. QED
      BY <3>1, <3>2 DEF CountingInv
  <2>2. CASE v = w
    <3>1. CASE FetchUnloadable(w)
      BY <1>1, <3>1 DEF FetchUnloadable, Move, TypeOK
    <3>2. CASE ~FetchUnloadable(w)
      BY <1>3, <2>2, <3>2 DEF CountingInv, Loop, Top, Exit, Fetch, FetchNothing, Leave, WindDown,
         CancelTasks, Reap, Ack, Hold, Peek, HoldTorn, Count, At, Runs, countVars
    <3>3. QED
      BY <3>1, <3>2
  <2>3. QED
    BY <2>1, <2>2
<1>4. ASSUME NEW v \in Workers, NEW q \in Request, Task(v, q) PROVE wpc'[w] \in Places
  <2>1. wpc' = wpc
    BY <1>4, TaskMovesNoWorker
  <2>2. w \in counting \/ (w = v /\ LoopAwaits(v))
    BY <1>4 DEF Task, Dispatch, Skip, Respond, Raise, Cancelled, Running, Finish
  <2>3. QED
    BY <2>1, <2>2 DEF CountingInv, LoopAwaits
<1>5. CASE Environment
  <2>1. ASSUME NEW v \in Workers, Die(v) PROVE wpc'[w] \in Places
    BY <1>1, <2>1 DEF Die, StrandLock, CountingInv, TypeOK
  <2>2. ASSUME NEW v \in Workers, Wedge(v) PROVE wpc'[w] \in Places
    BY <1>1, <2>2 DEF Wedge, LoopAwaits, Move, countVars, CountingInv, TypeOK
  <2>3. CASE Interrupt \/ OpenBreaker
    BY <2>3 DEF Interrupt, OpenBreaker, countVars, workerVars, CountingInv
  <2>4. QED
    BY <1>5, <2>1, <2>2, <2>3 DEF Environment, Terminated, Crash
<1>6. CASE UNCHANGED vars
  BY <1>6 DEF vars, countVars, workerVars, CountingInv
<1>7. QED
  BY <1>2, <1>3, <1>4, <1>5, <1>6 DEF Next

\* Every worker that may have left a count open is replaced before the stage ends.
LEMMA ClosedStep ==
  ASSUME IInv, CountingInv, ClosedInv, [Next]_vars
  PROVE  ClosedInv'
<1> SUFFICES ASSUME mpc' \in {"end", "phase", "begin", "reset"}, respawned' = {}
             PROVE  counting' = {}
  BY DEF ClosedInv
<1>1. TypeOK /\ respawned = {}
  BY StageStays DEF IInv
<1>2. CASE RespawnWorkers
  <2>1. \A w \in Workers : ~NeedsReplacing(w)
    BY <1>2 DEF RespawnWorkers
  <2>2. \A w \in Workers : wpc[w] = "hold"
    BY <1>1, <1>2, <2>1 DEF RespawnWorkers, NeedsReplacing, IInv, DoomedInv, Original, OriginalInv
  <2>3. counting = {}
    BY <1>1, <2>2 DEF CountingInv, TypeOK
  <2>4. QED
    BY <1>2, <2>3 DEF RespawnWorkers
<1>3. CASE ~RespawnWorkers
  <2>1. mpc \in {"end", "phase", "begin", "reset"}
    BY <1>3, OnlyMain DEF Next, Main, BeginStage, ResetCounters, PutRequest, Poll, PublishBoundary, SetCancel,
       ClearPhase, Rendezvous, ForceStop, TerminatePending, Drain, Release, EndStage, SetLastPhase,
       SetStop, StopWorkers, Goto, mainVars
  <2>2. counting = {}
    BY <1>1, <2>1 DEF ClosedInv
  <2>3. ~ \E q \in Request : Settles(q) \/ GivesUp(q)
    BY <1>1, <2>1, CountedInStage DEF Settles, GivesUp, TaskState
  <2>4. QED
    BY <1>1, <2>2, <2>3, CountedSteps DEF Resets, Moves, Counts, Sends
<1>4. QED
  BY <1>2, <1>3

LEMMA OpenCounts ==
  ASSUME TypeOK, IsFiniteSet(counting)
  PROVE  /\ StartsCounting => /\ IsFiniteSet(counting')
                              /\ Cardinality(counting') = Cardinality(counting) + 1
         /\ Counts => /\ IsFiniteSet(counting')
                      /\ Cardinality(counting') = Cardinality(counting) - 1
         /\ Cardinality(counting) \in Nat
<1>1. StartsCounting => /\ IsFiniteSet(counting')
                        /\ Cardinality(counting') = Cardinality(counting) + 1
  BY FS_AddElement DEF StartsCounting
<1>2. Counts => /\ IsFiniteSet(counting')
                /\ Cardinality(counting') = Cardinality(counting) - 1
  BY FS_RemoveElement DEF Counts
<1>3. QED
  BY <1>1, <1>2, FS_CardinalityType

LEMMA CountStep ==
  ASSUME IInv, BornInv, ClosedInv, CountInv, [Next]_vars
  PROVE  CountInv'
<1> SUFFICES ASSUME mpc' \notin {"begin", "reset"}, respawned' = {}
             PROVE  /\ IsFiniteSet(counting')
                    /\ Retiring' = Cardinality(InState(stage, Retired)')
                    /\ Retiring' = skipped_requests_counter' + Cardinality(InState(stage, Settled)')
  BY DEF CountInv
<1>1. TypeOK /\ respawned = {} /\ stage' = stage
  BY StageStays DEF IInv
<1>2. CASE mpc \in {"begin", "reset"}
  <2>1. ResetCounters
    BY <1>2, OnlyMain DEF Next, Main, BeginStage, PutRequest, Poll, PublishBoundary, SetCancel,
       ClearPhase, Rendezvous, ForceStop, TerminatePending, Drain, Release, RespawnWorkers, EndStage,
       SetLastPhase, SetStop, StopWorkers, Goto
  <2>2. /\ finished_requests_counter' = 0 /\ skipped_requests_counter' = 0 /\ req' = req
        /\ counting' = {}
    BY <1>1, <1>2, <2>1 DEF ResetCounters, FinishedAtStart, SkippedAtStart, reqVars, ClosedInv
  <2>3. InState(stage, Retired)' = {} /\ InState(stage, Settled)' = {}
    BY <1>1, <1>2, <2>2 DEF InState, BornInv, Retired, Settled
  <2>4. QED
    BY <2>2, <2>3, FS_EmptySet DEF Retiring
<1>3. CASE mpc \notin {"begin", "reset"}
  <2> DEFINE A == InState(stage, Retired)
             B == InState(stage, Settled)
             n == Cardinality(counting)
  <2>1. /\ IsFiniteSet(counting)
        /\ finished_requests_counter + n = Cardinality(A)
        /\ finished_requests_counter + n = skipped_requests_counter + Cardinality(B)
    BY <1>1, <1>3 DEF CountInv, Retiring
  <2>2. IsFiniteSet(A) /\ IsFiniteSet(B)
    BY RequestsFinite DEF InState
  <2>3. Cardinality(A) \in Nat /\ Cardinality(B) \in Nat
    BY <2>2, FS_CardinalityType
  <2>4. finished_requests_counter \in Nat /\ skipped_requests_counter \in Nat /\ n \in Nat
    BY <1>1, <2>1, OpenCounts DEF TypeOK
  <2>5. ASSUME NEW q \in Request, Settles(q)
        PROVE  Cardinality(A') = Cardinality(A) + 1 /\ Cardinality(B') = Cardinality(B) + 1
    <3>1. StageOf(q) = stage /\ q \notin A /\ q \notin B
      BY <1>1, <2>5, CountedInStage DEF Settles, TaskState, InState, Retired, Settled
    <3>2. A' = A \cup {q} /\ B' = B \cup {q}
      BY <1>1, <2>5, <3>1 DEF Settles, InState, Retired, Settled, TypeOK, StageOf
    <3> HIDE DEF A, B
    <3>3. QED
      BY <2>2, <3>1, <3>2, OneMore
  <2>6. ASSUME NEW q \in Request, GivesUp(q)
        PROVE  Cardinality(A') = Cardinality(A) + 1 /\ B' = B
    <3>1. StageOf(q) = stage /\ q \notin A
      BY <1>1, <2>6, CountedInStage DEF GivesUp, TaskState, InState, Retired
    <3>2. A' = A \cup {q} /\ B' = B
      BY <1>1, <2>6, <3>1 DEF GivesUp, GivenUp, InState, Retired, Settled, TypeOK, StageOf
    <3> HIDE DEF A, B
    <3>3. QED
      BY <2>2, <3>1, <3>2, OneMore
  <2>7. ASSUME Shifts \/ \E q \in Request : Sends(q)
        PROVE  A' = A /\ B' = B
    BY <1>1, <2>7 DEF Shifts, Uncounted, Sends, InState, Retired, Settled, TaskState, TypeOK, StageOf
  <2> HIDE DEF A, B
  <2>8. /\ IsFiniteSet(counting')
        /\ finished_requests_counter' + n' = Cardinality(A')
        /\ finished_requests_counter' + n' = skipped_requests_counter' + Cardinality(B')
    <3>1. CASE Moves
      BY <2>1, <2>7, <3>1 DEF Moves, Shifts
    <3>2. CASE \E q \in Request : Sends(q)
      BY <2>1, <2>7, <3>2 DEF Sends
    <3>3. CASE \E q \in Request : Settles(q)
      <4>1. PICK q \in Request : Settles(q)
        BY <3>3
      <4>2. /\ finished_requests_counter' = finished_requests_counter
            /\ skipped_requests_counter' = skipped_requests_counter
            /\ IsFiniteSet(counting') /\ n' = n + 1
        BY <1>1, <2>1, <4>1, OpenCounts DEF Settles
      <4>3. Cardinality(A') = Cardinality(A) + 1 /\ Cardinality(B') = Cardinality(B) + 1
        BY <2>5, <4>1
      <4> HIDE DEF n
      <4>4. QED
        BY <2>1, <2>3, <2>4, <4>2, <4>3
    <3>4. CASE \E q \in Request : GivesUp(q)
      <4>1. PICK q \in Request : GivesUp(q)
        BY <3>4
      <4>2. /\ finished_requests_counter' = finished_requests_counter
            /\ skipped_requests_counter' = skipped_requests_counter + 1
            /\ IsFiniteSet(counting') /\ n' = n + 1
        BY <1>1, <2>1, <4>1, OpenCounts DEF GivesUp
      <4>3. Cardinality(A') = Cardinality(A) + 1 /\ B' = B
        BY <2>6, <4>1
      <4> HIDE DEF n
      <4>4. QED
        BY <2>1, <2>3, <2>4, <4>2, <4>3
    <3>5. CASE Counts
      <4>1. /\ finished_requests_counter' = finished_requests_counter + 1
            /\ skipped_requests_counter' = skipped_requests_counter
            /\ IsFiniteSet(counting') /\ n' = n - 1
        BY <1>1, <2>1, <3>5, OpenCounts DEF Counts, Shifts
      <4>2. A' = A /\ B' = B
        BY <2>7, <3>5 DEF Counts
      <4> HIDE DEF n
      <4>3. QED
        BY <2>1, <2>3, <2>4, <4>1, <4>2
    <3>6. QED
      BY <1>1, <1>3, <3>1, <3>2, <3>3, <3>4, <3>5, CountedSteps DEF Resets
  <2>9. QED
    BY <2>8 DEF A, B, Retiring
<1>4. QED
  BY <1>2, <1>3

LEMMA RetiredStay ==
  ASSUME TypeOK, [Next]_vars, NEW r \in Request, req[r] \in Retired
  PROVE  req'[r] = req[r]
BY CountedSteps DEF Resets, Moves, Counts, Shifts, Uncounted, Sends, Settles, GivesUp, Retired, TaskState, TypeOK

\* While a stage is loaded no sound worker winds down: nothing is skipped or cancelled.
LEMMA NothingCutOff ==
  ASSUME IInv, WholeInv, [Next]_vars, respawned = {}, mpc \in {"put", "poll"}, ~Main,
         NEW r \in Request, req'[r] \in {"cancelling", "cancelled", "skipped"}
  PROVE  req[r] = req'[r]
<1>1. TypeOK /\ request_phase /\ ~cancel_signal
  BY DEF IInv, SignalInv
<1>2. \A w \in Workers : IsAlive(w) => ~Draining(w)
  BY DEF IInv, DoomedInv, Original, OriginalInv, ServingPc, Draining
<1>3. \A q \in Request : req[q] # "cancelling"
  <2> SUFFICES ASSUME NEW q \in Request, req[q] = "cancelling" PROVE FALSE
    OBVIOUS
  <2>1. StageOf(q) = stage
    BY CountedInStage DEF TaskState
  <2>2. QED
    BY <2>1 DEF WholeInv, InState
<1>4. ASSUME NEW w \in Workers, Loop(w) PROVE req[r] = req'[r]
  <2>1. CASE CancelTasks(w)
    BY <1>2, <2>1 DEF CancelTasks, At, Runs, Draining, IsAlive
  <2>2. CASE ~CancelTasks(w)
    BY <1>1, <1>4, <2>2 DEF Loop, Top, Exit, Fetch, FetchUnloadable, FetchNothing, Leave, WindDown,
       Reap, Ack, Hold, Peek, HoldTorn, Count, LoseTasks, reqVars, TypeOK
  <2>3. QED
    BY <2>1, <2>2
<1>5. ASSUME NEW w \in Workers, NEW q \in Request, Task(w, q) PROVE req[r] = req'[r]
  <2>1. ~Cancelled(w, q)
    BY <1>3 DEF Cancelled, Running
  <2>2. ~Skip(w, q)
    BY <1>1, <1>2 DEF Skip, Running, LoopAwaits, IsAlive, MayDispatch
  <2>3. QED
    BY <1>1, <1>5, <2>1, <2>2 DEF Task, Dispatch, Respond, Raise, Finish, TypeOK
<1>6. QED
  BY <1>4, <1>5, EnvironmentRequests, <1>1 DEF Next, vars, reqVars

\* The requests of a stage: StageSize of them.
LEMMA StageRequests ==
  ASSUME TypeOK
  PROVE  /\ IsFiniteSet(InState(stage, ReqState))
         /\ Cardinality(InState(stage, ReqState)) = StageSize
<1>1. InState(stage, ReqState) = {stage} \X (1 .. StageSize)
  BY DEF TypeOK, InState, Request, StageOf
<1>2. IsFiniteSet({stage}) /\ Cardinality({stage}) = 1
  BY FS_Singleton
<1>3. IsFiniteSet(1 .. StageSize) /\ Cardinality(1 .. StageSize) = StageSize
  BY FS_Interval, ConstantsAssumption
<1>4. StageSize \in Nat
  BY ConstantsAssumption
<1>5. /\ IsFiniteSet({stage} \X (1 .. StageSize))
      /\ Cardinality({stage} \X (1 .. StageSize)) = Cardinality({stage}) * Cardinality(1 .. StageSize)
  <2> DEFINE One   == {stage}
             Slots == 1 .. StageSize
  <2>1. IsFiniteSet(One) /\ IsFiniteSet(Slots)
    BY <1>2, <1>3
  <2> HIDE DEF One, Slots
  <2>2. IsFiniteSet(One \X Slots) /\ Cardinality(One \X Slots) = Cardinality(One) * Cardinality(Slots)
    BY <2>1, FS_Product
  <2>3. QED
    BY <2>2 DEF One, Slots
<1>6. Cardinality(InState(stage, ReqState)) = 1 * StageSize
  BY <1>1, <1>2, <1>3, <1>5
<1>7. QED
  BY <1>1, <1>4, <1>5, <1>6

\* The main process finds a stage finished: every request of it is retired.
LEMMA AllRetired ==
  ASSUME TypeOK, CountInv, WholeInv, mpc = "poll", respawned = {}, AllFinished
  PROVE  InState(stage, Retired \ {"cancelled", "skipped"}) = InState(stage, ReqState)
<1> DEFINE All  == InState(stage, ReqState)
           Done == InState(stage, Retired)
<1>1. IsFiniteSet(All) /\ Cardinality(All) = StageSize
  BY StageRequests
<1>2. Done \subseteq All
  BY DEF InState, Retired, ReqState
<1>3. Cardinality(Done) >= StageSize
  <2>1. IsFiniteSet(counting) /\ finished_requests_counter + Cardinality(counting) = Cardinality(Done)
    BY DEF CountInv, Retiring
  <2>2. finished_requests_counter >= StageSize /\ finished_requests_counter \in Nat /\ StageSize \in Nat
    BY ConstantsAssumption DEF AllFinished, TypeOK
  <2> HIDE DEF Done
  <2>3. QED
    BY <2>1, <2>2, FS_CardinalityType
<1>4. /\ Cardinality(Done) <= Cardinality(All)
      /\ Cardinality(Done) = Cardinality(All) => Done = All
      /\ Cardinality(Done) \in Nat
  <2> HIDE DEF All, Done
  <2>1. IsFiniteSet(Done)
    BY <1>1, <1>2, FS_Subset
  <2>2. QED
    BY <1>1, <1>2, <2>1, FS_Subset, FS_CardinalityType
<1>5. Done = All
  <2> HIDE DEF All, Done
  <2>1. StageSize \in Nat
    BY ConstantsAssumption
  <2>2. QED
    BY <1>1, <1>3, <1>4, <2>1
<1>6. InState(stage, {"cancelling", "cancelled", "skipped"}) = {}
  BY DEF WholeInv
<1>7. QED
  BY <1>2, <1>5, <1>6 DEF InState, Retired

LEMMA WholeStep ==
  ASSUME IInv, BornInv, CountInv, WholeInv, [Next]_vars
  PROVE  WholeInv'
<1> SUFFICES ASSUME respawned' = {} PROVE WholeInv'
  BY DEF WholeInv
<1>1. TypeOK /\ respawned = {}
  BY StageStays DEF IInv
<1>2. ASSUME mpc' \in {"put", "poll"}
      PROVE  InState(stage, {"cancelling", "cancelled", "skipped"})' = {}
  <2>1. CASE mpc \notin {"put", "poll"}
    <3>1. ResetCounters
      BY <1>2, <2>1, OnlyMain DEF Next, Main, BeginStage, PutRequest, Poll, PublishBoundary,
         SetCancel, ClearPhase, Rendezvous, ForceStop, TerminatePending, Drain, Release,
         RespawnWorkers, EndStage, SetLastPhase, SetStop, StopWorkers, Goto, mainVars
    <3>2. req' = req /\ stage' = stage /\ mpc = "reset"
      BY <3>1 DEF ResetCounters, reqVars
    <3>3. QED
      BY <3>2 DEF BornInv, InState
  <2>2. CASE mpc \in {"put", "poll"}
    <3>1. stage' = stage
      BY <1>1, <2>2, StageStays
    <3>2. InState(stage, {"cancelling", "cancelled", "skipped"}) = {}
      BY <1>1, <2>2 DEF WholeInv
    <3>3. ASSUME NEW r \in Request, req'[r] \in {"cancelling", "cancelled", "skipped"}
          PROVE  req[r] = req'[r]
      <4>1. CASE Main
        BY <1>1, <2>2, <3>3, <4>1 DEF Main, BeginStage, ResetCounters, PutRequest, Poll, PublishBoundary,
           SetCancel, ClearPhase, Rendezvous, ForceStop, TerminatePending, Drain, Release,
           RespawnWorkers, EndStage, SetLastPhase, SetStop, StopWorkers, reqVars, TypeOK
      <4>2. CASE ~Main
        BY <1>1, <2>2, <3>3, <4>2, NothingCutOff
      <4>3. QED
        BY <4>1, <4>2
    <3>4. QED
      BY <3>1, <3>2, <3>3 DEF InState
  <2>3. QED
    BY <2>1, <2>2
<1>3. ASSUME mpc' \notin {"begin", "reset", "put", "poll"}, stage_status' = "COMPLETED"
      PROVE  InState(stage, Retired \ {"cancelled", "skipped"})' = InState(stage, ReqState)'
  <2>1. stage' = stage
    BY <1>1, <1>3, StageStays
  <2>2. \A r \in Request : req[r] \in Retired => req'[r] = req[r]
    BY <1>1, RetiredStay
  <2>3. \A r \in Request : req[r] \in ReqState /\ req'[r] \in ReqState
    BY <1>1, TypeOKStep DEF TypeOK
  <2>4. InState(stage, Retired \ {"cancelled", "skipped"}) = InState(stage, ReqState)
    <3>1. CASE mpc = "poll" /\ AllFinished
      BY <1>1, <3>1, AllRetired
    <3>2. CASE stage_status = "COMPLETED" /\ mpc \notin {"begin", "reset", "put", "poll"}
      BY <1>1, <3>2 DEF WholeInv
    <3>3. QED
      BY <1>3, <3>1, <3>2, OnlyMain DEF Next, Main, BeginStage, ResetCounters, PutRequest, Poll, PollExit,
         PublishBoundary, SetCancel, ClearPhase, Rendezvous, ForceStop, TerminatePending, Drain, Release,
         RespawnWorkers, EndStage, SetLastPhase, SetStop, StopWorkers, Goto, mainVars
  <2>5. \A r \in Request : StageOf(r) = stage => req[r] \in Retired \ {"cancelled", "skipped"}
    BY <2>3, <2>4 DEF InState
  <2>6. QED
    BY <2>1, <2>2, <2>3, <2>5 DEF InState
<1>4. QED
  BY <1>2, <1>3 DEF WholeInv

LEMMA AccountInit == Init => AccountInv
<1> SUFFICES ASSUME Init PROVE AccountInv
  OBVIOUS
<1>1. BornInv
  BY DEF Init, BornInv
<1>2. CountingInv /\ ClosedInv /\ CountInv /\ WholeInv
  BY DEF Init, CountingInv, ClosedInv, CountInv, WholeInv
<1>3. QED
  BY <1>1, <1>2 DEF AccountInv

LEMMA AccountInvariance ==
  ASSUME "torn" \notin Faults
  PROVE  Spec => []AccountInv
<1>1. IInv /\ AccountInv /\ [Next]_vars => AccountInv'
  BY CountingStep, BornStep, ClosedStep, CountStep, WholeStep DEF AccountInv, IInv
<1>2. QED
  BY <1>1, AccountInit, Invariance, PTL DEF Spec

(* Until a worker is replaced the counters of a stage balance, whatever    *)
(* ends it and whoever dies in it: every retired request was counted once, *)
(* when it was given up as skipped and then as finished, but for one of    *)
(* each worker that is between the two or died there (schedule_client and  *)
(* StageContext).                                                          *)
THEOREM CountersReconciled ==
  ASSUME "torn" \notin Faults
  PROVE  Spec => []CountersReconcile
<1>1. AccountInv => CountersReconcile
  BY DEF AccountInv, CountingInv, CountInv, Retiring, CountersReconcile, Settled
<1>2. QED
  BY <1>1, AccountInvariance, PTL

(* Until a worker is replaced a stage reported COMPLETED has sent all of   *)
(* its requests and seen each of them end: none was lost with its worker,  *)
(* skipped or cut off (run_stage).                                         *)
THEOREM CompletedRetired ==
  ASSUME "torn" \notin Faults
  PROVE  Spec => []CompletedMeansRetired
<1>1. AccountInv => CompletedMeansRetired
  BY DEF AccountInv, WholeInv, CompletedMeansRetired, FinalStatus
<1>2. QED
  BY <1>1, AccountInvariance, PTL
-----------------------------------------------------------------------------
(* The barrier itself: a member has either arrived or may be busy, and Seal *)
(* keeps those that arrived.                                                *)

\* Between two stages nobody has work left, in whatever implements the barrier.
THEOREM QuietHolds == Barrier!Spec => []Barrier!Quiet
<1>1. Barrier!Init => Barrier!QuietInv
  BY DEF Barrier!Init, Barrier!QuietInv
<1>2. Barrier!QuietInv /\ [Barrier!Next]_(Barrier!vars) => Barrier!QuietInv'
  <2> SUFFICES ASSUME Barrier!QuietInv, [Barrier!Next]_(Barrier!vars) PROVE Barrier!QuietInv'
    OBVIOUS
  <2> USE DEF Barrier!QuietInv
  <2>1. CASE Barrier!Open \/ Barrier!Close \/ Barrier!Seal
    BY <2>1 DEF Barrier!Open, Barrier!Close, Barrier!Seal
  <2>2. CASE \E w \in Workers : Barrier!Start(w) \/ Barrier!Finish(w) \/ Barrier!Arrive(w)
    BY <2>2 DEF Barrier!Start, Barrier!Finish, Barrier!Arrive
  <2>3. CASE \E W \in SUBSET Workers : Barrier!Depart(W)
    BY <2>3 DEF Barrier!Depart
  <2>4. CASE UNCHANGED Barrier!vars
    BY <2>4 DEF Barrier!vars
  <2>5. QED
    BY <2>1, <2>2, <2>3, <2>4 DEF Barrier!Next
<1>3. Barrier!QuietInv => Barrier!Quiet
  BY DEF Barrier!QuietInv, Barrier!Quiet
<1>4. QED
  BY <1>1, <1>2, <1>3, PTL DEF Barrier!Spec

(* The stage protocol implements the stage barrier: every step of the main *)
(* process, of a worker or of the environment is a step of the barrier or  *)
(* leaves it alone.                                                        *)

BarrierStep == [Barrier!Next]_(Barrier!vars)

\* No step of the barrier.
LEMMA Stutter ==
  ASSUME UNCHANGED <<BarrierPhase, BarrierRound, Members, Arrived, Busy>>
  PROVE  BarrierStep
BY DEF BarrierStep, Barrier!vars

\* A worker's tasks depend on which requests are tasks, not on their states.
LEMMA SameTasks ==
  ASSUME TypeOK, owner' = owner,
         \A r \in Request : (req'[r] \in TaskState) <=> (req[r] \in TaskState)
  PROVE  \A w \in Workers : Tasks(w)' = Tasks(w)
BY DEF Tasks

LEMMA BarrierInit == Init => Barrier!Init
<1> SUFFICES ASSUME Init PROVE Barrier!Init
  OBVIOUS
<1>1. BarrierPhase = "closed" /\ BarrierRound = 0
  BY DEF Init, BarrierPhase, BarrierRound
<1>2. Members = Workers
  BY DEF Init, Members, Original, IsAlive
<1>3. Arrived = Workers
  BY <1>1, <1>2 DEF Init, Arrived
<1>4. Busy = {}
  BY DEF Init, Busy, Tasks, TaskState
<1>5. QED
  BY <1>1, <1>2, <1>3, <1>4 DEF Barrier!Init

\* A group of workers leaves with its tasks.
LEMMA DepartStep ==
  ASSUME NEW W \in SUBSET Workers,
         UNCHANGED <<BarrierPhase, BarrierRound, stage_boundary_seq>>,
         Members' = Members \ W,
         \A w \in Workers \ W : /\ stage_done_counter'[w] = stage_done_counter[w]
                                /\ Tasks(w)' = Tasks(w)
  PROVE  BarrierStep
<1>1. Arrived' = Arrived \ W
  BY DEF Arrived, Members
<1>2. Busy' = Busy \ W
  BY DEF Busy, Members
<1>3. Barrier!Depart(W)
  BY <1>1, <1>2 DEF Barrier!Depart
<1>4. QED
  BY <1>3 DEF BarrierStep, Barrier!Next

LEMMA MainBarrier ==
  ASSUME "torn" \notin Faults, IInv, Main
  PROVE  BarrierStep
<1> USE DEF IInv
<1>1. CASE BeginStage
  <2>1. UNCHANGED <<wpc, doomed, respawned, owner, req, stage_done_counter>>
    BY <1>1 DEF BeginStage, workerVars, reqVars
  <2>2. Members' = Members /\ Busy' = Busy
    BY <2>1 DEF Members, Original, IsAlive, Busy, Tasks
  <2>3. BarrierPhase = "closed" /\ BarrierPhase' = "open"
    BY <1>1 DEF BeginStage, Goto, BarrierPhase
  <2>4. BarrierRound < Stages /\ BarrierRound' = BarrierRound + 1
    BY <1>1, ConstantsAssumption DEF BeginStage, Goto, BarrierRound, TypeOK
  <2>5. Arrived' = {}
    BY <2>3 DEF Arrived
  <2>6. Barrier!Open
    BY <2>2, <2>3, <2>4, <2>5 DEF Barrier!Open
  <2>7. QED
    BY <2>6 DEF BarrierStep, Barrier!Next
<1>2. CASE ResetCounters \/ PutRequest \/ Poll \/ PublishBoundary
  <2>1. UNCHANGED <<wpc, doomed, respawned, owner, stage_done_counter, stage>>
    BY <1>2 DEF ResetCounters, PutRequest, Poll, PublishBoundary, workerVars, reqVars
  <2>2. \A r \in Request : (req'[r] \in TaskState) <=> (req[r] \in TaskState)
    <3>1. CASE PutRequest
      <4>1. PICK i \in 1 .. StageSize :
              req[<<stage, i>>] = "unborn" /\ req' = [req EXCEPT ![<<stage, i>>] = "queued"]
        BY <3>1 DEF PutRequest
      <4>2. \A r \in Request : req'[r] = IF r = <<stage, i>> THEN "queued" ELSE req[r]
        BY <4>1 DEF TypeOK
      <4>3. QED
        BY <4>1, <4>2 DEF TaskState
    <3>2. CASE ~PutRequest
      BY <1>2, <3>2 DEF ResetCounters, Poll, PublishBoundary, reqVars
    <3>3. QED
      BY <3>1, <3>2
  <2>3. BarrierPhase = "open" /\ BarrierPhase' = "open" /\ BarrierRound' = BarrierRound
    BY <1>2, <2>1 DEF ResetCounters, PutRequest, Poll, PublishBoundary, Goto, BarrierPhase, BarrierRound
  <2>4. Members' = Members /\ \A w \in Workers : Tasks(w)' = Tasks(w)
    BY <2>1, <2>2, SameTasks DEF Members, Original, IsAlive
  <2>5. Arrived' = Arrived /\ Busy' = Busy
    BY <2>3, <2>4 DEF Arrived, Busy, Members
  <2>6. QED
    BY <2>3, <2>4, <2>5, Stutter
<1>3. CASE SetCancel
  <2>1. UNCHANGED <<wpc, doomed, respawned, owner, req, stage_done_counter, stage, stage_boundary_seq>>
    BY <1>3 DEF SetCancel, workerVars, reqVars
  <2>2. Members' = Members /\ Busy' = Busy
    BY <2>1 DEF Members, Original, IsAlive, Busy, Tasks
  <2>3. BarrierPhase = "open" /\ BarrierPhase' = "closing" /\ BarrierRound' = BarrierRound
    BY <1>3, <2>1 DEF SetCancel, Goto, BarrierPhase, BarrierRound
  <2>4. \A w \in Members : stage_done_counter[w] # stage_boundary_seq
    BY <1>3 DEF SetCancel, Members, OriginalInv, TypeOK
  <2>5. Arrived' = Arrived
    BY <2>1, <2>2, <2>3, <2>4 DEF Arrived
  <2>6. Barrier!Close
    BY <2>2, <2>3, <2>5 DEF Barrier!Close
  <2>7. QED
    BY <2>6 DEF BarrierStep, Barrier!Next
<1>4. CASE ClearPhase \/ ForceStop \/ Drain \/ Release \/ SetLastPhase \/ SetStop
  <2>1. UNCHANGED <<wpc, doomed, respawned, owner, stage_done_counter, stage, stage_boundary_seq>>
    <3>1. CASE ForceStop
      BY <3>1 DEF ForceStop, mainVars, workerVars, reqVars
    <3>2. CASE ~ForceStop
      BY <1>4, <3>2 DEF ClearPhase, Drain, Release, SetLastPhase, SetStop, workerVars, reqVars, signalVars
    <3>3. QED
      BY <3>1, <3>2
  <2>2. \A r \in Request : (req'[r] \in TaskState) <=> (req[r] \in TaskState)
    BY <1>4 DEF ClearPhase, ForceStop, Drain, Release, SetLastPhase, SetStop, reqVars, TaskState, TypeOK
  <2>3. BarrierPhase' = BarrierPhase /\ BarrierRound' = BarrierRound
    <3>1. CASE ForceStop
      BY <3>1 DEF ForceStop, mainVars, BarrierPhase, BarrierRound
    <3>2. CASE ClearPhase
      BY <3>2 DEF ClearPhase, Goto, BarrierPhase, BarrierRound
    <3>3. CASE Drain \/ Release
      BY <3>3 DEF Drain, Release, Goto, BarrierPhase, BarrierRound
    <3>4. CASE SetLastPhase \/ SetStop
      BY <3>4 DEF SetLastPhase, SetStop, Goto, BarrierPhase, BarrierRound
    <3>5. QED
      BY <1>4, <3>1, <3>2, <3>3, <3>4
  <2>4. Members' = Members /\ \A w \in Workers : Tasks(w)' = Tasks(w)
    BY <2>1, <2>2, SameTasks DEF Members, Original, IsAlive
  <2>5. Arrived' = Arrived /\ Busy' = Busy
    BY <2>1, <2>3, <2>4 DEF Arrived, Busy, Members
  <2>6. QED
    BY <2>3, <2>4, <2>5, Stutter
<1>5. CASE Rendezvous \/ TerminatePending
  <2>1. UNCHANGED <<wpc, respawned, owner, req, stage_done_counter, stage, stage_boundary_seq>>
    BY <1>5 DEF Rendezvous, TerminatePending, workerVars, reqVars, signalVars
  <2>2. mpc = "rendezvous" /\ mpc' = "drain" /\ doomed' = doomed \cup Pending
    BY <1>5 DEF Rendezvous, TerminatePending, Goto, workerVars
  <2>3. \A w \in Members : (w \notin Pending) <=> (stage_done_counter[w] = stage_boundary_seq)
    <3>1. SUFFICES ASSUME NEW w \in Members
                   PROVE  (w \notin Pending) <=> (stage_done_counter[w] = stage_boundary_seq)
      OBVIOUS
    <3>2. w \in Workers /\ Original(w) /\ IsAlive(w)
      BY DEF Members, Original
    <3>3. \/ stage_done_counter[w] < stage_boundary_seq
          \/ stage_done_counter[w] = stage_boundary_seq
      BY <2>2, <3>2 DEF OriginalInv
    <3>4. stage_done_counter[w] \in Nat /\ stage_boundary_seq \in Nat
      BY <3>2 DEF TypeOK
    <3>5. QED
      BY <3>2, <3>3, <3>4 DEF Pending
  <2>4. BarrierPhase = "closing" /\ BarrierPhase' = "closed" /\ BarrierRound' = BarrierRound
    BY <2>1, <2>2 DEF BarrierPhase, BarrierRound
  <2>5. Members' = Members \ Pending
    BY <2>1, <2>2 DEF Members, Original, IsAlive
  <2>6. Members' = Arrived /\ Arrived' = Arrived
    BY <2>1, <2>3, <2>4, <2>5 DEF Arrived
  <2>7. Busy' = Busy \cap Arrived
    BY <2>1, <2>5, <2>6 DEF Busy, Tasks
  <2>8. Barrier!Seal
    BY <2>4, <2>6, <2>7 DEF Barrier!Seal
  <2>9. QED
    BY <2>8 DEF BarrierStep, Barrier!Next
<1>6. CASE RespawnWorkers
  <2> DEFINE W == {w \in Workers : NeedsReplacing(w)}
  <2>1. UNCHANGED <<owner, stage, stage_boundary_seq>>
    BY <1>6 DEF RespawnWorkers, signalVars
  <2>2. Members' = Members \ W
    BY <1>6 DEF RespawnWorkers, Members, Original, IsAlive
  <2>3. ASSUME NEW w \in Workers \ W
        PROVE  stage_done_counter'[w] = stage_done_counter[w] /\ Tasks(w)' = Tasks(w)
    BY <1>6, <2>1, <2>3 DEF RespawnWorkers, LoseTasks, Tasks, TypeOK
  <2>4. UNCHANGED <<BarrierPhase, BarrierRound>>
    BY <1>6, <2>1 DEF RespawnWorkers, Goto, BarrierPhase, BarrierRound
  <2>5. QED
    BY <2>1, <2>2, <2>3, <2>4, DepartStep
<1>7. CASE EndStage
  <2>1. UNCHANGED <<wpc, doomed, respawned, owner, req, stage_done_counter, stage_boundary_seq>>
    BY <1>7 DEF EndStage, workerVars, reqVars, signalVars
  <2>2. BarrierPhase' = BarrierPhase /\ BarrierRound' = BarrierRound
    <3>1. CASE RunOver
      BY <1>7, <3>1 DEF EndStage, Goto, BarrierPhase, BarrierRound
    <3>2. CASE ~RunOver
      BY <1>7, <3>2 DEF EndStage, Goto, BarrierPhase, BarrierRound, TypeOK
    <3>3. QED
      BY <3>1, <3>2
  <2>3. Members' = Members /\ Busy' = Busy /\ Arrived' = Arrived
    BY <2>1, <2>2 DEF Members, Original, IsAlive, Busy, Tasks, Arrived
  <2>4. QED
    BY <2>2, <2>3, Stutter
<1>8. CASE StopWorkers
  <2>1. UNCHANGED <<wpc, respawned, owner, req, stage_done_counter, stage, stage_boundary_seq>>
    BY <1>8 DEF StopWorkers, signalVars, reqVars
  <2>2. Members' = Members \ Stragglers
    BY <1>8, <2>1 DEF StopWorkers, Members, Original, IsAlive
  <2>3. UNCHANGED <<BarrierPhase, BarrierRound>>
    BY <1>8, <2>1 DEF StopWorkers, Goto, BarrierPhase, BarrierRound
  <2>4. \A w \in Workers : Tasks(w)' = Tasks(w)
    BY <2>1 DEF Tasks
  <2>5. QED
    BY <2>1, <2>2, <2>3, <2>4, DepartStep DEF Stragglers
<1>9. QED
  BY <1>1, <1>2, <1>3, <1>4, <1>5, <1>6, <1>7, <1>8 DEF Main

\* What a step of a worker leaves of the barrier's other variables.
LEMMA WorkersKeepMain ==
  ASSUME UNCHANGED <<mpc, stage, stage_boundary_seq>>
  PROVE  UNCHANGED <<BarrierPhase, BarrierRound, stage_boundary_seq>>
BY DEF BarrierPhase, BarrierRound

LEMMA LoopBarrier ==
  ASSUME "torn" \notin Faults, IInv, NEW w \in Workers, Loop(w)
  PROVE  BarrierStep
<1> USE DEF IInv
<1>1. UNCHANGED <<mpc, stage, stage_boundary_seq, doomed, respawned>>
  BY OnlyMain
<1>2. UNCHANGED <<BarrierPhase, BarrierRound, stage_boundary_seq>>
  BY <1>1, WorkersKeepMain
<1>3. CASE Exit(w)
  <2>1. UNCHANGED <<owner, stage_done_counter>> /\ wpc' = [wpc EXCEPT ![w] = "exited"]
    BY <1>3 DEF Exit, Move
  <2>2. Members' = Members \ {w}
    BY <1>1, <2>1 DEF Members, Original, IsAlive, TypeOK
  <2>3. ASSUME NEW v \in Workers \ {w} PROVE Tasks(v)' = Tasks(v)
    BY <1>3, <2>1, <2>3 DEF Exit, LoseTasks, Tasks, TypeOK
  <2>4. QED
    BY <1>2, <2>1, <2>2, <2>3, DepartStep
<1>4. CASE ~Exit(w)
  <2>1. Members' = Members
    <3>1. ASSUME NEW v \in Workers PROVE IsAlive(v)' <=> IsAlive(v)
      <4>1. CASE v # w
        BY <4>1, LoopMovesOneWorker DEF IsAlive
      <4>2. CASE v = w
        <5>1. CASE Count(w)
          BY <4>2, <5>1 DEF Count, Move, NextTurn, TypeOK, IsAlive
        <5>2. CASE ~Count(w)
          BY <1>4, <4>2, <5>2 DEF Loop, Top, Fetch, FetchUnloadable, FetchNothing, Leave, WindDown,
             CancelTasks, Reap, Ack, Hold, Peek, HoldTorn, Move, At, Runs, NextTurn, TypeOK, IsAlive
        <5>3. QED
          BY <5>1, <5>2
      <4>3. QED
        BY <4>1, <4>2
    <3>2. QED
      BY <1>1, <3>1 DEF Members, Original
  <2>2. CASE Fetch(w)
    <3>1. stage_done_counter' = stage_done_counter
      BY <2>2 DEF Fetch
    <3>2. Arrived' = Arrived
      BY <1>2, <2>1, <3>1 DEF Arrived
    <3>3. PICK r \in Request : /\ IsNext(r)
                              /\ req' = [req EXCEPT ![r] = "waiting"]
                              /\ owner' = [owner EXCEPT ![r] = w]
      BY <2>2 DEF Fetch
    <3>4. req[r] = "queued"
      BY <3>3 DEF IsNext, Queued
    <3>5. Tasks(w)' = Tasks(w) \cup {r}
      BY <3>3 DEF Tasks, TaskState, TypeOK
    <3>6. ASSUME NEW v \in Workers, v # w PROVE Tasks(v)' = Tasks(v)
      BY <3>3, <3>4, <3>6 DEF Tasks, TaskState, TypeOK
    <3>7. CASE w \in Members
      <4>1. Busy' = Busy \cup {w}
        BY <2>1, <3>5, <3>6, <3>7 DEF Busy, Members
      <4>2. wpc[w] = "fetch" /\ OriginalInv(w)
        BY <2>2, <3>7 DEF Fetch, Runs, At, Members
      <4>3. mpc \in {"put", "poll", "publish", "cancel", "clear", "rendezvous"}
        BY <3>4, <4>2 DEF QueueInv, OriginalInv
      <4>4. BarrierPhase # "closed" /\ w \notin Arrived
        BY <4>2, <4>3 DEF BarrierPhase, Arrived, OriginalInv, TypeOK
      <4>5. Barrier!Start(w)
        BY <1>2, <2>1, <3>2, <3>7, <4>1, <4>4 DEF Barrier!Start
      <4>6. QED
        BY <4>5 DEF BarrierStep, Barrier!Next
    <3>8. CASE w \notin Members
      <4>1. Busy' = Busy
        BY <2>1, <3>6, <3>8 DEF Busy, Members
      <4>2. QED
        BY <1>2, <2>1, <3>2, <4>1, Stutter
    <3>9. QED
      BY <3>7, <3>8
  <2>3. CASE Ack(w)
    <3>1. UNCHANGED reqVars /\ stage_done_counter' = [stage_done_counter EXCEPT ![w] = stage_boundary_seq]
          /\ wpc[w] = "ack"
      BY <2>3 DEF Ack, At, AckValue
    <3>2. Busy' = Busy
      BY <2>1, <3>1 DEF Busy, Tasks, reqVars
    <3>3. CASE w \in Members /\ BarrierPhase = "closing"
      <4>1. Arrived' = Arrived \cup {w}
        BY <1>2, <2>1, <3>1, <3>3 DEF Arrived, Members, TypeOK
      <4>2. w \notin Busy
        BY <3>1 DEF Busy, WoundDownInv
      <4>3. Barrier!Arrive(w)
        BY <1>2, <2>1, <3>2, <3>3, <4>1, <4>2 DEF Barrier!Arrive
      <4>4. QED
        BY <4>3 DEF BarrierStep, Barrier!Next
    <3>4. CASE w \in Members /\ BarrierPhase = "closed"
      <4>1. mpc \in {"stop", "join", "done"}
        BY <3>1, <3>4 DEF Members, OriginalInv, BarrierPhase, TypeOK, MainPc, ServingPc
      <4>2. stage_done_counter[w] = stage_boundary_seq
        BY <3>4, <4>1 DEF Members, OriginalInv
      <4>3. stage_done_counter' = stage_done_counter
        BY <3>1, <4>2 DEF TypeOK
      <4>4. Arrived' = Arrived
        BY <1>2, <2>1, <4>3 DEF Arrived
      <4>5. QED
        BY <1>2, <2>1, <3>2, <4>4, Stutter
    <3>5. CASE w \notin Members \/ BarrierPhase = "open"
      <4>1. Arrived' = Arrived
        BY <1>2, <2>1, <3>1, <3>5 DEF Arrived, Members, TypeOK
      <4>2. QED
        BY <1>2, <2>1, <3>2, <4>1, Stutter
    <3>6. QED
      BY <3>3, <3>4, <3>5 DEF BarrierPhase
  <2>4. CASE ~Fetch(w) /\ ~Ack(w)
    <3>1. stage_done_counter' = stage_done_counter
      BY <1>4, <2>4 DEF Loop, Top, FetchUnloadable, FetchNothing, Leave, WindDown, CancelTasks,
         Reap, Hold, Peek, HoldTorn, Count
    <3>2. owner' = owner
      BY <1>4, <2>4 DEF Loop, Top, FetchUnloadable, FetchNothing, Leave, WindDown, CancelTasks,
         Reap, Hold, Peek, HoldTorn, Count, reqVars
    <3>3. \A r \in Request : (req'[r] \in TaskState) <=> (req[r] \in TaskState)
      BY <1>4, <2>4 DEF Loop, Top, FetchUnloadable, FetchNothing, Leave, WindDown, CancelTasks,
         Reap, Hold, Peek, HoldTorn, Count, reqVars, TypeOK, TaskState, IsNext, Queued, Tasks
    <3>4. \A v \in Workers : Tasks(v)' = Tasks(v)
      BY <3>2, <3>3, SameTasks
    <3>5. Arrived' = Arrived /\ Busy' = Busy
      BY <1>2, <2>1, <3>1, <3>4 DEF Arrived, Busy, Members
    <3>6. QED
      BY <1>2, <2>1, <3>5, Stutter
  <2>5. QED
    BY <2>2, <2>3, <2>4
<1>5. QED
  BY <1>3, <1>4

LEMMA TaskBarrier ==
  ASSUME IInv, NEW w \in Workers, NEW q \in Request, Task(w, q)
  PROVE  BarrierStep
<1> USE DEF IInv
<1>1. UNCHANGED <<mpc, stage, stage_boundary_seq, doomed, respawned, wpc, stage_done_counter, owner>>
  BY OnlyMain, TaskMovesNoWorker
<1>2. UNCHANGED <<BarrierPhase, BarrierRound, Members, Arrived>>
  BY <1>1 DEF BarrierPhase, BarrierRound, Members, Original, IsAlive, Arrived
<1>3. ASSUME NEW v \in Workers, v # w PROVE Tasks(v)' = Tasks(v)
  BY <1>1, <1>3, TaskRequests DEF Tasks
<1>4. Tasks(w)' \subseteq Tasks(w)
  BY <1>1, TaskRequests DEF Tasks, TaskState, Retired
<1>5. CASE w \in Busy /\ Tasks(w)' = {}
  <2>1. Busy' = Busy \ {w}
    BY <1>2, <1>3, <1>5 DEF Busy, Members
  <2>2. Barrier!Finish(w)
    BY <1>2, <2>1 DEF Barrier!Finish
  <2>3. QED
    BY <2>2 DEF BarrierStep, Barrier!Next
<1>6. CASE ~(w \in Busy /\ Tasks(w)' = {})
  <2>1. Busy' = Busy
    BY <1>2, <1>3, <1>4, <1>6 DEF Busy, Members
  <2>2. QED
    BY <1>2, <2>1, Stutter
<1>7. QED
  BY <1>5, <1>6

LEMMA EnvironmentBarrier ==
  ASSUME IInv, Environment
  PROVE  BarrierStep
<1> USE DEF IInv
<1>1. UNCHANGED <<mpc, stage, stage_boundary_seq, doomed, respawned>>
  BY OnlyMain
<1>2. UNCHANGED <<BarrierPhase, BarrierRound, stage_boundary_seq>>
  BY <1>1, WorkersKeepMain
<1>3. ASSUME NEW w \in Workers, Die(w) PROVE BarrierStep
  <2>1. UNCHANGED <<owner, stage_done_counter>> /\ wpc' = [wpc EXCEPT ![w] = "dead"]
    BY <1>3 DEF Die
  <2>2. Members' = Members \ {w}
    BY <1>1, <2>1 DEF Members, Original, IsAlive, TypeOK
  <2>3. ASSUME NEW v \in Workers \ {w} PROVE Tasks(v)' = Tasks(v)
    BY <1>3, <2>1, <2>3 DEF Die, LoseTasks, Tasks, TypeOK
  <2>4. QED
    BY <1>2, <2>1, <2>2, <2>3, DepartStep
<1>4. ASSUME NEW w \in Workers, Wedge(w) PROVE BarrierStep
  <2>1. UNCHANGED <<req, owner, stage_done_counter>> /\ wpc' = [wpc EXCEPT ![w] = "wedged"] /\ IsAlive(w)
    BY <1>4 DEF Wedge, Move, reqVars, LoopAwaits, IsAlive
  <2>2. Members' = Members
    BY <1>1, <2>1 DEF Members, Original, IsAlive, TypeOK
  <2>3. Arrived' = Arrived /\ Busy' = Busy
    BY <1>2, <2>1, <2>2 DEF Arrived, Busy, Tasks
  <2>4. QED
    BY <1>2, <2>2, <2>3, Stutter
<1>5. CASE Interrupt \/ OpenBreaker
  <2>1. UNCHANGED <<wpc, req, owner, stage_done_counter>>
    BY <1>5 DEF Interrupt, OpenBreaker, workerVars, reqVars
  <2>2. Members' = Members /\ Arrived' = Arrived /\ Busy' = Busy
    BY <1>1, <1>2, <2>1 DEF Members, Original, IsAlive, Arrived, Busy, Tasks
  <2>3. QED
    BY <1>2, <2>2, Stutter
<1>6. QED
  BY <1>3, <1>4, <1>5 DEF Environment, Terminated, Crash

(* The stage protocol of the code (run_stage, _teardown_stage, Worker.loop) *)
(* implements the stage barrier for its original workers, for every number  *)
(* of workers, stages, requests and failures.                               *)
THEOREM BarrierImplemented ==
  ASSUME "torn" \notin Faults
  PROVE  Spec => ImplementsBarrier
<1>1. IInv /\ [Next]_vars => BarrierStep
  <2> SUFFICES ASSUME IInv, [Next]_vars PROVE BarrierStep
    OBVIOUS
  <2>1. CASE UNCHANGED vars
    <3>1. UNCHANGED <<mpc, stage, stage_boundary_seq, doomed, respawned, wpc, req, owner, stage_done_counter>>
      BY <2>1 DEF vars, mainVars, signalVars, workerVars, reqVars
    <3>2. UNCHANGED <<BarrierPhase, BarrierRound, Members, Arrived, Busy>>
      BY <3>1 DEF BarrierPhase, BarrierRound, Members, Original, IsAlive, Arrived, Busy, Tasks
    <3>3. QED
      BY <3>2, Stutter
  <2>2. QED
    BY <2>1, MainBarrier, LoopBarrier, TaskBarrier, EnvironmentBarrier DEF Next
<1>2. QED
  BY <1>1, BarrierInit, Invariance, PTL DEF Spec, ImplementsBarrier, Barrier!Spec, BarrierStep

\* Between two stages no worker that has been there from the start still has a
\* task: nothing of a stage is sent while the next one is being prepared.
COROLLARY QuietBetweenStages ==
  ASSUME "torn" \notin Faults
  PROVE  Spec => []Barrier!Quiet
<1>1. Spec => Barrier!Spec
  BY BarrierImplemented DEF ImplementsBarrier
<1>2. Barrier!Spec => []Barrier!Quiet
  BY QuietHolds
<1>3. QED
  BY <1>1, <1>2, PTL
=============================================================================
