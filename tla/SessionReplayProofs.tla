------------------------- MODULE SessionReplayProofs -------------------------
(***************************************************************************)
(* Proofs about session replay, for every set of graphs, of sessions and   *)
(* of workers: its types, that a request is sent only when its predecessors*)
(* have answered, that a failed session sends nothing more, that a worker  *)
(* forgets a session with its last event, and that what is reported of a   *)
(* session is true.                                                        *)
(***************************************************************************)
EXTENDS SessionReplay, FiniteSetTheorems, TLAPS

(* Lemmas about the operators *)

\* The events of a session are those whose first component it is.
LEMMA OfMember ==
  ASSUME NEW x \in ID
  PROVE  /\ x[1] \in Session /\ x[2] \in Event
         /\ \A s \in Session : x \in Of(s) <=> x[1] = s
BY DEF ID, Of

\* Sessions share no event, and all events are in ID.
LEMMA OfDisjoint ==
  ASSUME NEW s \in Session
  PROVE  /\ Of(s) \subseteq ID
         /\ \A t \in Session : t # s => Of(s) \cap Of(t) = {}
BY DEF ID, Of

\* Predecessors belong to the same session.
LEMMA PredsInSession ==
  ASSUME NEW x \in ID
  PROVE  PredsOf(x) \subseteq Of(x[1])
BY OfMember, SessionAssumption DEF PredsOf, Of

\* The number of events a failure takes to be cancelled is an integer.
LEMMA CancelledIsInt ==
  ASSUME NEW s, NEW c
  PROVE  Cardinality(Event) - Cardinality(DoneBy(s, c)) - 1 \in Int
<1>1. DoneBy(s, c) \subseteq Event
  BY DEF DoneBy
<1>2. Cardinality(DoneBy(s, c)) \in Nat /\ Cardinality(Event) \in Nat
  BY <1>1, FS_Subset, FS_CardinalityType, SessionAssumption
<1> QED
  BY <1>2

\* The sessions a stage takes are the ones the cursor passes.
LEMMA SliceFacts ==
  ASSUME session_cursor \in 0 .. Sessions
  PROVE  LET n == Cardinality(Slice(NumSessions)) IN
         /\ n \in Nat
         /\ Slice(NumSessions) = session_cursor + 1 .. session_cursor + n
         /\ session_cursor + n <= Sessions
<1> DEFINE last == IF session_cursor + NumSessions <= Sessions
                   THEN session_cursor + NumSessions ELSE Sessions
<1>1. /\ last \in Int /\ session_cursor \in Int
      /\ session_cursor <= last /\ last <= Sessions
  BY SessionAssumption
<1>2. Slice(NumSessions) = session_cursor + 1 .. last
  BY <1>1, SessionAssumption DEF Slice, Session
<1> HIDE DEF last
<1>3. Cardinality(session_cursor + 1 .. last) = last - session_cursor
  <2>1. Cardinality(session_cursor + 1 .. last)
          = IF session_cursor + 1 > last THEN 0 ELSE last - (session_cursor + 1) + 1
    BY <1>1, session_cursor + 1 \in Int, FS_Interval
  <2> QED
    BY <1>1, <2>1
<1> QED
  BY <1>1, <1>2, <1>3
-----------------------------------------------------------------------------
(* Type correctness *)

LEMMA TypeInit == Init => TypeOK
BY SessionAssumption DEF Init, TypeOK, SessionState, Fresh, EvState, StageStatus, Notice, Metric, ID

\* What a terminal path leaves of the registry and the tracker has its type.
LEMMA SettleTypes ==
  ASSUME NEW x \in ID, NEW how \in Settled,
         ev \in [ID -> EvState], drained \subseteq ID,
         NEW o \in SUBSET ID, NEW f \in SUBSET ID, NEW c \in SUBSET ID, NEW fs \in SUBSET Session,
         Settle(x, how, o, f, c, fs)
  PROVE  /\ ev' \in [ID -> EvState]
         /\ outputs' \subseteq ID /\ failed_ids' \subseteq ID
         /\ completions' \subseteq ID /\ drained' \subseteq ID
         /\ failed_sessions' \subseteq Session
BY DEF Settle, DrainedWith, EvState

LEMMA FailEventTypes ==
  ASSUME TypeOK, NEW x \in ID, NEW how \in Settled, NEW cause \in Cause, FailEvent(x, how, cause)
  PROVE  TypeOK'
<1>1. x[1] \in Session
  BY OfMember
<1>2. /\ ev' \in [ID -> EvState]
      /\ outputs' \subseteq ID /\ failed_ids' \subseteq ID
      /\ completions' \subseteq ID /\ drained' \subseteq ID
      /\ failed_sessions' \subseteq Session
  <2> DEFINE f == failed_ids \cup {x}
             fs == failed_sessions \cup {x[1]}
  <2>1. Settle(x, how, outputs, f, completions, fs)
    BY DEF FailEvent
  <2>2. /\ f \in SUBSET ID /\ fs \in SUBSET Session /\ outputs \in SUBSET ID
        /\ completions \in SUBSET ID /\ drained \subseteq ID /\ ev \in [ID -> EvState]
    BY <1>1 DEF TypeOK
  <2> HIDE DEF f, fs
  <2> QED
    BY <2>1, <2>2, SettleTypes
<1>3. completion_queue' \in Seq(Notice)
  <2> DEFINE n == [session |-> x[1], failed |-> TRUE, cause |-> cause,
                   completed |-> DoneBy(x[1], completions),
                   cancelled |-> Cardinality(Event) - Cardinality(DoneBy(x[1], completions)) - 1]
  <2>1. DoneBy(x[1], completions) \subseteq Event
    BY DEF DoneBy
  <2>2. n \in Notice
    BY <1>1, <2>1, CancelledIsInt DEF Notice
  <2>3. completion_queue' = Append(completion_queue, n) \/ completion_queue' = completion_queue
    BY DEF FailEvent
  <2> HIDE DEF n
  <2>4. completion_queue \in Seq(Notice)
    BY DEF TypeOK
  <2>5. Append(completion_queue, n) \in Seq(Notice)
    BY <2>2, <2>4
  <2> QED
    BY <2>3, <2>4, <2>5
<1>4. UNCHANGED <<unchangedByWorkers, wpc>>
  BY DEF FailEvent
<1> QED
  BY <1>2, <1>3, <1>4 DEF TypeOK, unchangedByWorkers, mainVars

LEMMA TypeMain == TypeOK /\ Main => TypeOK'
<1> SUFFICES ASSUME TypeOK, Main PROVE TypeOK'
  OBVIOUS
<1> USE DEF TypeOK, workerVars
<1>1. ASSUME NextStage PROVE mpc' \in {"begin", "done"} /\ stage' \in 1 .. Stages
  BY <1>1, SessionAssumption DEF NextStage
<1>2. CASE BeginStage
  <2>1. /\ pending' \subseteq Session
        /\ session_cursor' \in 0 .. Sessions
    BY <1>2, SliceFacts, SessionAssumption DEF BeginStage, Session
  <2> QED
    BY <1>2, <2>1 DEF BeginStage, StageStatus
<1>3. CASE SkipStage
  BY <1>1, <1>3 DEF SkipStage
<1>4. CASE ExitEarly
  BY <1>4 DEF ExitEarly, EarlyStatus, StageStatus
<1>5. CASE Receive
  <2> DEFINE n == Head(completion_queue)
  <2>1. n \in Notice /\ Tail(completion_queue) \in Seq(Notice)
    BY <1>5 DEF Receive
  <2> HIDE DEF n
  <2>2. ASSUME n.session \in known
        PROVE  StateAfter(n.session, n) \in SessionState
    BY <2>1, <2>2 DEF StateAfter, SessionState, Notice
  <2>3. state' \in [Session -> SessionState]
    BY <1>5, <2>1, <2>2 DEF Receive, n, Notice
  <2> QED
    BY <1>5, <2>1, <2>3 DEF Receive
<1>6. CASE LeaveLoop
  BY <1>6 DEF LeaveLoop, StageStatus
<1>7. CASE EndTeardown
  BY <1>1, <1>7 DEF EndTeardown, EvState, Retired, StageStatus, Stranded
<1>8. ASSUME NEW s \in Session, Collect(s) PROVE TypeOK'
  <2>1. MetricOf(s) \in Metric
    BY DEF MetricOf, Metric, SessionState
  <2>2. Append(session_metrics, MetricOf(s)) \in Seq(Metric)
    BY <2>1
  <2> QED
    BY <1>8, <2>2 DEF Collect
<1>9. ASSUME NEW s \in Session, Dispatch(s) PROVE TypeOK'
  BY <1>9 DEF Dispatch, EvState, Fresh, SessionState
<1>10. ASSUME NEW s \in Session, PassOver(s) PROVE TypeOK'
  BY <1>10 DEF PassOver
<1> QED
  BY <1>2, <1>3, <1>4, <1>5, <1>6, <1>7, <1>8, <1>9, <1>10 DEF Main

LEMMA TypeTask ==
  ASSUME TypeOK, NEW x \in ID, Task(x)
  PROVE  TypeOK'
<1> USE DEF TypeOK, unchangedByWorkers, mainVars, workerVars
<1>1. ASSUME NEW how \in EvState, Retire(x, how) PROVE TypeOK'
  BY <1>1 DEF Retire
<1>2. ASSUME NEW how \in EvState, Advance(x, how) PROVE TypeOK'
  BY <1>1, <1>2 DEF Advance
<1>3. ASSUME NEW how \in Settled, NEW cause \in Cause, FailEvent(x, how, cause) PROVE TypeOK'
  BY <1>3, FailEventTypes
<1>4. /\ {"failed", "skipped"} \subseteq Settled
      /\ {"request_failed", "substitution", "predecessor_wait_failed",
           "predecessor_failed", "session_already_failed"} \subseteq Cause
      /\ {"waiting", "woken", "admission", "sent", "retired", "raised"} \subseteq EvState
  BY DEF Settled, Cause, EvState, TaskState, Retired
<1>5. CASE Take(x)
  BY <1>5 DEF Take, EvState, TaskState, Retired
<1>6. CASE Start(x)
  BY <1>6, <1>2, <1>3, <1>4 DEF Start
<1>7. CASE Wake(x)
  BY <1>7, <1>2, <1>4 DEF Wake
<1>8. CASE WakeToFailure(x)
  BY <1>8, <1>3, <1>4 DEF WakeToFailure
<1>9. CASE WaitTimesOut(x)
  BY <1>9, <1>3, <1>4 DEF WaitTimesOut
<1>10. CASE Prepare(x)
  BY <1>10, <1>1, <1>2, <1>3, <1>4 DEF Prepare
<1>11. CASE GiveUpAdmission(x)
  BY <1>11, <1>1, <1>4 DEF GiveUpAdmission
<1>12. CASE Admit(x)
  BY <1>12, <1>2, <1>3, <1>4 DEF Admit
<1>13. CASE Complete(x)
  <2> DEFINE c == completions \cup {x}
             n == [session |-> x[1], failed |-> x[1] \in failed_sessions, cause |-> "none",
                   completed |-> Event, cancelled |-> 0]
  <2>1. x[1] \in Session
    BY OfMember
  <2>2. n \in Notice
    BY <2>1 DEF Notice
  <2>3. /\ Settle(x, "completed", outputs \cup {x}, failed_ids, c, failed_sessions)
        /\ completion_queue' = Append(completion_queue, n) \/ completion_queue' = completion_queue
        /\ UNCHANGED <<unchangedByWorkers, wpc>>
    BY <1>13 DEF Complete
  <2> HIDE DEF n
  <2>4. Append(completion_queue, n) \in Seq(Notice)
    BY <2>2
  <2>5. /\ ev' \in [ID -> EvState]
        /\ outputs' \subseteq ID /\ failed_ids' \subseteq ID
        /\ completions' \subseteq ID /\ drained' \subseteq ID
        /\ failed_sessions' \subseteq Session
    BY <2>3, SettleTypes, "completed" \in Settled DEF Settled
  <2> QED
    BY <2>3, <2>4, <2>5
<1>14. CASE Fail(x)
  BY <1>14, <1>3, <1>4 DEF Fail
<1>15. CASE Raise(x)
  BY <1>15, <1>1, <1>4 DEF Raise
<1> QED
  BY <1>5, <1>6, <1>7, <1>8, <1>9, <1>10, <1>11, <1>12, <1>13, <1>14, <1>15 DEF Task

LEMMA TypeWorker ==
  ASSUME TypeOK, NEW w \in Workers,
         StartDraining(w) \/ CancelTasks(w) \/ ReachBoundary(w) \/ Crash(w)
  PROVE  TypeOK'
<1> USE DEF TypeOK, unchangedByWorkers, mainVars, workerVars
<1>1. CASE StartDraining(w)
  BY <1>1 DEF StartDraining
<1>2. CASE CancelTasks(w)
  BY <1>2 DEF CancelTasks, EvState, Retired
<1>3. CASE ReachBoundary(w)
  BY <1>3 DEF ReachBoundary
<1>4. CASE Crash(w)
  BY <1>4 DEF Crash, EvState, Retired
<1> QED
  BY <1>1, <1>2, <1>3, <1>4

\* Every variable of session replay keeps its type.
THEOREM SessionTypes == Spec => []TypeOK
<1>1. TypeOK /\ [Next]_vars => TypeOK'
  <2>1. ASSUME TypeOK, UNCHANGED vars PROVE TypeOK'
    BY <2>1 DEF vars, mainVars, workerVars, TypeOK
  <2> QED
    BY <2>1, TypeMain, TypeTask, TypeWorker DEF Next, Done
<1> QED
  BY TypeInit, <1>1, PTL DEF Spec
-----------------------------------------------------------------------------
(* The inductive invariant *)

\* A session no stage has dispatched yet has no event anywhere.
UntouchedInv ==
  /\ \A s \in pending : s <= session_cursor
  /\ \A s \in Session : s \in pending \/ s > session_cursor => \A x \in Of(s) : ev[x] = "absent"

\* The registry holds outputs of completed events only, and only events that
\* have settled are drained.
RegistryInv ==
  /\ \A x \in outputs : ev[x] = "completed"
  /\ \A x \in drained : ev[x] \in Settled

\* An event that got past its wait finds the outputs of its predecessors: they
\* are not evicted before it has drained itself.
ReadyInv ==
  \A x \in ID : ev[x] \in {"woken", "admission", "sent"} => PredsOf(x) \subseteq outputs

\* A worker with work left of a session one of whose events has failed knows
\* that the session has failed; a dead worker has no tasks.
FailedInv ==
  /\ \A x, y \in ID :
       /\ x[1] = y[1]
       /\ ev[x] \in {"queued"} \cup TaskState
       /\ ev[y] \in {"failed", "skipped"}
       => x[1] \in failed_sessions \/ wpc[home[x[1]]] = "dead"
  /\ \A x \in ID : wpc[home[x[1]]] = "dead" => ev[x] \notin TaskState

IInv == TypeOK /\ UntouchedInv /\ RegistryInv /\ ReadyInv /\ FailedInv

\* Exactly one event changes its place.
Moves(x, to) == ev' = [ev EXCEPT ![x] = to]

LEMMA IInvInit == Init => IInv
<1> SUFFICES ASSUME Init PROVE IInv
  OBVIOUS
<1>1. TypeOK
  BY TypeInit
<1>2. \A x \in ID : ev[x] = "absent"
  BY DEF Init
<1>3. UntouchedInv
  BY <1>2, OfDisjoint DEF Init, UntouchedInv
<1> QED
  BY <1>1, <1>2, <1>3 DEF Init, IInv, RegistryInv, ReadyInv, FailedInv, TaskState

\* A task that goes on, or ends without a trace in the tracker.
LEMMA RetireKeeps ==
  ASSUME IInv, NEW x \in ID, NEW from \in TaskState \cup {"queued"}, NEW to,
         to \in TaskState \cup {"retired", "raised"},
         ev[x] = from, wpc[home[x[1]]] # "dead",
         Moves(x, to), UNCHANGED <<mainVars, home, wpc, workerVars>>,
         to \in {"woken", "admission", "sent"} => PredsOf(x) \subseteq outputs
  PROVE  UntouchedInv' /\ RegistryInv' /\ ReadyInv' /\ FailedInv'
<1> USE DEF mainVars, workerVars, Moves
<1>1. ev \in [ID -> EvState]
  BY DEF IInv, TypeOK
<1>2. ev'[x] = to /\ \A y \in ID : y # x => ev'[y] = ev[y]
  BY <1>1
<1>3. to \notin {"absent", "queued", "completed", "failed", "skipped"}
  BY DEF TaskState
<1>4. ev[x] # "absent" /\ ev[x] \notin Settled
  BY DEF TaskState, Settled
<1>5. UntouchedInv'
  <2> SUFFICES ASSUME NEW s \in Session, s \in pending \/ s > session_cursor, NEW y \in Of(s)
               PROVE  ev'[y] = "absent"
    BY DEF UntouchedInv, IInv
  <2> QED
    BY <1>2, <1>4, OfDisjoint DEF UntouchedInv, IInv
<1>6. RegistryInv'
  BY <1>2, <1>4 DEF RegistryInv, IInv, TypeOK, Settled
<1>7. ReadyInv'
  <2>1. \A y \in ID : PredsOf(y)' = PredsOf(y)
    BY DEF PredsOf
  <2> QED
    BY <1>2, <2>1 DEF ReadyInv, IInv
<1>8. FailedInv'
  <2>1. ASSUME NEW y \in ID, NEW z \in ID, y[1] = z[1], ev'[y] \in {"queued"} \cup TaskState,
               ev'[z] \in {"failed", "skipped"}
        PROVE  y[1] \in failed_sessions \/ wpc[home[y[1]]] = "dead"
    <3>1. z # x /\ ev[z] \in {"failed", "skipped"}
      BY <1>2, <1>3, <2>1
    <3>2. ev[y] \in {"queued"} \cup TaskState
      BY <1>2, <2>1
    <3> QED
      BY <2>1, <3>1, <3>2 DEF FailedInv, IInv
  <2>2. \A y \in ID : wpc[home[y[1]]] = "dead" => ev'[y] \notin TaskState
    BY <1>2 DEF FailedInv, IInv
  <2> QED
    BY <2>1, <2>2 DEF FailedInv
<1> QED
  BY <1>5, <1>6, <1>7, <1>8

\* A terminal path: the event drains, and the last event of a session takes
\* with it what the worker keeps of the session.
LEMMA SettleKeeps ==
  ASSUME IInv, NEW x \in ID, NEW how \in Settled,
         ev[x] \in TaskState, wpc[home[x[1]]] # "dead",
         UNCHANGED <<mainVars, home, wpc>>,
         NEW o, NEW f, NEW c, NEW fs,
         Settle(x, how, o, f, c, fs),
         outputs \subseteq o, o \subseteq outputs \cup {x}, x \in o => how = "completed",
         failed_sessions \subseteq fs, how # "completed" => x[1] \in fs
  PROVE  UntouchedInv' /\ RegistryInv' /\ ReadyInv' /\ FailedInv'
<1> USE DEF mainVars
<1> DEFINE evict == Of(x[1]) \subseteq drained \cup {x}
<1>1. ev \in [ID -> EvState] /\ drained \subseteq ID /\ outputs \subseteq ID
  BY DEF IInv, TypeOK
<1>2. ev'[x] = how /\ \A y \in ID : y # x => ev'[y] = ev[y]
  BY <1>1 DEF Settle
<1>3. /\ outputs' = IF evict THEN o \ Of(x[1]) ELSE o
      /\ drained' = IF evict THEN (drained \cup {x}) \ Of(x[1]) ELSE drained \cup {x}
      /\ failed_sessions' = IF evict THEN fs \ {x[1]} ELSE fs
  BY DEF Settle, DrainedWith
<1>4. x[1] \in Session /\ x \in Of(x[1])
  BY OfMember
<1>5. ASSUME evict PROVE \A y \in Of(x[1]) : ev'[y] \in Settled
  BY <1>1, <1>2, <1>5 DEF RegistryInv, IInv
<1> HIDE DEF evict
<1>6. ev[x] # "absent" /\ ev[x] \notin Settled
  BY DEF TaskState, Settled
<1>7. UntouchedInv'
  <2> SUFFICES ASSUME NEW s \in Session, s \in pending \/ s > session_cursor, NEW y \in Of(s)
               PROVE  ev'[y] = "absent"
    BY DEF UntouchedInv, IInv
  <2> QED
    BY <1>2, <1>6, OfDisjoint DEF UntouchedInv, IInv
<1>8. RegistryInv'
  <2>1. \A y \in outputs' : ev'[y] = "completed"
    BY <1>1, <1>2, <1>3 DEF RegistryInv, IInv
  <2>2. \A y \in drained' : ev'[y] \in Settled
    BY <1>1, <1>2, <1>3 DEF RegistryInv, IInv
  <2> QED
    BY <2>1, <2>2 DEF RegistryInv
<1>9. ReadyInv'
  <2> SUFFICES ASSUME NEW y \in ID, ev'[y] \in {"woken", "admission", "sent"}
               PROVE  PredsOf(y) \subseteq outputs'
    BY DEF ReadyInv, PredsOf
  <2>1. how \notin {"woken", "admission", "sent"}
    BY DEF Settled
  <2>2. PredsOf(y) \subseteq outputs
    BY <1>2, <2>1 DEF ReadyInv, IInv
  <2>3. PredsOf(y) \subseteq Of(y[1]) /\ y[1] \in Session /\ y \in Of(y[1])
    BY PredsInSession, OfMember
  <2>4. CASE evict
    <3>1. y[1] # x[1]
      BY <1>5, <2>3, <2>4 DEF Settled
    <3> QED
      BY <1>3, <1>4, <2>2, <2>3, <3>1, OfDisjoint
  <2> QED
    BY <1>3, <2>2, <2>4
<1>10. FailedInv'
  <2>1. ASSUME NEW y \in ID, NEW z \in ID, y[1] = z[1], ev'[y] \in {"queued"} \cup TaskState,
               ev'[z] \in {"failed", "skipped"}
        PROVE  y[1] \in failed_sessions' \/ wpc[home[y[1]]] = "dead"
    <3>1. y # x /\ ev[y] \in {"queued"} \cup TaskState
      BY <1>2, <2>1 DEF Settled, TaskState
    <3>2. y[1] \in fs \/ wpc[home[y[1]]] = "dead"
      <4>1. CASE z = x
        BY <1>2, <2>1, <4>1
      <4>2. CASE z # x
        BY <1>2, <2>1, <3>1, <4>2 DEF FailedInv, IInv
      <4> QED
        BY <4>1, <4>2
    <3>3. evict => y[1] # x[1]
      <4>1. y \in Of(y[1])
        BY OfMember
      <4> QED
        BY <1>5, <2>1, <4>1 DEF Settled, TaskState
    <3> QED
      BY <1>3, <3>2, <3>3
  <2>2. \A y \in ID : wpc[home[y[1]]] = "dead" => ev'[y] \notin TaskState
    BY <1>2 DEF FailedInv, IInv, Settled, TaskState
  <2> QED
    BY <2>1, <2>2 DEF FailedInv
<1> QED
  BY <1>7, <1>8, <1>9, <1>10

LEMMA FailEventKeeps ==
  ASSUME IInv, NEW x \in ID, NEW how \in {"failed", "skipped"}, NEW cause,
         ev[x] \in TaskState, wpc[home[x[1]]] # "dead", FailEvent(x, how, cause)
  PROVE  UntouchedInv' /\ RegistryInv' /\ ReadyInv' /\ FailedInv'
<1> DEFINE f == failed_ids \cup {x}
           fs == failed_sessions \cup {x[1]}
<1>1. /\ Settle(x, how, outputs, f, completions, fs)
      /\ UNCHANGED <<mainVars, home, wpc>>
  BY DEF FailEvent, unchangedByWorkers
<1>2. x \notin outputs
  BY DEF IInv, RegistryInv, TaskState
<1>3. how \in Settled /\ failed_sessions \subseteq fs /\ x[1] \in fs
  BY DEF Settled
<1> HIDE DEF f, fs
<1> QED
  BY <1>1, <1>2, <1>3, SettleKeeps

LEMMA TaskKeeps ==
  ASSUME IInv, NEW x \in ID, Task(x)
  PROVE  UntouchedInv' /\ RegistryInv' /\ ReadyInv' /\ FailedInv'
<1> DEFINE Kept == UntouchedInv' /\ RegistryInv' /\ ReadyInv' /\ FailedInv'
<1>1. /\ \A st : Running(x, st) => ev[x] = st /\ wpc[home[x[1]]] # "dead"
      /\ {"created", "waiting", "woken", "admission", "sent"} = TaskState
  BY DEF Running, TaskState
<1>2. ASSUME NEW st \in TaskState, Running(x, st), NEW how \in {"failed", "skipped"}, NEW cause,
             FailEvent(x, how, cause)
      PROVE  Kept
  BY <1>1, <1>2, FailEventKeeps
<1>3. ASSUME NEW st \in TaskState, Running(x, st), NEW to \in TaskState \cup {"retired", "raised"},
             to \in {"woken", "admission", "sent"} => PredsOf(x) \subseteq outputs,
             Retire(x, to)
      PROVE  Kept
  <2>1. Moves(x, to) /\ UNCHANGED <<mainVars, home, wpc, workerVars>>
    BY <1>3 DEF Retire, Moves, unchangedByWorkers
  <2> QED
    BY <1>1, <1>3, <2>1, RetireKeeps
<1>4. \A st \in {"woken", "admission", "sent"} : Running(x, st) => PredsOf(x) \subseteq outputs
  BY <1>1 DEF ReadyInv, IInv
<1>5. CASE Take(x)
  <2>1. PICK to \in {"created", "raised"} : ev' = [ev EXCEPT ![x] = to]
    BY <1>5 DEF Take
  <2>2. /\ ev[x] = "queued" /\ wpc[home[x[1]]] # "dead"
        /\ Moves(x, to) /\ UNCHANGED <<mainVars, home, wpc, workerVars>>
    BY <1>5, <2>1 DEF Take, Moves, unchangedByWorkers
  <2> QED
    BY <1>1, <2>1, <2>2, RetireKeeps
<1>6. CASE Start(x)
  BY <1>1, <1>2, <1>3, <1>6 DEF Start, Advance
<1>7. CASE Wake(x)
  BY <1>1, <1>3, <1>7 DEF Wake, Advance, AllPredsDone
<1>8. CASE WakeToFailure(x)
  BY <1>1, <1>2, <1>8 DEF WakeToFailure
<1>9. CASE WaitTimesOut(x)
  BY <1>1, <1>2, <1>9 DEF WaitTimesOut
<1>10. CASE Prepare(x)
  BY <1>1, <1>2, <1>3, <1>4, <1>10 DEF Prepare, Advance
<1>11. CASE GiveUpAdmission(x)
  BY <1>1, <1>3, <1>4, <1>11 DEF GiveUpAdmission
<1>12. CASE Admit(x)
  BY <1>1, <1>2, <1>3, <1>4, <1>12 DEF Admit, Advance
<1>13. CASE Complete(x)
  <2> DEFINE o == outputs \cup {x}
             c == completions \cup {x}
  <2>1. /\ Settle(x, "completed", o, failed_ids, c, failed_sessions)
        /\ UNCHANGED <<mainVars, home, wpc>>
        /\ Running(x, "sent")
    BY <1>13 DEF Complete, unchangedByWorkers
  <2>2. "completed" \in Settled /\ outputs \subseteq o /\ o \subseteq outputs \cup {x}
    BY DEF Settled
  <2> HIDE DEF o, c
  <2> QED
    BY <1>1, <2>1, <2>2, SettleKeeps
<1>14. CASE Fail(x)
  BY <1>1, <1>2, <1>14 DEF Fail
<1>15. CASE Raise(x)
  BY <1>1, <1>3, <1>15 DEF Raise
<1> QED
  BY <1>5, <1>6, <1>7, <1>8, <1>9, <1>10, <1>11, <1>12, <1>13, <1>14, <1>15 DEF Task

LEMMA WorkerKeeps ==
  ASSUME IInv, NEW w \in Workers,
         StartDraining(w) \/ CancelTasks(w) \/ ReachBoundary(w) \/ Crash(w)
  PROVE  UntouchedInv' /\ RegistryInv' /\ ReadyInv' /\ FailedInv'
<1> USE DEF unchangedByWorkers, mainVars, workerVars
<1>1. /\ ev \in [ID -> EvState] /\ wpc \in [Workers -> {"serve", "wind", "hold", "dead"}]
      /\ home \in [Session -> Workers]
      /\ \A x \in ID : home[x[1]] \in Workers
  BY OfMember DEF IInv, TypeOK
<1>2. \A x \in ID : PredsOf(x)' = PredsOf(x)
  BY DEF PredsOf
<1>3. CASE StartDraining(w) \/ ReachBoundary(w)
  <2>1. /\ UNCHANGED <<mainVars, home, ev, workerVars>>
        /\ \A v \in Workers : wpc'[v] = "dead" <=> wpc[v] = "dead"
    BY <1>1, <1>3 DEF StartDraining, ReachBoundary
  <2> QED
    BY <1>1, <1>2, <2>1 DEF IInv, UntouchedInv, RegistryInv, ReadyInv, FailedInv
<1>4. CASE CancelTasks(w)
  <2>1. \A x \in ID : ev'[x] = IF home[x[1]] = w /\ ev[x] \in TaskState THEN "cancelled" ELSE ev[x]
    BY <1>4 DEF CancelTasks, Tasks
  <2>2. /\ UNCHANGED <<mainVars, home, wpc, workerVars>>
        /\ "absent" \notin TaskState /\ Settled \cap TaskState = {}
        /\ "cancelled" \notin TaskState \cup Settled /\ "completed" \in Settled
        /\ {"failed", "skipped"} \subseteq Settled
    BY <1>4 DEF CancelTasks, TaskState, Settled
  <2>3. UntouchedInv'
    BY <2>1, <2>2, OfDisjoint DEF IInv, UntouchedInv
  <2>4. RegistryInv'
    BY <2>1, <2>2 DEF IInv, TypeOK, RegistryInv
  <2>5. ReadyInv'
    BY <1>2, <2>1, <2>2 DEF IInv, ReadyInv
  <2>6. FailedInv'
    BY <2>1, <2>2 DEF IInv, FailedInv
  <2> QED
    BY <2>3, <2>4, <2>5, <2>6
<1>5. CASE Crash(w)
  <2>1. \A x \in ID : ev'[x] = IF home[x[1]] = w /\ ev[x] \in TaskState THEN "lost" ELSE ev[x]
    BY <1>5 DEF Crash, Tasks
  <2>2. /\ UNCHANGED <<mainVars, home>>
        /\ outputs' = {x \in outputs : home[x[1]] # w}
        /\ drained' = {x \in drained : home[x[1]] # w}
        /\ failed_sessions' = {s \in failed_sessions : home[s] # w}
        /\ wpc'[w] = "dead" /\ \A v \in Workers : v # w => wpc'[v] = wpc[v]
        /\ "absent" \notin TaskState /\ Settled \cap TaskState = {}
        /\ "lost" \notin TaskState \cup Settled /\ "completed" \in Settled
        /\ {"failed", "skipped"} \subseteq Settled
        /\ {"woken", "admission", "sent"} \subseteq TaskState
    BY <1>1, <1>5 DEF Crash, TaskState, Settled
  <2>3. UntouchedInv'
    BY <2>1, <2>2, OfDisjoint DEF IInv, UntouchedInv
  <2>4. RegistryInv'
    BY <2>1, <2>2 DEF IInv, TypeOK, RegistryInv
  <2>5. ReadyInv'
    <3> SUFFICES ASSUME NEW x \in ID, ev'[x] \in {"woken", "admission", "sent"},
                        NEW p \in PredsOf(x)
                 PROVE  p \in outputs'
      BY <1>2 DEF ReadyInv
    <3>1. home[x[1]] # w /\ ev[x] = ev'[x]
      BY <2>1, <2>2
    <3>2. p \in outputs
      BY <3>1 DEF IInv, ReadyInv
    <3>3. p[1] = x[1]
      BY DEF PredsOf
    <3> QED
      BY <2>2, <3>1, <3>2, <3>3
  <2>6. FailedInv'
    BY <1>1, <2>1, <2>2 DEF IInv, FailedInv
  <2> QED
    BY <2>3, <2>4, <2>5, <2>6
<1> QED
  BY <1>3, <1>4, <1>5

LEMMA MainKeeps ==
  ASSUME IInv, Main
  PROVE  UntouchedInv' /\ RegistryInv' /\ ReadyInv' /\ FailedInv'
<1> USE DEF workerVars
<1>1. /\ ev \in [ID -> EvState] /\ wpc \in [Workers -> {"serve", "wind", "hold", "dead"}]
      /\ home \in [Session -> Workers] /\ session_cursor \in 0 .. Sessions
      /\ outputs \subseteq ID /\ drained \subseteq ID /\ pending \subseteq Session
      /\ \A x \in ID : home[x[1]] \in Workers
  BY OfMember DEF IInv, TypeOK
<1>2. \A x \in ID : PredsOf(x)' = PredsOf(x)
  BY DEF PredsOf
<1>3. ASSUME UNCHANGED <<home, ev, outputs, drained, failed_sessions>>,
             \A v \in Workers : wpc'[v] = "dead" <=> wpc[v] = "dead"
      PROVE  RegistryInv' /\ ReadyInv' /\ FailedInv'
  BY <1>1, <1>2, <1>3 DEF IInv, RegistryInv, ReadyInv, FailedInv
<1>4. ASSUME UNCHANGED <<session_cursor, ev>>, pending' \subseteq pending
      PROVE  UntouchedInv'
  BY <1>4 DEF IInv, UntouchedInv
<1>5. CASE BeginStage
  <2> DEFINE n == Cardinality(Slice(NumSessions))
  <2>1. /\ n \in Nat /\ pending' = session_cursor + 1 .. session_cursor + n
        /\ session_cursor' = session_cursor + n
    BY <1>1, <1>5, SliceFacts DEF BeginStage
  <2> HIDE DEF n
  <2>2. UNCHANGED <<home, ev, outputs, drained, failed_sessions>>
    BY <1>5 DEF BeginStage
  <2>3. \A v \in Workers : wpc'[v] = "dead" <=> wpc[v] = "dead"
    BY <1>5 DEF BeginStage
  <2>4. UntouchedInv'
    <3>1. \A s \in pending' : s <= session_cursor' /\ s > session_cursor
      BY <1>1, <2>1
    <3>2. \A s \in Session : s > session_cursor' => s > session_cursor
      BY <1>1, <2>1, SessionAssumption DEF Session
    <3> QED
      BY <2>2, <3>1, <3>2 DEF IInv, UntouchedInv
  <2> QED
    BY <1>3, <2>2, <2>3, <2>4
<1>6. CASE SkipStage
  BY <1>1, <1>3, <1>4, <1>6 DEF SkipStage
<1>7. CASE ExitEarly \/ Receive \/ LeaveLoop
  BY <1>3, <1>4, <1>7 DEF ExitEarly, Receive, LeaveLoop
<1>8. CASE EndTeardown
  <2>1. /\ \A x \in ID : ev'[x] = IF ev[x] = "queued" THEN "dropped" ELSE ev[x]
        /\ \A w \in Workers : wpc'[w] = "hold"
        /\ UNCHANGED <<session_cursor, pending, home, outputs, drained, failed_sessions>>
    BY <1>8 DEF EndTeardown
  <2>2. "dropped" \notin TaskState \cup Settled /\ "queued" \notin TaskState \cup Settled
        /\ {"failed", "skipped", "completed"} \subseteq Settled
    BY DEF TaskState, Settled
  <2>3. UntouchedInv'
    BY <2>1, OfDisjoint DEF IInv, UntouchedInv
  <2>4. RegistryInv'
    BY <1>1, <2>1, <2>2 DEF IInv, RegistryInv
  <2>5. ReadyInv'
    BY <1>2, <2>1 DEF IInv, ReadyInv
  <2>6. FailedInv'
    <3> SUFFICES ASSUME NEW x \in ID, NEW y \in ID, x[1] = y[1],
                        ev'[x] \in {"queued"} \cup TaskState, ev'[y] \in {"failed", "skipped"}
                 PROVE  x[1] \in failed_sessions
      BY <1>1, <2>1 DEF FailedInv
    <3>1. ev[x] \in TaskState /\ ev[y] \in {"failed", "skipped"}
      BY <2>1, <2>2
    <3> QED
      BY <3>1 DEF IInv, FailedInv
  <2> QED
    BY <2>3, <2>4, <2>5, <2>6
<1>9. ASSUME NEW s \in Session, Collect(s) \/ PassOver(s)
      PROVE  UntouchedInv' /\ RegistryInv' /\ ReadyInv' /\ FailedInv'
  BY <1>3, <1>4, <1>9 DEF Collect, PassOver
<1>10. ASSUME NEW s \in Session, Dispatch(s)
       PROVE  UntouchedInv' /\ RegistryInv' /\ ReadyInv' /\ FailedInv'
  <2>1. /\ \A x \in ID : ev'[x] = IF x[1] = s THEN "queued" ELSE ev[x]
        /\ s \in pending /\ pending' = pending \ {s}
        /\ UNCHANGED <<session_cursor, home, wpc, outputs, drained, failed_sessions>>
    BY <1>10, OfMember DEF Dispatch, IsNext
  <2>2. /\ s <= session_cursor
        /\ \A x \in ID : x[1] = s => ev[x] = "absent"
    BY <2>1, OfMember DEF IInv, UntouchedInv
  <2>3. \A t \in Session : \A x \in Of(t) : x \in ID /\ x[1] = t
    BY OfMember, OfDisjoint
  <2>4. UntouchedInv'
    <3> SUFFICES ASSUME NEW t \in Session, t \in pending' \/ t > session_cursor, NEW x \in Of(t)
                 PROVE  ev'[x] = "absent"
      BY <2>1 DEF IInv, UntouchedInv
    <3>1. t # s
      BY <1>1, <2>1, <2>2 DEF Session
    <3> QED
      BY <2>1, <2>3, <3>1 DEF IInv, UntouchedInv
  <2>5. RegistryInv'
    <3>1. \A x \in outputs \cup drained : x \in ID /\ x[1] # s
      BY <1>1, <2>2 DEF IInv, RegistryInv, Settled
    <3> QED
      BY <2>1, <3>1 DEF IInv, RegistryInv
  <2>6. ReadyInv'
    BY <1>2, <2>1 DEF IInv, ReadyInv
  <2>7. FailedInv'
    BY <2>1 DEF IInv, FailedInv, TaskState
  <2> QED
    BY <2>4, <2>5, <2>6, <2>7
<1> QED
  BY <1>5, <1>6, <1>7, <1>8, <1>9, <1>10 DEF Main

LEMMA IInvNext == IInv /\ [Next]_vars => IInv'
<1> SUFFICES ASSUME IInv, [Next]_vars PROVE IInv'
  OBVIOUS
<1>1. CASE UNCHANGED vars
  BY <1>1 DEF vars, mainVars, workerVars, IInv, TypeOK, UntouchedInv, RegistryInv, ReadyInv, FailedInv,
              PredsOf
<1>2. CASE Done
  BY <1>1, <1>2 DEF Done
<1>3. CASE Main
  BY <1>3, TypeMain, MainKeeps DEF IInv
<1>4. ASSUME NEW x \in ID, Task(x) PROVE IInv'
  BY <1>4, TypeTask, TaskKeeps DEF IInv
<1>5. ASSUME NEW w \in Workers,
             StartDraining(w) \/ CancelTasks(w) \/ ReachBoundary(w) \/ Crash(w)
      PROVE  IInv'
  BY <1>5, TypeWorker, WorkerKeeps DEF IInv
<1> QED
  BY <1>1, <1>2, <1>3, <1>4, <1>5 DEF Next

THEOREM Invariance == Spec => []IInv
BY IInvInit, IInvNext, PTL DEF Spec
-----------------------------------------------------------------------------
(* What a step that sends a request says *)

\* Only Admit sends a request.
LEMMA OnlyAdmitSends ==
  ASSUME IInv, Next, NEW x \in ID, ev[x] # "sent", ev'[x] = "sent"
  PROVE  /\ Running(x, "admission")
         /\ x[1] \notin failed_sessions
<1>1. ev \in [ID -> EvState]
  BY DEF IInv, TypeOK
<1>2. ~Done
  BY DEF Done, vars
<1>3. ~Main
  BY DEF Main, BeginStage, SkipStage, ExitEarly, Receive, LeaveLoop, EndTeardown, Collect, Dispatch, PassOver
<1>4. ASSUME NEW w \in Workers PROVE ~(StartDraining(w) \/ CancelTasks(w) \/ ReachBoundary(w) \/ Crash(w))
  BY DEF StartDraining, CancelTasks, ReachBoundary, Crash
<1>5. PICK y \in ID : Task(y)
  BY <1>2, <1>3, <1>4 DEF Next
<1>6. ASSUME NEW how \in EvState, NEW cause, FailEvent(y, how, cause) PROVE how = "sent"
  BY <1>1, <1>6 DEF FailEvent, Settle
<1>7. ASSUME NEW how \in EvState, Retire(y, how) PROVE how = "sent" /\ x = y
  BY <1>1, <1>7 DEF Retire
<1>8. /\ {"failed", "skipped", "retired", "raised", "waiting", "woken", "admission", "sent"} \subseteq EvState
  BY DEF EvState, Settled, Retired, TaskState
<1>9. ~Take(y) /\ ~Complete(y)
  BY <1>1 DEF Take, Complete, Settle
<1>10. ~Start(y) /\ ~Wake(y) /\ ~WakeToFailure(y) /\ ~WaitTimesOut(y) /\ ~Prepare(y)
  BY <1>6, <1>7, <1>8 DEF Start, Wake, WakeToFailure, WaitTimesOut, Prepare, Advance
<1>11. ~GiveUpAdmission(y) /\ ~Fail(y) /\ ~Raise(y)
  BY <1>6, <1>7, <1>8 DEF GiveUpAdmission, Fail, Raise
<1>12. Admit(y)
  BY <1>5, <1>9, <1>10, <1>11 DEF Task
<1> QED
  BY <1>6, <1>7, <1>8, <1>12 DEF Admit, Advance, SessionFailed

\* A request is sent only when every predecessor has really answered, with all
\* outputs there to be substituted, whatever the graph of the session.
THEOREM SentAfterAllPredecessors == Spec => SentAfterPredecessors
<1>1. ASSUME IInv, [Next]_vars
      PROVE  [\A x \in ID : ev[x] # "sent" /\ ev'[x] = "sent"
                => \A p \in PredsOf(x) : ev[p] = "completed" /\ p \in outputs]_vars
  <2> SUFFICES ASSUME Next, NEW x \in ID, ev[x] # "sent", ev'[x] = "sent", NEW p \in PredsOf(x)
               PROVE  ev[p] = "completed" /\ p \in outputs
    BY <1>1
  <2>1. ev[x] = "admission"
    BY <1>1, OnlyAdmitSends DEF Running
  <2> QED
    BY <1>1, <2>1 DEF IInv, ReadyInv, RegistryInv
<1> QED
  BY <1>1, Invariance, PTL DEF Spec, SentAfterPredecessors

\* Once an event of a session has failed, no further request of it is sent.
THEOREM NothingSentOnceFailed == Spec => NothingSentAfterFailure
<1>1. ASSUME IInv, [Next]_vars
      PROVE  [\A x \in ID : ev[x] # "sent" /\ ev'[x] = "sent"
                => \A y \in Of(x[1]) : ev[y] \notin {"failed", "skipped"}]_vars
  <2> SUFFICES ASSUME Next, NEW x \in ID, ev[x] # "sent", ev'[x] = "sent", NEW y \in Of(x[1])
               PROVE  ev[y] \notin {"failed", "skipped"}
    BY <1>1
  <2>1. Running(x, "admission") /\ x[1] \notin failed_sessions
    BY <1>1, OnlyAdmitSends
  <2>2. y \in ID /\ y[1] = x[1]
    BY OfMember, OfDisjoint
  <2> QED
    BY <1>1, <2>1, <2>2 DEF IInv, FailedInv, Running, TaskState
<1> QED
  BY <1>1, Invariance, PTL DEF Spec, NothingSentAfterFailure
-----------------------------------------------------------------------------
(* What the worker keeps of a session *)

\* The tracker and the registry hold what has happened.
TrackerInv ==
  /\ \A x \in completions : ev[x] = "completed"
  /\ \A x \in failed_ids : ev[x] \in {"failed", "skipped"} /\ x[1] \in failed_sessions
  /\ \A s \in failed_sessions : \E x \in Of(s) : ev[x] \in {"failed", "skipped"}

\* A session that is settled has been forgotten; one a live worker still has
\* events of is known as it is.
EvictionInv ==
  /\ \A s \in Session :
       (\A x \in Of(s) : ev[x] \in Settled)
         => /\ s \notin failed_sessions
            /\ \A x \in Of(s) : x \notin outputs \cup failed_ids \cup completions \cup drained
  /\ \A x, y \in ID :
       x[1] = y[1] /\ ev[x] \in {"queued"} \cup TaskState /\ wpc[home[x[1]]] # "dead"
         => /\ y \in drained <=> ev[y] \in Settled
            /\ y \in outputs <=> ev[y] = "completed"

KeptInv == IInv /\ TrackerInv /\ EvictionInv

\* What a task does: go on or end without a trace, fail, or complete.
LEMMA TaskKinds ==
  ASSUME NEW x \in ID, Task(x)
  PROVE  /\ ev[x] \in {"queued"} \cup TaskState
         /\ wpc[home[x[1]]] # "dead"
         /\ \/ \E to \in TaskState \cup Retired :
                 Moves(x, to) /\ UNCHANGED <<unchangedByWorkers, completion_queue, wpc, workerVars>>
            \/ /\ ev[x] \in TaskState
               /\ \E how \in {"failed", "skipped"}, cause \in Cause :
                    /\ FailEvent(x, how, cause)
                    /\ cause \notin {"predecessor_failed", "session_already_failed"}
                         \/ x[1] \in failed_sessions \/ PredFailed(x)
            \/ Complete(x)
<1> DEFINE Goes == \E to \in TaskState \cup Retired :
                     Moves(x, to) /\ UNCHANGED <<unchangedByWorkers, completion_queue, wpc, workerVars>>
           Fails == \E how \in {"failed", "skipped"}, cause \in Cause :
                      /\ FailEvent(x, how, cause)
                      /\ cause \notin {"predecessor_failed", "session_already_failed"}
                           \/ x[1] \in failed_sessions \/ PredFailed(x)
<1>1. /\ \A st : Running(x, st) => ev[x] = st /\ wpc[home[x[1]]] # "dead"
      /\ {"created", "waiting", "woken", "admission", "sent"} = TaskState
      /\ {"retired", "raised"} \subseteq Retired
  BY DEF Running, TaskState, Retired
<1>2. ASSUME NEW to \in TaskState \cup Retired, Retire(x, to) PROVE Goes
  BY <1>2 DEF Retire, Moves
<1>3. ASSUME NEW how \in {"failed", "skipped"},
             NEW cause \in {"request_failed", "substitution", "predecessor_wait_failed"},
             FailEvent(x, how, cause)
      PROVE  Fails
  BY <1>3 DEF Cause
<1>4. ASSUME NEW cause \in Cause, FailEvent(x, "skipped", cause), x[1] \in failed_sessions \/ PredFailed(x)
      PROVE  Fails
  BY <1>4
<1>5. {"predecessor_failed", "session_already_failed"} \subseteq Cause
  BY DEF Cause
<1> HIDE DEF Goes, Fails
<1>6. CASE Take(x)
  <2>1. PICK to \in {"created", "raised"} : ev' = [ev EXCEPT ![x] = to]
    BY <1>6 DEF Take
  <2>2. Goes
    BY <1>1, <1>6, <2>1 DEF Take, Goes, Moves
  <2> QED
    BY <1>6, <2>2 DEF Take, Goes
<1>7. CASE Start(x)
  <2>1. Goes \/ Fails
    BY <1>1, <1>2, <1>4, <1>5, <1>7 DEF Start, Advance
  <2> QED
    BY <1>1, <1>7, <2>1 DEF Start, Goes, Fails
<1>8. CASE Wake(x)
  <2>1. Goes
    BY <1>1, <1>2, <1>8 DEF Wake, Advance
  <2> QED
    BY <1>1, <1>8, <2>1 DEF Wake, Goes
<1>9. CASE WakeToFailure(x)
  <2>1. Fails
    BY <1>4, <1>5, <1>9 DEF WakeToFailure
  <2> QED
    BY <1>1, <1>9, <2>1 DEF WakeToFailure, Fails
<1>10. CASE WaitTimesOut(x)
  <2>1. Fails
    BY <1>3, <1>10 DEF WaitTimesOut
  <2> QED
    BY <1>1, <1>10, <2>1 DEF WaitTimesOut, Fails
<1>11. CASE Prepare(x)
  <2>1. Goes \/ Fails
    BY <1>1, <1>2, <1>3, <1>11 DEF Prepare, Advance
  <2> QED
    BY <1>1, <1>11, <2>1 DEF Prepare, Goes, Fails
<1>12. CASE GiveUpAdmission(x)
  <2>1. Goes
    BY <1>1, <1>2, <1>12 DEF GiveUpAdmission
  <2> QED
    BY <1>1, <1>12, <2>1 DEF GiveUpAdmission, Goes
<1>13. CASE Admit(x)
  <2>1. Goes \/ Fails
    BY <1>1, <1>2, <1>4, <1>5, <1>13 DEF Admit, Advance, SessionFailed
  <2> QED
    BY <1>1, <1>13, <2>1 DEF Admit, Goes, Fails
<1>14. CASE Complete(x)
  BY <1>1, <1>14 DEF Complete
<1>15. CASE Fail(x)
  <2>1. Fails
    BY <1>3, <1>15 DEF Fail
  <2> QED
    BY <1>1, <1>15, <2>1 DEF Fail, Fails
<1>16. CASE Raise(x)
  <2>1. Goes
    BY <1>1, <1>2, <1>16 DEF Raise
  <2> QED
    BY <1>1, <1>16, <2>1 DEF Raise, Goes
<1> QED
  BY <1>6, <1>7, <1>8, <1>9, <1>10, <1>11, <1>12, <1>13, <1>14, <1>15, <1>16 DEF Task

LEMMA KeptInit == Init => KeptInv
BY IInvInit, OfMember, SessionAssumption
DEF Init, KeptInv, TrackerInv, EvictionInv, Settled, TaskState, Of, ID

\* Where the registry and the tracker are left alone, what is kept stays right
\* if events only end, and end without being settled.
LEMMA UntouchedKeeps ==
  ASSUME KeptInv, UNCHANGED <<home, workerVars>>,
         \A x \in ID : \/ ev'[x] = ev[x]
                       \/ ev[x] \notin Settled /\ ev'[x] \notin Settled
                            /\ (ev'[x] \in TaskState => ev[x] \in {"queued"} \cup TaskState)
                            /\ ev'[x] # "queued",
         \A x \in ID : ev'[x] \in {"queued"} \cup TaskState /\ wpc'[home[x[1]]] # "dead" => wpc[home[x[1]]] # "dead"
  PROVE  TrackerInv' /\ EvictionInv'
<1> USE DEF workerVars
<1>1. /\ outputs \subseteq ID /\ failed_ids \subseteq ID /\ completions \subseteq ID /\ drained \subseteq ID
      /\ failed_sessions \subseteq Session
  BY DEF KeptInv, IInv, TypeOK
<1>2. \A x \in ID : ev[x] \in Settled => ev'[x] = ev[x]
  OBVIOUS
<1>3. {"completed", "failed", "skipped"} = Settled
  BY DEF Settled
<1>4. TrackerInv'
  BY <1>1, <1>2, <1>3, OfDisjoint DEF KeptInv, TrackerInv
<1>5. \A x \in ID : ev'[x] \in Settled <=> ev[x] \in Settled
  OBVIOUS
<1>6. ASSUME NEW s \in Session, \A x \in Of(s) : ev'[x] \in Settled
      PROVE  /\ s \notin failed_sessions
             /\ \A x \in Of(s) : x \notin outputs \cup failed_ids \cup completions \cup drained
  BY <1>5, <1>6, OfDisjoint DEF KeptInv, EvictionInv
<1>7. ASSUME NEW x \in ID, NEW y \in ID, x[1] = y[1], ev'[x] \in {"queued"} \cup TaskState, wpc'[home[x[1]]] # "dead"
      PROVE  /\ y \in drained <=> ev'[y] \in Settled
             /\ y \in outputs <=> ev'[y] = "completed"
  <2>1. ev[x] \in {"queued"} \cup TaskState /\ wpc[home[x[1]]] # "dead"
    BY <1>7
  <2>2. ev'[y] = "completed" <=> ev[y] = "completed"
    BY <1>3
  <2> QED
    BY <1>5, <1>7, <2>1, <2>2 DEF KeptInv, EvictionInv
<1> QED
  BY <1>4, <1>6, <1>7 DEF EvictionInv

\* A terminal path adds the event, or takes the whole session away.
LEMMA SettleEvicts ==
  ASSUME KeptInv, NEW x \in ID, NEW how \in Settled,
         ev[x] \in TaskState, wpc[home[x[1]]] # "dead", UNCHANGED <<home, wpc>>,
         NEW o, NEW f, NEW c, NEW fs,
         Settle(x, how, o, f, c, fs),
         o = IF how = "completed" THEN outputs \cup {x} ELSE outputs,
         c = IF how = "completed" THEN completions \cup {x} ELSE completions,
         f = IF how = "completed" THEN failed_ids ELSE failed_ids \cup {x},
         fs = IF how = "completed" THEN failed_sessions ELSE failed_sessions \cup {x[1]}
  PROVE  TrackerInv' /\ EvictionInv'
<1> DEFINE evict == Of(x[1]) \subseteq drained \cup {x}
<1>1. /\ ev \in [ID -> EvState]
      /\ outputs \subseteq ID /\ failed_ids \subseteq ID /\ completions \subseteq ID /\ drained \subseteq ID
      /\ failed_sessions \subseteq Session
  BY DEF KeptInv, IInv, TypeOK
<1>2. ev'[x] = how /\ \A y \in ID : y # x => ev'[y] = ev[y]
  BY <1>1 DEF Settle
<1>3. /\ outputs' = IF evict THEN o \ Of(x[1]) ELSE o
      /\ failed_ids' = IF evict THEN f \ Of(x[1]) ELSE f
      /\ completions' = IF evict THEN c \ Of(x[1]) ELSE c
      /\ drained' = IF evict THEN (drained \cup {x}) \ Of(x[1]) ELSE drained \cup {x}
      /\ failed_sessions' = IF evict THEN fs \ {x[1]} ELSE fs
  BY DEF Settle, DrainedWith
<1>4. x[1] \in Session /\ x \in Of(x[1])
  BY OfMember
<1>5. {"completed", "failed", "skipped"} = Settled /\ ev[x] \notin Settled
  BY DEF Settled, TaskState
<1>6. \A y \in Of(x[1]) : (y \in drained <=> ev[y] \in Settled) /\ (y \in outputs <=> ev[y] = "completed")
  <2>1. \A y \in Of(x[1]) : y \in ID /\ y[1] = x[1]
    BY <1>4, OfMember, OfDisjoint
  <2> QED
    BY <2>1 DEF KeptInv, EvictionInv
<1>7. evict <=> \A y \in Of(x[1]) : ev'[y] \in Settled
  BY <1>2, <1>4, <1>5, <1>6, OfDisjoint
<1> HIDE DEF evict
<1>8. TrackerInv'
  <2>1. ASSUME NEW y \in completions' PROVE ev'[y] = "completed"
    BY <1>1, <1>2, <1>3, <1>5, <2>1 DEF KeptInv, TrackerInv
  <2>2. ASSUME NEW y \in failed_ids' PROVE ev'[y] \in {"failed", "skipped"} /\ y[1] \in failed_sessions'
    <3>1. y \in ID /\ y \in f /\ (evict => y \notin Of(x[1]))
      BY <1>1, <1>3, <2>2
    <3>2. ev'[y] \in {"failed", "skipped"} /\ y[1] \in fs
      BY <1>1, <1>2, <1>5, <3>1 DEF KeptInv, TrackerInv
    <3>3. evict => y[1] # x[1]
      BY <1>4, <3>1, OfMember
    <3> QED
      BY <1>3, <3>2, <3>3
  <2>3. ASSUME NEW s \in failed_sessions' PROVE \E y \in Of(s) : ev'[y] \in {"failed", "skipped"}
    <3>1. s \in failed_sessions \/ (s = x[1] /\ how # "completed")
      BY <1>3, <2>3
    <3>2. CASE s \in failed_sessions
      <4>1. PICK y \in Of(s) : ev[y] \in {"failed", "skipped"}
        BY <3>2 DEF KeptInv, TrackerInv
      <4>2. y \in ID /\ y # x
        BY <1>1, <1>5, <3>2, <4>1, OfDisjoint
      <4> QED
        BY <1>2, <4>1, <4>2
    <3>3. CASE s = x[1] /\ how # "completed"
      BY <1>2, <1>4, <1>5, <3>3
    <3> QED
      BY <3>1, <3>2, <3>3
  <2> QED
    BY <2>1, <2>2, <2>3 DEF TrackerInv
<1>9. ASSUME NEW s \in Session, \A y \in Of(s) : ev'[y] \in Settled
      PROVE  /\ s \notin failed_sessions'
             /\ \A y \in Of(s) : y \notin outputs' \cup failed_ids' \cup completions' \cup drained'
  <2>1. CASE s = x[1]
    BY <1>3, <1>7, <1>9, <2>1
  <2>2. CASE s # x[1]
    <3>1. \A y \in Of(s) : y \in ID /\ y # x
      BY <1>4, <2>2, OfDisjoint
    <3>2. /\ s \notin failed_sessions
          /\ \A y \in Of(s) : y \notin outputs \cup failed_ids \cup completions \cup drained
      BY <1>2, <1>9, <3>1 DEF KeptInv, EvictionInv
    <3> QED
      BY <1>3, <2>2, <3>1, <3>2
  <2> QED
    BY <2>1, <2>2
<1>10. ASSUME NEW y \in ID, NEW z \in ID, y[1] = z[1], ev'[y] \in {"queued"} \cup TaskState, wpc[home[y[1]]] # "dead"
       PROVE  /\ z \in drained' <=> ev'[z] \in Settled
              /\ z \in outputs' <=> ev'[z] = "completed"
  <2>1. y # x /\ ev[y] \in {"queued"} \cup TaskState
    BY <1>2, <1>5, <1>10 DEF TaskState
  <2>2. /\ z \in drained <=> ev[z] \in Settled
        /\ z \in outputs <=> ev[z] = "completed"
    BY <1>10, <2>1 DEF KeptInv, EvictionInv
  <2>3. evict => z \notin Of(x[1])
    <3>1. ASSUME evict, z \in Of(x[1]) PROVE FALSE
      <4>1. y \in Of(x[1])
        BY <1>4, <1>10, <3>1, OfMember
      <4>2. ev'[y] \in Settled
        BY <1>7, <3>1, <4>1
      <4> QED
        BY <1>5, <1>10, <4>2 DEF TaskState
    <3> QED
      BY <3>1
  <2> QED
    BY <1>2, <1>3, <1>5, <2>2, <2>3
<1> QED
  BY <1>8, <1>9, <1>10 DEF EvictionInv

LEMMA TaskKept ==
  ASSUME KeptInv, NEW x \in ID, Task(x)
  PROVE  TrackerInv' /\ EvictionInv'
<1> USE DEF unchangedByWorkers, mainVars
<1>1. ev \in [ID -> EvState] /\ {"completed", "failed", "skipped"} = Settled
  BY DEF KeptInv, IInv, TypeOK, Settled
<1>2. ev[x] \in {"queued"} \cup TaskState /\ wpc[home[x[1]]] # "dead"
  BY TaskKinds
<1>3. ASSUME NEW to \in TaskState \cup Retired, Moves(x, to), UNCHANGED <<home, wpc, workerVars>>
      PROVE  TrackerInv' /\ EvictionInv'
  <2>1. ev'[x] = to /\ \A y \in ID : y # x => ev'[y] = ev[y]
    BY <1>1, <1>3 DEF Moves
  <2>2. to \notin Settled /\ to # "queued" /\ ev[x] \notin Settled
    BY <1>2 DEF Settled, TaskState, Retired
  <2> QED
    BY <1>2, <1>3, <2>1, <2>2, UntouchedKeeps
<1>4. ASSUME ev[x] \in TaskState, NEW how \in {"failed", "skipped"}, NEW cause, FailEvent(x, how, cause)
      PROVE  TrackerInv' /\ EvictionInv'
  <2> DEFINE f == failed_ids \cup {x}
             fs == failed_sessions \cup {x[1]}
  <2>1. Settle(x, how, outputs, f, completions, fs) /\ UNCHANGED <<home, wpc>>
    BY <1>4 DEF FailEvent
  <2>2. how \in Settled /\ how # "completed"
    BY <1>1
  <2>3. /\ f = IF how = "completed" THEN failed_ids ELSE failed_ids \cup {x}
        /\ fs = IF how = "completed" THEN failed_sessions ELSE failed_sessions \cup {x[1]}
        /\ outputs = IF how = "completed" THEN outputs \cup {x} ELSE outputs
        /\ completions = IF how = "completed" THEN completions \cup {x} ELSE completions
    BY <2>2
  <2> HIDE DEF f, fs
  <2> QED
    BY <1>2, <1>4, <2>1, <2>2, <2>3, SettleEvicts
<1>5. CASE Complete(x)
  <2> DEFINE o == outputs \cup {x}
             c == completions \cup {x}
  <2>1. Settle(x, "completed", o, failed_ids, c, failed_sessions) /\ UNCHANGED <<home, wpc>> /\ ev[x] \in TaskState
    BY <1>5 DEF Complete, Running, TaskState
  <2>2. /\ "completed" \in Settled
        /\ o = IF "completed" = "completed" THEN outputs \cup {x} ELSE outputs
        /\ c = IF "completed" = "completed" THEN completions \cup {x} ELSE completions
    BY <1>1
  <2> HIDE DEF o, c
  <2> QED
    BY <1>2, <2>1, <2>2, SettleEvicts
<1> QED
  BY <1>3, <1>4, <1>5, TaskKinds

LEMMA WorkerKept ==
  ASSUME KeptInv, NEW w \in Workers,
         StartDraining(w) \/ CancelTasks(w) \/ ReachBoundary(w) \/ Crash(w)
  PROVE  TrackerInv' /\ EvictionInv'
<1> USE DEF unchangedByWorkers, mainVars
<1>1. /\ ev \in [ID -> EvState] /\ wpc \in [Workers -> {"serve", "wind", "hold", "dead"}]
      /\ home \in [Session -> Workers]
      /\ \A x \in ID : home[x[1]] \in Workers
      /\ outputs \subseteq ID /\ failed_ids \subseteq ID /\ completions \subseteq ID /\ drained \subseteq ID
      /\ failed_sessions \subseteq Session
  BY OfMember DEF KeptInv, IInv, TypeOK
<1>2. /\ {"completed", "failed", "skipped"} = Settled /\ Settled \cap TaskState = {}
      /\ {"cancelled", "lost", "queued"} \cap (Settled \cup TaskState) = {}
  BY DEF Settled, TaskState
<1>3. CASE StartDraining(w) \/ ReachBoundary(w)
  <2>1. UNCHANGED <<home, ev, workerVars>> /\ \A v \in Workers : wpc'[v] = "dead" <=> wpc[v] = "dead"
    BY <1>1, <1>3 DEF StartDraining, ReachBoundary
  <2> QED
    BY <1>1, <2>1, UntouchedKeeps
<1>4. CASE CancelTasks(w)
  <2>1. \A x \in ID : ev'[x] = IF home[x[1]] = w /\ ev[x] \in TaskState THEN "cancelled" ELSE ev[x]
    BY <1>4 DEF CancelTasks, Tasks
  <2>2. UNCHANGED <<home, wpc, workerVars>>
    BY <1>4 DEF CancelTasks
  <2> QED
    BY <1>2, <2>1, <2>2, UntouchedKeeps
<1>5. CASE Crash(w)
  <2>1. \A x \in ID : ev'[x] = IF home[x[1]] = w /\ ev[x] \in TaskState THEN "lost" ELSE ev[x]
    BY <1>5 DEF Crash, Tasks
  <2>2. /\ home' = home
        /\ outputs' = {x \in outputs : home[x[1]] # w}
        /\ failed_ids' = {x \in failed_ids : home[x[1]] # w}
        /\ completions' = {x \in completions : home[x[1]] # w}
        /\ drained' = {x \in drained : home[x[1]] # w}
        /\ failed_sessions' = {s \in failed_sessions : home[s] # w}
        /\ wpc'[w] = "dead" /\ \A v \in Workers : v # w => wpc'[v] = wpc[v]
    BY <1>1, <1>5 DEF Crash
  <2>3. \A x \in ID : (ev[x] \in Settled => ev'[x] = ev[x]) /\ (ev'[x] \in Settled => ev[x] \in Settled)
    BY <1>2, <2>1
  <2>4. TrackerInv'
    <3>1. ASSUME NEW s \in failed_sessions' PROVE \E x \in Of(s) : ev'[x] \in {"failed", "skipped"}
      <4>1. s \in Session /\ \E x \in Of(s) : ev[x] \in {"failed", "skipped"}
        BY <1>1, <2>2, <3>1 DEF KeptInv, TrackerInv
      <4> QED
        BY <1>2, <2>3, <4>1, OfDisjoint
    <3>2. \A x \in completions' : ev'[x] = "completed"
      BY <1>1, <1>2, <2>2, <2>3 DEF KeptInv, TrackerInv
    <3>3. \A x \in failed_ids' : ev'[x] \in {"failed", "skipped"} /\ x[1] \in failed_sessions'
      BY <1>1, <1>2, <2>2, <2>3 DEF KeptInv, TrackerInv
    <3> QED
      BY <3>1, <3>2, <3>3 DEF TrackerInv
  <2>5. ASSUME NEW s \in Session, \A x \in Of(s) : ev'[x] \in Settled
        PROVE  /\ s \notin failed_sessions'
               /\ \A x \in Of(s) : x \notin outputs' \cup failed_ids' \cup completions' \cup drained'
    <3>1. \A x \in Of(s) : ev[x] \in Settled
      BY <2>3, <2>5, OfDisjoint
    <3> QED
      BY <2>2, <3>1 DEF KeptInv, EvictionInv
  <2>6. ASSUME NEW x \in ID, NEW y \in ID, x[1] = y[1], ev'[x] \in {"queued"} \cup TaskState, wpc'[home[x[1]]] # "dead"
        PROVE  /\ y \in drained' <=> ev'[y] \in Settled
               /\ y \in outputs' <=> ev'[y] = "completed"
    <3>1. home[x[1]] # w /\ wpc[home[x[1]]] # "dead" /\ ev'[x] = ev[x] /\ ev'[y] = ev[y]
      BY <1>1, <2>1, <2>2, <2>6
    <3> QED
      BY <2>2, <2>6, <3>1 DEF KeptInv, EvictionInv
  <2> QED
    BY <2>2, <2>4, <2>5, <2>6 DEF EvictionInv
<1> QED
  BY <1>3, <1>4, <1>5

LEMMA MainKept ==
  ASSUME KeptInv, Main
  PROVE  TrackerInv' /\ EvictionInv'
<1>1. /\ ev \in [ID -> EvState] /\ wpc \in [Workers -> {"serve", "wind", "hold", "dead"}]
      /\ \A x \in ID : home[x[1]] \in Workers
      /\ outputs \subseteq ID /\ failed_ids \subseteq ID /\ completions \subseteq ID /\ drained \subseteq ID
      /\ failed_sessions \subseteq Session
  BY OfMember DEF KeptInv, IInv, TypeOK
<1>2. ASSUME UNCHANGED <<home, ev, workerVars>>, \A v \in Workers : wpc'[v] = "dead" <=> wpc[v] = "dead"
      PROVE  TrackerInv' /\ EvictionInv'
  BY <1>1, <1>2, UntouchedKeeps
<1>3. CASE BeginStage \/ SkipStage \/ ExitEarly \/ Receive \/ LeaveLoop
  BY <1>1, <1>2, <1>3 DEF BeginStage, SkipStage, ExitEarly, Receive, LeaveLoop
<1>4. CASE EndTeardown
  <2>1. /\ \A x \in ID : ev'[x] = IF ev[x] = "queued" THEN "dropped" ELSE ev[x]
        /\ UNCHANGED <<home, workerVars>>
    BY <1>4 DEF EndTeardown
  <2>2. {"dropped", "queued"} \cap (Settled \cup TaskState) = {}
    BY DEF Settled, TaskState
  <2>3. \A x \in ID : ev'[x] \in {"queued"} \cup TaskState => wpc[home[x[1]]] # "dead"
    BY <2>1, <2>2 DEF KeptInv, IInv, FailedInv
  <2> QED
    BY <2>1, <2>2, <2>3, UntouchedKeeps
<1>5. ASSUME NEW s \in Session, Collect(s) \/ PassOver(s) PROVE TrackerInv' /\ EvictionInv'
  BY <1>1, <1>2, <1>5 DEF Collect, PassOver
<1>6. ASSUME NEW s \in Session, Dispatch(s) PROVE TrackerInv' /\ EvictionInv'
  <2>1. /\ \A x \in ID : ev'[x] = IF x[1] = s THEN "queued" ELSE ev[x]
        /\ s \in pending
        /\ UNCHANGED <<home, wpc, workerVars>>
    BY <1>6, OfMember DEF Dispatch, IsNext
  <2>2. \A x \in ID : x[1] = s => ev[x] = "absent"
    BY <2>1, OfMember DEF KeptInv, IInv, UntouchedInv
  <2>3. "queued" \notin Settled /\ "absent" \notin Settled /\ {"completed", "failed", "skipped"} = Settled
    BY DEF Settled
  <2>4. \A x \in outputs \cup failed_ids \cup completions \cup drained : x \in ID /\ x[1] # s /\ ev'[x] = ev[x]
    BY <1>1, <2>1, <2>2, <2>3 DEF KeptInv, TrackerInv, IInv, RegistryInv
  <2>5. \A t \in Session : \A x \in Of(t) : x \in ID /\ x[1] = t
    BY OfMember, OfDisjoint
  <2>6. TrackerInv'
    <3>1. ASSUME NEW t \in failed_sessions PROVE \E x \in Of(t) : ev'[x] \in {"failed", "skipped"}
      <4>1. PICK x \in Of(t) : ev[x] \in {"failed", "skipped"}
        BY <3>1 DEF KeptInv, TrackerInv
      <4>2. x \in ID /\ x[1] # s
        BY <1>1, <2>2, <2>5, <4>1
      <4> QED
        BY <2>1, <4>1, <4>2
    <3> QED
      BY <2>1, <2>4, <3>1 DEF KeptInv, TrackerInv, workerVars
  <2>7. ASSUME NEW t \in Session, \A x \in Of(t) : ev'[x] \in Settled
        PROVE  /\ t \notin failed_sessions
               /\ \A x \in Of(t) : x \notin outputs \cup failed_ids \cup completions \cup drained
    <3>1. PICK e \in Event : TRUE
      BY SessionAssumption
    <3>2. t # s
      <4>1. <<s, e>> \in Of(s)
        BY DEF Of
      <4> QED
        BY <2>1, <2>3, <2>5, <2>7, <4>1
    <3>3. \A x \in Of(t) : ev[x] \in Settled
      BY <2>1, <2>5, <2>7, <3>2
    <3> QED
      BY <3>3 DEF KeptInv, EvictionInv
  <2>8. ASSUME NEW x \in ID, NEW y \in ID, x[1] = y[1], ev'[x] \in {"queued"} \cup TaskState, wpc[home[x[1]]] # "dead"
        PROVE  /\ y \in drained <=> ev'[y] \in Settled
               /\ y \in outputs <=> ev'[y] = "completed"
    <3>1. CASE x[1] = s
      BY <2>1, <2>3, <2>4, <2>8, <3>1
    <3>2. CASE x[1] # s
      BY <2>1, <2>8, <3>2 DEF KeptInv, EvictionInv
    <3> QED
      BY <3>1, <3>2
  <2> QED
    BY <2>1, <2>6, <2>7, <2>8 DEF EvictionInv, workerVars
<1> QED
  BY <1>3, <1>4, <1>5, <1>6 DEF Main

LEMMA KeptNext == KeptInv /\ [Next]_vars => KeptInv'
<1> SUFFICES ASSUME KeptInv, [Next]_vars PROVE KeptInv'
  OBVIOUS
<1>1. IInv'
  BY IInvNext DEF KeptInv
<1>2. CASE UNCHANGED vars
  BY <1>1, <1>2 DEF vars, mainVars, workerVars, KeptInv, TrackerInv, EvictionInv
<1>3. CASE Done
  BY <1>2, <1>3 DEF Done
<1>4. CASE Main
  BY <1>1, <1>4, MainKept DEF KeptInv
<1>5. ASSUME NEW x \in ID, Task(x) PROVE KeptInv'
  BY <1>1, <1>5, TaskKept DEF KeptInv
<1>6. ASSUME NEW w \in Workers,
             StartDraining(w) \/ CancelTasks(w) \/ ReachBoundary(w) \/ Crash(w)
      PROVE  KeptInv'
  BY <1>1, <1>6, WorkerKept DEF KeptInv
<1> QED
  BY <1>2, <1>3, <1>4, <1>5, <1>6 DEF Next

LEMMA KeptAlways == Spec => []KeptInv
BY KeptInit, KeptNext, PTL DEF Spec

\* What a worker keeps of a session goes with the session's last event, not
\* before and not later, whatever the graph and however workers crash.
THEOREM NothingIsKeptTooLong == Spec => []KeptExactlyWhileRunning
<1>1. ASSUME KeptInv, NEW s \in Session
      PROVE  LET settled == {x \in Of(s) : ev[x] \in Settled}
                 kept == Of(s) \cap (outputs \cup failed_ids \cup completions \cup drained)
             IN IF settled = Of(s)
                THEN kept = {} /\ s \notin failed_sessions
                ELSE wpc[home[s]] # "dead" /\ (\E x \in Of(s) : ev[x] \in {"queued"} \cup TaskState)
                       => /\ drained \cap Of(s) = settled
                          /\ outputs \cap Of(s) = {x \in Of(s) : ev[x] = "completed"}
  <2>1. ASSUME \A x \in Of(s) : ev[x] \in Settled
        PROVE  /\ s \notin failed_sessions
               /\ Of(s) \cap (outputs \cup failed_ids \cup completions \cup drained) = {}
    BY <1>1, <2>1 DEF KeptInv, EvictionInv
  <2>2. ASSUME wpc[home[s]] # "dead", NEW x \in Of(s), ev[x] \in {"queued"} \cup TaskState, NEW y \in Of(s)
        PROVE  /\ y \in drained <=> ev[y] \in Settled
               /\ y \in outputs <=> ev[y] = "completed"
    <3>1. x \in ID /\ y \in ID /\ x[1] = s /\ y[1] = s
      BY OfMember, OfDisjoint
    <3> QED
      BY <1>1, <2>2, <3>1 DEF KeptInv, EvictionInv
  <2> QED
    BY <2>1, <2>2
<1>2. KeptInv => KeptExactlyWhileRunning
  BY <1>1 DEF KeptExactlyWhileRunning
<1> QED
  BY <1>2, KeptAlways, PTL
-----------------------------------------------------------------------------
(* What is said of a session *)

RootCause == {"request_failed", "substitution", "predecessor_wait_failed"}

AllDone(e, s) == \A x \in Of(s) : e[x] = "completed"
Broken(e, s)  == \E x \in Of(s) : e[x] \in {"failed", "skipped"}

\* What is said of session s is true of events that are as e says: a failure is
\* told with a cause that is not the consequence of another.
Told(e, s, failed, cause) ==
  IF failed THEN cause \in RootCause /\ Broken(e, s) ELSE cause = "none" /\ AllDone(e, s)

\* The truth is in the completion queue, from there in the state of a session
\* that is complete, and from there in its metric.
NoticesInv ==
  \A i \in 1 .. Len(completion_queue) :
    Told(ev, completion_queue[i].session, completion_queue[i].failed, completion_queue[i].cause)

StatesInv ==
  \A s \in Session : IF state[s].is_complete THEN Told(ev, s, state[s].failed, state[s].cause)
                                             ELSE ~state[s].failed /\ state[s].cause = "none"

MetricsInv ==
  \A i \in 1 .. Len(session_metrics) :
    Told(ev, session_metrics[i].session, session_metrics[i].error # "none", session_metrics[i].error)

TruthInv == NoticesInv /\ StatesInv /\ MetricsInv

\* An event that has settled stays as it is.
LEMMA SettledStays ==
  ASSUME KeptInv, Next, NEW x \in ID, ev[x] \in Settled
  PROVE  ev'[x] = ev[x]
<1>1. ev \in [ID -> EvState] /\ pending \subseteq Session
  BY DEF KeptInv, IInv, TypeOK
<1>2. ({"queued", "absent"} \cup TaskState) \cap Settled = {}
  BY DEF Settled, TaskState
<1>3. CASE Main
  <2>1. CASE BeginStage \/ SkipStage \/ ExitEarly \/ Receive \/ LeaveLoop
    BY <2>1 DEF BeginStage, SkipStage, ExitEarly, Receive, LeaveLoop
  <2>2. CASE EndTeardown
    BY <1>2, <2>2 DEF EndTeardown
  <2>3. ASSUME NEW s \in Session, Collect(s) \/ PassOver(s) PROVE ev'[x] = ev[x]
    BY <2>3 DEF Collect, PassOver
  <2>4. ASSUME NEW s \in Session, Dispatch(s) PROVE ev'[x] = ev[x]
    <3>1. x \notin Of(s)
      BY <1>2, <2>4 DEF Dispatch, IsNext, KeptInv, IInv, UntouchedInv
    <3> QED
      BY <2>4, <3>1 DEF Dispatch
  <2> QED
    BY <1>3, <2>1, <2>2, <2>3, <2>4 DEF Main
<1>4. ASSUME NEW y \in ID, Task(y) PROVE ev'[x] = ev[x]
  <2>1. y # x
    BY <1>2, <1>4, TaskKinds
  <2>2. \E to : ev' = [ev EXCEPT ![y] = to]
    BY <1>4, TaskKinds DEF Moves, FailEvent, Complete, Settle
  <2> QED
    BY <1>1, <2>1, <2>2
<1>5. ASSUME NEW w \in Workers, StartDraining(w) \/ CancelTasks(w) \/ ReachBoundary(w) \/ Crash(w)
      PROVE  ev'[x] = ev[x]
  BY <1>2, <1>5 DEF StartDraining, CancelTasks, ReachBoundary, Crash, Tasks
<1> QED
  BY <1>3, <1>4, <1>5 DEF Next, Done, vars

\* What is true of a session stays true of it.
LEMMA ToldStays ==
  ASSUME KeptInv, Next, NEW s \in Session, NEW failed \in BOOLEAN, NEW cause, Told(ev, s, failed, cause)
  PROVE  Told(ev', s, failed, cause)
<1>1. {"completed", "failed", "skipped"} = Settled
  BY DEF Settled
<1>2. \A x \in Of(s) : ev[x] \in Settled => ev'[x] = ev[x]
  BY SettledStays, OfDisjoint
<1> QED
  BY <1>1, <1>2 DEF Told, AllDone, Broken

\* A notice says the truth: the first failure of a session is no consequence,
\* and a session all of whose events have completed has not failed.
LEMMA NoticeIsTrue ==
  ASSUME KeptInv, NEW x \in ID, Task(x)
  PROVE  \/ completion_queue' = completion_queue
         \/ \E n \in Notice : /\ completion_queue' = Append(completion_queue, n)
                              /\ Told(ev', n.session, n.failed, n.cause)
<1>1. /\ ev \in [ID -> EvState] /\ completions \subseteq ID
      /\ {"completed", "failed", "skipped"} = Settled
      /\ x[1] \in Session /\ x \in Of(x[1])
  BY OfMember DEF KeptInv, IInv, TypeOK, Settled
<1>2. ASSUME NEW how \in {"failed", "skipped"}, NEW cause \in Cause, FailEvent(x, how, cause),
             cause \notin {"predecessor_failed", "session_already_failed"}
               \/ x[1] \in failed_sessions \/ PredFailed(x)
      PROVE  \/ completion_queue' = completion_queue
             \/ \E n \in Notice : /\ completion_queue' = Append(completion_queue, n)
                                  /\ Told(ev', n.session, n.failed, n.cause)
  <2>1. CASE x[1] \in failed_sessions
    BY <1>2, <2>1 DEF FailEvent, FirstFailure
  <2>2. CASE x[1] \notin failed_sessions
    <3> DEFINE n == [session |-> x[1], failed |-> TRUE, cause |-> cause,
                     completed |-> DoneBy(x[1], completions),
                     cancelled |-> Cardinality(Event) - Cardinality(DoneBy(x[1], completions)) - 1]
    <3>1. completion_queue' = Append(completion_queue, n)
      BY <1>2, <2>2 DEF FailEvent, FirstFailure
    <3>2. DoneBy(x[1], completions) \subseteq Event
      BY DEF DoneBy
    <3>3. n \in Notice
      BY <1>1, <3>2, CancelledIsInt DEF Notice
    <3>4. ~PredFailed(x)
      <4>1. \A p \in PredsOf(x) : p[1] = x[1]
        BY DEF PredsOf
      <4> QED
        BY <2>2, <4>1 DEF PredFailed, KeptInv, TrackerInv
    <3>5. cause \in RootCause
      BY <1>2, <2>2, <3>4 DEF Cause, RootCause
    <3>6. ev'[x] = how
      BY <1>1, <1>2 DEF FailEvent, Settle
    <3>7. n.session = x[1] /\ n.failed = TRUE /\ n.cause = cause
      OBVIOUS
    <3> HIDE DEF n
    <3>8. Broken(ev', x[1])
      BY <1>1, <3>6 DEF Broken
    <3>9. Told(ev', n.session, n.failed, n.cause)
      BY <3>5, <3>7, <3>8 DEF Told
    <3> QED
      BY <3>1, <3>3, <3>9
  <2> QED
    BY <2>1, <2>2
<1>3. CASE Complete(x)
  <2> DEFINE c == completions \cup {x}
             n == [session |-> x[1], failed |-> x[1] \in failed_sessions, cause |-> "none",
                   completed |-> Event, cancelled |-> 0]
  <2>1. CASE ~AllCompleted(x[1], c)
    BY <1>3, <2>1 DEF Complete
  <2>2. CASE AllCompleted(x[1], c)
    <3>1. completion_queue' = Append(completion_queue, n)
      BY <1>3, <2>2 DEF Complete
    <3>2. n \in Notice
      BY <1>1 DEF Notice
    <3>3. \A y \in Of(x[1]) : y # x => ev[y] = "completed"
      BY <2>2 DEF AllCompleted, KeptInv, TrackerInv
    <3>4. ev[x] = "sent"
      BY <1>3 DEF Complete, Running
    <3>5. x[1] \notin failed_sessions
      <4>1. ~Broken(ev, x[1])
        BY <3>3, <3>4 DEF Broken
      <4> QED
        BY <4>1 DEF Broken, KeptInv, TrackerInv
    <3>6. ev'[x] = "completed" /\ \A y \in ID : y # x => ev'[y] = ev[y]
      BY <1>1, <1>3 DEF Complete, Settle
    <3>7. n.session = x[1] /\ ~n.failed /\ n.cause = "none"
      BY <3>5
    <3> HIDE DEF n, c
    <3>8. AllDone(ev', x[1])
      BY <1>1, <3>3, <3>6, OfDisjoint DEF AllDone
    <3>9. Told(ev', n.session, n.failed, n.cause)
      BY <3>7, <3>8 DEF Told
    <3> QED
      BY <3>1, <3>2, <3>9
  <2> QED
    BY <2>1, <2>2
<1> QED
  BY <1>2, <1>3, TaskKinds

LEMMA NoticesKept ==
  ASSUME KeptInv, TruthInv, Next
  PROVE  NoticesInv'
<1>1. completion_queue \in Seq(Notice)
  BY DEF KeptInv, IInv, TypeOK
<1>2. \A i \in 1 .. Len(completion_queue) :
        Told(ev, completion_queue[i].session, completion_queue[i].failed, completion_queue[i].cause)
  BY DEF TruthInv, NoticesInv
<1>3. ASSUME NEW n \in Notice, Told(ev, n.session, n.failed, n.cause)
      PROVE  Told(ev', n.session, n.failed, n.cause)
  BY <1>3, ToldStays DEF Notice
<1>4. \A i \in 1 .. Len(completion_queue) : completion_queue[i] \in Notice
  BY <1>1
<1>5. ASSUME completion_queue' = completion_queue PROVE NoticesInv'
  BY <1>2, <1>3, <1>4, <1>5 DEF NoticesInv
<1>6. CASE Receive
  <2>1. /\ completion_queue' = Tail(completion_queue) /\ completion_queue # <<>>
        /\ Len(Tail(completion_queue)) = Len(completion_queue) - 1
        /\ Len(completion_queue) \in Nat \ {0}
    BY <1>1, <1>6 DEF Receive
  <2>2. \A i \in 1 .. Len(Tail(completion_queue)) :
          i + 1 \in 1 .. Len(completion_queue) /\ Tail(completion_queue)[i] = completion_queue[i + 1]
    BY <1>1, <2>1
  <2> QED
    BY <1>2, <1>3, <1>4, <2>1, <2>2 DEF NoticesInv
<1>7. ASSUME NEW x \in ID, Task(x) PROVE NoticesInv'
  <2>1. CASE completion_queue' = completion_queue
    BY <1>5, <2>1
  <2>2. ASSUME NEW n \in Notice, completion_queue' = Append(completion_queue, n),
               Told(ev', n.session, n.failed, n.cause)
        PROVE  NoticesInv'
    <3>1. /\ Len(Append(completion_queue, n)) = Len(completion_queue) + 1
          /\ Len(completion_queue) \in Nat
          /\ Append(completion_queue, n)[Len(completion_queue) + 1] = n
          /\ \A i \in 1 .. Len(completion_queue) : Append(completion_queue, n)[i] = completion_queue[i]
      BY <1>1
    <3>2. ASSUME NEW i \in 1 .. Len(completion_queue')
          PROVE  Told(ev', completion_queue'[i].session, completion_queue'[i].failed, completion_queue'[i].cause)
      <4>1. CASE i = Len(completion_queue) + 1
        BY <2>2, <3>1, <4>1
      <4>2. CASE i \in 1 .. Len(completion_queue)
        BY <1>2, <1>3, <1>4, <2>2, <3>1, <4>2
      <4> QED
        BY <2>2, <3>1, <3>2, <4>1, <4>2
    <3> QED
      BY <3>2 DEF NoticesInv
  <2> QED
    BY <1>7, <2>1, <2>2, NoticeIsTrue
<1>8. ASSUME NEW w \in Workers, StartDraining(w) \/ CancelTasks(w) \/ ReachBoundary(w) \/ Crash(w)
      PROVE  NoticesInv'
  BY <1>5, <1>8 DEF StartDraining, CancelTasks, ReachBoundary, Crash
<1>9. ASSUME Main, ~Receive PROVE NoticesInv'
  BY <1>5, <1>9 DEF Main, BeginStage, SkipStage, ExitEarly, LeaveLoop, EndTeardown, Collect, Dispatch, PassOver
<1> QED
  BY <1>5, <1>6, <1>7, <1>8, <1>9 DEF Next, Done, vars

LEMMA StatesKept ==
  ASSUME KeptInv, TruthInv, Next
  PROVE  StatesInv'
<1>1. completion_queue \in Seq(Notice) /\ state \in [Session -> SessionState]
  BY DEF KeptInv, IInv, TypeOK
<1>2. ASSUME NEW s \in Session, state'[s] = state[s]
      PROVE  IF state'[s].is_complete THEN Told(ev', s, state'[s].failed, state'[s].cause)
                                      ELSE ~state'[s].failed /\ state'[s].cause = "none"
  <2>1. state[s].failed \in BOOLEAN
    BY <1>1 DEF SessionState
  <2> QED
    BY <1>2, <2>1, ToldStays DEF TruthInv, StatesInv
<1>3. ASSUME state' = state PROVE StatesInv'
  BY <1>2, <1>3 DEF StatesInv
<1>4. CASE Receive
  <2> DEFINE n == Head(completion_queue)
             t == n.session
  <2>1. /\ n \in Notice /\ n = completion_queue[1] /\ 1 \in 1 .. Len(completion_queue)
    BY <1>1, <1>4 DEF Receive
  <2>2. state' = IF t \in known THEN [state EXCEPT ![t] = StateAfter(t, n)] ELSE state
    BY <1>4 DEF Receive
  <2>3. Told(ev, t, n.failed, n.cause)
    BY <2>1 DEF TruthInv, NoticesInv
  <2>4. t \in Session /\ n.failed \in BOOLEAN
    BY <2>1 DEF Notice
  <2> HIDE DEF n
  <2>5. CASE t \notin known
    BY <1>3, <2>2, <2>5
  <2>6. CASE t \in known
    <3> DEFINE after == StateAfter(t, n)
    <3>1. \A s \in Session : state'[s] = IF s = t THEN after ELSE state[s]
      BY <1>1, <2>2, <2>6
    <3>2. /\ after.is_complete
          /\ after.failed = (state[t].failed \/ n.failed)
          /\ after.cause = IF state[t].cause = "none" THEN n.cause ELSE state[t].cause
      BY DEF StateAfter
    <3>3. /\ state[t].failed \in BOOLEAN
          /\ ~state[t].failed => state[t].cause = "none"
          /\ state[t].failed => state[t].cause \in RootCause /\ Broken(ev, t)
      BY <1>1, <2>4 DEF TruthInv, StatesInv, Told, SessionState
    <3>4. "none" \notin RootCause
      BY DEF RootCause
    <3>5. Told(ev, t, after.failed, after.cause) /\ after.failed \in BOOLEAN
      BY <2>3, <2>4, <3>2, <3>3, <3>4 DEF Told
    <3> HIDE DEF after
    <3>6. Told(ev', t, after.failed, after.cause)
      BY <2>4, <3>2, <3>5, ToldStays
    <3>7. ASSUME NEW s \in Session
          PROVE  IF state'[s].is_complete THEN Told(ev', s, state'[s].failed, state'[s].cause)
                                          ELSE ~state'[s].failed /\ state'[s].cause = "none"
      <4>1. CASE s = t
        BY <3>1, <3>2, <3>6, <4>1
      <4>2. CASE s # t
        BY <1>2, <3>1, <4>2
      <4> QED
        BY <4>1, <4>2
    <3> QED
      BY <3>7 DEF StatesInv
  <2> QED
    BY <2>5, <2>6
<1>5. ASSUME NEW t \in Session, Dispatch(t) PROVE StatesInv'
  <2>1. \A s \in Session : state'[s] = IF s = t THEN Fresh ELSE state[s]
    BY <1>1, <1>5 DEF Dispatch
  <2>2. ~Fresh.is_complete /\ ~Fresh.failed /\ Fresh.cause = "none"
    BY DEF Fresh
  <2>3. ASSUME NEW s \in Session
        PROVE  IF state'[s].is_complete THEN Told(ev', s, state'[s].failed, state'[s].cause)
                                        ELSE ~state'[s].failed /\ state'[s].cause = "none"
    <3>1. CASE s = t
      BY <2>1, <2>2, <3>1
    <3>2. CASE s # t
      BY <1>2, <2>1, <3>2
    <3> QED
      BY <3>1, <3>2
  <2> QED
    BY <2>3 DEF StatesInv
<1>6. ASSUME NEW x \in ID, Task(x) PROVE state' = state
  BY <1>6, TaskKinds DEF unchangedByWorkers, mainVars, FailEvent, Complete
<1>7. ASSUME NEW w \in Workers, StartDraining(w) \/ CancelTasks(w) \/ ReachBoundary(w) \/ Crash(w)
      PROVE  state' = state
  BY <1>7 DEF StartDraining, CancelTasks, ReachBoundary, Crash, unchangedByWorkers, mainVars
<1>8. ASSUME Main, ~Receive, \A s \in Session : ~Dispatch(s) PROVE state' = state
  BY <1>8 DEF Main, BeginStage, SkipStage, ExitEarly, LeaveLoop, EndTeardown, Collect, PassOver
<1> QED
  BY <1>3, <1>4, <1>5, <1>6, <1>7, <1>8 DEF Next, Done, vars, mainVars

LEMMA MetricsKept ==
  ASSUME KeptInv, TruthInv, Next
  PROVE  MetricsInv'
<1>1. session_metrics \in Seq(Metric) /\ state \in [Session -> SessionState]
  BY DEF KeptInv, IInv, TypeOK
<1>2. \A i \in 1 .. Len(session_metrics) :
        /\ session_metrics[i] \in Metric
        /\ Told(ev, session_metrics[i].session, session_metrics[i].error # "none", session_metrics[i].error)
  <2>1. \A i \in 1 .. Len(session_metrics) : session_metrics[i] \in Metric
    BY <1>1
  <2>2. \A i \in 1 .. Len(session_metrics) :
          Told(ev, session_metrics[i].session, session_metrics[i].error # "none", session_metrics[i].error)
    BY DEF TruthInv, MetricsInv
  <2> QED
    BY <2>1, <2>2
<1>3. ASSUME NEW m \in Metric, Told(ev, m.session, m.error # "none", m.error)
      PROVE  Told(ev', m.session, m.error # "none", m.error)
  BY <1>3, ToldStays DEF Metric
<1>4. ASSUME session_metrics' = session_metrics PROVE MetricsInv'
  BY <1>1, <1>2, <1>3, <1>4 DEF MetricsInv
<1>5. ASSUME NEW s \in Session, Collect(s) PROVE MetricsInv'
  <2> DEFINE m == MetricOf(s)
  <2>1. m \in Metric /\ session_metrics' = Append(session_metrics, m)
    BY <1>1, <1>5 DEF Collect, MetricOf, Metric, SessionState, KeptInv, IInv, TypeOK
  <2>2. Told(ev, s, state[s].failed, state[s].cause) /\ state[s].failed \in BOOLEAN
    BY <1>1, <1>5 DEF Collect, TruthInv, StatesInv, SessionState
  <2>3. /\ m.session = s
        /\ m.error = IF state[s].failed THEN state[s].cause ELSE "none"
    BY DEF MetricOf
  <2> HIDE DEF m
  <2>4. Told(ev, m.session, m.error # "none", m.error)
    BY <2>2, <2>3 DEF Told, RootCause
  <2>5. Told(ev', m.session, m.error # "none", m.error)
    BY <1>3, <2>1, <2>4
  <2>6. /\ Len(Append(session_metrics, m)) = Len(session_metrics) + 1
        /\ Len(session_metrics) \in Nat
        /\ Append(session_metrics, m)[Len(session_metrics) + 1] = m
        /\ \A i \in 1 .. Len(session_metrics) :
             Append(session_metrics, m)[i] = session_metrics[i] /\ session_metrics[i] \in Metric
    BY <1>1, <2>1
  <2>7. ASSUME NEW i \in 1 .. Len(session_metrics')
        PROVE  Told(ev', session_metrics'[i].session, session_metrics'[i].error # "none", session_metrics'[i].error)
    <3>1. CASE i = Len(session_metrics) + 1
      BY <2>1, <2>5, <2>6, <3>1
    <3>2. CASE i \in 1 .. Len(session_metrics)
      BY <1>2, <1>3, <2>1, <2>6, <3>2
    <3> QED
      BY <2>1, <2>6, <2>7, <3>1, <3>2
  <2> QED
    BY <2>7 DEF MetricsInv
<1>6. ASSUME NEW x \in ID, Task(x) PROVE session_metrics' = session_metrics
  BY <1>6, TaskKinds DEF unchangedByWorkers, mainVars, FailEvent, Complete
<1>7. ASSUME NEW w \in Workers, StartDraining(w) \/ CancelTasks(w) \/ ReachBoundary(w) \/ Crash(w)
      PROVE  session_metrics' = session_metrics
  BY <1>7 DEF StartDraining, CancelTasks, ReachBoundary, Crash, unchangedByWorkers, mainVars
<1>8. ASSUME Main, \A s \in Session : ~Collect(s) PROVE session_metrics' = session_metrics
  BY <1>8 DEF Main, BeginStage, SkipStage, ExitEarly, Receive, LeaveLoop, EndTeardown, Dispatch, PassOver
<1> QED
  BY <1>4, <1>5, <1>6, <1>7, <1>8 DEF Next, Done, vars, mainVars

LEMMA TruthAlways == Spec => []TruthInv
<1>1. Init => TruthInv
  BY DEF Init, TruthInv, NoticesInv, StatesInv, MetricsInv, Fresh
<1>2. KeptInv /\ TruthInv /\ [Next]_vars => TruthInv'
  <2>1. ASSUME TruthInv, UNCHANGED vars PROVE TruthInv'
    BY <2>1 DEF vars, mainVars, TruthInv, NoticesInv, StatesInv, MetricsInv, Told, AllDone, Broken, Of
  <2> QED
    BY <2>1, NoticesKept, StatesKept, MetricsKept DEF TruthInv
<1> QED
  BY <1>1, <1>2, KeptAlways, PTL DEF Spec

\* A session is reported as succeeded only if all of its events have completed,
\* and a failed one with the cause that broke it, whatever the graph and however
\* failures cascade.
THEOREM SessionsAreReportedTruly == Spec => []ReportedTruly
<1>1. ASSUME KeptInv, TruthInv, NEW s \in Session, NEW i \in MetricsOf(s)
      PROVE  /\ session_metrics[i].error = "none" <=> (\A x \in Of(s) : ev[x] = "completed")
             /\ session_metrics[i].error \notin {"predecessor_failed", "session_already_failed"}
  <2>1. Told(ev, s, session_metrics[i].error # "none", session_metrics[i].error)
    BY <1>1 DEF MetricsOf, TruthInv, MetricsInv
  <2> QED
    BY <2>1 DEF Told, AllDone, Broken, RootCause
<1>2. KeptInv /\ TruthInv => ReportedTruly
  BY <1>1 DEF ReportedTruly
<1> QED
  BY <1>2, KeptAlways, TruthAlways, PTL
-----------------------------------------------------------------------------
(* The accounts of the stages: a session waits in its stage without a trace *)
(* in any report, and leaves it with one.                                   *)

StrandedIn(s) == {n \in 1 .. Stages : s \in stage_info[n].stranded}

Traceless(s) == StrandedIn(s) = {} /\ MetricsOf(s) = {}

TracedOnce(s) ==
  \/ MetricsOf(s) = {} /\ \E n \in 1 .. Stages : StrandedIn(s) = {n}
  \/ StrandedIn(s) = {} /\ \E i \in 1 .. Len(session_metrics) : MetricsOf(s) = {i}

Underway == mpc \in {"loop", "teardown"}

\* Sessions the stages have not yet taken, or not yet done with.
Open(s) == s > session_cursor \/ (Underway /\ s \in pending \cup active)

TraceInv ==
  \A s \in Session :
    IF Open(s) THEN Traceless(s) ELSE TracedOnce(s) \/ (s \in Unbuildable /\ Traceless(s))

\* The pool and the sessions that wait for it are apart, and all were taken.
PoolInv ==
  Underway => /\ pending \cap active = {}
              /\ \A s \in pending \cup active : s <= session_cursor

\* A stage publishes once, and calls itself completed only with nothing left.
PublishedInv ==
  /\ mpc # "done" => \A n \in 1 .. Stages : n >= stage =>
                        stage_info[n].stranded = {} /\ stage_info[n].status = "none"
  /\ mpc = "teardown" /\ stage_status = "COMPLETED" => pending = {} /\ active = {}
  /\ \A n \in 1 .. Stages : stage_info[n].status = "COMPLETED" => stage_info[n].stranded = {}

AccountInv == TraceInv /\ PoolInv /\ PublishedInv

LEMMA AccountInit == Init => AccountInv
<1> SUFFICES ASSUME Init PROVE AccountInv
  OBVIOUS
<1>1. \A s \in Session : Traceless(s) /\ Open(s)
  BY SessionAssumption DEF Init, Traceless, StrandedIn, MetricsOf, Open, Session
<1>2. TraceInv
  BY <1>1 DEF TraceInv
<1> QED
  BY <1>2 DEF Init, AccountInv, PoolInv, PublishedInv, Underway

\* A step that leaves the reports alone.
LEMMA TracesStay ==
  ASSUME NEW s \in Session, UNCHANGED <<session_metrics, stage_info>>
  PROVE  /\ Traceless(s)' <=> Traceless(s)
         /\ TracedOnce(s)' <=> TracedOnce(s)
BY DEF Traceless, TracedOnce, StrandedIn, MetricsOf

LEMMA AccountMain ==
  ASSUME TypeOK, AccountInv, Main
  PROVE  AccountInv'
<1> USE DEF AccountInv
<1>0. /\ stage \in 1 .. Stages /\ session_cursor \in 0 .. Sessions
      /\ stage_info \in [1 .. Stages -> [status : StageStatus \cup {"none"}, stranded : SUBSET Session]]
      /\ session_metrics \in Seq(Metric)
      /\ pending \subseteq Session /\ active \subseteq Session
  BY DEF TypeOK
<1>1. CASE BeginStage
  <2>1. /\ mpc = "begin" /\ mpc' = "loop" /\ active' = {}
        /\ UNCHANGED <<stage, session_metrics, stage_info>>
        /\ pending' = session_cursor + 1 .. session_cursor'
        /\ session_cursor' \in Int /\ session_cursor <= session_cursor'
    BY <1>1, SliceFacts, SessionAssumption DEF BeginStage, TypeOK
  <2>2. ASSUME NEW s \in Session
        PROVE  IF Open(s)' THEN Traceless(s)' ELSE (TracedOnce(s) \/ (s \in Unbuildable /\ Traceless(s)))'
    <3>1. Open(s)' <=> s > session_cursor
      BY <1>0, <2>1 DEF Open, Underway, Session
    <3>2. Open(s) <=> s > session_cursor
      BY <2>1 DEF Open, Underway
    <3> QED
      BY <2>1, <3>1, <3>2, TracesStay DEF TraceInv
  <2>3. TraceInv'
    BY <2>2 DEF TraceInv
  <2>4. PoolInv'
    BY <2>1 DEF PoolInv
  <2>5. PublishedInv'
    BY <2>1 DEF PublishedInv
  <2> QED
    BY <2>3, <2>4, <2>5
<1>2. CASE SkipStage
  <2>1. /\ mpc = "begin" /\ mpc' \in {"begin", "done"} /\ stage' \in {stage, stage + 1}
        /\ UNCHANGED <<session_cursor, pending, active, session_metrics, stage_info>>
    BY <1>2 DEF SkipStage, NextStage
  <2>2. \A s \in Session : Open(s)' <=> Open(s)
    BY <2>1 DEF Open, Underway
  <2>3. TraceInv'
    BY <2>1, <2>2, TracesStay DEF TraceInv
  <2>4. PoolInv'
    BY <2>1 DEF PoolInv, Underway
  <2>5. PublishedInv'
    BY <1>0, <2>1 DEF PublishedInv
  <2> QED
    BY <2>3, <2>4, <2>5
<1>3. CASE ExitEarly \/ LeaveLoop
  <2>1. /\ mpc = "loop" /\ mpc' = "teardown"
        /\ stage_status' = "COMPLETED" => pending = {} /\ active = {}
        /\ UNCHANGED <<stage, session_cursor, pending, active, session_metrics, stage_info>>
    BY <1>3 DEF ExitEarly, EarlyStatus, LeaveLoop, AllSessionsDone
  <2>2. \A s \in Session : Open(s)' <=> Open(s)
    BY <2>1 DEF Open, Underway
  <2>3. TraceInv'
    BY <2>1, <2>2, TracesStay DEF TraceInv
  <2>4. PoolInv'
    BY <2>1 DEF PoolInv, Underway
  <2>5. PublishedInv'
    BY <2>1 DEF PublishedInv
  <2> QED
    BY <2>3, <2>4, <2>5
<1>4. CASE Receive
  <2>1. UNCHANGED <<mpc, stage, stage_status, session_cursor, pending, active, session_metrics, stage_info>>
    BY <1>4 DEF Receive
  <2>2. \A s \in Session : Open(s)' <=> Open(s)
    BY <2>1 DEF Open, Underway
  <2>3. TraceInv'
    BY <2>1, <2>2, TracesStay DEF TraceInv
  <2> QED
    BY <2>1, <2>3 DEF PoolInv, PublishedInv, Underway
<1>5. CASE EndTeardown
  <2> DEFINE left   == active \cup pending
             status == IF LostWorker /\ stage_status = "COMPLETED" THEN "FAILED" ELSE stage_status
  <2>1. /\ mpc = "teardown" /\ mpc' \in {"begin", "done"}
        /\ mpc' = "begin" => stage' = stage + 1
        /\ UNCHANGED <<session_cursor, pending, active, session_metrics>>
    BY <1>5 DEF EndTeardown, NextStage
  <2>2. \A n \in 1 .. Stages :
          stage_info'[n] = IF n = stage THEN [status |-> status, stranded |-> left] ELSE stage_info[n]
    BY <1>0, <1>5 DEF EndTeardown, Stranded
  <2>3. stage_info[stage].stranded = {}
    BY <1>0, <2>1 DEF PublishedInv
  <2>4. status = "COMPLETED" => left = {}
    BY <2>1 DEF PublishedInv
  <2> HIDE DEF left, status
  <2>5. ASSUME NEW s \in Session
        PROVE  /\ MetricsOf(s)' = MetricsOf(s)
               /\ StrandedIn(s)' = IF s \in left THEN StrandedIn(s) \cup {stage} ELSE StrandedIn(s)
    BY <1>0, <2>1, <2>2, <2>3 DEF MetricsOf, StrandedIn
  <2>6. ASSUME NEW s \in Session
        PROVE  IF Open(s)' THEN Traceless(s)' ELSE (TracedOnce(s) \/ (s \in Unbuildable /\ Traceless(s)))'
    <3>1. CASE s \in left
      <4>1. Open(s) /\ ~Open(s)'
        BY <1>0, <2>1, <3>1 DEF Open, Underway, left, PoolInv, Session
      <4>2. Traceless(s)
        BY <4>1 DEF TraceInv
      <4>3. MetricsOf(s)' = {} /\ StrandedIn(s)' = {stage}
        BY <2>5, <3>1, <4>2 DEF Traceless
      <4>4. TracedOnce(s)'
        BY <1>0, <4>3 DEF TracedOnce
      <4> QED
        BY <4>1, <4>4
    <3>2. CASE s \notin left
      <4>1. Open(s)' <=> Open(s)
        BY <2>1, <3>2 DEF Open, Underway, left
      <4>2. MetricsOf(s)' = MetricsOf(s) /\ StrandedIn(s)' = StrandedIn(s)
        BY <2>5, <3>2
      <4>3. (Traceless(s)' <=> Traceless(s)) /\ (TracedOnce(s)' <=> TracedOnce(s))
        BY <2>1, <4>2 DEF Traceless, TracedOnce
      <4> QED
        BY <4>1, <4>3 DEF TraceInv
    <3> QED
      BY <3>1, <3>2
  <2>7. TraceInv'
    BY <2>6 DEF TraceInv
  <2>8. PublishedInv'
    <3>1. ASSUME mpc' # "done", NEW n \in 1 .. Stages, n >= stage'
          PROVE  stage_info'[n].stranded = {} /\ stage_info'[n].status = "none"
      BY <1>0, <2>1, <2>2, <3>1 DEF PublishedInv
    <3>2. ASSUME NEW n \in 1 .. Stages, stage_info'[n].status = "COMPLETED"
          PROVE  stage_info'[n].stranded = {}
      BY <2>2, <2>4, <3>2 DEF PublishedInv
    <3> QED
      BY <2>1, <3>1, <3>2 DEF PublishedInv
  <2> QED
    BY <2>1, <2>7, <2>8 DEF PoolInv, Underway
<1>6. ASSUME NEW t \in Session, Collect(t) PROVE AccountInv'
  <2> DEFINE m == MetricOf(t)
  <2>1. /\ mpc = "loop" /\ t \in active /\ active' = active \ {t}
        /\ session_metrics' = Append(session_metrics, m)
        /\ UNCHANGED <<mpc, stage, stage_status, session_cursor, pending, stage_info>>
    BY <1>6 DEF Collect
  <2>2. m.session = t
    BY DEF MetricOf
  <2> HIDE DEF m
  <2>3. /\ Len(session_metrics) \in Nat /\ Len(session_metrics') = Len(session_metrics) + 1
        /\ session_metrics'[Len(session_metrics) + 1] = m
        /\ \A i \in 1 .. Len(session_metrics) : session_metrics'[i] = session_metrics[i]
    BY <1>0, <2>1
  <2>4. ASSUME NEW s \in Session
        PROVE  /\ StrandedIn(s)' = StrandedIn(s)
               /\ s # t => MetricsOf(s)' = MetricsOf(s)
               /\ MetricsOf(t) = {} => MetricsOf(t)' = {Len(session_metrics) + 1}
    BY <2>1, <2>2, <2>3 DEF MetricsOf, StrandedIn
  <2>5. ASSUME NEW s \in Session
        PROVE  IF Open(s)' THEN Traceless(s)' ELSE (TracedOnce(s) \/ (s \in Unbuildable /\ Traceless(s)))'
    <3>1. CASE s = t
      <4>1. Open(t) /\ ~Open(t)'
        BY <1>0, <2>1 DEF Open, Underway, PoolInv, Session
      <4>2. Traceless(t)
        BY <4>1 DEF TraceInv
      <4>3. StrandedIn(t)' = {} /\ MetricsOf(t)' = {Len(session_metrics) + 1}
        BY <2>4, <4>2 DEF Traceless
      <4>4. TracedOnce(t)'
        BY <2>3, <4>3 DEF TracedOnce
      <4> QED
        BY <3>1, <4>1, <4>4
    <3>2. CASE s # t
      <4>1. Open(s)' <=> Open(s)
        BY <2>1, <3>2 DEF Open, Underway
      <4>2. MetricsOf(s)' = MetricsOf(s) /\ StrandedIn(s)' = StrandedIn(s)
        BY <2>4, <3>2
      <4>3. (Traceless(s)' <=> Traceless(s)) /\ (TracedOnce(s) => TracedOnce(s)')
        BY <2>3, <4>2 DEF Traceless, TracedOnce
      <4> QED
        BY <4>1, <4>3 DEF TraceInv
    <3> QED
      BY <3>1, <3>2
  <2>6. TraceInv'
    BY <2>5 DEF TraceInv
  <2>7. PoolInv'
    BY <2>1 DEF PoolInv, Underway
  <2>8. PublishedInv'
    BY <2>1 DEF PublishedInv
  <2> QED
    BY <2>6, <2>7, <2>8
<1>7. ASSUME NEW t \in Session, Dispatch(t) PROVE AccountInv'
  <2>1. /\ mpc = "loop" /\ t \in pending /\ pending' = pending \ {t} /\ active' = active \cup {t}
        /\ UNCHANGED <<mpc, stage, stage_status, session_cursor, session_metrics, stage_info>>
    BY <1>7 DEF Dispatch, IsNext
  <2>2. \A s \in Session : Open(s)' <=> Open(s)
    BY <2>1 DEF Open, Underway
  <2>3. TraceInv'
    BY <2>1, <2>2, TracesStay DEF TraceInv
  <2>4. PoolInv'
    BY <2>1 DEF PoolInv, Underway
  <2>5. PublishedInv'
    BY <2>1 DEF PublishedInv
  <2> QED
    BY <2>3, <2>4, <2>5
<1>8. ASSUME NEW t \in Session, PassOver(t) PROVE AccountInv'
  <2>1. /\ mpc = "loop" /\ t \in pending /\ pending' = pending \ {t} /\ t \in Unbuildable
        /\ UNCHANGED <<mpc, stage, stage_status, session_cursor, active, session_metrics, stage_info>>
    BY <1>8 DEF PassOver, IsNext
  <2>2. Traceless(t)
    BY <2>1 DEF TraceInv, Open, Underway
  <2>3. \A s \in Session : s # t => (Open(s)' <=> Open(s))
    BY <2>1 DEF Open, Underway
  <2>4. ASSUME NEW s \in Session
        PROVE  IF Open(s)' THEN Traceless(s)' ELSE (TracedOnce(s) \/ (s \in Unbuildable /\ Traceless(s)))'
    BY <2>1, <2>2, <2>3, TracesStay DEF TraceInv
  <2>5. TraceInv'
    BY <2>4 DEF TraceInv
  <2>6. PoolInv'
    BY <2>1 DEF PoolInv, Underway
  <2>7. PublishedInv'
    BY <2>1 DEF PublishedInv
  <2> QED
    BY <2>5, <2>6, <2>7
<1> QED
  BY <1>1, <1>2, <1>3, <1>4, <1>5, <1>6, <1>7, <1>8 DEF Main

LEMMA AccountStep ==
  ASSUME TypeOK, AccountInv, [Next]_vars
  PROVE  AccountInv'
<1>1. ASSUME UNCHANGED mainVars PROVE AccountInv'
  <2>1. \A s \in Session : Open(s)' <=> Open(s)
    BY <1>1 DEF mainVars, Open, Underway
  <2>2. TraceInv'
    BY <1>1, <2>1, TracesStay DEF mainVars, AccountInv, TraceInv
  <2> QED
    BY <1>1, <2>2 DEF mainVars, AccountInv, PoolInv, PublishedInv, Underway
<1>2. ASSUME NEW x \in ID, Task(x) PROVE UNCHANGED mainVars
  BY <1>2, TaskKinds DEF unchangedByWorkers, mainVars, FailEvent, Complete
<1>3. ASSUME NEW w \in Workers, StartDraining(w) \/ CancelTasks(w) \/ ReachBoundary(w) \/ Crash(w)
      PROVE  UNCHANGED mainVars
  BY <1>3 DEF StartDraining, CancelTasks, ReachBoundary, Crash, unchangedByWorkers, mainVars
<1> QED
  BY <1>1, <1>2, <1>3, AccountMain DEF Next, Done, vars

(* A session the stages have taken is reported once or stranded in one      *)
(* stage, never both, whatever ends the stages and whoever crashes in them, *)
(* and a stage that calls itself completed has stranded none                *)
(* (run_session_stage).                                                     *)
THEOREM SessionsAreAccounted == Spec => []SessionsAccounted
<1>1. ASSUME TypeOK, AccountInv, mpc \in {"begin", "done"}, NEW s \in 1 .. session_cursor
      PROVE  LET traces == Cardinality({n \in 1 .. Stages : s \in stage_info[n].stranded})
                           + Cardinality(MetricsOf(s))
             IN traces = 1 \/ (s \in Unbuildable /\ traces = 0)
  <2>1. s \in Session /\ ~Open(s)
    <3>1. session_cursor \in 0 .. Sessions
      BY <1>1 DEF TypeOK
    <3>2. s \in Session /\ ~(s > session_cursor)
      BY <3>1, SessionAssumption DEF Session
    <3> QED
      BY <1>1, <3>2 DEF Open, Underway
  <2>2. TracedOnce(s) \/ (s \in Unbuildable /\ Traceless(s))
    BY <1>1, <2>1 DEF AccountInv, TraceInv
  <2>4. TracedOnce(s) => Cardinality(StrandedIn(s)) + Cardinality(MetricsOf(s)) = 1
    <3>1. ASSUME NEW n, NEW S, NEW T, S = {}, T = {n}
          PROVE  Cardinality(T) + Cardinality(S) = 1 /\ Cardinality(S) + Cardinality(T) = 1
      <4>1. Cardinality(S) = 0
        BY <3>1, FS_EmptySet
      <4>2. Cardinality(T) = 1
        BY <3>1, FS_Singleton
      <4> QED
        BY <4>1, <4>2
    <3> QED
      BY <3>1 DEF TracedOnce
  <2>5. Traceless(s) => Cardinality(StrandedIn(s)) + Cardinality(MetricsOf(s)) = 0
    BY FS_EmptySet DEF Traceless
  <2> QED
    BY <2>2, <2>4, <2>5 DEF StrandedIn
<1>2. TypeOK /\ AccountInv => SessionsAccounted
  BY <1>1 DEF SessionsAccounted, AccountInv, PublishedInv
<1>3. TypeOK /\ AccountInv /\ [Next]_vars => AccountInv'
  BY AccountStep
<1> QED
  BY <1>2, <1>3, AccountInit, SessionTypes, PTL DEF Spec
=============================================================================
