--------------------------- MODULE RequestMetrics ---------------------------
(***************************************************************************)
(* The way of a metric from the client to the report                       *)
(* (metrics/request_collector/).  A worker puts the metric of a finished   *)
(* request into a queue: its feeder thread writes it into the pipe that    *)
(* all workers share.  The collector in the main process takes batches out *)
(* of the pipe and shows each metric to its observers, among them the      *)
(* circuit breakers, which end a stage early.  When the load is over the   *)
(* main process puts a None, with which the collector ends.                *)
(***************************************************************************)
EXTENDS RequestAttempts, CircuitBreaker

CONSTANTS
  Deployments, \* request -> the worker that sends it; no workers: sent in-process
  Matching,    \* the requests whose metrics match the breaker's expressions
  MaxTime      \* bound of the clock

InProcess == "none"

\* With workers they send every request, without workers nobody else does.
RequestMetricsAssumption ==
  \A d \in Deployments : (\E r \in Requests : d[r] = InProcess) => \A r \in Requests : d[r] = InProcess

Metric    == [request : Requests, error : BOOLEAN]

VARIABLES
  workerOf,   \* the deployment
  feeder,     \* metrics in the buffer of each worker's feeder thread
  mainFeeder, \* whether the None is in that of the main process
  pipe,       \* what has been written, and not read; 0 is the None
  metrics,    \* what the collector has
  breaker,
  now,        \* the clock of the main process
  over,       \* whether the load is over
  ended,      \* whether the collector has ended
  written,    \* all that was written into the pipe, or recorded in-process (history)
  samples     \* fed to the breaker (history)

collectorVars == <<workerOf, feeder, mainFeeder, pipe, metrics, breaker, now, over, ended, written, samples>>
vars == <<attemptVars, collectorVars>>

Workers == {workerOf[r] : r \in Requests} \ {InProcess}

NoMetric == [request |-> CHOOSE r \in Requests : TRUE, error |-> FALSE]
Item == [none : BOOLEAN, metric : Metric]
Sentinel == [none |-> TRUE, metric |-> NoMetric]

TypeOK ==
  /\ AttemptsTypeOK
  /\ workerOf \in Deployments
  /\ feeder \in [Workers -> Seq(Metric)]
  /\ pipe \in Seq(Item) /\ written \in Seq(Item)
  /\ metrics \in Seq(Metric)
  /\ breaker \in Breaker /\ samples \in Seq(Sample)
  /\ now \in 0 .. MaxTime
  /\ {mainFeeder, over, ended} \subseteq BOOLEAN

Init ==
  /\ AttemptsInit
  /\ workerOf \in Deployments
  /\ feeder = [w \in Workers |-> <<>>]
  /\ mainFeeder = FALSE
  /\ pipe = <<>> /\ metrics = <<>> /\ written = <<>> /\ samples = <<>>
  /\ breaker = ClosedBreaker
  /\ now = 0
  /\ over = FALSE
  /\ ended = FALSE
-----------------------------------------------------------------------------
(* The collector and its observers *)

SampleOf(m) == [ts |-> now, hit |-> m.error]

\* A metric that matches is fed to the breaker.
Observe(seen, m) ==
  IF m.request \in Matching
  THEN [breaker |-> FeedBreaker(seen.breaker, SampleOf(m)), samples |-> Append(seen.samples, SampleOf(m))]
  ELSE seen

\* Each metric of a batch, in order, is shown to the breaker.
Notify(batch) ==
  LET seen == FoldLeft(Observe, [breaker |-> breaker, samples |-> samples], batch)
  IN breaker' = seen.breaker /\ samples' = seen.samples

Collect(batch) == metrics' = metrics \o batch /\ Notify(batch)

\* record_metric, in a worker or in-process.
RecordMetric(w, m) ==
  IF w = InProcess
  THEN /\ Collect(<<m>>)
       /\ written' = Append(written, [none |-> FALSE, metric |-> m])
       /\ UNCHANGED <<workerOf, feeder, mainFeeder, pipe, now, over, ended>>
  ELSE /\ feeder' = [feeder EXCEPT ![w] = Append(@, m)]
       /\ UNCHANGED <<workerOf, mainFeeder, pipe, metrics, breaker, now, over, ended, written, samples>>

Write(x) == pipe' = Append(pipe, x) /\ written' = Append(written, x)

Feed(w) ==
  /\ feeder[w] # <<>>
  /\ Write([none |-> FALSE, metric |-> Head(feeder[w])])
  /\ feeder' = [feeder EXCEPT ![w] = Tail(@)]
  /\ UNCHANGED <<attemptVars, workerOf, mainFeeder, metrics, breaker, now, over, ended, samples>>

NoneIsPut == TRUE

\* The load is over when every request is: the stages have been torn down. The
\* context of the collector is left, and a None put.
LeaveContext ==
  /\ ~over
  /\ \A r \in Requests : at[r] \in Settled
  /\ over' = TRUE
  /\ IF Workers = {} THEN ended' = TRUE /\ UNCHANGED mainFeeder
                     ELSE mainFeeder' = NoneIsPut /\ UNCHANGED ended
  /\ UNCHANGED <<attemptVars, workerOf, feeder, pipe, metrics, breaker, now, written, samples>>

FeedNone ==
  /\ mainFeeder
  /\ Write(Sentinel)
  /\ mainFeeder' = FALSE
  /\ UNCHANGED <<attemptVars, workerOf, feeder, metrics, breaker, now, over, ended, samples>>

MetricsOf(items) == [i \in 1 .. Len(items) |-> items[i].metric]

\* Defect: a batch that the None ends is dropped.
DroppedAtNone(n) == IF pipe[n].none THEN <<>> ELSE SubSeq(pipe, 1, n)

\* What is read up to the n-th item, without the None.
Batch(n) == SubSeq(pipe, 1, IF pipe[n].none THEN n - 1 ELSE n)

\* _drain_batch takes items as long as it finds any, and no more after a None.
DrainBatch ==
  /\ ~ended
  /\ \E n \in 1 .. Len(pipe) :
       /\ \A i \in 1 .. n - 1 : ~pipe[i].none
       /\ Collect(MetricsOf(Batch(n)))
       /\ pipe' = SubSeq(pipe, n + 1, Len(pipe))
       /\ ended' = pipe[n].none
  /\ UNCHANGED <<attemptVars, workerOf, feeder, mainFeeder, now, over, written>>

Tick ==
  /\ now < MaxTime
  /\ now' = now + 1
  /\ UNCHANGED <<attemptVars, workerOf, feeder, mainFeeder, pipe, metrics, breaker, over, ended, written, samples>>

\* A request ends with the metric of its last attempt.
Record(r) ==
  /\ Close(r)
  /\ RecordMetric(workerOf[r], [request |-> r, error |-> error[r]])

Request(r) == AttemptStep(r) /\ UNCHANGED collectorVars

Done == ended /\ UNCHANGED vars

Next ==
  \/ \E r \in Requests : Request(r) \/ Record(r)
  \/ \E w \in Workers : Feed(w)
  \/ LeaveContext \/ FeedNone \/ DrainBatch \/ Tick \/ Done

Spec == Init /\ [][Next]_vars

\* Attempts are bounded in time and number, and processes and threads run.
FairSpec ==
  /\ Spec
  /\ \A r \in Requests : WF_vars(Request(r)) /\ WF_vars(Record(r))
  /\ WF_vars(\E w \in Workers : Feed(w))
  /\ WF_vars(LeaveContext) /\ WF_vars(FeedNone) /\ WF_vars(DrainBatch)
-----------------------------------------------------------------------------
(* Properties *)

\* What was written before the None, or everything so far.
BeforeNone ==
  LET nones == {i \in 1 .. Len(written) : written[i].none}
  IN IF nones = {} THEN written ELSE SubSeq(written, 1, (CHOOSE i \in nones : TRUE) - 1)

\* The collector keeps every metric that reaches it before the None, once and in
\* order, whatever the batches: those of the last batch, which the None ends, too.
KeepsWhatArrives == ended => metrics = MetricsOf(BeforeNone)

\* The breaker is open exactly if the metrics collected so far should open it, in
\* the order and at the times they were collected, not those they were recorded.
BreakerOpensRightly == breaker.open <=> ShouldOpen(samples)

\* Every run is collected to its end: whatever becomes of the requests, the None
\* arrives, and the collector sees it.
CollectionEnds == <>ended
=============================================================================
