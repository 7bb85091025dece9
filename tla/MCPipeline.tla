----------------------------- MODULE MCPipeline -----------------------------
(* The way of a request to its worker and of its metric to the report: the *)
(* split of a concurrency level (C), a channel of the request queue (Q), a *)
(* request and its metric (M), and the stages of a load without workers    *)
(* (S).  These parts share no state; each behaviour is one of one of them. *)
EXTENDS Integers, Sequences, FiniteSets

CONSTANTS
  NumWorkers, StageRequests, Channels, ChannelRequests, NumStages, MaxKills, Requests, Settling, Retries,
  Threshold, Window, MinSamples, Matching, MaxTime, Schedule, Duration, StageTime

Split(levels, pinned, faults) == [levels |-> levels, pinned |-> pinned, faults |-> faults]

\* Levels above, at and below the number of workers, in both orders, with the
\* requests pinned to both workers, to one, and to none.
Splits == {Split(<<2, 2, 1>>, 0, {"cut", "deaf"}), Split(<<3, 1>>, 2, {"kill"}),
           Split(<<1, 3, 2>>, 2, {"cut", "deaf"}), Split(<<2, 3>>, 1, {"kill"})}

OneOrTwo    == {{0}, {0, 1}}
Deployments == {[r \in Requests |-> "none"], [r \in Requests |-> IF r = 1 THEN "w1" ELSE "w2"]}
HalfRate    == <<1, 2>>

\* Two requests at once, and one after the stage.
FourRequests == <<0, 1, 1, 5>>

VARIABLES
  part,
  plan, main, level, assigned, open, boundary, share, wpc, current, free, running, abandoned,
  acknowledged, fresh, queued, finished,
  readers, several, phase, stageNow, produced, buffer, channel, holder, count, reader, item, removed, exit,
  kills, fetched, lost,
  at, attempt, response, info, error, caught, retried, recovered, wasted, processed, failed,
  workerOf, feeder, mainFeeder, pipe, metrics, breaker, now, over, ended, written, samples,
  pc, stage, clock, next, unstarted, tasks, local_finished, interrupt_sig, breaker_open, status,
  runtime_info, raising, open_stage, started_before, starts, ends

splitVars   == <<plan, main, level, assigned, open, boundary, share, wpc, current, free, running,
                 abandoned, acknowledged, fresh, queued, finished>>
channelVars == <<readers, several, phase, stageNow, produced, buffer, channel, holder, count, reader, item,
                 removed, exit, kills, fetched, lost>>
metricVars  == <<at, attempt, response, info, error, caught, retried, recovered, wasted, processed,
                 failed, workerOf, feeder, mainFeeder, pipe, metrics, breaker, now, over, ended,
                 written, samples>>
stageVars   == <<pc, stage, clock, next, unstarted, tasks, local_finished, interrupt_sig, breaker_open, status,
                 runtime_info, raising, open_stage, started_before, starts, ends>>
vars        == <<part, splitVars, channelVars, metricVars, stageVars>>

C == INSTANCE WorkerConcurrencyProofs WITH NumRequests <- StageRequests, Plans <- Splits
Q == INSTANCE RequestQueue WITH NumRequests <- ChannelRequests, now <- stageNow, pipe <- channel
M == INSTANCE RequestMetricsProofs WITH Rate <- HalfRate
S == INSTANCE InProcessStages WITH MaxTime <- StageTime, finished <- local_finished, breaker <- breaker_open

ASSUME PipelineAssumption ==
  /\ C!WorkerConcurrencyAssumption /\ Q!RequestQueueAssumption /\ M!RequestAttemptsAssumption
  /\ M!CircuitBreakerAssumption /\ M!RequestMetricsAssumption /\ S!InProcessAssumption

Init ==
  /\ part \in {"C", "Q", "M", "S"}
  /\ C!Init /\ Q!Init /\ M!Init /\ S!Init
  /\ part # "C" => plan = Split(<<2, 3>>, 1, {"kill"})
  /\ part # "Q" => readers = {0} /\ several
  /\ part # "M" => workerOf[1] = "none"

\* A step of part p, which leaves the others alone.
Only(p) ==
  /\ part = p
  /\ UNCHANGED part
  /\ p # "C" => UNCHANGED splitVars
  /\ p # "Q" => UNCHANGED channelVars
  /\ p # "M" => UNCHANGED metricVars
  /\ p # "S" => UNCHANGED stageVars

Next ==
  \/ Only("C") /\ C!Next
  \/ Only("Q") /\ Q!Next
  \/ Only("M") /\ M!Next
  \/ Only("S") /\ S!Next

\* The fairness of each part.
Fairness ==
  /\ WF_vars(Only("C") /\ C!Main)
  /\ \A w \in 0 .. NumWorkers - 1 :
       WF_vars(Only("C") /\ C!Loop(w)) /\ WF_vars(Only("C") /\ C!Finish(w))
  /\ \A r \in Requests :
       WF_vars(Only("M") /\ M!Request(r)) /\ WF_vars(Only("M") /\ M!Record(r))
  /\ WF_vars(Only("M") /\ \E w \in M!Workers : M!Feed(w))
  /\ WF_vars(Only("M") /\ M!LeaveContext)
  /\ WF_vars(Only("M") /\ M!FeedNone)
  /\ WF_vars(Only("M") /\ M!DrainBatch)
  /\ WF_vars(Only("S") /\ S!Run)
  /\ WF_vars(Only("S") /\ S!TaskEnds)
  /\ WF_vars(Only("S") /\ S!Tick)

Spec == Init /\ [][Next]_vars /\ Fairness
-----------------------------------------------------------------------------
\* The requests in flight of a stage never exceed its level, however it is
\* split over the workers.
LevelRespected == C!LevelRespected

\* Permits survive resizes, cancellations and abandoned tasks.
PermitsConserved == C!PermitsConserved

\* No request is served in a later stage than its own, and what a drain reports
\* are the requests nobody was handed, of its stage and of those whose requests are
\* kept in a channel that is locked and the only one.
DrainIsExact == Q!ServedInItsStage /\ Q!DrainIsExact

\* Each recorded request has been settled once with its data, and its metric
\* tells the outcome of the last attempt.
MetricIsTruthful == M!SettledOnce /\ M!MetricIsTruthful

\* The collector keeps what arrives before the None.
KeepsWhatArrives == M!KeepsWhatArrives

\* The breaker is open exactly if the samples it was fed call for it.
BreakerOpensRightly == M!BreakerOpensRightly

\* One start and one end are reported of every stage, its requests do not
\* outlive it and are counted if they were started, and it is reported completed
\* only if it was not cut short.
StagesAreReportedTruly == S!ReportedOnce /\ S!NothingOutlivesItsStage /\ S!CompletedIsWhole

\* Each part that has an end reaches it.
EverythingEnds ==
  /\ part = "C" => C!RunEnds
  /\ part = "M" => M!CollectionEnds
  /\ part = "S" => S!RunIsOver
=============================================================================
