------------------------ MODULE RequestMetricsProofs ------------------------
(***************************************************************************)
(* Proofs about requests and their metrics, for every set of requests and  *)
(* every number of retries and workers: a recorded request has been settled*)
(* with its data exactly once, its metric tells the outcome of its last    *)
(* attempt, the collector keeps every metric that arrives before its None, *)
(* and the breaker it feeds opens when, and only when, its definition over *)
(* all samples says so.                                                    *)
(***************************************************************************)
EXTENDS RequestMetrics, RecursionTheorems

(* What is known of a request at each place *)

AttemptTypes ==
  /\ at \in [Requests -> {"new"} \cup Open \cup Settled]
  /\ response \in [Requests -> {"none", "200", "other"}]
  /\ attempt \in [Requests -> Nat] /\ retried \in [Requests -> Nat]
  /\ processed \in [Requests -> Nat] /\ failed \in [Requests -> Nat]
  /\ info \in [Requests -> BOOLEAN] /\ error \in [Requests -> BOOLEAN]
  /\ caught \in [Requests -> BOOLEAN] /\ recovered \in [Requests -> BOOLEAN]
  /\ wasted \in [Requests -> Int]

\* Its data has been told nothing.
Untold(r) == processed[r] = 0 /\ failed[r] = 0

\* This attempt has not gone wrong, and every earlier one was retried.
Trying(r) == Untold(r) /\ ~error[r] /\ ~caught[r] /\ ~info[r] /\ attempt[r] = retried[r] + 1

\* The last attempt is over: the error is that of the attempt, and the data has
\* been told once, or will be when the request is closed.
Closing(r) ==
  /\ attempt[r] = retried[r] + 1
  /\ error[r] <=> (caught[r] \/ processed[r] = 0)
  /\ processed[r] <= 1
  /\ r \in Settling => processed[r] + failed[r] = IF MustSettle(r) THEN 0 ELSE 1

Recorded(r) ==
  /\ r \in Settling => processed[r] + failed[r] = 1
  /\ error[r] <=> (caught[r] \/ processed[r] = 0)
  /\ recovered[r] <=> (attempt[r] > 1 /\ ~error[r])
  /\ retried[r] = attempt[r] - 1
  /\ processed[r] <= 1

Account(r) ==
  /\ at[r] = "new" => Untold(r) /\ attempt[r] = 0 /\ retried[r] = 0
  /\ at[r] = "sending" => Trying(r) /\ response[r] = "none"
  /\ at[r] = "answered" => Trying(r) /\ response[r] # "none"
  /\ at[r] = "backoff" => Untold(r) /\ attempt[r] = retried[r]
  /\ at[r] = "closing" => Closing(r)
  /\ at[r] = "recorded" => Recorded(r)

IInv == AttemptTypes /\ \A r \in Requests : Account(r)

LEMMA InitAccounts == Init => IInv
BY DEF Init, AttemptsInit, IInv, AttemptTypes, Account, Untold, Open, Settled

\* What happens to one request leaves the account of any other alone.
LEMMA OthersKeep ==
  ASSUME IInv, NEW r \in Requests, NEW v \in Requests, v # r,
         at'[v] = at[v], response'[v] = response[v], attempt'[v] = attempt[v], retried'[v] = retried[v],
         processed'[v] = processed[v], failed'[v] = failed[v], info'[v] = info[v], error'[v] = error[v],
         caught'[v] = caught[v], recovered'[v] = recovered[v]
  PROVE  Account(v)'
BY DEF IInv, Account, Untold, Trying, Closing, MustSettle, Recorded

(* The attempts *)

LEMMA BeginKeeps ==
  ASSUME IInv, NEW r \in Requests, Send(r) \/ SendAgain(r)
  PROVE  IInv'
<1>1. /\ at' = [at EXCEPT ![r] = "sending"] /\ response' = [response EXCEPT ![r] = "none"]
      /\ attempt' = [attempt EXCEPT ![r] = attempt[r] + 1]
      /\ info' = [info EXCEPT ![r] = FALSE] /\ error' = [error EXCEPT ![r] = FALSE]
      /\ caught' = [caught EXCEPT ![r] = FALSE]
      /\ UNCHANGED <<retried, recovered, wasted, processed, failed>>
  BY DEF Send, SendAgain, BeginAttempt, GoTo, ErrorAtStart
<1>2. AttemptTypes'
  BY <1>1 DEF IInv, AttemptTypes, Open
<1>3. attempt[r] = retried[r] /\ Untold(r)
  BY DEF IInv, Account, Send, SendAgain
<1>4. Trying(r)' /\ response'[r] = "none" /\ at'[r] = "sending"
  BY <1>1, <1>3 DEF IInv, AttemptTypes, Trying, Untold
<1>5. Account(r)'
  BY <1>4 DEF Account
<1>6. ASSUME NEW v \in Requests, v # r PROVE Account(v)'
  BY <1>1, <1>6, OthersKeep DEF IInv, AttemptTypes
<1> QED
  BY <1>2, <1>5, <1>6 DEF IInv

LEMMA HeadersKeep ==
  ASSUME IInv, NEW r \in Requests, Headers(r)
  PROVE  IInv'
<1>1. PICK status \in {"200", "other"} : response' = [response EXCEPT ![r] = status]
  BY DEF Headers
<1>2. /\ at[r] = "sending" /\ at' = [at EXCEPT ![r] = "answered"]
      /\ UNCHANGED <<attempt, info, error, caught, retried, recovered, wasted, processed, failed>>
  BY DEF Headers, GoTo
<1>3. AttemptTypes'
  BY <1>1, <1>2 DEF IInv, AttemptTypes, Open
<1>4. Trying(r)' /\ response'[r] # "none" /\ at'[r] = "answered"
  BY <1>1, <1>2 DEF IInv, AttemptTypes, Account, Trying, Untold
<1>5. Account(r)'
  BY <1>4 DEF Account
<1>6. ASSUME NEW v \in Requests, v # r PROVE Account(v)'
  BY <1>1, <1>2, <1>6, OthersKeep DEF IInv, AttemptTypes
<1> QED
  BY <1>3, <1>5, <1>6 DEF IInv

\* The history and the outcome of one request change, and only its own.
Only(r) ==
  /\ UNCHANGED <<attempt, response, recovered, wasted>>
  /\ \A v \in Requests \ {r} :
       /\ at'[v] = at[v] /\ retried'[v] = retried[v]
       /\ processed'[v] = processed[v] /\ failed'[v] = failed[v]
       /\ info'[v] = info[v] /\ error'[v] = error[v] /\ caught'[v] = caught[v]

LEMMA OnlyKeeps ==
  ASSUME IInv, NEW r \in Requests, AttemptTypes', Account(r)', Only(r)
  PROVE  IInv'
<1>1. ASSUME NEW v \in Requests, v # r PROVE Account(v)'
  BY <1>1, OthersKeep DEF Only
<1> QED
  BY <1>1 DEF IInv

\* What an attempt that is underway may have told the data, and known: nothing.
LEMMA Underway ==
  ASSUME IInv, NEW r \in Requests, at[r] \in {"sending", "answered"}
  PROVE  Trying(r) /\ processed[r] = 0 /\ failed[r] = 0
BY DEF IInv, Account, Trying, Untold

\* An exception is caught: the error is that of this attempt.
CaughtFacts(r) ==
  /\ error' = [error EXCEPT ![r] = TRUE] /\ caught' = [caught EXCEPT ![r] = TRUE]
  /\ UNCHANGED <<attempt, response, recovered, wasted>>

LEMMA CaughtIs ==
  ASSUME NEW r \in Requests, NEW i \in BOOLEAN, NEW retryable \in BOOLEAN, Caught(r, i, retryable)
  PROVE  /\ CaughtFacts(r) /\ info' = [info EXCEPT ![r] = i]
         /\ \/ /\ response[r] = "none"
               /\ at' = [at EXCEPT ![r] = "backoff"] /\ retried' = [retried EXCEPT ![r] = retried[r] + 1]
            \/ at' = [at EXCEPT ![r] = "closing"] /\ UNCHANGED retried
BY DEF Caught, Outcome, CaughtFacts, GoTo, MayRetry

LEMMA NoAnswerKeeps ==
  ASSUME IInv, NEW r \in Requests, NoAnswer(r)
  PROVE  IInv'
<1>1. PICK retryable \in BOOLEAN : Caught(r, FALSE, retryable)
  BY DEF NoAnswer
<1>2. CaughtFacts(r) /\ info' = [info EXCEPT ![r] = FALSE]
  BY <1>1, CaughtIs
<1>3. Trying(r) /\ processed[r] = 0 /\ failed[r] = 0 /\ UNCHANGED <<processed, failed>>
  BY Underway DEF NoAnswer
<1>4. CASE at' = [at EXCEPT ![r] = "backoff"] /\ retried' = [retried EXCEPT ![r] = retried[r] + 1]
  <2>1. AttemptTypes' /\ Only(r)
    BY <1>2, <1>3, <1>4 DEF CaughtFacts, IInv, AttemptTypes, Open, Only
  <2>2. at'[r] = "backoff" /\ retried'[r] = retried[r] + 1 /\ attempt'[r] = attempt[r]
    BY <1>2, <1>4 DEF CaughtFacts, IInv, AttemptTypes
  <2>3. Account(r)'
    BY <1>3, <2>2 DEF Account, Untold, Trying
  <2> QED
    BY <2>1, <2>3, OnlyKeeps
<1>5. CASE at' = [at EXCEPT ![r] = "closing"] /\ UNCHANGED retried
  <2>1. AttemptTypes' /\ Only(r)
    BY <1>2, <1>3, <1>5 DEF CaughtFacts, IInv, AttemptTypes, Open, Only
  <2>2. at'[r] = "closing" /\ error'[r] /\ caught'[r] /\ ~info'[r] /\ attempt'[r] = attempt[r]
    BY <1>2, <1>5 DEF CaughtFacts, IInv, AttemptTypes
  <2>3. Closing(r)'
    BY <1>3, <1>5, <2>2 DEF Closing, MustSettle, Trying
  <2>4. Account(r)'
    BY <2>2, <2>3 DEF Account
  <2> QED
    BY <2>1, <2>4, OnlyKeeps
<1> QED
  BY <1>1, <1>4, <1>5, CaughtIs

LEMMA ProcessedKeeps ==
  ASSUME IInv, NEW r \in Requests, Processed(r)
  PROVE  IInv'
<1>0. Trying(r) /\ processed[r] = 0 /\ failed[r] = 0
  BY Underway DEF Processed
<1>1. /\ Trying(r) /\ ~error[r] /\ ~caught[r] /\ UNCHANGED failed /\ failed[r] = 0
      /\ processed' = [processed EXCEPT ![r] = 1] /\ response[r] = "200"
  BY <1>0 DEF Processed, Trying
<1>2. ASSUME Outcome(r, TRUE, error[r], caught[r]), GoTo(r, "closing"),
             UNCHANGED <<attempt, response, retried, recovered, wasted>>
      PROVE  IInv'
  <2>1. /\ info' = [info EXCEPT ![r] = TRUE] /\ error' = error /\ caught' = caught
        /\ at' = [at EXCEPT ![r] = "closing"]
    BY <1>2 DEF Outcome, GoTo, IInv, AttemptTypes
  <2>2. AttemptTypes' /\ Only(r)
    BY <1>1, <1>2, <2>1 DEF IInv, AttemptTypes, Open, Only
  <2>3. at'[r] = "closing" /\ processed'[r] = 1 /\ failed'[r] = 0 /\ ~error'[r] /\ ~caught'[r]
    BY <1>1, <2>1 DEF IInv, AttemptTypes
  <2>4. Closing(r)'
    BY <1>1, <1>2, <2>3 DEF Closing, MustSettle, Trying
  <2>5. Account(r)'
    BY <2>3, <2>4 DEF Account
  <2> QED
    BY <2>2, <2>5, OnlyKeeps
<1>3. ASSUME NEW retryable \in BOOLEAN, Caught(r, TRUE, retryable) PROVE IInv'
  <2>1. CaughtFacts(r) /\ info' = [info EXCEPT ![r] = TRUE]
    BY <1>3, CaughtIs
  <2>2. at' = [at EXCEPT ![r] = "closing"] /\ UNCHANGED retried
    BY <1>1, <1>3, CaughtIs
  <2>3. AttemptTypes' /\ Only(r)
    BY <1>1, <2>1, <2>2 DEF CaughtFacts, IInv, AttemptTypes, Open, Only
  <2>4. /\ at'[r] = "closing" /\ error'[r] /\ caught'[r] /\ info'[r] /\ attempt'[r] = attempt[r]
        /\ processed'[r] = 1 /\ failed'[r] = 0
    BY <1>1, <2>1, <2>2 DEF CaughtFacts, IInv, AttemptTypes
  <2>5. Closing(r)'
    BY <1>1, <2>2, <2>4 DEF Closing, MustSettle, Trying
  <2>6. Account(r)'
    BY <2>4, <2>5 DEF Account
  <2> QED
    BY <2>3, <2>6, OnlyKeeps
<1> QED
  BY <1>2, <1>3 DEF Processed

LEMMA BrokenOffKeeps ==
  ASSUME IInv, NEW r \in Requests, BrokenOff(r)
  PROVE  IInv'
<1>1. Trying(r) /\ processed[r] = 0 /\ failed[r] = 0
  BY Underway DEF BrokenOff
<1>2. /\ failed' = [failed EXCEPT ![r] = failed[r] + 1] /\ at' = [at EXCEPT ![r] = "closing"]
      /\ info' = [info EXCEPT ![r] = r \in Settling] /\ error' = [error EXCEPT ![r] = TRUE]
      /\ caught' = [caught EXCEPT ![r] = TRUE]
      /\ UNCHANGED <<attempt, response, retried, recovered, wasted, processed>>
  BY DEF BrokenOff, Outcome, GoTo
<1>3. AttemptTypes' /\ Only(r)
  BY <1>2 DEF IInv, AttemptTypes, Open, Only
<1>4. at'[r] = "closing" /\ failed'[r] = 1 /\ processed'[r] = 0 /\ error'[r] /\ attempt'[r] = attempt[r]
  BY <1>1, <1>2 DEF IInv, AttemptTypes
<1>5. r \in Settling => info'[r]
  BY <1>2, Zenon DEF IInv, AttemptTypes
<1>6. caught'[r]
  BY <1>2 DEF IInv, AttemptTypes
<1>7. Closing(r)'
  BY <1>1, <1>2, <1>4, <1>5, <1>6 DEF Closing, MustSettle, Trying
<1>8. Account(r)'
  BY <1>4, <1>7 DEF Account
<1> QED
  BY <1>3, <1>8, OnlyKeeps

LEMMA RefusedKeeps ==
  ASSUME IInv, NEW r \in Requests, Refused(r)
  PROVE  IInv'
<1>1. Trying(r) /\ processed[r] = 0 /\ failed[r] = 0 /\ UNCHANGED processed /\ response[r] = "other"
  BY Underway DEF Refused
<1>2. ASSUME failed' = [failed EXCEPT ![r] = @ + 1], Outcome(r, r \in Settling, TRUE, FALSE),
             GoTo(r, "closing"), UNCHANGED <<attempt, response, retried, recovered, wasted>>
      PROVE  IInv'
  <2>1. /\ at' = [at EXCEPT ![r] = "closing"] /\ info' = [info EXCEPT ![r] = r \in Settling]
        /\ error' = [error EXCEPT ![r] = TRUE] /\ caught' = [caught EXCEPT ![r] = FALSE]
    BY <1>2 DEF Outcome, GoTo
  <2>2. AttemptTypes' /\ Only(r)
    BY <1>1, <1>2, <2>1 DEF IInv, AttemptTypes, Open, Only
  <2>3. /\ at'[r] = "closing" /\ failed'[r] = 1 /\ processed'[r] = 0 /\ error'[r] /\ ~caught'[r]
        /\ attempt'[r] = attempt[r]
    BY <1>1, <1>2, <2>1 DEF IInv, AttemptTypes
  <2>4. Closing(r)'
    BY <1>1, <1>2, <2>3 DEF Closing, MustSettle, Trying
  <2>5. Account(r)'
    BY <2>3, <2>4 DEF Account
  <2> QED
    BY <2>2, <2>5, OnlyKeeps
<1>3. ASSUME NEW retryable \in BOOLEAN, Caught(r, FALSE, retryable), UNCHANGED failed
      PROVE  IInv'
  <2>1. CaughtFacts(r) /\ info' = [info EXCEPT ![r] = FALSE]
    BY <1>3, CaughtIs
  <2>2. at' = [at EXCEPT ![r] = "closing"] /\ UNCHANGED retried
    BY <1>1, <1>3, CaughtIs
  <2>3. AttemptTypes' /\ Only(r)
    BY <1>1, <1>3, <2>1, <2>2 DEF CaughtFacts, IInv, AttemptTypes, Open, Only
  <2>4. at'[r] = "closing" /\ error'[r] /\ caught'[r] /\ ~info'[r] /\ attempt'[r] = attempt[r]
    BY <2>1, <2>2 DEF CaughtFacts, IInv, AttemptTypes
  <2>5. Closing(r)'
    BY <1>1, <1>3, <2>2, <2>4 DEF Closing, MustSettle, Trying
  <2>6. Account(r)'
    BY <2>4, <2>5 DEF Account
  <2> QED
    BY <2>3, <2>6, OnlyKeeps
<1> QED
  BY <1>2, <1>3 DEF Refused

\* A request that is over without a metric owes nobody anything.
LEMMA LeavesKeep ==
  ASSUME IInv, NEW r \in Requests, RaiseInBody(r) \/ Cancel(r)
  PROVE  IInv'
<1>1. PICK place \in {"raised", "cancelled"} : at' = [at EXCEPT ![r] = place]
  BY DEF RaiseInBody, Cancel, GoTo
<1>2. UNCHANGED <<attempt, response, info, error, caught, retried, recovered, wasted, processed, failed>>
  BY DEF RaiseInBody, Cancel, outcomeVars
<1>3. AttemptTypes'
  BY <1>1, <1>2 DEF IInv, AttemptTypes, Settled
<1>4. Account(r)'
  BY <1>1 DEF IInv, AttemptTypes, Account
<1>5. ASSUME NEW v \in Requests, v # r PROVE Account(v)'
  BY <1>1, <1>2, <1>5, OthersKeep DEF IInv, AttemptTypes
<1> QED
  BY <1>3, <1>4, <1>5 DEF IInv

\* The end of process_request tells the data what is still due, and says of the
\* request what its last attempt was.
LEMMA CloseKeeps ==
  ASSUME IInv, NEW r \in Requests, Close(r)
  PROVE  IInv'
<1>1. /\ at[r] = "closing" /\ at' = [at EXCEPT ![r] = "recorded"]
      /\ recovered' = [recovered EXCEPT ![r] = retried[r] > 0 /\ ~caught[r] /\ ~error[r]]
      /\ wasted' = [wasted EXCEPT ![r] =
           IF retried[r] = 0 THEN 0 ELSE IF recovered'[r] THEN attempt[r] - 1 ELSE attempt[r]]
      /\ failed' = [failed EXCEPT ![r] = failed[r] + (IF MustSettle(r) THEN 1 ELSE 0)]
      /\ info' = [info EXCEPT ![r] = TRUE]
      /\ UNCHANGED <<attempt, response, error, caught, retried, processed>>
  BY DEF Close, GoTo
<1>2. AttemptTypes'
  <2>1. wasted' \in [Requests -> Int]
    BY <1>1 DEF IInv, AttemptTypes
  <2>2. recovered' \in [Requests -> BOOLEAN] /\ failed' \in [Requests -> Nat]
    BY <1>1 DEF IInv, AttemptTypes
  <2>3. info' \in [Requests -> BOOLEAN] /\ at' \in [Requests -> {"new"} \cup Open \cup Settled]
    BY <1>1 DEF IInv, AttemptTypes, Settled
  <2> QED
    BY <1>1, <2>1, <2>2, <2>3 DEF IInv, AttemptTypes
<1>3. Closing(r)
  BY <1>1 DEF IInv, Account
<1>4. /\ at'[r] = "recorded" /\ failed'[r] = failed[r] + (IF MustSettle(r) THEN 1 ELSE 0)
      /\ recovered'[r] = (retried[r] > 0 /\ ~caught[r] /\ ~error[r])
  BY <1>1 DEF IInv, AttemptTypes
<1>5. attempt[r] \in Nat /\ retried[r] \in Nat /\ processed[r] \in Nat /\ failed[r] \in Nat
  BY DEF IInv, AttemptTypes
<1>6. Recorded(r)'
  <2>1. r \in Settling => processed'[r] + failed'[r] = 1
    BY <1>1, <1>3, <1>4, <1>5 DEF Closing
  <2>2. retried[r] = attempt[r] - 1 /\ (retried[r] > 0 <=> attempt[r] > 1)
    BY <1>3, <1>5 DEF Closing
  <2>3. recovered'[r] <=> (attempt[r] > 1 /\ ~error[r])
    BY <1>3, <1>4, <2>2 DEF Closing
  <2> QED
    BY <1>1, <1>3, <2>1, <2>2, <2>3 DEF Recorded, Closing
<1>7. Account(r)'
  BY <1>4, <1>6 DEF Account
<1>8. ASSUME NEW v \in Requests, v # r PROVE Account(v)'
  BY <1>1, <1>8, OthersKeep DEF IInv, AttemptTypes
<1> QED
  BY <1>2, <1>7, <1>8 DEF IInv

\* The queue, the collector and the clock leave the requests as they are.
LEMMA UnchangedKeeps ==
  ASSUME IInv, UNCHANGED attemptVars
  PROVE  IInv'
<1>1. UNCHANGED <<at, attempt, response, info, error, caught, retried, recovered, wasted, processed, failed>>
  BY DEF attemptVars, outcomeVars
<1> QED
  BY <1>1 DEF IInv, AttemptTypes, Account, Untold, Trying, Closing, Recorded, MustSettle

LEMMA NextKeeps == IInv /\ [Next]_vars => IInv'
<1> SUFFICES ASSUME IInv, [Next]_vars PROVE IInv'
  OBVIOUS
<1>1. ASSUME NEW r \in Requests, Request(r) PROVE IInv'
  <2>1. CASE Send(r) \/ SendAgain(r)
    BY <2>1, BeginKeeps
  <2>2. CASE RaiseInBody(r) \/ Cancel(r)
    BY <2>2, LeavesKeep
  <2>3. CASE Headers(r)
    BY <2>3, HeadersKeep
  <2>4. CASE NoAnswer(r)
    BY <2>4, NoAnswerKeeps
  <2>5. CASE Processed(r)
    BY <2>5, ProcessedKeeps
  <2>6. CASE BrokenOff(r)
    BY <2>6, BrokenOffKeeps
  <2>7. CASE Refused(r)
    BY <2>7, RefusedKeeps
  <2> QED
    BY <1>1, <2>1, <2>2, <2>3, <2>4, <2>5, <2>6, <2>7 DEF Request, AttemptStep
<1>2. ASSUME NEW r \in Requests, Record(r) PROVE IInv'
  BY <1>2, CloseKeeps DEF Record
<1>3. CASE \E w \in Workers : Feed(w)
  BY <1>3, UnchangedKeeps DEF Feed
<1>4. CASE LeaveContext \/ FeedNone \/ DrainBatch \/ Tick
  BY <1>4, UnchangedKeeps DEF LeaveContext, FeedNone, DrainBatch, Tick
<1>5. CASE Done \/ UNCHANGED vars
  BY <1>5, UnchangedKeeps DEF Done, vars
<1> QED
  BY <1>1, <1>2, <1>3, <1>4, <1>5 DEF Next
-----------------------------------------------------------------------------
(* What arrives at the collector *)

CollectorTypes ==
  /\ workerOf \in Deployments
  /\ feeder \in [Workers -> Seq(Metric)]
  /\ pipe \in Seq(Item) /\ written \in Seq(Item) /\ metrics \in Seq(Metric)
  /\ mainFeeder \in BOOLEAN /\ over \in BOOLEAN /\ ended \in BOOLEAN

\* Nothing is recorded once the load is over, and without workers no pipe is used.
LoadInv ==
  /\ over => \A r \in Requests : at[r] \in Settled
  /\ Workers = {} => pipe = <<>> /\ ~mainFeeder

\* The None is written once, after the load.
NoneInv ==
  /\ mainFeeder => over
  /\ mainFeeder \/ ~over \/ Workers = {} => \A i \in 1 .. Len(written) : ~written[i].none
  /\ \A i, j \in 1 .. Len(written) : written[i].none /\ written[j].none => i = j

\* The collector has the first metrics that were written; what was written behind
\* them is in the pipe, until the collector has ended: at the None, or, without
\* workers, with all that was written.
ReadInv ==
  /\ Len(metrics) <= Len(written)
  /\ \A i \in 1 .. Len(metrics) : ~written[i].none /\ metrics[i] = written[i].metric
  /\ ~ended => /\ Len(written) = Len(metrics) + Len(pipe)
               /\ \A i \in 1 .. Len(pipe) : pipe[i] = written[Len(metrics) + i]
  /\ ended => /\ over
              /\ \/ Workers = {} /\ Len(metrics) = Len(written)
                 \/ Len(metrics) < Len(written) /\ written[Len(metrics) + 1].none

ArrivalInv == CollectorTypes /\ LoadInv /\ NoneInv /\ ReadInv

LEMMA ArrivalInit == Init => ArrivalInv
<1> SUFFICES ASSUME Init PROVE ArrivalInv
  OBVIOUS
<1>1. /\ workerOf \in Deployments /\ feeder = [w \in Workers |-> <<>>]
      /\ ~mainFeeder /\ ~over /\ ~ended /\ pipe = <<>> /\ written = <<>> /\ metrics = <<>>
      /\ {mainFeeder, over, ended} \subseteq BOOLEAN
  BY DEF Init
<1>2. feeder \in [Workers -> Seq(Metric)]
  BY <1>1
<1>3. CollectorTypes
  BY <1>1, <1>2 DEF CollectorTypes
<1> QED
  BY <1>1, <1>3 DEF ArrivalInv, LoadInv, NoneInv, ReadInv

\* An attempt is made of a request that is not over.
LEMMA AttemptsAreOpen ==
  ASSUME NEW r \in Requests, Request(r) \/ Record(r)
  PROVE  at[r] \notin Settled
BY DEF Request, Record, AttemptStep, Send, RaiseInBody, SendAgain, Headers, NoAnswer, Processed,
       BrokenOff, Refused, Cancel, Close, Settled, Open

LEMMA RequestArrives ==
  ASSUME ArrivalInv, NEW r \in Requests, Request(r)
  PROVE  ArrivalInv'
<1>1. ~over
  BY AttemptsAreOpen DEF ArrivalInv, LoadInv
<1>2. UNCHANGED <<workerOf, feeder, mainFeeder, pipe, metrics, over, ended, written>>
  BY DEF Request, collectorVars
<1>3. CollectorTypes'
  BY <1>2 DEF ArrivalInv, CollectorTypes, Workers
<1>4. LoadInv' /\ NoneInv'
  BY <1>1, <1>2 DEF ArrivalInv, LoadInv, NoneInv, Workers
<1>5. ReadInv'
  BY <1>2 DEF ArrivalInv, ReadInv, Workers
<1> QED
  BY <1>3, <1>4, <1>5 DEF ArrivalInv

LEMMA RecordArrives ==
  ASSUME RequestMetricsAssumption, IInv, ArrivalInv, NEW r \in Requests, Record(r)
  PROVE  ArrivalInv'
<1> DEFINE m == [request |-> r, error |-> error[r]]
           x == [none |-> FALSE, metric |-> m]
<1>1. ~over /\ ~ended
  BY AttemptsAreOpen DEF ArrivalInv, LoadInv, ReadInv
<1>2. m \in Metric /\ x \in Item
  BY DEF IInv, AttemptTypes, Metric, Item
<1>3. RecordMetric(workerOf[r], m)
  BY DEF Record
<1> HIDE DEF m
<1>4. CASE workerOf[r] = InProcess
  <2>1. Workers = {} /\ pipe = <<>> /\ ~mainFeeder
    BY <1>4 DEF ArrivalInv, CollectorTypes, LoadInv, Workers, RequestMetricsAssumption
  <2>2. /\ metrics' = metrics \o <<m>> /\ written' = Append(written, x)
        /\ UNCHANGED <<workerOf, feeder, mainFeeder, pipe, over, ended>>
    BY <1>3, <1>4 DEF RecordMetric, Collect
  <2>3. metrics \in Seq(Metric) /\ written \in Seq(Item)
    BY DEF ArrivalInv, CollectorTypes
  <2>4. /\ Len(metrics') = Len(metrics) + 1 /\ Len(written') = Len(written) + 1
        /\ \A i \in 1 .. Len(metrics) : metrics'[i] = metrics[i]
        /\ \A i \in 1 .. Len(written) : written'[i] = written[i]
        /\ metrics'[Len(metrics) + 1] = m /\ written'[Len(written) + 1] = x
        /\ metrics' \in Seq(Metric) /\ written' \in Seq(Item)
    BY <1>2, <2>2, <2>3
  <2>5. Len(metrics) \in Nat /\ Len(written) \in Nat /\ Len(written) = Len(metrics)
    BY <1>1, <2>1, <2>3 DEF ArrivalInv, ReadInv
  <2>6. \A i \in 1 .. Len(written') : ~written'[i].none
    BY <2>1, <2>4, <2>5 DEF ArrivalInv, NoneInv
  <2>7. \A i \in 1 .. Len(metrics') : metrics'[i] = written'[i].metric
    BY <2>4, <2>5 DEF ArrivalInv, ReadInv
  <2>8. CollectorTypes'
    BY <2>2, <2>4 DEF ArrivalInv, CollectorTypes, Workers
  <2>9. LoadInv' /\ NoneInv'
    BY <1>1, <2>1, <2>2, <2>6 DEF LoadInv, NoneInv, Workers
  <2>10. ReadInv'
    BY <1>1, <2>1, <2>2, <2>4, <2>5, <2>6, <2>7 DEF ReadInv
  <2> QED
    BY <2>8, <2>9, <2>10 DEF ArrivalInv
<1>5. CASE workerOf[r] # InProcess
  <2>1. /\ feeder' = [feeder EXCEPT ![workerOf[r]] = Append(@, m)]
        /\ UNCHANGED <<workerOf, mainFeeder, pipe, metrics, over, ended, written>>
    BY <1>3, <1>5 DEF RecordMetric
  <2>2. feeder \in [Workers -> Seq(Metric)]
    BY DEF ArrivalInv, CollectorTypes
  <2>3. feeder' \in [Workers -> Seq(Metric)]
    <3>1. \A s \in Seq(Metric) : Append(s, m) \in Seq(Metric)
      BY <1>2
    <3> QED
      BY <2>1, <2>2, <3>1
  <2>4. CollectorTypes'
    BY <2>1, <2>3 DEF ArrivalInv, CollectorTypes, Workers
  <2>5. LoadInv' /\ NoneInv'
    BY <1>1, <2>1 DEF ArrivalInv, LoadInv, NoneInv, Workers
  <2>6. ReadInv'
    BY <2>1 DEF ArrivalInv, ReadInv, Workers
  <2> QED
    BY <2>4, <2>5, <2>6 DEF ArrivalInv
<1> QED
  BY <1>4, <1>5

\* What is written goes behind what was written.
LEMMA WriteArrives ==
  ASSUME ArrivalInv, Workers # {}, NEW x \in Item, Write(x), UNCHANGED <<at, workerOf, metrics, over, ended>>,
         feeder' \in [Workers -> Seq(Metric)], mainFeeder' \in BOOLEAN, mainFeeder' => mainFeeder,
         x.none => mainFeeder /\ ~mainFeeder'
  PROVE  ArrivalInv'
<1>1. pipe \in Seq(Item) /\ written \in Seq(Item) /\ metrics \in Seq(Metric)
  BY DEF ArrivalInv, CollectorTypes
<1>2. /\ Len(pipe') = Len(pipe) + 1 /\ Len(written') = Len(written) + 1
      /\ \A i \in 1 .. Len(pipe) : pipe'[i] = pipe[i]
      /\ \A i \in 1 .. Len(written) : written'[i] = written[i]
      /\ pipe'[Len(pipe) + 1] = x /\ written'[Len(written) + 1] = x
      /\ pipe' \in Seq(Item) /\ written' \in Seq(Item)
  BY <1>1 DEF Write
<1>3. Len(pipe) \in Nat /\ Len(written) \in Nat /\ Len(metrics) \in Nat
  BY <1>1
<1>4. CollectorTypes'
  BY <1>2 DEF ArrivalInv, CollectorTypes, Workers
<1>5. LoadInv'
  BY DEF ArrivalInv, LoadInv, Workers
<1>6. NoneInv'
  <2>1. mainFeeder' => over'
    BY DEF ArrivalInv, NoneInv
  <2>2. ASSUME mainFeeder' \/ ~over', NEW i \in 1 .. Len(written') PROVE ~written'[i].none
    <3>1. mainFeeder \/ ~over
      BY <2>2
    <3>2. \A h \in 1 .. Len(written) : ~written[h].none
      BY <3>1 DEF ArrivalInv, NoneInv
    <3>3. CASE i = Len(written) + 1
      <4>1. ~x.none
        BY <2>2 DEF ArrivalInv, NoneInv
      <4> QED
        BY <1>2, <3>3, <4>1
    <3>4. CASE i # Len(written) + 1
      <4>1. i \in 1 .. Len(written)
        BY <1>2, <1>3, <3>4
      <4> QED
        BY <1>2, <3>2, <4>1
    <3> QED
      BY <3>3, <3>4
  <2>3. ASSUME NEW i \in 1 .. Len(written'), NEW j \in 1 .. Len(written'), written'[i].none, written'[j].none
        PROVE  i = j
    <3>1. x.none => \A k \in 1 .. Len(written) : ~written[k].none
      BY DEF ArrivalInv, NoneInv
    <3>2. ASSUME NEW k \in 1 .. Len(written'), k # Len(written) + 1
          PROVE  k \in 1 .. Len(written) /\ written'[k] = written[k]
      <4>1. k \in 1 .. Len(written)
        BY <1>2, <1>3, <3>2
      <4> QED
        BY <1>2, <4>1
    <3>3. i = Len(written) + 1 <=> j = Len(written) + 1
      BY <1>2, <2>3, <3>1, <3>2
    <3> QED
      BY <2>3, <3>2, <3>3 DEF ArrivalInv, NoneInv
  <2> QED
    BY <2>1, <2>2, <2>3 DEF NoneInv, Workers
<1>7. ReadInv'
  <2>1. \A i \in 1 .. Len(metrics') : ~written'[i].none /\ metrics'[i] = written'[i].metric
    BY <1>2, <1>3 DEF ArrivalInv, ReadInv
  <2>2. ASSUME ~ended', NEW i \in 1 .. Len(pipe') PROVE pipe'[i] = written'[Len(metrics') + i]
    <3>1. /\ Len(written) = Len(metrics) + Len(pipe)
          /\ \A k \in 1 .. Len(pipe) : pipe[k] = written[Len(metrics) + k]
      BY <2>2 DEF ArrivalInv, ReadInv
    <3>2. CASE i = Len(pipe) + 1
      BY <1>2, <1>3, <3>1, <3>2
    <3>3. CASE i # Len(pipe) + 1
      <4>1. i \in 1 .. Len(pipe) /\ Len(metrics) + i \in 1 .. Len(written)
        BY <1>2, <1>3, <3>1, <3>3
      <4> QED
        BY <1>2, <3>1, <4>1
    <3> QED
      BY <3>2, <3>3
  <2>3. ended' => Len(metrics') < Len(written') /\ written'[Len(metrics') + 1].none
    BY <1>2, <1>3 DEF ArrivalInv, ReadInv
  <2> QED
    BY <1>2, <1>3, <2>1, <2>2, <2>3 DEF ArrivalInv, ReadInv
<1> QED
  BY <1>4, <1>5, <1>6, <1>7 DEF ArrivalInv

LEMMA FeedArrives ==
  ASSUME ArrivalInv, NEW w \in Workers, Feed(w)
  PROVE  ArrivalInv'
<1>1. feeder \in [Workers -> Seq(Metric)] /\ mainFeeder \in BOOLEAN
  BY DEF ArrivalInv, CollectorTypes
<1>2. feeder[w] \in Seq(Metric) /\ feeder[w] # <<>>
  BY <1>1 DEF Feed
<1> DEFINE x == [none |-> FALSE, metric |-> Head(feeder[w])]
<1>3. x \in Item
  BY <1>2 DEF Item
<1>4. /\ feeder' = [feeder EXCEPT ![w] = Tail(@)] /\ Write(x)
      /\ UNCHANGED <<attemptVars, workerOf, mainFeeder, metrics, over, ended>>
  BY DEF Feed
<1>5. feeder' \in [Workers -> Seq(Metric)]
  <2>1. Tail(feeder[w]) \in Seq(Metric)
    BY <1>2
  <2> QED
    BY <1>1, <1>4, <2>1
<1>6. UNCHANGED at
  BY <1>4 DEF attemptVars
<1>7. ~x.none
  OBVIOUS
<1> HIDE DEF x
<1> QED
  BY <1>1, <1>3, <1>4, <1>5, <1>6, <1>7, WriteArrives

LEMMA NoneArrives ==
  ASSUME ArrivalInv, FeedNone, NoMetric \in Metric
  PROVE  ArrivalInv'
<1>1. mainFeeder /\ Write(Sentinel) /\ ~mainFeeder' /\ UNCHANGED <<workerOf, feeder, metrics, over, ended>>
  BY DEF FeedNone
<1>2. Workers # {} /\ mainFeeder' \in BOOLEAN /\ feeder \in [Workers -> Seq(Metric)]
  BY <1>1 DEF ArrivalInv, LoadInv, CollectorTypes, FeedNone
<1>3. Sentinel \in Item
  BY DEF Sentinel, Item
<1>4. UNCHANGED at
  BY DEF FeedNone, attemptVars
<1> QED
  BY <1>1, <1>2, <1>3, <1>4, WriteArrives

LEMMA LeaveArrives ==
  ASSUME ArrivalInv, LeaveContext
  PROVE  ArrivalInv'
<1>1. /\ ~over /\ over' = TRUE
      /\ \A r \in Requests : at[r] \in Settled
      /\ UNCHANGED <<at, workerOf, feeder, pipe, metrics, written>>
  BY DEF LeaveContext, attemptVars
<1>2. /\ Workers = {} => ended' = TRUE /\ UNCHANGED mainFeeder
      /\ Workers # {} => mainFeeder' = TRUE /\ UNCHANGED ended
  BY DEF LeaveContext, NoneIsPut
<1>3. Workers' = Workers
  BY <1>1 DEF Workers
<1>4. CollectorTypes'
  BY <1>1, <1>2, <1>3 DEF ArrivalInv, CollectorTypes
<1>5. LoadInv'
  BY <1>1, <1>2, <1>3 DEF ArrivalInv, LoadInv
<1>6. NoneInv'
  <2>1. \A i \in 1 .. Len(written) : ~written[i].none
    BY <1>1 DEF ArrivalInv, NoneInv
  <2> QED
    BY <1>1, <2>1 DEF NoneInv
<1>7. ReadInv'
  <2>1. CASE Workers = {}
    <3>1. ended' /\ over' /\ Len(metrics) = Len(written)
      <4>1. ~ended /\ pipe = <<>>
        BY <1>1, <2>1 DEF ArrivalInv, ReadInv, LoadInv
      <4>2. Len(written) = Len(metrics) + 0 /\ Len(metrics) \in Nat
        BY <4>1 DEF ArrivalInv, ReadInv, CollectorTypes
      <4> QED
        BY <1>1, <1>2, <2>1, <4>2
    <3> QED
      BY <1>1, <1>3, <2>1, <3>1 DEF ArrivalInv, ReadInv
  <2>2. CASE Workers # {}
    BY <1>1, <1>2, <1>3, <2>2 DEF ArrivalInv, ReadInv
  <2> QED
    BY <2>1, <2>2
<1> QED
  BY <1>4, <1>5, <1>6, <1>7 DEF ArrivalInv

\* A batch is of metrics that are in the pipe.
LEMMA BatchIsTyped ==
  ASSUME pipe \in Seq(Item), NEW n \in 1 .. Len(pipe)
  PROVE  LET k == IF pipe[n].none THEN n - 1 ELSE n
         IN /\ MetricsOf(Batch(n)) \in Seq(Metric) /\ Len(MetricsOf(Batch(n))) = k
            /\ \A i \in 1 .. k : MetricsOf(Batch(n))[i] = pipe[i].metric
<1> DEFINE k == IF pipe[n].none THEN n - 1 ELSE n
<1>1. Len(pipe) \in Nat /\ k \in 0 .. Len(pipe)
  OBVIOUS
<1>2. \A i \in 1 .. Len(pipe) : pipe[i].metric \in Metric
  <2>1. \A i \in 1 .. Len(pipe) : pipe[i] \in Item
    OBVIOUS
  <2> QED
    BY <2>1 DEF Item
<1>3. Batch(n) = SubSeq(pipe, 1, k)
  BY DEF Batch
<1> HIDE DEF k
<1>4. Batch(n) \in Seq(Item) /\ Len(Batch(n)) = k /\ \A i \in 1 .. k : Batch(n)[i] = pipe[i]
  BY <1>1, <1>3
<1>5. /\ MetricsOf(Batch(n)) \in Seq(Metric) /\ Len(MetricsOf(Batch(n))) = k
      /\ \A i \in 1 .. k : MetricsOf(Batch(n))[i] = pipe[i].metric
  BY <1>1, <1>2, <1>4 DEF MetricsOf
<1> QED
  BY <1>5 DEF k

LEMMA DrainArrives ==
  ASSUME ArrivalInv, DrainBatch
  PROVE  ArrivalInv'
<1>1. PICK n \in 1 .. Len(pipe) :
        /\ \A i \in 1 .. n - 1 : ~pipe[i].none
        /\ Collect(MetricsOf(Batch(n)))
        /\ pipe' = SubSeq(pipe, n + 1, Len(pipe))
        /\ ended' = pipe[n].none
  BY DEF DrainBatch
<1>2. ~ended /\ UNCHANGED <<at, workerOf, feeder, mainFeeder, over, written>>
  BY DEF DrainBatch, attemptVars
<1>3. pipe \in Seq(Item) /\ written \in Seq(Item) /\ metrics \in Seq(Metric)
  BY DEF ArrivalInv, CollectorTypes
<1> DEFINE k == IF pipe[n].none THEN n - 1 ELSE n
<1>4. /\ Len(pipe) \in Nat /\ Len(metrics) \in Nat /\ Len(written) \in Nat
      /\ k \in 0 .. Len(pipe) /\ (pipe[n].none => k = n - 1) /\ (~pipe[n].none => k = n)
  BY <1>3
<1>6. /\ MetricsOf(Batch(n)) \in Seq(Metric) /\ Len(MetricsOf(Batch(n))) = k
      /\ \A i \in 1 .. k : MetricsOf(Batch(n))[i] = pipe[i].metric
  BY <1>3, BatchIsTyped
<1> HIDE DEF k
<1>7. /\ metrics' \in Seq(Metric) /\ Len(metrics') = Len(metrics) + k
      /\ \A i \in 1 .. Len(metrics) : metrics'[i] = metrics[i]
      /\ \A i \in 1 .. k : metrics'[Len(metrics) + i] = pipe[i].metric
  <2> DEFINE batch == MetricsOf(Batch(n))
  <2>1. metrics' = metrics \o batch
    BY <1>1 DEF Collect
  <2>2. batch \in Seq(Metric) /\ Len(batch) = k /\ \A i \in 1 .. k : batch[i] = pipe[i].metric
    BY <1>6
  <2> HIDE DEF batch
  <2>3. /\ metrics \o batch \in Seq(Metric) /\ Len(metrics \o batch) = Len(metrics) + Len(batch)
        /\ \A i \in 1 .. Len(metrics) : (metrics \o batch)[i] = metrics[i]
        /\ \A i \in 1 .. Len(batch) : (metrics \o batch)[Len(metrics) + i] = batch[i]
    <3>1. metrics \in Seq(Metric) /\ batch \in Seq(Metric)
      BY <1>3, <2>2
    <3> QED
      BY <3>1
  <2> QED
    BY <2>1, <2>2, <2>3
<1>8. /\ pipe' \in Seq(Item) /\ Len(pipe') = Len(pipe) - n
      /\ \A i \in 1 .. Len(pipe) - n : pipe'[i] = pipe[n + i]
  BY <1>1, <1>3
<1>9. /\ Len(written) = Len(metrics) + Len(pipe)
      /\ \A i \in 1 .. Len(pipe) : pipe[i] = written[Len(metrics) + i]
      /\ \A i \in 1 .. Len(metrics) : ~written[i].none /\ metrics[i] = written[i].metric
  BY <1>2 DEF ArrivalInv, ReadInv
<1>10. CollectorTypes'
  <2>1. ended' \in BOOLEAN
    <3>1. pipe[n] \in Item
      BY <1>3
    <3> QED
      BY <1>1, <3>1 DEF Item
  <2> QED
    BY <1>2, <1>7, <1>8, <2>1 DEF ArrivalInv, CollectorTypes, Workers
<1>11. Workers # {}
  BY <1>1, <1>4 DEF ArrivalInv, LoadInv
<1>12. LoadInv' /\ NoneInv'
  BY <1>2, <1>11 DEF ArrivalInv, LoadInv, NoneInv, Workers
<1>13. ASSUME NEW i \in 1 .. Len(metrics') PROVE ~written[i].none /\ metrics'[i] = written[i].metric
  <2>1. CASE i \in 1 .. Len(metrics)
    BY <1>7, <1>9, <2>1
  <2>2. CASE i \notin 1 .. Len(metrics)
    <3> DEFINE j == i - Len(metrics)
    <3>1. j \in 1 .. k /\ i = Len(metrics) + j
      BY <1>4, <1>7, <2>2
    <3>2. j \in 1 .. Len(pipe) /\ ~pipe[j].none
      BY <1>1, <1>4, <3>1
    <3> HIDE DEF j
    <3> QED
      BY <1>7, <1>9, <3>1, <3>2
  <2> QED
    BY <2>1, <2>2
<1>14. CASE ~pipe[n].none
  <2>1. ~ended' /\ k = n
    BY <1>1, <1>4, <1>14
  <2>2. \A i \in 1 .. Len(pipe') : pipe'[i] = written[Len(metrics') + i]
    <3> SUFFICES ASSUME NEW i \in 1 .. Len(pipe') PROVE pipe'[i] = written[Len(metrics') + i]
      OBVIOUS
    <3>1. pipe'[i] = pipe[n + i] /\ n + i \in 1 .. Len(pipe)
      BY <1>4, <1>8
    <3>2. Len(metrics) + (n + i) = Len(metrics') + i
      BY <1>4, <1>7, <2>1
    <3> QED
      BY <1>9, <3>1, <3>2
  <2> QED
    BY <1>2, <1>4, <1>7, <1>8, <1>9, <1>10, <1>12, <1>13, <2>1, <2>2 DEF ArrivalInv, ReadInv
<1>15. CASE pipe[n].none
  <2>1. ended' /\ Len(metrics') = Len(metrics) + (n - 1)
    BY <1>1, <1>4, <1>7, <1>15
  <2>2. Len(metrics') < Len(written) /\ written[Len(metrics') + 1] = pipe[n]
    BY <1>4, <1>9, <2>1
  <2>3. over
    <3>1. Len(metrics') + 1 \in 1 .. Len(written)
      BY <1>4, <2>1, <2>2
    <3> QED
      BY <1>15, <2>2, <3>1 DEF ArrivalInv, NoneInv
  <2> QED
    BY <1>2, <1>4, <1>7, <1>10, <1>12, <1>13, <1>15, <2>1, <2>2, <2>3 DEF ArrivalInv, ReadInv
<1> QED
  BY <1>14, <1>15

LEMMA OthersArrive ==
  ASSUME ArrivalInv, UNCHANGED <<at, workerOf, feeder, mainFeeder, pipe, metrics, over, ended, written>>
  PROVE  ArrivalInv'
<1>1. CollectorTypes' /\ LoadInv' /\ NoneInv'
  BY DEF ArrivalInv, CollectorTypes, LoadInv, NoneInv, Workers
<1>2. ReadInv'
  BY DEF ArrivalInv, ReadInv, Workers
<1> QED
  BY <1>1, <1>2 DEF ArrivalInv

LEMMA NextArrives == ASSUME RequestMetricsAssumption PROVE IInv /\ ArrivalInv /\ [Next]_vars => ArrivalInv'
<1> SUFFICES ASSUME IInv, ArrivalInv, [Next]_vars PROVE ArrivalInv'
  OBVIOUS
<1>1. ASSUME NEW r \in Requests, Request(r) \/ Record(r) PROVE ArrivalInv'
  BY <1>1, RequestArrives, RecordArrives
<1>2. CASE \E w \in Workers : Feed(w)
  BY <1>2, FeedArrives
<1>3. CASE LeaveContext
  BY <1>3, LeaveArrives
<1>4. CASE FeedNone
  <2>1. Workers # {}
    BY <1>4 DEF FeedNone, ArrivalInv, LoadInv
  <2>2. NoMetric \in Metric
    BY <2>1 DEF Workers, NoMetric, Metric
  <2> QED
    BY <1>4, <2>2, NoneArrives
<1>5. CASE DrainBatch
  BY <1>5, DrainArrives
<1>6. CASE Tick \/ Done \/ UNCHANGED vars
  BY <1>6, OthersArrive DEF Tick, Done, vars, attemptVars, collectorVars
<1> QED
  BY <1>1, <1>2, <1>3, <1>4, <1>5, <1>6 DEF Next

\* What has arrived before the None is what has been kept.
LEMMA ArrivedIsKept == ArrivalInv => KeepsWhatArrives
<1> SUFFICES ASSUME ArrivalInv, ended PROVE metrics = MetricsOf(BeforeNone)
  BY DEF KeepsWhatArrives
<1> DEFINE n     == Len(metrics)
           nones == {i \in 1 .. Len(written) : written[i].none}
<1>1. metrics \in Seq(Metric) /\ written \in Seq(Item) /\ n \in Nat /\ Len(written) \in Nat
  BY DEF ArrivalInv, CollectorTypes
<1>2. /\ n <= Len(written)
      /\ \A i \in 1 .. n : ~written[i].none /\ metrics[i] = written[i].metric
      /\ \/ n = Len(written)
         \/ n < Len(written) /\ written[n + 1].none
  BY DEF ArrivalInv, ReadInv
<1>3. Len(BeforeNone) = n /\ \A i \in 1 .. n : BeforeNone[i] = written[i]
  <2>1. CASE n = Len(written)
    <3>1. nones = {}
      BY <1>2, <2>1
    <3>2. BeforeNone = written
      BY <3>1 DEF BeforeNone
    <3> QED
      BY <2>1, <3>2
  <2>2. CASE n < Len(written)
    <3>1. n + 1 \in nones
      BY <1>1, <1>2, <2>2
    <3>2. \A i \in nones : i = n + 1
      BY <3>1 DEF ArrivalInv, NoneInv
    <3>3. nones # {} /\ (CHOOSE i \in nones : TRUE) = n + 1
      BY <3>1, <3>2
    <3>4. BeforeNone = SubSeq(written, 1, (n + 1) - 1)
      BY <3>3 DEF BeforeNone
    <3>5. (n + 1) - 1 = n
      BY <1>1
    <3> QED
      BY <1>1, <2>2, <3>4, <3>5
  <2> QED
    BY <1>1, <1>2, <2>1, <2>2
<1>4. MetricsOf(BeforeNone) = [i \in 1 .. n |-> metrics[i]]
  BY <1>2, <1>3 DEF MetricsOf
<1> QED
  BY <1>1, <1>4
-----------------------------------------------------------------------------
(* What the breaker has seen *)

\* The samples are in the order of their times, none of them later than t.
InOrder(ss, t) ==
  /\ ss \in Seq(Sample)
  /\ \A i, j \in 1 .. Len(ss) : i <= j => ss[i].ts <= ss[j].ts
  /\ \A i \in 1 .. Len(ss) : ss[i].ts <= t

\* The one trigger has counted the hits at the end of the samples,
CountsRun(t, ss) ==
  /\ t.c <= Len(ss)
  /\ \A i \in Len(ss) - t.c + 1 .. Len(ss) : ss[i].hit
  /\ t.c < Len(ss) => ~ss[Len(ss) - t.c].hit

\* and the other has the samples of the window that ends with the last one.
HoldsWindow(t, ss) ==
  /\ Len(t.buf) <= Len(ss)
  /\ \A i \in 1 .. Len(t.buf) : t.buf[i] = ss[Len(ss) - Len(t.buf) + i]
  /\ \A i \in 1 .. Len(ss) - Len(t.buf) : ss[i].ts < ss[Len(ss)].ts - Window

Follows(b, ss) ==
  /\ b \in Breaker
  /\ CountsRun(b.consecutive, ss) /\ HoldsWindow(b.rate, ss)
  /\ b.consecutive.fired => b.open
  /\ b.rate.fired => b.open
  /\ b.open <=> ShouldOpen(ss)

BreakerInv == now \in Nat /\ InOrder(samples, now) /\ Follows(breaker, samples)

\* What is left of a sequence from its a-th element on.
LEMMA TailOfSeq ==
  ASSUME NEW S, NEW s \in Seq(S), NEW a \in 1 .. Len(s)
  PROVE  LET t == SubSeq(s, a, Len(s))
         IN t \in Seq(S) /\ Len(t) = Len(s) - a + 1 /\ \A i \in 1 .. Len(t) : t[i] = s[(a - 1) + i]
OBVIOUS

\* One more hit is one more in the run, and a miss ends it.
LEMMA RunGoesOn ==
  ASSUME CircuitBreakerAssumption, NEW ss \in Seq(Sample), NEW x \in Sample,
         NEW t \in [c : Nat, fired : BOOLEAN], CountsRun(t, ss)
  PROVE  LET u == UpdateConsecutive(t, x)
             k == Len(ss) + 1
         IN /\ u \in [c : Nat, fired : BOOLEAN]
            /\ CountsRun(u, Append(ss, x))
            /\ u.fired <=> \/ t.fired
                           \/ k >= Threshold /\ \A i \in k - Threshold + 1 .. k : Append(ss, x)[i].hit
<1> DEFINE u  == UpdateConsecutive(t, x)
           k  == Len(ss) + 1
           ss1 == Append(ss, x)
<1>1. /\ t.c \in Nat /\ t.fired \in BOOLEAN /\ x.hit \in BOOLEAN /\ Threshold \in Nat /\ Len(ss) \in Nat
  BY DEF Sample, CircuitBreakerAssumption
<1>2. u.c = (IF x.hit THEN t.c + 1 ELSE 0) /\ u.fired = (t.fired \/ u.c >= Threshold)
  BY DEF UpdateConsecutive
<1>3. u \in [c : Nat, fired : BOOLEAN]
  BY <1>1 DEF UpdateConsecutive
<1>4. Len(ss1) = k /\ ss1[k] = x /\ \A i \in 1 .. Len(ss) : ss1[i] = ss[i]
  OBVIOUS
<1> HIDE DEF u, ss1
<1>5. /\ t.c <= Len(ss)
      /\ \A i \in Len(ss) - t.c + 1 .. Len(ss) : ss[i].hit
      /\ t.c < Len(ss) => ~ss[Len(ss) - t.c].hit
  BY DEF CountsRun
<1>6. /\ u.c \in Nat /\ u.c <= k
      /\ \A i \in k - u.c + 1 .. k : ss1[i].hit
      /\ u.c < k => ~ss1[k - u.c].hit
  <2>1. CASE x.hit
    <3>1. u.c = t.c + 1 /\ u.c \in Nat /\ u.c <= k
      BY <1>1, <1>2, <1>5, <2>1
    <3>2. ASSUME NEW i \in k - u.c + 1 .. k PROVE ss1[i].hit
      <4>1. CASE i = k
        BY <1>4, <2>1, <4>1
      <4>2. CASE i # k
        <5>1. k - u.c + 1 = Len(ss) - t.c + 1 /\ Len(ss) - t.c + 1 \in Nat /\ Len(ss) - t.c + 1 >= 1
          <6>1. \A n, c, v \in Nat : c <= n /\ v = c + 1 =>
                  (n + 1) - v + 1 = n - c + 1 /\ n - c + 1 \in Nat /\ n - c + 1 >= 1
            OBVIOUS
          <6> QED
            BY <1>1, <1>5, <3>1, <6>1
        <5>2. i \in Len(ss) - t.c + 1 .. Len(ss) /\ i \in 1 .. Len(ss)
          BY <1>1, <4>2, <5>1
        <5> QED
          BY <1>4, <1>5, <5>2
      <4> QED
        BY <4>1, <4>2
    <3>3. ASSUME u.c < k PROVE ~ss1[k - u.c].hit
      <4>1. k - u.c = Len(ss) - t.c /\ k - u.c \in 1 .. Len(ss) /\ t.c < Len(ss)
        BY <1>1, <3>1, <3>3
      <4> QED
        BY <1>4, <1>5, <4>1
    <3> QED
      BY <3>1, <3>2, <3>3
  <2>2. CASE ~x.hit
    <3>1. u.c = 0 /\ k - u.c = k
      BY <1>1, <1>2, <2>2
    <3>2. \A i \in Int : i \notin k - u.c + 1 .. k
      BY <1>1, <3>1
    <3> QED
      BY <1>1, <1>4, <2>2, <3>1, <3>2
  <2> QED
    BY <1>1, <2>1, <2>2
<1>7. CountsRun(u, ss1)
  BY <1>4, <1>6 DEF CountsRun
<1>8. u.c >= Threshold <=> k >= Threshold /\ \A i \in k - Threshold + 1 .. k : ss1[i].hit
  <2>1. ASSUME u.c >= Threshold PROVE k >= Threshold /\ \A i \in k - Threshold + 1 .. k : ss1[i].hit
    <3>1. \A i \in k - Threshold + 1 .. k : i \in k - u.c + 1 .. k
      BY <1>1, <1>6, <2>1
    <3> QED
      BY <1>1, <1>6, <2>1, <3>1
  <2>2. ASSUME u.c < Threshold, k >= Threshold PROVE \E i \in k - Threshold + 1 .. k : ~ss1[i].hit
    <3>1. k - u.c \in k - Threshold + 1 .. k /\ u.c < k
      BY <1>1, <1>6, <2>2
    <3> QED
      BY <1>6, <3>1
  <2> QED
    BY <1>1, <1>6, <2>1, <2>2
<1> QED
  BY <1>1, <1>2, <1>3, <1>7, <1>8 DEF u, ss1

RecentAt(ss, k) == {i \in 1 .. k : ss[i].ts >= ss[k].ts - Window}
HitsAt(ss, k) == {i \in RecentAt(ss, k) : ss[i].hit}

\* What is in the buffer after a sample are the samples of its window.
LEMMA WindowGoesOn ==
  ASSUME CircuitBreakerAssumption, NEW t \in [buf : Seq(Sample), fired : BOOLEAN],
         NEW ss \in Seq(Sample), NEW x \in Sample, InOrder(ss, x.ts), HoldsWindow(t, ss)
  PROVE  LET u == UpdateRate(t, x)
             k == Len(ss) + 1
             recent == RecentAt(Append(ss, x), k)
             hits == HitsAt(Append(ss, x), k)
         IN /\ u \in [buf : Seq(Sample), fired : BOOLEAN]
            /\ HoldsWindow(u, Append(ss, x))
            /\ u.fired <=> \/ t.fired
                           \/ /\ Cardinality(recent) >= MinSamples
                              /\ Cardinality(hits) * Rate[2] >= Rate[1] * Cardinality(recent)
<1> DEFINE all    == Append(t.buf, x)
           inside == {i \in 1 .. Len(all) : InWindow(all[i], x)}
           hits   == {i \in inside : all[i].hit}
           total  == Cardinality(inside)
           first  == Min(inside)
           u   == UpdateRate(t, x)
           k   == Len(ss) + 1
           ss1 == Append(ss, x)
           d   == Len(ss) - Len(t.buf)
<1>1. /\ t.buf \in Seq(Sample) /\ t.fired \in BOOLEAN /\ x.ts \in Nat
      /\ Len(t.buf) \in Nat /\ Len(ss) \in Nat /\ Window \in Nat
  BY DEF Sample, CircuitBreakerAssumption
<1>2. u = [buf   |-> SubSeq(all, Len(all) - total + 1, Len(all)),
           fired |-> t.fired \/ (total >= MinSamples /\ Cardinality(hits) * Rate[2] >= Rate[1] * total)]
  BY DEF UpdateRate
<1>3. /\ all \in Seq(Sample) /\ Len(all) = Len(t.buf) + 1 /\ all[Len(all)] = x
      /\ \A i \in 1 .. Len(t.buf) : all[i] = t.buf[i]
  BY <1>1
<1>4. /\ ss1 \in Seq(Sample) /\ Len(ss1) = k /\ ss1[k] = x
      /\ \A i \in 1 .. Len(ss) : ss1[i] = ss[i]
  OBVIOUS
<1>5. /\ Len(t.buf) <= Len(ss)
      /\ \A i \in 1 .. Len(t.buf) : t.buf[i] = ss[d + i]
      /\ \A i \in 1 .. d : ss[i].ts < ss[Len(ss)].ts - Window
  BY DEF HoldsWindow
<1>6. d \in Nat /\ d + Len(all) = k
  BY <1>1, <1>3, <1>5
<1> HIDE DEF all, u, ss1, d
<1>7. ASSUME NEW i \in 1 .. Len(all) PROVE all[i] = ss1[d + i] /\ d + i \in 1 .. k
  <2>1. d + i \in 1 .. k
    BY <1>3, <1>6, <1>1
  <2>2. CASE i = Len(all)
    BY <1>3, <1>4, <1>6, <2>2
  <2>3. CASE i # Len(all)
    <3>1. i \in 1 .. Len(t.buf) /\ d + i \in 1 .. Len(ss)
      BY <1>1, <1>3, <1>6, <2>1, <2>3
    <3> QED
      BY <1>3, <1>4, <1>5, <2>1, <3>1
  <2> QED
    BY <2>1, <2>2, <2>3
<1>8. \A i \in 1 .. k : ss1[i] \in Sample /\ ss1[i].ts \in Nat
  <2>1. \A i \in 1 .. k : ss1[i] \in Sample
    BY <1>4
  <2> QED
    BY <2>1 DEF Sample
<1>9. ASSUME NEW i \in 1 .. k, NEW j \in 1 .. k, i <= j PROVE ss1[i].ts <= ss1[j].ts
  <2>1. CASE j \in 1 .. Len(ss)
    <3>1. i \in 1 .. Len(ss)
      BY <1>1, <1>9, <2>1
    <3> QED
      BY <1>4, <1>9, <2>1, <3>1 DEF InOrder
  <2>2. CASE j \notin 1 .. Len(ss)
    <3>1. j = k
      BY <1>1, <2>2
    <3>2. CASE i = k
      BY <1>1, <1>4, <3>1, <3>2
    <3>3. CASE i # k
      <4>1. i \in 1 .. Len(ss)
        BY <1>1, <3>3
      <4> QED
        BY <1>4, <3>1, <4>1 DEF InOrder
    <3> QED
      BY <3>2, <3>3
  <2> QED
    BY <2>1, <2>2
<1>10. /\ inside \in SUBSET (1 .. Len(all)) /\ Len(all) \in inside
       /\ \A i \in 1 .. Len(all) : i \in inside <=> all[i].ts >= x.ts - Window
  <2>1. InWindow(x, x)
    BY <1>1 DEF InWindow
  <2> QED
    BY <1>1, <1>3, <2>1 DEF InWindow
<1> HIDE DEF inside
<1>11. first \in inside /\ \A i \in inside : first <= i
  <2>1. inside # {}
    BY <1>10
  <2>2. Len(all) \in Nat /\ inside \in SUBSET (1 .. Len(all))
    BY <1>1, <1>3, <1>10
  <2> QED
    BY <2>1, <2>2, ExtremesOfPart
<1> HIDE DEF first
<1>12. first \in 1 .. Len(all)
  BY <1>10, <1>11
<1>13. inside = first .. Len(all)
  <2>1. ASSUME NEW i \in first .. Len(all) PROVE i \in inside
    <3>1. i \in 1 .. Len(all)
      BY <1>12
    <3>2. all[first] = ss1[d + first] /\ all[i] = ss1[d + i]
      BY <1>7, <1>12, <3>1
    <3>3. d + first \in 1 .. k /\ d + i \in 1 .. k /\ d + first <= d + i
      BY <1>6, <1>7, <1>12, <3>1
    <3>4. all[first].ts <= all[i].ts /\ all[first].ts \in Nat /\ all[i].ts \in Nat
      BY <1>8, <1>9, <3>2, <3>3
    <3>5. all[first].ts >= x.ts - Window
      BY <1>10, <1>11, <1>12
    <3>6. all[i].ts >= x.ts - Window
      BY <1>1, <3>4, <3>5
    <3> QED
      BY <1>10, <3>1, <3>6
  <2>2. ASSUME NEW i \in inside PROVE i \in first .. Len(all)
    BY <1>10, <1>11, <1>12
  <2> QED
    BY <2>1, <2>2
<1>14. IsFiniteSet(inside) /\ total = Len(all) - first + 1
  <2>1. first \in Int /\ Len(all) \in Int /\ first <= Len(all)
    BY <1>1, <1>3, <1>12
  <2> QED
    BY <1>13, <2>1, FS_Interval
<1>15. RecentAt(ss1, k) = {i + d : i \in inside}
  <2>1. ASSUME NEW i \in inside PROVE i + d \in RecentAt(ss1, k)
    <3>1. i \in 1 .. Len(all) /\ i + d = d + i
      BY <1>1, <1>6, <1>10
    <3>2. all[i] = ss1[i + d] /\ i + d \in 1 .. k
      BY <1>7, <3>1
    <3> QED
      BY <1>4, <1>10, <3>1, <3>2 DEF RecentAt
  <2>2. ASSUME NEW j \in RecentAt(ss1, k) PROVE j - d \in inside /\ j = (j - d) + d
    <3>1. j \in 1 .. k /\ ss1[j].ts >= x.ts - Window
      BY <1>4 DEF RecentAt
    <3>2. j > d
      <4> SUFFICES ASSUME j <= d PROVE FALSE
        BY <1>6, <3>1
      <4>1. j \in 1 .. d /\ j \in 1 .. Len(ss) /\ Len(ss) \in 1 .. Len(ss)
        BY <1>1, <1>5, <1>6, <3>1 DEF d
      <4>2. ss[j].ts < ss[Len(ss)].ts - Window /\ ss[Len(ss)].ts <= x.ts /\ ss1[j] = ss[j]
        BY <1>4, <1>5, <4>1 DEF InOrder
      <4>3. ss[j].ts \in Nat /\ ss[Len(ss)].ts \in Nat
        <5>1. ss[j] \in Sample /\ ss[Len(ss)] \in Sample
          BY <4>1
        <5> QED
          BY <5>1 DEF Sample
      <4>4. ss1[j].ts = ss[j].ts /\ ss1[j].ts >= x.ts - Window
        BY <3>1, <4>2
      <4>5. \A p, q, r, w \in Nat : p < q - w /\ q <= r => ~(p >= r - w)
        OBVIOUS
      <4> QED
        BY <1>1, <4>2, <4>3, <4>4, <4>5
    <3>3. j - d \in 1 .. Len(all) /\ j = (j - d) + d /\ j = d + (j - d)
      BY <1>1, <1>3, <1>6, <3>1, <3>2
    <3>4. all[j - d] = ss1[j]
      BY <1>7, <3>3
    <3> QED
      BY <1>10, <3>1, <3>3, <3>4
  <2> QED
    BY <2>1, <2>2
<1>16. HitsAt(ss1, k) = {i + d : i \in hits}
  <2>1. \A i \in inside : all[i] = ss1[i + d]
    <3>1. \A i \in inside : i \in 1 .. Len(all) /\ i + d = d + i
      BY <1>1, <1>6, <1>10
    <3> QED
      BY <1>7, <3>1
  <2> QED
    BY <1>15, <2>1 DEF HitsAt
<1>17. /\ Cardinality(RecentAt(ss1, k)) = total
       /\ Cardinality(HitsAt(ss1, k)) = Cardinality(hits)
  <2>1. inside \in SUBSET Int /\ hits \in SUBSET inside /\ d \in Int
    BY <1>6, <1>10
  <2>2. hits \in SUBSET Int /\ IsFiniteSet(hits)
    BY <1>14, <2>1, FS_Subset
  <2> HIDE DEF hits
  <2> QED
    BY <1>14, <1>15, <1>16, <2>1, <2>2, ShiftedCardinality
<1> HIDE DEF hits
<1>18. u.fired <=> \/ t.fired
                   \/ /\ Cardinality(RecentAt(ss1, k)) >= MinSamples
                      /\ Cardinality(HitsAt(ss1, k)) * Rate[2] >= Rate[1] * Cardinality(RecentAt(ss1, k))
  <2>1. u.fired = (t.fired \/ (total >= MinSamples /\ Cardinality(hits) * Rate[2] >= Rate[1] * total))
    BY <1>2
  <2> HIDE DEF total
  <2> QED
    BY <1>1, <1>17, <2>1
<1>19. /\ u.buf \in Seq(Sample) /\ Len(u.buf) = Len(all) - first + 1
       /\ \A i \in 1 .. Len(u.buf) : u.buf[i] = all[(first - 1) + i]
  <2>1. Len(all) - total + 1 = first /\ Len(all) \in Nat
    BY <1>1, <1>3, <1>12, <1>14
  <2>2. u.buf = SubSeq(all, first, Len(all))
    BY <1>2, <2>1
  <2> QED
    BY <1>3, <1>12, <2>2, TailOfSeq
<1>20. u \in [buf : Seq(Sample), fired : BOOLEAN]
  <2>1. u.fired \in BOOLEAN
    BY <1>1, <1>2
  <2> QED
    BY <1>2, <1>19, <2>1
<1>21. HoldsWindow(u, ss1)
  <2>0. Len(all) \in Nat /\ first \in 1 .. Len(all) /\ Len(ss1) = d + Len(all) /\ d \in Nat
    BY <1>1, <1>3, <1>4, <1>6, <1>12
  <2>1. Len(ss1) - Len(u.buf) = d + (first - 1) /\ Len(u.buf) <= Len(ss1) /\ Len(u.buf) \in Nat
    <3> DEFINE a == Len(all)
               b == Len(u.buf)
               c == Len(ss1)
    <3>1. a \in Nat /\ first \in 1 .. a /\ c = d + a /\ d \in Nat /\ b = a - first + 1
      BY <1>19, <2>0
    <3> HIDE DEF a, b, c
    <3>2. c - b = d + (first - 1) /\ b <= c /\ b \in Nat
      BY <3>1
    <3> QED
      BY <3>2 DEF a, b, c
  <2>2. ASSUME NEW i \in 1 .. Len(u.buf) PROVE u.buf[i] = ss1[Len(ss1) - Len(u.buf) + i]
    <3>1. (first - 1) + i \in 1 .. Len(all)
      BY <1>1, <1>3, <1>12, <1>19, <2>1
    <3>2. d + ((first - 1) + i) = Len(ss1) - Len(u.buf) + i
      <4>1. d + ((first - 1) + i) = (d + (first - 1)) + i
        BY <2>0, <2>1
      <4> QED
        BY <2>1, <4>1
    <3> QED
      BY <1>7, <1>19, <3>1, <3>2
  <2>3. ASSUME NEW i \in 1 .. Len(ss1) - Len(u.buf) PROVE ss1[i].ts < ss1[Len(ss1)].ts - Window
    <3>1. i \in 1 .. k /\ i < d + first
      <4>1. i \in 1 .. d + (first - 1)
        BY <2>1
      <4>2. d + Len(all) = k /\ k \in Nat
        BY <1>1, <1>6
      <4> HIDE DEF k
      <4> QED
        BY <2>0, <4>1, <4>2
    <3>2. i \notin RecentAt(ss1, k)
      <4>1. \A j \in inside : i # j + d
        <5>1. \A j \in inside : j \in 1 .. Len(all) /\ first <= j
          BY <1>10, <1>11
        <5> QED
          BY <1>6, <1>12, <3>1, <5>1
      <4> QED
        BY <1>15, <4>1
    <3>3. ss1[i].ts \in Nat /\ ss1[k].ts \in Nat
      BY <1>8, <1>1, <3>1
    <3> QED
      BY <1>1, <1>4, <3>1, <3>2, <3>3 DEF RecentAt
  <2> QED
    BY <2>1, <2>2, <2>3 DEF HoldsWindow
<1> QED
  BY <1>18, <1>20, <1>21 DEF u, ss1

\* What fires at a sample does not depend on the later ones.
LEMMA FiresAsBefore ==
  ASSUME CircuitBreakerAssumption, NEW ss \in Seq(Sample), NEW x \in Sample, NEW k \in 1 .. Len(ss)
  PROVE  FiresAt(Append(ss, x), k) <=> FiresAt(ss, k)
<1> DEFINE ss1 == Append(ss, x)
<1>1. \A i \in 1 .. Len(ss) : ss1[i] = ss[i]
  OBVIOUS
<1>2. k \in Nat /\ Len(ss) \in Nat /\ Threshold \in Nat /\ \A i \in 1 .. k : i \in 1 .. Len(ss)
  BY DEF CircuitBreakerAssumption
<1> HIDE DEF ss1
<1>3. ss1[k] = ss[k] /\ \A i \in 1 .. k : ss1[i] = ss[i]
  BY <1>1, <1>2
<1>4. RecentAt(ss1, k) = RecentAt(ss, k)
  BY <1>3 DEF RecentAt
<1>5. HitsAt(ss1, k) = HitsAt(ss, k)
  BY <1>3, <1>4 DEF HitsAt, RecentAt
<1>6. ASSUME k >= Threshold PROVE \A i \in k - Threshold + 1 .. k : ss1[i] = ss[i]
  <2>1. \A i \in k - Threshold + 1 .. k : i \in 1 .. k
    BY <1>2, <1>6
  <2> QED
    BY <1>3, <2>1
<1>7. \A s : FiresAt(s, k) <=> \/ k >= Threshold /\ \A i \in k - Threshold + 1 .. k : s[i].hit
                               \/ /\ Cardinality(RecentAt(s, k)) >= MinSamples
                                  /\ Cardinality(HitsAt(s, k)) * Rate[2] >= Rate[1] * Cardinality(RecentAt(s, k))
  BY Zenon DEF FiresAt, RecentAt, HitsAt
<1> QED
  BY <1>4, <1>5, <1>6, <1>7 DEF ss1

\* A sample at the end leaves the breaker as all samples call for.
LEMMA FeedFollows ==
  ASSUME CircuitBreakerAssumption, NEW b, NEW ss, NEW x \in Sample, InOrder(ss, x.ts), Follows(b, ss)
  PROVE  InOrder(Append(ss, x), x.ts) /\ Follows(FeedBreaker(b, x), Append(ss, x))
<1> DEFINE ss1 == Append(ss, x)
           k   == Len(ss) + 1
           c   == UpdateConsecutive(b.consecutive, x)
           u   == UpdateRate(b.rate, x)
           b1  == FeedBreaker(b, x)
<1>1. ss \in Seq(Sample) /\ Len(ss) \in Nat /\ x.ts \in Nat /\ b \in Breaker
  BY DEF InOrder, Follows, Sample
<1>2. ss1 \in Seq(Sample) /\ Len(ss1) = k /\ ss1[k] = x /\ \A i \in 1 .. Len(ss) : ss1[i] = ss[i]
  BY <1>1
<1>3. /\ b.consecutive \in [c : Nat, fired : BOOLEAN] /\ b.rate \in [buf : Seq(Sample), fired : BOOLEAN]
      /\ b.open \in BOOLEAN
  BY <1>1 DEF Breaker
<1>4. b1 = [consecutive |-> c, rate |-> u, open |-> b.open \/ c.fired \/ u.fired]
  BY DEF FeedBreaker
<1> HIDE DEF ss1
<1>5. InOrder(ss1, x.ts)
  <2>1. \A i \in 1 .. k : i \in 1 .. Len(ss) \/ i = k
    BY <1>1
  <2>2. \A i \in 1 .. k : ss1[i].ts <= x.ts
    BY <1>1, <1>2, <2>1 DEF InOrder
  <2>3. ASSUME NEW i \in 1 .. k, NEW j \in 1 .. k, i <= j PROVE ss1[i].ts <= ss1[j].ts
    <3>1. CASE j = k
      BY <1>2, <2>2, <3>1
    <3>2. CASE j # k
      <4>1. j \in 1 .. Len(ss) /\ i \in 1 .. Len(ss)
        BY <1>1, <2>1, <2>3, <3>2
      <4> QED
        BY <1>2, <2>3, <4>1 DEF InOrder
    <3> QED
      BY <3>1, <3>2
  <2> QED
    BY <1>2, <2>2, <2>3 DEF InOrder
<1>6. /\ c \in [c : Nat, fired : BOOLEAN] /\ CountsRun(c, ss1)
      /\ c.fired <=> \/ b.consecutive.fired
                     \/ k >= Threshold /\ \A i \in k - Threshold + 1 .. k : ss1[i].hit
  BY <1>1, <1>3, RunGoesOn DEF Follows, ss1
<1>7. /\ u \in [buf : Seq(Sample), fired : BOOLEAN] /\ HoldsWindow(u, ss1)
      /\ u.fired <=> \/ b.rate.fired
                     \/ /\ Cardinality(RecentAt(ss1, k)) >= MinSamples
                        /\ Cardinality(HitsAt(ss1, k)) * Rate[2] >= Rate[1] * Cardinality(RecentAt(ss1, k))
  BY <1>1, <1>3, WindowGoesOn DEF Follows, ss1
<1> HIDE DEF c, u, b1
<1>8. FiresAt(ss1, k) <=> \/ k >= Threshold /\ \A i \in k - Threshold + 1 .. k : ss1[i].hit
                          \/ /\ Cardinality(RecentAt(ss1, k)) >= MinSamples
                             /\ Cardinality(HitsAt(ss1, k)) * Rate[2] >= Rate[1] * Cardinality(RecentAt(ss1, k))
  BY Zenon DEF FiresAt, RecentAt, HitsAt
<1>9. c.fired \/ u.fired <=> b.consecutive.fired \/ b.rate.fired \/ FiresAt(ss1, k)
  BY <1>6, <1>7, <1>8, Zenon
<1>10. ShouldOpen(ss1) <=> ShouldOpen(ss) \/ FiresAt(ss1, k)
  <2>1. \A i \in 1 .. Len(ss) : FiresAt(ss1, i) <=> FiresAt(ss, i)
    BY <1>1, FiresAsBefore DEF ss1
  <2>2. \A i : i \in 1 .. k <=> i \in 1 .. Len(ss) \/ i = k
    BY <1>1
  <2> HIDE DEF k
  <2> QED
    BY <1>2, <2>1, <2>2, Zenon DEF ShouldOpen
<1>11. /\ b.consecutive.fired => b.open
       /\ b.rate.fired => b.open
       /\ b.open <=> ShouldOpen(ss)
  BY DEF Follows
<1>12. /\ b1.consecutive = c /\ b1.rate = u /\ b1.open = (b.open \/ c.fired \/ u.fired)
       /\ b1 \in Breaker
  BY <1>3, <1>4, <1>6, <1>7 DEF Breaker
<1>13. b1.open <=> ShouldOpen(ss1)
  BY <1>9, <1>10, <1>11, <1>12, Zenon
<1>14. Follows(b1, ss1)
  BY <1>6, <1>7, <1>12, <1>13, Zenon DEF Follows
<1> QED
  BY <1>5, <1>14 DEF ss1, b1

\* A breaker with the samples it was fed, as they should be at this time.
Seen == {s \in [breaker : Breaker, samples : Seq(Sample)] : InOrder(s.samples, now) /\ Follows(s.breaker, s.samples)}

LEMMA ObserveFollows ==
  ASSUME CircuitBreakerAssumption, now \in Nat, NEW s \in Seen, NEW m \in Metric
  PROVE  Observe(s, m) \in Seen
<1> DEFINE x == SampleOf(m)
<1>1. x \in Sample /\ x.ts = now
  BY DEF SampleOf, Sample, Metric
<1>2. s.breaker \in Breaker /\ s.samples \in Seq(Sample) /\ InOrder(s.samples, now) /\ Follows(s.breaker, s.samples)
  BY DEF Seen
<1> HIDE DEF x
<1>3. InOrder(Append(s.samples, x), now) /\ Follows(FeedBreaker(s.breaker, x), Append(s.samples, x))
  BY <1>1, <1>2, FeedFollows
<1>4. FeedBreaker(s.breaker, x) \in Breaker /\ Append(s.samples, x) \in Seq(Sample)
  BY <1>3 DEF Follows, InOrder
<1>5. [breaker |-> FeedBreaker(s.breaker, x), samples |-> Append(s.samples, x)] \in Seen
  BY <1>3, <1>4 DEF Seen
<1>6. Observe(s, m) = IF m.request \in Matching
                      THEN [breaker |-> FeedBreaker(s.breaker, x), samples |-> Append(s.samples, x)]
                      ELSE s
  BY DEF Observe, x
<1> QED
  BY <1>5, <1>6

\* h is the function by which the fold of the community modules goes through a batch.
Observes(h, s, batch) ==
  h = [T \in SUBSET DOMAIN batch |-> IF T = {} THEN s ELSE Observe(h[T \ {Max(T)}], batch[Max(T)])]

LEMMA BatchFollows ==
  ASSUME CircuitBreakerAssumption, now \in Nat, NEW s \in Seen, NEW batch \in Seq(Metric)
  PROVE  FoldLeft(Observe, s, batch) \in Seen
<1> DEFINE D    == SUBSET DOMAIN batch
           rank == [T \in D |-> Cardinality(T)]
           prev == [T \in D |-> T \ {Max(T)}]
           step == [p \in D \X Seen |-> IF p[1] = {} THEN s ELSE Observe(p[2], batch[Max(p[1])])]
           h    == CHOOSE h : Observes(h, s, batch)
<1>1. FoldLeft(Observe, s, batch) = h[DOMAIN batch]
  BY Zenon DEF FoldLeft, MapThenFoldSet, Observes
<1>2. DOMAIN batch = 1 .. Len(batch) /\ Len(batch) \in Nat
  OBVIOUS
<1>3. ASSUME NEW T \in D
      PROVE  /\ Cardinality(T) \in Nat
             /\ T = {} <=> Cardinality(T) = 0
             /\ T # {} => /\ Max(T) \in T /\ batch[Max(T)] \in Metric
                          /\ T \ {Max(T)} \in D
                          /\ Cardinality(T \ {Max(T)}) = Cardinality(T) - 1
  <2>1. T \in SUBSET (1 .. Len(batch))
    BY <1>2
  <2>2. IsFiniteSet(T)
    <3>1. IsFiniteSet(1 .. Len(batch))
      BY <1>2, FS_Interval
    <3> QED
      BY <2>1, <3>1, FS_Subset
  <2>3. T # {} => Max(T) \in T
    BY <1>2, <2>1, ExtremesOfPart
  <2>4. T # {} => Max(T) \in 1 .. Len(batch)
    BY <2>1, <2>3
  <2>5. T # {} => batch[Max(T)] \in Metric
    BY <2>4
  <2> QED
    BY <2>2, <2>3, <2>5, FS_CardinalityType, FS_EmptySet, FS_RemoveElement
<1>4. Ranked(D, rank, prev)
  <2>1. rank \in [D -> Nat]
    BY <1>3
  <2>2. ASSUME NEW T \in D, rank[T] # 0 PROVE prev[T] \in D /\ rank[prev[T]] < rank[T]
    <3>1. /\ T \ {Max(T)} \in D /\ Cardinality(T) \in Nat
          /\ Cardinality(T \ {Max(T)}) = Cardinality(T) - 1
      BY <1>3, <2>2
    <3>2. /\ rank[T] = Cardinality(T) /\ rank[T \ {Max(T)}] = Cardinality(T \ {Max(T)})
          /\ prev[T] = T \ {Max(T)}
      BY <3>1
    <3> HIDE DEF D, rank, prev
    <3> QED
      BY <3>1, <3>2
  <2> HIDE DEF D, rank, prev
  <2> QED
    BY <2>1, <2>2 DEF Ranked
<1>5. step \in [D \X Seen -> Seen]
  <2>1. ASSUME NEW T \in D, NEW v \in Seen
        PROVE  (IF T = {} THEN s ELSE Observe(v, batch[Max(T)])) \in Seen
    BY <1>3, ObserveFollows
  <2>2. ASSUME NEW p \in D \X Seen
        PROVE  (IF p[1] = {} THEN s ELSE Observe(p[2], batch[Max(p[1])])) \in Seen
    <3>1. p[1] \in D /\ p[2] \in Seen
      OBVIOUS
    <3> HIDE DEF D
    <3> QED
      BY <2>1, <3>1
  <2> HIDE DEF D
  <2> QED
    BY <2>2
<1>6. PICK g \in [D -> Seen] : RecursOn(g, D, rank, prev, s, step)
  <2> HIDE DEF D, rank, prev, step
  <2> QED
    BY <1>4, <1>5, RankedRecursion
<1>7. ASSUME NEW T \in D
      PROVE  g[T] = IF T = {} THEN s ELSE Observe(g[T \ {Max(T)}], batch[Max(T)])
  <2>1. g[T] = IF rank[T] = 0 THEN s ELSE step[<<T, g[prev[T]]>>]
    BY <1>6 DEF RecursOn
  <2>2. rank[T] = 0 <=> T = {}
    BY <1>3
  <2>3. T # {} => step[<<T, g[prev[T]]>>] = Observe(g[T \ {Max(T)}], batch[Max(T)])
    BY <1>3, <1>6
  <2> QED
    BY <2>1, <2>2, <2>3
<1>8. Observes(g, s, batch)
  BY <1>6, <1>7 DEF Observes
<1>9. Observes(h, s, batch)
  <2>1. \E e : Observes(e, s, batch)
    BY <1>8
  <2> QED
    BY <2>1
<1> HIDE DEF h
<1>10. ASSUME NEW T \in D PROVE h[T] = IF T = {} THEN s ELSE Observe(h[T \ {Max(T)}], batch[Max(T)])
  BY <1>9 DEF Observes
<1> DEFINE Same == {T \in D : h[T] = g[T]}
<1>11. ASSUME NEW T \in D, rank[T] = 0 \/ prev[T] \in Same PROVE T \in Same
  <2>1. T = {} \/ g[T \ {Max(T)}] = h[T \ {Max(T)}]
    BY <1>3, <1>11
  <2>2. /\ g[T] = IF T = {} THEN s ELSE Observe(g[T \ {Max(T)}], batch[Max(T)])
        /\ h[T] = IF T = {} THEN s ELSE Observe(h[T \ {Max(T)}], batch[Max(T)])
    BY <1>7, <1>10
  <2>3. g[T] = h[T]
    BY <2>1, <2>2
  <2> QED
    BY <2>3
<1>12. \A T \in D : T \in Same
  <2> HIDE DEF D, rank, prev, Same
  <2> QED
    BY <1>4, <1>11, RankedInduction
<1>13. DOMAIN batch \in D
  OBVIOUS
<1> QED
  BY <1>1, <1>6, <1>12, <1>13

LEMMA BreakerInit == Init => BreakerInv
<1> SUFFICES ASSUME Init PROVE BreakerInv
  OBVIOUS
<1>1. now = 0 /\ samples = <<>> /\ breaker = ClosedBreaker
  BY DEF Init
<1>2. ~ShouldOpen(<<>>)
  BY DEF ShouldOpen
<1>3. ClosedBreaker \in Breaker
  BY DEF ClosedBreaker, Breaker
<1>4. Follows(ClosedBreaker, <<>>)
  BY <1>2, <1>3 DEF Follows, ClosedBreaker, CountsRun, HoldsWindow
<1>5. InOrder(<<>>, 0)
  BY DEF InOrder
<1> QED
  BY <1>1, <1>4, <1>5 DEF BreakerInv

LEMMA CollectFollows ==
  ASSUME CircuitBreakerAssumption, BreakerInv, NEW batch \in Seq(Metric), Collect(batch), UNCHANGED now
  PROVE  BreakerInv'
<1> DEFINE s    == [breaker |-> breaker, samples |-> samples]
           seen == FoldLeft(Observe, s, batch)
<1>1. s \in Seen
  BY DEF BreakerInv, Follows, InOrder, Seen
<1>2. now \in Nat
  BY DEF BreakerInv
<1>3. breaker' = seen.breaker /\ samples' = seen.samples
  BY DEF Collect, Notify
<1> HIDE DEF s
<1>4. seen \in Seen
  BY <1>1, <1>2, BatchFollows
<1> HIDE DEF seen
<1>5. InOrder(seen.samples, now) /\ Follows(seen.breaker, seen.samples)
  BY <1>4 DEF Seen
<1> QED
  BY <1>2, <1>3, <1>5 DEF BreakerInv

LEMMA NextFollows ==
  ASSUME CircuitBreakerAssumption
  PROVE  IInv /\ ArrivalInv /\ BreakerInv /\ [Next]_vars => BreakerInv'
<1> SUFFICES ASSUME IInv, ArrivalInv, BreakerInv, [Next]_vars PROVE BreakerInv'
  OBVIOUS
<1>1. ASSUME UNCHANGED <<breaker, now, samples>> PROVE BreakerInv'
  BY <1>1 DEF BreakerInv
<1>2. ASSUME NEW r \in Requests, Record(r) PROVE BreakerInv'
  <2> DEFINE m == [request |-> r, error |-> error[r]]
  <2>1. m \in Metric
    BY DEF IInv, AttemptTypes, Metric
  <2>2. RecordMetric(workerOf[r], m)
    BY <1>2 DEF Record
  <2> HIDE DEF m
  <2>3. CASE workerOf[r] = InProcess
    <3>1. Collect(<<m>>) /\ UNCHANGED now
      BY <2>2, <2>3 DEF RecordMetric
    <3>2. <<m>> \in Seq(Metric)
      BY <2>1
    <3> QED
      BY <3>1, <3>2, CollectFollows
  <2>4. CASE workerOf[r] # InProcess
    BY <1>1, <2>2, <2>4 DEF RecordMetric
  <2> QED
    BY <2>3, <2>4
<1>3. CASE DrainBatch
  <2>1. PICK n \in 1 .. Len(pipe) : Collect(MetricsOf(Batch(n)))
    BY <1>3 DEF DrainBatch
  <2>2. MetricsOf(Batch(n)) \in Seq(Metric)
    BY <2>1, BatchIsTyped DEF ArrivalInv, CollectorTypes
  <2>3. UNCHANGED now
    BY <1>3 DEF DrainBatch
  <2> QED
    BY <2>1, <2>2, <2>3, CollectFollows
<1>4. CASE Tick
  <2>1. now' = now + 1 /\ now \in Nat /\ UNCHANGED <<breaker, samples>>
    BY <1>4 DEF Tick, BreakerInv
  <2>2. InOrder(samples, now + 1)
    <3>1. \A i \in 1 .. Len(samples) : samples[i].ts \in Nat
      <4>1. \A i \in 1 .. Len(samples) : samples[i] \in Sample
        BY DEF BreakerInv, InOrder
      <4> QED
        BY <4>1 DEF Sample
    <3> QED
      BY <2>1, <3>1 DEF BreakerInv, InOrder
  <2> QED
    BY <2>1, <2>2 DEF BreakerInv
<1>5. CASE LeaveContext \/ FeedNone \/ Done \/ UNCHANGED vars
  BY <1>1, <1>5 DEF LeaveContext, FeedNone, Done, vars, collectorVars
<1>6. ASSUME NEW r \in Requests, Request(r) PROVE BreakerInv'
  BY <1>1, <1>6 DEF Request, collectorVars
<1>7. CASE \E w \in Workers : Feed(w)
  BY <1>1, <1>7 DEF Feed
<1> QED
  BY <1>2, <1>3, <1>4, <1>5, <1>6, <1>7 DEF Next
-----------------------------------------------------------------------------
(* The theorems *)

\* Whatever the answers and the faults, and however often a request is sent again,
\* its data is told once that it is over: a session's lock is neither kept by a
\* request that has its metric nor released twice (process_request).
THEOREM RequestsSettleOnce ==
  ASSUME RequestAttemptsAssumption PROVE Spec => []SettledOnce
<1>1. IInv => SettledOnce
  BY DEF IInv, Account, Recorded, SettledOnce, RequestAttemptsAssumption
<1> QED
  BY <1>1, InitAccounts, NextKeeps, PTL DEF Spec

\* The metric of a request tells the outcome of its last attempt, and of the
\* earlier ones only how many there were (process_request).
THEOREM MetricsAreTruthful == Spec => []MetricIsTruthful
<1>1. IInv => MetricIsTruthful
  BY DEF IInv, Account, Recorded, MetricIsTruthful
<1> QED
  BY <1>1, InitAccounts, NextKeeps, PTL DEF Spec

\* Whatever the batches the collector reads, and whatever a worker's feeder thread
\* still holds when the None is put, the collector keeps the metrics that arrive
\* before the None, in order, and no other (_drain_batch).
THEOREM MetricsAreKept ==
  ASSUME RequestMetricsAssumption PROVE Spec => []KeepsWhatArrives
<1> QED
  BY InitAccounts, NextKeeps, ArrivalInit, NextArrives, ArrivedIsKept, PTL DEF Spec

\* For every threshold, window, rate and number of samples the breaker is open
\* if and only if at some sample so far the last ones were hits, or the rate of
\* hits in the window was reached: its running count and its buffer lose nothing
\* of the past that matters (SimpleCircuitBreaker.feed, Consecutive,
\* RateOverWindow).
THEOREM BreakerIsRight ==
  ASSUME CircuitBreakerAssumption, RequestMetricsAssumption PROVE Spec => []BreakerOpensRightly
<1>1. BreakerInv => BreakerOpensRightly
  BY DEF BreakerInv, Follows, BreakerOpensRightly
<1> QED
  BY <1>1, InitAccounts, NextKeeps, ArrivalInit, NextArrives, BreakerInit, NextFollows, PTL DEF Spec
=============================================================================
