--------------------------- MODULE RequestAttempts ---------------------------
(***************************************************************************)
(* One request of the model server client (client/modelserver/             *)
(* openai_client.py, process_request): attempts that may fail before,      *)
(* while or after an answer arrives, the choice to send once more, the     *)
(* calls that settle the request with the data it came from (its session's *)
(* lock is released there), and the one metric recorded of it.             *)
(***************************************************************************)
EXTENDS Integers, FiniteSets

CONSTANTS
  Requests,
  Settling,    \* those whose data answers process_failure (default: it does nothing)
  Retries      \* request_retries

RequestAttemptsAssumption == Settling \subseteq Requests /\ Retries \in Nat

VARIABLES
  at,         \* where each request is
  attempt,    \* attempts begun
  response,   \* of this attempt: none, 200, other
  info,       \* whether there is an InferenceInfo
  error,      \* whether an ErrorResponseInfo is set
  caught,     \* whether caught_exception is set
  retried,    \* retries_attempted
  recovered,  \* retries_recovered
  wasted,     \* attempts charged to retry_wasted_sec
  processed,  \* calls of process_response that returned (history)
  failed      \* calls of process_failure (history)

outcomeVars == <<response, info, error, caught>>
attemptVars == <<at, attempt, outcomeVars, retried, recovered, wasted, processed, failed>>

Open    == {"sending", "answered", "backoff", "closing"}
Settled == {"recorded", "cancelled", "raised"}

AttemptsTypeOK ==
  /\ at \in [Requests -> {"new"} \cup Open \cup Settled]
  /\ attempt \in [Requests -> 0 .. Retries + 1]
  /\ response \in [Requests -> {"none", "200", "other"}]
  /\ {info, error, caught, recovered} \subseteq [Requests -> BOOLEAN]
  /\ {retried, wasted} \subseteq [Requests -> 0 .. Retries + 1]
  /\ {processed, failed} \subseteq [Requests -> 0 .. 2]

AttemptsInit ==
  /\ at = [r \in Requests |-> "new"]
  /\ response = [r \in Requests |-> "none"]
  /\ info = [r \in Requests |-> FALSE]
  /\ error = info /\ caught = info /\ recovered = info
  /\ attempt = [r \in Requests |-> 0]
  /\ retried = attempt /\ wasted = attempt /\ processed = attempt /\ failed = attempt

GoTo(r, place) == at' = [at EXCEPT ![r] = place]
-----------------------------------------------------------------------------
(* Attempts *)

\* Defect: the error of the last attempt is kept.
ErrorKept(r) == error[r]

ErrorAtStart(r) == FALSE

BeginAttempt(r) ==
  /\ attempt' = [attempt EXCEPT ![r] = @ + 1]
  /\ response' = [response EXCEPT ![r] = "none"]
  /\ info' = [info EXCEPT ![r] = FALSE]
  /\ error' = [error EXCEPT ![r] = ErrorAtStart(r)]
  /\ caught' = [caught EXCEPT ![r] = FALSE]
  /\ GoTo(r, "sending")

Send(r) ==
  /\ at[r] = "new"
  /\ BeginAttempt(r)
  /\ UNCHANGED <<retried, recovered, wasted, processed, failed>>

\* Building the body raises, before anything handles exceptions.
RaiseInBody(r) ==
  /\ at[r] = "new"
  /\ GoTo(r, "raised")
  /\ UNCHANGED <<attempt, outcomeVars, retried, recovered, wasted, processed, failed>>

SendAgain(r) ==
  /\ at[r] = "backoff"
  /\ BeginAttempt(r)
  /\ UNCHANGED <<retried, recovered, wasted, processed, failed>>

Headers(r) ==
  /\ at[r] = "sending"
  /\ \E status \in {"200", "other"} : response' = [response EXCEPT ![r] = status]
  /\ GoTo(r, "answered")
  /\ UNCHANGED <<attempt, info, error, caught, retried, recovered, wasted, processed, failed>>

\* What an attempt leaves behind when it ends with an answer or an exception.
Outcome(r, i, e, c) ==
  /\ info' = [info EXCEPT ![r] = i]
  /\ error' = [error EXCEPT ![r] = e]
  /\ caught' = [caught EXCEPT ![r] = c]

\* A connection fault before any answer, other than a timeout or a failure of
\* TLS (is_retryable_transport_error), while attempts are left.
MayRetry(r, retryable) == response[r] = "none" /\ attempt[r] <= Retries /\ retryable

\* An exception reaches the handlers around the attempt.
Caught(r, i, retryable) ==
  /\ Outcome(r, i, TRUE, TRUE)
  /\ IF MayRetry(r, retryable) THEN GoTo(r, "backoff") /\ retried' = [retried EXCEPT ![r] = @ + 1]
                               ELSE GoTo(r, "closing") /\ UNCHANGED retried
  /\ UNCHANGED <<attempt, response, recovered, wasted>>

NoAnswer(r) ==
  /\ at[r] = "sending"
  /\ \E retryable \in BOOLEAN : Caught(r, FALSE, retryable)
  /\ UNCHANGED <<processed, failed>>

\* process_response returns; leaving the response may still raise.
Processed(r) ==
  /\ at[r] = "answered" /\ response[r] = "200"
  /\ processed' = [processed EXCEPT ![r] = @ + 1]
  /\ \/ /\ Outcome(r, TRUE, error[r], caught[r])
        /\ GoTo(r, "closing")
        /\ UNCHANGED <<attempt, response, retried, recovered, wasted>>
     \/ \E retryable \in BOOLEAN : Caught(r, TRUE, retryable)
  /\ UNCHANGED failed

\* The answer breaks off, or cannot be processed: the data is told at once, that
\* a session's lock is not left taken.
BrokenOff(r) ==
  /\ at[r] = "answered" /\ response[r] = "200"
  /\ failed' = [failed EXCEPT ![r] = @ + 1]
  /\ Outcome(r, r \in Settling, TRUE, TRUE)
  /\ GoTo(r, "closing")
  /\ UNCHANGED <<attempt, response, retried, recovered, wasted, processed>>

\* Another status: the data is told, unless the body cannot even be read.
Refused(r) ==
  /\ at[r] = "answered" /\ response[r] = "other"
  /\ \/ /\ failed' = [failed EXCEPT ![r] = @ + 1]
        /\ Outcome(r, r \in Settling, TRUE, FALSE)
        /\ GoTo(r, "closing")
        /\ UNCHANGED <<attempt, response, retried, recovered, wasted>>
     \/ /\ \E retryable \in BOOLEAN : Caught(r, FALSE, retryable)
        /\ UNCHANGED failed
  /\ UNCHANGED processed

\* Defect: a request is settled again at the end.
NotYetSettledOnly(r) == caught[r]

MustSettle(r) == caught[r] /\ ~info[r]

\* The end of process_request, up to the metric: see Record in RequestMetrics.
Close(r) ==
  /\ at[r] = "closing"
  /\ recovered' = [recovered EXCEPT ![r] = retried[r] > 0 /\ ~caught[r] /\ ~error[r]]
  /\ wasted' = [wasted EXCEPT ![r] =
       IF retried[r] = 0 THEN 0 ELSE IF recovered'[r] THEN attempt[r] - 1 ELSE attempt[r]]
  /\ failed' = [failed EXCEPT ![r] = @ + (IF MustSettle(r) THEN 1 ELSE 0)]
  /\ info' = [info EXCEPT ![r] = TRUE]
  /\ GoTo(r, "recorded")
  /\ UNCHANGED <<attempt, response, error, caught, retried, processed>>

\* The task is cancelled at the end of its stage, wherever it awaits something.
Cancel(r) ==
  /\ at[r] \in {"sending", "answered", "backoff"}
  /\ GoTo(r, "cancelled")
  /\ UNCHANGED <<attempt, outcomeVars, retried, recovered, wasted, processed, failed>>

AttemptStep(r) ==
  \/ Send(r) \/ RaiseInBody(r) \/ SendAgain(r) \/ Headers(r) \/ NoAnswer(r)
  \/ Processed(r) \/ BrokenOff(r) \/ Refused(r) \/ Cancel(r)
-----------------------------------------------------------------------------
(* Properties *)

\* A recorded request was settled with its data exactly once, by a response
\* processed or a failure reported, however many attempts it took and wherever
\* the last one broke: its session's lock is neither kept nor released twice.
SettledOnce ==
  \A r \in Settling : at[r] = "recorded" => processed[r] + failed[r] = 1

\* The metric tells the last attempt's outcome and no earlier one's: an error
\* unless that attempt's response was processed to the end; recovered if there
\* was a retry and no error; the retries are the other attempts, and only faults
\* before an answer were retried.
MetricIsTruthful ==
  \A r \in Requests : at[r] = "recorded" =>
    /\ error[r] <=> (caught[r] \/ processed[r] = 0)
    /\ recovered[r] <=> (attempt[r] > 1 /\ ~error[r])
    /\ retried[r] = attempt[r] - 1
    /\ processed[r] <= 1
=============================================================================
