--------------------------- MODULE CircuitBreaker ---------------------------
(***************************************************************************)
(* A circuit breaker (circuit_breaker/).  It is fed every collected metric *)
(* and makes a sample, hit or miss, of those that match; each of its       *)
(* triggers sees every sample, and the breaker opens with the first trigger*)
(* that fires.  A breaker is a record, an operation a function of records. *)
(***************************************************************************)
EXTENDS Integers, Sequences, FiniteSets, SequencesExt

CONSTANTS
  Threshold,   \* of Consecutive: hits in a row
  Window,      \* of RateOverWindow: its length,
  Rate,        \* the rate that fires it, as numerator and denominator,
  MinSamples   \* and the fewest samples

CircuitBreakerAssumption ==
  /\ {Threshold, Window, MinSamples} \subseteq Nat
  /\ Rate \in Nat \X (Nat \ {0})

Sample  == [ts : Nat, hit : BOOLEAN]
Breaker ==
  [consecutive : [c : Nat, fired : BOOLEAN], rate : [buf : Seq(Sample), fired : BOOLEAN], open : BOOLEAN]

ClosedBreaker ==
  [consecutive |-> [c |-> 0, fired |-> FALSE], rate |-> [buf |-> <<>>, fired |-> FALSE], open |-> FALSE]
-----------------------------------------------------------------------------
(* The triggers, each with its own state *)

UpdateConsecutive(t, s) ==
  LET c == IF s.hit THEN t.c + 1 ELSE 0
  IN [c |-> c, fired |-> t.fired \/ c >= Threshold]

\* Defect: a sample at the edge of the window leaves it.
InsideWindow(x, s) == x.ts > s.ts - Window

\* Those at the very edge of the window stay.
InWindow(x, s) == x.ts >= s.ts - Window

\* Samples leave from the front, where the oldest are.
UpdateRate(t, s) ==
  LET all    == Append(t.buf, s)
      inside == {i \in 1 .. Len(all) : InWindow(all[i], s)}
      hits   == {i \in inside : all[i].hit}
      total  == Cardinality(inside)
  IN [buf   |-> SubSeq(all, Len(all) - total + 1, Len(all)),
      fired |-> t.fired \/ (total >= MinSamples /\ Cardinality(hits) * Rate[2] >= Rate[1] * total)]

\* The breaker opens with the first trigger that has fired, and stays open.
FeedBreaker(b, s) ==
  LET consecutive == UpdateConsecutive(b.consecutive, s)
      rate        == UpdateRate(b.rate, s)
  IN [consecutive |-> consecutive, rate |-> rate, open |-> b.open \/ consecutive.fired \/ rate.fired]
-----------------------------------------------------------------------------
\* What fires at the k-th sample: the last Threshold samples are hits, or of the
\* samples in the window ending there enough are, and there are enough of them.
FiresAt(samples, k) ==
  LET recent == {i \in 1 .. k : samples[i].ts >= samples[k].ts - Window}
      hits == {i \in recent : samples[i].hit}
  IN \/ k >= Threshold /\ \A i \in k - Threshold + 1 .. k : samples[i].hit
     \/ /\ Cardinality(recent) >= MinSamples
        /\ Cardinality(hits) * Rate[2] >= Rate[1] * Cardinality(recent)

\* What should open a breaker that is fed these samples: some sample.
ShouldOpen(samples) == \E k \in 1 .. Len(samples) : FiresAt(samples, k)
=============================================================================
