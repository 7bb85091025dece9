------------------------------ MODULE LoadSchedule ------------------------------
(***************************************************************************)
(* When requests are due, and how the stages of a sweep are found:         *)
(* loadgen/load_timer.py and LoadGenerator.preprocess.                     *)
(*                                                                         *)
(* A time is [num, den], in seconds.  The intervals that are drawn at      *)
(* random are given, as whole numbers of some unit.                        *)
(***************************************************************************)
EXTENDS Integers, FiniteSets, SequencesExt

TooFew == <<>>
Time(num, den) == [num |-> num, den |-> den]
Before(a, b) == a.num * b.den < b.num * a.den
NotAfter(a, b) == ~Before(b, a)
Later(a, seconds) == Time(a.num + seconds * a.den, a.den)

Sum(seq) == FoldLeft(+, 0, seq)

(* Defect: the intervals are left as they are drawn.                       *)
AsDrawn(initial, intervals, duration, k) == Later(initial, Sum(SubSeq(intervals, 1, k)))

(* Request k of as many as there are intervals, which are scaled to take   *)
(* the whole duration.                                                     *)
Due(initial, intervals, duration, k) ==
    Time(initial.num * Sum(intervals) + duration * Sum(SubSeq(intervals, 1, k)) * initial.den, initial.den * Sum(intervals))

(* ConstantLoadTimer                                                       *)
ConstantTimes(initial, intervals, duration) == [k \in DOMAIN intervals |-> Due(initial, intervals, duration, k)]

(* Defect: a second without a request takes no time.                       *)
NoTime(next) == next
EmptySecond(next) == Later(next, 1)

(* PoissonLoadTimer: seconds[k] are the intervals drawn for second k.      *)
PoissonTimes(initial, seconds) ==
    LET Second(made, intervals) ==
            LET due == ConstantTimes(made.next, intervals, 1)
            IN IF intervals = <<>> THEN [made EXCEPT !.next = EmptySecond(@)]
               ELSE [times |-> made.times \o due, next |-> Last(due)]
    IN FoldLeft(Second, [times |-> <<>>, next |-> initial], seconds).times
-----------------------------------------------------------------------------
(* The sweep: samples of the requests in flight, [at, active] *)

(* Defect: the drain after the timeout is sampled too.                     *)
All(samples, end) == DOMAIN samples
InTime(samples, end) == {k \in DOMAIN samples : samples[k].at < end}

(* The samples, of those kept, between which requests ended, and the rate. *)
Falls(samples, kept) ==
    {p \in kept \X kept : /\ p[1] < p[2] /\ \A k \in kept : k <= p[1] \/ k >= p[2]
                          /\ samples[p[2]].active < samples[p[1]].active}
EndRate(samples, p) == Time(samples[p[1]].active - samples[p[2]].active, samples[p[2]].at - samples[p[1]].at)

(* Too few rates fail the sweep; else it is some percentile of them.       *)
Saturations(samples, end) ==
    LET falls == Falls(samples, InTime(samples, end)) IN
    IF Cardinality(falls) <= 1 THEN TooFew ELSE <<{EndRate(samples, p) : p \in falls}>>

LinearRates(target, size) ==
    [k \in 1..size |-> IF size = 1 THEN Time(1, 1) ELSE Time((size - 1) + (target - 1) * (k - 1), size - 1)]

(* Defect: the falling series is the series.                               *)
Falling(target, falling) == [k \in DOMAIN falling |-> Time(falling[k], 1)]
MirroredRates(target, falling) == [k \in DOMAIN falling |-> Time(1 + target - falling[k], 1)]

(* generateRates; the geometric series mirrors geomspace(target, 1), any   *)
(* falling series here.                                                    *)
GenerateRates(target, size, falling) == IF falling = <<>> THEN LinearRates(target, size) ELSE MirroredRates(target, falling)
-----------------------------------------------------------------------------
(* Properties *)

(* Requests are due in order, after the start and within the duration,     *)
(* which the last one ends (ConstantLoadTimer).                            *)
RateIsKept(initial, intervals, duration) ==
    LET times == ConstantTimes(initial, intervals, duration) IN
    /\ \A k \in DOMAIN times : Before(initial, times[k]) /\ NotAfter(times[k], Later(initial, duration))
    /\ \A k \in 1 .. (Len(times) - 1) : Before(times[k], times[k + 1])
    /\ times # <<>> => NotAfter(Later(initial, duration), Last(times))

(* Each second has the requests drawn for it, and no second is left out.   *)
SecondsAreTheirOwn(initial, seconds) ==
    LET times == PoissonTimes(initial, seconds) IN
    \A s \in DOMAIN seconds :
        LET within == {k \in DOMAIN times : Before(Later(initial, s - 1), times[k]) /\ NotAfter(times[k], Later(initial, s))}
        IN Cardinality(within) = Len(seconds[s])

(* The saturation rate is one at which requests ended while the server was *)
(* loaded: no burst of cancelled requests after the timeout counts.        *)
SaturationIsServed(samples, end) ==
    LET found == Saturations(samples, end) IN
    found # TooFew => \A rate \in found[1] :
        \E k, l \in DOMAIN samples : /\ samples[k].at < samples[l].at /\ samples[l].at < end
                                     /\ rate = Time(samples[k].active - samples[l].active, samples[l].at - samples[k].at)

(* The stages of a sweep run from one request a second to the saturation   *)
(* rate, and never slow down.                                              *)
SweepReachesSaturation(target, size, falling) ==
    LET rates == GenerateRates(target, size, falling) IN
    /\ rates[1].num = rates[1].den
    /\ size > 1 => Last(rates).num = target * Last(rates).den
    /\ \A k \in 1 .. (Len(rates) - 1) : NotAfter(rates[k], rates[k + 1])
=============================================================================
