--------------------------------- MODULE Reports ---------------------------------
(***************************************************************************)
(* What a run reports of its requests and sessions (reportgen/base.py),    *)
(* and what the program then finds in its own reports                      *)
(* (reportgen/*/validation.py).                                            *)
(*                                                                         *)
(* A metric is [stage, session, event, adapter, start, end, error, input,  *)
(* output, usage, streamed, content, reasoning, times, retries,            *)
(* recovered].  error is <<>> or a tuple of one; usage is a function that  *)
(* has the keys the server gave; a chunk is [time, tokens].  A quotient is *)
(* [n, d], and what there may be none of is a tuple of at most one.        *)
(***************************************************************************)
EXTENDS Integers, SequencesExt, FiniteSetsExt, TLC

Total(Value(_), s) == FoldLeft(LAMBDA n, x : n + Value(x), 0, s)
Given(usage, key, default) == IF key \in DOMAIN usage THEN usage[key] ELSE default
Most(a, b) == IF a > b THEN a ELSE b
Least(a, b) == IF a < b THEN a ELSE b
Succeeded(m) == m.error = <<>>

(* Defect: the requests of the preprocessing stage are reported too.       *)
EveryStage(metrics) == metrics

Reported(metrics) == SelectSeq(metrics, LAMBDA m : m.stage >= 0)

(***************************************************************************)
(* One request.  Its answer is tokenized again, chunk by chunk: a token is *)
(* timed by its chunk, and a chunk of no token leaves the time line.       *)
(***************************************************************************)
Spread(chunks) == FlattenSeq([k \in 1..Len(chunks) |-> [i \in 1..chunks[k].tokens |-> chunks[k].time]])

(* Defect: the channels follow each other.                                 *)
ChannelByChannel(m) == Spread(m.content) \o Spread(m.reasoning)

TimeLine(m) == SortSeq(Spread(m.content) \o Spread(m.reasoning), <)

Corrected(m) ==
    IF Succeeded(m) /\ m.streamed /\ (m.content # <<>> \/ m.reasoning # <<>>) THEN [m EXCEPT !.times = TimeLine(m)] ELSE m
Mismatched(m) ==
    /\ Succeeded(m) /\ m.streamed /\ (m.content # <<>> \/ m.reasoning # <<>>)
    /\ "output" \in DOMAIN m.usage /\ Len(TimeLine(m)) # m.usage["output"]
EffectiveOutput(m, server) == IF server THEN Given(m.usage, "output", m.output) ELSE m.output

(* Defect: the first content chunk, whether it has a token or not.         *)
FirstChunk(m) == IF m.content # <<>> THEN <<m.content[1].time>> ELSE <<>>

FirstContent(m) ==
    LET timed == SelectSeq(m.content, LAMBDA c : c.time \in ToSet(m.times))
    IN CASE m.content # <<>> -> IF timed = <<>> THEN <<>> ELSE <<Head(timed).time>>
         [] m.content = <<>> /\ m.times # <<>> /\ m.reasoning = <<>> -> <<Head(m.times)>>
         [] OTHER -> <<>>

(* The latencies, of the metric as it has been corrected.                  *)
Latency(m, server) ==
    LET streams == m.streamed /\ Len(m.times) > 1
        tokens == EffectiveOutput(m, server)
        span == Last(m.times) - Head(m.times)
        first == FirstContent(m)
        over(n, d) == IF d > 0 THEN <<[n |-> n, d |-> d]>> ELSE <<>>
    IN [request_latency |-> over(m.end - m.start, 1), ntpot |-> over(m.end - m.start, tokens),
        ttft |-> IF streams THEN over(Head(m.times) - m.start, 1) ELSE <<>>,
        ttfo |-> IF streams /\ first # <<>> THEN over(first[1] - m.start, 1) ELSE <<>>,
        tpot |-> IF streams THEN over(span, tokens - 1) ELSE <<>>,
        itl |-> IF streams THEN over(span, Len(m.times) - 1) ELSE <<>>]

(* Every token is timed, in order; the first token that is content is not  *)
(* before the first token, and there is one if any content has a token.    *)
TimeLineIsSound(m) ==
    LET c == Corrected(m)
        l == Latency(c, FALSE)
        tokens(chunks) == Total(LAMBDA x : x.tokens, chunks)
    IN /\ Len(c.times) = tokens(m.content) + tokens(m.reasoning)
       /\ \A k \in 1..Len(c.times) - 1 : c.times[k] <= c.times[k + 1]
       /\ (Len(c.times) > 1 /\ tokens(m.content) > 0) => l.ttfo # <<>> /\ l.ttfo[1].n >= l.ttft[1].n
       /\ (Len(c.times) > 1 /\ m.reasoning = <<>> /\ tokens(m.content) > 0) => l.ttfo = l.ttft

(* slo is a function from the latencies that are constrained to bounds.    *)
Attains(latency, key, bound) == latency[key] # <<>> /\ latency[key][1].n <= bound * latency[key][1].d
Good(m, slo, server) == \A key \in DOMAIN slo : Attains(Latency(m, server), key, slo[key])
Goodput(metrics, slo, server) ==
    IF DOMAIN slo = {} \/ metrics = <<>> THEN <<>>
    ELSE LET good == SelectSeq(metrics, LAMBDA m : Good(m, slo, server))
         IN <<[good |-> Len(good), total |-> Len(metrics),
               tokens |-> Total(LAMBDA m : m.input + EffectiveOutput(m, server), good),
               attained |-> [key \in DOMAIN slo |->
                                Len(SelectSeq(metrics, LAMBDA m : Attains(Latency(m, server), key, slo[key])))]]>>

(***************************************************************************)
(* The errors by label, each with at most cap messages and whom each       *)
(* message was told to.  An error is [http, code, pattern, type, text]:    *)
(* the pattern its text matches, or "other".                               *)
(***************************************************************************)
LabelledCodes == {"401", "429"}
ConciseLabel(e) ==
    CASE e.http -> <<e.code, IF e.code \in LabelledCodes THEN "code" ELSE e.pattern>>
      [] ~e.http /\ e.pattern # "other" -> <<"", e.pattern>>
      [] ~e.http /\ e.pattern = "other" -> <<"", e.type>>
TypeLabel(e) == <<"", e.type>>
NoLabel == [count |-> 0, messages |-> [text \in {} |-> <<>>]]

(* Defect: an error whose message is not kept is not counted.              *)
CountKept(old, e, id, cap) ==
    IF e.text \in DOMAIN old.messages \/ Cardinality(DOMAIN old.messages) < cap
    THEN [count |-> old.count + 1, messages |-> (e.text :> Append(IF e.text \in DOMAIN old.messages THEN old.messages[e.text] ELSE <<>>, id)) @@ old.messages]
    ELSE old

CountError(old, e, id, cap) ==
    LET told == IF e.text \in DOMAIN old.messages THEN old.messages[e.text] ELSE <<>>
        kept == e.text \in DOMAIN old.messages \/ Cardinality(DOMAIN old.messages) < cap
    IN [count |-> old.count + 1,
        messages |-> IF kept THEN (e.text :> IF id = "" THEN told ELSE Append(told, id)) @@ old.messages ELSE old.messages]

LabelOf(e, byType) == IF byType THEN TypeLabel(e) ELSE ConciseLabel(e)
ErrorCounts(errors, cap, byType) ==
    FoldLeft(LAMBDA s, x : LET l == LabelOf(x.error, byType)
                           IN (l :> CountError(IF l \in DOMAIN s THEN s[l] ELSE NoLabel, x.error, x.id, cap)) @@ s,
             [l \in {} |-> NoLabel], errors)
Labelled(counts) == FoldSet(LAMBDA l, n : n + counts[l].count, 0, DOMAIN counts)

(* Every error is counted under one label, whatever is kept of the         *)
(* messages; and a message that is kept names all who were told it.        *)
LabelsCoverErrors(errors, cap) ==
    LET counts == ErrorCounts(errors, cap, FALSE)
        told(l, text) == SelectSeq(errors, LAMBDA x : ConciseLabel(x.error) = l /\ x.error.text = text /\ x.id # "")
    IN /\ Labelled(counts) = Len(errors)
       /\ \A l \in DOMAIN counts :
             /\ Cardinality(DOMAIN counts[l].messages) <= cap
             /\ \A text \in DOMAIN counts[l].messages :
                   counts[l].messages[text] = [k \in 1..Len(told(l, text)) |-> told(l, text)[k].id]

(***************************************************************************)
(* One file of request metrics, and the files of a run: [metrics, declared *)
(* (the stages of its configuration), swept, slo, server, cap].            *)
(***************************************************************************)
PromptUsage(metrics) ==
    LET total == Total(LAMBDA m : m.input, metrics)
        cached == Total(LAMBDA m : Given(m.usage, "cached", 0), metrics)
    IN [total |-> total, cached |-> cached, uncached |-> Most(total - cached, 0)]
OutputUsage(metrics) == Total(LAMBDA m : Given(m.usage, "output", m.output), metrics)
Fallbacks(metrics, key) == Len(SelectSeq(metrics, LAMBDA m : key \notin DOMAIN m.usage))
Retries(metrics) ==
    LET retried == SelectSeq(metrics, LAMBDA m : m.retries > 0)
        recovered == SelectSeq(retried, LAMBDA m : m.recovered)
    IN [requests |-> Len(retried), attempts |-> Total(LAMBDA m : m.retries, retried), recovered |-> Len(recovered),
        failed |-> Len(retried) - Len(recovered)]

Summary(metrics, run) ==
    LET corrected == [k \in 1..Len(metrics) |-> Corrected(metrics[k])]
        good == SelectSeq(corrected, Succeeded)
        bad == SelectSeq(metrics, LAMBDA m : ~Succeeded(m))
    IN [count |-> Len(metrics), successes |-> Len(good), failures |-> Len(bad), retries |-> Retries(metrics),
        prompt |-> PromptUsage(good), output |-> OutputUsage(good), fallbacks |-> Fallbacks(good, "output"),
        mismatches |-> Len(SelectSeq(metrics, Mismatched)), goodput |-> Goodput(good, run.slo, run.server),
        by_label |-> ErrorCounts([k \in 1..Len(bad) |-> [error |-> bad[k].error[1], id |-> bad[k].session]], run.cap, FALSE)]

(* The stages of a sweep are made by the load generator alone.             *)
DeclaredStages(run) == IF run.swept THEN 0 ELSE run.declared
Of(metrics, key, value) == SelectSeq(metrics, LAMBDA m : m[key] = value)
Adapted(metrics) == SelectSeq(metrics, LAMBDA m : m.adapter # "")
Files(run) ==
    LET metrics == Reported(run.metrics)
        adapted == Adapted(metrics)
    IN [summary |-> IF metrics = <<>> THEN <<>> ELSE <<Summary(metrics, run)>>,
        stages |-> [s \in {m.stage : m \in ToSet(metrics)} |-> Summary(Of(metrics, "stage", s), run)],
        records |-> [k \in 1..Len(metrics) |-> Corrected(metrics[k])],
        adapters |-> [a \in {m.adapter : m \in ToSet(adapted)} |-> Summary(Of(adapted, "adapter", a), run)],
        declared |-> DeclaredStages(run)]

(***************************************************************************)
(* The validators: the errors they find.                                   *)
(***************************************************************************)
Flag(check, broken) == IF broken THEN {check} ELSE {}
SummaryErrors(s) ==
    Flag("counts", s.successes + s.failures # s.count)
    \cup Flag("tokens", s.prompt.cached > s.prompt.total)
    \cup Flag("goodput", \E g \in ToSet(s.goodput) : g.good > g.total \/ g.total # s.successes)
StageErrors(files) ==
    LET validated == {s \in DOMAIN files.stages : s >= 0}
        differs(key) == files.summary # <<>> /\ validated # {}
                        /\ FoldSet(LAMBDA s, n : n + files.stages[s][key], 0, validated) # files.summary[1][key]
    IN {key \in {"count", "successes", "failures"} : differs(key)}
       \cup Flag("configured_stages", \E s \in validated : s >= files.declared)
RecordErrors(files) ==
    LET unordered(m) == \E k \in 1..Len(m.times) - 1 : m.times[k + 1] < m.times[k]
        outside(m) == m.times # <<>> /\ (Head(m.times) < m.start \/ Last(m.times) > m.end)
    IN Flag("token_times", \E m \in ToSet(files.records) : unordered(m) \/ outside(m))
       \cup Flag("timestamps", \E m \in ToSet(files.records) : m.end < m.start)
       \cup Flag("per_request_count", \E s \in ToSet(files.summary) : s.count # Len(files.records))
Errors(files) ==
    UNION {SummaryErrors(s) : s \in ToSet(files.summary) \cup {files.stages[k] : k \in DOMAIN files.stages}}
    \cup StageErrors(files) \cup RecordErrors(files)

(* A server that says it had more of a prompt in its cache than the client *)
(* counts in it: sums take that as it is, and are flagged for it.          *)
Overcached(run) == \E m \in ToSet(Reported(run.metrics)) : Succeeded(m) /\ Given(m.usage, "cached", 0) > m.input
FlaggedForCache(run) == IF Overcached(run) THEN {"tokens"} ELSE {}

(* What the program says of its own reports: an error is a bug of the      *)
(* program.  A run has none, but for what a server says of its cache.      *)
ReportsAreClean(run) == Errors(Files(run)) \subseteq FlaggedForCache(run)

(* The stages of a sweep are not in the configuration the reports are      *)
(* checked against: nothing else is flagged for the sweep.                 *)
OnlyStagesAreFlagged(run) == Errors(Files(run)) \subseteq {"configured_stages"} \cup FlaggedForCache(run)

(* The failures and the retried requests of the files are those of the     *)
(* requests.                                                               *)
FailuresAreReported(run) ==
    LET files == Files(run)
    IN \A s \in ToSet(files.summary) \cup {files.stages[k] : k \in DOMAIN files.stages} \cup {files.adapters[k] : k \in DOMAIN files.adapters} :
          /\ Labelled(s.by_label) = s.failures
          /\ s.retries.requests <= s.count /\ s.retries.requests <= s.retries.attempts
          /\ s.fallbacks <= s.successes /\ s.mismatches <= s.successes - s.fallbacks

(***************************************************************************)
(* Sessions.  A session is [id, stage, events, completed, error, facing    *)
(* (its user-facing events), dispatch].                                    *)
(***************************************************************************)
(* Defect: the hit rate is of the prompts the client counted.              *)
ClientPrompt(m) == <<Given(m.usage, "cached", 0), m.input>>

CachedOf(m) == <<Least(Most(m.usage["cached"], 0), m.usage["prompt"]), m.usage["prompt"]>>

ReportsCache(m) == Succeeded(m) /\ "cached" \in DOMAIN m.usage /\ Given(m.usage, "prompt", 0) > 0

(* The earliest user-facing content, or why there is none.                 *)
FirstUserToken(s, requests) ==
    LET found == {requests[k] : k \in {k \in 1..Len(requests) : /\ requests[k].event \in s.facing
                                                             /\ \A l \in k + 1..Len(requests) : requests[l].event # requests[k].event}}
        streamed == {m \in found : m.streamed}
        timed == {m \in streamed : FirstContent(m) # <<>>}
    IN CASE s.facing = {} -> [sec |-> <<>>, reason |-> "no_user_facing"]
         [] s.facing # {} /\ s.dispatch = <<>> -> [sec |-> <<>>, reason |-> "no_dispatch_anchor"]
         [] s.facing # {} /\ s.dispatch # <<>> /\ timed # {} ->
                [sec |-> <<Min({FirstContent(m)[1] : m \in timed}) - s.dispatch[1]>>, reason |-> ""]
         [] OTHER -> [sec |-> <<>>, reason |-> IF streamed # found THEN "non_streaming"
                                               ELSE IF streamed # {} THEN "no_output_tokens" ELSE "no_user_facing"]

Enriched(s, metrics, server) ==
    LET own == Of(metrics, "session", s.id)
        failed == SelectSeq(own, LAMBDA m : ~Succeeded(m))
        caching == SelectSeq(own, ReportsCache)
        error == IF s.error = <<>> /\ failed # <<>> THEN Head(failed).error ELSE s.error
    IN s @@ [input |-> Total(LAMBDA m : m.input, own), output |-> Total(LAMBDA m : EffectiveOutput(m, server), own),
             cached |-> Total(LAMBDA m : CachedOf(m)[1], caching), cacheable |-> Total(LAMBDA m : CachedOf(m)[2], caching),
             cause |-> error, success |-> s.completed = s.events /\ error = <<>>, tfut |-> FirstUserToken(s, own)]
Unreported == [http |-> FALSE, code |-> "", pattern |-> "other", type |-> "unreported", text |-> "no error recorded"]

(* left is what the stages have not completed.                             *)
SessionSummary(sessions, left, cap) ==
    LET failed == SelectSeq(sessions, LAMBDA s : ~s.success)
        hits == SelectSeq(sessions, LAMBDA s : s.cacheable > 0)
    IN [sessions |-> Len(sessions) + left, completed |-> Len(sessions), failed |-> Len(failed),
        succeeded |-> Len(SelectSeq(sessions, LAMBDA s : s.success)), not_completed |-> left,
        cached |-> Total(LAMBDA s : s.cached, hits), cacheable |-> Total(LAMBDA s : s.cacheable, hits),
        by_label |-> ErrorCounts([k \in 1..Len(failed) |->
                                     [error |-> IF failed[k].cause = <<>> THEN Unreported ELSE failed[k].cause[1],
                                      id |-> failed[k].id]], cap, TRUE)]
SessionFiles(sessions, left, run) ==
    LET corrected == [k \in 1..Len(Reported(run.metrics)) |-> Corrected(Reported(run.metrics)[k])]
        enriched == [k \in 1..Len(sessions) |-> Enriched(sessions[k], corrected, run.server)]
        stages == {s.stage : s \in ToSet(enriched)} \cup {k \in DOMAIN left : left[k] > 0}
    IN [sessions |-> enriched,
        summary |-> SessionSummary(enriched, FoldFunction(LAMBDA a, b : a + b, 0, left), run.cap),
        stages |-> [k \in stages |-> SessionSummary(Of(enriched, "stage", k), IF k \in DOMAIN left THEN left[k] ELSE 0, run.cap)]]

(* Every session is completed or left, and completed ones succeeded or     *)
(* failed under one label; a session that succeeded has completed all its  *)
(* events and none of its requests failed; a hit rate is a rate; and the   *)
(* time to the first user token is given or it is said why not.            *)
SessionsReconcile(x) ==
    LET files == SessionFiles(x.sessions, x.left, x.run)
        own(s) == {m \in ToSet(Reported(x.run.metrics)) : m.session = s.id}
    IN /\ \A f \in {files.summary} \cup {files.stages[k] : k \in DOMAIN files.stages} :
             /\ f.succeeded + f.failed = f.completed /\ f.completed + f.not_completed = f.sessions
             /\ Labelled(f.by_label) = f.failed
             /\ f.cached <= f.cacheable
       /\ FoldSet(LAMBDA k, n : n + files.stages[k].sessions, 0, DOMAIN files.stages) = files.summary.sessions
       /\ \A s \in ToSet(files.sessions) :
             /\ s.success => s.completed = s.events /\ \A m \in own(s) : Succeeded(m)
             /\ (s.tfut.sec = <<>>) = (s.tfut.reason # "")
             /\ s.tfut.sec # <<>> => \E m \in own(s) : m.event \in s.facing /\ \E c \in ToSet(m.content) : c.time - s.dispatch[1] = s.tfut.sec[1]
=============================================================================
