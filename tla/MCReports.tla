-------------------------------- MODULE MCReports --------------------------------
(***************************************************************************)
(* Small runs, and all they report.                                        *)
(***************************************************************************)
EXTENDS MCCase, Integers, FiniteSets, SequencesExt, TLC

R == INSTANCE Reports

None == [k \in {} |-> 0]
ReportUsages == {None, [prompt |-> 3, cached |-> 2, output |-> 2], [prompt |-> 3, cached |-> 5, output |-> 0]}
Error(http, code, pattern, type, text) == [http |-> http, code |-> code, pattern |-> pattern, type |-> type, text |-> text]
ErrorKinds == {Error(TRUE, "429", "timeout", "HTTP Error 429", "a"), Error(TRUE, "500", "timeout", "HTTP Error 500", "a"),
               Error(TRUE, "500", "timeout", "HTTP Error 500", "b"), Error(FALSE, "", "other", "ValueError", "a")}
Chunk(time, tokens) == [time |-> time, tokens |-> tokens]
Base == [stage |-> 0, session |-> "", event |-> "", adapter |-> "", start |-> 0, end |-> 5, error |-> <<>>, input |-> 3, output |-> 2,
         usage |-> None, streamed |-> FALSE, content |-> <<>>, reasoning |-> <<>>, times |-> <<>>, retries |-> 0, recovered |-> FALSE]
Streams == {[Base EXCEPT !.streamed = TRUE, !.content = c, !.reasoning = r, !.usage = u,
                         !.times = SortSeq([k \in 1..Len(c) |-> c[k].time] \o [k \in 1..Len(r) |-> r[k].time], <)] :
               c \in {<<>>, <<Chunk(2, 0), Chunk(4, 2)>>, <<Chunk(3, 1)>>}, r \in {<<>>, <<Chunk(1, 1), Chunk(3, 1)>>}, u \in ReportUsages}

(* Time lines of up to four chunks, at any of four times.                  *)
Chunks == UNION {{[k \in 1..n |-> Chunk(times[k], tokens[k])] : times \in {t \in [1..n -> 1..4] : \A k \in 1..n - 1 : t[k] < t[k + 1]},
                                                               tokens \in [1..n -> 0..2]} : n \in 0..2}
TimeLineCase == Idle("timeline") /\ \E content \in Chunks, reasoning \in Chunks :
    /\ content # <<>> \/ reasoning # <<>>
    /\ Make("timeline", [Base EXCEPT !.streamed = TRUE, !.content = content, !.reasoning = reasoning])

LabelCase == Idle("labels") /\ \E n \in 0..4 : \E kinds \in [1..n -> ErrorKinds], cap \in 0..2, anon \in 0..n :
    Make("labels", [errors |-> [k \in 1..n |-> [error |-> kinds[k], id |-> IF k = anon THEN "" ELSE "s" \o ToString(k)]], cap |-> cap])

(* Runs of two stages, of the preprocessing stage and of up to three       *)
(* requests.                                                               *)
Shapes == {[Base EXCEPT !.stage = s, !.adapter = a] : s \in -1..1, a \in {"", "l"}}
          \cup {[Base EXCEPT !.stage = s, !.error = <<e>>, !.retries = 2] : s \in 0..1, e \in ErrorKinds}
          \cup {[Base EXCEPT !.usage = [prompt |-> 3, cached |-> 2, output |-> 2], !.retries = 1, !.recovered = TRUE]}
          \cup {m \in Streams : m.content # <<>> \/ m.reasoning # <<>>}
Run(metrics, swept, slo, server) == [metrics |-> metrics, declared |-> 2, swept |-> swept, slo |-> slo, server |-> server, cap |-> 1]
RunCase == Idle("run") /\ \E n \in 0..2 : \E metrics \in [1..n -> Shapes], server \in BOOLEAN,
                             slo \in {None, [ttft |-> 2], [tpot |-> 1, request_latency |-> 9]} :
    Make("run", Run(metrics, FALSE, slo, server))
SweptCase == Idle("swept") /\ \E m \in Shapes : Make("swept", Run(<<m>>, TRUE, None, FALSE))

(* Sessions of up to two events, with what became of their requests.       *)
Asked(id, event, m, error) == [m EXCEPT !.session = id, !.event = event, !.error = error]
Sessions(id, stage) ==
    {[id |-> id, stage |-> stage, events |-> 2, completed |-> c, error |-> e, facing |-> f, dispatch |-> d] :
        c \in 1..2, e \in {<<>>, <<CHOOSE k \in ErrorKinds : ~k.http>>}, f \in {{}, {"y"}, {"x", "y"}}, d \in {<<>>, <<0>>}}
ReportedAnswers == {Base} \cup {m \in Streams : m.usage # None /\ m.content # <<Chunk(3, 1)>>}
SessionCase == Idle("session") /\
    \E s \in Sessions("a", 0), m \in ReportedAnswers, failed \in {<<>>, <<CHOOSE k \in ErrorKinds : k.http>>} :
    \E others \in {<<>>, <<[s EXCEPT !.id = "b", !.stage = 1, !.completed = 2]>>}, left \in {[k \in {} |-> 0], [k \in {1, 2} |-> k]},
       extra \in {<<>>, <<Asked("a", "x", [Base EXCEPT !.usage = [prompt |-> 3, cached |-> 0]], <<>>)>>} :
        Make("session", [sessions |-> <<s>> \o others, left |-> left,
                         run |-> Run(extra \o <<Asked("a", "y", m, failed), Asked("b", "x", m, <<>>)>>, FALSE, None, FALSE)])

(* What is reported is what was measured: token times in order, every      *)
(* error under a label, and the totals of runs, stages and sessions agree, *)
(* so that the checks of a report flag no run but one whose servers say    *)
(* more of a prompt was cached than there is of it (reportgen/).           *)
ReportsReconcile ==
    /\ On("timeline", R!TimeLineIsSound)
    /\ On("labels", LAMBDA x : R!LabelsCoverErrors(x.errors, x.cap))
    /\ On("run", R!ReportsAreClean)
    /\ On("run", R!FailuresAreReported)
    /\ On("swept", R!OnlyStagesAreFlagged)
    /\ On("session", R!SessionsReconcile)

ReportAlgorithms == {"timeline", "labels", "run", "swept", "session"}
ReportCases == TimeLineCase \/ LabelCase \/ RunCase \/ SweptCase \/ SessionCase
=============================================================================
