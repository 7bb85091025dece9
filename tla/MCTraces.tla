------------------------------- MODULE MCTraces -------------------------------
(***************************************************************************)
(* Recorded traces, the graphs made of them, and their replay; Weka traces *)
(* (prompts from block hashes, streams, timing, predecessors); turns that  *)
(* are made up, and when they are due.                                     *)
(***************************************************************************)
EXTENDS MCCase, OutputSubstitution, TraceReconstruction, TurnPlacement, LoadSchedule, Functions

CONSTANTS
  TraceLength    \* calls of a recorded trace

(***************************************************************************)
(* Traces: each call continues an earlier one, or starts afresh, and may   *)
(* also quote the output of another.  out says what a call answers, style  *)
(* how the harness puts answers into later prompts, long whether a call    *)
(* runs into the next.                                                     *)
(***************************************************************************)
Outs == {"same text", "own text", "one call", "two calls", "text and calls"}
Styles == {"whole", "bundled", "split", "merged"}

OutOf(t, k) ==
    LET call(f) == CallPart("c" \o ToString(k) \o f, f)
        poll == CallPart("c" \o ToString(k), "poll")
        text(x) == TextPart(x)
    IN CASE t.out[k] = "same text" -> [shape |-> "plain", parts |-> <<text("ok")>>]
         [] t.out[k] = "own text" -> [shape |-> "plain", parts |-> <<text("a" \o ToString(k))>>]
         [] t.out[k] = "one call" -> [shape |-> "parts", parts |-> <<poll>>]
         [] t.out[k] = "two calls" -> [shape |-> "parts", parts |-> <<call("f"), call("g")>>]
         [] t.out[k] = "text and calls" -> [shape |-> "parts", parts |-> <<text("a" \o ToString(k)), call("f"), call("f2")>>]

Assistant(content, parts, calls) == RawMessage("assistant", content, parts, calls, NoId)
Result(c) == RawMessage("tool", "string", <<TextPart(c.content)>>, <<>>, c.id)
Renamed(c) == [c EXCEPT !.id = "again"]

Quoted(out, style) ==
    LET texts == SelectSeq(out.parts, IsText)
        calls == SelectSeq(out.parts, IsCall)
        whole == IF calls = <<>> THEN Assistant("string", texts, <<>>)
                 ELSE Assistant(IF texts = <<>> THEN "absent" ELSE "string", texts, calls)
        separately(part) == IF IsCall(part)
                            THEN <<Assistant("absent", <<>>, <<Renamed(part)>>), Result(Renamed(part))>>
                            ELSE <<Assistant("string", <<part>>, <<>>)>>
        merged(c) == <<Assistant("string", texts, <<Renamed(c)>>), Result(Renamed(c))>>
    IN CASE style = "whole" -> <<whole>> \o [k \in 1..Len(calls) |-> Result(calls[k])]
         [] style = "bundled" -> <<whole>> \o
                IF calls = <<>> THEN <<>>
                ELSE <<RawMessage("user", "list", [k \in 1..Len(calls) |-> ResultPart(calls[k].id, calls[k].content)],
                                    <<>>, NoId)>>
         [] style = "split" -> FlattenSeq([k \in 1..Len(out.parts) |-> separately(out.parts[k])])
         [] style = "merged" -> IF calls = <<>> THEN <<whole>>
                                ELSE FlattenSeq([k \in 1..Len(calls) |-> merged(calls[k])])

User(k) == RawMessage("user", "string", <<TextPart("u" \o ToString(k))>>, <<>>, NoId)

PromptsAsked(t) ==
    LET prompt[k \in 1..Len(t.parent)] ==
            LET p == t.parent[k]
                q == t.also[k]
            IN (IF p = 0 THEN <<>> ELSE prompt[p] \o Quoted(OutOf(t, p), t.style))
               \o (IF q = 0 THEN <<>> ELSE Quoted(OutOf(t, q), t.style)) \o <<User(k)>>
    IN prompt

SpansOf(t) ==
    {[id |-> k, parent |-> 0, name |-> "chat", status |-> "ok", start |-> 10 * k,
      end |-> 10 * k + (IF t.long[k] THEN 17 ELSE 5), messages |-> PromptsAsked(t)[k], out |-> OutOf(t, k),
      tools |-> TRUE, structured |-> FALSE, finish |-> "stop"] : k \in 1..Len(t.parent)}

Ascending(n) == {f \in [1..n -> 0..n - 1] : \A k \in 1..n : f[k] < k}
Traces ==
    {[parent |-> p, also |-> q, style |-> s, out |-> o, long |-> l] :
        p \in Ascending(3), q \in {f \in Ascending(3) : f[2] = 0}, s \in Styles, o \in {o \in [1..3 -> Outs] : o[3] = "own text"},
        l \in {<<FALSE, FALSE, FALSE>>, <<TRUE, TRUE, FALSE>>}}
    \cup
    {[parent |-> p, also |-> q, style |-> "whole", out |-> [k \in 1..4 |-> o], long |-> l] :
        p \in Ascending(TraceLength), q \in {f \in Ascending(TraceLength) : f[2] = 0 /\ f[3] = 0},
        o \in {"own text"}, l \in {l \in [1..4 -> BOOLEAN] : ~l[4]}}

Calls(t) == RawCalls(SpansOf(t))

(* The responses: as many calls as recorded, with ids of their own, in the *)
(* reverse order, and text that differs from all that is recorded.         *)
LiveOf(t, k) ==
    LET parts == OutOf(t, k).parts
        calls == SelectSeq(parts, IsCall)
        texts == IF calls = <<>> \/ SelectSeq(parts, IsText) # <<>> THEN <<TextPart("live" \o ToString(k))>> ELSE <<>>
    IN [answered |-> TRUE, text |-> "live" \o ToString(k),
        message |-> WireMessage("assistant", texts,
                        [l \in 1..Len(calls) |-> [calls[Len(calls) + 1 - l] EXCEPT !.id = "live" \o ToString(k) \o @]], NoId)]
Options == [useRecorded |-> FALSE, malformed |-> {}, inject |-> FALSE, disabled |-> FALSE]
Disabled(duplicate) == [Options EXCEPT !.disabled = TRUE, !.inject = duplicate]

(* In a second replay every live call of the first two events is malformed. *)
LiveIds(t, k) == LET m == LiveOf(t, k).message IN {m.calls[l].id : l \in 1..Len(m.calls)}
Fallback(t) == [Options EXCEPT !.useRecorded = TRUE, !.malformed = LiveIds(t, 1) \cup LiveIds(t, 2)]

Variants(t) == [live |-> Options, recorded |-> Disabled(FALSE), marked |-> Disabled(TRUE), repaired |-> Fallback(t)]

TraceCase ==
    /\ Idle("trace")
    /\ \E t \in Traces : \E calls \in {Calls(t)} : \E graph \in {BuildGraph(calls)} :
           Make("trace", [calls |-> calls, preds |-> [i \in 1..Len(graph) |-> graph[i].preds], graph |-> graph,
                          malformed |-> Fallback(t).malformed,
                          sent |-> [v \in DOMAIN Variants(t) |->
                                      Replay(graph, [k \in 1..Len(graph) |-> LiveOf(t, k)], Variants(t)[v])]])

(***************************************************************************)
(* Single messages: texts, images and tool results in any order.           *)
(***************************************************************************)
MessageParts == {TextPart("t1"), TextPart("t2"), Part("image", NoId, "picture"),
                 Part("image", NoId, "missing"), ResultPart("c1", "r1"), ResultPart("c2", "r2")}
MessageCase ==
    /\ Idle("message")
    /\ \E n \in 1..4 : \E parts \in [1..n -> MessageParts] :
           /\ IsInjective(parts)
           /\ Make("message", ReplayMessage(RawMessage("user", "list", parts, <<>>, NoId)))

(***************************************************************************)
(* The spans of a trace, with any parents: tools within tools, spans that  *)
(* are missing, cycles.                                                    *)
(***************************************************************************)
SpanCase ==
    /\ Idle("spans")
    /\ \E parent \in [1..TraceLength -> 0..TraceLength], tools \in SUBSET (1..TraceLength) :
           Make("spans", {[id |-> k, parent |-> parent[k], name |-> IF k \in tools THEN "tool.execution" ELSE "chat"] :
                              k \in 1..TraceLength})

OnTrace(P(_)) == On("trace", P)

(* The graph of a trace keeps its causes and its timing: an                *)
(* event waits for the direct sources of its prompt, it never starts later *)
(* after them than recorded, and calls made inside a tool are not events.  *)
GraphIsFaithful ==
    /\ OnTrace(LAMBDA x : FeedersAreAncestors(x.calls, x.preds))
    /\ OnTrace(LAMBDA x : CausalEdgesAreDirect(x.calls, x.preds))
    /\ OnTrace(LAMBDA x : NeverSlowerThanRecorded(x.graph))
    /\ On("spans", NestedSpansAreInternal)

(* The replay of a trace says what the live conversation said: calls are   *)
(* replayed in their order, segments tile their prompts, results           *)
(* answer calls that were made, outputs are the live ones unless they are  *)
(* malformed, without substitution the recorded prompt is sent, and no     *)
(* part of a recorded message is dropped.                                  *)
ReplayIsFaithful ==
    /\ OnTrace(LAMBDA x : InOrderOfStart(x.calls))
    /\ OnTrace(LAMBDA x : SegmentsTileTheCall(x.graph))
    /\ OnTrace(LAMBDA x : \A v \in {"live", "repaired"} : ResultsAnswerTheirCalls(x.calls, x.graph, x.sent[v]))
    /\ OnTrace(LAMBDA x : DistinctHistoryIsLive(x.calls, x.sent.live))
    /\ OnTrace(LAMBDA x : NothingMalformedIsSent(x.sent.repaired, x.malformed))
    /\ OnTrace(LAMBDA x : RecordedIsSentAsIs(x.graph, x.sent.recorded, Disabled(FALSE)))
    /\ OnTrace(LAMBDA x : RecordedIsSentAsIs(x.graph, x.sent.marked, Disabled(TRUE)))
    /\ On("message", EverythingRecordedIsSent)

(* Conversations of three turns; later prompts go on, go back or branch.   *)
Turns(hashes, outs) ==
    {[hashes |-> h, in |-> BlockSize * Len(h) + tail, out |-> out] : h \in hashes, tail \in {0, 1}, out \in outs}
Conversations ==
    {<<a, b, c>> : a \in Turns({<<1, 2>>}, {0, 3}), b \in Turns({<<1>>, <<1, 2>>, <<1, 2, 3>>, <<1, 3, 4>>, <<1, 2, 3, 4>>}, {0, 3}),
                   c \in Turns({<<1, 2>>, <<1, 2, 3>>, <<1, 3, 5>>, <<1, 2, 3, 4>>, <<1, 2, 3, 5>>, <<2>>, <<1, 2, 3, 4, 5>>}, {0})}
ConversationCase == Idle("conversation") /\
    \E turns \in Conversations, prefix \in {0, 3} :
        Make("conversation", [turns |-> turns, prompts |-> Prompts(turns, prefix)])

(* A prompt has the tokens of each block it shares, "exactly".             *)
PromptIsAligned == On("conversation", LAMBDA x : EveryBlockIsAligned(x.turns, x.prompts))

StreamCase == Idle("streams") /\
    \E t \in [1..4 -> 0..3], time \in [1..4 -> 0..2] :
        LET requests == [r \in 1..4 |-> [t |-> t[r], time |-> time[r]]] IN
        /\ \A r \in 1..3 : t[r] <= t[r + 1]
        /\ Make("streams", [requests |-> requests, streams |-> PackIntoStreams(requests)])

WarpCase == Idle("warp") /\
    \E a \in {0, 1}, gap \in [1..3 -> {0, 1, 2, 4}], cap \in 1..3 :
        Make("warp", [starts |-> <<a, a + gap[1], a + gap[1] + gap[2], a + gap[1] + gap[2] + gap[3]>>, cap |-> cap])

WekaPlain(role, text) == [role |-> role, shape |-> "plain", parts |-> [k \in 1..Len(text) |-> TextPart(text[k])], id |-> NoId]
Sayings == {<<>>, <<"x">>, <<"y">>, <<"x", "y">>}
SearchCase == Idle("search") /\
    \E text \in Sayings \cup {<<"x", "y", "x">>}, role \in [1..3 -> {"user", "assistant"}], said \in [1..3 -> Sayings] :
        Make("search", [text |-> TextOf([k \in 1..Len(text) |-> TextPart(text[k])]),
                          messages |-> [k \in 1..3 |-> WekaPlain(role[k], said[k])]])

(* A Weka trace is rebuilt as it was measured: prompts share what their    *)
(* block hashes share, streams are as few as overlap allows, the idle-gap  *)
(* cap keeps the order of calls, and the fast search finds what the slow   *)
(* one finds.                                                              *)
WekaIsFaithful ==
    /\ On("conversation", LAMBDA x : WholeBlocksAreAligned(x.turns, x.prompts))
    /\ On("streams", LAMBDA x : StreamsAreFewest(x.requests, x.streams))
    /\ On("warp", LAMBDA x : WarpKeepsOrder(x.starts, x.cap, 0..12))
    /\ On("search", LAMBDA x : FastSearchAgrees(x.text, x.messages))

TraceAlgorithms == {"trace", "message", "spans", "conversation", "streams", "warp", "search"}
TraceCases == TraceCase \/ MessageCase \/ SpanCase \/ ConversationCase \/ StreamCase \/ WarpCase \/ SearchCase
-----------------------------------------------------------------------------
(***************************************************************************)
(* Synthetic turns: up to four users or three conversations, in every      *)
(* order; up to three seconds of up to three requests; any count of tokens. *)
(***************************************************************************)
Orders(n) == {p \in [1..n -> 1..n] : \A i, j \in 1..n : i # j => p[i] # p[j]}
SharedCase == Idle("shared") /\ \E groups \in 1..3, prompts \in 1..2 :
    groups * prompts <= 4 /\ \E order \in Orders(groups * prompts) :
        Make("shared", [groups |-> groups, prompts |-> prompts, order |-> order])
WorkerCase == Idle("worker") /\ \E groups \in 1..4, prompts \in 1..3, workers \in 1..4, level \in {<<>>} \cup {<<n>> : n \in 1..4} :
    Make("worker", [groups |-> groups, prompts |-> prompts, workers |-> workers, level |-> level])
SlotsCase == Idle("slot") /\ \E n \in 1..3 : \E counts \in [1..n -> 1..3] : Make("slot", counts)
StagesCase == Idle("stages") /\ \E n \in 1..3 : \E stages \in [1..n -> 0..2] : Make("stages", stages)
CeilingCase == Idle("ceiling") /\ \E type \in {"fixed", "uniform"}, min \in 0..1, mean \in 1..4, max \in 1..3, length \in 1..6 :
    Make("ceiling", [dist |-> [type |-> type, min |-> min, mean |-> mean, max |-> max], length |-> length])
ExactCase == Idle("exact") /\ \E target \in 0..2 : \E count \in [0..5 -> 0..2] : Make("exact", [target |-> target, count |-> count])
Counting(count) == [n \in Nat |-> IF n \in DOMAIN count THEN count[n] ELSE count[5]]
TemplateCase == Idle("template") /\ \E overhead \in 0..3 : \E lengths \in [1..2 -> 1..5] : Make("template", [overhead |-> overhead, lengths |-> lengths])

Intervals(n) == UNION {[1..k -> 1..3] : k \in 0..n}
Starts == {Time(0, 1), Time(5, 2)}
ConstantCase == Idle("constant") /\ \E start \in Starts, drawn \in Intervals(3), duration \in 1..3 :
    Make("constant", [start |-> start, drawn |-> drawn, duration |-> duration])
PoissonCase == Idle("poisson") /\ \E start \in Starts, drawn \in [1..3 -> Intervals(2)] : Make("poisson", [start |-> start, drawn |-> drawn])
SampleCase == Idle("sample") /\ \E n \in 0..5 : \E active \in [1..n -> 0..3], end \in 1..6 :
    Make("sample", [samples |-> [k \in 1..n |-> [at |-> k, active |-> active[k]]], end |-> end])
SweepCase == Idle("sweep") /\ \E target \in 1..6, size \in 1..4 : \E falling \in {<<>>} \cup {f \in [1..size -> 1..target] :
                 f[1] = target /\ (size > 1 => f[size] = 1) /\ \A k \in 1 .. (size - 1) : f[k] >= f[k + 1]} :
    Make("sweep", [target |-> target, size |-> size, falling |-> falling])

(* A turn is of the group, session and worker it belongs with, leaves room *)
(* for its output, and is due when the load asks for it; the stages of a   *)
(* sweep are those the server can bear.                                    *)
TurnsAreWellPlaced ==
    /\ On("shared", LAMBDA x : PromptsBelongTogether(x.groups, x.prompts, x.order, 9))
    /\ On("worker", LAMBDA x : UsersStayTogether(x.groups, x.prompts, x.workers, x.level, 24))
    /\ On("slot", LAMBDA x : ConversationsPlayThrough(x, 15))
    /\ On("stages", StagesShareAPrompt)
    /\ On("ceiling", LAMBDA x : OutputsLeaveRoom(x.dist, x.length))
    /\ On("exact", LAMBDA x : SuffixesKeepTheirStart(x.target, Counting(x.count)))
    /\ On("template", LAMBDA x : TemplatesAreCounted(x.lengths, x.overhead))
    /\ On("constant", LAMBDA x : RateIsKept(x.start, x.drawn, x.duration))
    /\ On("poisson", LAMBDA x : SecondsAreTheirOwn(x.start, x.drawn))
    /\ On("sample", LAMBDA x : SaturationIsServed(x.samples, x.end))
    /\ On("sweep", LAMBDA x : SweepReachesSaturation(x.target, x.size, x.falling))

TurnsAlgorithms == {"shared", "worker", "slot", "stages", "ceiling", "exact", "template", "constant", "poisson", "sample", "sweep"}
TurnsCases == SharedCase \/ WorkerCase \/ SlotsCase \/ StagesCase \/ CeilingCase \/ ExactCase \/ TemplateCase \/ ConstantCase \/ PoissonCase \/ SampleCase \/ SweepCase
=============================================================================
