------------------------------- MODULE ReplayGraph -------------------------------
(***************************************************************************)
(* From the calls of a recorded trace to a replay graph:                   *)
(* datagen/replay/otel_trace_to_replay_graph.py.                           *)
(*                                                                         *)
(* A span is [id, parent, name, status, start, end, messages, out, tools,  *)
(* structured, finish];                                                    *)
(* a call is a span that was kept, its messages converted.  Calls are      *)
(* numbered by their start; call i becomes event i.  Token counts are left *)
(* out, and with them everything that is proportioned by them.             *)
(***************************************************************************)
EXTENDS RecordedMessages, FiniteSets

(* What the signature of a span is made of: its times and attributes. *)
Signature(s) == <<s.start, s.end, s.messages, s.out, s.tools, s.structured, s.finish>>

(* filter_duplicate_spans: of spans that agree in times and attributes the *)
(* one with the least id stays.                                            *)
UniqueSpans(spans) == {s \in spans : ~\E t \in spans : t.id < s.id /\ Signature(s) = Signature(t)}

(* is_llm_span, without the option to keep errors. *)
IsLlmSpan(s) == s.name = "chat" /\ s.messages # <<>> /\ s.status # "error"

(* build_raw_calls: the calls in the order of their starts. *)
RawCalls(spans) ==
    LET kept == {s \in UniqueSpans(spans) : IsLlmSpan(s)}
        order == SetToSortSeq(kept, LAMBDA s, t : s.start < t.start \/ (s.start = t.start /\ s.id < t.id))
    IN [k \in 1..Len(order) |-> [id |-> order[k].id, start |-> order[k].start, end |-> order[k].end,
                                 messages |-> [m \in 1..Len(order[k].messages) |-> ReplayMessage(order[k].messages[m])],
                                 out |-> order[k].out, tools |-> order[k].tools, structured |-> order[k].structured,
                                 finish |-> order[k].finish]]

(***************************************************************************)
(* Causal dependencies: how an output came back in a later prompt.         *)
(***************************************************************************)
(* Parts follow each other in the prompt, a tool call with its result      *)
(* behind it; with a lead, the text of the first part is repeated before   *)
(* each tool call (_try_match_parts).                                      *)
Stride(p, lead) == IF lead # <<>> \/ IsCall(p) THEN 2 ELSE 1

TryMatchParts(parts, lead, messages) ==
    LET offset[k \in 1..Len(parts)] == IF k = 1 THEN 0 ELSE offset[k - 1] + Stride(parts[k - 1], lead)
    IN /\ parts # <<>>
       /\ \E c \in 1..Len(messages) : \A k \in 1..Len(parts) :
              /\ c + offset[k] <= Len(messages)
              /\ OutputMatches(lead \o PartText(parts[k]), messages[c + offset[k]], TRUE)

AllCallIds(messages) == UNION {MessageCallIds(messages[k]) : k \in 1..Len(messages)}

(* The first message that holds the text of an output, exactly or in part. *)
FirstHolding(text, messages) ==
    SelectInSeq(messages, LAMBDA m : OutputMatches(text, m, TRUE))

(* get_causal_dep: the type of the dependency of b on a, or "none". *)
CausalDep(a, b) ==
    LET parts == a.out.parts
        calls == SelectSeq(parts, IsCall)
        contentFirst == ~IsCall(parts[1])
    IN CASE a.out.shape = "none" \/ b.messages = <<>> -> "none"
         [] FirstHolding(OutputText(a.out), b.messages) # 0 -> "full_match"
         [] a.out.shape # "parts" -> "none"
         [] IdsOf(parts) # {} /\ IdsOf(parts) \subseteq AllCallIds(b.messages) -> "tool_call_ids_matched"
         [] Len(parts) < 2 -> "none"
         [] TryMatchParts(parts, <<>>, b.messages) -> "split_parts_matched"
         [] contentFirst /\ (\A k \in 2..Len(parts) : IsCall(parts[k]))
                /\ TryMatchParts(Tail(parts), PartText(parts[1]), b.messages) -> "content_and_split_tools_match"
         [] contentFirst /\ TryMatchParts(calls, <<>>, b.messages) -> "drop_content_split_parts"
         [] OTHER -> "none"

(* The message remembered for the substitution: the first that holds the   *)
(* output, if it is equal to it.  0: nothing is remembered.                *)
ExactMatch(a, b) ==
    LET k == FirstHolding(OutputText(a.out), b.messages)
    IN IF k # 0 /\ OutputMatches(OutputText(a.out), b.messages[k], FALSE) THEN k ELSE 0

(***************************************************************************)
(* find_predecessors_by_text_matching.  preds[i] is the function from the  *)
(* predecessors of call i to the types of the dependencies.                *)
(***************************************************************************)
Causal(pred) == {j \in DOMAIN pred : pred[j] # "temporal"}

(* get_causal_ancestors; with Temporal edges as well, all_ancestor_indices. *)
CausalAncestors(preds, i) ==
    LET up[k \in 1..Len(preds)] == UNION {{j} \cup up[j] : j \in Causal(preds[k])} IN up[i]
AllAncestors(preds, i) ==
    LET up[k \in 1..Len(preds)] == UNION {{j} \cup up[j] : j \in DOMAIN preds[k]} IN up[i]

(* Defect: a call is tried although a predecessor descends from it.        *)
AllFeeders(calls, preds, i) == {j \in 1..i - 1 : CausalDep(calls[j], calls[i]) # "none"}

(* Defect: a call is not tried if any later call descends from it.         *)
FeedersWithoutHeirs(calls, preds, i) ==
    {j \in AllFeeders(calls, preds, i) : \A k \in j + 1..i - 1 : j \notin CausalAncestors(preds, k)}

(* Calls are tried from the latest on; one from which a predecessor found  *)
(* so far descends is not tried.                                           *)
CausalPredecessors(calls, preds, i) ==
    LET found[j \in 1..i] ==
            IF j = i THEN {}
            ELSE IF \/ \E k \in found[j + 1] : j \in CausalAncestors(preds, k)
                    \/ CausalDep(calls[j], calls[i]) = "none"
                 THEN found[j + 1] ELSE found[j + 1] \cup {j}
    IN found[1]

(* The temporal fallback: the latest-started call that had ended. *)
EndedBefore(calls, i) == {j \in 1..i - 1 : calls[j].end <= calls[i].start}
TemporalPredecessor(calls, i) == {j \in EndedBefore(calls, i) : \A k \in EndedBefore(calls, i) : k <= j}

PredecessorsOf(calls, preds, i) ==
    LET causal == CausalPredecessors(calls, preds, i)
    IN [j \in causal \cup TemporalPredecessor(calls, i) |->
           IF j \in causal THEN CausalDep(calls[j], calls[i]) ELSE "temporal"]

Predecessors(calls) ==
    FoldLeft(LAMBDA preds, i : Append(preds, PredecessorsOf(calls, preds, i)), <<>>,
             [i \in 1..Len(calls) |-> i])

(***************************************************************************)
(* decompose_input: segments [type, count, source] of recorded messages.   *)
(***************************************************************************)
Segment(type, count, source) == [type |-> type, count |-> count, source |-> source]
NoSource == 0

SumOf(counts) == FoldLeft(LAMBDA a, b : a + b, 0, counts)
CoveredBefore(segments, k) == SumOf([l \in 1..k - 1 |-> segments[l].count])

SharedPrefix(a, b) ==
    LET n == IF Len(a) < Len(b) THEN Len(a) ELSE Len(b)
    IN CHOOSE k \in 0..n : /\ \A m \in 1..k : MessagesEqual(a[m], b[m])
                           /\ k = n \/ ~MessagesEqual(a[k + 1], b[k + 1])

(* Where, from message c on, the output of call j came back; 0: nowhere.   *)
Remembered(calls, preds, j, i) == IF j \in Causal(preds[i]) THEN ExactMatch(calls[j], calls[i]) ELSE 0
FoundAt(calls, preds, j, i, c) ==
    LET m == calls[i].messages
        out == calls[j].out
        Holds(x) == \/ OutputMatches(OutputText(out), x, FALSE)
                    \/ out.shape = "parts" /\ IdsOf(out.parts) # {} /\ IdsOf(out.parts) \subseteq MessageCallIds(x)
        First(at) == IF at = 0 THEN SelectInSubSeq(m, c, Len(m), Holds) ELSE IF c <= at THEN at ELSE 0
    IN IF out.shape = "none" THEN 0 ELSE First(Remembered(calls, preds, j, i))

(* The earliest output from message c on, of the first ancestor that has   *)
(* one there: <<message, ancestor>>, or <<0, 0>>.                          *)
Earliest(hits) ==
    IF hits = {} THEN <<0, NoSource>>
    ELSE CHOOSE f \in hits : \A g \in hits : f[1] < g[1] \/ (f[1] = g[1] /\ f[2] <= g[2])
NextOutput(calls, preds, ancestors, i, c) ==
    Earliest({f \in {<<FoundAt(calls, preds, j, i, c), j>> : j \in ancestors} : f[1] # 0})

(* The ancestor that shares the longest prefix, the first of several.      *)
Nearest(prefix) ==
    {j \in DOMAIN prefix : prefix[j] > 0 /\ \A k \in DOMAIN prefix : prefix[j] > prefix[k] \/ (prefix[j] = prefix[k] /\ j <= k)}

(* The segments from message c on, up to and with the next output.         *)
UpTo(next, c, n) ==
    IF next[1] = 0 THEN <<Segment("unique", n + 1 - c, NoSource)>>
    ELSE (IF next[1] > c THEN <<Segment("unique", next[1] - c, NoSource)>> ELSE <<>>) \o <<Segment("output", 1, next[2])>>

DecomposeInput(calls, preds, i) ==
    LET n == Len(calls[i].messages)
        rest[c \in 1..n + 1] ==
            LET Then(segments) == segments \o rest[c + CoveredBefore(segments, Len(segments) + 1)]
            IN IF c > n THEN <<>> ELSE Then(UpTo(NextOutput(calls, preds, AllAncestors(preds, i), i, c), c, n))
        From(prefix) ==
            IF Nearest(prefix) = {} THEN rest[1]
            ELSE LET j == CHOOSE j \in Nearest(prefix) : TRUE
                 IN <<Segment("shared", prefix[j], j)>> \o rest[prefix[j] + 1]
    IN IF AllAncestors(preds, i) = {} THEN <<Segment("unique", n, NoSource)>>
       ELSE From([j \in AllAncestors(preds, i) |-> SharedPrefix(calls[i].messages, calls[j].messages)])

(* Defect: segments keep the counts of recorded messages.                  *)
NotRescaled(segments, expansion) == segments

(* _rescale_segments_to_wire: counts of recorded messages become counts of *)
(* the wire messages they expand to.                                       *)
RescaleToWire(segments, expansion) ==
    [k \in 1..Len(segments) |->
        LET from == CoveredBefore(segments, k)
        IN [segments[k] EXCEPT !.count = SumOf(SubSeq(expansion, from + 1, from + segments[k].count))]]

(* Defect: the gap is taken to the call that started last.                 *)
WaitAfterLatest(calls, pred, i) ==
    LET last == CHOOSE j \in DOMAIN pred : \A k \in DOMAIN pred : k <= j
    IN IF pred = <<>> \/ calls[last].end > calls[i].start THEN 0 ELSE calls[i].start - calls[last].end

(***************************************************************************)
(* build_graph: event i of call i.                                         *)
(***************************************************************************)
Wait(calls, pred, i) ==
    LET ends == {calls[j].end : j \in DOMAIN pred}
        last == CHOOSE e \in ends : \A f \in ends : f <= e
    IN IF pred = <<>> \/ last > calls[i].start THEN 0 ELSE calls[i].start - last

(* A recorded tool call counts as one only if its tools were captured. *)
OutputIsToolCall(c) == c.tools /\ \E k \in 1..Len(c.out.parts) : IsCall(c.out.parts[k])

EventOf(calls, preds, i) ==
    LET expanded == [k \in 1..Len(calls[i].messages) |-> WireMessages(calls[i].messages[k])]
    IN [messages |-> FlattenSeq(expanded),
        segments |-> RescaleToWire(DecomposeInput(calls, preds, i), [k \in 1..Len(expanded) |-> Len(expanded[k])]),
        preds |-> preds[i], wait |-> Wait(calls, preds[i], i),
        isToolCall |-> OutputIsToolCall(calls[i]), start |-> calls[i].start, end |-> calls[i].end]

BuildGraph(calls) ==
    LET preds == Predecessors(calls) IN [i \in 1..Len(calls) |-> EventOf(calls, preds, i)]

(***************************************************************************)
(* The spans within tools, which no user sees (tag_user_facing_events).    *)
(* Spans are all spans of the trace, those of tools ("tool.execution")     *)
(* among them.                                                             *)
(***************************************************************************)
ToolSpans(spans) == {s.id : s \in {s \in spans : s.name = "tool.execution"}}
ParentOf(spans, id) == {s.parent : s \in {s \in spans : s.id = id}} \ {NoSource}

(* Defect: only the parent of a span is looked at.                         *)
ParentOnly(spans, id) == ParentOf(spans, id)

(* The walk up from a span stops at a tool, at the top, or where it has    *)
(* been: up[k] is what it has visited after k steps.                       *)
Ancestry(spans, id) ==
    LET up[k \in 0..Cardinality(spans)] ==
            IF k = 0 THEN ParentOf(spans, id)
            ELSE up[k - 1] \cup UNION {ParentOf(spans, p) : p \in up[k - 1] \ ToolSpans(spans)}
    IN up[Cardinality(spans)]

ToolInternalSpans(spans) == {s.id : s \in {s \in spans : Ancestry(spans, s.id) \cap ToolSpans(spans) # {}}}

(***************************************************************************)
(* Properties.                                                             *)
(***************************************************************************)
(* Calls are numbered by their starts (the sort of build_raw_calls), which *)
(* the temporal fallback and the waits take for granted.                   *)
InOrderOfStart(calls) ==
    /\ Len(calls) \in Nat
    /\ \A i \in 1..Len(calls) : calls[i].start \in Int /\ calls[i].end \in Int
    /\ \A i \in 1..Len(calls) : \A j \in 1..i : calls[j].start <= calls[i].start

(* Every call whose output came back in a prompt is an ancestor of the     *)
(* call with that prompt, so that its live output is there in time, though *)
(* the search skips ancestors of what it has found                         *)
(* (find_predecessors_by_text_matching).                                   *)
FeedersAreAncestors(calls, preds) ==
    \A i \in 1..Len(calls) : \A j \in 1..i - 1 :
        CausalDep(calls[j], calls[i]) # "none" => j \in CausalAncestors(preds, i)

(* No causal predecessor is an ancestor of another: only direct edges are  *)
(* kept.                                                                   *)
CausalEdgesAreDirect(calls, preds) ==
    \A i \in 1..Len(calls) : \A j, k \in Causal(preds[i]) : j \notin CausalAncestors(preds, k)

(* The segments of an event cover its wire messages one after the other    *)
(* and to the end, an output covers one assistant message, and what is     *)
(* shared with an ancestor is word for word the beginning of its messages  *)
(* (decompose_input, then _rescale_segments_to_wire).                      *)
SegmentsTileTheCall(graph) ==
    \A i \in 1..Len(graph) :
        LET event == graph[i] IN
        /\ SumOf([k \in 1..Len(event.segments) |-> event.segments[k].count]) = Len(event.messages)
        /\ \A k \in 1..Len(event.segments) :
              LET seg == event.segments[k]
                  at == CoveredBefore(event.segments, k) + 1
              IN /\ seg.type = "output" => seg.count = 1 /\ event.messages[at].role = "assistant"
                 /\ seg.type = "shared" => SubSeq(event.messages, 1, seg.count) = SubSeq(graph[seg.source].messages, 1, seg.count)

(* Replayed with the durations that were recorded, no call is later after  *)
(* the first one than it was recorded, if the predecessors of every call   *)
(* had ended when it started: its wait is counted from the predecessor     *)
(* that ends last, not from the one that starts last.                      *)
NeverSlowerThanRecorded(graph) ==
    LET n == Len(graph)
        starts[i \in 1..n] ==
            LET ready == {starts[j] + (graph[j].end - graph[j].start) : j \in DOMAIN graph[i].preds}
            IN IF ready = {} THEN 0 ELSE graph[i].wait + CHOOSE t \in ready : \A u \in ready : u <= t
        Sequential(i) == \A j \in DOMAIN graph[i].preds : graph[j].end <= graph[i].start
    IN (\A i \in 1..n : Sequential(i)) => \A i \in 1..n : starts[i] <= graph[i].start - graph[1].start

(* A span is internal to a tool if and only if a chain of parents leads    *)
(* from it to the tool, whatever its length, and though parents may be     *)
(* missing or form a cycle.                                                *)
NestedSpansAreInternal(spans) ==
    LET below[k \in 0..Cardinality(spans)] ==
            IF k = 0 THEN {s \in spans : s.parent \in ToolSpans(spans)}
            ELSE below[k - 1] \cup {s \in spans : \E t \in below[k - 1] : s.parent = t.id}
    IN ToolInternalSpans(spans) = {s.id : s \in below[Cardinality(spans)]}
=============================================================================
