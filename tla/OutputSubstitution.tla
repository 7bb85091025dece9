---------------------------- MODULE OutputSubstitution ----------------------------
(***************************************************************************)
(* The messages of an event at replay: live outputs of its predecessors in *)
(* place of recorded ones (_build_messages_with_substitution and           *)
(* load_lazy_data of datagen/replay/replay_graph_session_datagen.py).      *)
(*                                                                         *)
(* registry[j] is what event j left: [input, answered, message, text], its *)
(* messages, whether the response had a message, that message, and its     *)
(* text.  malformed holds the ids of tool calls whose arguments are no     *)
(* JSON; useRecorded, inject and disabled (no output is substituted) are   *)
(* options of the configuration.  A response has both a message and a text *)
(* or neither (process_response), so the branch for a text alone is left   *)
(* out.                                                                    *)
(***************************************************************************)
EXTENDS ReplayGraph

NothingSaid == "nothing"

CallNames(message) == [k \in 1..Len(message.calls) |-> message.calls[k].content]

(* _detect_bad_tool_calls *)
HasBadCalls(message, malformed) == \E k \in 1..Len(message.calls) : message.calls[k].id \in malformed

(* Defect: live calls are paired by their place.                           *)
PairedByPlace(names, live) == [k \in 1..Len(names) |-> IF k <= Len(live) THEN k ELSE 0]

(* Results recorded behind a replaced assistant message take the ids of    *)
(* the live calls: each that of the first call of its function that is not *)
(* taken yet, or, if no calls were recorded, of the call in its place.     *)
Pairing(names, live) ==
    LET pair[k \in 0..Len(names)] ==
            IF k = 0 THEN <<>>
            ELSE LET free == {l \in 1..Len(live) : live[l].content = names[k] /\ l \notin ToSet(pair[k - 1])}
                 IN Append(pair[k - 1], IF free = {} THEN 0 ELSE CHOOSE l \in free : \A x \in free : l <= x)
    IN IF names = <<>> THEN [k \in 1..Len(live) |-> k] ELSE pair[Len(names)]

(* One entry of pending_id_rewrites: the message at index at, with its     *)
(* live calls, had the calls names recorded.                               *)
RewriteIds(result, at, live, names) ==
    LET tools == SelectSeq([k \in 1..Len(result) |-> k], LAMBDA k : k > at /\ result[k].role = "tool")
        pairing == Pairing(names, live)
        Ordinal(k) == CHOOSE n \in 1..Len(tools) : tools[n] = k
    IN [k \in 1..Len(result) |->
          IF k \in ToSet(tools) /\ Ordinal(k) <= Len(pairing) /\ pairing[Ordinal(k)] # 0
          THEN [result[k] EXCEPT !.id = live[pairing[Ordinal(k)]].id] ELSE result[k]]

(* What one segment contributes: [messages, rewrite] where rewrite holds   *)
(* the live calls and the recorded names, if ids are to be rewritten.      *)
Contribution(messages) == [messages |-> messages, rewrite |-> <<>>]
Marked(message) == [message EXCEPT !.content = <<TextPart("session marker")>> \o @]

(* Defect: the results are relinked to live calls that are not sent.       *)
RelinkedAnyway(seg, recorded, entry, useRecorded, malformed) ==
    IF seg.count # 1 \/ seg.source = NoSource \/ ~entry.answered THEN Contribution(recorded)
    ELSE [messages |-> IF useRecorded /\ HasBadCalls(entry.message, malformed) THEN recorded ELSE <<entry.message>>,
          rewrite |-> IF entry.message.calls = <<>> THEN <<>>
                      ELSE <<[live |-> entry.message.calls, names |-> CallNames(recorded[1])]>>]

(* Defect: the option is not looked at.                                    *)
AlwaysLive(seg, recorded, entry, useRecorded, malformed) ==
    IF seg.count # 1 \/ seg.source = NoSource \/ ~entry.answered THEN Contribution(recorded)
    ELSE [messages |-> <<entry.message>>,
          rewrite |-> IF entry.message.calls = <<>> THEN <<>>
                      ELSE <<[live |-> entry.message.calls, names |-> CallNames(recorded[1])]>>]

OutputSegment(seg, recorded, entry, useRecorded, malformed) ==
    CASE seg.count # 1 \/ seg.source = NoSource \/ ~entry.answered -> Contribution(recorded)
      [] useRecorded /\ HasBadCalls(entry.message, malformed) -> Contribution(<<recorded[1]>>)
      [] OTHER -> [messages |-> <<entry.message>>,
                   rewrite |-> IF entry.message.calls = <<>> THEN <<>>
                               ELSE <<[live |-> entry.message.calls, names |-> CallNames(recorded[1])]>>]

(* Defect: the recorded prefix is kept.                                    *)
SharedAsRecorded(seg, recorded, entry) == Contribution(recorded)

SharedSegment(seg, recorded, entry) ==
    Contribution(IF Len(entry.input) < seg.count THEN recorded ELSE SubSeq(entry.input, 1, seg.count))

(* A child's report, wrapped, in place of the content of a user message.   *)
ReportSegment(seg, recorded, entry) ==
    Contribution(IF seg.count # 1 \/ recorded[1].role # "user" \/ entry.text = NothingSaid THEN recorded
                 ELSE <<[recorded[1] EXCEPT !.content = <<Part("report", NoId, entry.text)>>]>>)

SegmentMessages(seg, recorded, registry, option) ==
    CASE seg.type = "output" -> OutputSegment(seg, recorded, registry[seg.source], option.useRecorded, option.malformed)
      [] seg.type = "shared" -> SharedSegment(seg, recorded, registry[seg.source])
      [] seg.type = "async_report" -> ReportSegment(seg, recorded, registry[seg.source])
      [] seg.type = "unique" -> Contribution([k \in 1..Len(recorded) |->
                                    IF option.inject THEN Marked(recorded[k]) ELSE recorded[k]])

BuildMessages(event, registry, option) ==
    LET segments == event.segments
        part == [k \in 1..Len(segments) |->
                    SegmentMessages(segments[k],
                                    SubSeq(event.messages, CoveredBefore(segments, k) + 1,
                                           CoveredBefore(segments, k) + segments[k].count), registry, option)]
        built == FlattenSeq([k \in 1..Len(part) |-> part[k].messages])
        at(k) == SumOf([l \in 1..k |-> Len(part[l].messages)])
        rewritten[k \in 0..Len(part)] ==
            IF k = 0 THEN built
            ELSE IF part[k].rewrite = <<>> THEN rewritten[k - 1]
            ELSE RewriteIds(rewritten[k - 1], at(k), part[k].rewrite[1].live, part[k].rewrite[1].names)
    IN rewritten[Len(part)]

(***************************************************************************)
(* What an event sends (end of wait_for_predecessors_and_substitute): the  *)
(* recorded messages, or those built from its segments, if outputs are to  *)
(* be substituted or the session is to be marked.  A configuration with    *)
(* disabled and inject is not accepted (validate_output_substitution).     *)
(***************************************************************************)
(* Defect: any two options are accepted.                                   *)
AnyOptions(option) == TRUE

Accepted(option) == ~(option.disabled /\ option.inject)

HasSegment(event, types) == \E k \in 1..Len(event.segments) : event.segments[k].type \in types
NeedsSubstitution(event, option) == ~option.disabled /\ HasSegment(event, {"output", "shared", "async_report"})
NeedsInjection(event, option) == option.inject /\ HasSegment(event, {"unique"})
SentMessages(event, registry, option) ==
    IF NeedsSubstitution(event, option) \/ NeedsInjection(event, option)
    THEN BuildMessages(event, registry, option) ELSE event.messages

(***************************************************************************)
(* The replay of a whole graph, event by event: what event i sends, given  *)
(* the responses Live[j] of all events.                                    *)
(***************************************************************************)
Replay(graph, live, option) ==
    FoldLeft(LAMBDA registry, i :
                Append(registry, [input |-> SentMessages(graph[i], registry, option), answered |-> live[i].answered,
                                  message |-> live[i].message, text |-> live[i].text]),
             <<>>, [i \in 1..Len(graph) |-> i])

(***************************************************************************)
(* Properties.                                                             *)
(***************************************************************************)
Begins(s, t) == Len(s) <= Len(t) /\ SubSeq(t, 1, Len(s)) = s
Continues(calls, i, p) ==
    LET m == calls[i].messages
        n == Len(calls[p].messages)
    IN /\ p < i /\ Begins(calls[p].messages, m) /\ n < Len(m)
       /\ OutputMatches(OutputText(calls[p].out), m[n + 1], FALSE)

(* A call that continues another sends what that one sent, followed by     *)
(* what the server answered: the recorded message is replaced by the       *)
(* generated one, and the prefix stays what the server has in its cache.   *)
HistoryIsLive(calls, registry) ==
    \A i, p \in 1..Len(calls) :
        Continues(calls, i, p) =>
            Begins(registry[p].input \o <<registry[p].message>>, registry[i].input)

(* The same for traces in which no two calls said the same.                *)
AllDiffer(calls) == \A i, j \in 1..Len(calls) : i # j => OutputText(calls[i].out) # OutputText(calls[j].out)
DistinctHistoryIsLive(calls, registry) == AllDiffer(calls) => HistoryIsLive(calls, registry)

(* Every tool result that is sent answers a call of the assistant message  *)
(* before it, a call of the function whose result it is; so the live calls *)
(* may come in another order than the recorded ones.                       *)
Answers(messages, k) ==
    LET before == {l \in 1..k - 1 : messages[l].role = "assistant"}
        last == messages[CHOOSE l \in before : \A x \in before : x <= l]
    IN /\ before # {}
       /\ \E c \in 1..Len(last.calls) :
              /\ last.calls[c].id = messages[k].id
              /\ last.calls[c].content = messages[k].content[Len(messages[k].content)].content
Linked(messages) == \A k \in 1..Len(messages) : messages[k].role = "tool" => Answers(messages, k)
ResultsAnswerTheirCalls(calls, graph, registry) ==
    AllDiffer(calls) =>
    \A i \in 1..Len(graph) : Linked(graph[i].messages) => Linked(registry[i].input)

(* With the option to fall back on the recording, no tool call with        *)
(* malformed arguments is sent on, neither in place of an output nor in    *)
(* what is shared with an ancestor (segment handling in                    *)
(* _build_messages_with_substitution).                                     *)
NothingMalformedIsSent(registry, malformed) ==
    \A i \in 1..Len(registry) : \A k \in 1..Len(registry[i].input) : ~HasBadCalls(registry[i].input[k], malformed)

(* Without output substitution every recorded assistant message is sent as *)
(* it is (disable_output_substitution): a marker, which would have the     *)
(* messages built from their segments, cannot be asked for as well.        *)
RecordedIsSentAsIs(graph, registry, option) ==
    Accepted(option) =>
    \A i \in 1..Len(graph) :
        SelectSeq(registry[i].input, LAMBDA m : m.role = "assistant")
            = SelectSeq(graph[i].messages, LAMBDA m : m.role = "assistant")
=============================================================================
