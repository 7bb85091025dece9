---------------------------- MODULE RecordedMessages ----------------------------
(***************************************************************************)
(* Messages of recorded traces and what becomes of them:                   *)
(* datagen/replay/otel_trace_utils.py and the first part of                *)
(* otel_trace_to_replay_graph.py.                                          *)
(*                                                                         *)
(* A part is [type, id, content]: text, an image (content "missing" when   *)
(* its bytes are not in the trace), a tool call (content stands for its    *)
(* name and arguments) or the result of one.  A text is the sequence of    *)
(* the pieces that were joined to it, so that containment of strings is    *)
(* containment of sequences; pieces are distinct or equal as a whole.      *)
(***************************************************************************)
EXTENDS Naturals, Sequences, SequencesExt

NoId == "no id"
Part(type, id, content) == [type |-> type, id |-> id, content |-> content]
TextPart(t) == Part("text", NoId, t)
CallPart(id, name) == Part("tool_call", id, name)
ResultPart(id, t) == Part("tool_call_response", id, t)

IsText(p) == p.type = "text"
IsImage(p) == p.type = "image"
IsCall(p) == p.type = "tool_call"
IsResult(p) == p.type = "tool_call_response"
IsContent(p) == IsText(p) \/ IsImage(p)
MissingImage(p) == IsImage(p) /\ p.content = "missing"

(* The piece of text that stands for a part: a tool call without its id,   *)
(* a result with the id it answers, an image as a digest.                  *)
PartText(p) == CASE IsText(p) -> <<<<"text", p.content>>>>
                 [] IsImage(p) -> <<<<"image", p.content>>>>
                 [] IsCall(p) -> <<<<"call", p.content>>>>
                 [] IsResult(p) -> <<<<"result", p.id, p.content>>>>

TextOf(parts) == FlattenSeq([k \in 1..Len(parts) |-> PartText(parts[k])])
IdsOf(parts) == {parts[k].id : k \in {k \in 1..Len(parts) : IsCall(parts[k])}} \ {NoId}

(* A recorded message as it stands in a span: content is "absent", "null", *)
(* "string" (one text part), "list" or "parts" (the OTel field of that     *)
(* name); calls are its tool_calls, id its tool_call_id.                   *)
RawMessage(role, content, parts, calls, id) ==
    [role |-> role, content |-> content, parts |-> parts, calls |-> calls, id |-> id]

(* extract_messages: the ReplayMessage of a raw message.  Content beside   *)
(* tool calls is converted to parts; a string without linkage is plain.    *)
ReplayMessage(x) ==
    LET Message(shape, parts) ==
            [role |-> IF x.role = "developer" THEN "system" ELSE x.role,
             shape |-> shape, parts |-> parts, id |-> x.id]
    IN CASE x.content = "parts" -> Message("parts", x.parts)
         [] x.content # "parts" /\ x.calls # <<>> ->
                IF x.content = "absent" THEN Message("calls", x.calls)
                ELSE Message("parts", x.parts \o x.calls)
         [] x.content = "string" /\ x.calls = <<>> /\ x.id = NoId -> Message("plain", x.parts)
         [] OTHER -> Message("content", x.parts)

(* The text of a message.  A list of content does not render tool calls.   *)
MessageText(m) == IF m.shape = "content" THEN TextOf(SelectSeq(m.parts, LAMBDA p : ~IsCall(p)))
                  ELSE TextOf(m.parts)

(* The ids of the tool calls a message holds, for the messages that keep   *)
(* their structure.                                                        *)
MessageCallIds(m) == IF m.shape \in {"calls", "parts"} THEN IdsOf(m.parts) ELSE {}

MessagesEqual(a, b) == a.role = b.role /\ MessageText(a) = MessageText(b)

(* The recorded output of a call: "none", "plain", or "parts".  Its text   *)
(* is that of its text parts, then of its tool calls.                      *)
OutputText(out) == TextOf(SelectSeq(out.parts, IsText)) \o TextOf(SelectSeq(out.parts, IsCall))

(* output_matches_message *)
Within(t, s) == \E k \in 0..(Len(s) - Len(t)) : SubSeq(s, k + 1, k + Len(t)) = t
OutputMatches(text, m, partial) ==
    /\ m.role = "assistant"
    /\ \/ MessageText(m) = text
       \/ partial /\ Within(text, MessageText(m))

(***************************************************************************)
(* Wire messages: [role, content, calls, id], content a sequence of text   *)
(* and image parts.                                                        *)
(***************************************************************************)
WireMessage(role, content, calls, id) ==
    [role |-> role, content |-> content, calls |-> calls, id |-> id]

(* An image whose bytes are not in the trace is not sent. *)
WireContent(parts) == SelectSeq(parts, LAMBDA p : ~MissingImage(p))

ToolMessage(response, before, after) ==
    WireMessage("tool", WireContent(before) \o <<TextPart(response.content)>> \o WireContent(after),
                <<>>, response.id)

(* _tool_result_messages: one message per result; text recorded beside     *)
(* them goes before the first.                                             *)
ToolResultMessages(responses, leading) ==
    [k \in 1..Len(responses) |->
        ToolMessage(responses[k], IF k = 1 THEN leading ELSE <<>>, <<>>)]

(* Defect: text beside the results of a message with images is dropped.    *)
ResultsWithoutLeading(parts) ==
    LET at == SelectSeq([k \in 1..Len(parts) |-> k], LAMBDA k : IsResult(parts[k]))
        Between(from, to) == SelectSeq(SubSeq(parts, from, to), IsContent)
    IN [n \in 1..Len(at) |->
          ToolMessage(parts[at[n]], <<>>,
                      Between(at[n] + 1, IF n = Len(at) THEN Len(parts) ELSE at[n + 1] - 1))]

(* _tool_results_in_order: beside an image, each part rides on the result  *)
(* recorded before it, and what comes before the first result on that.     *)
ToolResultsInOrder(parts) ==
    LET at == SelectSeq([k \in 1..Len(parts) |-> k], LAMBDA k : IsResult(parts[k]))
        Between(from, to) == SelectSeq(SubSeq(parts, from, to), IsContent)
    IN [n \in 1..Len(at) |->
          ToolMessage(parts[at[n]],
                      IF n = 1 THEN Between(1, at[1] - 1) ELSE <<>>,
                      Between(at[n] + 1, IF n = Len(at) THEN Len(parts) ELSE at[n + 1] - 1))]

(* _replay_message_to_dict: the wire messages of one recorded message. *)
WireMessages(m) ==
    LET responses == SelectSeq(m.parts, IsResult)
        content == SelectSeq(m.parts, IsContent)
        hasImage == \E k \in 1..Len(content) : IsImage(content[k])
        calls == IF m.shape = "content" THEN <<>> ELSE SelectSeq(m.parts, IsCall)
    IN CASE responses # <<>> /\ hasImage -> ToolResultsInOrder(m.parts)
         [] responses # <<>> /\ ~hasImage -> ToolResultMessages(responses, content)
         [] OTHER -> <<WireMessage(m.role, WireContent(content), calls,
                                   IF m.role = "tool" /\ m.shape = "content" THEN m.id ELSE NoId)>>

(* Everything recorded in a message is sent, but images without bytes: in  *)
(* its order if there is an image, and otherwise with the text before the  *)
(* results; each result with the id it answers.                            *)
EverythingRecordedIsSent(m) ==
    LET wire == WireMessages(m)
        Kept(p) == ~IsCall(p) /\ ~MissingImage(p)
        results == SelectSeq(m.parts, IsResult)
        ordered == IF \E k \in 1..Len(m.parts) : IsImage(m.parts[k]) THEN SelectSeq(m.parts, Kept)
                   ELSE SelectSeq(m.parts, IsContent) \o results
    IN /\ FlattenSeq([k \in 1..Len(wire) |-> [l \in 1..Len(wire[k].content) |-> wire[k].content[l].content]])
             = [k \in 1..Len(ordered) |-> ordered[k].content]
       /\ results # <<>> => [k \in 1..Len(wire) |-> wire[k].id] = [k \in 1..Len(results) |-> results[k].id]
=============================================================================
