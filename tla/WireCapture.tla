------------------------------- MODULE WireCapture -------------------------------
(***************************************************************************)
(* Calls captured on the wire: datagen/replay/wire_trace_converter.py.     *)
(* A record is [dialect, status, stream, body, messages]: whether the      *)
(* status is a success, whether a stream was asked for, and the body,      *)
(* [form, events, message]: "sse", "json" or "none".                       *)
(*                                                                         *)
(* A text is the sequence of its fragments.  The name of a tool call is    *)
(* treated as its id is, and not modelled apart from it; usage, timing and *)
(* tool definitions are left out.                                          *)
(***************************************************************************)
EXTENDS ReplayGraph, Functions, TLC

Nothing == [message |-> <<>>, finish |-> NoId]
Message(m, finish) == [message |-> <<m>>, finish |-> finish]

(***************************************************************************)
(* Chat Completions (_parse_chat_completions_response).  A payload is      *)
(* "[DONE]", "garbled", "error" or a chunk of choices [index, text, tools, *)
(* finish]; a tool delta is [index, id, args].                             *)
(***************************************************************************)
NewChoice == [text |-> <<>>, tools |-> <<>>, finish |-> NoId]
NewTool == [id |-> NoId, args |-> <<>>]
At(map, index, new) == IF index \in DOMAIN map THEN map[index] ELSE new

(* Defect: a delta belongs to the call that was opened last.               *)
JoinToolInOrder(tools, d) ==
    LET last == IF d.id # NoId \/ tools = <<>> THEN d.index ELSE CHOOSE k \in DOMAIN tools : \A l \in DOMAIN tools : l <= k
        old == At(tools, last, NewTool)
    IN (last :> [id |-> IF d.id = NoId THEN old.id ELSE d.id, args |-> old.args \o d.args]) @@ tools

JoinTool(tools, d) ==
    LET old == At(tools, d.index, NewTool)
    IN (d.index :> [id |-> IF d.id = NoId THEN old.id ELSE d.id, args |-> old.args \o d.args]) @@ tools

JoinTools(tools, deltas) == FoldLeft(JoinTool, tools, deltas)
Contradicted(tools, deltas) ==
    \E k \in 1..Len(deltas) :
        LET known == At(JoinTools(tools, SubSeq(deltas, 1, k - 1)), deltas[k].index, NewTool).id
        IN deltas[k].id # NoId /\ known \notin {NoId, deltas[k].id}

(* A choice that has finished may be followed by nothing but empty deltas. *)
JoinChoice(s, c) ==
    LET old == At(s.choices, c.index, NewChoice)
        empty == c.text = <<>> /\ c.tools = <<>> /\ c.finish = NoId
    IN CASE s.refused \/ (old.finish # NoId /\ empty) -> s
         [] old.finish # NoId /\ ~empty -> [s EXCEPT !.refused = TRUE]
         [] Contradicted(old.tools, c.tools) -> [s EXCEPT !.refused = TRUE]
         [] OTHER -> [s EXCEPT !.choices = (c.index :> [text |-> old.text \o c.text, tools |-> JoinTools(old.tools, c.tools),
                                                        finish |-> c.finish]) @@ @]

ReadPayload(s, p) ==
    CASE s.refused \/ s.done \/ p.type \in {"garbled", "error"} -> [s EXCEPT !.refused = TRUE]
      [] p.type = "[DONE]" -> [s EXCEPT !.done = TRUE]
      [] p.type = "chunk" -> FoldLeft(JoinChoice, s, p.choices)

(* Defect: the end of the stream is not waited for.                        *)
FinishedIsEnough(s) == ~s.refused /\ Cardinality(DOMAIN s.choices) = 1 /\ \A k \in DOMAIN s.choices : s.choices[k].finish # NoId

AcceptsStream(s) ==
    /\ ~s.refused /\ s.done
    /\ Cardinality(DOMAIN s.choices) = 1
    /\ \A k \in DOMAIN s.choices :
          /\ s.choices[k].finish # NoId
          /\ \A l \in DOMAIN s.choices[k].tools : s.choices[k].tools[l].id # NoId

InOrder(map) == LET at == SetToSortSeq(DOMAIN map, <) IN [k \in 1..Len(at) |-> map[at[k]]]
CallOf(t) == CallPart(t.id, t.args)

ParseChatStream(payloads) ==
    LET s == FoldLeft(ReadPayload, [choices |-> <<>>, done |-> FALSE, refused |-> FALSE], payloads)
        choice == s.choices[CHOOSE k \in DOMAIN s.choices : TRUE]
        tools == InOrder(choice.tools)
    IN IF ~AcceptsStream(s) THEN Nothing
       ELSE Message([text |-> choice.text, calls |-> [k \in 1..Len(tools) |-> CallOf(tools[k])]], choice.finish)

(* _convert_chat_output *)
ChatParts(m) == (IF m.text = <<>> THEN <<>> ELSE <<TextPart(m.text)>>) \o m.calls

(* _convert_chat_messages: a tool's answer becomes a part of a user        *)
(* message.  A message is [role, text, calls, id].                         *)
ConvertChatMessages(messages) ==
    LET parts(m) == IF m.role = "tool" THEN <<ResultPart(m.id, m.text)>> ELSE ChatParts(m)
        role(m) == IF m.role = "tool" THEN "user" ELSE m.role
    IN SelectSeq([k \in 1..Len(messages) |-> RawMessage(role(messages[k]), "parts", parts(messages[k]), <<>>, NoId)],
                 LAMBDA m : m.parts # <<>>)

(***************************************************************************)
(* Anthropic Messages (_parse_anthropic_sse).  Blocks are opened, and      *)
(* grow, by their index; what cannot be read is passed over.               *)
(***************************************************************************)
NewBlock == Part("text", NoId, <<>>)
ReadEvent(s, e) ==
    CASE e.type = "message_start" -> [s EXCEPT !.started = TRUE]
      [] e.type = "content_block_start" -> [s EXCEPT !.blocks = (e.index :> e.block) @@ @]
      [] e.type = "content_block_delta" ->
             LET old == At(s.blocks, e.index, NewBlock)
             IN [s EXCEPT !.blocks = (e.index :> [old EXCEPT !.content = @ \o e.text]) @@ @]
      [] e.type = "message_delta" -> [s EXCEPT !.reason = e.reason]
      [] e.type \in {"message_stop", "garbled", "error", "content_block_stop"} -> s

ParseAnthropicStream(events) ==
    LET s == FoldLeft(ReadEvent, [started |-> FALSE, blocks |-> <<>>, reason |-> NoId], events)
    IN IF ~s.started THEN Nothing ELSE Message(InOrder(s.blocks), s.reason)

(* _anthropic_blocks_to_parts: thinking is dropped. *)
AnthropicParts(blocks) == SelectSeq(blocks, LAMBDA b : b.type # "thinking")
ConvertAnthropicMessages(messages) ==
    SelectSeq([k \in 1..Len(messages) |->
                  RawMessage(messages[k].role, "parts", AnthropicParts(messages[k].blocks), <<>>, NoId)],
              LAMBDA m : m.parts # <<>>)

(***************************************************************************)
(* Responses.  Everything is in the event "response.completed".  An item   *)
(* is [type, role, id, parts]: a call has an id, its answer the same.      *)
(***************************************************************************)
ParseResponsesStream(events) ==
    LET at == SelectInSeq(events, LAMBDA e : e.type = "response.completed")
    IN IF at = 0 THEN Nothing ELSE Message(events[at].items, "stop")

IsCallItem(item) == item.type \in {"function_call", "computer_call"}
IsAnswerItem(item) == item.type \in {"function_call_output", "computer_call_output"}

(* Defect: a call made with a built-in tool is passed over.                *)
FunctionsOnly(items) ==
    LET kept == SelectSeq(items, LAMBDA i : i.type \in {"message", "function_call", "function_call_output"})
        role(i) == IF i.type = "message" THEN i.role ELSE IF IsCallItem(i) THEN "assistant" ELSE "user"
    IN [k \in 1..Len(kept) |-> RawMessage(role(kept[k]), "parts", kept[k].parts, <<>>, NoId)]

(* _convert_responses_input: every item becomes a message; the texts of a  *)
(* message are joined, and reasoning is dropped.                           *)
ConvertResponsesInput(items) ==
    LET kept == SelectSeq(items, LAMBDA i : IsCallItem(i) \/ IsAnswerItem(i) \/ (i.type = "message" /\ i.parts # <<>>))
        role(i) == IF i.type = "message" THEN i.role ELSE IF IsCallItem(i) THEN "assistant" ELSE "user"
    IN [k \in 1..Len(kept) |-> RawMessage(role(kept[k]), "parts", kept[k].parts, <<>>, NoId)]

(* _convert_responses_output: one message of all items. *)
ResponsesParts(items) ==
    FlattenSeq([k \in 1..Len(items) |-> IF items[k].type = "message" \/ IsCallItem(items[k]) THEN items[k].parts ELSE <<>>])

(***************************************************************************)
(* convert_wire_record: the span of a record, or none.                     *)
(***************************************************************************)
HasEvent(body, type) == body.form = "sse" /\ \E k \in 1..Len(body.events) : body.events[k].type = type

ResponseOf(record) ==
    LET body == record.body IN
    CASE body.form = "none" -> Nothing
      [] body.form = "json" -> body.message
      [] body.form = "sse" /\ record.dialect = "chat" -> ParseChatStream(body.events)
      [] body.form = "sse" /\ record.dialect = "anthropic" -> ParseAnthropicStream(body.events)
      [] body.form = "sse" /\ record.dialect = "responses" -> ParseResponsesStream(body.events)

(* A success that was to be streamed and is not known to have ended.       *)
IncompleteChat(record) == (record.stream \/ record.body.form = "sse") /\ ResponseOf(record) = Nothing
IncompleteResponses(record) == record.stream /\ ~HasEvent(record.body, "response.completed")
IncompleteAnthropic(record) ==
    /\ record.stream
    /\ ~HasEvent(record.body, "message_stop")
    /\ ~(record.body.form = "json" /\ record.body.message.finish # NoId)
Incomplete(record) ==
    /\ record.success
    /\ CASE record.dialect = "chat" -> IncompleteChat(record)
         [] record.dialect = "responses" -> IncompleteResponses(record)
         [] record.dialect = "anthropic" -> IncompleteAnthropic(record)

PartsOf(dialect, response) ==
    CASE response.message = <<>> -> <<>>
      [] dialect = "chat" /\ response.message # <<>> -> ChatParts(response.message[1])
      [] dialect = "anthropic" /\ response.message # <<>> -> AnthropicParts(response.message[1])
      [] dialect = "responses" /\ response.message # <<>> -> ResponsesParts(response.message[1])
MessagesOf(record) ==
    CASE record.dialect = "chat" -> ConvertChatMessages(record.messages)
      [] record.dialect = "anthropic" -> ConvertAnthropicMessages(record.messages)
      [] record.dialect = "responses" -> ConvertResponsesInput(record.messages)

ConvertRecord(record, id) ==
    LET parts == PartsOf(record.dialect, ResponseOf(record))
    IN IF Incomplete(record) THEN {}
       ELSE {[id |-> id, parent |-> NoSource, name |-> "chat", status |-> IF record.success THEN "ok" ELSE "error",
              start |-> id, end |-> id + 1, messages |-> MessagesOf(record),
              out |-> [shape |-> IF parts = <<>> THEN "none" ELSE "parts", parts |-> parts],
              tools |-> TRUE, structured |-> FALSE, finish |-> ResponseOf(record).finish]}

(***************************************************************************)
(* Properties.                                                             *)
(***************************************************************************)
(* A chat stream is read if and only if it has ended as it should: one     *)
(* [DONE], at the end; one choice, which finishes once and says nothing    *)
(* after that; nothing unreadable; no call that changes its id or never    *)
(* has one.  Then text and calls are what their deltas amount to, in the   *)
(* order of the indices, however the deltas of several calls alternate.    *)
StreamIsReadWhole(payloads) ==
    LET n == Len(payloads)
        chunks == SelectSeq(payloads, LAMBDA p : p.type = "chunk")
        choices == FlattenSeq([k \in 1..Len(chunks) |-> chunks[k].choices])
        deltas == FlattenSeq([k \in 1..Len(choices) |-> choices[k].tools])
        Of(i) == SelectSeq(deltas, LAMBDA d : d.index = i)
        Ids(i) == {Of(i)[k].id : k \in 1..Len(Of(i))} \ {NoId}
        indices == {deltas[k].index : k \in 1..Len(deltas)}
        finished == {k \in 1..Len(choices) : choices[k].finish # NoId}
        whole == /\ n > 0 /\ payloads[n].type = "[DONE]"
                 /\ \A k \in 1..n - 1 : payloads[k].type = "chunk"
                 /\ Cardinality({choices[k].index : k \in 1..Len(choices)}) = 1
                 /\ finished # {}
                 /\ \A f \in finished : \A k \in f + 1..Len(choices) :
                        choices[k].text = <<>> /\ choices[k].tools = <<>> /\ k \notin finished
                 /\ \A i \in indices : Cardinality(Ids(i)) = 1
        result == ParseChatStream(payloads)
    IN /\ (result # Nothing) <=> whole
       /\ whole => /\ result.message[1].text = FlattenSeq([k \in 1..Len(choices) |-> choices[k].text])
                   /\ result.message[1].calls =
                         LET at == SetToSortSeq(indices, <)
                         IN [k \in 1..Len(at) |-> CallPart(CHOOSE id \in Ids(at[k]) : TRUE,
                                                           FlattenSeq([l \in 1..Len(Of(at[k])) |-> Of(at[k])[l].args]))]

(* A capture that ends before its response does is never replayed as a     *)
(* generation that succeeded: cut anywhere before its end, a record has no *)
(* span; an error has one, which is not a call of the graph.               *)
CutRecordsAreSkipped(record, spans) ==
    /\ record.stream /\ record.success => spans = {}
    /\ ~record.success => RawCalls(spans) = <<>>

(* What a call answered is recognised when the harness sends it back: the  *)
(* next call of the capture depends on it, in every dialect, though the    *)
(* conversions of an answer and of a message that repeats it differ.       *)
AnswersAreRecognised(spans) ==
    LET calls == RawCalls(spans)
    IN Len(calls) = 2 /\ calls[1].out.shape # "none" => 1 \in Causal(Predecessors(calls)[2])
=============================================================================
