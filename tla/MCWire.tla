---------------------------------- MODULE MCWire ----------------------------------
(***************************************************************************)
(* Captured calls: streams of any chunks, captures that are cut, and       *)
(* conversations of two calls in each dialect.                             *)
(***************************************************************************)
EXTENDS MCCase, Naturals, Sequences, FiniteSets, SequencesExt

W == INSTANCE WireCapture

ChunkOf(index, text, tools, finish) ==
    [type |-> "chunk", choices |-> <<[index |-> index, text |-> text, tools |-> tools, finish |-> finish]>>]
WireTool(index, id, args) == ChunkOf(0, <<>>, <<[index |-> index, id |-> id, args |-> args]>>, W!NoId)
Done == [type |-> "[DONE]"]
Finish == ChunkOf(0, <<>>, <<>>, "stop")
Deltas == {ChunkOf(0, <<"a">>, <<>>, W!NoId), ChunkOf(0, <<"b">>, <<>>, W!NoId), WireTool(0, "c0", <<>>), WireTool(1, "c1", <<>>),
           WireTool(0, W!NoId, <<"x">>), WireTool(1, W!NoId, <<"y">>), WireTool(1, "c1", <<"z">>)}
Payloads == Deltas \cup {WireTool(0, "c2", <<>>), ChunkOf(0, <<>>, <<>>, W!NoId), ChunkOf(1, <<"a">>, <<>>, W!NoId),
                         Finish, Done, [type |-> "error"]}

PayloadCase == Idle("payloads") /\
    \/ \E n \in 1..4 : \E p \in [1..n -> Payloads] : Make("payloads", p)
    \/ \E p \in [1..4 -> Deltas] : Make("payloads", p \o <<Finish, Done>>)

(* What a call may answer, and the stream of it.                           *)
Say(k) == W!Part("text", W!NoId, <<"said " \o ToString(k)>>)
Think == W!Part("thinking", W!NoId, <<"thought">>)
CallIn(k, type) == W!Part(type, "c" \o ToString(k), <<"do it">>)
WireAnswers(kinds) ==
    {[k \in 1..n |-> CASE f[k] = "say" -> Say(k) [] f[k] = "think" -> Think [] OTHER -> CallIn(k, f[k])] :
        <<n, f>> \in {<<n, f>> \in (1..3) \X [1..3 -> kinds] : \A k \in n + 1..3 : f[k] = "say"}}
IsSaid(p) == p.type = "text"
IsCalled(p) == p.type \in {"tool_call", "computer"}
SaidIn(items) == LET said == SelectSeq(items, IsSaid) IN [k \in 1..Len(said) |-> said[k].content[1]]
CalledIn(items) == LET called == SelectSeq(items, IsCalled) IN [k \in 1..Len(called) |-> [called[k] EXCEPT !.type = "tool_call"]]

ChatStream(items) ==
    [k \in 1..Len(SaidIn(items)) |-> ChunkOf(0, <<SaidIn(items)[k]>>, <<>>, W!NoId)]
    \o [k \in 1..Len(CalledIn(items)) |-> WireTool(k - 1, CalledIn(items)[k].id, CalledIn(items)[k].content)] \o <<Finish, Done>>
AnthropicStream(items) ==
    <<[type |-> "message_start"]>>
    \o FlattenSeq([k \in 1..Len(items) |-> <<[type |-> "content_block_start", index |-> k, block |-> [items[k] EXCEPT !.content = <<>>]],
                                             [type |-> "content_block_delta", index |-> k, text |-> items[k].content]>>])
    \o <<[type |-> "message_delta", reason |-> "end_turn"], [type |-> "message_stop"]>>
ItemOf(p) ==
    [type |-> CASE IsSaid(p) -> "message" [] p.type = "tool_call" -> "function_call" [] p.type = "computer" -> "computer_call"
                [] OTHER -> "reasoning",
     role |-> "assistant", parts |-> IF IsCalled(p) THEN <<[p EXCEPT !.type = "tool_call"]>> ELSE IF IsSaid(p) THEN <<p>> ELSE <<>>]
ResponsesStream(items) ==
    <<[type |-> "response.created"],
      [type |-> "response.completed", items |-> [k \in 1..Len(items) |-> ItemOf(items[k])]]>>
EventsOf(dialect, items) ==
    CASE dialect = "chat" -> ChatStream(items) [] dialect = "anthropic" -> AnthropicStream(items)
      [] dialect = "responses" -> ResponsesStream(items)
Record(dialect, success, events, messages) ==
    [dialect |-> dialect, success |-> success, stream |-> TRUE, messages |-> messages,
     body |-> [form |-> IF events = <<>> THEN "none" ELSE "sse", events |-> events, message |-> W!Nothing]]

(* The prompt, and what the harness adds to it for the next call.          *)
Prompt(dialect, k) ==
    LET text == "prompt " \o ToString(k) IN
    CASE dialect = "chat" -> <<[role |-> "user", text |-> <<text>>, calls |-> <<>>, id |-> W!NoId]>>
      [] dialect = "anthropic" -> <<[role |-> "user", blocks |-> <<W!TextPart(<<text>>)>>]>>
      [] dialect = "responses" -> <<[type |-> "message", role |-> "user", parts |-> <<W!TextPart(<<text>>)>>]>>
WireResult(id) == W!ResultPart(id, <<"result">>)
AnswerItem(p) ==
    [type |-> IF p.type = "computer" THEN "computer_call_output" ELSE "function_call_output", role |-> "user", parts |-> <<WireResult(p.id)>>]
Returned(dialect, items, together) ==
    LET calls == CalledIn(items)
        called == SelectSeq(items, IsCalled)
    IN CASE dialect = "chat" ->
              <<[role |-> "assistant", text |-> SaidIn(items), calls |-> calls, id |-> W!NoId]>>
              \o [k \in 1..Len(calls) |-> [role |-> "tool", text |-> <<"result">>, calls |-> <<>>, id |-> calls[k].id]]
         [] dialect = "anthropic" ->
              <<[role |-> "assistant", blocks |-> items]>>
              \o IF calls = <<>> THEN <<>> ELSE <<[role |-> "user", blocks |-> [k \in 1..Len(calls) |-> WireResult(calls[k].id)]]>>
         [] dialect = "responses" /\ together ->
              [k \in 1..Len(items) |-> ItemOf(items[k])] \o [k \in 1..Len(called) |-> AnswerItem(called[k])]
         [] dialect = "responses" /\ ~together ->
              FlattenSeq([k \in 1..Len(items) |->
                             <<ItemOf(items[k])>> \o IF IsCalled(items[k]) THEN <<AnswerItem(items[k])>> ELSE <<>>])

Kinds(dialect) ==
    CASE dialect = "chat" -> {"say", "tool_call"} [] dialect = "anthropic" -> {"say", "think", "tool_call"}
      [] dialect = "responses" -> {"say", "think", "tool_call", "computer"}
Dialects == {"chat", "anthropic", "responses"}

CutCase == Idle("cut") /\
    \E dialect \in Dialects, success \in BOOLEAN : \E items \in WireAnswers(Kinds(dialect)) :
        LET events == EventsOf(dialect, items) IN
        \E n \in 0..Len(events) - 1 :
            LET record == Record(dialect, success, SubSeq(events, 1, n), Prompt(dialect, 1))
            IN Make("cut", [record |-> record, spans |-> W!ConvertRecord(record, 1)])

EchoCase == Idle("echo") /\
    \E dialect \in Dialects, together \in BOOLEAN : \E items \in WireAnswers(Kinds(dialect)) :
        LET messages == Prompt(dialect, 1) \o Returned(dialect, items, together) \o Prompt(dialect, 2)
        IN Make("echo", W!ConvertRecord(Record(dialect, TRUE, EventsOf(dialect, items), Prompt(dialect, 1)), 1)
                        \cup W!ConvertRecord(Record(dialect, TRUE, EventsOf(dialect, <<Say(4)>>), messages), 2))

(* A capture becomes the calls that were made: a stream is read whole or   *)
(* refused, a record that is cut makes no call, and an answer is found     *)
(* again in the next prompt, in every dialect.                             *)
CapturesAreFaithful ==
    /\ On("payloads", W!StreamIsReadWhole)
    /\ On("cut", LAMBDA x : W!CutRecordsAreSkipped(x.record, x.spans))
    /\ On("echo", W!AnswersAreRecognised)

WireAlgorithms == {"payloads", "cut", "echo"}
WireCases == PayloadCase \/ CutCase \/ EchoCase
=============================================================================
