------------------------------- MODULE ApiPayloads -------------------------------
(***************************************************************************)
(* What is sent to a model server and what is read from it: the parser of  *)
(* event streams (apis/streaming_parser.py), the bodies of chat and        *)
(* Anthropic requests (apis/chat.py, apis/anthropic_messages.py) and the   *)
(* answers of a replayed session (SessionChatCompletionAPIData and its     *)
(* Anthropic form).                                                        *)
(*                                                                         *)
(* A text is the sequence of its fragments, a count of tokens the length   *)
(* of a text.                                                              *)
(***************************************************************************)
EXTENDS Integers, SequencesExt, TLC

(***************************************************************************)
(* Event streams.  Of the bytes, "D" is the field name "data:" and "E" the *)
(* value "[DONE]".  The parser is given the stream in network chunks.      *)
(***************************************************************************)
CR == "CR"
LF == "LF"
StreamStart == [buffer |-> <<>>, data |-> <<>>, skip |-> FALSE, done |-> FALSE, frames |-> <<>>]
Count(s, b) == Len(SelectSeq(s, LAMBDA c : c = b))

(* A value of several data lines is joined by line feeds.                  *)
EndFrame(s, value, n) ==
    IF value = <<"E">> THEN [s EXCEPT !.data = <<>>, !.done = TRUE]
    ELSE [s EXCEPT !.data = <<>>, !.frames = Append(@, [value |-> value, at |-> n])]

(* The fast path: the chunk is one frame of one data line.                 *)
OneFrame(chunk, ending) ==
    /\ Len(chunk) > Len(ending)
    /\ SubSeq(chunk, Len(chunk) - Len(ending) + 1, Len(chunk)) = ending
    /\ \A b \in {CR, LF} : Count(chunk, b) = Count(ending, b)
FastEnding(chunk) ==
    IF OneFrame(chunk, <<LF, LF>>) THEN <<LF, LF>> ELSE IF OneFrame(chunk, <<CR, LF, CR, LF>>) THEN <<CR, LF, CR, LF>> ELSE <<>>
IsFast(s, chunk) == s.buffer = <<>> /\ s.data = <<>> /\ ~s.skip /\ Head(chunk) = "D" /\ FastEnding(chunk) # <<>>

TakeLine(s, line, n) ==
    CASE line # <<>> /\ Head(line) = "D" -> [s EXCEPT !.data = Append(@, Tail(line))]
      [] line # <<>> /\ Head(line) # "D" -> s
      [] line = <<>> /\ s.data = <<>> -> s
      [] line = <<>> /\ s.data # <<>> -> EndFrame(s, FoldLeft(LAMBDA v, w : v \o <<LF>> \o w, Head(s.data), Tail(s.data)), n)

(* Every line that has ended is taken off the buffer.  A carriage return   *)
(* that ends the buffer may be half of a line end.                         *)
RECURSIVE Scan(_, _)
Scan(s, n) ==
    LET at == SelectInSeq(s.buffer, LAMBDA b : b \in {CR, LF})
        pair == at < Len(s.buffer) /\ s.buffer[at] = CR /\ s.buffer[at + 1] = LF
        rest == SubSeq(s.buffer, at + (IF pair THEN 2 ELSE 1), Len(s.buffer))
    IN IF at = 0 \/ s.done THEN s
       ELSE Scan(TakeLine([s EXCEPT !.buffer = rest, !.skip = s.buffer[at] = CR /\ at = Len(s.buffer)], SubSeq(s.buffer, 1, at - 1), n), n)

(* Defect: the second half of a line end, in the next chunk, is a line.    *)
HalfIsALine(s, chunk) == [s EXCEPT !.buffer = @ \o chunk, !.skip = FALSE]

Extended(s, chunk) ==
    [s EXCEPT !.buffer = IF s.skip /\ s.buffer = <<>> /\ Head(chunk) = LF THEN Tail(chunk) ELSE @ \o chunk, !.skip = FALSE]

ReadChunk(s, chunk, n) ==
    CASE s.done -> s
      [] ~s.done /\ IsFast(s, chunk) -> EndFrame(s, SubSeq(chunk, 2, Len(chunk) - Len(FastEnding(chunk))), n)
      [] ~s.done /\ ~IsFast(s, chunk) -> Scan(Extended(s, chunk), n)
ParseStream(chunks) == FoldLeft(LAMBDA s, n : ReadChunk(s, chunks[n], n), StreamStart, [n \in 1..Len(chunks) |-> n])

(* However the network cuts a stream, its frames up to [DONE] are read     *)
(* whole, once and in order, and each as soon as its last byte is there.   *)
FramesAreReadWhole(x) ==
    LET s == ParseStream(x.chunks)
        received(n) == Len(FlattenSeq(SubSeq(x.chunks, 1, n)))
    IN /\ [k \in 1..Len(s.frames) |-> s.frames[k].value] = x.values
       /\ \A k \in 1..Len(s.frames) : received(s.frames[k].at - 1) < x.ends[k] /\ x.ends[k] <= received(s.frames[k].at)

(***************************************************************************)
(* The payloads of a stream.  A chat delta is [reasoning, text, tools,     *)
(* usage], a tool delta [index, id, args]; usage is a function, merged     *)
(* over the stream.                                                        *)
(***************************************************************************)
NoUsage == [k \in {} |-> 0]
Nowhere == [id |-> "", args |-> <<>>]
AnswerStart ==
    [reasoning |-> <<>>, text |-> <<>>, calls |-> <<>>, usage |-> NoUsage, times |-> <<>>, reasoningTimes |-> <<>>]

(* Defect: the id and the arguments of a call come in one delta.           *)
ReplaceCall(calls, d) == (d.index :> [id |-> d.id, args |-> d.args]) @@ calls

JoinCall(calls, d) ==
    LET old == IF d.index \in DOMAIN calls THEN calls[d.index] ELSE Nowhere
    IN (d.index :> [id |-> IF d.id = "" THEN old.id ELSE d.id, args |-> old.args \o d.args]) @@ calls

(* A payload is timed once, as content or else as reasoning.               *)
ReadDelta(s, d, t) ==
    [reasoning |-> s.reasoning \o d.reasoning, text |-> s.text \o d.text,
     calls |-> FoldLeft(JoinCall, s.calls, d.tools), usage |-> d.usage @@ s.usage,
     times |-> IF d.text # <<>> THEN Append(s.times, t) ELSE s.times,
     reasoningTimes |-> IF d.text = <<>> /\ d.reasoning # <<>> THEN Append(s.reasoningTimes, t) ELSE s.reasoningTimes]
ReadDeltas(deltas) == FoldLeft(LAMBDA s, t : ReadDelta(s, deltas[t], t), AnswerStart, [t \in 1..Len(deltas) |-> t])

InOrder(calls) == LET at == SetToSortSeq(DOMAIN calls, <) IN [k \in 1..Len(at) |-> calls[at[k]]]

(* An Anthropic event as such a delta: blocks have an index, and a call    *)
(* may be opened with its input.                                           *)
DeltaOfEvent(e) ==
    LET opens == e.type = "content_block_start"
        is(type) == e.type \in {"content_block_start", "content_block_delta"} /\ e.block = type
    IN [reasoning |-> IF is("thinking") THEN e.content ELSE <<>>, text |-> IF is("text") THEN e.content ELSE <<>>,
        tools |-> IF is("tool_use") THEN <<[index |-> e.index, id |-> IF opens THEN e.id ELSE "", args |-> e.content]>> ELSE <<>>,
        usage |-> IF e.type \in {"message_start", "message_delta"} THEN e.usage ELSE NoUsage]

(* What a session keeps of an answer.  An Anthropic message has no         *)
(* reasoning; input of no fragment is the object {} when it comes whole.   *)
KeptCalls(api, calls) ==
    [k \in 1..Len(calls) |-> IF api = "anthropic" /\ calls[k].args = <<>> THEN [calls[k] EXCEPT !.args = <<"{}">>] ELSE calls[k]]
MessageOf(api, reasoning, text, calls) == [reasoning |-> IF api = "chat" THEN reasoning ELSE <<>>, text |-> text, calls |-> calls]
TokensOf(api, reasoning, text, calls, usage) ==
    CASE api = "chat" /\ "completion" \in DOMAIN usage -> usage["completion"]
      [] api = "chat" /\ "completion" \notin DOMAIN usage -> Len(reasoning) + Len(text) + Len(FlattenSeq([k \in 1..Len(calls) |-> calls[k].args]))
      [] api = "anthropic" -> Len(text) + Len(reasoning)
PromptTokens(usage, counted) == IF "prompt" \in DOMAIN usage THEN usage["prompt"] ELSE counted

Processed(api, reasoning, text, calls, usage, counted) ==
    [message |-> MessageOf(api, reasoning, text, calls), output |-> TokensOf(api, reasoning, text, calls, usage),
     prompt |-> PromptTokens(usage, counted)]
Streamed(api, payloads, counted) ==
    LET s == ReadDeltas(IF api = "chat" THEN payloads ELSE [k \in 1..Len(payloads) |-> DeltaOfEvent(payloads[k])])
    IN Processed(api, s.reasoning, s.text, InOrder(s.calls), s.usage, counted)
Whole(api, answer, counted) ==
    Processed(api, answer.reasoning, answer.text, KeptCalls(api, answer.calls), answer.usage, counted)

(* An answer is kept and counted the same whether it is streamed or not.   *)
(* The one exception is the Anthropic call without input: streamed, its    *)
(* arguments are no JSON.                                                  *)
StreamedAsWhole(x) ==
    LET live == Streamed(x.api, x.payloads, x.counted)
        whole == Whole(x.api, x.answer, x.counted)
        args(calls) == [k \in 1..Len(calls) |-> IF calls[k].args = <<"{}">> THEN <<>> ELSE calls[k].args]
        ids(calls) == [k \in 1..Len(calls) |-> calls[k].id]
    IN /\ [live EXCEPT !.message.calls = <<>>] = [whole EXCEPT !.message.calls = <<>>]
       /\ args(live.message.calls) = args(whole.message.calls) /\ ids(live.message.calls) = ids(whole.message.calls)

(* Every payload with generated text is timed exactly once.                *)
TimedOnce(deltas) ==
    LET s == ReadDeltas(deltas)
        generated == {t \in 1..Len(deltas) : deltas[t].text # <<>> \/ deltas[t].reasoning # <<>>}
    IN /\ ToSet(s.times) \cap ToSet(s.reasoningTimes) = {}
       /\ ToSet(s.times) \cup ToSet(s.reasoningTimes) = generated
       /\ Len(s.times) + Len(s.reasoningTimes) = Cardinality(generated)
=============================================================================
