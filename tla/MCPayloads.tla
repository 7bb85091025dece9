-------------------------------- MODULE MCPayloads --------------------------------
(***************************************************************************)
(* Answers of the model servers however they are streamed and cut, and the *)
(* bodies of requests.                                                     *)
(***************************************************************************)
EXTENDS MCCase, Integers, FiniteSets, SequencesExt, TLC

A == INSTANCE ApiPayloads
B == INSTANCE RequestBodies

(* Streams of frames of up to two data lines, a comment and [DONE], with   *)
(* every kind of line end, cut in two places.                              *)
Frames == {<<<<"D", "x">>>>, <<<<"D", "x">>, <<"D", "y">>>>, <<<<"c">>, <<"D">>>>, <<<<"D", "E">>>>}
LineEnds == {<<A!CR>>, <<A!LF>>, <<A!CR, A!LF>>}
Bytes(frame, end) == FlattenSeq([k \in 1..Len(frame) |-> frame[k] \o end]) \o end
ValueOf(frame) ==
    LET lines == SelectSeq(frame, LAMBDA l : Head(l) = "D")
    IN FoldLeft(LAMBDA v, l : v \o <<A!LF>> \o Tail(l), Tail(Head(lines)), Tail(lines))
CutIn(stream, i, j) ==
    SelectSeq(<<SubSeq(stream, 1, i), SubSeq(stream, i + 1, j), SubSeq(stream, j + 1, Len(stream))>>, LAMBDA c : c # <<>>)

BytesCase == Idle("bytes") /\
    \E n \in 1..2 : \E frames \in [1..n -> Frames] : \E ends \in [1..n -> LineEnds] :
        LET stream == FlattenSeq([k \in 1..n |-> Bytes(frames[k], ends[k])])
            done == SelectInSeq(frames, LAMBDA f : f = <<<<"D", "E">>>>)
            read == IF done = 0 THEN n ELSE done - 1
            upto(k) == Len(FlattenSeq([l \in 1..k |-> Bytes(frames[l], ends[l])])) - (Len(ends[k]) - 1)
        IN \E i, j \in 0..Len(stream) : i <= j /\
               Make("bytes", [chunks |-> CutIn(stream, i, j), values |-> [k \in 1..read |-> ValueOf(frames[k])],
                              ends |-> [k \in 1..read |-> upto(k)]])

(* Payloads of any channels, and answers streamed in any pieces.           *)
Delta(reasoning, text, tools, usage) == [reasoning |-> reasoning, text |-> text, tools |-> tools, usage |-> usage]
Tool(index, id, args) == <<[index |-> index, id |-> id, args |-> args]>>
NoArgs == [k \in {} |-> 0]
Usage(key, n) == [k \in {key} |-> n]
Channels == {Delta(r, t, <<>>, NoArgs) : r \in {<<>>, <<"r">>}, t \in {<<>>, <<"t">>}} \cup {Delta(<<>>, <<>>, Tool(0, "c", <<"a">>), NoArgs)}
ChannelCase == Idle("channels") /\ \E n \in 1..4 : \E deltas \in [1..n -> Channels] : Make("channels", deltas)

Pieces(key, pieces) == [k \in 1..Len(pieces) |-> IF key = "text" THEN Delta(<<>>, <<pieces[k]>>, <<>>, NoArgs)
                                                 ELSE Delta(<<pieces[k]>>, <<>>, <<>>, NoArgs)]
CallPieces(index, call) ==
    <<Delta(<<>>, <<>>, Tool(index, call.id, <<>>), NoArgs)>>
    \o [k \in 1..Len(call.args) |-> Delta(<<>>, <<>>, Tool(index, "", <<call.args[k]>>), NoArgs)]
RECURSIVE Alternate(_, _)
Alternate(s, t) == IF s = <<>> THEN t ELSE <<Head(s)>> \o Alternate(t, Tail(s))
CallsOf(calls, mixed) ==
    CASE Len(calls) = 0 -> <<>> [] Len(calls) = 1 -> CallPieces(0, calls[1])
      [] OTHER -> IF mixed THEN Alternate(CallPieces(1, calls[2]), CallPieces(0, calls[1])) ELSE CallPieces(0, calls[1]) \o CallPieces(1, calls[2])
Both(d, e) == Delta(d.reasoning \o e.reasoning, d.text \o e.text, d.tools \o e.tools, e.usage @@ d.usage)
Packed(deltas, n) ==
    [k \in 1..(Len(deltas) + n - 1) \div n |->
        LET group == SubSeq(deltas, (k - 1) * n + 1, IF k * n < Len(deltas) THEN k * n ELSE Len(deltas))
        IN FoldLeft(Both, Head(group), Tail(group))]
ChatPayloads(answer, mixed, n) ==
    Packed(Pieces("reasoning", answer.reasoning) \o Pieces("text", answer.text) \o CallsOf(answer.calls, mixed)
           \o <<Delta(<<>>, <<>>, <<>>, answer.usage)>>, n)

(* Blocks open with their first piece or with none.                        *)
Block(type, index, id, pieces, opened) ==
    LET event(t, content) == [type |-> t, block |-> type, index |-> index, id |-> id, content |-> content]
        first == IF opened /\ pieces # <<>> THEN 1 ELSE 0
    IN <<event("content_block_start", SubSeq(pieces, 1, first))>>
       \o [k \in 1..Len(pieces) - first |-> event("content_block_delta", <<pieces[first + k]>>)]
       \o <<[type |-> "content_block_stop"]>>
AnthropicPayloads(answer, opened) ==
    LET blocks == (IF answer.reasoning = <<>> THEN <<>> ELSE <<<<"thinking", "", answer.reasoning>>>>)
                  \o (IF answer.text = <<>> THEN <<>> ELSE <<<<"text", "", answer.text>>>>)
                  \o [k \in 1..Len(answer.calls) |-> <<"tool_use", answer.calls[k].id, answer.calls[k].args>>]
        prompt == IF "prompt" \in DOMAIN answer.usage THEN Usage("prompt", answer.usage["prompt"]) @@ Usage("completion", 1) ELSE NoArgs
    IN <<[type |-> "message_start", usage |-> prompt]>>
       \o FlattenSeq([k \in 1..Len(blocks) |-> Block(blocks[k][1], k, blocks[k][2], blocks[k][3], opened)])
       \o <<[type |-> "message_delta", usage |-> answer.usage], [type |-> "message_stop"]>>

Args == {<<>>, <<"a">>, <<"a", "b">>}
PayloadCalls == {<<>>} \cup {<<[id |-> "c0", args |-> a]>> : a \in Args}
         \cup {<<[id |-> "c0", args |-> a], [id |-> "c1", args |-> b]>> : a \in Args, b \in Args}
Usages == {NoArgs, [k \in {"prompt", "completion"} |-> IF k = "prompt" THEN 7 ELSE 5]}
AnswerCase == Idle("answers") /\
    \E reasoning \in {<<>>, <<"r">>, <<"r", "s">>}, text \in {<<>>, <<"t">>, <<"t", "u">>}, calls \in PayloadCalls, usage \in Usages :
        LET answer == [reasoning |-> reasoning, text |-> text, calls |-> calls, usage |-> usage]
        IN \/ \E mixed \in BOOLEAN, n \in 1..3 :
                 Make("answers", [api |-> "chat", answer |-> answer, counted |-> 9, payloads |-> ChatPayloads(answer, mixed, n)])
           \/ \E opened \in BOOLEAN :
                 Make("answers", [api |-> "anthropic", answer |-> answer, counted |-> 9, payloads |-> AnthropicPayloads(answer, opened)])

(* Prompts and media, woven alone and behind a prefix.                     *)
Texts(n) == UNION {[1..k -> {"a", " "}] : k \in 0..n}
Item(name, point) == [name |-> name, point |-> point]
WeaveCase == Idle("weave") /\
    \E text \in Texts(3), n \in 0..3 : \E points \in [1..n -> 0..B!Scale] :
        LET items == [k \in 1..n |-> Item("m" \o ToString(k), points[k])]
        IN Make("weave", [text |-> text, items |-> items, content |-> B!Assemble(text, items)])

Specs(name) == {[given |-> FALSE, media |-> <<>>]} \cup {[given |-> TRUE, media |-> m] : m \in {<<>>} \cup {<<Item(name, p)>> : p \in 0..B!Scale}}
Said(role, text) == [role |-> role, content |-> <<B!TextBlock(text)>>]
Chats(text) == {<<Said("user", text)>>, <<Said("system", <<"s">>), Said("user", text), Said("assistant", <<"a">>), Said("user", <<"b">>)>>}
PrefixCase == Idle("prefix") /\
    \E prefix \in Texts(2), text \in Texts(2), prefixSpec \in Specs("p"), spec \in Specs("q") : \E messages \in Chats(text) :
        Make("prefix", [prefix |-> B!Part(prefix, prefixSpec), payload |-> B!Part(text, spec), messages |-> messages,
                        sent |-> B!UserContent(prefix, prefixSpec, spec, messages)])
PrefixHolds(x) ==
    LET at == SelectInSeq(x.messages, LAMBDA m : m.role = "user")
    IN /\ B!PrefixStaysWhole(x.prefix, x.payload, x.sent[at].content)
       /\ [x.sent EXCEPT ![at] = x.messages[at]] = x.messages

(* Schemas of two levels.                                                  *)
Schema(type, union, extra, props) == [type |-> type, union |-> union, extra |-> extra, props |-> props]
Flats == {Schema(t, u, e, <<>>) : t \in {"", "string", "object"}, u \in BOOLEAN, e \in BOOLEAN}
SchemaCase == Idle("schema") /\
    \E top \in Flats, names \in {{}, {"x"}, {"x", "title"}} : \E props \in [names -> Flats] :
        LET s == IF names = {} THEN top ELSE [top EXCEPT !.props = <<props>>]
        IN Make("schema", [schema |-> s, cleaned |-> B!Clean(s)])

(* Turns at the bounds of the token tiers.                                 *)
Tools == {[name |-> n, nested |-> b] : n \in {"f", "g"}, b \in BOOLEAN}
TurnCase == Idle("turn") /\
    \E api \in {"chat", "anthropic"}, expects \in BOOLEAN, names \in {<<>>, <<"f">>, <<"f", "g">>}, n \in 0..2 :
    \E tools \in [1..n -> Tools], mode \in {"as_recorded", "force_recorded"}, expands \in BOOLEAN,
       tokens \in {1, 1024, 1025, 5461, 5462, 8191, 8192, 8193}, ignore \in BOOLEAN :
        LET turn == [api |-> api, expects |-> expects, names |-> names, tools |-> tools, mode |-> mode, expands |-> expands,
                     tokens |-> tokens, ignore_eos |-> ignore]
        IN Make("turn", [turn |-> turn, body |-> B!TurnBody(turn)])

(* Chats as the replay builds them.                                        *)
ChatMessages ==
    {[role |-> r, text |-> t, calls |-> <<>>, id |-> ""] : r \in {"system", "user", "assistant"}, t \in {<<>>, <<"t">>}}
    \cup {[role |-> "assistant", text |-> t, calls |-> c, id |-> ""] : t \in {<<>>, <<"t">>}, c \in {<<[id |-> "c0", args |-> <<"a">>]>>}}
    \cup {[role |-> "tool", text |-> <<"t">>, calls |-> <<>>, id |-> "c0"]}
BodyCase == Idle("body") /\ \E n \in 0..3 : \E messages \in [1..n -> ChatMessages] :
    Make("body", [messages |-> messages, body |-> B!AnthropicBody(messages)])

(* However its bytes are cut into chunks and its tool calls interleaved, a *)
(* streamed answer is read as the same answer unstreamed, every event of   *)
(* it once (apis/streaming_parser.py, chat.py, anthropic_messages.py).     *)
AnswersAreReadTruly ==
    /\ On("bytes", A!FramesAreReadWhole)
    /\ On("channels", A!TimedOnce)
    /\ On("answers", A!StreamedAsWhole)

(* A request carries all that its turn has: items woven into the text where*)
(* they belong, a shared prefix whole in front, schemas the server takes,  *)
(* no tool named that is not offered, and no message dropped on the way to *)
(* the other API (apis/chat.py, anthropic_messages.py, the session data).  *)
RequestsCarryEverything ==
    /\ On("weave", LAMBDA x : B!WovenInPlace(x.text, x.items, x.content))
    /\ On("prefix", PrefixHolds)
    /\ On("schema", LAMBDA x : B!SchemasAreTaken(x.schema, x.cleaned))
    /\ On("turn", LAMBDA x : B!TurnsCanBePlayed(x.turn, x.body))
    /\ On("body", LAMBDA x : B!NothingIsDropped(x.messages, x.body))

PayloadAlgorithms == {"bytes", "channels", "answers", "weave", "prefix", "schema", "turn", "body"}
PayloadCases == BytesCase \/ ChannelCase \/ AnswerCase \/ WeaveCase \/ PrefixCase \/ SchemaCase \/ TurnCase \/ BodyCase
=============================================================================
