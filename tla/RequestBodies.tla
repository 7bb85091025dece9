------------------------------ MODULE RequestBodies ------------------------------
(***************************************************************************)
(* The bodies of the requests: what a user message is woven from, what a   *)
(* tool is offered as (apis/chat.py), what an Anthropic request makes of a *)
(* chat (apis/anthropic_messages.py) and what a replayed turn asks for     *)
(* (replay_graph_session_datagen.py).                                      *)
(*                                                                         *)
(* A text is a sequence of characters, " " among them.  A content is a     *)
(* sequence of blocks [type, text]: a medium is a block whose text is its  *)
(* name.                                                                   *)
(***************************************************************************)
EXTENDS Integers, SequencesExt, TLC

TextBlock(text) == [type |-> "text", text |-> text]
Medium(name) == [type |-> "media", text |-> <<name>>]

(* The text of Len(text) characters is cut at point/Scale of its length.   *)
Scale == 2
CutAt(text, point) == (point * Len(text)) \div Scale

(* Defect: the media are taken as they were given.                         *)
AsGiven(items) == items

Sorted(items) ==
    LET at(p) == SelectSeq(items, LAMBDA i : i.point = p)
    IN FlattenSeq([p \in 1..Scale + 1 |-> at(p - 1)])

Assemble(text, items) ==
    LET weave(s, item) ==
            LET at == CutAt(text, item.point)
            IN [content |-> (IF at > s.last THEN Append(s.content, TextBlock(SubSeq(text, s.last + 1, at))) ELSE s.content)
                            \o <<Medium(item.name)>>,
                last |-> IF at > s.last THEN at ELSE s.last]
        woven == FoldLeft(weave, [content |-> <<>>, last |-> 0], Sorted(items))
    IN IF items = <<>> THEN <<TextBlock(text)>>
       ELSE woven.content \o IF woven.last < Len(text) THEN <<TextBlock(SubSeq(text, woven.last + 1, Len(text)))>> ELSE <<>>

(* A part of a user message: its text, and its media or none at all.       *)
Part(text, spec) ==
    CASE spec.given -> Assemble(text, spec.media)
      [] ~spec.given /\ text # <<>> -> <<TextBlock(text)>>
      [] ~spec.given /\ text = <<>> -> <<>>

IsSpace(c) == c = " "

(* Defect: two texts are put together as they are.                         *)
NoSeparator(prefix, payload) == <<>>

SpaceBetween(prefix, payload) ==
    IF prefix # <<>> /\ payload # <<>> /\ ~IsSpace(Last(prefix)) /\ ~IsSpace(Head(payload)) THEN <<" ">> ELSE <<>>

Combined(prefix, payload) ==
    CASE prefix = <<>> \/ payload = <<>> -> prefix \o payload
      [] prefix # <<>> /\ payload # <<>> /\ Last(prefix).type = "text" /\ Head(payload).type = "text" ->
             Front(prefix)
             \o <<TextBlock(Last(prefix).text \o SpaceBetween(Last(prefix).text, Head(payload).text) \o Head(payload).text)>>
             \o Tail(payload)
      [] OTHER ->
             LET spaced == Head(payload).type = "text" /\ Head(payload).text # <<>> /\ IsSpace(Head(Head(payload).text))
             IN prefix \o (IF spaced THEN <<>> ELSE <<TextBlock(<<" ">>)>>) \o payload

(* The first user message is replaced, or one is added.                    *)
Messages(messages, content) ==
    LET at == SelectInSeq(messages, LAMBDA m : m.role = "user")
        new == [role |-> "user", content |-> content]
    IN IF at = 0 THEN Append(messages, new) ELSE [messages EXCEPT ![at] = new]
UserText(messages) ==
    LET at == SelectInSeq(messages, LAMBDA m : m.role = "user") IN IF at = 0 THEN <<>> ELSE messages[at].content[1].text
UserContent(prefixText, prefixSpec, spec, messages) ==
    LET payload == Part(UserText(messages), spec)
    IN Messages(messages, Combined(Part(prefixText, prefixSpec), payload))

Flat(content) == FlattenSeq([k \in 1..Len(content) |-> content[k].text])
Texts(content) == FlattenSeq([k \in 1..Len(content) |-> IF content[k].type = "text" THEN content[k].text ELSE <<>>])

(* A medium stands where its point is, behind every medium of an earlier   *)
(* point, and the text around the media is the prompt.                     *)
WovenInPlace(text, items, content) ==
    LET flat == Flat(content)
        placeOf(item) == SelectInSeq(flat, LAMBDA c : c = item.name)
        before(item) == Len(Texts(content)) - Len(SelectSeq(SubSeq(flat, placeOf(item), Len(flat)),
                                                             LAMBDA c : \A i \in ToSet(items) : c # i.name))
    IN /\ Texts(content) = text
       /\ Len(flat) = Len(text) + Len(items)
       /\ \A i \in 1..Len(items) : before(items[i]) = CutAt(text, items[i].point)
       /\ \A i, j \in 1..Len(items) :
             (items[i].point < items[j].point \/ (items[i].point = items[j].point /\ i < j)) => placeOf(items[i]) < placeOf(items[j])

(* All requests of a group begin with the same content, whatever follows   *)
(* it, and no word of the prefix runs into a word of the payload.          *)
PrefixStaysWhole(prefix, payload, content) ==
    LET head == Flat(prefix)
        tail == Flat(payload)
        flat == Flat(content)
    IN /\ SubSeq(flat, 1, Len(head)) = head
       /\ SubSeq(flat, Len(flat) - Len(tail) + 1, Len(flat)) = tail
       /\ Len(flat) - Len(head) - Len(tail) \in 0..1
       /\ (head # <<>> /\ tail # <<>> /\ ~IsSpace(Last(head)) /\ ~IsSpace(Head(tail))) =>
             SubSeq(flat, Len(head) + 1, Len(flat) - Len(tail)) = <<" ">>

(***************************************************************************)
(* Tools (_clean_schema).  A schema is [type, union, extra, props]: the    *)
(* type it names or "", whether it has anyOf or oneOf, whether it has a    *)
(* key the servers refuse, and its properties, a function from names to    *)
(* schemas, in a tuple of one, or of none.                                 *)
(***************************************************************************)
HasProps(s) == s.props # <<>>
RECURSIVE Clean(_)

(* Defect: the names of properties are taken for keys of a schema.         *)
CleanPropsAsSchema(props) == [name \in DOMAIN props \ {"title"} |-> Clean(props[name])]

CleanProps(props) == [name \in DOMAIN props |-> Clean(props[name])]

Clean(s) ==
    [type |-> IF s.type = "" THEN "string" ELSE s.type, union |-> FALSE, extra |-> FALSE,
     props |-> CASE HasProps(s) -> <<CleanProps(s.props[1])>>
                 [] ~HasProps(s) /\ s.type = "object" -> <<[name \in {} |-> s]>>
                 [] ~HasProps(s) /\ s.type # "object" -> <<>>]

(* What the servers take: a type everywhere, no union and no key of their  *)
(* own, and properties in every object.                                    *)
RECURSIVE Taken(_)
Taken(s) ==
    /\ s.type # "" /\ ~s.union /\ ~s.extra
    /\ s.type = "object" => HasProps(s)
    /\ HasProps(s) => \A name \in DOMAIN s.props[1] : Taken(s.props[1][name])
RECURSIVE SameNames(_, _)
SameNames(s, t) ==
    HasProps(s) => /\ HasProps(t) /\ DOMAIN s.props[1] = DOMAIN t.props[1]
                   /\ \A name \in DOMAIN s.props[1] : SameNames(s.props[1][name], t.props[1][name])
SchemasAreTaken(s, cleaned) == Taken(cleaned) /\ SameNames(s, cleaned) /\ Clean(cleaned) = cleaned

(***************************************************************************)
(* The body of an Anthropic request: system messages are taken out, calls  *)
(* and results become blocks.  A message is [role, text, calls, id].       *)
(***************************************************************************)
AnthropicMessage(m) ==
    CASE m.role = "tool" -> [role |-> "user", blocks |-> <<[type |-> "tool_result", id |-> m.id, text |-> m.text]>>]
      [] m.role # "tool" /\ m.calls # <<>> ->
             [role |-> "assistant",
              blocks |-> (IF m.text = <<>> THEN <<>> ELSE <<[type |-> "text", id |-> "", text |-> m.text]>>)
                         \o [k \in 1..Len(m.calls) |-> [type |-> "tool_use", id |-> m.calls[k].id, text |-> m.calls[k].args]]]
      [] m.role # "tool" /\ m.calls = <<>> ->
             [role |-> IF m.role = "assistant" THEN "assistant" ELSE "user",
              blocks |-> <<[type |-> "text", id |-> "", text |-> m.text]>>]
AnthropicBody(messages) ==
    LET chat == SelectSeq(messages, LAMBDA m : m.role # "system")
    IN [system |-> FlattenSeq([k \in 1..Len(messages) |-> IF messages[k].role = "system" THEN messages[k].text ELSE <<>>]),
        messages |-> [k \in 1..Len(chat) |-> AnthropicMessage(chat[k])]]

(* What is said, called and answered is in the body, in its order.         *)
NothingIsDropped(messages, body) ==
    LET chat == SelectSeq(messages, LAMBDA m : m.role # "system")
        parts(m) == IF m.role = "tool" THEN <<<<m.id, m.text>>>>
                    ELSE (IF m.text = <<>> THEN <<>> ELSE <<<<"", m.text>>>>) \o [k \in 1..Len(m.calls) |-> <<m.calls[k].id, m.calls[k].args>>]
        sent(m) == SelectSeq([k \in 1..Len(m.blocks) |-> <<m.blocks[k].id, m.blocks[k].text>>], LAMBDA p : p[2] # <<>>)
    IN /\ [k \in 1..Len(body.messages) |-> sent(body.messages[k])] = [k \in 1..Len(chat) |-> parts(chat[k])]
       /\ Len(body.system) = Cardinality({k \in 1..Len(messages) : messages[k].role = "system" /\ messages[k].text # <<>>})

(***************************************************************************)
(* What a replayed turn asks for.  A turn is [api, expects, names, tools,  *)
(* mode, expands, tokens, ignore_eos]: whether a call is expected, of      *)
(* which tools, among tools [name, nested].                                *)
(***************************************************************************)
ExpandTokens(n) ==
    CASE n <= 1024 -> IF n * 4 > 4096 THEN n * 4 ELSE 4096
      [] n > 1024 /\ n <= 8192 -> IF (n * 3 + 1) \div 2 > 8192 THEN (n * 3 + 1) \div 2 ELSE 8192
      [] n > 8192 -> n + 4096

Known(turn) == {tool.name : tool \in {t \in ToSet(turn.tools) : turn.api = "anthropic" \/ ~t.nested}}

(* Defect: a recorded name is forced whether it is offered or not.         *)
ForcesRecorded(turn) == Len(turn.names) = 1

ForcesName(turn) == Len(turn.names) = 1 /\ turn.names[1] \in Known(turn)

ToolChoice(turn) ==
    LET calls == turn.expects /\ turn.tools # <<>>
    IN CASE turn.mode = "as_recorded" \/ turn.tools = <<>> -> "unset"
         [] turn.mode # "as_recorded" /\ calls -> IF ForcesName(turn) THEN turn.names[1] ELSE "required"
         [] OTHER -> IF turn.api = "chat" THEN "none" ELSE "unset"
TurnBody(turn) ==
    [tool_choice |-> ToolChoice(turn), tools |-> {t.name : t \in ToSet(turn.tools)},
     ignore_eos |-> turn.ignore_eos /\ turn.api = "chat" /\ turn.tools = <<>>,
     max_tokens |-> IF turn.expects /\ turn.tools # <<>> /\ turn.expands THEN ExpandTokens(turn.tokens) ELSE turn.tokens]

(* A forced call can be made, of a tool that is offered; a turn that may   *)
(* call one stops by itself; and it has room for what was recorded, more   *)
(* for more.                                                               *)
TurnsCanBePlayed(turn, body) ==
    /\ body.tool_choice \in {"unset", "none"} \/ body.tools # {}
    /\ body.tool_choice \in {"unset", "none", "required"} \cup body.tools
    /\ body.tools # {} => ~body.ignore_eos
    /\ body.max_tokens >= turn.tokens
    /\ turn.expands => TurnBody([turn EXCEPT !.tokens = @ + 1]).max_tokens > body.max_tokens \/ body.max_tokens >= turn.tokens + 2048
=============================================================================
