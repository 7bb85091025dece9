------------------------------ MODULE EventLoading ------------------------------
(***************************************************************************)
(* From the graph of a session to the data of its requests:                *)
(* _build_session_schedule and load_lazy_data of                           *)
(* datagen/replay/replay_graph_session_datagen.py, and load_lazy_data of   *)
(* otel_trace_replay_datagen.py.                                           *)
(*                                                                         *)
(* A graph is a sequence of events [id, preds, sources, messages, wait,    *)
(* suffix, attributes].  A message is [role, content, calls, id,           *)
(* reasoning]; a content is a text or a sequence of blocks [type, text].   *)
(* An id is the sequence of its pieces between colons.                     *)
(***************************************************************************)
EXTENDS Integers, Sequences
LOCAL INSTANCE SequencesExt

NoId == "no id"
NoContent == [shape |-> "none", blocks |-> <<>>]
Text(blocks) == [shape |-> "text", blocks |-> blocks]
HasImage(content) == \E k \in DOMAIN content.blocks : content.blocks[k].type = "image"

(* A list that holds no image is flattened; the blocks that are no texts   *)
(* are rendered.                                                           *)
Flattened(content) ==
    IF content.shape = "list" /\ ~HasImage(content) THEN Text(content.blocks) ELSE content

(* The content beside tool calls, if it is a text or has an image.         *)
BesideCalls(content) ==
    IF content.blocks # <<>> /\ (content.shape = "text" \/ HasImage(content)) THEN content ELSE NoContent

Sent(role, content, calls, id, reasoning) == [role |-> role, content |-> content, calls |-> calls, id |-> id, reasoning |-> reasoning]

(* Defect: the linkage of a result is left to the substitution.            *)
ChatWithoutId(m) ==
    IF m.calls THEN Sent(m.role, BesideCalls(m.content), TRUE, NoId, m.reasoning)
    ELSE Sent(m.role, Flattened(m.content), FALSE, NoId, m.reasoning)

(* The ChatMessage a recorded message becomes, which is what is sent when  *)
(* nothing is substituted, and the message the substitution starts from.   *)
ToolCallId(m) == IF m.role = "tool" THEN m.id ELSE NoId
ChatMessage(m) ==
    IF m.calls THEN Sent(m.role, BesideCalls(m.content), TRUE, NoId, m.reasoning)
    ELSE Sent(m.role, Flattened(m.content), FALSE, ToolCallId(m), m.reasoning)

OriginalMessage(m) ==
    IF m.calls THEN Sent(m.role, BesideCalls(m.content), TRUE, NoId, m.reasoning)
    ELSE Sent(m.role, Flattened(m.content), FALSE, ToolCallId(m), m.reasoning)
-----------------------------------------------------------------------------
(* The schedule of a session *)

(* Defect: the waits are as recorded.                                      *)
RecordedWait(event, maxWait) == event.wait
Wait(event, maxWait) == IF event.wait < maxWait THEN event.wait ELSE maxWait

Qualified(session, id) == session \o id

(* Defect: the sources of the segments are ids of the graph.               *)
GraphIds(session, ids) == ids
QualifiedIds(session, ids) == [k \in DOMAIN ids |-> Qualified(session, ids[k])]

(* _build_session_schedule: a call without messages is no event.           *)
Schedule(session, graph, maxWait) ==
    LET made == SelectSeq(graph, LAMBDA e : e.messages # <<>>)
    IN [k \in 1..Len(made) |-> [made[k] EXCEPT !.id = Qualified(session, @), !.preds = [p \in DOMAIN @ |-> Qualified(session, @[p])],
                                               !.sources = QualifiedIds(session, @), !.wait = Wait(made[k], maxWait)]]
-----------------------------------------------------------------------------
(* The data of a request *)

(* An id is split at its first colon.                                      *)
SessionOf(id) == <<Head(id)>>
GraphIdOf(id) == IF Len(id) > 1 THEN Tail(id) ELSE id

EventOf(graph, id) == SelectSeq(graph, LAMBDA e : e.id = id)

(* The headers or labels of a request, for attributes of its call.         *)
Mapped(attributes, names) == [a \in names |-> IF a \in DOMAIN attributes THEN attributes[a] ELSE "default"]

(* load_lazy_data for event k of a session, dispatched in a session span;  *)
(* states holds the graphs of the sessions that are built.                 *)
LoadLazyData(states, session, k, option) ==
    LET events == Schedule(session, states[session], option.maxWait)
        event == events[k]
        known == SessionOf(event.id) \in DOMAIN states
        call == IF known THEN EventOf(states[SessionOf(event.id)], GraphIdOf(event.id)) ELSE <<>>
    IN [event_id |-> event.id, graph_event_id |-> GraphIdOf(event.id),
        messages |-> [n \in DOMAIN event.messages |-> ChatMessage(event.messages[n])],
        original_messages |-> [n \in DOMAIN event.messages |-> OriginalMessage(event.messages[n])],
        total_events_in_session |-> IF known THEN Len(events) ELSE 0,
        predecessor_event_ids |-> event.preds, sources |-> event.sources, wait |-> event.wait,
        request_session |-> IF call # <<>> /\ call[1].suffix # <<>> THEN session \o call[1].suffix ELSE session,
        headers |-> IF call = <<>> THEN <<>> ELSE <<Mapped(call[1].attributes, option.mapped)>>]
-----------------------------------------------------------------------------
(* Properties *)

(* What a request is loaded with is of one event of its own graph, the one *)
(* it is named for: its count of events lets the session end exactly when  *)
(* all that are scheduled have ended, it waits for events of its session   *)
(* only, no longer than allowed after them, and takes outputs from them;   *)
(* it carries the identity and the headers of its call.  (For session ids  *)
(* without a colon: load_lazy_data splits an event id at its first.)       *)
RequestsAreOfTheirEvents(states, session, option) ==
    LET events == Schedule(session, states[session], option.maxWait)
        Own(ids) == \A id \in ToSet(ids) : EventOf(states[session], Tail(id)) # <<>> /\ SessionOf(id) = session
    IN \A k \in DOMAIN events :
        LET data == LoadLazyData(states, session, k, option)
            event == EventOf(states[session], data.graph_event_id)
        IN /\ Len(event) = 1
           /\ Len(data.messages) = Len(event[1].messages)
           /\ data.total_events_in_session = Len(SelectSeq(states[session], LAMBDA e : e.messages # <<>>))
           /\ Own(data.predecessor_event_ids) /\ Own(data.sources)
           /\ data.wait <= option.maxWait
           /\ data.request_session = session \o event[1].suffix
           /\ data.headers # <<>> /\ \A a \in DOMAIN event[1].attributes \cap option.mapped : data.headers[1][a] = event[1].attributes[a]

(* A request says the same whether or not outputs are substituted in it;   *)
(* no text and no image of a recorded message is lost (but the texts of a  *)
(* list beside tool calls), and a result keeps the id of its call.         *)
NothingIsLostInLoading(messages) ==
    \A k \in DOMAIN messages :
        LET m == messages[k] IN
        /\ ChatMessage(m) = OriginalMessage(m)
        /\ ChatMessage(m).role = m.role /\ ChatMessage(m).calls = m.calls
        /\ m.role = "tool" /\ ~m.calls => ChatMessage(m).id = m.id
        /\ ~m.calls \/ m.content.shape = "text" \/ HasImage(m.content) => ChatMessage(m).content.blocks = m.content.blocks
=============================================================================
