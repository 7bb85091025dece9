----------------------------- MODULE SyntheticSessions -----------------------------
(***************************************************************************)
(* The graph of a synthetic agentic session                                *)
(* (datagen/synthetic_agentic/synthetic_agentic_datagen.py) and its        *)
(* rendering as conversations (synthetic_agentic_to_replay_graph.py).      *)
(*                                                                         *)
(* A session is a number of rounds; a round is an agent: a chain of calls  *)
(* to tools, perhaps a spawn of K sub-agents, which are agents in turn,    *)
(* and K + 1 turns that take in their reports.  Every event counts against *)
(* one budget, and an agent below must leave what the agents above it      *)
(* still owe: this is `reserved'.                                          *)
(*                                                                         *)
(* What the generator draws is given by a record `cfg': tools (the size of *)
(* the catalog), head (is there a system prompt), rounds, budget,          *)
(* maxDepth, loop and kids (by depth), spawners (the agents whose roll     *)
(* asks for a spawn, by their path below the round), parallel (calls per   *)
(* turn), and trigger (the transcript length that compacts, or 0: length   *)
(* stands for tokens).  An event is named by the path of its agent, a kind *)
(* and a number.  A message has a role, the calls it makes or answers and  *)
(* what it says: something of its own, a placeholder, or an answer.        *)
(***************************************************************************)
EXTENDS Integers, FiniteSets, SequencesExt

NoEvent == <<>>
Own == [says |-> "own", event |-> NoEvent]
Open == [says |-> "placeholder", event |-> NoEvent]
AnswerOf(id) == [says |-> "answer", event |-> id]
Message(role, calls, text) == [role |-> role, calls |-> calls, text |-> text]
UserMessage == Message("user", <<>>, Own)
Segment(type, count, source) == [type |-> type, count |-> count, source |-> source]

Depth(a) == Len(a.path) - 1
IsRoot(a) == Depth(a) = 0
Fits(cfg, events, n, reserved) == Len(events) + reserved + n <= cfg.budget
MinAgentCost == 1
ToolDefs(cfg) == IF cfg.tools > 0 THEN {"theme"} ELSE {}
FanoutToolDefs(cfg) == ToolDefs(cfg) \cup {"dispatch_agent"}

(* The tool calls of turn t, and the messages that answer calls.           *)
TurnCalls(cfg, a, t) == [j \in 1..1 + (t % cfg.parallel) |-> <<a.path, "theme", t, j>>]
DispatchCalls(a, K) == [c \in 1..K |-> <<a.path, "dispatch_agent", 0, c>>]
Results(calls) == [k \in DOMAIN calls |-> Message("tool", <<calls[k]>>, Own)]

Event(id, messages, segments, preds, calls, answered, tools) ==
    [id |-> id, messages |-> messages, segments |-> segments, preds |-> preds, calls |-> calls, answered |-> answered, tools |-> tools]

(* The input of an event that goes on from prev: all prev was asked, what  *)
(* prev answered, and the messages of its own.                             *)
Continued(prev, own) ==
    [messages |-> prev.messages \o <<Message("assistant", prev.calls, IF prev.calls = <<>> THEN Open ELSE Own)>> \o own,
     segments |-> <<Segment("shared", Len(prev.messages), prev.id), Segment("output", 1, prev.id), Segment("unique", Len(own), NoEvent)>>]

(* The loop of an agent: how many tool calls it makes, whether it wants to *)
(* spawn, and how many turns of its own are left when it does.             *)
LoopDepth(cfg, a) == IF cfg.tools = 0 THEN 0 ELSE cfg.loop[Depth(a) + 1]
WillSpawn(cfg, a) == Tail(a.path) \in cfg.spawners /\ Depth(a) < cfg.maxDepth
(* Defect: a spawner runs every turn of its loop, and the spawn besides. *)
EveryTurn(cfg, a) == LoopDepth(cfg, a)
TurnEvents(cfg, a) == IF WillSpawn(cfg, a) THEN LoopDepth(cfg, a) - 1 ELSE LoopDepth(cfg, a)

(* The request for plain prose at the end of the last turn: new content,   *)
(* which the last segment counts.                                          *)
(* Defect: the request for prose is not counted. *)
Uncounted(segments, n) == segments
Counted(segments, n) == IF segments = <<>> THEN <<>> ELSE [segments EXCEPT ![Len(segments)].count = @ + n]

Nudge(wanted) == IF wanted THEN <<UserMessage>> ELSE <<>>

Principal(cfg, a) ==
    LET k == LoopDepth(cfg, a)
        terminal == k = 0 /\ ~WillSpawn(cfg, a)
        nudge == Nudge(terminal /\ (~IsRoot(a) \/ cfg.tools > 0))
        head == IF a.segments = <<>> /\ cfg.head THEN <<Message("system", <<>>, Own)>> ELSE <<>>
    IN  Event(<<a.path, "principal", 0>>, head \o a.task \o nudge, Counted(a.segments, Len(nudge)), a.preds,
              IF k > 0 THEN TurnCalls(cfg, a, 0) ELSE <<>>, terminal, ToolDefs(cfg))

Turn(cfg, a, t, prev) ==
    LET terminal == t = LoopDepth(cfg, a) - 1 /\ ~WillSpawn(cfg, a)
        input == Continued(prev, Results(prev.calls))
        nudge == Nudge(terminal)
    IN  Event(<<a.path, "t", t>>, input.messages \o nudge, Counted(input.segments, Len(nudge)), {prev.id},
              IF terminal THEN <<>> ELSE TurnCalls(cfg, a, t + 1), terminal, ToolDefs(cfg))

(* A chain being built: the events so far, the last event of this agent,   *)
(* and whether a spawn was ever rolled back.                               *)
Chain(events, prev, stranded) == [events |-> events, prev |-> prev, stranded |-> stranded]
Emit(chain, event) == Chain(Append(chain.events, event), event, chain.stranded)

RECURSIVE ToolLoop(_, _, _, _)
ToolLoop(cfg, a, t, chain) ==
    IF t >= TurnEvents(cfg, a) \/ ~Fits(cfg, chain.events, 1, a.reserved) THEN chain
    ELSE ToolLoop(cfg, a, t + 1, Emit(chain, Turn(cfg, a, t, chain.prev)))

(* The event that dispatches K sub-agents takes in the results of the last *)
(* tool calls, if there are any, and asks for the delegation.              *)
SpawnEvent(cfg, a, K, prev) ==
    LET input == IF prev.calls # <<>> THEN Continued(prev, Results(prev.calls) \o <<UserMessage>>)
                 ELSE [messages |-> prev.messages \o <<UserMessage>>,
                       segments |-> <<Segment("shared", Len(prev.messages), prev.id), Segment("unique", 1, NoEvent)>>]
    IN  Event(<<a.path, "spawn", 0>>, input.messages, input.segments, {prev.id}, DispatchCalls(a, K), FALSE, FanoutToolDefs(cfg))

(* The turn right after the dispatch, with the launch notes as results, and *)
(* one turn per report, the last of which answers for the agent.           *)
DispatchAck(cfg, a, spawn) ==
    LET input == Continued(spawn, Results(spawn.calls))
    IN  Event(<<a.path, "ack", 0>>, input.messages, input.segments, {spawn.id}, <<>>, TRUE, FanoutToolDefs(cfg))
Notification(cfg, a, c, last, child, prev) ==
    LET nudge == Nudge(last)
    IN  Event(<<a.path, "notify", c>>, prev.messages \o <<Message("user", <<>>, Open)>> \o nudge,
              <<Segment("shared", Len(prev.messages), prev.id), Segment("report", 1, child)>>
                  \o (IF last THEN <<Segment("unique", 1, NoEvent)>> ELSE <<>>),
              {prev.id, child}, <<>>, TRUE, FanoutToolDefs(cfg))
RECURSIVE Notifications(_, _, _, _, _)
Notifications(cfg, a, c, children, chain) ==
    IF c > Len(children) THEN chain
    ELSE Notifications(cfg, a, c + 1, children, Emit(chain, Notification(cfg, a, c, c = Len(children), children[c], chain.prev)))

(* What a child must leave: what its parent had to leave, the turns the    *)
(* parent owes after its children, and a least agent per younger sibling.  *)
(* Defect: the turns the parent still owes are not left. *)
SiblingsReserved(a, K, c) == a.reserved + (K - c) * MinAgentCost
ChildReserved(a, K, c) == a.reserved + (K + 1) + (K - c) * MinAgentCost

SpawnCost(K) == 1 + K * MinAgentCost + (K + 1)

(* The last event of an agent answers, whatever it was built for.          *)
(* Defect: the last event may be left with a call nobody takes in. *)
AsBuilt(chain) == chain
Settled(chain) ==
    IF chain.prev.calls = <<>> THEN chain
    ELSE LET answer == [chain.prev EXCEPT !.calls = <<>>, !.answered = TRUE]
         IN  Chain([k \in DOMAIN chain.events |-> IF chain.events[k].id = answer.id THEN answer ELSE chain.events[k]], answer, chain.stranded)

RECURSIVE Agent(_, _, _), Children(_, _, _, _, _)
(* The K children of a spawn: [chain, terminals], fewer when one does not  *)
(* fit.                                                                    *)
Children(cfg, a, spawn, K, built) ==
    LET c == Len(built.terminals) + 1
        child == [path |-> Append(a.path, c), preds |-> {spawn.id}, task |-> <<UserMessage>>, segments |-> <<>>, reserved |-> ChildReserved(a, K, c)]
    IN  IF c > K \/ ~Fits(cfg, built.chain.events, MinAgentCost, child.reserved) THEN built
        ELSE LET grown == Agent(cfg, child, built.chain)
             IN  Children(cfg, a, spawn, K, [chain |-> grown, terminals |-> Append(built.terminals, grown.prev.id)])

(* A spawn is made whole or not at all.                                    *)
FanOut(cfg, a, chain) ==
    LET K == cfg.kids[Depth(a) + 1]
        spawn == SpawnEvent(cfg, a, K, chain.prev)
        built == Children(cfg, a, spawn, K, [chain |-> Emit(chain, spawn), terminals |-> <<>>])
    IN  IF ~WillSpawn(cfg, a) \/ K = 0 \/ ~Fits(cfg, chain.events, SpawnCost(K), a.reserved) THEN chain
        ELSE IF Len(built.terminals) = K /\ Fits(cfg, built.chain.events, K + 1, a.reserved)
             THEN Notifications(cfg, a, 1, built.terminals, Emit(built.chain, DispatchAck(cfg, a, spawn)))
             ELSE [chain EXCEPT !.stranded = TRUE]

Agent(cfg, a, chain) == Settled(FanOut(cfg, a, ToolLoop(cfg, a, 0, Emit(chain, Principal(cfg, a)))))

(* Rounds: each goes on from the end of the one before, or starts afresh   *)
(* after it when the transcript is long enough to be compacted.            *)
AccumulatedTokens(cfg, transcript) == Len(transcript) + Cardinality(ToolDefs(cfg))
ShouldCompact(cfg, transcript) == cfg.trigger > 0 /\ AccumulatedTokens(cfg, transcript) >= cfg.trigger
RoundAgent(cfg, r, chain) ==
    LET fresh == r = 0 \/ ShouldCompact(cfg, chain.prev.messages)
        input == Continued(chain.prev, <<UserMessage>>)
    IN  [path |-> <<r>>, preds |-> IF r = 0 THEN {} ELSE {chain.prev.id}, task |-> IF fresh THEN <<UserMessage>> ELSE input.messages,
         segments |-> IF fresh THEN <<>> ELSE input.segments, reserved |-> 0]
RECURSIVE Rounds(_, _, _)
Rounds(cfg, r, chain) ==
    IF r = cfg.rounds \/ ~Fits(cfg, chain.events, MinAgentCost, 0) THEN chain
    ELSE Rounds(cfg, r + 1, Agent(cfg, RoundAgent(cfg, r, chain), chain))
BuildGraph(cfg) == Rounds(cfg, 0, Chain(<<>>, [id |-> NoEvent, messages |-> <<>>, calls |-> <<>>], FALSE))

(* ---- the rendering as conversations ----------------------------------- *)
EventOf(events, id) == events[CHOOSE k \in DOMAIN events : events[k].id = id]
Count(segments) == FoldLeft(LAMBDA n, s : n + s.count, 0, segments)
Cursor(segments, k) == Count(SubSeq(segments, 1, k - 1))
Said(event) == IF event.answered THEN AnswerOf(event.id) ELSE Own
RECURSIVE Resolved(_, _)
Resolved(events, id) ==
    LET event == EventOf(events, id)
        Fill(messages, k) ==
            LET s == event.segments[k]  at == Cursor(event.segments, k)
            IN  IF s.type = "shared" THEN LET source == Resolved(events, s.source)
                                          IN  [i \in DOMAIN messages |-> IF i \in at + 1..at + s.count THEN source[i] ELSE messages[i]]
                ELSE IF s.type \in {"output", "report"} THEN [messages EXCEPT ![at + 1].text = Said(EventOf(events, s.source))]
                ELSE messages
    IN  FoldLeft(Fill, event.messages, [k \in DOMAIN event.segments |-> k])

(* The event that takes an output in, and where in its messages.           *)
OutputSuccessors(events, id) ==
    {<<k, s>> \in (DOMAIN events) \X (1..3) : s \in DOMAIN events[k].segments /\ events[k].segments[s].type = "output" /\ events[k].segments[s].source = id}
SpokenTurn(from, calls, text) == [from |-> from, calls |-> calls, text |-> text]
(* Calls answered by the messages after them: in the order of the calls    *)
(* when each has a result with its id, else as they come.                  *)
(* Defect: results stand as they came. *)
AsTheyCame(calls, results) == [k \in DOMAIN results |-> results[k].calls[1]]
Observation(calls, results) ==
    LET given == [k \in DOMAIN results |-> results[k].calls[1]]
    IN  IF Range(calls) \subseteq Range(given) THEN calls ELSE given

RECURSIVE Conversation(_)
Conversation(messages) ==
    IF messages = <<>> THEN <<>>
    ELSE LET m == Head(messages)
             rest == Tail(messages)
             results == SubSeq(rest, 1, CHOOSE n \in 0..Len(rest) : /\ \A k \in 1..n : rest[k].role = "tool"
                                                                    /\ n < Len(rest) => rest[n + 1].role # "tool")
         IN  IF m.role = "assistant" /\ m.calls # <<>>
             THEN <<SpokenTurn("function_call", m.calls, Own)>>
                      \o (IF results = <<>> THEN <<>> ELSE <<SpokenTurn("observation", Observation(m.calls, results), Own)>>)
                      \o Conversation(SubSeq(rest, Len(results) + 1, Len(rest)))
             ELSE (IF m.role = "user" THEN <<SpokenTurn("human", <<>>, m.text)>> ELSE IF m.role = "assistant" THEN <<SpokenTurn("gpt", <<>>, m.text)>> ELSE <<>>)
                      \o Conversation(rest)
FinalTurn(events, event) ==
    LET taken == OutputSuccessors(events, event.id)
        first == CHOOSE x \in taken : \A y \in taken : x[1] <= y[1]
    IN  IF event.calls = <<>> THEN IF event.answered THEN <<SpokenTurn("gpt", <<>>, AnswerOf(event.id))>> ELSE <<>>
        ELSE <<SpokenTurn("function_call", IF taken = {} THEN <<>> ELSE events[first[1]].messages[Cursor(events[first[1]].segments, first[2]) + 1].calls, Own)>>
Record(events, event) == Conversation(Resolved(events, event.id)) \o FinalTurn(events, event)

(* ---- properties ------------------------------------------------------- *)
Earlier(events, k) == {events[j].id : j \in 1..k - 1}
(* A session never has more events than its budget, has one if the budget  *)
(* allows one, and no spawn is ever given up half built: what an agent     *)
(* owes is left by everything below it.                                    *)
BudgetIsKept(cfg) ==
    LET made == BuildGraph(cfg)
    IN  Len(made.events) <= cfg.budget /\ (cfg.budget > 0 => made.events # <<>>) /\ ~made.stranded

(* The segments of an event tile its messages; each stands for what its    *)
(* source, which the event waits for, was asked or answered.               *)
SegmentsTile(events) == \A k \in DOMAIN events :
    LET e == events[k]
    IN  /\ e.segments # <<>> => Count(e.segments) = Len(e.messages)
        /\ \A n \in DOMAIN e.segments :
              LET s == e.segments[n]  at == Cursor(e.segments, n)
              IN  /\ s.type # "unique" => s.source \in e.preds
                  /\ s.type = "shared" => at = 0 /\ SubSeq(e.messages, 1, s.count) = EventOf(events, s.source).messages
                  /\ s.type = "output" => e.messages[at + 1].calls = EventOf(events, s.source).calls
                  /\ s.type = "report" => EventOf(events, s.source).calls = <<>>

(* Every call a transcript holds is answered once, right after it, and     *)
(* every call an event is made to emit is advertised to it and taken in.   *)
CallsAreAnswered(events) == \A k \in DOMAIN events :
    LET e == events[k]
        made == {m \in DOMAIN e.messages : e.messages[m].role = "assistant" /\ e.messages[m].calls # <<>>}
        answering == UNION {m + 1..m + Len(e.messages[m].calls) : m \in made}
    IN  /\ \A m \in made : \A n \in DOMAIN e.messages[m].calls :
              m + n <= Len(e.messages) /\ e.messages[m + n] = Message("tool", <<e.messages[m].calls[n]>>, Own)
        /\ {m \in DOMAIN e.messages : e.messages[m].role = "tool"} = answering
        /\ \A n \in DOMAIN e.calls : e.calls[n][2] \in e.tools
        /\ e.calls # <<>> => OutputSuccessors(events, e.id) # {}

(* The events are one graph with one start, one end and no cycle: nothing  *)
(* runs before what it waits for, and nothing is computed for nobody.      *)
OneGraph(events) == \A k \in DOMAIN events :
    /\ events[k].preds \subseteq Earlier(events, k) /\ (k > 1 => events[k].preds # {})
    /\ k < Len(events) => \E j \in k + 1..Len(events) : events[k].id \in events[j].preds

(* An agent with room makes as many turns of tool calls as it drew, with a *)
(* spawn or without.                                                       *)
LoopDepthIsKept(cfg, events) == \A k \in DOMAIN events :
    LET path == events[k].id[1]
        looping == {j \in DOMAIN events : events[j].id[1] = path /\ events[j].id[2] # "spawn" /\ events[j].calls # <<>>}
    IN  Cardinality(looping) = LoopDepth(cfg, [path |-> path])

(* Rendered, no placeholder is left, each call is followed by all that     *)
(* answers it, and what an event emits is what it was made to emit.        *)
RecordsAreWhole(events) == \A k \in DOMAIN events :
    LET turns == Record(events, events[k])
    IN  /\ \A n \in DOMAIN turns : turns[n].text # Open
        /\ \A n \in 1..Len(turns) - 1 : turns[n].from = "function_call"
              => turns[n + 1].from = "observation" /\ turns[n + 1].calls = turns[n].calls
        /\ events[k].calls # <<>> => turns[Len(turns)].calls = events[k].calls

(* Whatever the messages, no result is lost for not naming its call, and   *)
(* the results stand in the order of the calls when each call has one.     *)
ObservationsAlign(messages) ==
    LET turns == Conversation(messages)
    IN  \A n \in DOMAIN turns : turns[n].from = "observation" =>
            LET calls == turns[n - 1].calls  named == Range(turns[n].calls) \ {""}
            IN  turns[n - 1].from = "function_call" /\ (Range(calls) \subseteq named => turns[n].calls = calls)
=============================================================================
