-------------------------------- MODULE MCSynthetic --------------------------------
(***************************************************************************)
(* Small synthetic sessions: agents two deep, up to two sub-agents each,   *)
(* and every budget from one event to more than any of them needs.         *)
(***************************************************************************)
EXTENDS MCCase, Integers, Sequences

Synth == INSTANCE SyntheticSessions
Sized == INSTANCE SyntheticText

Ample == 60
Drawn(tools, head, rounds, budget, loop, kids, spawners, trigger) ==
    [tools |-> tools, head |-> head, rounds |-> rounds, budget |-> budget, maxDepth |-> 2, loop |-> loop, kids |-> kids,
     spawners |-> spawners, parallel |-> 2, trigger |-> trigger]
MakeGraph(cfg) == Make("synthetic", [cfg |-> cfg, events |-> Synth!BuildGraph(cfg).events])
Loops == {<<0, 0, 0>>, <<1, 0, 2>>, <<2, 1, 0>>, <<3, 2, 1>>}
SyntheticCase == Idle("synthetic") /\
    \/ \E budget \in 0..24 \cup {Ample}, loop \in Loops, kids \in {<<1, 2>>, <<2, 1>>, <<2, 2>>}, spawners \in SUBSET {<<>>, <<1>>, <<2>>} :
          MakeGraph(Drawn(1, TRUE, 1, budget, loop, kids, spawners, 0))
    \/ \E budget \in 1..16 \cup {Ample}, loop \in Loops, tools \in 0..1, spawners \in {{}, {<<>>}}, trigger \in {0, 4, 9}, head \in BOOLEAN :
          MakeGraph(Drawn(tools, head, 3, budget, loop, <<1, 0>>, spawners, trigger))

(* Messages in any order, with results that name their calls or do not.    *)
Spoken == {Synth!UserMessage, Synth!Message("assistant", <<>>, Synth!Own), Synth!Message("assistant", <<"a", "b">>, Synth!Own)}
          \cup {Synth!Message("tool", <<c>>, Synth!Own) : c \in {"a", "b", ""}}
SpokenCase == Idle("spoken") /\ \E n \in 0..4 : \E messages \in [1..n -> Spoken] : Make("spoken", messages)

(* Pools of up to three words, prompts of up to three, and every target *)
(* up to more than they come to.                                           *)
Words(n) == UNION {[1..m -> 1..3] : m \in 0..n}
PaddingCase == Idle("padding") /\ \E target \in 0..14, start \in 0..2 :
    \E x \in {<<pool, <<1>>>> : pool \in Words(3)} \cup {<<pool, prompt>> : pool \in Words(1), prompt \in Words(3) \ {<<>>}} :
        Make("padding", [pool |-> x[1], prompt |-> x[2], target |-> target, start |-> start])

(* Results whose numbers may be in any order, or no numbers; calls whose   *)
(* arguments may be enumerated, of the subject of the session, or neither. *)
NumberFields == {<<"in_use", "0">>, <<"max", "0">>, <<"p50", "0">>, <<"p90", "0">>, <<"p99", "0">>, <<"p99", "1">>}
NumberCase == Idle("numbers") /\ \E values \in [NumberFields -> -1..2] : Make("numbers", values)
ArgumentSpecs == {[required |-> r, enum |-> e, type |-> t] : r \in BOOLEAN, e \in {{}, {"x", "y"}}, t \in {"integer", "string"}}
ArgumentCase == Idle("arguments") /\ \E schema \in [{"service", "mode"} -> ArgumentSpecs], pinned \in SUBSET {"service", "mode"}, entities \in SUBSET {"service", "mode"} :
    Make("arguments", [schema |-> schema, pinned |-> [p \in pinned |-> <<"subject", p>>], entities |-> entities])

(* A synthetic session can be replayed: it keeps its budget, its segments  *)
(* tile what they stand for, its calls are answered, it is one graph, its  *)
(* agents loop as often as they drew, and its records are whole.           *)
SessionsAreReplayable ==
    /\ On("synthetic", LAMBDA x : Synth!BudgetIsKept(x.cfg))
    /\ On("synthetic", LAMBDA x : Synth!SegmentsTile(x.events))
    /\ On("synthetic", LAMBDA x : Synth!CallsAreAnswered(x.events))
    /\ On("synthetic", LAMBDA x : Synth!OneGraph(x.events))
    /\ On("synthetic", LAMBDA x : x.cfg.budget = Ample => Synth!LoopDepthIsKept(x.cfg, x.events))
    /\ On("synthetic", LAMBDA x : Synth!RecordsAreWhole(x.events))
    /\ On("padding", LAMBDA x : Sized!PaddingIsClose(x.target, 2, x.pool, x.start))
    /\ On("padding", LAMBDA x : Sized!HeadIsWhole(x.prompt, 2, x.target, x.pool))
    /\ On("numbers", Sized!NumbersAreOrdered)
    /\ On("arguments", LAMBDA x : Sized!ResultsEcho(x.schema, x.pinned, x.entities))
    /\ On("spoken", Synth!ObservationsAlign)

SyntheticAlgorithms == {"synthetic", "spoken", "padding", "numbers", "arguments"}
SyntheticCases == SyntheticCase \/ SpokenCase \/ PaddingCase \/ NumberCase \/ ArgumentCase
=============================================================================
