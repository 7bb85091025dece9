--------------------------------- MODULE MCSources ---------------------------------
(***************************************************************************)
(* Where sessions come from.  Small corpora: up to three files of up to    *)
(* three lines, blank and broken ones among them, ids given, empty or      *)
(* absent, and sizes that tell lines apart; then what is loaded of the     *)
(* events of a session.                                                    *)
(***************************************************************************)
EXTENDS MCCase, Integers, Sequences

Sources == INSTANCE TraceSources
Loading == INSTANCE EventLoading

Call(kind, tokens) == [kind |-> kind, tokens |-> tokens]
Document(form, session, trace, spans) == [form |-> form, session |-> session, trace |-> trace, spans |-> spans]
OfDoc(doc, size) == [kind |-> "doc", size |-> size, doc |-> doc]
Named(form, n) == Document(form, <<<<"s", n>>>>, <<>>, <<Call("sent", n)>>)
Lines == {[kind |-> k, size |-> 1] : k \in {"blank", "broken", "other"}}
         \cup {OfDoc(Document("otel", <<>>, <<<<"t">>>>, <<Call("sent", 2), Call("mute", 1)>>), 2),
               OfDoc(Document("otel", <<<<>>>>, <<>>, <<Call("sent", 1)>>), 3),
               OfDoc(Document("otel", <<>>, <<>>, <<Call("sent", 1), Call("sent", 3)>>), 1)}
         \cup {OfDoc(Named(form, 5), 2) : form \in {"strange", "wire", "probe", "none"}}
File(name, suffix, lines) == [name |-> name, suffix |-> suffix, lines |-> lines]

(* Any one file, and two of which the second may be any short one.         *)
FileCase == Idle("file") /\ \E skip \in BOOLEAN, validate \in BOOLEAN, suffix \in {".json", ".jsonl"} :
    \/ \E n \in 0..(IF suffix = ".json" THEN 1 ELSE 3) : \E lines \in [1..n -> Lines] :
         Make("file", [files |-> <<File("a", suffix, lines)>>, validate |-> validate, skip |-> skip])
    \/ \E one \in Lines, other \in Lines, more \in {<<>>} \cup {<<l>> : l \in Lines} :
         Make("file", [files |-> <<File("a", suffix, <<one>>), File("b", ".jsonl", <<other>> \o more)>>, validate |-> validate, skip |-> skip])

(* A corpus of traces with, without and with silent calls, in any order.   *)
CorpusTraces == {Document("otel", <<<<"s1">>>>, <<>>, <<Call("sent", 3)>>), Document("otel", <<<<"s2">>>>, <<>>, <<Call("sent", 1), Call("mute", 1)>>),
           Document("otel", <<<<"s3">>>>, <<>>, <<Call("mute", 4)>>), Document("otel", <<<<"s4">>>>, <<>>, <<Call("other", 5)>>),
           Document("otel", <<>>, <<>>, <<>>), Document("strange", <<<<"s5">>>>, <<>>, <<>>)}
Permutation(n) == {p \in [1..n -> 1..n] : \A i, j \in 1..n : i # j => p[i] # p[j]}
Long == 2
Corpus(docs) == [k \in 1..Len(docs) |-> File(<<"f", k>>, ".json", <<OfDoc(docs[k], 1)>>)]
Kept(docs) == Sources!Filtered(Sources!Index(Corpus(docs), TRUE, TRUE)[1], Long, TRUE)[1]
CorpusCase == Idle("corpus") /\ \E n \in 1..3 : \E docs \in [1..n -> CorpusTraces] :
    \E kept \in {Kept(docs)} \ {<<>>} :
    \E order \in Permutation(Len(kept)), target \in {0, Len(kept) + 1, 2 * Len(kept) + 1} :
        Make("corpus", [kept |-> kept, order |-> order, sessions |-> Sources!Sessions(kept, order, target)])

(* Three slots: one that comes to nothing, one without an event, one that  *)
(* is a session.                                                           *)
BuiltAs(doc) == Sources!BuildSession(<<Sources!IndexOne(File("f", ".json", <<OfDoc(doc, 1)>>), TRUE)[1][1]>>, <<1>>,
                                     [id |-> [slot |-> 1, suffix |-> <<"f">>, dup |-> 0], slot |-> 1, source |-> <<"f">>])
SlotsMade == <<<<>>, BuiltAs(Document("otel", <<>>, <<>>, <<Call("mute", 1)>>)), BuiltAs(Document("otel", <<>>, <<>>, <<Call("sent", 1), Call("mute", 1)>>))>>
SlotCase == Idle("slots") /\ \E n \in 1..4 : \E ops \in [1..n -> [op : {"dispatch", "free"}, slot : 1..3]] : Make("slots", ops)

(* Two sessions with events of the same ids, in which a predecessor may    *)
(* have no messages; messages of every shape.                              *)
Contents == {[shape |-> "text", blocks |-> b] : b \in {<<>>, <<[type |-> "text", text |-> "t"]>>}}
            \cup {[shape |-> "list", blocks |-> b] : b \in {<<[type |-> t, text |-> t]>> : t \in {"text", "image", "other"}} \cup
                                                        {<<[type |-> "text", text |-> "t"], [type |-> t, text |-> t]>> : t \in {"text", "image", "other"}}}
Recorded == {[role |-> r, content |-> c, calls |-> called, id |-> i, reasoning |-> why] :
                r \in {"assistant", "tool"}, c \in Contents, called \in BOOLEAN, i \in {"no id", "c"}, why \in BOOLEAN}
RecordedCase == Idle("recorded") /\ \E m \in Recorded : Make("recorded", <<m>>)
Plain == [role |-> "user", content |-> [shape |-> "text", blocks |-> <<>>], calls |-> FALSE, id |-> "no id", reasoning |-> FALSE]
GraphEvent(id, preds, messages, wait, suffix, attributes) ==
    [id |-> <<id>>, preds |-> preds, sources |-> preds, messages |-> messages, wait |-> wait, suffix |-> suffix, attributes |-> attributes]
Messages == {<<>>, <<Plain>>, <<Plain, Plain>>}
LoadCase == Idle("load") /\ \E one \in Messages, two \in Messages, w \in {0, 2, 9}, suffix \in {<<>>, <<"agent">>},
                               attributes \in {<<>>, [a \in {"model"} |-> "m"]}, maxWait \in {1, 5}, mapped \in SUBSET {"model", "user"} :
    LET graph == <<GraphEvent("e1", <<>>, one, 0, <<>>, <<>>), GraphEvent("e2", <<<<"e1">>>>, two, w, suffix, attributes)>>
        other == <<GraphEvent("e2", <<>>, <<Plain>>, 0, <<"other">>, <<>>)>>
        states == [s \in {<<"one">>, <<"two">>} |-> IF s = <<"one">> THEN graph ELSE other]
    IN Make("load", [states |-> states, option |-> [maxWait |-> maxWait, mapped |-> mapped]])

(* Sessions come from the traces they are named for: the corpus is indexed *)
(* and read as it would be read whole, filtered, shuffled and duplicated,  *)
(* and each session is built when it is needed; its requests are loaded    *)
(* from its own events, whole.                                             *)
SessionsComeFromTheirTraces ==
    /\ On("file", LAMBDA x : Sources!LazyIsEager(x.files, x.validate, x.skip))
    /\ On("file", LAMBDA x : Sources!LabelsAgree(Sources!Index(x.files, TRUE, x.skip)))
    /\ On("corpus", LAMBDA x : Sources!SessionsReplayTheirTraces(x.kept, x.order, x.sessions, Long))
    /\ On("slots", LAMBDA x : Sources!SlotsAreBuiltOnDemand(x, SlotsMade))
    /\ On("load", LAMBDA x : \A s \in DOMAIN x.states : Loading!RequestsAreOfTheirEvents(x.states, s, x.option))
    /\ On("recorded", Loading!NothingIsLostInLoading)

SourcesAlgorithms == {"file", "corpus", "slots", "load", "recorded"}
SourcesCases == FileCase \/ CorpusCase \/ SlotCase \/ LoadCase \/ RecordedCase
=============================================================================
