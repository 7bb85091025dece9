------------------------- MODULE UserSessionProofs -------------------------
(***************************************************************************)
(* The sessions of a worker let one turn at a time pass, no turn overtakes  *)
(* an earlier one before that has been woken, and a prompt is exactly what  *)
(* its conversation has said, for every number of turns, permits and        *)
(* configurations.                                                          *)
(*                                                                          *)
(* The theorems are about configurations in which no session is made for an *)
(* id another session still has: shared-prefix generation, which has one    *)
(* session, and conversation replay in one stage.  In a second stage the    *)
(* conversations of a slot are numbered from one again, and may take the id *)
(* of the session made again at the stage boundary.  The last one, about    *)
(* prompts, needs that requests which fail do not meet prompts that are cut *)
(* to some but not all earlier turns: there the code itself repeats a part. *)
(***************************************************************************)
EXTENDS UserSession, RecursionTheorems, SequenceTheorems

\* No session is made for an id that another still has: see above.
DistinctIds == \A p \in Plans : p.generator = "shared_prefix" \/ Len(p.rounds) = 1

\* Session o can be found under an id.
Registered(o) == o # 0 /\ \E i \in ID : registry[i] = o

\* Turn u is at the head of queue q.
First(q, u) == q # <<>> /\ u = Head(q)

-----------------------------------------------------------------------------
(* Where turns and sessions stand *)

\* Turns are loaded in order, and none is left when the run is over.
LoadedInv ==
  /\ \A t \in Turn : pc[t] = "unloaded" <=> t > loaded
  /\ phase = "done" => \A t \in Turn : pc[t] \notin Task
  /\ \A t \in Turn : pc[t] = "scheduled" => phase = "serve"

\* An id names one session, and a turn under way stays with that of its id.
NamedInv ==
  /\ \A i, j \in ID : registry[i] = registry[j] /\ registry[i] # 0 => i = j
  /\ \A t \in Turn : pc[t] \in Task => registry[id[t]] # 0
  /\ \A t \in Turn : pc[t] \in Queueing \cup Holding => object[t] = registry[id[t]]

\* The session registered under an id is that of the generator's conversation.
SlotInv ==
  \/ plan.generator = "shared_prefix" /\ slot = 0 /\ \A t \in Turn : id[t] = 0
  \/ /\ plan.generator = "conversation_replay"
     /\ Len(plan.rounds) = 1
     /\ \A t \in Turn : t <= loaded => conversation[t] = <<1, id[t]>>
     /\ phase # "done" =>
          /\ stage = 1 /\ base = 0
          /\ slot = IF loaded = 0 THEN 0 ELSE (loaded - 1) \div Turns
          /\ \A i \in ID : registry[i] # 0 <=> i <= slot

\* The lock of a session is granted to its first waiter, while nobody holds it.
LockOf(o) ==
  LET w == sessions[o].waiters IN
    /\ \A k \in 1 .. Len(w) : object[w[k]] = o /\ pc[w[k]] \in {"locking", "granted"}
    /\ \A k, l \in 1 .. Len(w) : w[k] = w[l] => k = l
    /\ \A t \in Turn : pc[t] = "granted" /\ object[t] = o => First(w, t) /\ ~sessions[o].in_flight

LockInv == \A o \in 1 .. Len(sessions) : Registered(o) => LockOf(o)

\* The rounds that wait are those that are parked, in the order of the turns.
RoundsOf(o) ==
  LET w == sessions[o].waiting_rounds IN
    /\ \A k \in 1 .. Len(w) : object[w[k]] = o /\ pc[w[k]] = "parked"
    /\ \A k, l \in 1 .. Len(w) : k < l => w[k] < w[l]
    /\ \A t \in Turn : pc[t] = "parked" /\ object[t] = o => \E k \in 1 .. Len(w) : w[k] = t

RoundsInv == \A o \in 1 .. Len(sessions) : Registered(o) => RoundsOf(o)

\* Who has the lock: one turn at most, and its mark is the lock.
Owners(o) == {t \in Turn : object[t] = o /\ pc[t] \in Holding \cup {"raised"}}

OwnerOf(o) == \/ sessions[o].in_flight /\ \E t \in Turn : Owners(o) = {t}
              \/ ~sessions[o].in_flight /\ Owners(o) = {}

OwnerInv == \A o \in 1 .. Len(sessions) : Registered(o) => OwnerOf(o)

\* Turns become due in order, and run in the order they became due.
DueInv ==
  /\ \A t, u \in Turn : pc[t] = "scheduled" /\ u > t => pc[u] \in {"scheduled", "unloaded"}
  /\ \A t, u \in Turn : pc[t] = "arriving" /\ u > t
                          => pc[u] \in {"arriving", "scheduled", "unloaded", "dropped"}
  /\ \A t \in Turn : pc[t] = "arriving" => \E k \in 1 .. Len(ready) : ready[k] = t
  /\ \A k \in 1 .. Len(ready) : pc[ready[k]] \notin {"scheduled", "unloaded"}
  /\ \A k, l \in 1 .. Len(ready) :
       k < l /\ pc[ready[k]] = "arriving" /\ pc[ready[l]] = "arriving" => ready[k] < ready[l]

\* The turns that wait for their round are later than those that no longer do.
WokenInv ==
  \A t, u \in Turn :
    pc[t] = "parked" /\ pc[u] \in {"woken", "locking", "granted"} /\ object[t] = object[u] => u < t

Lanes == LoadedInv /\ NamedInv /\ SlotInv /\ LockInv /\ RoundsInv /\ OwnerInv /\ DueInv /\ WokenInv
-----------------------------------------------------------------------------
(* Texts *)

\* Joining texts gives a text.
LEMMA JoinedText == /\ \A h \in Seq(Text) : Joined[h] \in Text
                    /\ Joined[<<>>] = <<>>
                    /\ \A h \in Seq(Text) : h # <<>> => Joined[h] = Head(h) \o Joined[Tail(h)]
<1> DEFINE Is(f) == f = [h \in Seq(Text) |-> IF h = <<>> THEN <<>> ELSE Head(h) \o f[Tail(h)]]
           add   == [x \in Seq(Text) \X Text |-> IF x[1] = <<>> THEN <<>> ELSE Head(x[1]) \o x[2]]
<1>1. <<>> \in Text /\ add \in [Seq(Text) \X Text -> Text]
  <2>1. \A h \in Seq(Text) : h # <<>> => Head(h) \in Text
    <3> HIDE DEF Text
    <3> QED
      OBVIOUS
  <2>2. \A a, b \in Text : a \o b \in Text
    BY DEF Text
  <2>3. <<>> \in Text
    BY DEF Text
  <2> QED
    BY <2>1, <2>2, <2>3
<1>2. \E f : Is(f)
  <2>1. PICK f \in [Seq(Text) -> Text] :
          \A h \in Seq(Text) : f[h] = IF h = <<>> THEN <<>> ELSE add[<<h, f[Tail(h)]>>]
    <3> DEFINE empty == <<>>
    <3>1. empty \in Text
      BY <1>1
    <3> HIDE DEF add, empty, Text
    <3>2. \E f \in [Seq(Text) -> Text] : Recurs(f, Text, empty, add)
      BY <1>1, <3>1, SeqRecursion
    <3> QED
      BY <3>2 DEF empty, Recurs
  <2>2. \A h \in Seq(Text) : h # <<>> => Tail(h) \in Seq(Text)
    OBVIOUS
  <2>3. \A h \in Seq(Text) : f[h] = IF h = <<>> THEN <<>> ELSE Head(h) \o f[Tail(h)]
    BY <2>1, <2>2
  <2>4. Is(f)
    BY <2>1, <2>3
  <2> QED
    BY <2>4
<1>3. Is(Joined)
  <2>1. Joined = CHOOSE f : Is(f)
    BY DEF Joined
  <2> HIDE DEF Is
  <2> QED
    BY <1>2, <2>1
<1> DEFINE Good == {n \in Nat : \A h \in Seq(Text) : Len(h) = n => Joined[h] \in Text}
<1>4. \A h \in Seq(Text) : Joined[h] = IF h = <<>> THEN <<>> ELSE Head(h) \o Joined[Tail(h)]
  BY <1>3
<1> HIDE DEF Is
<1>5. 0 \in Good
  BY <1>1, <1>4
<1>6. ASSUME NEW n \in Nat, n \in Good PROVE n + 1 \in Good
  <2> SUFFICES ASSUME NEW h \in Seq(Text), Len(h) = n + 1 PROVE Joined[h] \in Text
    OBVIOUS
  <2>1. h # <<>> /\ Head(h) \in Text /\ Tail(h) \in Seq(Text) /\ Len(Tail(h)) = n
    <3> HIDE DEF Text
    <3> QED
      OBVIOUS
  <2>2. Joined[Tail(h)] \in Text
    BY <1>6, <2>1
  <2>3. Head(h) \o Joined[Tail(h)] \in Text
    BY <2>1, <2>2 DEF Text
  <2> QED
    BY <1>4, <2>1, <2>3
<1>7. \A n \in Nat : n \in Good
  <2> HIDE DEF Good
  <2> QED
    BY <1>5, <1>6, NatSetInduction
<1>8. \A h \in Seq(Text) : Joined[h] \in Text
  BY <1>7
<1>9. <<>> \in Seq(Text)
  OBVIOUS
<1> QED
  BY <1>4, <1>8, <1>9

\* Dropping texts leaves texts.
LEMMA FittingText ==
  \A h \in Seq(Text), n \in Nat :
    /\ Fitting[h][n] \in Seq(Text)
    /\ Fitting[h][n] = IF Len(Joined[h]) <= n THEN h ELSE Fitting[Tail(h)][n]
<1> DEFINE Texts  == Seq(Text)
           Rest   == [Nat -> Texts]
           Fits(h, n) == Len(Joined[h]) <= n
           Is(f)  == f = [h \in Texts |-> [n \in Nat |-> IF Fits(h, n) THEN h ELSE f[Tail(h)][n]]]
           empty  == [n \in Nat |-> <<>>]
           drop   == [x \in Texts \X Rest |-> [n \in Nat |-> IF Fits(x[1], n) THEN x[1] ELSE x[2][n]]]
<1>1. <<>> \in Texts
  OBVIOUS
<1>2. \A h \in Texts : h # <<>> => Tail(h) \in Texts
  OBVIOUS
<1>3. \A n \in Nat : Fits(<<>>, n)
  BY JoinedText
<1> HIDE DEF Texts, Fits
<1>4. empty \in Rest /\ drop \in [Texts \X Rest -> Rest]
  BY <1>1
<1>5. \E f : Is(f)
  <2>1. PICK f \in [Texts -> Rest] : Recurs(f, Text, empty, drop)
    <3> HIDE DEF empty, drop, Rest
    <3> QED
      BY <1>4, SeqRecursion DEF Texts
  <2>2. ASSUME NEW h \in Texts
        PROVE  f[h] = [n \in Nat |-> IF Fits(h, n) THEN h ELSE f[Tail(h)][n]]
    <3>1. CASE h = <<>>
      <4>1. f[h] = empty
        BY <2>1, <3>1 DEF Recurs, Texts
      <4> QED
        BY <1>3, <3>1, <4>1
    <3>2. CASE h # <<>>
      <4>1. f[h] = drop[<<h, f[Tail(h)]>>]
        <5> HIDE DEF drop
        <5> QED
          BY <2>1, <3>2 DEF Recurs, Texts
      <4>2. Tail(h) \in Texts
        BY <1>2, <3>2
      <4> QED
        BY <2>1, <4>1, <4>2
    <3> QED
      BY <3>1, <3>2
  <2>3. Is(f)
    BY <2>1, <2>2
  <2> HIDE DEF Is
  <2> QED
    BY <2>3
<1>6. Is(Fitting)
  <2>1. Fitting = CHOOSE f : Is(f)
    BY DEF Fitting, Texts, Fits
  <2> HIDE DEF Is
  <2> QED
    BY <1>5, <2>1
<1>7. \A h \in Texts, n \in Nat : Fitting[h][n] = IF Fits(h, n) THEN h ELSE Fitting[Tail(h)][n]
  BY <1>6
<1> DEFINE Good == {k \in Nat : \A h \in Texts : \A n \in Nat : Len(h) = k => Fitting[h][n] \in Texts}
<1> HIDE DEF Is
<1>8. 0 \in Good
  <2> SUFFICES ASSUME NEW h \in Texts, NEW n \in Nat, Len(h) = 0 PROVE Fitting[h][n] \in Texts
    OBVIOUS
  <2>1. h = <<>>
    BY DEF Texts
  <2> QED
    BY <1>1, <1>3, <1>7, <2>1
<1>9. ASSUME NEW k \in Nat, k \in Good PROVE k + 1 \in Good
  <2> SUFFICES ASSUME NEW h \in Texts, NEW n \in Nat, Len(h) = k + 1 PROVE Fitting[h][n] \in Texts
    OBVIOUS
  <2>1. Tail(h) \in Texts /\ Len(Tail(h)) = k
    BY DEF Texts
  <2>2. Fitting[Tail(h)][n] \in Texts
    BY <1>9, <2>1
  <2> QED
    BY <1>7, <2>2
<1>10. \A k \in Nat : k \in Good
  <2> HIDE DEF Good
  <2> QED
    BY <1>8, <1>9, NatSetInduction
<1>11. \A h \in Texts, n \in Nat : Fitting[h][n] \in Texts
  <2> SUFFICES ASSUME NEW h \in Texts, NEW n \in Nat PROVE Fitting[h][n] \in Texts
    OBVIOUS
  <2>1. Len(h) \in Nat
    BY DEF Texts
  <2> QED
    BY <1>10, <2>1
<1> QED
  BY <1>7, <1>11 DEF Texts, Fits

\* What a session keeps of its transcript leaves its lock and its queues alone.
SameLanes(s, s1) ==
  s1.in_flight = s.in_flight /\ s1.waiters = s.waiters /\ s1.waiting_rounds = s.waiting_rounds

\* What texts are made of, and made into.
LEMMA Texts ==
  /\ <<>> \in Text /\ <<System>> \in Text
  /\ \A t \in Turn : <<t>> \in Text
  /\ \A a, b \in Text : a \o b \in Text
  /\ \A a \in Text : \A m \in Nat : SubSeq(a, m + 1, Len(a)) \in Text
<1>1. ASSUME NEW a \in Text, NEW m \in Nat PROVE SubSeq(a, m + 1, Len(a)) \in Text
  <2> DEFINE S == Turn \cup {System}
  <2>1. a \in Seq(S) /\ Len(a) \in Nat
    BY DEF Text
  <2> HIDE DEF S
  <2>2. SubSeq(a, m + 1, Len(a)) \in Seq(S)
    BY <2>1
  <2> QED
    BY <2>2 DEF Text, S
<1> QED
  BY <1>1 DEF Text

\* Cutting the transcript to a budget, or adding a response to it, leaves a session
\* whose lock and queues are as they were (update_context, to_request_body).
LEMMA TranscriptType ==
  ASSUME plan \in Plan, NEW s \in LocalUserSession
  PROVE  /\ Truncated(s) \in LocalUserSession /\ SameLanes(s, Truncated(s))
         /\ \A r \in Text : Updated(s, r) \in LocalUserSession /\ SameLanes(s, Updated(s, r))
<1>1. /\ s.prompt \in Text /\ s.history \in Seq(Text) /\ s.context \in Text
      /\ s.accumulates \in BOOLEAN /\ s.in_flight \in BOOLEAN
      /\ s.waiting_rounds \in Seq(Turn) /\ s.waiters \in Seq(Turn)
  BY DEF LocalUserSession
<1>2. plan.room \in Nat /\ plan.room + 1 \in Nat
  BY DEF Plan
<1> DEFINE With(h, c) == [s EXCEPT !.history = h, !.context = c]
<1>3. ASSUME NEW h \in Seq(Text), NEW c \in Text
      PROVE  With(h, c) \in LocalUserSession /\ SameLanes(s, With(h, c))
  <2> HIDE DEF Text
  <2> QED
    BY DEF LocalUserSession, SameLanes
<1>4. ASSUME NEW h \in Seq(Text), NEW n \in Nat
      PROVE  Fitting[h][n] \in Seq(Text) /\ s.prompt \o Joined[Fitting[h][n]] \in Text
  BY <1>1, FittingText, JoinedText, Texts
<1>5. Truncated(s) \in LocalUserSession /\ SameLanes(s, Truncated(s))
  <2> DEFINE kept == Fitting[s.history][plan.room]
             c    == s.prompt \o Joined[kept]
  <2>1. kept \in Seq(Text) /\ c \in Text
    BY <1>1, <1>2, <1>4
  <2>2. Truncated(s) = IF plan.limited THEN With(kept, c) ELSE s
    BY DEF Truncated
  <2> HIDE DEF kept, c, With
  <2>3. With(kept, c) \in LocalUserSession /\ SameLanes(s, With(kept, c))
    BY <1>3, <2>1
  <2> QED
    BY <2>2, <2>3 DEF SameLanes
<1>6. ASSUME NEW r \in Text PROVE Updated(s, r) \in LocalUserSession /\ SameLanes(s, Updated(s, r))
  <2> DEFINE content == SubSeq(r, Len(s.prompt \o Joined[s.history]) + 1, Len(r))
             history == IF content = <<>> THEN s.history ELSE Append(s.history, content)
             kept    == Fitting[history][plan.room + 1]
             s1      == With(kept, s.prompt \o Joined[kept])
             s2      == [s EXCEPT !.context = r]
  <2>1. content \in Text
    <3>1. s.prompt \o Joined[s.history] \in Text
      BY <1>1, JoinedText, Texts
    <3>2. Len(s.prompt \o Joined[s.history]) \in Nat
      <4> DEFINE c == s.prompt \o Joined[s.history]
      <4> SUFFICES ASSUME c \in Text PROVE Len(c) \in Nat
        BY <3>1
      <4> HIDE DEF c
      <4> QED
        BY DEF Text
    <3> QED
      BY <3>2, Texts
  <2>2. history \in Seq(Text)
    <3> HIDE DEF content, Text
    <3> QED
      BY <1>1, <2>1
  <2>3. s1 \in LocalUserSession /\ SameLanes(s, s1)
    <3> HIDE DEF history
    <3>1. kept \in Seq(Text) /\ s.prompt \o Joined[kept] \in Text
      BY <1>2, <1>4, <2>2
    <3> HIDE DEF kept, With
    <3> QED
      BY <1>3, <3>1
  <2>4. s2 \in LocalUserSession /\ SameLanes(s, s2)
    <3> HIDE DEF Text
    <3> QED
      BY DEF LocalUserSession, SameLanes
  <2>5. Updated(s, r) = IF s.accumulates /\ plan.limited THEN s1 ELSE s2
    BY DEF Updated
  <2> HIDE DEF s1, s2
  <2> QED
    BY <2>3, <2>4, <2>5
<1> QED
  BY <1>5, <1>6

-----------------------------------------------------------------------------
(* Types *)

\* Turns are grouped into conversations by division.
LEMMA Division ==
  ASSUME NEW n \in Nat, NEW k \in Nat \ {0}
  PROVE  /\ n \div k \in Nat /\ n \div k <= n /\ 0 \div k = 0
         /\ n # 0 /\ n % k # 0 => n \div k = (n - 1) \div k
         /\ n # 0 /\ n % k = 0 => n \div k = ((n - 1) \div k) + 1
<1>1. n \div k \in Nat /\ n \div k <= n /\ 0 \div k = 0
  OBVIOUS
<1>2. ASSUME n # 0, n % k # 0 PROVE n \div k = (n - 1) \div k
  BY <1>2
<1>3. ASSUME n # 0, n % k = 0 PROVE n \div k = ((n - 1) \div k) + 1
  BY <1>3
<1> QED
  BY <1>1, <1>2, <1>3

\* The session of a turn under way is one that has been made.
LEMMA SessionOfTask ==
  ASSUME TypeOK, Lanes
  PROVE  /\ plan \in Plan
         /\ \A t \in Turn : pc[t] \in Task => /\ id[t] \in ID
                                            /\ registry[id[t]] \in 1 .. Len(sessions)
                                            /\ Registered(registry[id[t]])
         /\ \A t \in Turn : pc[t] \in Queueing \cup Holding => object[t] = registry[id[t]]
         /\ ready # <<>> => Current \in Turn /\ Tail(ready) \in Seq(Turn)
<1>1. plan \in Plan
  BY UserSessionAssumption DEF TypeOK
<1>2. ASSUME NEW t \in Turn, pc[t] \in Task
      PROVE  id[t] \in ID /\ registry[id[t]] \in 1 .. Len(sessions) /\ Registered(registry[id[t]])
  BY <1>2 DEF TypeOK, Lanes, NamedInv, Registered
<1>3. ready # <<>> => Current \in Turn /\ Tail(ready) \in Seq(Turn)
  BY DEF TypeOK, Current
<1> QED
  BY <1>1, <1>2, <1>3 DEF Lanes, NamedInv

\* The session whose lock a turn reaches or takes is that of its id.
LEMMA SessionReached ==
  ASSUME TypeOK, Lanes, NEW t \in Turn, NEW o, Reaches(t, o) \/ Takes(t, o)
  PROVE  pc[t] \in Task /\ o = registry[id[t]] /\ o \in 1 .. Len(sessions) /\ Registered(o)
<1>1. pc[t] \in {"arriving", "woken", "granted"}
  BY DEF Reaches, Takes, Arrives
<1>2. pc[t] \in Task /\ (pc[t] # "arriving" => object[t] = registry[id[t]])
  BY <1>1, SessionOfTask DEF Task, Queueing
<1> QED
  BY <1>2, SessionOfTask DEF Reaches, Takes, Arrives

\* A session nobody has used.
Fresh(s) ==
  /\ s \in LocalUserSession
  /\ ~s.in_flight /\ s.waiters = <<>> /\ s.waiting_rounds = <<>>

\* The generator loads a turn.
Load == LoadNext \/ Reprime \/ NextConversation

\* The session a conversation starts with.
Opening == New(<<System>>, <<System>>, TRUE)

\* Whichever way a turn is loaded, it gets the id of its conversation, and a new
\* session only where the id has none.
LEMMA Loading ==
  ASSUME TypeOK, Lanes, Load
  PROVE  \E i \in ID :
           /\ LoadTurn(i) /\ phase = "serve"
           /\ loaded \in Nat /\ loaded + 1 \in Turn
           /\ plan.generator = "shared_prefix" => i = 0
           /\ plan.generator = "conversation_replay" =>
                stage = 1 /\ base = 0 /\ i = loaded \div Turns /\ Len(plan.rounds) = 1
           /\ \/ UNCHANGED <<sessions, registry>> /\ registry[i] # 0
              \/ \E s : Fresh(s) /\ Register(i, s) /\ registry[i] = 0 /\ s = Opening
<1>1. /\ Turns \in Nat \ {0} /\ MaxTurns \in Nat \ {0}
      /\ plan.generator \in {"shared_prefix", "conversation_replay"}
  BY UserSessionAssumption, SessionOfTask DEF Plan
<1>2. /\ loaded \in 0 .. MaxTurns /\ base \in Nat /\ base <= loaded /\ slot \in ID
      /\ registry \in [ID -> 0 .. Len(sessions)]
  BY <1>1 DEF TypeOK
<1>3. phase = "serve" /\ loaded \in Nat /\ loaded + 1 \in Turn /\ loaded < MaxTurns
  <2>1. MayLoad
    BY DEF Load, LoadNext, Reprime, NextConversation
  <2>2. phase = "serve" /\ loaded < MaxTurns
    BY <2>1 DEF MayLoad
  <2> QED
    BY <1>1, <1>2, <2>2 DEF Turn
<1>4. ASSUME NEW p \in Text, NEW c \in Text, NEW a \in BOOLEAN PROVE Fresh(New(p, c, a))
  <2> HIDE DEF Text
  <2>1. <<>> \in Seq(Text) /\ <<>> \in Seq(Turn)
    OBVIOUS
  <2> QED
    BY <2>1 DEF Fresh, New, LocalUserSession
<1>5. CASE plan.generator = "shared_prefix"
  <2>1. slot = 0 /\ ~OpensConversation
    BY <1>5 DEF Lanes, SlotInv, OpensConversation
  <2>2. 0 \in ID
    BY <1>2, <2>1
  <2>3. CASE LoadNext
    <3>1. LoadTurn(0) /\ UNCHANGED <<sessions, registry>> /\ registry[0] # 0
      BY <2>1, <2>3 DEF LoadNext
    <3> QED
      BY <1>3, <1>5, <2>2, <3>1
  <2>4. CASE Reprime
    <3>1. LoadTurn(0) /\ Register(0, New(<<System>>, <<System>>, TRUE)) /\ registry[0] = 0
      BY <1>5, <2>1, <2>4 DEF Reprime
    <3>2. Fresh(New(<<System>>, <<System>>, TRUE))
      BY <1>4, Texts
    <3> QED
      BY <1>3, <1>5, <2>2, <3>1, <3>2 DEF Opening
  <2> QED
    BY <2>1, <2>3, <2>4 DEF Load, NextConversation
<1>6. CASE plan.generator = "conversation_replay"
  <2>1. /\ stage = 1 /\ base = 0 /\ Len(plan.rounds) = 1
        /\ slot = IF loaded = 0 THEN 0 ELSE (loaded - 1) \div Turns
        /\ \A i \in ID : registry[i] # 0 <=> i <= slot
    BY <1>3, <1>6 DEF Lanes, SlotInv
  <2>2. registry[slot] # 0
    BY <1>2, <2>1 DEF ID
  <2>3. CASE LoadNext
    <3>1. LoadTurn(slot) /\ UNCHANGED <<sessions, registry>> /\ (loaded = 0 \/ loaded % Turns # 0)
      BY <1>2, <1>3, <1>6, <2>1, <2>3 DEF LoadNext, OpensConversation
    <3>2. slot = loaded \div Turns
      BY <1>1, <1>3, <2>1, <3>1, Division
    <3> QED
      BY <1>2, <1>3, <1>6, <2>1, <2>2, <3>1, <3>2
  <2>4. CASE NextConversation
    <3> DEFINE convo == loaded \div Turns
    <3>1. loaded # 0 /\ loaded % Turns = 0 /\ loaded - base = loaded
      BY <1>2, <1>3, <2>1, <2>4 DEF NextConversation, OpensConversation
    <3>2. convo = slot + 1 /\ convo \in Nat /\ convo <= loaded
      BY <1>1, <1>3, <2>1, <3>1, Division
    <3>3. LoadTurn(convo) /\ Register(convo, New(<<System>>, <<System>>, TRUE))
      BY <2>4, <3>1 DEF NextConversation
    <3> HIDE DEF convo
    <3>4. convo \in ID /\ ~(convo <= slot)
      BY <1>1, <1>2, <1>3, <3>2 DEF ID
    <3>5. registry[convo] = 0
      BY <2>1, <3>4
    <3>6. Fresh(New(<<System>>, <<System>>, TRUE))
      BY <1>4, Texts
    <3> QED
      BY <1>3, <1>6, <2>1, <3>3, <3>4, <3>5, <3>6 DEF convo, Opening
  <2> QED
    BY <2>2, <2>3, <2>4 DEF Load, Reprime
<1> QED
  BY <1>1, <1>5, <1>6

-----------------------------------------------------------------------------
(* What the steps of a turn do to its session *)

\* Session o gets lock f, lock queue w and rounds r; the others stay.
Becomes(o, f, w, r) ==
  /\ sessions' \in Seq(LocalUserSession) /\ Len(sessions') = Len(sessions)
  /\ \A p \in 1 .. Len(sessions) : p # o => sessions'[p] = sessions[p]
  /\ sessions'[o].in_flight = f /\ sessions'[o].waiters = w /\ sessions'[o].waiting_rounds = r

\* One session is replaced.
LEMMA Editing ==
  ASSUME TypeOK, NEW o \in 1 .. Len(sessions), NEW s \in LocalUserSession,
         sessions' = [sessions EXCEPT ![o] = s]
  PROVE  Becomes(o, s.in_flight, s.waiters, s.waiting_rounds)
<1>1. sessions \in Seq(LocalUserSession)
  BY DEF TypeOK
<1> QED
  BY <1>1 DEF Becomes

\* The parts of a session.
LEMMA SessionParts ==
  ASSUME TypeOK, NEW o \in 1 .. Len(sessions)
  PROVE  LET s == sessions[o] IN
           /\ s \in LocalUserSession /\ s.in_flight \in BOOLEAN
           /\ s.waiters \in Seq(Turn) /\ s.waiting_rounds \in Seq(Turn)
           /\ s.prompt \in Text /\ s.history \in Seq(Text) /\ s.context \in Text
<1>1. sessions[o] \in LocalUserSession
  BY DEF TypeOK
<1> QED
  BY <1>1 DEF LocalUserSession

\* What Park does to the session of the turn (get_context).
LEMMA ParkEffect ==
  ASSUME TypeOK, Lanes, NEW t \in Turn, Park(t)
  PROVE  LET o == registry[id[t]] IN
           /\ o \in 1 .. Len(sessions) /\ Registered(o) /\ Arrives(t)
           /\ Becomes(o, sessions[o].in_flight, sessions[o].waiters,
                      Append(sessions[o].waiting_rounds, t))
<1> DEFINE o == registry[id[t]]
           s == sessions[o]
           s1 == [s EXCEPT !.waiting_rounds = Append(@, t)]
<1>1. Arrives(t) /\ o \in 1 .. Len(sessions) /\ Registered(o)
  BY SessionOfTask DEF Park, Arrives, Task
<1>2. s \in LocalUserSession /\ s.waiting_rounds \in Seq(Turn)
  BY <1>1, SessionParts
<1>3. sessions' = [sessions EXCEPT ![o] = s1]
  BY DEF Park
<1> HIDE DEF o, s
<1>4. s1 \in LocalUserSession /\ Append(s.waiting_rounds, t) \in Seq(Turn)
  <2>1. Append(s.waiting_rounds, t) \in Seq(Turn)
    BY <1>2
  <2> QED
    BY <1>2, <2>1 DEF LocalUserSession
<1>5. s1.in_flight = s.in_flight /\ s1.waiters = s.waiters /\ s1.waiting_rounds = Append(s.waiting_rounds, t)
  BY <1>2 DEF LocalUserSession
<1> HIDE DEF s1
<1>6. Becomes(o, s.in_flight, s.waiters, Append(s.waiting_rounds, t))
  BY <1>1, <1>3, <1>4, <1>5, Editing
<1> QED
  BY <1>1, <1>6 DEF o, s

\* What AwaitLock does to it.
LEMMA AwaitEffect ==
  ASSUME TypeOK, Lanes, NEW t \in Turn, AwaitLock(t)
  PROVE  \E o \in 1 .. Len(sessions) :
           /\ o = registry[id[t]] /\ Registered(o)
           /\ Reaches(t, o) /\ ~LockIsFree(sessions[o])
           /\ pc' = [pc EXCEPT ![t] = "locking"] /\ object' = [object EXCEPT ![t] = o]
           /\ Becomes(o, sessions[o].in_flight, Append(sessions[o].waiters, t),
                      sessions[o].waiting_rounds)
<1>1. PICK o \in 1 .. Len(sessions) :
        /\ Reaches(t, o) /\ ~LockIsFree(sessions[o])
        /\ pc' = [pc EXCEPT ![t] = "locking"] /\ object' = [object EXCEPT ![t] = o]
        /\ sessions' = [sessions EXCEPT ![o].waiters = Append(@, t)]
  BY DEF AwaitLock
<1> DEFINE s == sessions[o]
           s1 == [s EXCEPT !.waiters = Append(@, t)]
<1>2. o = registry[id[t]] /\ Registered(o)
  BY <1>1, SessionReached
<1>3. s \in LocalUserSession /\ s.waiters \in Seq(Turn)
  BY SessionParts
<1>4. sessions' = [sessions EXCEPT ![o] = s1]
  BY <1>1
<1> HIDE DEF s
<1>5. s1 \in LocalUserSession
  <2>1. Append(s.waiters, t) \in Seq(Turn)
    BY <1>3
  <2> QED
    BY <1>3, <2>1 DEF LocalUserSession
<1>6. s1.in_flight = s.in_flight /\ s1.waiters = Append(s.waiters, t) /\ s1.waiting_rounds = s.waiting_rounds
  BY <1>3 DEF LocalUserSession
<1> HIDE DEF s1
<1>7. Becomes(o, s.in_flight, Append(s.waiters, t), s.waiting_rounds)
  BY <1>4, <1>5, <1>6, Editing
<1> QED
  BY <1>1, <1>2, <1>7 DEF s

\* What Pass does to it: the body is built with the session whose lock was taken.
LEMMA PassEffect ==
  ASSUME TypeOK, Lanes, NEW t \in Turn, Pass(t)
  PROVE  \E o \in 1 .. Len(sessions) :
           /\ o = registry[id[t]] /\ Registered(o) /\ Takes(t, o)
           /\ object' = [object EXCEPT ![t] = o]
           /\ pc' = [pc EXCEPT ![t] = "sent"] \/ pc' = [pc EXCEPT ![t] = "raised"]
           /\ carried' \in [Turn -> Text] /\ sent' \in [Turn -> Text] /\ served' \in Seq(Turn)
           /\ Becomes(o, TRUE, IF pc[t] = "granted" THEN Tail(sessions[o].waiters) ELSE sessions[o].waiters,
                      sessions[o].waiting_rounds)
<1> DEFINE w(o) == IF pc[t] = "granted" THEN Tail(sessions[o].waiters) ELSE sessions[o].waiters
           s1(o) == [sessions[o] EXCEPT !.in_flight = TRUE, !.waiters = w(o)]
           taken(o) == [sessions EXCEPT ![o].in_flight = TRUE,
                                        ![o].waiters = IF pc[t] = "granted" THEN Tail(@) ELSE @]
           r == registry[id[t]]
           body(o) == Truncated(taken(o)[r])
           prompt(o) == (IF plan.limited THEN body(o).prompt \o Joined[body(o).history]
                                        ELSE carried'[t]) \o <<t>>
<1>1. PICK o \in 1 .. Len(sessions) :
        /\ Takes(t, o)
        /\ object' = [object EXCEPT ![t] = o]
        /\ carried' = [carried EXCEPT ![t] = sessions[o].context]
        /\ \/ /\ pc' = [pc EXCEPT ![t] = "sent"]
              /\ sessions' = [taken(o) EXCEPT ![r] = body(o)]
              /\ sent' = [sent EXCEPT ![t] = prompt(o)]
              /\ served' = Append(served, t)
           \/ /\ pc' = [pc EXCEPT ![t] = "raised"]
              /\ sessions' = taken(o)
              /\ UNCHANGED <<sent, served>>
  BY Zenon DEF Pass
<1> HIDE DEF w, s1, taken, body, prompt, r
<1>2. o = r /\ Registered(o) /\ pc[t] \in Task
  BY <1>1, SessionReached DEF r
<1>3. /\ sessions[o] \in LocalUserSession /\ sessions[o].waiters \in Seq(Turn)
      /\ sessions[o].context \in Text
  BY SessionParts
<1>4. w(o) \in Seq(Turn)
  <2>1. pc[t] = "granted" => sessions[o].waiters # <<>>
    <3> SUFFICES ASSUME pc[t] = "granted" PROVE sessions[o].waiters # <<>>
      OBVIOUS
    <3>1. object[t] = o
      BY <1>2, SessionOfTask DEF Queueing, r
    <3> QED
      BY <1>2, <3>1 DEF Lanes, LockInv, LockOf, First
  <2> QED
    BY <1>3, <2>1 DEF w
<1>5. taken(o) = [sessions EXCEPT ![o] = s1(o)]
  BY <1>3 DEF TypeOK, LocalUserSession, taken, s1, w
<1>6. s1(o) \in LocalUserSession
  BY <1>3, <1>4 DEF LocalUserSession, s1
<1>7. s1(o).in_flight = TRUE /\ s1(o).waiters = w(o) /\ s1(o).waiting_rounds = sessions[o].waiting_rounds
  BY <1>3 DEF LocalUserSession, s1
<1>8. taken(o)[r] = s1(o)
  BY <1>2, <1>5 DEF TypeOK
<1>9. body(o) \in LocalUserSession /\ SameLanes(s1(o), body(o))
  BY <1>6, <1>8, SessionOfTask, TranscriptType DEF body
<1>10. Becomes(o, TRUE, w(o), sessions[o].waiting_rounds)
  <2>1. CASE sessions' = taken(o)
    <3>1. sessions' = [sessions EXCEPT ![o] = s1(o)]
      BY <1>5, <2>1
    <3> QED
      BY <1>6, <1>7, <3>1, Editing
  <2>2. CASE sessions' = [taken(o) EXCEPT ![r] = body(o)]
    <3>1. sessions' = [sessions EXCEPT ![o] = body(o)]
      BY <1>2, <1>5, <2>2 DEF TypeOK
    <3>2. /\ body(o).in_flight = TRUE /\ body(o).waiters = w(o)
          /\ body(o).waiting_rounds = sessions[o].waiting_rounds
      BY <1>7, <1>9 DEF SameLanes
    <3> QED
      BY <1>9, <3>1, <3>2, Editing
  <2> QED
    BY <1>1, <2>1, <2>2
<1>11. carried' \in [Turn -> Text]
  <2>1. carried \in [Turn -> Text]
    BY DEF TypeOK
  <2> HIDE DEF Text
  <2> QED
    BY <1>1, <1>3, <2>1
<1>12. sent' \in [Turn -> Text] /\ served' \in Seq(Turn)
  <2>1. prompt(o) \in Text
    <3>1. body(o).prompt \in Text /\ body(o).history \in Seq(Text)
      BY <1>9 DEF LocalUserSession
    <3>2. carried'[t] \in Text
      BY <1>11
    <3> QED
      BY <3>1, <3>2, JoinedText, Texts DEF prompt
  <2>2. sent \in [Turn -> Text] /\ served \in Seq(Turn)
    BY DEF TypeOK
  <2>3. \/ sent' = [sent EXCEPT ![t] = prompt(o)] /\ served' = Append(served, t)
        \/ sent' = sent /\ served' = served
    BY <1>1
  <2> HIDE DEF Text
  <2>4. sent' \in [Turn -> Text]
    BY <2>1, <2>2, <2>3
  <2>5. served' \in Seq(Turn)
    BY <2>2, <2>3
  <2> QED
    BY <2>4, <2>5
<1> QED
  <2>1. pc' = [pc EXCEPT ![t] = "sent"] \/ pc' = [pc EXCEPT ![t] = "raised"]
    BY <1>1
  <2>2. Becomes(o, TRUE, w(o), sessions[o].waiting_rounds) /\ o = registry[id[t]]
    BY <1>2, <1>10, Zenon DEF r
  <2> QED
    BY <1>1, <1>2, <1>11, <1>12, <2>1, <2>2 DEF w

\* What is left of queue q without its head.
Left(q) == IF q = <<>> THEN <<>> ELSE Tail(q)

\* The head of a queue and what is left behind it.
LEMMA Firsts ==
  ASSUME NEW q \in Seq(Turn)
  PROVE  /\ FirstOf(q) \in Seq(Turn) /\ Left(q) \in Seq(Turn)
         /\ SubSeq(q, Len(FirstOf(q)) + 1, Len(q)) = Left(q)
         /\ \A u \in Turn : u \in ToSet(FirstOf(q)) <=> First(q, u)
         /\ \A k \in 1 .. Len(Left(q)) : Left(q)[k] = q[k + 1] /\ k + 1 \in 1 .. Len(q)
         /\ q # <<>> => Head(q) = q[1] /\ 1 \in 1 .. Len(q)
<1>1. CASE q = <<>>
  BY <1>1 DEF FirstOf, Left, First, ToSet
<1>2. CASE q # <<>>
  <2>1. Head(q) \in Turn /\ Tail(q) \in Seq(Turn) /\ Len(q) \in Nat \ {0} /\ Head(q) = q[1]
    BY <1>2
  <2>2. FirstOf(q) = <<Head(q)>> /\ Left(q) = Tail(q) /\ Len(FirstOf(q)) = 1
    BY <1>2 DEF FirstOf, Left
  <2>3. SubSeq(q, 2, Len(q)) = Tail(q)
    BY <1>2
  <2>4. ToSet(<<Head(q)>>) = {Head(q)}
    BY DEF ToSet
  <2>5. \A k \in 1 .. Len(Tail(q)) : Tail(q)[k] = q[k + 1] /\ k + 1 \in 1 .. Len(q)
    BY <1>2
  <2> QED
    BY <1>2, <2>1, <2>2, <2>3, <2>4, <2>5 DEF First
<1> QED
  BY <1>1, <1>2

\* Releasing the lock of s wakes turn u.
Grants(s, u) == s.in_flight /\ First(s.waiters, u) /\ pc[u] = "locking"

\* A sequence behind another.
LEMMA Concatenation ==
  ASSUME NEW S, NEW p \in Seq(S), NEW q \in Seq(S)
  PROVE  /\ p \o q \in Seq(S)
         /\ \A k \in 1 .. Len(p) : k \in 1 .. Len(p \o q) /\ (p \o q)[k] = p[k]
         /\ \A k \in 1 .. Len(p \o q) :
              k \notin 1 .. Len(p) => \E j \in 1 .. Len(q) : (p \o q)[k] = q[j]
<1>1. /\ Len(p) \in Nat /\ Len(q) \in Nat /\ p \o q \in Seq(S) /\ Len(p \o q) = Len(p) + Len(q)
      /\ \A k \in 1 .. Len(p) + Len(q) : (p \o q)[k] = IF k <= Len(p) THEN p[k] ELSE q[k - Len(p)]
  OBVIOUS
<1>2. \A k \in 1 .. Len(p) : k \in 1 .. Len(p \o q) /\ (p \o q)[k] = p[k]
  BY <1>1
<1>3. ASSUME NEW k \in 1 .. Len(p \o q), k \notin 1 .. Len(p)
      PROVE  \E j \in 1 .. Len(q) : (p \o q)[k] = q[j]
  <2>1. k - Len(p) \in 1 .. Len(q) /\ (p \o q)[k] = q[k - Len(p)]
    BY <1>1, <1>3
  <2> QED
    BY <2>1
<1> QED
  BY <1>1, <1>2, <1>3

\* The loop's queue loses its first task; those it gains are not turns to come.
Advances ==
  /\ ready' \in Seq(Turn)
  /\ \A k \in 1 .. Len(ready) - 1 : k \in 1 .. Len(ready') /\ ready'[k] = ready[k + 1]
  /\ \A k \in 1 .. Len(ready') :
       k \in 1 .. Len(ready) - 1 \/ pc'[ready'[k]] \notin {"unloaded", "scheduled", "arriving"}

\* What End does to the session and to its queues (update_context).
LEMMA EndEffect ==
  ASSUME TypeOK, Lanes, ready # <<>>, NEW t \in Turn, End(t)
  PROVE  LET o == registry[id[t]]
             s == sessions[o]
         IN /\ o \in 1 .. Len(sessions) /\ Registered(o) /\ object[t] = o
            /\ pc[t] \in {"answered", "failing"}
            /\ pc' = [u \in Turn |-> IF u = t THEN IF pc[t] = "answered" THEN "done" ELSE "failed"
                                      ELSE IF First(s.waiting_rounds, u) THEN "woken"
                                      ELSE IF Grants(s, u) THEN "granted"
                                      ELSE pc[u]]
            /\ Advances
            /\ Becomes(o, FALSE, s.waiters, Left(s.waiting_rounds))
<1> DEFINE o == registry[id[t]]
           s == sessions[o]
           s0 == Updated(s, Response(t))
           woken == FirstOf(s.waiting_rounds)
           granted == Granted(s)
           next(u) == IF u = t THEN IF pc[t] = "answered" THEN "done" ELSE "failed"
                      ELSE IF First(s.waiting_rounds, u) THEN "woken"
                      ELSE IF Grants(s, u) THEN "granted"
                      ELSE pc[u]
<1>1. pc[t] \in {"answered", "failing"}
  BY DEF End
<1>2. o \in 1 .. Len(sessions) /\ Registered(o) /\ object[t] = o /\ plan \in Plan
  BY <1>1, SessionOfTask DEF Task, Holding
<1>3. s \in LocalUserSession /\ s.waiters \in Seq(Turn) /\ s.waiting_rounds \in Seq(Turn)
  BY <1>2, SessionParts
<1>4. Response(t) \in Text
  BY DEF Response, TypeOK
<1> HIDE DEF o, s
<1>5. s0 \in LocalUserSession /\ SameLanes(s, s0)
  BY <1>2, <1>3, <1>4, TranscriptType
<1>6. Woken(s0) = woken /\ Granted(s0) = granted
  BY <1>5 DEF SameLanes, Woken, Granted
<1>7. /\ sessions' = [sessions EXCEPT ![o] =
           [s0 EXCEPT !.in_flight = FALSE, !.waiting_rounds = SubSeq(@, Len(woken) + 1, Len(@))]]
      /\ pc' = [u \in Turn |-> CASE u = t -> IF pc[t] = "answered" THEN "done" ELSE "failed"
                                 [] u \in ToSet(woken) -> "woken"
                                 [] u \in ToSet(granted) -> "granted"
                                 [] OTHER -> pc[u]]
      /\ ready' = Tail(ready) \o woken \o granted
  <2>1. /\ sessions' = [sessions EXCEPT ![o] =
             [s0 EXCEPT !.in_flight = FALSE,
                        !.waiting_rounds = SubSeq(@, Len(Woken(s0)) + 1, Len(@))]]
        /\ pc' = [u \in Turn |-> CASE u = t -> IF pc[t] = "answered" THEN "done" ELSE "failed"
                                   [] u \in ToSet(Woken(s0)) -> "woken"
                                   [] u \in ToSet(Granted(s0)) -> "granted"
                                   [] OTHER -> pc[u]]
        /\ ready' = Tail(ready) \o Woken(s0) \o Granted(s0)
    BY Zenon DEF End, o, s
  <2> HIDE DEF s0, woken, granted
  <2> QED
    BY <1>6, <2>1
<1> HIDE DEF s0
<1>8. /\ woken \in Seq(Turn) /\ \A u \in Turn : u \in ToSet(woken) <=> First(s.waiting_rounds, u)
      /\ SubSeq(s.waiting_rounds, Len(woken) + 1, Len(s.waiting_rounds)) = Left(s.waiting_rounds)
      /\ Left(s.waiting_rounds) \in Seq(Turn)
  BY <1>3, Firsts
<1>9. granted \in Seq(Turn) /\ \A u \in Turn : u \in ToSet(granted) <=> Grants(s, u)
  <2>1. CASE s.in_flight /\ s.waiters # <<>> /\ pc[Head(s.waiters)] = "locking"
    <3>1. granted = FirstOf(s.waiters)
      BY <2>1 DEF Granted
    <3> QED
      BY <1>3, <2>1, <3>1, Firsts DEF Grants, First
  <2>2. CASE ~(s.in_flight /\ s.waiters # <<>> /\ pc[Head(s.waiters)] = "locking")
    <3>1. granted = <<>>
      BY <2>2 DEF Granted
    <3>2. ToSet(granted) = {}
      BY <3>1 DEF ToSet
    <3>3. \A u \in Turn : ~Grants(s, u)
      BY <2>2 DEF Grants, First
    <3> QED
      BY <3>1, <3>2, <3>3
  <2> QED
    BY <2>1, <2>2
<1> HIDE DEF woken, granted
<1>10. pc' = [u \in Turn |-> next(u)]
  <2>1. ASSUME NEW u \in Turn
        PROVE  (CASE u = t -> IF pc[t] = "answered" THEN "done" ELSE "failed"
                  [] u \in ToSet(woken) -> "woken"
                  [] u \in ToSet(granted) -> "granted"
                  [] OTHER -> pc[u]) = next(u)
    <3>1. u # t \/ (u \notin ToSet(woken) /\ u \notin ToSet(granted))
      <4> SUFFICES ASSUME u = t PROVE ~First(s.waiting_rounds, t) /\ ~Grants(s, t)
        BY <1>8, <1>9
      <4>1. First(s.waiting_rounds, t) => pc[t] = "parked"
        BY <1>2, <1>3, Firsts DEF First, Lanes, RoundsInv, RoundsOf, s
      <4> QED
        BY <1>1, <4>1 DEF Grants
    <3>2. ~(u \in ToSet(woken) /\ u \in ToSet(granted))
      <4> SUFFICES ASSUME First(s.waiting_rounds, u), Grants(s, u) PROVE FALSE
        BY <1>8, <1>9
      <4>1. First(s.waiting_rounds, u) => pc[u] = "parked"
        BY <1>2, <1>3, Firsts DEF First, Lanes, RoundsInv, RoundsOf, s
      <4> QED
        BY <4>1 DEF Grants
    <3> QED
      BY <1>8, <1>9, <3>1, <3>2
  <2> HIDE DEF next
  <2> QED
    BY <1>7, <2>1
<1>11. Becomes(o, FALSE, s.waiters, Left(s.waiting_rounds))
  <2> DEFINE s1 == [s0 EXCEPT !.in_flight = FALSE,
                              !.waiting_rounds = SubSeq(@, Len(woken) + 1, Len(@))]
  <2>1. s0.waiting_rounds = s.waiting_rounds /\ s0.waiters = s.waiters
    BY <1>5 DEF SameLanes
  <2>2. s1 = [s0 EXCEPT !.in_flight = FALSE, !.waiting_rounds = Left(s.waiting_rounds)]
    BY <1>5, <1>8, <2>1 DEF LocalUserSession
  <2>3. s1 \in LocalUserSession
    BY <1>5, <1>8, <2>2 DEF LocalUserSession
  <2>4. s1.in_flight = FALSE /\ s1.waiters = s.waiters /\ s1.waiting_rounds = Left(s.waiting_rounds)
    BY <1>5, <2>1, <2>2 DEF LocalUserSession
  <2>5. sessions' = [sessions EXCEPT ![o] = s1]
    BY <1>7
  <2> HIDE DEF s1
  <2> QED
    BY <1>2, <2>3, <2>4, <2>5, Editing
<1>12. Advances
  <2> DEFINE rest == Tail(ready)
             gained == rest \o woken
  <2>1. /\ rest \in Seq(Turn) /\ Len(rest) = Len(ready) - 1 /\ Len(ready) \in Nat \ {0}
        /\ \A k \in 1 .. Len(rest) : rest[k] = ready[k + 1]
    BY DEF TypeOK
  <2> HIDE DEF rest
  <2>2. /\ gained \in Seq(Turn)
        /\ \A k \in 1 .. Len(rest) : k \in 1 .. Len(gained) /\ gained[k] = rest[k]
        /\ \A k \in 1 .. Len(gained) : k \notin 1 .. Len(rest) => gained[k] \in ToSet(woken)
    <3>1. \A k \in 1 .. Len(woken) : woken[k] \in ToSet(woken)
      BY DEF ToSet
    <3> QED
      BY <1>8, <2>1, <3>1, Concatenation
  <2> HIDE DEF gained
  <2>3. /\ ready' \in Seq(Turn)
        /\ \A k \in 1 .. Len(gained) : k \in 1 .. Len(ready') /\ ready'[k] = gained[k]
        /\ \A k \in 1 .. Len(ready') : k \notin 1 .. Len(gained) => ready'[k] \in ToSet(granted)
    <3>1. ready' = gained \o granted
      BY <1>7 DEF gained, rest
    <3>2. \A k \in 1 .. Len(granted) : granted[k] \in ToSet(granted)
      BY DEF ToSet
    <3> QED
      BY <1>9, <2>2, <3>1, <3>2, Concatenation
  <2>4. ASSUME NEW u \in Turn, u \in ToSet(woken) \cup ToSet(granted)
        PROVE  pc'[u] \notin {"unloaded", "scheduled", "arriving"}
    BY <1>8, <1>9, <1>10, <2>4
  <2>5. \A k \in 1 .. Len(ready') : k \notin 1 .. Len(rest) => ready'[k] \in ToSet(woken) \cup ToSet(granted)
    BY <2>2, <2>3
  <2>6. \A k \in 1 .. Len(ready') : ready'[k] \in Turn
    BY <2>3
  <2>7. \A k \in 1 .. Len(rest) : k \in 1 .. Len(ready') /\ ready'[k] = ready[k + 1]
    BY <2>1, <2>2, <2>3
  <2> QED
    BY <2>1, <2>3, <2>4, <2>5, <2>6, <2>7 DEF Advances
<1> QED
  BY <1>1, <1>2, <1>10, <1>11, <1>12, Zenon DEF o, s

\* A task that does not run again leaves the queue.
LEMMA Leaving ==
  ASSUME TypeOK, ready # <<>>, ready' = Tail(ready)
  PROVE  Advances
BY DEF TypeOK, Advances

-----------------------------------------------------------------------------
(* The invariant *)

\* Before the first turn is loaded.
LEMMA InitOK == ASSUME DistinctIds, Init PROVE TypeOK /\ Lanes
<1>1. /\ plan \in Plans /\ plan \in Plan /\ MaxTurns \in Nat \ {0} /\ Len(plan.rounds) \in Nat
      /\ plan.generator \in {"shared_prefix", "conversation_replay"}
  BY UserSessionAssumption DEF Init, Plan
<1> DEFINE first == New(<<System>>, <<System>>, TRUE)
<1>2. Fresh(first)
  <2>1. <<>> \in Seq(Text) /\ <<>> \in Seq(Turn)
    OBVIOUS
  <2>2. <<System>> \in Text
    BY Texts
  <2> HIDE DEF Text
  <2> QED
    BY <2>1, <2>2 DEF Fresh, New, LocalUserSession
<1> HIDE DEF first
<1>3. sessions = <<first>> /\ Len(sessions) = 1 /\ sessions[1] = first
  BY DEF Init, first
<1>4. TypeOK
  <2>1. 0 \in Turn \cup {System} /\ <<>> \in Text
    BY Texts DEF System
  <2>2. stage \in 1 .. Len(plan.rounds)
    <3>1. plan.rounds # <<>> /\ plan.rounds \in Seq(Nat \ {0})
      BY <1>1 DEF Plan
    <3> QED
      BY <3>1 DEF Init
  <2>3. sessions \in Seq(LocalUserSession)
    BY <1>2, <1>3 DEF Fresh
  <2>4. carried \in [Turn -> Text] /\ sent \in [Turn -> Text]
    <3> HIDE DEF Text
    <3> QED
      BY <2>1 DEF Init
  <2>5. slot \in ID /\ base \in 0 .. loaded /\ loaded \in 0 .. MaxTurns
    BY <1>1 DEF Init, ID
  <2>6. registry \in [ID -> 0 .. Len(sessions)] /\ object \in [Turn -> 0 .. Len(sessions)]
    BY <1>3 DEF Init
  <2>7. pc \in [Turn -> {"unloaded"} \cup Task \cup Ended] /\ id \in [Turn -> ID]
    BY <1>1 DEF Init, ID
  <2>8. ready \in Seq(Turn) /\ served \in Seq(Turn) /\ conversation \in [Turn -> Nat \X Nat]
    BY DEF Init
  <2>9. plan \in Plans /\ phase \in {"serve", "drain", "done"}
    BY <1>1 DEF Init
  <2> QED
    BY <2>2, <2>3, <2>4, <2>5, <2>6, <2>7, <2>8, <2>9 DEF TypeOK
<1>5. LoadedInv /\ NamedInv /\ DueInv /\ WokenInv
  BY <1>1 DEF Init, LoadedInv, NamedInv, DueInv, WokenInv, Turn, ID, Task, Queueing, Holding
<1>6. SlotInv
  BY <1>1 DEF Init, SlotInv, DistinctIds, Turn, ID
<1>7. LockInv /\ RoundsInv
  <2>1. /\ sessions[1].waiters = <<>> /\ sessions[1].waiting_rounds = <<>>
        /\ \A t \in Turn : pc[t] = "unloaded"
    BY <1>2, <1>3 DEF Fresh, Init
  <2> QED
    BY <1>3, <2>1 DEF LockInv, RoundsInv, LockOf, RoundsOf
<1>8. OwnerInv
  <2>1. ~sessions[1].in_flight /\ Owners(1) = {}
    BY <1>2, <1>3 DEF Fresh, Init, Owners, Holding
  <2> QED
    BY <1>3, <2>1 DEF OwnerInv, OwnerOf
<1> QED
  BY <1>4, <1>5, <1>6, <1>7, <1>8 DEF Lanes

\* Every step keeps the types: Pass and End only ever edit a session that is there.
LEMMA TypeStep == ASSUME TypeOK, Lanes, [Next]_vars PROVE TypeOK'
<1> DEFINE States == {"unloaded"} \cup Task \cup Ended
<1>1. /\ plan \in Plans /\ phase \in {"serve", "drain", "done"}
      /\ stage \in 1 .. Len(plan.rounds) /\ base \in 0 .. loaded /\ loaded \in 0 .. MaxTurns
      /\ slot \in ID /\ sessions \in Seq(LocalUserSession) /\ registry \in [ID -> 0 .. Len(sessions)]
      /\ pc \in [Turn -> States] /\ id \in [Turn -> ID] /\ object \in [Turn -> 0 .. Len(sessions)]
      /\ carried \in [Turn -> Text] /\ sent \in [Turn -> Text]
      /\ ready \in Seq(Turn) /\ served \in Seq(Turn) /\ conversation \in [Turn -> Nat \X Nat]
  BY DEF TypeOK
<1>2. MaxTurns \in Nat \ {0} /\ Turns \in Nat \ {0} /\ Len(plan.rounds) \in Nat
  BY UserSessionAssumption, SessionOfTask DEF Plan
<1>3. \A p \in {"scheduled", "arriving", "parked", "locking", "sent", "answered", "failing", "dropped",
              "cancelled", "raised", "woken", "granted", "done", "failed"} : p \in States
  BY DEF Task, Ended, Queueing, Holding
<1> HIDE DEF States
<1> USE DEF loadVars, turnVars
<1>4. CASE Load
  <2>1. PICK i \in ID :
          /\ LoadTurn(i) /\ loaded \in Nat /\ loaded + 1 \in Turn
          /\ \/ UNCHANGED <<sessions, registry>>
             \/ \E s : Fresh(s) /\ Register(i, s)
    BY <1>4, Loading
  <2>2. loaded' \in 0 .. MaxTurns /\ base' \in 0 .. loaded' /\ slot' \in ID
    BY <1>1, <1>2, <2>1 DEF LoadTurn, Turn
  <2>3. pc' \in [Turn -> States] /\ id' \in [Turn -> ID]
    BY <1>1, <1>3, <2>1 DEF LoadTurn
  <2>4. conversation' \in [Turn -> Nat \X Nat]
    <3> DEFINE n == loaded - base
               c == IF plan.generator = "shared_prefix" THEN 0 ELSE n \div Turns
    <3>1. n \in Nat
      BY <1>1
    <3>2. n \div Turns \in Nat
      <4> HIDE DEF n
      <4> QED
        BY <1>2, <3>1, Division
    <3>3. conversation' = [conversation EXCEPT ![loaded + 1] = <<stage, c>>]
      BY <2>1 DEF LoadTurn
    <3>4. c \in Nat /\ stage \in Nat
      BY <1>1, <1>2, <3>2
    <3> HIDE DEF c
    <3> QED
      BY <1>1, <3>3, <3>4
  <2>5. /\ sessions' \in Seq(LocalUserSession) /\ registry' \in [ID -> 0 .. Len(sessions')]
        /\ object' \in [Turn -> 0 .. Len(sessions')]
    <3>1. CASE UNCHANGED <<sessions, registry>>
      BY <1>1, <2>1, <3>1 DEF LoadTurn
    <3>2. ASSUME NEW s, Fresh(s), Register(i, s)
          PROVE  /\ sessions' \in Seq(LocalUserSession) /\ registry' \in [ID -> 0 .. Len(sessions')]
                 /\ object' \in [Turn -> 0 .. Len(sessions')]
      <4>1. s \in LocalUserSession /\ sessions' = Append(sessions, s) /\ object' = object
        BY <2>1, <3>2 DEF Fresh, Register, LoadTurn
      <4>2. /\ sessions' \in Seq(LocalUserSession) /\ Len(sessions) \in Nat
            /\ Len(sessions') = Len(sessions) + 1
        BY <1>1, <4>1
      <4>3. registry' = [registry EXCEPT ![i] = Len(sessions) + 1]
        BY <3>2 DEF Register
      <4> QED
        BY <1>1, <4>1, <4>2, <4>3
    <3> QED
      BY <2>1, <3>1, <3>2
  <2> QED
    BY <1>1, <2>1, <2>2, <2>3, <2>4, <2>5 DEF LoadTurn, TypeOK, States
<1>5. ASSUME NEW t \in Turn, Due(t) PROVE TypeOK'
  <2>1. pc' \in [Turn -> States] /\ ready' \in Seq(Turn)
    BY <1>1, <1>3, <1>5 DEF Due
  <2> QED
    BY <1>1, <1>5, <2>1 DEF Due, TypeOK, States
<1>6. ASSUME NEW t \in Turn, Answer(t) PROVE TypeOK'
  <2>1. /\ pc' = [pc EXCEPT ![t] = "answered"] \/ pc' = [pc EXCEPT ![t] = "failing"]
        /\ ready' = Append(ready, t)
    BY <1>6, Zenon DEF Answer
  <2>2. pc' \in [Turn -> States]
    BY <1>1, <1>3, <2>1
  <2>3. ready' \in Seq(Turn)
    BY <1>1, <2>1
  <2> QED
    BY <1>1, <1>6, <2>2, <2>3 DEF Answer, TypeOK, States
<1>7. CASE Drain
  <2>1. pc' \in [Turn -> States]
    BY <1>1, <1>3, <1>7 DEF Drain
  <2> QED
    BY <1>1, <1>7, <2>1 DEF Drain, TypeOK, States
<1>8. CASE EndStage
  <2>1. pc' \in [Turn -> States] /\ ready' \in Seq(Turn)
    BY <1>1, <1>3, <1>8 DEF EndStage
  <2>2. registry' \in [ID -> 0 .. Len(sessions)]
    BY <1>1, <1>8 DEF EndStage, ClearInstances
  <2>3. stage' \in 1 .. Len(plan.rounds) /\ phase' \in {"serve", "drain", "done"}
    BY <1>1, <1>2, <1>8 DEF EndStage
  <2>4. base' \in 0 .. loaded
    BY <1>1, <1>2, <1>8 DEF EndStage
  <2> QED
    BY <1>1, <1>8, <2>1, <2>2, <2>3, <2>4 DEF EndStage, TypeOK, States
<1>9. CASE Step
  <2> DEFINE t == Current
  <2>1. t \in Turn /\ Tail(ready) \in Seq(Turn) /\ ready # <<>>
    BY <1>9, SessionOfTask DEF Step
  <2> HIDE DEF t
  <2>2. CASE Drop(t)
    <3>1. pc' \in [Turn -> States] /\ ready' \in Seq(Turn)
      BY <1>1, <1>3, <2>1, <2>2 DEF Drop
    <3> QED
      BY <1>1, <2>2, <3>1 DEF Drop, TypeOK, States
  <2>3. ASSUME NEW o \in 1 .. Len(sessions), NEW f, NEW w, NEW r, Becomes(o, f, w, r),
               object' = [object EXCEPT ![t] = o]
        PROVE  /\ sessions' \in Seq(LocalUserSession) /\ registry \in [ID -> 0 .. Len(sessions')]
               /\ object' \in [Turn -> 0 .. Len(sessions')]
    <3>1. sessions' \in Seq(LocalUserSession) /\ Len(sessions') = Len(sessions)
      BY <2>3 DEF Becomes
    <3>2. object' \in [Turn -> 0 .. Len(sessions)]
      <4>1. object \in [Turn -> 0 .. Len(sessions)] /\ o \in 0 .. Len(sessions)
        BY <1>1
      <4> QED
        BY <2>1, <2>3, <4>1
    <3> QED
      BY <1>1, <3>1, <3>2
  <2>4. CASE Park(t)
    <3>1. pc' \in [Turn -> States] /\ ready' \in Seq(Turn)
      BY <1>1, <1>3, <2>1, <2>4 DEF Park
    <3>2. object' = [object EXCEPT ![t] = registry[id[t]]]
      BY <2>4 DEF Park
    <3>3. /\ sessions' \in Seq(LocalUserSession) /\ registry \in [ID -> 0 .. Len(sessions')]
          /\ object' \in [Turn -> 0 .. Len(sessions')]
      BY <2>1, <2>3, <2>4, <3>2, ParkEffect
    <3> QED
      BY <1>1, <2>4, <3>1, <3>3 DEF Park, TypeOK, States
  <2>5. CASE AwaitLock(t)
    <3>1. ready' = Tail(ready) /\ UNCHANGED <<loadVars, id, carried, sent, conversation, served>>
      BY <2>5 DEF AwaitLock
    <3>2. PICK o \in 1 .. Len(sessions) :
            /\ pc' = [pc EXCEPT ![t] = "locking"] /\ object' = [object EXCEPT ![t] = o]
            /\ Becomes(o, sessions[o].in_flight, Append(sessions[o].waiters, t),
                       sessions[o].waiting_rounds)
      BY <2>1, <2>5, AwaitEffect
    <3>3. pc' \in [Turn -> States]
      BY <1>1, <1>3, <3>2
    <3>4. /\ sessions' \in Seq(LocalUserSession) /\ registry \in [ID -> 0 .. Len(sessions')]
          /\ object' \in [Turn -> 0 .. Len(sessions')]
      BY <2>3, <3>2
    <3> QED
      BY <1>1, <2>1, <3>1, <3>3, <3>4 DEF TypeOK, States
  <2>6. CASE Pass(t)
    <3>1. ready' = Tail(ready) /\ UNCHANGED <<loadVars, id, conversation>>
      BY <2>6, Zenon DEF Pass
    <3>2. PICK o \in 1 .. Len(sessions) :
            /\ object' = [object EXCEPT ![t] = o]
            /\ pc' = [pc EXCEPT ![t] = "sent"] \/ pc' = [pc EXCEPT ![t] = "raised"]
            /\ carried' \in [Turn -> Text] /\ sent' \in [Turn -> Text] /\ served' \in Seq(Turn)
            /\ \E f, w, r : Becomes(o, f, w, r)
      BY <2>1, <2>6, PassEffect, Zenon
    <3>3. pc' \in [Turn -> States]
      BY <1>1, <1>3, <3>2
    <3>4. /\ sessions' \in Seq(LocalUserSession) /\ registry \in [ID -> 0 .. Len(sessions')]
          /\ object' \in [Turn -> 0 .. Len(sessions')]
      BY <2>3, <3>2
    <3> QED
      BY <1>1, <2>1, <3>1, <3>2, <3>3, <3>4 DEF TypeOK, States
  <2>7. CASE End(t)
    <3>1. UNCHANGED <<loadVars, turnVars>>
      BY <2>7 DEF End
    <3> DEFINE o == registry[id[t]]
    <3>2. /\ o \in 1 .. Len(sessions) /\ Advances
          /\ Becomes(o, FALSE, sessions[o].waiters, Left(sessions[o].waiting_rounds))
          /\ pc' = [u \in Turn |-> IF u = t THEN IF pc[t] = "answered" THEN "done" ELSE "failed"
                                    ELSE IF First(sessions[o].waiting_rounds, u) THEN "woken"
                                    ELSE IF Grants(sessions[o], u) THEN "granted"
                                    ELSE pc[u]]
      BY <2>1, <2>7, EndEffect, Zenon
    <3>3. pc' \in [Turn -> States]
      <4> HIDE DEF o
      <4> QED
        BY <1>1, <1>3, <3>2
    <3>4. sessions' \in Seq(LocalUserSession) /\ Len(sessions') = Len(sessions)
      BY <3>2 DEF Becomes
    <3> HIDE DEF o
    <3>5. ready' \in Seq(Turn)
      BY <3>2 DEF Advances
    <3> QED
      BY <1>1, <3>1, <3>3, <3>4, <3>5 DEF TypeOK, States
  <2> QED
    BY <1>9, <2>2, <2>4, <2>5, <2>6, <2>7 DEF Step, t
<1>10. CASE UNCHANGED vars
  BY <1>1, <1>10 DEF vars, TypeOK, States
<1> QED
  BY <1>4, <1>5, <1>6, <1>7, <1>8, <1>9, <1>10 DEF Next, Load, Done

\* How a turn may move while turns run.
Moves == {<<"scheduled", "arriving">>, <<"arriving", "dropped">>,
          <<"arriving", "parked">>, <<"parked", "woken">>, <<"arriving", "locking">>,
          <<"woken", "locking">>, <<"locking", "granted">>, <<"arriving", "sent">>,
          <<"woken", "sent">>, <<"granted", "sent">>, <<"arriving", "raised">>,
          <<"woken", "raised">>, <<"granted", "raised">>, <<"sent", "answered">>,
          <<"sent", "failing">>, <<"answered", "done">>, <<"failing", "failed">>}

\* A timer, an answer, or what a task does between two awaits.
Inner == (\E t \in Turn : Due(t) \/ Answer(t)) \/ Step

\* While they run, turns only move from one place to another as listed.
LEMMA TurnsMove ==
  ASSUME TypeOK, Lanes, Inner
  PROVE  /\ \A t \in Turn : pc'[t] # pc[t] => <<pc[t], pc'[t]>> \in Moves
         /\ UNCHANGED <<loadVars, id, conversation>>
         /\ phase # "done"
<1>1. pc \in [Turn -> {"unloaded"} \cup Task \cup Ended] /\ ready \in Seq(Turn)
  BY DEF TypeOK
<1>2. ASSUME NEW t \in Turn, pc[t] \in Task PROVE phase # "done"
  BY <1>2 DEF Lanes, LoadedInv
<1>3. ASSUME NEW t \in Turn, NEW p, <<pc[t], p>> \in Moves, pc' = [pc EXCEPT ![t] = p]
      PROVE  /\ \A u \in Turn : pc'[u] # pc[u] => <<pc[u], pc'[u]>> \in Moves
             /\ phase # "done"
  <2>1. pc[t] \in Task
    BY <1>3 DEF Moves, Task, Queueing, Holding
  <2>2. \A u \in Turn : pc'[u] = IF u = t THEN p ELSE pc[u]
    BY <1>1, <1>3
  <2> QED
    BY <1>2, <1>3, <2>1, <2>2
<1>4. ASSUME NEW t \in Turn, Due(t)
      PROVE  <<pc[t], "arriving">> \in Moves /\ pc' = [pc EXCEPT ![t] = "arriving"]
             /\ UNCHANGED <<loadVars, id, conversation>>
  BY <1>4 DEF Due, Moves, turnVars
<1>5. ASSUME NEW t \in Turn, Answer(t)
      PROVE  \E p : /\ <<pc[t], p>> \in Moves /\ pc' = [pc EXCEPT ![t] = p]
                    /\ UNCHANGED <<loadVars, id, conversation>>
  <2>1. pc[t] = "sent" /\ UNCHANGED <<loadVars, turnVars>>
    BY <1>5 DEF Answer
  <2>2. pc' = [pc EXCEPT ![t] = "answered"] \/ pc' = [pc EXCEPT ![t] = "failing"]
    BY <1>5, Zenon DEF Answer
  <2>3. <<pc[t], "answered">> \in Moves /\ <<pc[t], "failing">> \in Moves
    BY <2>1 DEF Moves
  <2>4. UNCHANGED <<loadVars, id, conversation>>
    BY <2>1 DEF turnVars
  <2> HIDE DEF Moves
  <2> QED
    BY <2>2, <2>3, <2>4
<1> DEFINE t == Current
<1>6. ASSUME Step PROVE t \in Turn
  BY <1>6, SessionOfTask DEF Step
<1>7. ASSUME Step, Drop(t)
      PROVE  <<pc[t], "dropped">> \in Moves /\ pc' = [pc EXCEPT ![t] = "dropped"]
             /\ UNCHANGED <<loadVars, id, conversation>>
  BY <1>7 DEF Drop, Moves, turnVars
<1>8. ASSUME Step, Park(t)
      PROVE  <<pc[t], "parked">> \in Moves /\ pc' = [pc EXCEPT ![t] = "parked"]
             /\ UNCHANGED <<loadVars, id, conversation>>
  BY <1>8 DEF Park, Arrives, Moves
<1>9. ASSUME Step, AwaitLock(t)
      PROVE  <<pc[t], "locking">> \in Moves /\ pc' = [pc EXCEPT ![t] = "locking"]
             /\ UNCHANGED <<loadVars, id, conversation>>
  BY <1>9 DEF AwaitLock, Reaches, Arrives, Moves
<1>10. ASSUME Step, Pass(t)
       PROVE  \E p : /\ <<pc[t], p>> \in Moves /\ pc' = [pc EXCEPT ![t] = p]
                     /\ UNCHANGED <<loadVars, id, conversation>>
  <2>1. UNCHANGED <<loadVars, id, conversation>>
    BY <1>10, Zenon DEF Pass
  <2>2. PICK o : Takes(t, o) /\ (pc' = [pc EXCEPT ![t] = "sent"] \/ pc' = [pc EXCEPT ![t] = "raised"])
    BY <1>6, <1>10, PassEffect, Zenon
  <2>3. pc[t] \in {"arriving", "woken", "granted"}
    BY <2>2 DEF Takes, Reaches, Arrives
  <2>4. <<pc[t], "sent">> \in Moves /\ <<pc[t], "raised">> \in Moves
    BY <2>3 DEF Moves
  <2> HIDE DEF Moves, t
  <2> QED
    BY <2>1, <2>2, <2>4
<1>11. ASSUME Step, End(t)
       PROVE  /\ \A u \in Turn : pc'[u] # pc[u] => <<pc[u], pc'[u]>> \in Moves
              /\ phase # "done" /\ UNCHANGED <<loadVars, id, conversation>>
  <2> DEFINE o == registry[id[t]]
             s == sessions[o]
  <2>1. UNCHANGED <<loadVars, id, conversation>> /\ ready # <<>>
    BY <1>11 DEF End, turnVars, Step
  <2>2. /\ o \in 1 .. Len(sessions) /\ Registered(o)
        /\ pc[t] \in {"answered", "failing"}
        /\ pc' = [u \in Turn |-> IF u = t THEN IF pc[t] = "answered" THEN "done" ELSE "failed"
                                  ELSE IF First(s.waiting_rounds, u) THEN "woken"
                                  ELSE IF Grants(s, u) THEN "granted"
                                  ELSE pc[u]]
    BY <1>6, <1>11, <2>1, EndEffect, Zenon
  <2>3. \A u \in Turn : First(s.waiting_rounds, u) => pc[u] = "parked"
    <3>1. s.waiting_rounds \in Seq(Turn)
      BY <2>2, SessionParts
    <3>2. \A k \in 1 .. Len(s.waiting_rounds) : pc[s.waiting_rounds[k]] = "parked"
      <4> HIDE DEF o
      <4>1. RoundsOf(o)
        BY <2>2 DEF Lanes, RoundsInv
      <4> QED
        BY <4>1 DEF RoundsOf
    <3> DEFINE q == s.waiting_rounds
    <3>3. q # <<>> => Head(q) = q[1] /\ 1 \in 1 .. Len(q)
      <4> HIDE DEF q
      <4> QED
        BY <3>1, Firsts DEF q
    <3> HIDE DEF o, s
    <3> QED
      BY <3>2, <3>3 DEF First
  <2>4. \A u \in Turn : Grants(s, u) => pc[u] = "locking"
    BY DEF Grants
  <2> HIDE DEF o, s
  <2>5. \A u \in Turn : pc'[u] # pc[u] => <<pc[u], pc'[u]>> \in Moves
    BY <1>6, <1>11, <2>2, <2>3, <2>4 DEF Moves
  <2> QED
    BY <1>2, <1>6, <1>11, <2>1, <2>2, <2>5 DEF Task, Holding
<1> HIDE DEF t, Moves
<1> QED
  BY <1>3, <1>4, <1>5, <1>6, <1>7, <1>8, <1>9, <1>10, <1>11 DEF Inner, Step, t

\* Turns are loaded one after the other, and are not unloaded again.
LEMMA LoadedStep == ASSUME TypeOK, Lanes, [Next]_vars PROVE LoadedInv'
<1>1. LoadedInv /\ pc \in [Turn -> {"unloaded"} \cup Task \cup Ended] /\ loaded \in Nat
  BY UserSessionAssumption DEF Lanes, TypeOK
<1>2. CASE Load
  <2>1. /\ loaded + 1 \in Turn /\ pc' = [pc EXCEPT ![loaded + 1] = "scheduled"]
        /\ loaded' = loaded + 1 /\ phase' = phase /\ phase = "serve"
    BY <1>2, Loading DEF LoadTurn
  <2> QED
    BY <1>1, <2>1 DEF LoadedInv, Turn
<1>3. CASE Inner
  <2>1. /\ \A t \in Turn : pc'[t] # pc[t] => <<pc[t], pc'[t]>> \in Moves
        /\ loaded' = loaded /\ phase' = phase /\ phase # "done"
    BY <1>3, TurnsMove DEF loadVars
  <2>2. \A t \in Turn : /\ pc'[t] = "unloaded" <=> pc[t] = "unloaded"
                        /\ pc'[t] = "scheduled" => pc[t] = "scheduled"
    BY <2>1 DEF Moves
  <2> QED
    BY <1>1, <2>1, <2>2 DEF LoadedInv
<1>4. CASE Drain
  BY <1>1, <1>4 DEF Drain, LoadedInv
<1>5. CASE EndStage
  <2>1. \A t \in Turn : pc'[t] = IF pc[t] \in Task THEN "cancelled" ELSE pc[t]
    BY <1>5 DEF EndStage
  <2>2. /\ "cancelled" \notin Task /\ "unloaded" \notin Task /\ "scheduled" \in Task
        /\ loaded' = loaded
    BY <1>5 DEF EndStage, Task, Queueing, Holding
  <2> QED
    BY <1>1, <2>1, <2>2 DEF LoadedInv
<1>6. CASE UNCHANGED vars
  BY <1>1, <1>6 DEF vars, LoadedInv
<1> QED
  BY <1>2, <1>3, <1>4, <1>5, <1>6 DEF Next, Load, Inner, Done

\* A turn gets its session when it calls get_context, and keeps it.
LEMMA ObjectsStay ==
  ASSUME TypeOK, Lanes, Inner
  PROVE  \A u \in Turn : /\ pc[u] # "arriving" => object'[u] = object[u]
                         /\ pc'[u] \in Queueing \cup Holding => object'[u] = registry[id[u]]
<1>1. object \in [Turn -> 0 .. Len(sessions)]
  BY DEF TypeOK
<1>2. ASSUME NEW u \in Turn, pc[u] \in Queueing \cup Holding PROVE object[u] = registry[id[u]]
  BY <1>2, SessionOfTask
<1>3. ASSUME NEW u \in Turn, pc'[u] \in Queueing \cup Holding, pc[u] \notin Queueing \cup Holding
      PROVE  pc[u] = "arriving" /\ pc'[u] \in {"parked", "locking", "sent"}
  <2>1. pc'[u] # pc[u] => <<pc[u], pc'[u]>> \in Moves
    BY TurnsMove
  <2> QED
    BY <1>3, <2>1 DEF Moves, Queueing, Holding
<1>4. CASE object' = object /\ \A u \in Turn : pc'[u] \in {"parked", "locking", "sent"} => pc'[u] = pc[u]
  BY <1>2, <1>3, <1>4
<1>5. ASSUME NEW t \in Turn, pc[t] \in Task, pc[t] = "arriving" \/ pc[t] \in Queueing,
             object' = [object EXCEPT ![t] = registry[id[t]]],
             \A u \in Turn : u # t => pc'[u] = pc[u]
      PROVE  \A u \in Turn : /\ pc[u] # "arriving" => object'[u] = object[u]
                             /\ pc'[u] \in Queueing \cup Holding => object'[u] = registry[id[u]]
  BY <1>1, <1>2, <1>3, <1>5
<1>6. ASSUME NEW t \in Turn, Due(t) \/ Answer(t) PROVE object' = object /\ \A u \in Turn : pc'[u] \in {"parked", "locking", "sent"} => pc'[u] = pc[u]
  <2>1. object' = object
    BY <1>6 DEF Due, Answer, turnVars
  <2>2. \E p \in {"arriving", "answered", "failing"} : pc' = [pc EXCEPT ![t] = p]
    BY <1>6 DEF Due, Answer
  <2> QED
    BY <2>1, <2>2 DEF TypeOK
<1> DEFINE t == Current
<1>7. ASSUME Step PROVE t \in Turn /\ ready # <<>>
  BY <1>7, SessionOfTask DEF Step
<1> HIDE DEF t
<1>8. ASSUME Step, Drop(t) PROVE object' = object /\ \A u \in Turn : pc'[u] \in {"parked", "locking", "sent"} => pc'[u] = pc[u]
  BY <1>7, <1>8 DEF Drop, TypeOK, turnVars
<1>9. ASSUME Step, End(t) PROVE object' = object /\ \A u \in Turn : pc'[u] \in {"parked", "locking", "sent"} => pc'[u] = pc[u]
  <2>1. object' = object
    BY <1>9 DEF End, turnVars
  <2> DEFINE s == sessions[registry[id[t]]]
  <2>2. pc' = [u \in Turn |-> IF u = t THEN IF pc[t] = "answered" THEN "done" ELSE "failed"
                              ELSE IF First(s.waiting_rounds, u) THEN "woken"
                              ELSE IF Grants(s, u) THEN "granted"
                              ELSE pc[u]]
    BY <1>7, <1>9, EndEffect, Zenon
  <2> HIDE DEF s
  <2> QED
    BY <2>1, <2>2
<1>10. ASSUME Step, Park(t) \/ AwaitLock(t) \/ Pass(t)
       PROVE  /\ pc[t] \in Task
              /\ pc[t] = "arriving" \/ pc[t] \in Queueing
              /\ object' = [object EXCEPT ![t] = registry[id[t]]]
              /\ \A u \in Turn : u # t => pc'[u] = pc[u]
  <2>1. CASE Park(t)
    BY <1>7, <2>1 DEF Park, Arrives, TypeOK, Task
  <2>2. CASE AwaitLock(t)
    <3>1. PICK o : o = registry[id[t]] /\ Reaches(t, o) /\ pc' = [pc EXCEPT ![t] = "locking"] /\ object' = [object EXCEPT ![t] = o]
      BY <1>7, <1>10, <2>2, AwaitEffect, Zenon
    <3>2. pc[t] \in {"arriving", "woken"}
      BY <3>1 DEF Reaches, Arrives
    <3> QED
      BY <3>1, <3>2 DEF TypeOK, Task, Queueing
  <2>3. CASE Pass(t)
    <3>1. PICK o : /\ o = registry[id[t]] /\ Takes(t, o) /\ object' = [object EXCEPT ![t] = o]
                   /\ pc' = [pc EXCEPT ![t] = "sent"] \/ pc' = [pc EXCEPT ![t] = "raised"]
      BY <1>7, <1>10, <2>3, PassEffect, Zenon
    <3>2. pc[t] \in {"arriving", "woken", "granted"}
      BY <3>1 DEF Takes, Reaches, Arrives
    <3> QED
      BY <3>1, <3>2 DEF TypeOK, Task, Queueing
  <2> QED
    BY <1>10, <2>1, <2>2, <2>3
<1>11. CASE \E u \in Turn : Due(u) \/ Answer(u)
  BY <1>4, <1>6, <1>11
<1>12. CASE Step
  <2>1. Drop(t) \/ End(t) \/ (Park(t) \/ AwaitLock(t) \/ Pass(t))
    BY <1>12 DEF Step, t
  <2>2. CASE Drop(t) \/ End(t)
    BY <1>4, <1>8, <1>9, <1>12, <2>2
  <2>3. CASE Park(t) \/ AwaitLock(t) \/ Pass(t)
    <3>1. /\ pc[t] \in Task
          /\ pc[t] = "arriving" \/ pc[t] \in Queueing
          /\ object' = [object EXCEPT ![t] = registry[id[t]]]
          /\ \A u \in Turn : u # t => pc'[u] = pc[u]
      BY <1>10, <1>12, <2>3
    <3> QED
      BY <1>5, <1>7, <1>12, <3>1
  <2> QED
    BY <2>1, <2>2, <2>3
<1> QED
  BY <1>11, <1>12 DEF Inner

\* A session is registered for an id that has none, and forgotten when no turn is
\* under way.
LEMMA NamedStep == ASSUME TypeOK, Lanes, [Next]_vars PROVE NamedInv'
<1>1. /\ NamedInv /\ registry \in [ID -> 0 .. Len(sessions)] /\ id \in [Turn -> ID]
      /\ pc \in [Turn -> {"unloaded"} \cup Task \cup Ended] /\ Len(sessions) \in Nat
  BY DEF Lanes, TypeOK
<1>2. CASE Load
  <2>1. PICK i \in ID :
          /\ LoadTurn(i) /\ loaded + 1 \in Turn
          /\ \/ UNCHANGED <<sessions, registry>> /\ registry[i] # 0
             \/ \E s : Fresh(s) /\ Register(i, s) /\ registry[i] = 0
    BY <1>2, Loading
  <2>2. /\ pc' = [pc EXCEPT ![loaded + 1] = "scheduled"] /\ id' = [id EXCEPT ![loaded + 1] = i]
        /\ object' = object
    BY <2>1 DEF LoadTurn
  <2>3. \/ registry' = registry /\ registry[i] # 0
        \/ registry' = [registry EXCEPT ![i] = Len(sessions) + 1] /\ registry[i] = 0
    BY <2>1 DEF Register
  <2>4. \A j \in ID : registry[j] # 0 => registry'[j] = registry[j]
    BY <1>1, <2>1, <2>3
  <2>5. registry'[i] # 0 /\ \A j \in ID : j # i => registry'[j] = registry[j]
    BY <1>1, <2>1, <2>3
  <2>6. \A j, k \in ID : registry'[j] = registry'[k] /\ registry'[j] # 0 => j = k
    BY <1>1, <2>1, <2>3 DEF NamedInv
  <2>7. ASSUME NEW t \in Turn
        PROVE  /\ pc'[t] \in Task => registry'[id'[t]] # 0
               /\ pc'[t] \in Queueing \cup Holding => object'[t] = registry'[id'[t]]
    <3>1. CASE t = loaded + 1
      BY <1>1, <2>2, <2>5, <3>1 DEF Queueing, Holding
    <3>2. CASE t # loaded + 1
      <4>1. pc'[t] = pc[t] /\ id'[t] = id[t]
        BY <1>1, <2>2, <3>2
      <4> QED
        BY <1>1, <2>2, <2>4, <4>1 DEF NamedInv, Task
    <3> QED
      BY <3>1, <3>2
  <2>8. /\ \A t \in Turn : pc'[t] \in Task => registry'[id'[t]] # 0
        /\ \A t \in Turn : pc'[t] \in Queueing \cup Holding => object'[t] = registry'[id'[t]]
    BY <2>7
  <2> QED
    BY <2>6, <2>8 DEF NamedInv
<1>3. CASE Inner
  <2>1. registry' = registry /\ id' = id /\ \A t \in Turn : pc'[t] # pc[t] => <<pc[t], pc'[t]>> \in Moves
    BY <1>3, TurnsMove DEF loadVars
  <2>2. \A t \in Turn : pc'[t] \in Task => pc[t] \in Task
    BY <2>1 DEF Moves, Task, Queueing, Holding
  <2>3. \A u \in Turn : pc'[u] \in Queueing \cup Holding => object'[u] = registry[id[u]]
    BY <1>3, ObjectsStay
  <2> QED
    BY <1>1, <2>1, <2>2, <2>3 DEF NamedInv
<1>4. CASE Drain
  BY <1>1, <1>4 DEF Drain, NamedInv, turnVars, Task, Queueing, Holding
<1>5. CASE EndStage
  <2>1. \A t \in Turn : pc'[t] \notin Task
    BY <1>5 DEF EndStage, Task, Queueing, Holding
  <2>2. \A i \in ID : registry'[i] = 0
    BY <1>5 DEF EndStage, ClearInstances
  <2> QED
    BY <2>1, <2>2 DEF NamedInv, Task
<1>6. CASE UNCHANGED vars
  BY <1>1, <1>6 DEF vars, NamedInv
<1> QED
  BY <1>2, <1>3, <1>4, <1>5, <1>6 DEF Next, Load, Inner, Done

\* The ids of conversation replay are numbered with the conversations of its stage.
LEMMA SlotStep == ASSUME TypeOK, Lanes, [Next]_vars PROVE SlotInv'
<1>1. /\ SlotInv /\ registry \in [ID -> 0 .. Len(sessions)] /\ id \in [Turn -> ID] /\ slot \in ID
      /\ Len(sessions) \in Nat /\ loaded \in Nat /\ conversation \in [Turn -> Nat \X Nat]
      /\ Turns \in Nat \ {0} /\ ID \subseteq Nat
  BY UserSessionAssumption DEF Lanes, TypeOK, ID
<1>2. CASE Load
  <2>1. PICK i \in ID :
          /\ LoadTurn(i) /\ loaded + 1 \in Turn /\ phase = "serve"
          /\ plan.generator = "shared_prefix" => i = 0
          /\ plan.generator = "conversation_replay" =>
               stage = 1 /\ base = 0 /\ i = loaded \div Turns /\ Len(plan.rounds) = 1
          /\ \/ UNCHANGED <<sessions, registry>> /\ registry[i] # 0
             \/ \E s : Fresh(s) /\ Register(i, s) /\ registry[i] = 0
    BY <1>2, Loading
  <2>2. /\ id' = [id EXCEPT ![loaded + 1] = i] /\ slot' = i /\ loaded' = loaded + 1
        /\ plan' = plan /\ phase' = phase /\ stage' = stage /\ base' = base
        /\ conversation' = [conversation EXCEPT ![loaded + 1] =
             <<stage, IF plan.generator = "shared_prefix" THEN 0 ELSE (loaded - base) \div Turns>>]
    BY <2>1 DEF LoadTurn
  <2>3. CASE plan.generator = "shared_prefix"
    BY <1>1, <2>1, <2>2, <2>3 DEF SlotInv
  <2>4. CASE plan.generator = "conversation_replay"
    <3>1. /\ slot = IF loaded = 0 THEN 0 ELSE (loaded - 1) \div Turns
          /\ \A j \in ID : registry[j] # 0 <=> j <= slot
          /\ \A t \in Turn : t <= loaded => conversation[t] = <<1, id[t]>>
      BY <1>1, <2>1, <2>4 DEF SlotInv
    <3>2. /\ (loaded + 1) - 1 = loaded /\ loaded + 1 # 0
          /\ i = slot \/ i = slot + 1
      <4>1. /\ loaded = 0 => i = 0
            /\ loaded # 0 /\ loaded % Turns # 0 => i = (loaded - 1) \div Turns
            /\ loaded # 0 /\ loaded % Turns = 0 => i = ((loaded - 1) \div Turns) + 1
        BY <1>1, <2>1, <2>4, Division
      <4> QED
        BY <1>1, <3>1, <4>1
    <3>3. slot' = (loaded' - 1) \div Turns /\ loaded' # 0
      BY <1>1, <2>1, <2>2, <2>4
    <3>4. \A j \in ID : registry'[j] # 0 <=> j <= slot'
      <4>1. CASE registry' = registry /\ registry[i] # 0
        BY <1>1, <2>2, <3>1, <3>2, <4>1
      <4>2. CASE registry' = [registry EXCEPT ![i] = Len(sessions) + 1] /\ registry[i] = 0
        <5>1. i = slot + 1
          BY <1>1, <3>1, <3>2, <4>2
        <5> QED
          BY <1>1, <2>2, <3>1, <4>2, <5>1
      <4> QED
        BY <2>1, <4>1, <4>2 DEF Register
    <3>5. ASSUME NEW t \in Turn, t <= loaded' PROVE conversation'[t] = <<1, id'[t]>>
      <4>1. CASE t = loaded + 1
        BY <1>1, <2>1, <2>2, <2>4, <4>1
      <4>2. CASE t # loaded + 1
        BY <1>1, <2>2, <3>1, <3>5, <4>2 DEF Turn
      <4> QED
        BY <4>1, <4>2
    <3> QED
      BY <2>1, <2>2, <2>4, <3>3, <3>4, <3>5 DEF SlotInv
  <2> QED
    BY <1>1, <2>3, <2>4 DEF SlotInv
<1>3. CASE Inner
  <2>1. UNCHANGED <<loadVars, id, conversation>>
    BY <1>3, TurnsMove
  <2> QED
    BY <1>1, <2>1 DEF SlotInv, loadVars
<1>4. CASE Drain
  BY <1>1, <1>4 DEF Drain, SlotInv, turnVars
<1>5. CASE EndStage
  <2>1. /\ phase = "drain" /\ plan' = plan /\ loaded' = loaded /\ slot' = slot /\ id' = id /\ conversation' = conversation
        /\ stage = Len(plan.rounds) => phase' = "done"
    BY <1>5 DEF EndStage, turnVars
  <2> QED
    BY <1>1, <2>1 DEF SlotInv
<1>6. CASE UNCHANGED vars
  BY <1>1, <1>6 DEF vars, SlotInv
<1> QED
  BY <1>2, <1>3, <1>4, <1>5, <1>6 DEF Next, Load, Inner, Done

-----------------------------------------------------------------------------
(* The lanes of a session *)

\* Turn t gets to p, at session o, and nothing else moves.
Moved(t, o, p) ==
  /\ \A u \in Turn : pc'[u] = IF u = t THEN p ELSE pc[u]
  /\ \A u \in Turn : object'[u] = IF u = t THEN o ELSE object[u]

\* A turn is no further into its session, or the answer to its request is there.
Quiet ==
  /\ sessions' = sessions /\ object' = object
  /\ \A u \in Turn : pc'[u] # pc[u] =>
       <<pc[u], pc'[u]>> \in {<<"scheduled", "arriving">>, <<"arriving", "dropped">>,
                             <<"sent", "answered">>, <<"sent", "failing">>}

\* What becomes of session o when turn t parks there, awaits its lock, passes it and
\* ends.
Parks(t, o) ==
  /\ pc[t] = "arriving" /\ Moved(t, o, "parked")
  /\ Becomes(o, sessions[o].in_flight, sessions[o].waiters, Append(sessions[o].waiting_rounds, t))

Awaits(t, o) ==
  /\ \/ pc[t] = "arriving" /\ sessions[o].waiting_rounds = <<>>
     \/ pc[t] = "woken" /\ object[t] = o
  /\ ~LockIsFree(sessions[o])
  /\ Moved(t, o, "locking")
  /\ Becomes(o, sessions[o].in_flight, Append(sessions[o].waiters, t), sessions[o].waiting_rounds)

Passes(t, o) ==
  /\ \/ pc[t] = "arriving" /\ LockIsFree(sessions[o]) /\ sessions[o].waiting_rounds = <<>>
     \/ pc[t] = "woken" /\ object[t] = o /\ LockIsFree(sessions[o])
     \/ pc[t] = "granted" /\ object[t] = o
  /\ Moved(t, o, "sent") \/ Moved(t, o, "raised")
  /\ Becomes(o, TRUE, IF pc[t] = "granted" THEN Tail(sessions[o].waiters) ELSE sessions[o].waiters,
             sessions[o].waiting_rounds)

Ends(t, o) ==
  /\ pc[t] \in {"answered", "failing"} /\ object[t] = o /\ object' = object
  /\ \A u \in Turn : pc'[u] = IF u = t THEN IF pc[t] = "answered" THEN "done" ELSE "failed"
                               ELSE IF First(sessions[o].waiting_rounds, u) THEN "woken"
                               ELSE IF Grants(sessions[o], u) THEN "granted"
                               ELSE pc[u]
  /\ Becomes(o, FALSE, sessions[o].waiters, Left(sessions[o].waiting_rounds))

\* What turns do to the sessions while they run.
LEMMA InnerForms ==
  ASSUME TypeOK, Lanes, Inner
  PROVE  \/ Quiet
         \/ \E o \in 1 .. Len(sessions) : \E t \in Turn :
              /\ Registered(o) /\ o = registry[id[t]]
              /\ ready # <<>> /\ t = Current
              /\ Parks(t, o) \/ Awaits(t, o) \/ Passes(t, o) \/ Ends(t, o)
<1>1. pc \in [Turn -> {"unloaded"} \cup Task \cup Ended] /\ object \in [Turn -> 0 .. Len(sessions)]
  BY DEF TypeOK
<1>2. ASSUME NEW t \in Turn, NEW o \in 1 .. Len(sessions), NEW p,
             pc' = [pc EXCEPT ![t] = p], object' = [object EXCEPT ![t] = o]
      PROVE  Moved(t, o, p)
  BY <1>1, <1>2 DEF Moved
<1>3. CASE \E t \in Turn : Due(t) \/ Answer(t)
  <2>1. PICK t \in Turn : Due(t) \/ Answer(t)
    BY <1>3
  <2>2. CASE Due(t)
    <3>1. pc[t] = "scheduled" /\ pc' = [pc EXCEPT ![t] = "arriving"] /\ sessions' = sessions /\ object' = object
      BY <2>2 DEF Due, turnVars
    <3> QED
      BY <1>1, <3>1 DEF Quiet
  <2>3. CASE Answer(t)
    <3>1. pc[t] = "sent" /\ sessions' = sessions /\ object' = object
      BY <2>3 DEF Answer, turnVars
    <3>2. pc' = [pc EXCEPT ![t] = "answered"] \/ pc' = [pc EXCEPT ![t] = "failing"]
      BY <2>3, Zenon DEF Answer
    <3> QED
      BY <1>1, <3>1, <3>2 DEF Quiet
  <2> QED
    BY <2>1, <2>2, <2>3
<1>4. CASE Step
  <2> DEFINE t == Current
  <2>1. t \in Turn /\ ready # <<>>
    BY <1>4, SessionOfTask DEF Step
  <2> HIDE DEF t
  <2>2. CASE Drop(t)
    <3>1. pc[t] = "arriving" /\ pc' = [pc EXCEPT ![t] = "dropped"] /\ sessions' = sessions /\ object' = object
      BY <2>2 DEF Drop, turnVars
    <3> QED
      BY <1>1, <2>1, <3>1 DEF Quiet
  <2>3. CASE Park(t)
    <3> DEFINE o == registry[id[t]]
    <3>1. /\ o \in 1 .. Len(sessions) /\ Registered(o) /\ Arrives(t)
          /\ Becomes(o, sessions[o].in_flight, sessions[o].waiters, Append(sessions[o].waiting_rounds, t))
      BY <2>1, <2>3, ParkEffect, Zenon
    <3>2. pc' = [pc EXCEPT ![t] = "parked"] /\ object' = [object EXCEPT ![t] = o]
      BY <2>3 DEF Park
    <3> HIDE DEF o
    <3>3. Parks(t, o)
      BY <1>2, <2>1, <3>1, <3>2 DEF Parks, Arrives
    <3> QED
      BY <2>1, <3>1, <3>3 DEF o, t
  <2>4. CASE AwaitLock(t)
    <3>1. PICK o \in 1 .. Len(sessions) :
            /\ o = registry[id[t]] /\ Registered(o)
            /\ Reaches(t, o) /\ ~LockIsFree(sessions[o])
            /\ pc' = [pc EXCEPT ![t] = "locking"] /\ object' = [object EXCEPT ![t] = o]
            /\ Becomes(o, sessions[o].in_flight, Append(sessions[o].waiters, t),
                       sessions[o].waiting_rounds)
      BY <2>1, <2>4, AwaitEffect
    <3>2. Awaits(t, o)
      BY <1>2, <2>1, <3>1 DEF Awaits, Reaches, Arrives, MustWait
    <3> QED
      BY <2>1, <3>1, <3>2 DEF t
  <2>5. CASE Pass(t)
    <3>1. PICK o \in 1 .. Len(sessions) :
            /\ o = registry[id[t]] /\ Registered(o) /\ Takes(t, o)
            /\ object' = [object EXCEPT ![t] = o]
            /\ pc' = [pc EXCEPT ![t] = "sent"] \/ pc' = [pc EXCEPT ![t] = "raised"]
            /\ Becomes(o, TRUE, IF pc[t] = "granted" THEN Tail(sessions[o].waiters) ELSE sessions[o].waiters,
                       sessions[o].waiting_rounds)
      BY <2>1, <2>5, PassEffect, Zenon
    <3>2. Moved(t, o, "sent") \/ Moved(t, o, "raised")
      BY <1>2, <2>1, <3>1
    <3>3. Passes(t, o)
      BY <3>1, <3>2, Zenon DEF Passes, Takes, Reaches, Arrives, MustWait
    <3> QED
      BY <2>1, <3>1, <3>3 DEF t
  <2>6. CASE End(t)
    <3> DEFINE o == registry[id[t]]
    <3>1. /\ o \in 1 .. Len(sessions) /\ Registered(o) /\ object[t] = o
          /\ pc[t] \in {"answered", "failing"}
          /\ pc' = [u \in Turn |-> IF u = t THEN IF pc[t] = "answered" THEN "done" ELSE "failed"
                                    ELSE IF First(sessions[o].waiting_rounds, u) THEN "woken"
                                    ELSE IF Grants(sessions[o], u) THEN "granted"
                                    ELSE pc[u]]
          /\ Becomes(o, FALSE, sessions[o].waiters, Left(sessions[o].waiting_rounds))
      BY <2>1, <2>6, EndEffect, Zenon
    <3>2. object' = object
      BY <2>6 DEF End, turnVars
    <3> HIDE DEF o
    <3>3. Ends(t, o)
      <4>1. \A u \in Turn : pc'[u] = IF u = t THEN IF pc[t] = "answered" THEN "done" ELSE "failed"
                                   ELSE IF First(sessions[o].waiting_rounds, u) THEN "woken"
                                   ELSE IF Grants(sessions[o], u) THEN "granted"
                                   ELSE pc[u]
        BY <3>1
      <4> QED
        BY <3>1, <3>2, <4>1, Zenon DEF Ends
    <3> QED
      BY <2>1, <3>1, <3>3 DEF o, t
  <2> QED
    BY <1>4, <2>2, <2>3, <2>4, <2>5, <2>6 DEF Step, t
<1> QED
  BY <1>3, <1>4 DEF Inner

\* What the stage does to them: sessions are made for ids that have none, and all
\* are forgotten when it ends.
LEMMA OuterForms ==
  ASSUME TypeOK, Lanes, Load \/ Drain \/ EndStage \/ UNCHANGED vars
  PROVE  /\ object' = object
         /\ \A o \in 1 .. Len(sessions') : Registered(o)' =>
              \/ o \in 1 .. Len(sessions) /\ Registered(o) /\ sessions'[o] = sessions[o]
              \/ Fresh(sessions'[o]) /\ \A t \in Turn : object[t] # o
         /\ \/ EndStage /\ \A o : ~Registered(o)'
            \/ \A t \in Turn : pc'[t] # pc[t] =>
                 <<pc[t], pc'[t]>> \in {<<"unloaded", "scheduled">>, <<"scheduled", "dropped">>}
<1>1. /\ sessions \in Seq(LocalUserSession) /\ Len(sessions) \in Nat
      /\ registry \in [ID -> 0 .. Len(sessions)] /\ object \in [Turn -> 0 .. Len(sessions)]
      /\ pc \in [Turn -> {"unloaded"} \cup Task \cup Ended] /\ loaded \in Nat
  BY UserSessionAssumption DEF TypeOK
<1>2. CASE Load
  <2>1. PICK i \in ID :
          /\ LoadTurn(i) /\ loaded + 1 \in Turn
          /\ \/ UNCHANGED <<sessions, registry>>
             \/ \E s : Fresh(s) /\ Register(i, s)
    BY <1>2, Loading
  <2>2. object' = object /\ pc' = [pc EXCEPT ![loaded + 1] = "scheduled"]
    BY <2>1 DEF LoadTurn
  <2>3. pc[loaded + 1] = "unloaded"
    BY <1>1, <2>1 DEF Lanes, LoadedInv
  <2>4. \A t \in Turn : pc'[t] # pc[t] => <<pc[t], pc'[t]>> \in {<<"unloaded", "scheduled">>, <<"scheduled", "dropped">>}
    BY <1>1, <2>2, <2>3
  <2>5. CASE UNCHANGED <<sessions, registry>>
    BY <1>1, <2>2, <2>4, <2>5 DEF Registered
  <2>6. ASSUME NEW s, Fresh(s), Register(i, s)
        PROVE  \A o \in 1 .. Len(sessions') : Registered(o)' =>
                 \/ o \in 1 .. Len(sessions) /\ Registered(o) /\ sessions'[o] = sessions[o]
                 \/ Fresh(sessions'[o]) /\ \A t \in Turn : object[t] # o
    <3>1. s \in LocalUserSession /\ sessions' = Append(sessions, s)
          /\ registry' = [registry EXCEPT ![i] = Len(sessions) + 1]
      BY <2>6 DEF Register, Fresh
    <3>2. /\ Len(sessions') = Len(sessions) + 1 /\ sessions'[Len(sessions) + 1] = s
          /\ \A o \in 1 .. Len(sessions) : sessions'[o] = sessions[o]
      BY <1>1, <3>1
    <3>3. ASSUME NEW o \in 1 .. Len(sessions), Registered(o)' PROVE Registered(o)
      BY <1>1, <3>1, <3>3 DEF Registered
    <3>4. \A t \in Turn : object[t] # Len(sessions) + 1
      BY <1>1
    <3> QED
      BY <1>1, <2>6, <3>2, <3>3, <3>4
  <2> QED
    BY <2>1, <2>2, <2>4, <2>5, <2>6
<1>3. CASE Drain
  <2>1. /\ object' = object /\ sessions' = sessions /\ registry' = registry
        /\ pc' = [t \in Turn |-> IF pc[t] = "scheduled" THEN "dropped" ELSE pc[t]]
    BY <1>3 DEF Drain, turnVars
  <2> QED
    BY <2>1 DEF Registered
<1>4. CASE EndStage
  <2>1. object' = object /\ \A i \in ID : registry'[i] = 0
    BY <1>4 DEF EndStage, turnVars, ClearInstances
  <2>2. \A o : ~Registered(o)'
    BY <2>1 DEF Registered
  <2> QED
    BY <1>4, <2>1, <2>2
<1>5. CASE UNCHANGED vars
  BY <1>1, <1>5 DEF vars, Registered
<1> QED
  BY <1>2, <1>3, <1>4, <1>5

\* The sessions that are not touched, and what is registered, stay.
LEMMA Untouched ==
  ASSUME TypeOK, Lanes, Inner
  PROVE  /\ \A o : Registered(o)' <=> Registered(o)
         /\ \A t \in Turn : <<pc[t], pc'[t]>> \in Moves \/ pc'[t] = pc[t]
         /\ \A t \in Turn : pc[t] # "arriving" => object'[t] = object[t]
         /\ sessions \in Seq(LocalUserSession) /\ Len(sessions) \in Nat /\ Len(sessions') = Len(sessions)
         /\ object \in [Turn -> 0 .. Len(sessions)]
         /\ \A o \in 1 .. Len(sessions) : sessions[o].waiters \in Seq(Turn)
                                       /\ sessions[o].waiting_rounds \in Seq(Turn)
                                       /\ sessions[o].in_flight \in BOOLEAN
<1>1. registry' = registry /\ \A t \in Turn : <<pc[t], pc'[t]>> \in Moves \/ pc'[t] = pc[t]
  BY TurnsMove DEF loadVars
<1>2. sessions \in Seq(LocalUserSession) /\ Len(sessions) \in Nat /\ object \in [Turn -> 0 .. Len(sessions)]
  BY DEF TypeOK
<1>3. Len(sessions') = Len(sessions)
  <2>1. \A o, t : Parks(t, o) \/ Awaits(t, o) \/ Passes(t, o) \/ Ends(t, o) => Len(sessions') = Len(sessions)
    BY DEF Parks, Awaits, Passes, Ends, Becomes
  <2>2. Quiet => Len(sessions') = Len(sessions)
    BY DEF Quiet
  <2> QED
    BY <2>1, <2>2, InnerForms
<1> QED
  BY <1>1, <1>2, <1>3, ObjectsStay, SessionParts DEF Registered

\* A turn at one session leaves the turns of the others where they are.
LEMMA Elsewhere ==
  ASSUME TypeOK, Lanes, NEW o \in 1 .. Len(sessions), NEW p \in 1 .. Len(sessions), NEW t \in Turn,
         p # o, Registered(p), Parks(t, p) \/ Awaits(t, p) \/ Passes(t, p) \/ Ends(t, p)
  PROVE  /\ sessions'[o] = sessions[o]
         /\ object'[t] = p
         /\ pc[t] = "arriving" \/ object[t] = p
         /\ \A u \in Turn : u # t => object'[u] = object[u]
         /\ \A u \in Turn : u # t /\ object[u] = o => pc'[u] = pc[u]
<1>1. sessions'[o] = sessions[o]
  BY DEF Parks, Awaits, Passes, Ends, Becomes
<1>2. object'[t] = p /\ (pc[t] = "arriving" \/ object[t] = p)
  BY DEF Parks, Awaits, Passes, Ends, Moved
<1>3. \A u \in Turn : u # t => object'[u] = object[u]
  BY DEF Parks, Awaits, Passes, Ends, Moved
<1>4. ASSUME NEW u \in Turn, u # t, object[u] = o PROVE pc'[u] = pc[u]
  <2>1. CASE Parks(t, p) \/ Awaits(t, p) \/ Passes(t, p)
    BY <1>4, <2>1 DEF Parks, Awaits, Passes, Moved
  <2>2. CASE Ends(t, p)
    <3> DEFINE a == sessions[p].waiting_rounds
               b == sessions[p].waiters
    <3>1. a \in Seq(Turn) /\ b \in Seq(Turn)
      BY SessionParts
    <3>2. /\ \A k \in 1 .. Len(a) : object[a[k]] = p
          /\ \A k \in 1 .. Len(b) : object[b[k]] = p
      BY DEF Lanes, LockInv, RoundsInv, LockOf, RoundsOf
    <3> HIDE DEF a, b
    <3>3. ~First(a, u) /\ ~First(b, u)
      <4>1. /\ a # <<>> => Head(a) = a[1] /\ 1 \in 1 .. Len(a)
            /\ b # <<>> => Head(b) = b[1] /\ 1 \in 1 .. Len(b)
        BY <3>1, Firsts
      <4> QED
        BY <1>4, <3>2, <4>1 DEF First
    <3>4. ~First(sessions[p].waiting_rounds, u) /\ ~Grants(sessions[p], u)
      BY <3>3 DEF Grants, a, b
    <3> QED
      BY <1>4, <2>2, <3>4 DEF Ends
  <2> QED
    BY <2>1, <2>2
<1> QED
  BY <1>1, <1>2, <1>3, <1>4

\* Whoever queues for the lock joins behind, and only the first is granted it.
LEMMA LockStep == ASSUME TypeOK, Lanes, [Next]_vars PROVE LockInv'
<1>1. ASSUME Inner, NEW o \in 1 .. Len(sessions), Registered(o) PROVE LockOf(o)'
  <2> DEFINE w == sessions[o].waiters
             s == sessions[o]
  <2>1. /\ w \in Seq(Turn) /\ \A k \in 1 .. Len(w) : w[k] \in Turn
        /\ \A t \in Turn : First(w, t) <=> Len(w) # 0 /\ w[1] = t
        /\ s.in_flight \in BOOLEAN
    BY SessionParts DEF First
  <2>2. LockOf(o) /\ OwnerOf(o)
    BY <1>1 DEF Lanes, LockInv, OwnerInv
  <2>3. CASE Quiet
    BY <2>1, <2>2, <2>3 DEF Quiet, LockOf
  <2>4. ASSUME NEW p \in 1 .. Len(sessions), NEW t \in Turn, p # o, Registered(p),
               Parks(t, p) \/ Awaits(t, p) \/ Passes(t, p) \/ Ends(t, p)
        PROVE  LockOf(o)'
    <3>1. /\ sessions'[o] = sessions[o]
          /\ object'[t] = p /\ (pc[t] = "arriving" \/ object[t] = p)
          /\ \A u \in Turn : u # t => object'[u] = object[u]
          /\ \A u \in Turn : u # t /\ object[u] = o => pc'[u] = pc[u]
      BY <2>4, Elsewhere
    <3>2. \A k \in 1 .. Len(w) : w[k] # t /\ object'[w[k]] = o /\ pc'[w[k]] = pc[w[k]]
      BY <2>1, <2>2, <2>4, <3>1 DEF LockOf
    <3>3. \A u \in Turn : pc'[u] = "granted" /\ object'[u] = o => pc[u] = "granted" /\ object[u] = o
      BY <2>4, <3>1
    <3> QED
      BY <2>2, <3>1, <3>2, <3>3 DEF LockOf
  <2>5. ASSUME NEW t \in Turn, Parks(t, o) PROVE LockOf(o)'
    <3>1. /\ sessions'[o].waiters = w /\ sessions'[o].in_flight = s.in_flight
          /\ pc[t] = "arriving"
          /\ \A u \in Turn : pc'[u] = IF u = t THEN "parked" ELSE pc[u]
          /\ \A u \in Turn : object'[u] = IF u = t THEN o ELSE object[u]
      BY <2>5 DEF Parks, Moved, Becomes
    <3>2. \A k \in 1 .. Len(w) : w[k] # t
      BY <2>2, <3>1 DEF LockOf
    <3> QED
      BY <2>1, <2>2, <3>1, <3>2 DEF LockOf
  <2>6. ASSUME NEW t \in Turn, Awaits(t, o) PROVE LockOf(o)'
    <3>1. sessions'[o].waiters = Append(w, t) /\ sessions'[o].in_flight = s.in_flight
      BY <2>6 DEF Awaits, Becomes
    <3> DEFINE w1 == Append(w, t)
    <3>2. /\ w1 \in Seq(Turn) /\ Len(w1) = Len(w) + 1 /\ w1[Len(w) + 1] = t /\ Len(w) \in Nat
          /\ \A k \in 1 .. Len(w) : w1[k] = w[k]
      BY <2>1
    <3>3. /\ \A u \in Turn : pc'[u] = IF u = t THEN "locking" ELSE pc[u]
          /\ \A u \in Turn : object'[u] = IF u = t THEN o ELSE object[u]
          /\ pc[t] \notin {"locking", "granted"}
      BY <2>6 DEF Awaits, Moved
    <3> HIDE DEF w1, w
    <3>4. \A k \in 1 .. Len(w) : w[k] # t /\ object[w[k]] = o /\ pc[w[k]] \in {"locking", "granted"}
      BY <2>2, <3>3 DEF LockOf, w
    <3>5. \A k \in 1 .. Len(w1) : object'[w1[k]] = o /\ pc'[w1[k]] \in {"locking", "granted"}
      BY <2>1, <3>2, <3>3, <3>4
    <3>6. \A k, l \in 1 .. Len(w) : w[k] = w[l] => k = l
      BY <2>2 DEF LockOf, w
    <3>7. \A k, l \in 1 .. Len(w1) : w1[k] = w1[l] => k = l
      BY <3>2, <3>4, <3>6
    <3>8. ASSUME NEW u \in Turn, pc'[u] = "granted", object'[u] = o
          PROVE  First(w1, u) /\ ~sessions'[o].in_flight
      <4>1. First(w, u) /\ ~s.in_flight
        BY <2>2, <3>3, <3>8 DEF LockOf, w
      <4>2. w1 # <<>> /\ Head(w1) = w1[1]
        BY <3>2
      <4> QED
        BY <2>1, <3>1, <3>2, <4>1, <4>2 DEF First
    <3> QED
      BY <3>1, <3>5, <3>7, <3>8 DEF LockOf, w1, w
  <2>7. ASSUME NEW t \in Turn, Passes(t, o) PROVE LockOf(o)'
    <3> DEFINE w1 == IF pc[t] = "granted" THEN Tail(w) ELSE w
    <3>1. sessions'[o].waiters = w1 /\ sessions'[o].in_flight
      BY <2>7 DEF Passes, Becomes
    <3>2. PICK p \in {"sent", "raised"} : Moved(t, o, p)
      BY <2>7 DEF Passes
    <3>3. /\ \A u \in Turn : pc'[u] = IF u = t THEN p ELSE pc[u]
          /\ \A u \in Turn : object'[u] = IF u = t THEN o ELSE object[u]
      BY <3>2 DEF Moved
    <3>4. CASE pc[t] = "granted"
      <4>1. First(w, t) /\ object[t] = o
        BY <2>2, <2>7, <3>4 DEF Passes, LockOf
      <4>2. /\ Len(w) \in Nat \ {0} /\ w[1] = t /\ w1 = Tail(w) /\ Len(w1) = Len(w) - 1
            /\ \A k \in 1 .. Len(w1) : w1[k] = w[k + 1] /\ k + 1 \in 1 .. Len(w) /\ k + 1 # 1
        BY <2>1, <3>4, <4>1 DEF First
      <4> HIDE DEF w1
      <4>3. \A k \in 1 .. Len(w1) : w1[k] # t /\ w1[k] \in Turn
        BY <2>1, <2>2, <4>2 DEF LockOf
      <4>4. \A k \in 1 .. Len(w1) : object'[w1[k]] = o /\ pc'[w1[k]] \in {"locking", "granted"}
        BY <2>2, <3>3, <4>2, <4>3 DEF LockOf
      <4>5. \A k, l \in 1 .. Len(w1) : w1[k] = w1[l] => k = l
        <5>1. \A k, l \in 1 .. Len(w1) : w[k + 1] = w[l + 1] => k + 1 = l + 1
          BY <2>2, <4>2 DEF LockOf
        <5> QED
          BY <4>2, <5>1
      <4>6. ASSUME NEW u \in Turn, pc'[u] = "granted", object'[u] = o PROVE FALSE
        <5>1. u # t /\ pc[u] = "granted" /\ object[u] = o
          BY <3>3, <4>6
        <5> QED
          BY <2>1, <2>2, <4>1, <5>1 DEF LockOf
      <4> QED
        BY <3>1, <4>4, <4>5, <4>6 DEF LockOf
    <3>5. CASE pc[t] # "granted"
      <4>1. w1 = w /\ w = <<>>
        BY <2>7, <3>5 DEF Passes, LockIsFree
      <4>2. \A u \in Turn : pc'[u] = "granted" /\ object'[u] = o => FALSE
        BY <2>1, <2>2, <3>3, <3>5, <4>1 DEF LockOf, First
      <4> QED
        BY <3>1, <4>1, <4>2 DEF LockOf
    <3> QED
      BY <3>4, <3>5
  <2>8. ASSUME NEW t \in Turn, Ends(t, o) PROVE LockOf(o)'
    <3>1. /\ sessions'[o].waiters = w /\ sessions'[o].in_flight = FALSE /\ object' = object
          /\ \A u \in Turn : pc'[u] = IF u = t THEN IF pc[t] = "answered" THEN "done" ELSE "failed"
                                      ELSE IF First(s.waiting_rounds, u) THEN "woken"
                                      ELSE IF Grants(s, u) THEN "granted"
                                      ELSE pc[u]
          /\ pc[t] \in {"answered", "failing"} /\ object[t] = o
      BY <2>8, Zenon DEF Ends, Becomes
    <3>2. \A u \in Turn : First(s.waiting_rounds, u) => pc[u] = "parked"
      <4>1. RoundsOf(o) /\ s.waiting_rounds \in Seq(Turn)
        BY <1>1, SessionParts DEF Lanes, RoundsInv
      <4> QED
        BY <4>1, Firsts DEF First, RoundsOf
    <3>3. s.in_flight
      BY <2>2, <3>1 DEF OwnerOf, Owners, Holding
    <3> HIDE DEF w, s
    <3>4. \A k \in 1 .. Len(w) : pc'[w[k]] \in {"locking", "granted"} /\ object'[w[k]] = o
      <4>1. \A k \in 1 .. Len(w) : pc[w[k]] \in {"locking", "granted"} /\ object[w[k]] = o
        BY <2>2 DEF LockOf, w
      <4> QED
        BY <2>1, <3>1, <3>2, <4>1
    <3>5. ASSUME NEW u \in Turn, pc'[u] = "granted", object'[u] = o PROVE First(w, u)
      <4>1. pc[u] # "granted"
        BY <2>2, <3>1, <3>3, <3>5 DEF LockOf, s
      <4>2. Grants(s, u)
        BY <3>1, <3>5, <4>1
      <4> QED
        BY <4>2 DEF Grants, s, w
    <3>6. \A k, l \in 1 .. Len(w) : w[k] = w[l] => k = l
      BY <2>2 DEF LockOf, w
    <3> QED
      BY <3>1, <3>4, <3>5, <3>6 DEF LockOf
  <2> QED
    BY <1>1, <2>3, <2>4, <2>5, <2>6, <2>7, <2>8, InnerForms
<1>2. ASSUME Load \/ Drain \/ EndStage \/ UNCHANGED vars, NEW o \in 1 .. Len(sessions'), Registered(o)'
      PROVE  LockOf(o)'
  <2>1. /\ object' = object
        /\ \A t \in Turn : pc'[t] # pc[t] =>
             <<pc[t], pc'[t]>> \in {<<"unloaded", "scheduled">>, <<"scheduled", "dropped">>}
    BY <1>2, OuterForms
  <2>2. CASE o \in 1 .. Len(sessions) /\ Registered(o) /\ sessions'[o] = sessions[o]
    <3>1. sessions[o].waiters \in Seq(Turn)
      BY <2>2, SessionParts
    <3>2. LockOf(o)
      BY <2>2 DEF Lanes, LockInv
    <3>3. /\ \A t \in Turn : pc[t] \in {"locking", "granted"} => pc'[t] = pc[t]
          /\ \A t \in Turn : pc'[t] = "granted" => pc[t] = "granted"
      BY <2>1
    <3>4. \A k \in 1 .. Len(sessions[o].waiters) : sessions[o].waiters[k] \in Turn
      BY <3>1
    <3> QED
      BY <2>1, <2>2, <3>2, <3>3, <3>4 DEF LockOf
  <2>3. CASE Fresh(sessions'[o]) /\ \A t \in Turn : object[t] # o
    BY <2>1, <2>3 DEF Fresh, LockOf
  <2> QED
    BY <1>2, <2>2, <2>3, OuterForms
<1> QED
  BY <1>1, <1>2, Untouched, InnerForms DEF Next, Load, Inner, Done, LockInv

\* A round is parked behind those that wait, which became due before it.
LEMMA RoundsStep == ASSUME TypeOK, Lanes, [Next]_vars PROVE RoundsInv'
<1>1. ASSUME Inner, NEW o \in 1 .. Len(sessions), Registered(o) PROVE RoundsOf(o)'
  <2> DEFINE s == sessions[o]
             w == s.waiting_rounds
  <2>1. /\ w \in Seq(Turn) /\ Len(w) \in Nat /\ \A k \in 1 .. Len(w) : w[k] \in Turn
        /\ \A t \in Turn : First(w, t) <=> Len(w) # 0 /\ w[1] = t
    BY SessionParts DEF First
  <2>2. RoundsOf(o)
    BY <1>1 DEF Lanes, RoundsInv
  <2>3. CASE Quiet
    BY <2>1, <2>2, <2>3 DEF Quiet, RoundsOf
  <2>4. ASSUME NEW p \in 1 .. Len(sessions), NEW t \in Turn, p # o, Registered(p),
               Parks(t, p) \/ Awaits(t, p) \/ Passes(t, p) \/ Ends(t, p)
        PROVE  RoundsOf(o)'
    <3>1. /\ sessions'[o] = sessions[o] /\ object'[t] = p
          /\ pc[t] = "arriving" \/ object[t] = p
          /\ \A u \in Turn : u # t => object'[u] = object[u]
          /\ \A u \in Turn : u # t /\ object[u] = o => pc'[u] = pc[u]
      BY <2>4, Elsewhere
    <3>2. \A u \in Turn : (pc'[u] = "parked" /\ object'[u] = o) <=> (pc[u] = "parked" /\ object[u] = o)
      BY <2>4, <3>1
    <3> HIDE DEF w, s
    <3> QED
      BY <2>1, <2>2, <3>1, <3>2 DEF RoundsOf, w, s
  <2>5. ASSUME NEW t \in Turn, Parks(t, o) PROVE RoundsOf(o)'
    <3> DEFINE w1 == Append(w, t)
    <3>1. sessions'[o].waiting_rounds = w1
      BY <2>5 DEF Parks, Becomes
    <3>2. /\ w1 \in Seq(Turn) /\ Len(w1) = Len(w) + 1 /\ w1[Len(w) + 1] = t
          /\ \A k \in 1 .. Len(w) : w1[k] = w[k]
      BY <2>1
    <3>3. /\ \A u \in Turn : pc'[u] = IF u = t THEN "parked" ELSE pc[u]
          /\ \A u \in Turn : object'[u] = IF u = t THEN o ELSE object[u]
          /\ pc[t] = "arriving"
      BY <2>5 DEF Parks, Moved
    <3>4. \A k \in 1 .. Len(w) : pc[w[k]] = "parked" /\ object[w[k]] = o
      BY <2>2 DEF RoundsOf
    <3> HIDE DEF w1, w
    <3>5. \A k \in 1 .. Len(w) : w[k] < t
      <4>1. \A u \in Turn : u > t => pc[u] # "parked"
        BY <3>3 DEF Lanes, DueInv
      <4> QED
        BY <2>1, <3>3, <3>4, <4>1 DEF Turn
    <3>6. \A k \in 1 .. Len(w1) : object'[w1[k]] = o /\ pc'[w1[k]] = "parked"
      BY <2>1, <3>2, <3>3, <3>4
    <3>7. \A k, l \in 1 .. Len(w1) : k < l => w1[k] < w1[l]
      <4>1. \A k, l \in 1 .. Len(w) : k < l => w[k] < w[l]
        BY <2>2 DEF RoundsOf, w
      <4> QED
        BY <2>1, <3>2, <3>5, <4>1
    <3>8. ASSUME NEW u \in Turn, pc'[u] = "parked", object'[u] = o PROVE \E k \in 1 .. Len(w1) : w1[k] = u
      <4>1. u = t \/ \E k \in 1 .. Len(w) : w[k] = u
        BY <2>2, <3>3, <3>8 DEF RoundsOf, w
      <4> QED
        BY <2>1, <3>2, <4>1
    <3> QED
      BY <3>1, <3>6, <3>7, <3>8 DEF RoundsOf
  <2>6. ASSUME NEW t \in Turn, Awaits(t, o) \/ Passes(t, o) PROVE RoundsOf(o)'
    <3>1. /\ sessions'[o].waiting_rounds = w /\ pc[t] # "parked"
          /\ \E p \in {"locking", "sent", "raised"} : Moved(t, o, p)
      BY <2>6 DEF Awaits, Passes, Becomes
    <3> QED
      BY <2>1, <2>2, <3>1 DEF Moved, RoundsOf
  <2>7. ASSUME NEW t \in Turn, Ends(t, o) PROVE RoundsOf(o)'
    <3> DEFINE w1 == Left(w)
    <3>1. /\ sessions'[o].waiting_rounds = w1 /\ object' = object
          /\ \A u \in Turn : pc'[u] = IF u = t THEN IF pc[t] = "answered" THEN "done" ELSE "failed"
                                      ELSE IF First(w, u) THEN "woken"
                                      ELSE IF Grants(s, u) THEN "granted"
                                      ELSE pc[u]
          /\ pc[t] \in {"answered", "failing"} /\ object[t] = o
      BY <2>7, Zenon DEF Ends, Becomes
    <3>2. /\ \A k \in 1 .. Len(w1) : w1[k] = w[k + 1] /\ k + 1 \in 1 .. Len(w)
          /\ \A k \in 1 .. Len(w) : k # 1 => k - 1 \in 1 .. Len(w1) /\ w1[k - 1] = w[k]
      <4>1. \A k \in 1 .. Len(w1) : w1[k] = w[k + 1] /\ k + 1 \in 1 .. Len(w)
        BY <2>1, Firsts
      <4>2. Len(w) # 0 => w1 = Tail(w) /\ Len(w1) = Len(w) - 1
        BY <2>1 DEF Left
      <4> HIDE DEF w, w1
      <4> QED
        BY <2>1, <4>1, <4>2
    <3>3. \A k \in 1 .. Len(w) : pc[w[k]] = "parked" /\ object[w[k]] = o
      BY <2>2 DEF RoundsOf
    <3>4. \A k, l \in 1 .. Len(w) : k < l => w[k] < w[l]
      BY <2>2 DEF RoundsOf
    <3>5. \A u \in Turn : Grants(s, u) => pc[u] = "locking"
      BY DEF Grants
    <3> HIDE DEF w1, w, s
    <3>6. ASSUME NEW k \in 1 .. Len(w), k # 1 PROVE object'[w[k]] = o /\ pc'[w[k]] = "parked"
      <4>1. 1 \in 1 .. Len(w) /\ 1 < k
        BY <2>1, <3>6
      <4>2. w[1] < w[k] /\ w[k] \in Turn /\ w[1] \in Turn
        BY <2>1, <3>4, <4>1
      <4>3. ~First(w, w[k])
        BY <2>1, <4>2 DEF Turn
      <4> QED
        BY <3>1, <3>3, <3>5, <4>2, <4>3
    <3>7. \A k \in 1 .. Len(w1) : object'[w1[k]] = o /\ pc'[w1[k]] = "parked"
      <4>1. \A k \in 1 .. Len(w1) : k + 1 # 1 /\ k + 1 \in 1 .. Len(w) /\ w1[k] = w[k + 1]
        BY <3>2
      <4> QED
        BY <3>6, <4>1
    <3>8. \A k, l \in 1 .. Len(w1) : k < l => w1[k] < w1[l]
      <4>1. \A k, l \in 1 .. Len(w1) : k < l => k + 1 < l + 1
        OBVIOUS
      <4> QED
        BY <3>2, <3>4, <4>1
    <3>9. ASSUME NEW u \in Turn, pc'[u] = "parked", object'[u] = o PROVE \E k \in 1 .. Len(w1) : w1[k] = u
      <4>1. pc[u] = "parked" /\ object[u] = o /\ ~First(w, u)
        BY <3>1, <3>9
      <4>2. PICK k \in 1 .. Len(w) : w[k] = u
        BY <2>2, <4>1 DEF RoundsOf, w, s
      <4>3. k # 1
        BY <2>1, <4>1, <4>2
      <4> QED
        BY <3>2, <4>2, <4>3
    <3> QED
      BY <3>1, <3>7, <3>8, <3>9 DEF RoundsOf
  <2> QED
    BY <1>1, <2>3, <2>4, <2>5, <2>6, <2>7, InnerForms
<1>2. ASSUME Load \/ Drain \/ EndStage \/ UNCHANGED vars, NEW o \in 1 .. Len(sessions'), Registered(o)'
      PROVE  RoundsOf(o)'
  <2>1. /\ object' = object
        /\ \A t \in Turn : pc'[t] # pc[t] =>
             <<pc[t], pc'[t]>> \in {<<"unloaded", "scheduled">>, <<"scheduled", "dropped">>}
    BY <1>2, OuterForms
  <2>2. CASE o \in 1 .. Len(sessions) /\ Registered(o) /\ sessions'[o] = sessions[o]
    <3>1. sessions[o].waiting_rounds \in Seq(Turn)
      BY <2>2, SessionParts
    <3> QED
      BY <2>1, <2>2, <3>1 DEF Lanes, RoundsInv, RoundsOf
  <2>3. CASE Fresh(sessions'[o]) /\ \A t \in Turn : object[t] # o
    BY <2>1, <2>3 DEF Fresh, RoundsOf
  <2> QED
    BY <1>2, <2>2, <2>3, OuterForms
<1> QED
  BY <1>1, <1>2, Untouched, InnerForms DEF Next, Load, Inner, Done, RoundsInv

\* The lock is taken when nobody has it, and given back by the turn that has it.
LEMMA OwnerStep == ASSUME TypeOK, Lanes, [Next]_vars PROVE OwnerInv'
<1>1. ASSUME Inner, NEW o \in 1 .. Len(sessions), Registered(o) PROVE OwnerOf(o)'
  <2>1. OwnerOf(o) /\ LockOf(o) /\ RoundsOf(o) /\ sessions[o].in_flight \in BOOLEAN
    BY <1>1, SessionParts DEF Lanes, OwnerInv, LockInv, RoundsInv
  <2>2. CASE Quiet
    <3>1. Owners(o)' = Owners(o)
      BY <2>2 DEF Quiet, Owners, Holding
    <3> QED
      BY <2>1, <2>2, <3>1 DEF Quiet, OwnerOf
  <2>3. ASSUME NEW p \in 1 .. Len(sessions), NEW t \in Turn, p # o, Registered(p),
               Parks(t, p) \/ Awaits(t, p) \/ Passes(t, p) \/ Ends(t, p)
        PROVE  OwnerOf(o)'
    <3>1. /\ sessions'[o] = sessions[o] /\ object'[t] = p
          /\ pc[t] = "arriving" \/ object[t] = p
          /\ \A u \in Turn : u # t => object'[u] = object[u]
          /\ \A u \in Turn : u # t /\ object[u] = o => pc'[u] = pc[u]
      BY <2>3, Elsewhere
    <3>2. Owners(o)' = Owners(o)
      BY <2>3, <3>1 DEF Owners, Holding
    <3> QED
      BY <2>1, <3>1, <3>2 DEF OwnerOf
  <2>4. ASSUME NEW t \in Turn, Parks(t, o) \/ Awaits(t, o) PROVE OwnerOf(o)'
    <3>1. sessions'[o].in_flight = sessions[o].in_flight
      BY <2>4, Zenon DEF Parks, Awaits, Becomes
    <3>2. /\ pc[t] \in {"arriving", "woken"}
          /\ Moved(t, o, "parked") \/ Moved(t, o, "locking")
      BY <2>4 DEF Parks, Awaits
    <3>3. Owners(o)' = Owners(o)
      BY <3>2 DEF Moved, Owners, Holding
    <3> QED
      BY <2>1, <3>1, <3>3 DEF OwnerOf
  <2>5. ASSUME NEW t \in Turn, Passes(t, o) PROVE OwnerOf(o)'
    <3>1. sessions'[o].in_flight
      BY <2>5 DEF Passes, Becomes
    <3>2. ~sessions[o].in_flight
      BY <2>1, <2>5 DEF Passes, LockIsFree, LockOf
    <3>3. Owners(o) = {}
      BY <2>1, <3>2 DEF OwnerOf
    <3>4. Moved(t, o, "sent") \/ Moved(t, o, "raised")
      BY <2>5 DEF Passes
    <3>5. Owners(o)' = {t}
      BY <3>3, <3>4 DEF Moved, Owners, Holding
    <3> QED
      BY <3>1, <3>5 DEF OwnerOf
  <2>6. ASSUME NEW t \in Turn, Ends(t, o) PROVE OwnerOf(o)'
    <3> DEFINE s == sessions[o]
    <3>1. /\ sessions'[o].in_flight = FALSE /\ object' = object
          /\ \A u \in Turn : pc'[u] = IF u = t THEN IF pc[t] = "answered" THEN "done" ELSE "failed"
                                      ELSE IF First(s.waiting_rounds, u) THEN "woken"
                                      ELSE IF Grants(s, u) THEN "granted"
                                      ELSE pc[u]
          /\ pc[t] \in {"answered", "failing"} /\ object[t] = o
      BY <2>6, Zenon DEF Ends, Becomes
    <3>2. t \in Owners(o)
      BY <3>1 DEF Owners, Holding
    <3>3. Owners(o) = {t}
      BY <2>1, <3>2 DEF OwnerOf
    <3> HIDE DEF s
    <3>4. Owners(o)' = {}
      BY <3>1, <3>3 DEF Owners, Holding
    <3> QED
      BY <3>1, <3>4 DEF OwnerOf
  <2> QED
    BY <1>1, <2>2, <2>3, <2>4, <2>5, <2>6, InnerForms
<1>2. ASSUME Load \/ Drain \/ EndStage \/ UNCHANGED vars, NEW o \in 1 .. Len(sessions'), Registered(o)'
      PROVE  OwnerOf(o)'
  <2>1. /\ object' = object
        /\ \A t \in Turn : pc'[t] # pc[t] =>
             <<pc[t], pc'[t]>> \in {<<"unloaded", "scheduled">>, <<"scheduled", "dropped">>}
    BY <1>2, OuterForms
  <2>2. Owners(o)' = Owners(o)
    BY <2>1 DEF Owners, Holding
  <2>3. CASE o \in 1 .. Len(sessions) /\ Registered(o) /\ sessions'[o] = sessions[o]
    BY <2>2, <2>3 DEF Lanes, OwnerInv, OwnerOf
  <2>4. CASE Fresh(sessions'[o]) /\ \A t \in Turn : object[t] # o
    <3>1. Owners(o) = {}
      BY <2>4 DEF Owners
    <3> QED
      BY <2>2, <2>4, <3>1 DEF Fresh, OwnerOf
  <2> QED
    BY <1>2, <2>3, <2>4, OuterForms
<1> QED
  BY <1>1, <1>2, Untouched, InnerForms DEF Next, Load, Inner, Done, OwnerInv

\* A step between two awaits is one of the first turn in the loop's queue.
LEMMA StepForm ==
  ASSUME TypeOK, Lanes, Step
  PROVE  /\ Current \in Turn /\ ready # <<>> /\ Current = ready[1] /\ Advances
         /\ pc[Current] \in {"arriving", "woken", "granted", "answered", "failing"}
         /\ pc'[Current] \notin {"unloaded", "scheduled", "arriving"}
         /\ \A u \in Turn : u # Current /\ pc'[u] # pc[u] =>
              <<pc[u], pc'[u]>> \in {<<"parked", "woken">>, <<"locking", "granted">>}
<1> DEFINE t == Current
<1>1. t \in Turn /\ ready # <<>> /\ ready \in Seq(Turn) /\ t = ready[1]
  BY SessionOfTask DEF Step, TypeOK, Current
<1>2. \A u \in Turn : pc'[u] # pc[u] => <<pc[u], pc'[u]>> \in Moves
  BY TurnsMove DEF Inner
<1>3. pc \in [Turn -> {"unloaded"} \cup Task \cup Ended]
  BY DEF TypeOK
<1> HIDE DEF t
<1>4. CASE Drop(t)
  <2>1. pc[t] = "arriving" /\ pc' = [pc EXCEPT ![t] = "dropped"] /\ ready' = Tail(ready)
    BY <1>4 DEF Drop
  <2> QED
    BY <1>1, <1>3, <2>1, Leaving DEF t
<1>5. CASE Park(t) \/ AwaitLock(t) \/ Pass(t)
  <2>1. ready' = Tail(ready)
    BY <1>5, Zenon DEF Park, AwaitLock, Pass
  <2>2. /\ pc[t] \in {"arriving", "woken", "granted"}
        /\ \E p \in {"parked", "locking", "sent", "raised"} : pc' = [pc EXCEPT ![t] = p]
    <3>1. CASE Park(t)
      BY <3>1 DEF Park, Arrives
    <3>2. CASE AwaitLock(t)
      <4>1. PICK o : Reaches(t, o) /\ pc' = [pc EXCEPT ![t] = "locking"]
        BY <1>1, <3>2, AwaitEffect, Zenon
      <4> QED
        BY <4>1 DEF Reaches, Arrives
    <3>3. CASE Pass(t)
      <4>1. PICK o : Takes(t, o) /\ (pc' = [pc EXCEPT ![t] = "sent"] \/ pc' = [pc EXCEPT ![t] = "raised"])
        BY <1>1, <3>3, PassEffect, Zenon
      <4> QED
        BY <4>1 DEF Takes, Reaches, Arrives
    <3> QED
      BY <1>5, <3>1, <3>2, <3>3
  <2>3. Advances
    BY <1>1, <2>1, Leaving
  <2> QED
    BY <1>1, <1>3, <2>2, <2>3 DEF t
<1>6. CASE End(t)
  <2> DEFINE o == registry[id[t]]
             s == sessions[o]
  <2>1. /\ o \in 1 .. Len(sessions) /\ Registered(o) /\ Advances
        /\ pc[t] \in {"answered", "failing"}
        /\ pc' = [u \in Turn |-> IF u = t THEN IF pc[t] = "answered" THEN "done" ELSE "failed"
                                  ELSE IF First(s.waiting_rounds, u) THEN "woken"
                                  ELSE IF Grants(s, u) THEN "granted"
                                  ELSE pc[u]]
    BY <1>1, <1>6, EndEffect, Zenon
  <2> HIDE DEF o, s
  <2>2. \A u \in Turn : u # t /\ pc'[u] # pc[u] => pc'[u] \in {"woken", "granted"}
    BY <2>1
  <2>3. \A u \in Turn : u # t /\ pc'[u] # pc[u] => <<pc[u], pc'[u]>> \in {<<"parked", "woken">>, <<"locking", "granted">>}
    BY <1>2, <2>2 DEF Moves
  <2>4. pc'[t] \in {"done", "failed"}
    BY <1>1, <2>1
  <2> QED
    BY <1>1, <2>1, <2>3, <2>4 DEF t
<1> QED
  BY <1>4, <1>5, <1>6 DEF Step, t

\* Timers expire and tasks run in the order of their turns.
LEMMA DueStep == ASSUME TypeOK, Lanes, [Next]_vars PROVE DueInv'
<1>1. /\ pc \in [Turn -> {"unloaded"} \cup Task \cup Ended] /\ ready \in Seq(Turn)
      /\ Len(ready) \in Nat /\ \A k \in 1 .. Len(ready) : ready[k] \in Turn
      /\ Turn \subseteq Nat
  <2>1. /\ pc \in [Turn -> {"unloaded"} \cup Task \cup Ended] /\ ready \in Seq(Turn)
        /\ Turn \subseteq Nat
    BY DEF TypeOK, Turn
  <2>2. Len(ready) \in Nat /\ \A k \in 1 .. Len(ready) : ready[k] \in Turn
    BY <2>1
  <2> QED
    BY <2>1, <2>2
<1>2. /\ \A t, u \in Turn : pc[t] = "scheduled" /\ u > t => pc[u] \in {"scheduled", "unloaded"}
      /\ \A t, u \in Turn : pc[t] = "arriving" /\ u > t
                              => pc[u] \in {"arriving", "scheduled", "unloaded", "dropped"}
      /\ \A t \in Turn : pc[t] = "arriving" => \E k \in 1 .. Len(ready) : ready[k] = t
      /\ \A k \in 1 .. Len(ready) : pc[ready[k]] \notin {"scheduled", "unloaded"}
      /\ \A k, l \in 1 .. Len(ready) :
           k < l /\ pc[ready[k]] = "arriving" /\ pc[ready[l]] = "arriving" => ready[k] < ready[l]
  BY DEF Lanes, DueInv
<1>3. CASE Load
  <2>1. loaded \in Nat /\ loaded + 1 \in Turn /\ pc' = [pc EXCEPT ![loaded + 1] = "scheduled"] /\ ready' = ready
    BY <1>3, Loading DEF LoadTurn
  <2>2. \A u \in Turn : pc[u] = "unloaded" <=> u > loaded
    BY DEF Lanes, LoadedInv
  <2>3. /\ \A u \in Turn : pc'[u] = IF u = loaded + 1 THEN "scheduled" ELSE pc[u]
        /\ pc[loaded + 1] = "unloaded" /\ \A u \in Turn : u > loaded + 1 => pc[u] = "unloaded"
    BY <1>1, <2>1, <2>2
  <2>4. ASSUME NEW t \in Turn, NEW u \in Turn, pc'[t] = "scheduled", u > t
        PROVE  pc'[u] \in {"scheduled", "unloaded"}
    BY <1>1, <1>2, <2>1, <2>3, <2>4
  <2>5. \A t, u \in Turn : pc'[t] = "arriving" /\ u > t
                            => pc'[u] \in {"arriving", "scheduled", "unloaded", "dropped"}
    BY <1>2, <2>3
  <2>6. ASSUME NEW k \in 1 .. Len(ready) PROVE pc'[ready[k]] = pc[ready[k]]
    <3>1. ready[k] \in Turn /\ pc[ready[k]] # "unloaded"
      BY <1>1, <1>2
    <3>2. ready[k] # loaded + 1
      BY <2>3, <3>1
    <3> QED
      BY <2>3, <3>1, <3>2
  <2>7. \A t \in Turn : pc'[t] = "arriving" => \E k \in 1 .. Len(ready) : ready[k] = t
    BY <1>2, <2>3
  <2>8. /\ \A k \in 1 .. Len(ready) : pc'[ready[k]] \notin {"scheduled", "unloaded"}
        /\ \A k, l \in 1 .. Len(ready) :
             k < l /\ pc'[ready[k]] = "arriving" /\ pc'[ready[l]] = "arriving" => ready[k] < ready[l]
    BY <1>2, <2>6
  <2> QED
    BY <2>1, <2>4, <2>5, <2>7, <2>8 DEF DueInv
<1>4. ASSUME NEW t \in Turn, NEW p, pc[t] \notin {"arriving"}, pc' = [pc EXCEPT ![t] = p],
             ready' = Append(ready, t),
             \/ pc[t] = "scheduled" /\ p = "arriving" /\ \A u \in Turn : pc[u] = "scheduled" => t <= u
             \/ pc[t] = "sent" /\ p \in {"answered", "failing"}
      PROVE  DueInv'
  <2>1. /\ ready' \in Seq(Turn) /\ Len(ready') = Len(ready) + 1 /\ ready'[Len(ready) + 1] = t
        /\ \A k \in 1 .. Len(ready) : ready'[k] = ready[k]
    BY <1>1, <1>4
  <2>2. \A u \in Turn : pc'[u] = IF u = t THEN p ELSE pc[u]
    BY <1>1, <1>4
  <2>3. \A u, v \in Turn : pc'[u] = "scheduled" /\ v > u => pc'[v] \in {"scheduled", "unloaded"}
    BY <1>1, <1>2, <1>4, <2>2
  <2>4. \A u, v \in Turn : pc'[u] = "arriving" /\ v > u
                            => pc'[v] \in {"arriving", "scheduled", "unloaded", "dropped"}
    BY <1>1, <1>2, <1>4, <2>2
  <2>5. ASSUME NEW u \in Turn, pc'[u] = "arriving" PROVE \E k \in 1 .. Len(ready') : ready'[k] = u
    <3>1. CASE u = t
      BY <1>1, <2>1, <3>1
    <3>2. CASE u # t
      <4>1. PICK k \in 1 .. Len(ready) : ready[k] = u
        BY <1>2, <2>2, <2>5, <3>2
      <4> QED
        BY <1>1, <2>1, <4>1
    <3> QED
      BY <3>1, <3>2
  <2>6. ASSUME NEW k \in 1 .. Len(ready') PROVE pc'[ready'[k]] \notin {"scheduled", "unloaded"}
    <3>1. CASE k \in 1 .. Len(ready)
      BY <1>1, <1>2, <1>4, <2>1, <2>2, <3>1
    <3>2. CASE k = Len(ready) + 1
      BY <1>4, <2>1, <2>2, <3>2
    <3> QED
      BY <1>1, <2>1, <3>1, <3>2
  <2>7. ASSUME NEW k \in 1 .. Len(ready'), NEW l \in 1 .. Len(ready'), k < l,
               pc'[ready'[k]] = "arriving", pc'[ready'[l]] = "arriving"
        PROVE  ready'[k] < ready'[l]
    <3>1. k \in 1 .. Len(ready) /\ ready'[k] = ready[k] /\ ready[k] \in Turn
      BY <1>1, <2>1, <2>7
    <3>2. pc[ready[k]] = "arriving" /\ ready[k] # t
      BY <1>2, <1>4, <2>2, <2>7, <3>1
    <3>3. CASE l \in 1 .. Len(ready)
      <4>1. ready'[l] = ready[l] /\ ready[l] \in Turn
        BY <1>1, <2>1, <3>3
      <4>2. pc[ready[l]] = "arriving"
        BY <1>2, <1>4, <2>2, <2>7, <3>3, <4>1
      <4> QED
        BY <1>2, <2>7, <3>1, <3>2, <3>3, <4>1, <4>2
    <3>4. CASE l = Len(ready) + 1
      <4>1. ready'[l] = t /\ pc[t] = "scheduled"
        BY <1>4, <2>1, <2>2, <2>7, <3>4
      <4>2. ~(t < ready[k])
        <5>1. \A u \in Turn : u > t => pc[u] \in {"scheduled", "unloaded"}
          BY <1>2, <4>1
        <5> QED
          BY <1>1, <3>1, <3>2, <5>1
      <4>3. t \in Nat /\ ready[k] \in Nat
        BY <1>1, <3>1
      <4>4. ready[k] < t
        BY <3>2, <4>2, <4>3
      <4> QED
        BY <3>1, <4>1, <4>4
    <3> QED
      BY <1>1, <2>1, <3>3, <3>4
  <2> QED
    BY <2>3, <2>4, <2>5, <2>6, <2>7 DEF DueInv
<1>5. ASSUME NEW t \in Turn, Due(t) PROVE DueInv'
  <2>1. /\ pc[t] = "scheduled" /\ \A u \in Turn : pc[u] = "scheduled" => t <= u
        /\ pc' = [pc EXCEPT ![t] = "arriving"] /\ ready' = Append(ready, t)
    BY <1>5 DEF Due
  <2> QED
    BY <1>4, <2>1
<1>6. ASSUME NEW t \in Turn, Answer(t) PROVE DueInv'
  <2>1. /\ pc[t] = "sent" /\ ready' = Append(ready, t)
        /\ pc' = [pc EXCEPT ![t] = "answered"] \/ pc' = [pc EXCEPT ![t] = "failing"]
    BY <1>6, Zenon DEF Answer
  <2> QED
    BY <1>4, <2>1
<1>7. CASE Step
  <2> DEFINE t == Current
  <2>1. /\ t \in Turn /\ Len(ready) # 0 /\ t = ready[1]
        /\ pc[t] \in {"arriving", "woken", "granted", "answered", "failing"}
        /\ pc'[t] \notin {"unloaded", "scheduled", "arriving"}
        /\ \A u \in Turn : u # t /\ pc'[u] # pc[u] =>
             <<pc[u], pc'[u]>> \in {<<"parked", "woken">>, <<"locking", "granted">>}
    BY <1>1, <1>7, StepForm
  <2>2. /\ ready' \in Seq(Turn) /\ Len(ready') \in Nat
        /\ \A k \in 1 .. Len(ready) - 1 : k \in 1 .. Len(ready') /\ ready'[k] = ready[k + 1]
        /\ \A k \in 1 .. Len(ready') :
             k \in 1 .. Len(ready) - 1 \/ pc'[ready'[k]] \notin {"unloaded", "scheduled", "arriving"}
    BY <1>7, StepForm DEF Advances
  <2> HIDE DEF t
  <2>3. \A u \in Turn :
          /\ pc'[u] = "scheduled" => pc[u] = "scheduled"
          /\ pc'[u] = "arriving" => pc[u] = "arriving" /\ u # t
          /\ pc'[u] = "unloaded" => pc[u] = "unloaded"
          /\ pc[u] \in {"scheduled", "unloaded", "dropped"} => pc'[u] = pc[u] /\ u # t
          /\ pc[u] = "arriving" /\ u # t => pc'[u] = "arriving"
    BY <2>1
  <2>4. \A u, v \in Turn : pc'[u] = "scheduled" /\ v > u => pc'[v] \in {"scheduled", "unloaded"}
    BY <1>2, <2>3
  <2>5. ASSUME NEW u \in Turn, NEW v \in Turn, pc'[u] = "arriving", v > u
        PROVE  pc'[v] \in {"arriving", "scheduled", "unloaded", "dropped"}
    <3>1. pc[u] = "arriving" /\ u # t
      BY <2>3, <2>5
    <3>2. pc[v] \in {"arriving", "scheduled", "unloaded", "dropped"}
      BY <1>2, <2>5, <3>1
    <3>3. CASE v = t
      <4>1. pc[t] = "arriving"
        BY <2>1, <3>2, <3>3
      <4>2. PICK k \in 1 .. Len(ready) : ready[k] = u
        BY <1>2, <3>1
      <4>3. 1 \in 1 .. Len(ready) /\ 1 < k
        BY <1>1, <2>1, <3>1, <4>2
      <4>4. ready[1] < ready[k]
        BY <1>2, <2>1, <3>1, <4>1, <4>2, <4>3
      <4> QED
        BY <1>1, <2>1, <2>5, <3>3, <4>2, <4>4
    <3>4. CASE v # t
      BY <2>3, <3>2, <3>4
    <3> QED
      BY <3>3, <3>4
  <2>6. ASSUME NEW u \in Turn, pc'[u] = "arriving" PROVE \E k \in 1 .. Len(ready') : ready'[k] = u
    <3>1. pc[u] = "arriving" /\ u # t
      BY <2>3, <2>6
    <3>2. PICK k \in 1 .. Len(ready) : ready[k] = u
      BY <1>2, <3>1
    <3>3. k - 1 \in 1 .. Len(ready) - 1 /\ (k - 1) + 1 = k
      BY <1>1, <2>1, <3>1, <3>2
    <3> QED
      BY <2>2, <3>2, <3>3
  <2>7. ASSUME NEW k \in 1 .. Len(ready') PROVE pc'[ready'[k]] \notin {"scheduled", "unloaded"}
    <3>1. CASE k \in 1 .. Len(ready) - 1
      <4>1. ready'[k] = ready[k + 1] /\ k + 1 \in 1 .. Len(ready) /\ ready[k + 1] \in Turn
        BY <1>1, <2>2, <3>1
      <4> QED
        BY <1>2, <2>3, <4>1
    <3> QED
      BY <2>2, <3>1
  <2>8. ASSUME NEW k \in 1 .. Len(ready'), NEW l \in 1 .. Len(ready'), k < l,
               pc'[ready'[k]] = "arriving", pc'[ready'[l]] = "arriving"
        PROVE  ready'[k] < ready'[l]
    <3>1. k \in 1 .. Len(ready) - 1 /\ l \in 1 .. Len(ready) - 1
      BY <2>2, <2>8
    <3>2. /\ ready'[k] = ready[k + 1] /\ k + 1 \in 1 .. Len(ready) /\ ready[k + 1] \in Turn
          /\ ready'[l] = ready[l + 1] /\ l + 1 \in 1 .. Len(ready) /\ ready[l + 1] \in Turn
          /\ k + 1 < l + 1
      BY <1>1, <2>2, <2>8, <3>1
    <3>3. pc[ready[k + 1]] = "arriving" /\ pc[ready[l + 1]] = "arriving"
      BY <2>3, <2>8, <3>2
    <3> QED
      BY <1>2, <3>2, <3>3
  <2> QED
    BY <2>4, <2>5, <2>6, <2>7, <2>8 DEF DueInv
<1>8. CASE Drain
  <2>1. /\ ready' = ready
        /\ \A t \in Turn : pc'[t] = IF pc[t] = "scheduled" THEN "dropped" ELSE pc[t]
    BY <1>8 DEF Drain
  <2>2. \A t \in Turn : pc'[t] # "scheduled"
    BY <2>1
  <2>3. ASSUME NEW t \in Turn, NEW u \in Turn, pc'[t] = "arriving", u > t
        PROVE  pc'[u] \in {"arriving", "scheduled", "unloaded", "dropped"}
    <3>1. pc[t] = "arriving"
      BY <2>1, <2>3
    <3>2. pc[u] \in {"arriving", "scheduled", "unloaded", "dropped"}
      BY <1>2, <2>3, <3>1
    <3> QED
      BY <2>1, <3>2
  <2>4. \A t \in Turn : pc'[t] = "arriving" => \E k \in 1 .. Len(ready) : ready[k] = t
    BY <1>2, <2>1
  <2>5. \A k \in 1 .. Len(ready) : pc'[ready[k]] = pc[ready[k]]
    BY <1>1, <1>2, <2>1
  <2>6. /\ \A k \in 1 .. Len(ready) : pc'[ready[k]] \notin {"scheduled", "unloaded"}
        /\ \A k, l \in 1 .. Len(ready) :
             k < l /\ pc'[ready[k]] = "arriving" /\ pc'[ready[l]] = "arriving" => ready[k] < ready[l]
    BY <1>2, <2>5
  <2> QED
    BY <2>1, <2>2, <2>3, <2>4, <2>6 DEF DueInv
<1>9. CASE EndStage
  <2>1. ready' = <<>> /\ \A t \in Turn : pc'[t] \notin Task
    BY <1>9 DEF EndStage, Task, Queueing, Holding
  <2> QED
    BY <2>1 DEF DueInv, Task
<1>10. CASE UNCHANGED vars
  BY <1>2, <1>10 DEF vars, DueInv
<1> QED
  BY <1>3, <1>5, <1>6, <1>7, <1>8, <1>9, <1>10 DEF Next, Load, Done

\* The first round that waits is woken, and the turn that parks is the latest.
LEMMA WokenStep == ASSUME TypeOK, Lanes, [Next]_vars PROVE WokenInv'
<1>1. WokenInv /\ Turn \subseteq Nat
  BY DEF Lanes, Turn
<1>2. CASE Inner
  <2>1. CASE Quiet
    BY <1>1, <2>1 DEF Quiet, WokenInv
  <2>2. ASSUME NEW o \in 1 .. Len(sessions), NEW t \in Turn, Registered(o), Parks(t, o) PROVE WokenInv'
    <3>1. Moved(t, o, "parked") /\ pc[t] = "arriving"
      BY <2>2 DEF Parks
    <3>2. \A u \in Turn : u > t => pc[u] \notin {"woken", "locking", "granted"}
      BY <3>1 DEF Lanes, DueInv
    <3>3. \A u \in Turn : pc[u] \in {"woken", "locking", "granted"} => u < t
      BY <1>1, <3>1, <3>2
    <3> QED
      BY <1>1, <3>1, <3>3 DEF Moved, WokenInv
  <2>3. ASSUME NEW o \in 1 .. Len(sessions), NEW t \in Turn, Registered(o), Awaits(t, o) PROVE WokenInv'
    <3>1. Moved(t, o, "locking")
      BY <2>3 DEF Awaits
    <3>2. CASE pc[t] = "woken" /\ object[t] = o
      BY <1>1, <3>1, <3>2 DEF Moved, WokenInv
    <3>3. CASE pc[t] = "arriving" /\ sessions[o].waiting_rounds = <<>>
      <4>1. \A u \in Turn : ~(pc[u] = "parked" /\ object[u] = o)
        BY <2>3, <3>3 DEF Lanes, RoundsInv, RoundsOf
      <4> QED
        BY <1>1, <3>1, <3>3, <4>1 DEF Moved, WokenInv
    <3> QED
      BY <2>3, <3>2, <3>3 DEF Awaits
  <2>4. ASSUME NEW o \in 1 .. Len(sessions), NEW t \in Turn, Registered(o), Passes(t, o) PROVE WokenInv'
    <3>1. Moved(t, o, "sent") \/ Moved(t, o, "raised")
      BY <2>4 DEF Passes
    <3> QED
      BY <1>1, <3>1 DEF Moved, WokenInv
  <2>5. ASSUME NEW o \in 1 .. Len(sessions), NEW t \in Turn, Registered(o), Ends(t, o) PROVE WokenInv'
    <3> DEFINE w == sessions[o].waiting_rounds
    <3>1. /\ object' = object
          /\ \A u \in Turn : pc'[u] = IF u = t THEN IF pc[t] = "answered" THEN "done" ELSE "failed"
                                      ELSE IF First(w, u) THEN "woken"
                                      ELSE IF Grants(sessions[o], u) THEN "granted"
                                      ELSE pc[u]
      BY <2>5, Zenon DEF Ends
    <3>2. RoundsOf(o) /\ w \in Seq(Turn)
      BY <2>5, SessionParts DEF Lanes, RoundsInv
    <3>3. \A u \in Turn : Grants(sessions[o], u) => pc[u] = "locking"
      BY DEF Grants
    <3>4. ASSUME NEW x \in Turn, NEW u \in Turn, First(w, u), x # u, pc[x] = "parked", object[x] = object[u]
          PROVE  u < x
      <4>1. Len(w) \in Nat /\ 1 \in 1 .. Len(w) /\ u = w[1]
        BY <3>2, <3>4 DEF First
      <4>2. object[u] = o
        BY <3>2, <4>1 DEF RoundsOf
      <4>3. PICK k \in 1 .. Len(w) : w[k] = x
        BY <3>2, <3>4, <4>2 DEF RoundsOf
      <4>4. 1 < k
        BY <3>4, <4>1, <4>3
      <4> QED
        BY <3>2, <4>1, <4>3, <4>4 DEF RoundsOf
    <3> HIDE DEF w
    <3>5. ASSUME NEW x \in Turn, NEW u \in Turn, pc'[x] = "parked",
                 pc'[u] \in {"woken", "locking", "granted"}, object[x] = object[u]
          PROVE  u < x
      <4>1. pc[x] = "parked" /\ x # t /\ ~First(w, x)
        BY <3>1, <3>5
      <4>2. CASE First(w, u)
        BY <3>4, <3>5, <4>1, <4>2
      <4>3. CASE ~First(w, u)
        <5>1. pc[u] \in {"woken", "locking", "granted"}
          BY <3>1, <3>3, <3>5, <4>3
        <5> QED
          BY <1>1, <3>5, <4>1, <5>1 DEF WokenInv
      <4> QED
        BY <4>2, <4>3
    <3> QED
      BY <3>1, <3>5 DEF WokenInv
  <2> QED
    BY <1>2, <2>1, <2>2, <2>3, <2>4, <2>5, InnerForms
<1>3. CASE Load \/ Drain \/ UNCHANGED vars
  <2>1. ~EndStage \/ EndStage
    OBVIOUS
  <2>2. CASE EndStage
    <3>1. \A t \in Turn : pc'[t] \notin Task
      BY <2>2 DEF EndStage, Task, Queueing, Holding
    <3> QED
      BY <3>1 DEF WokenInv, Task, Queueing
  <2>3. CASE ~EndStage
    <3>1. /\ object' = object
          /\ \A t \in Turn : pc'[t] # pc[t] =>
               <<pc[t], pc'[t]>> \in {<<"unloaded", "scheduled">>, <<"scheduled", "dropped">>}
      BY <1>3, <2>3, OuterForms
    <3> QED
      BY <1>1, <3>1 DEF WokenInv
  <2> QED
    BY <2>2, <2>3
<1>4. CASE EndStage
  <2>1. \A t \in Turn : pc'[t] \notin Task
    BY <1>4 DEF EndStage, Task, Queueing, Holding
  <2> QED
    BY <2>1 DEF WokenInv, Task, Queueing
<1> QED
  BY <1>2, <1>3, <1>4 DEF Next, Load, Inner, Done

-----------------------------------------------------------------------------
(* The theorems *)

\* Where the turns and the sessions stand, in every state that is reached.
LEMMA LanesKept == ASSUME DistinctIds PROVE Spec => [](TypeOK /\ Lanes)
<1>1. Init => TypeOK /\ Lanes
  BY InitOK
<1>2. TypeOK /\ Lanes /\ [Next]_vars => (TypeOK /\ Lanes)'
  <2> SUFFICES ASSUME TypeOK, Lanes, [Next]_vars PROVE TypeOK' /\ Lanes'
    OBVIOUS
  <2>1. LoadedInv' /\ NamedInv' /\ SlotInv' /\ LockInv' /\ RoundsInv'
    BY LoadedStep, NamedStep, SlotStep, LockStep, RoundsStep
  <2>2. OwnerInv' /\ DueInv' /\ WokenInv'
    BY OwnerStep, DueStep, WokenStep
  <2> QED
    BY <2>1, <2>2, TypeStep DEF Lanes
<1> QED
  BY <1>1, <1>2, PTL DEF Spec

\* A worker's turns, sessions, registry and queue have their types throughout.
THEOREM SessionsAreTyped == ASSUME DistinctIds PROVE Spec => []TypeOK
<1>1. TypeOK /\ Lanes => TypeOK
  OBVIOUS
<1> QED
  BY <1>1, LanesKept, PTL

\* The lock of a registered session is held by exactly one turn while it is held:
\* no turn releases what another holds, and none leaves it held when it ends.
THEOREM TurnsExclude == ASSUME DistinctIds PROVE Spec => []OneTurnAtATime
<1>1. ASSUME TypeOK, Lanes PROVE OneTurnAtATime
  <2> SUFFICES ASSUME NEW o \in 1 .. Len(sessions), NEW i \in ID, registry[i] = o
               PROVE  LET holders == {t \in Turn : object[t] = o /\ pc[t] \in Holding}
                          raised == {t \in Turn : object[t] = o /\ pc[t] = "raised"}
                      IN Cardinality(holders \cup raised) = (IF sessions[o].in_flight THEN 1 ELSE 0)
    BY DEF OneTurnAtATime
  <2> DEFINE holders == {t \in Turn : object[t] = o /\ pc[t] \in Holding}
             raised == {t \in Turn : object[t] = o /\ pc[t] = "raised"}
  <2>1. holders \cup raised = Owners(o)
    BY DEF Owners
  <2>2. Registered(o)
    BY DEF Registered
  <2>3. OwnerOf(o)
    BY <1>1, <2>2 DEF Lanes, OwnerInv
  <2>4. CASE sessions[o].in_flight
    <3>1. PICK t \in Turn : Owners(o) = {t}
      BY <2>3, <2>4 DEF OwnerOf
    <3>2. Cardinality({t}) = 1
      BY FS_Singleton
    <3> QED
      BY <2>1, <2>4, <3>1, <3>2
  <2>5. CASE ~sessions[o].in_flight
    <3>1. Owners(o) = {}
      BY <2>3, <2>5 DEF OwnerOf
    <3>2. Cardinality({}) = 0
      BY FS_EmptySet
    <3> QED
      BY <2>1, <2>5, <3>1, <3>2
  <2> QED
    BY <2>4, <2>5
<1> QED
  BY <1>1, LanesKept, PTL

\* A turn whose request is sent has passed the session of its conversation, where
\* no earlier turn is still to come or waits for its round.
LEMMA PassingInOrder ==
  ASSUME TypeOK, Lanes, [Next]_vars, NEW t \in Turn, NEW u \in Turn,
         t < u, conversation[t] = conversation[u], pc[u] # "sent", pc'[u] = "sent"
  PROVE  pc[t] \notin {"scheduled", "arriving", "parked"}
<1>1. /\ pc \in [Turn -> {"unloaded"} \cup Task \cup Ended] /\ ready \in Seq(Turn)
      /\ id \in [Turn -> ID] /\ t \in Nat /\ u \in Nat
  BY DEF TypeOK, Turn
<1>2. Inner
  <2>1. CASE Load \/ Drain \/ EndStage \/ UNCHANGED vars
    <3>1. CASE EndStage
      BY <1>1, <3>1 DEF EndStage
    <3>2. CASE ~EndStage
      BY <2>1, <3>2, OuterForms
    <3> QED
      BY <3>1, <3>2
  <2> QED
    BY <2>1 DEF Next, Load, Inner, Done
<1>3. PICK o \in 1 .. Len(sessions) :
        Registered(o) /\ o = registry[id[u]] /\ ready # <<>> /\ u = Current /\ Passes(u, o)
  <2>1. ~Quiet
    BY DEF Quiet
  <2>2. PICK o \in 1 .. Len(sessions), v \in Turn :
          /\ Registered(o) /\ o = registry[id[v]] /\ ready # <<>> /\ v = Current
          /\ Parks(v, o) \/ Awaits(v, o) \/ Passes(v, o) \/ Ends(v, o)
    BY <1>2, <2>1, InnerForms
  <2>3. ~Parks(v, o) /\ ~Awaits(v, o) /\ ~Ends(v, o)
    BY DEF Parks, Awaits, Ends, Moved
  <2>4. v = u
    BY <2>2, <2>3 DEF Passes, Moved
  <2> QED
    BY <2>2, <2>3, <2>4
<1>4. pc[u] \in {"arriving", "woken", "granted"}
  BY <1>3 DEF Passes
<1> SUFFICES ASSUME pc[t] \in {"scheduled", "arriving", "parked"} PROVE FALSE
  OBVIOUS
<1>5. pc[t] # "scheduled"
  BY <1>4 DEF Lanes, DueInv
<1>6. id[t] = id[u]
  <2>1. t <= loaded /\ u <= loaded
    <3>1. loaded \in Nat /\ pc[t] # "unloaded" /\ pc[u] # "unloaded"
      BY <1>4, UserSessionAssumption DEF TypeOK
    <3>2. ~(t > loaded) /\ ~(u > loaded)
      BY <3>1 DEF Lanes, LoadedInv
    <3> QED
      BY <1>1, <3>1, <3>2
  <2>2. CASE \A x \in Turn : id[x] = 0
    BY <2>2
  <2>3. CASE \A x \in Turn : x <= loaded => conversation[x] = <<1, id[x]>>
    BY <2>1, <2>3
  <2> QED
    BY <2>2, <2>3 DEF Lanes, SlotInv
<1>7. CASE pc[t] = "arriving"
  <2>1. pc[u] = "arriving"
    BY <1>4, <1>7 DEF Lanes, DueInv
  <2>2. PICK k \in 1 .. Len(ready) : ready[k] = t
    BY <1>7 DEF Lanes, DueInv
  <2>3. u = ready[1] /\ 1 \in 1 .. Len(ready) /\ Len(ready) \in Nat
    BY <1>1, <1>3 DEF Current
  <2>4. 1 < k
    BY <1>1, <2>2, <2>3
  <2>5. ready[1] < ready[k]
    BY <1>7, <2>1, <2>2, <2>3, <2>4 DEF Lanes, DueInv
  <2> QED
    BY <1>1, <2>2, <2>3, <2>5
<1>8. CASE pc[t] = "parked"
  <2>1. object[t] = o
    BY <1>3, <1>6, <1>8 DEF Lanes, NamedInv, Queueing
  <2>2. RoundsOf(o)
    BY <1>3 DEF Lanes, RoundsInv
  <2>3. PICK k \in 1 .. Len(sessions[o].waiting_rounds) : sessions[o].waiting_rounds[k] = t
    BY <1>8, <2>1, <2>2 DEF RoundsOf
  <2>4. pc[u] \in {"woken", "granted"} /\ object[u] = o
    BY <1>3, <2>3 DEF Passes
  <2>5. u < t
    BY <1>8, <2>1, <2>4 DEF Lanes, WokenInv
  <2> QED
    BY <1>1, <2>5
<1> QED
  BY <1>5, <1>7, <1>8

\* No turn passes an earlier one of its conversation that is still to arrive or
\* waits for its round to be woken: the rounds that wait are woken in order, and a
\* turn that finds some waiting joins them.
THEOREM RoundsInOrder == ASSUME DistinctIds PROVE Spec => NotOvertakenBeforeWoken
<1>1. TypeOK /\ Lanes /\ [Next]_vars =>
        [\A t, u \in Turn :
           /\ t < u /\ conversation[t] = conversation[u]
           /\ pc[u] # "sent" /\ pc'[u] = "sent"
           => pc[t] \notin {"scheduled", "arriving", "parked"}]_vars
  BY PassingInOrder
<1> QED
  BY <1>1, LanesKept, PTL DEF Spec, NotOvertakenBeforeWoken

-----------------------------------------------------------------------------
(* Queues and the turns selected from them *)

\* Part of a sequence.
LEMMA PartOfSeq ==
  ASSUME NEW T, NEW q \in Seq(T), NEW m \in Nat \ {0}, NEW n \in 0 .. Len(q), m <= n + 1
  PROVE  /\ SubSeq(q, m, n) \in Seq(T) /\ Len(SubSeq(q, m, n)) = n + 1 - m
         /\ \A k \in 1 .. n + 1 - m : SubSeq(q, m, n)[k] = q[m + k - 1]
<1>1. Len(q) \in Nat /\ \A k \in m .. n : k \in 1 .. Len(q) /\ q[k] \in T
  OBVIOUS
<1>2. SubSeq(q, m, n) \in Seq(T)
  BY <1>1
<1>3. Len(SubSeq(q, m, n)) = n + 1 - m
  BY <1>1
<1>4. ASSUME NEW k \in 1 .. n + 1 - m PROVE SubSeq(q, m, n)[k] = q[m + k - 1]
  BY <1>1, <1>4
<1> QED
  BY <1>2, <1>3, <1>4

\* A queue is what is before its last turn, and that turn.
LEMMA LastOfQueue ==
  ASSUME NEW q \in Seq(Turn), q # <<>>
  PROVE  /\ Front(q) \in Seq(Turn) /\ Len(Front(q)) = Len(q) - 1 /\ Len(q) \in Nat \ {0}
         /\ Last(q) = q[Len(q)] /\ Last(q) \in Turn
         /\ q = Append(Front(q), Last(q))
         /\ \A k \in 1 .. Len(q) - 1 : Front(q)[k] = q[k] /\ k \in 1 .. Len(q)
<1>1. Len(q) \in Nat \ {0} /\ Last(q) = q[Len(q)] /\ Last(q) \in Turn
  BY DEF Last
<1>2. /\ Front(q) \in Seq(Turn) /\ Len(Front(q)) = Len(q) - 1
      /\ \A k \in 1 .. Len(q) - 1 : Front(q)[k] = q[k] /\ k \in 1 .. Len(q)
  <2> DEFINE n == Len(q) - 1
  <2>1. n \in 0 .. Len(q) /\ 1 \in Nat \ {0} /\ 1 <= n + 1 /\ n + 1 - 1 = Len(q) - 1
    BY <1>1
  <2>2. Front(q) = SubSeq(q, 1, n)
    BY DEF Front
  <2> HIDE DEF n
  <2>3. SubSeq(q, 1, n) \in Seq(Turn)
    BY <2>1, PartOfSeq
  <2>4. Len(SubSeq(q, 1, n)) = Len(q) - 1
    BY <2>1, PartOfSeq
  <2>5. ASSUME NEW k \in 1 .. Len(q) - 1 PROVE SubSeq(q, 1, n)[k] = q[k] /\ k \in 1 .. Len(q)
    <3>1. k \in 1 .. n + 1 - 1 /\ 1 + k - 1 = k /\ k \in 1 .. Len(q)
      BY <1>1, <2>1, <2>5
    <3>2. SubSeq(q, 1, n)[k] = q[1 + k - 1]
      BY <2>1, <3>1, PartOfSeq
    <3> QED
      BY <3>1, <3>2
  <2> QED
    BY <2>2, <2>3, <2>4, <2>5
<1>3. q = Append(Front(q), Last(q))
  <2> DEFINE f == Front(q)
             r == Append(f, q[Len(q)])
  <2>1. r \in Seq(Turn) /\ Len(r) = Len(q) /\ \A k \in 1 .. Len(q) : r[k] = q[k]
    <3> HIDE DEF f
    <3> QED
      BY <1>1, <1>2 DEF f
  <2>2. r = q
    BY <2>1
  <2> QED
    BY <1>1, <2>2
<1> QED
  BY <1>1, <1>2, <1>3

\* A queue that gains a turn.
LEMMA Appending ==
  ASSUME NEW q \in Seq(Turn), NEW x \in Turn
  PROVE  /\ Append(q, x) \in Seq(Turn) /\ Append(q, x) # <<>>
         /\ Front(Append(q, x)) = q /\ Last(Append(q, x)) = x
<1> DEFINE r == Append(q, x)
<1>1. /\ r \in Seq(Turn) /\ Len(r) = Len(q) + 1 /\ Len(q) \in Nat /\ r # <<>>
      /\ r[Len(q) + 1] = x /\ \A k \in 1 .. Len(q) : r[k] = q[k]
  OBVIOUS
<1> HIDE DEF r
<1>2. Last(r) = x
  BY <1>1, LastOfQueue
<1>3. Front(r) = q
  <2>1. Front(r) \in Seq(Turn) /\ Len(Front(r)) = Len(q) /\ \A k \in 1 .. Len(q) : Front(r)[k] = q[k]
    <3>1. /\ Front(r) \in Seq(Turn) /\ Len(Front(r)) = Len(r) - 1
          /\ \A k \in 1 .. Len(r) - 1 : Front(r)[k] = r[k]
      BY <1>1, LastOfQueue
    <3>2. Len(r) - 1 = Len(q)
      BY <1>1
    <3> QED
      BY <1>1, <3>1, <3>2
  <2> QED
    BY <2>1
<1> QED
  BY <1>1, <1>2, <1>3 DEF r

\* What is selected from a queue, turn by turn.
LEMMA AmongGrows ==
  /\ \A A \in SUBSET Turn : Among[<<>>][A] = <<>>
  /\ \A q \in Seq(Turn), A \in SUBSET Turn : Among[q][A] \in Seq(Turn)
  /\ \A q \in Seq(Turn), A \in SUBSET Turn, x \in Turn :
       Among[Append(q, x)][A] = IF x \in A THEN Append(Among[q][A], x) ELSE Among[q][A]
<1> DEFINE D     == Seq(Turn)
           Sets  == SUBSET Turn
           V     == [Sets -> D]
           Is(f) == f = [q \in D |-> [A \in Sets |-> IF q = <<>> THEN <<>>
                      ELSE IF Last(q) \in A THEN Append(f[Front(q)][A], Last(q)) ELSE f[Front(q)][A]]]
           rank  == [q \in D |-> Len(q)]
           prev  == [q \in D |-> Front(q)]
           empty == [A \in Sets |-> <<>>]
           more(q, v) == [A \in Sets |-> IF Last(q) \in A /\ Last(q) \in Turn THEN Append(v[A], Last(q)) ELSE v[A]]
           step  == [x \in D \X V |-> more(x[1], x[2])]
<1>1. \A q \in D : rank[q] \in Nat /\ (rank[q] = 0 <=> q = <<>>)
  OBVIOUS
<1>2. Ranked(D, rank, prev)
  BY <1>1, LastOfQueue DEF Ranked
<1>3. empty \in V /\ step \in [D \X V -> V]
  <2>1. \A q \in D, v \in V : more(q, v) \in V
    OBVIOUS
  <2>2. empty \in V
    OBVIOUS
  <2> HIDE DEF more, V, D, empty
  <2> QED
    BY <2>1, <2>2
<1>4. PICK f \in [D -> V] : RecursOn(f, D, rank, prev, empty, step)
  <2> HIDE DEF D, V, rank, prev, empty, step
  <2> QED
    BY <1>2, <1>3, RankedRecursion
<1>5. Is(f)
  <2>1. ASSUME NEW q \in D
        PROVE  f[q] = [A \in Sets |-> IF q = <<>> THEN <<>>
                       ELSE IF Last(q) \in A THEN Append(f[Front(q)][A], Last(q)) ELSE f[Front(q)][A]]
    <3>1. f[q] = IF rank[q] = 0 THEN empty ELSE step[<<q, f[prev[q]]>>]
      <4> HIDE DEF D, V, rank, prev, empty, step
      <4> QED
        BY <1>4 DEF RecursOn
    <3>2. CASE q = <<>>
      BY <1>1, <3>1, <3>2
    <3>3. CASE q # <<>>
      <4>1. Front(q) \in D /\ Last(q) \in Turn /\ rank[q] # 0 /\ prev[q] = Front(q)
        BY <1>1, <3>3, LastOfQueue
      <4>2. f[Front(q)] \in V
        BY <1>4, <4>1
      <4>3. f[q] = more(q, f[Front(q)])
        <5> HIDE DEF more, D, V, rank, prev
        <5> QED
          BY <3>1, <4>1, <4>2
      <4> QED
        BY <3>3, <4>1, <4>3
    <3> QED
      BY <3>2, <3>3
  <2>2. f = [q \in D |-> f[q]]
    BY <1>4
  <2> HIDE DEF D, Sets
  <2> QED
    BY <2>1, <2>2
<1>6. Is(Among)
  <2>1. \E g : Is(g)
    BY <1>5
  <2>2. Among = CHOOSE g : Is(g)
    BY DEF Among
  <2> HIDE DEF Is
  <2> QED
    BY <2>1, <2>2
<1>7. ASSUME NEW q \in D, NEW A \in Sets
      PROVE  Among[q][A] = IF q = <<>> THEN <<>>
               ELSE IF Last(q) \in A THEN Append(Among[Front(q)][A], Last(q)) ELSE Among[Front(q)][A]
  <2> DEFINE g(p) == [B \in Sets |-> IF p = <<>> THEN <<>>
               ELSE IF Last(p) \in B THEN Append(Among[Front(p)][B], Last(p)) ELSE Among[Front(p)][B]]
  <2>1. Among = [p \in D |-> g(p)]
    BY <1>6
  <2>2. Among[q] = g(q)
    <3> HIDE DEF g, D
    <3> QED
      BY <1>7, <2>1
  <2> HIDE DEF D, Sets
  <2> QED
    BY <1>7, <2>2
<1> HIDE DEF Is
<1>8. \A q \in D, A \in Sets, x \in Turn :
        Among[Append(q, x)][A] = IF x \in A THEN Append(Among[q][A], x) ELSE Among[q][A]
  <2> SUFFICES ASSUME NEW q \in D, NEW A \in Sets, NEW x \in Turn
               PROVE  Among[Append(q, x)][A] = IF x \in A THEN Append(Among[q][A], x) ELSE Among[q][A]
    OBVIOUS
  <2>1. Append(q, x) \in D /\ Append(q, x) # <<>> /\ Front(Append(q, x)) = q /\ Last(Append(q, x)) = x
    BY Appending
  <2> DEFINE r == Append(q, x)
  <2> HIDE DEF r, D, Sets
  <2>2. Among[r][A] = IF r = <<>> THEN <<>>
               ELSE IF Last(r) \in A THEN Append(Among[Front(r)][A], Last(r)) ELSE Among[Front(r)][A]
    BY <1>7, <2>1 DEF r
  <2> QED
    BY <2>1, <2>2 DEF r
<1> DEFINE Good == {q \in D : \A A \in Sets : Among[q][A] \in D}
<1>9. \A q \in D : q \in Good
  <2>1. ASSUME NEW q \in D, rank[q] = 0 \/ prev[q] \in Good PROVE q \in Good
    <3>1. CASE q = <<>>
      BY <1>7, <3>1
    <3>2. CASE q # <<>>
      <4>1. Front(q) \in Good /\ Last(q) \in Turn
        BY <1>1, <2>1, <3>2, LastOfQueue
      <4>2. ASSUME NEW A \in Sets PROVE Among[q][A] \in D
        <5>1. Among[Front(q)][A] \in D
          BY <4>1, <4>2
        <5>2. Append(Among[Front(q)][A], Last(q)) \in D
          BY <4>1, <5>1
        <5> HIDE DEF D, Sets, Good
        <5> QED
          BY <1>7, <3>2, <5>1, <5>2
      <4> QED
        BY <4>2
    <3> QED
      BY <3>1, <3>2
  <2> HIDE DEF Good, D, rank, prev
  <2> QED
    BY <1>2, <2>1, RankedInduction
<1>10. <<>> \in D
  OBVIOUS
<1> QED
  BY <1>7, <1>8, <1>9, <1>10

\* What a queue has as soon as it has it without its last turn, all queues have.
LEMMA QueueInduction ==
  ASSUME NEW Good, <<>> \in Good,
         \A q \in Seq(Turn), x \in Turn : q \in Good => Append(q, x) \in Good
  PROVE  \A q \in Seq(Turn) : q \in Good
<1> DEFINE D    == Seq(Turn)
           rank == [q \in D |-> Len(q)]
           prev == [q \in D |-> Front(q)]
<1>1. \A q \in D : rank[q] \in Nat /\ (rank[q] = 0 <=> q = <<>>)
  OBVIOUS
<1>2. Ranked(D, rank, prev)
  BY <1>1, LastOfQueue DEF Ranked
<1>3. ASSUME NEW q \in D, rank[q] = 0 \/ prev[q] \in Good PROVE q \in Good
  <2>1. CASE q = <<>>
    BY <2>1
  <2>2. CASE q # <<>>
    <3>1. Front(q) \in Seq(Turn) /\ Last(q) \in Turn /\ q = Append(Front(q), Last(q)) /\ Front(q) \in Good
      BY <1>1, <1>3, <2>2, LastOfQueue
    <3>2. Append(Front(q), Last(q)) \in Good
      BY <3>1
    <3> QED
      BY <3>1, <3>2
  <2> QED
    BY <2>1, <2>2
<1> HIDE DEF D, rank, prev
<1>4. \A q \in D : q \in Good
  BY <1>2, <1>3, RankedInduction
<1> QED
  BY <1>4 DEF D

\* The turns of a queue.
In(q) == {q[k] : k \in 1 .. Len(q)}

\* The turns of a queue that gains one.
LEMMA InAppended ==
  ASSUME NEW q \in Seq(Turn), NEW x \in Turn
  PROVE  /\ In(Append(q, x)) = In(q) \cup {x} /\ In(q) \subseteq Turn
         /\ Append(q, x) \in Seq(Turn) /\ Len(Append(q, x)) = Len(q) + 1 /\ Len(q) \in Nat
         /\ \A k \in 1 .. Len(q) : Append(q, x)[k] = q[k] /\ k \in 1 .. Len(Append(q, x))
         /\ Append(q, x)[Len(q) + 1] = x
<1>1. /\ Append(q, x) \in Seq(Turn) /\ Len(Append(q, x)) = Len(q) + 1 /\ Len(q) \in Nat
      /\ \A k \in 1 .. Len(q) : Append(q, x)[k] = q[k] /\ k \in 1 .. Len(Append(q, x))
      /\ Append(q, x)[Len(q) + 1] = x
  OBVIOUS
<1>2. In(q) \subseteq Turn
  BY DEF In
<1> DEFINE r == Append(q, x)
<1> HIDE DEF r
<1>3. In(r) = In(q) \cup {x}
  <2>1. ASSUME NEW u \in In(r) PROVE u \in In(q) \cup {x}
    BY <1>1, <2>1 DEF In, r
  <2>2. ASSUME NEW u \in In(q) PROVE u \in In(r)
    <3>1. PICK k \in 1 .. Len(q) : u = q[k]
      BY <2>2 DEF In
    <3>2. k \in 1 .. Len(r) /\ r[k] = u
      BY <1>1, <3>1 DEF r
    <3> QED
      BY <3>2 DEF In
  <2>3. x \in In(r)
    <3>1. Len(q) + 1 \in 1 .. Len(r) /\ r[Len(q) + 1] = x
      BY <1>1 DEF r
    <3> QED
      BY <3>1 DEF In
  <2> QED
    BY <2>1, <2>2, <2>3
<1> QED
  BY <1>1, <1>2, <1>3 DEF r

\* Only the turns of the queue count, and no more are selected than there are.
LEMMA AmongOf ==
  ASSUME NEW A \in SUBSET Turn, NEW B \in SUBSET Turn
  PROVE  /\ \A q \in Seq(Turn) : A \cap In(q) = B \cap In(q) => Among[q][A] = Among[q][B]
         /\ \A q \in Seq(Turn) : Len(Among[q][A]) <= Len(q)
<1> DEFINE Good == {q \in Seq(Turn) : /\ A \cap In(q) = B \cap In(q) => Among[q][A] = Among[q][B]
                                      /\ Len(Among[q][A]) <= Len(q)}
<1>1. <<>> \in Good
  BY AmongGrows
<1>2. ASSUME NEW q \in Seq(Turn), NEW x \in Turn, q \in Good PROVE Append(q, x) \in Good
  <2> DEFINE r == Append(q, x)
  <2>1. In(r) = In(q) \cup {x} /\ r \in Seq(Turn) /\ Len(r) = Len(q) + 1 /\ Len(q) \in Nat
    BY InAppended
  <2>2. /\ Among[r][A] = IF x \in A THEN Append(Among[q][A], x) ELSE Among[q][A]
        /\ Among[r][B] = IF x \in B THEN Append(Among[q][B], x) ELSE Among[q][B]
        /\ Among[q][A] \in Seq(Turn)
    BY AmongGrows
  <2> HIDE DEF r
  <2>3. ASSUME A \cap In(r) = B \cap In(r) PROVE Among[r][A] = Among[r][B]
    <3>1. (x \in A <=> x \in B) /\ A \cap In(q) = B \cap In(q)
      BY <2>1, <2>3
    <3>2. Among[q][A] = Among[q][B]
      BY <1>2, <3>1
    <3> QED
      BY <2>2, <3>1, <3>2
  <2>4. Len(Among[r][A]) <= Len(r)
    <3> DEFINE a == Among[q][A]
    <3>1. a \in Seq(Turn) /\ Len(a) <= Len(q) /\ (Among[r][A] = Append(a, x) \/ Among[r][A] = a)
      BY <1>2, <2>2
    <3> HIDE DEF a
    <3>2. Len(a) \in Nat /\ Len(Append(a, x)) = Len(a) + 1
      BY <3>1
    <3> QED
      BY <2>1, <3>1, <3>2
  <2> QED
    BY <2>1, <2>3, <2>4 DEF r
<1>3. \A q \in Seq(Turn) : q \in Good
  <2> HIDE DEF Good
  <2> QED
    BY <1>1, <1>2, QueueInduction
<1> QED
  BY <1>3

\* No turn is twice in the queue.
Distinct(q) == \A k, l \in 1 .. Len(q) : q[k] = q[l] => k = l

\* A turn is selected in addition, and none behind it is.
LEMMA AmongWith ==
  ASSUME NEW A \in SUBSET Turn, NEW t \in Turn, t \notin A
  PROVE  \A q \in Seq(Turn) :
           /\ Distinct(q)
           /\ \E k \in 1 .. Len(q) : q[k] = t /\ \A l \in 1 .. Len(q) : l > k => q[l] \notin A
           => Among[q][A \cup {t}] = Append(Among[q][A], t)
<1> DEFINE Is(q) == /\ Distinct(q)
                    /\ \E k \in 1 .. Len(q) : q[k] = t /\ \A l \in 1 .. Len(q) : l > k => q[l] \notin A
           B     == A \cup {t}
           Good  == {q \in Seq(Turn) : Is(q) => Among[q][B] = Append(Among[q][A], t)}
<1>1. <<>> \in Good
  OBVIOUS
<1>2. ASSUME NEW q \in Seq(Turn), NEW x \in Turn, q \in Good PROVE Append(q, x) \in Good
  <2> DEFINE r == Append(q, x)
  <2>1. /\ In(r) = In(q) \cup {x} /\ r \in Seq(Turn) /\ Len(r) = Len(q) + 1 /\ Len(q) \in Nat
        /\ \A k \in 1 .. Len(q) : r[k] = q[k] /\ k \in 1 .. Len(r)
        /\ r[Len(q) + 1] = x
    BY InAppended
  <2>2. /\ Among[r][A] = IF x \in A THEN Append(Among[q][A], x) ELSE Among[q][A]
        /\ Among[r][B] = IF x \in B THEN Append(Among[q][B], x) ELSE Among[q][B]
    BY AmongGrows
  <2> HIDE DEF r
  <2>3. ASSUME Is(r) PROVE Among[r][B] = Append(Among[r][A], t)
    <3>1. PICK k \in 1 .. Len(r) : r[k] = t /\ \A l \in 1 .. Len(r) : l > k => r[l] \notin A
      BY <2>3
    <3>2. Distinct(r)
      BY <2>3
    <3>3. CASE x = t
      <4>1. t \notin In(q)
        <5> SUFFICES ASSUME NEW j \in 1 .. Len(q), q[j] = t PROVE FALSE
          BY DEF In
        <5>1. r[j] = r[Len(q) + 1] /\ j \in 1 .. Len(r) /\ Len(q) + 1 \in 1 .. Len(r)
          BY <2>1, <3>3
        <5>2. j = Len(q) + 1
          BY <3>2, <5>1 DEF Distinct
        <5> QED
          BY <2>1, <5>2
      <4>2. A \cap In(q) = B \cap In(q)
        BY <4>1
      <4>3. Among[q][A] = Among[q][B]
        BY <4>2, AmongOf
      <4> QED
        BY <2>2, <3>3, <4>3
    <3>4. CASE x # t
      <4>1. k \in 1 .. Len(q) /\ Len(q) + 1 > k /\ Len(q) + 1 \in 1 .. Len(r)
        BY <2>1, <3>1, <3>4
      <4>2. x \notin A /\ x \notin B
        BY <2>1, <3>1, <3>4, <4>1
      <4>3. \A l \in 1 .. Len(q) : l > k => q[l] \notin A
        BY <2>1, <3>1, <4>1
      <4>4. q[k] = t
        BY <2>1, <3>1, <4>1
      <4>5. Distinct(q)
        BY <2>1, <3>2 DEF Distinct
      <4>6. Is(q)
        BY <4>1, <4>3, <4>4, <4>5
      <4> QED
        BY <1>2, <2>2, <4>2, <4>6
    <3> QED
      BY <3>3, <3>4
  <2> HIDE DEF Is
  <2> QED
    BY <2>1, <2>3 DEF r
<1>3. \A q \in Seq(Turn) : q \in Good
  <2> HIDE DEF Good
  <2> QED
    BY <1>1, <1>2, QueueInduction
<1> QED
  BY <1>3

\* A queue in which no turn is twice has no more turns than there are.
LEMMA QueueBound == ASSUME NEW q \in Seq(Turn), Distinct(q) PROVE Len(q) <= MaxTurns
<1>1. MaxTurns \in Nat /\ Len(q) \in Nat /\ q \in [1 .. Len(q) -> 1 .. MaxTurns]
  BY UserSessionAssumption DEF Turn
<1>2. /\ IsFiniteSet(1 .. MaxTurns) /\ Cardinality(1 .. MaxTurns) = MaxTurns
      /\ IsFiniteSet(1 .. Len(q)) /\ Cardinality(1 .. Len(q)) = Len(q)
  <2>1. ASSUME NEW n \in Nat PROVE IsFiniteSet(1 .. n) /\ Cardinality(1 .. n) = n
    <3>1. IsFiniteSet(1 .. n) /\ Cardinality(1 .. n) = IF 1 > n THEN 0 ELSE n - 1 + 1
      BY FS_Interval
    <3> QED
      BY <3>1
  <2> QED
    BY <1>1, <2>1
<1>3. ~(Cardinality(1 .. MaxTurns) < Cardinality(1 .. Len(q)))
  <2> SUFFICES ASSUME Cardinality(1 .. MaxTurns) < Cardinality(1 .. Len(q)) PROVE FALSE
    OBVIOUS
  <2>1. \E x, y \in 1 .. Len(q) : x # y /\ q[x] = q[y]
    BY <1>1, <1>2, FS_PigeonHole
  <2> QED
    BY <2>1 DEF Distinct
<1> QED
  BY <1>1, <1>2, <1>3

-----------------------------------------------------------------------------
(* Transcripts of turns *)

\* The latest n turns of J.
Latest(J, n) == IF Len(J) <= n THEN J ELSE SubSeq(J, Len(J) - n + 1, Len(J))

\* A history of which each text is a turn.
Singles(J) == [k \in 1 .. Len(J) |-> <<J[k]>>]

\* The latest turns of a transcript, one by one.
LEMMA LatestParts ==
  ASSUME NEW J \in Seq(Turn), NEW n \in Nat
  PROVE  /\ Len(J) \in Nat /\ Latest(J, n) \in Seq(Turn)
         /\ Len(Latest(J, n)) = IF Len(J) <= n THEN Len(J) ELSE n
         /\ \A k \in 1 .. Len(Latest(J, n)) : /\ Latest(J, n)[k] = J[k + (Len(J) - Len(Latest(J, n)))]
                                              /\ k + (Len(J) - Len(Latest(J, n))) \in 1 .. Len(J)
<1>1. Len(J) \in Nat
  OBVIOUS
<1>2. CASE Len(J) <= n
  BY <1>1, <1>2 DEF Latest
<1>3. CASE ~(Len(J) <= n)
  <2> DEFINE m == Len(J) - n + 1
             e == Len(J)
  <2>1. /\ m \in Nat \ {0} /\ e \in 0 .. Len(J) /\ m <= e + 1 /\ e + 1 - m = n
        /\ \A k \in 1 .. n : m + k - 1 = k + (Len(J) - n) /\ k + (Len(J) - n) \in 1 .. Len(J)
    BY <1>1, <1>3
  <2>2. Latest(J, n) = SubSeq(J, m, e)
    BY <1>3 DEF Latest
  <2> HIDE DEF m, e
  <2>3. /\ SubSeq(J, m, e) \in Seq(Turn) /\ Len(SubSeq(J, m, e)) = e + 1 - m
        /\ \A k \in 1 .. e + 1 - m : SubSeq(J, m, e)[k] = J[m + k - 1]
    BY <2>1, PartOfSeq
  <2>4. Latest(J, n) \in Seq(Turn) /\ Len(Latest(J, n)) = n
    BY <2>1, <2>2, <2>3
  <2>5. \A k \in 1 .. n : /\ Latest(J, n)[k] = J[k + (Len(J) - n)]
                           /\ k + (Len(J) - n) \in 1 .. Len(J)
    BY <2>1, <2>2, <2>3
  <2> QED
    BY <1>1, <1>3, <2>4, <2>5
<1> QED
  BY <1>2, <1>3

\* All but the first turn of a transcript.
LEMMA LatestButOne ==
  ASSUME NEW J \in Seq(Turn), NEW n \in Nat, Len(J) = n + 1
  PROVE  /\ Latest(J, n) \in Seq(Turn) /\ Len(Latest(J, n)) = n
         /\ \A k \in 1 .. n : Latest(J, n)[k] = J[k + 1]
<1> DEFINE y == Latest(J, n)
<1>1. ~(Len(J) <= n)
  OBVIOUS
<1>2. /\ y \in Seq(Turn) /\ Len(y) = n
      /\ \A k \in 1 .. Len(y) : y[k] = J[k + (Len(J) - Len(y))]
  BY <1>1, LatestParts
<1> HIDE DEF y
<1>3. Len(J) - Len(y) = 1
  BY <1>2
<1>4. \A k \in 1 .. n : y[k] = J[k + 1]
  BY <1>2, <1>3
<1> QED
  BY <1>2, <1>4 DEF y

\* The latest of what is latest, and of what gains a turn.
LEMMA LatestOfLatest ==
  ASSUME NEW J \in Seq(Turn), NEW n \in Nat, NEW t \in Turn
  PROVE  /\ Latest(Latest(J, n), n) = Latest(J, n)
         /\ Latest(Append(Latest(J, n), t), n) = Latest(Append(J, t), n)
<1> DEFINE L == Latest(J, n)
           a == Append(L, t)
           b == Append(J, t)
<1>1. /\ Len(J) \in Nat /\ L \in Seq(Turn) /\ Len(L) \in Nat
      /\ Len(L) = IF Len(J) <= n THEN Len(J) ELSE n
      /\ \A k \in 1 .. Len(L) : L[k] = J[k + (Len(J) - Len(L))] /\ k + (Len(J) - Len(L)) \in 1 .. Len(J)
  BY LatestParts
<1> HIDE DEF L
<1>2. Latest(L, n) = L
  <2>1. Len(L) <= n
    BY <1>1
  <2> QED
    BY <2>1 DEF Latest
<1>3. /\ a \in Seq(Turn) /\ Len(a) = Len(L) + 1 /\ a[Len(L) + 1] = t
      /\ b \in Seq(Turn) /\ Len(b) = Len(J) + 1 /\ b[Len(J) + 1] = t
      /\ \A k \in 1 .. Len(L) : a[k] = L[k]
      /\ \A k \in 1 .. Len(J) : b[k] = J[k]
  BY <1>1
<1> HIDE DEF a, b
<1>4. Latest(a, n) = Latest(b, n)
  <2> DEFINE x == Latest(a, n)
             y == Latest(b, n)
  <2>1. /\ x \in Seq(Turn) /\ Len(x) = IF Len(a) <= n THEN Len(a) ELSE n
        /\ \A k \in 1 .. Len(x) : x[k] = a[k + (Len(a) - Len(x))] /\ k + (Len(a) - Len(x)) \in 1 .. Len(a)
    BY <1>3, LatestParts
  <2>2. /\ y \in Seq(Turn) /\ Len(y) = IF Len(b) <= n THEN Len(b) ELSE n
        /\ \A k \in 1 .. Len(y) : y[k] = b[k + (Len(b) - Len(y))] /\ k + (Len(b) - Len(y)) \in 1 .. Len(b)
    BY <1>3, LatestParts
  <2> HIDE DEF x, y
  <2>3. Len(x) = Len(y) /\ Len(x) \in Nat
    BY <1>1, <1>3, <2>1, <2>2
  <2>4. ASSUME NEW k \in 1 .. Len(x) PROVE x[k] = y[k]
    <3> DEFINE i == k + (Len(a) - Len(x))
               j == k + (Len(b) - Len(y))
    <3>1. x[k] = a[i] /\ i \in 1 .. Len(a) /\ y[k] = b[j] /\ j \in 1 .. Len(b)
      BY <2>1, <2>2, <2>3, <2>4
    <3>2. /\ Len(a) = Len(L) + 1 /\ Len(b) = Len(J) + 1 /\ Len(x) = Len(y) /\ k \in Int
          /\ Len(J) \in Nat /\ Len(L) \in Nat /\ Len(x) \in Nat
      BY <1>1, <1>3, <2>3, <2>4
    <3>3. j = i + (Len(J) - Len(L)) /\ i \in Int /\ j \in Int
      BY <3>2
    <3> HIDE DEF i, j
    <3>4. CASE i = Len(a)
      <4>1. j = Len(J) + 1
        BY <3>2, <3>3, <3>4
      <4> QED
        BY <1>3, <3>1, <3>2, <3>4, <4>1
    <3>5. CASE i # Len(a)
      <4>1. i \in 1 .. Len(L) /\ j \in 1 .. Len(J)
        BY <1>1, <3>1, <3>2, <3>3, <3>5
      <4>2. x[k] = L[i] /\ y[k] = J[j]
        BY <1>3, <3>1, <4>1
      <4> QED
        BY <1>1, <3>3, <4>1, <4>2
    <3> QED
      BY <3>4, <3>5
  <2>5. x = y
    BY <2>1, <2>2, <2>3, <2>4
  <2> QED
    BY <2>5 DEF x, y
<1> QED
  BY <1>2, <1>4 DEF L, a, b

\* Histories of single turns.
LEMMA SingleParts ==
  ASSUME NEW J \in Seq(Turn)
  PROVE  /\ Singles(J) \in Seq(Text) /\ Len(Singles(J)) = Len(J) /\ Len(J) \in Nat
         /\ Singles(J) = <<>> <=> J = <<>>
         /\ J # <<>> => Head(Singles(J)) = <<Head(J)>> /\ Tail(Singles(J)) = Singles(Tail(J))
         /\ \A t \in Turn : Append(Singles(J), <<t>>) = Singles(Append(J, t))
<1>1. Len(J) \in Nat /\ \A k \in 1 .. Len(J) : J[k] \in Turn /\ <<J[k]>> \in Text
  BY Texts
<1>2. Singles(J) \in Seq(Text) /\ Len(Singles(J)) = Len(J)
  <2> HIDE DEF Text
  <2> QED
    BY <1>1 DEF Singles
<1>3. Singles(J) = <<>> <=> J = <<>>
  <2> HIDE DEF Text
  <2> QED
    BY <1>1, <1>2
<1>4. ASSUME J # <<>> PROVE Head(Singles(J)) = <<Head(J)>> /\ Tail(Singles(J)) = Singles(Tail(J))
  <2> DEFINE s == Singles(J)
             x == Tail(s)
             r == Tail(J)
             y == Singles(r)
  <2>1. /\ r \in Seq(Turn) /\ Len(r) = Len(J) - 1 /\ Head(J) = J[1]
        /\ \A k \in 1 .. Len(r) : r[k] = J[k + 1] /\ k + 1 \in 1 .. Len(J)
    BY <1>4
  <2>2. s # <<>> /\ s \in Seq(Text) /\ Len(s) = Len(J) /\ \A k \in 1 .. Len(J) : s[k] = <<J[k]>>
    <3> HIDE DEF Text
    <3>1. \A k \in 1 .. Len(J) : s[k] = <<J[k]>>
      BY DEF Singles
    <3> HIDE DEF s
    <3> QED
      BY <1>2, <1>3, <1>4, <3>1 DEF s
  <2> HIDE DEF s, Text
  <2>3. /\ Head(s) = s[1] /\ x \in Seq(Text) /\ Len(x) = Len(J) - 1
        /\ \A k \in 1 .. Len(x) : x[k] = s[k + 1]
    BY <2>2
  <2> HIDE DEF x, r
  <2>4. y \in Seq(Text) /\ Len(y) = Len(r) /\ \A k \in 1 .. Len(r) : y[k] = <<r[k]>>
    <3>1. \A k \in 1 .. Len(r) : r[k] \in Turn /\ <<r[k]>> \in Text
      BY <2>1, Texts
    <3> QED
      BY <2>1, <3>1 DEF Singles
  <2> HIDE DEF y
  <2>5. x = y
    <3>1. ASSUME NEW k \in 1 .. Len(x) PROVE x[k] = y[k]
      <4>1. k \in 1 .. Len(r) /\ k + 1 \in 1 .. Len(J)
        BY <1>1, <2>1, <2>3, <3>1
      <4> QED
        BY <2>1, <2>2, <2>3, <2>4, <3>1, <4>1
    <3>2. Len(x) = Len(y)
      BY <2>1, <2>3, <2>4
    <3> QED
      BY <2>3, <2>4, <3>1, <3>2, SeqEqual
  <2>6. Head(s) = <<Head(J)>>
    BY <1>1, <1>4, <2>1, <2>2, <2>3
  <2> QED
    BY <2>5, <2>6 DEF x, y, r, s
<1>5. ASSUME NEW t \in Turn PROVE Append(Singles(J), <<t>>) = Singles(Append(J, t))
  <2> DEFINE b == Append(J, t)
             s == Singles(J)
             x == Append(s, <<t>>)
             y == Singles(b)
  <2>1. /\ b \in Seq(Turn) /\ Len(b) = Len(J) + 1 /\ b[Len(J) + 1] = t
        /\ \A k \in 1 .. Len(J) : b[k] = J[k]
    OBVIOUS
  <2> HIDE DEF b, Text
  <2>2. \A k \in 1 .. Len(J) : s[k] = <<J[k]>>
    BY DEF Singles
  <2>3. Len(y) = Len(b) /\ (\A k \in 1 .. Len(b) : y[k] = <<b[k]>>) /\ y \in Seq(Text)
    <3>1. \A k \in 1 .. Len(b) : b[k] \in Turn /\ <<b[k]>> \in Text
      BY <2>1, Texts
    <3> QED
      BY <2>1, <3>1 DEF Singles
  <2> HIDE DEF s, y
  <2>4. <<t>> \in Text
    BY Texts
  <2>5. /\ x \in Seq(Text) /\ Len(x) = Len(J) + 1 /\ x[Len(J) + 1] = <<t>>
        /\ \A k \in 1 .. Len(J) : x[k] = s[k]
    BY <1>2, <2>4 DEF s
  <2> HIDE DEF x
  <2>6. ASSUME NEW k \in 1 .. Len(x) PROVE x[k] = y[k]
    <3>1. CASE k = Len(J) + 1
      BY <1>1, <2>1, <2>3, <2>5, <3>1
    <3>2. CASE k # Len(J) + 1
      <4>1. k \in 1 .. Len(J) /\ k \in 1 .. Len(b)
        BY <1>1, <2>1, <2>5, <2>6, <3>2
      <4> QED
        BY <2>1, <2>2, <2>3, <2>5, <4>1
    <3> QED
      BY <3>1, <3>2
  <2>7. x = y
    BY <2>1, <2>3, <2>5, <2>6
  <2> QED
    BY <2>7 DEF x, y, s, b
<1> QED
  BY <1>1, <1>2, <1>3, <1>4, <1>5

\* What a transcript has as soon as it has it without its first turn, all have.
LEMMA TranscriptInduction ==
  ASSUME NEW Good, <<>> \in Good,
         \A J \in Seq(Turn) : J # <<>> /\ Tail(J) \in Good => J \in Good
  PROVE  \A J \in Seq(Turn) : J \in Good
<1> DEFINE D    == Seq(Turn)
           rank == [q \in D |-> Len(q)]
           prev == [q \in D |-> Tail(q)]
<1>1. \A q \in D : rank[q] \in Nat /\ (rank[q] = 0 <=> q = <<>>)
  OBVIOUS
<1>2. Ranked(D, rank, prev)
  <2>1. \A q \in D : q # <<>> => Tail(q) \in D /\ Len(Tail(q)) < Len(q)
    OBVIOUS
  <2> QED
    BY <1>1, <2>1 DEF Ranked
<1>3. ASSUME NEW q \in D, rank[q] = 0 \/ prev[q] \in Good PROVE q \in Good
  BY <1>1, <1>3
<1> HIDE DEF D, rank, prev
<1>4. \A q \in D : q \in Good
  BY <1>2, <1>3, RankedInduction
<1> QED
  BY <1>4 DEF D

\* Joining single turns gives the turns.
LEMMA JoinedSingles ==
  /\ \A J \in Seq(Turn) : Joined[Singles(J)] = J
  /\ \A J \in Seq(Turn) : J \in Text
<1> DEFINE Good == {J \in Seq(Turn) : Joined[Singles(J)] = J}
<1>1. <<>> \in Good
  <2>1. <<>> \in Seq(Turn)
    OBVIOUS
  <2>2. Singles(<<>>) = <<>>
    BY <2>1, SingleParts
  <2> QED
    BY <2>1, <2>2, JoinedText
<1>2. ASSUME NEW J \in Seq(Turn), J # <<>>, Tail(J) \in Good PROVE J \in Good
  <2>1. /\ Singles(J) \in Seq(Text) /\ Singles(J) # <<>>
        /\ Head(Singles(J)) = <<Head(J)>> /\ Tail(Singles(J)) = Singles(Tail(J))
    BY <1>2, SingleParts
  <2>2. Joined[Singles(J)] = Head(Singles(J)) \o Joined[Tail(Singles(J))]
    BY <2>1, JoinedText
  <2>3. Joined[Tail(Singles(J))] = Tail(J)
    BY <1>2, <2>1
  <2>4. <<Head(J)>> \o Tail(J) = J
    BY <1>2
  <2> QED
    BY <2>1, <2>2, <2>3, <2>4
<1>3. \A J \in Seq(Turn) : J \in Good
  <2> HIDE DEF Good
  <2> QED
    BY <1>1, <1>2, TranscriptInduction
<1> QED
  BY <1>3 DEF Text

\* Dropping turns from the front until n are left leaves the latest n.
LEMMA FittingSingles ==
  ASSUME NEW n \in Nat
  PROVE  \A J \in Seq(Turn) : Fitting[Singles(J)][n] = Singles(Latest(J, n))
<1> DEFINE Good == {J \in Seq(Turn) : Fitting[Singles(J)][n] = Singles(Latest(J, n))}
<1>1. ASSUME NEW J \in Seq(Turn)
      PROVE  /\ Len(J) <= n => Fitting[Singles(J)][n] = Singles(Latest(J, n))
             /\ ~(Len(J) <= n) => Fitting[Singles(J)][n] = Fitting[Tail(Singles(J))][n]
  <2>1. Singles(J) \in Seq(Text) /\ Joined[Singles(J)] = J
    BY SingleParts, JoinedSingles
  <2>2. Fitting[Singles(J)][n] = IF Len(Joined[Singles(J)]) <= n THEN Singles(J)
                                                                ELSE Fitting[Tail(Singles(J))][n]
    BY <2>1, FittingText
  <2>3. Len(J) <= n => Latest(J, n) = J
    BY DEF Latest
  <2> QED
    BY <2>1, <2>2, <2>3
<1>2. <<>> \in Good
  <2>1. <<>> \in Seq(Turn) /\ Len(<<>>) <= n
    OBVIOUS
  <2> QED
    BY <1>1, <2>1
<1>3. ASSUME NEW J \in Seq(Turn), J # <<>>, Tail(J) \in Good PROVE J \in Good
  <2>1. CASE Len(J) <= n
    BY <1>1, <2>1
  <2>2. CASE ~(Len(J) <= n)
    <3> DEFINE r == Tail(J)
               x == Latest(J, n)
               y == Latest(r, n)
    <3>1. /\ r \in Seq(Turn) /\ Len(r) = Len(J) - 1 /\ Len(J) \in Nat
          /\ \A k \in 1 .. Len(r) : r[k] = J[k + 1]
      BY <1>3
    <3> HIDE DEF r
    <3>2. /\ x \in Seq(Turn) /\ Len(x) = n
          /\ \A k \in 1 .. Len(x) : x[k] = J[k + (Len(J) - Len(x))]
      BY <2>2, LatestParts
    <3>3. /\ y \in Seq(Turn) /\ Len(y) = IF Len(r) <= n THEN Len(r) ELSE n
          /\ \A k \in 1 .. Len(y) : y[k] = r[k + (Len(r) - Len(y))] /\ k + (Len(r) - Len(y)) \in 1 .. Len(r)
      BY <3>1, LatestParts
    <3> HIDE DEF x, y
    <3>4. Len(y) = n
      BY <2>2, <3>1, <3>3
    <3>5. ASSUME NEW k \in 1 .. n PROVE x[k] = y[k]
      <4> DEFINE i == k + (Len(J) - n)
                 j == k + (Len(r) - n)
      <4>1. i = j + 1
        BY <3>1, <3>5
      <4>2. y[k] = r[j] /\ j \in 1 .. Len(r) /\ x[k] = J[i]
        BY <3>2, <3>3, <3>4, <3>5
      <4> HIDE DEF i, j
      <4> QED
        BY <3>1, <4>1, <4>2
    <3>6. x = y
      BY <3>2, <3>3, <3>4, <3>5
    <3>7. Tail(Singles(J)) = Singles(r)
      BY <1>3, SingleParts DEF r
    <3>8. Fitting[Singles(r)][n] = Singles(y)
      BY <1>3 DEF r, y
    <3> QED
      BY <1>1, <2>2, <3>6, <3>7, <3>8 DEF x
  <2> QED
    BY <2>1, <2>2
<1>4. \A J \in Seq(Turn) : J \in Good
  <2> HIDE DEF Good
  <2> QED
    BY <1>2, <1>3, TranscriptInduction
<1> QED
  BY <1>4

-----------------------------------------------------------------------------
(* What a session keeps *)

\* Failed requests and prompts that are cut do not meet, unless at most one earlier
\* turn fits, or all do.
Fits(p) == p.limited /\ "fail" \in p.faults => p.room <= 1 \/ p.room >= MaxTurns

\* What fits into a prompt of the turns J.
Cut(p, J) == IF p.limited THEN Latest(J, p.room) ELSE J

\* The turns q stand for the turns J: those that fit into a prompt are the same.
Keeps(p, q, J) ==
  IF p.limited
  THEN /\ Len(q) <= p.room + 1
       /\ Latest(q, p.room) = Latest(J, p.room)
       /\ "fail" \in p.faults /\ p.room > 1 => q = J
  ELSE q = J

\* Text x is the system prompt and turns that stand for J.
Carries(p, x, J) == \E q \in Seq(Turn) : x = <<System>> \o q /\ Keeps(p, q, J)

\* The transcript of session s stands for the turns J.
TranscriptOf(p, s, J) ==
  /\ s.prompt = <<System>> /\ s.accumulates
  /\ \E q \in Seq(Turn) : /\ Keeps(p, q, J) /\ s.context = <<System>> \o q
                          /\ p.limited => s.history = Singles(q)

\* A session cut to the budget of a request of its own.
IsCut(p, s, J) == p.limited => s.history = Singles(Cut(p, J))

\* A session whose transcript is replaced.
LEMMA Rewriting ==
  ASSUME NEW s \in LocalUserSession, NEW h, NEW c
  PROVE  LET s1 == [s EXCEPT !.history = h, !.context = c]
             s2 == [s EXCEPT !.context = c]
         IN /\ s1.prompt = s.prompt /\ s1.accumulates = s.accumulates /\ s1.history = h /\ s1.context = c
            /\ s2.prompt = s.prompt /\ s2.accumulates = s.accumulates /\ s2.context = c
BY DEF LocalUserSession

\* The turns that fit.
LEMMA CutTurns ==
  ASSUME plan \in Plan, NEW J \in Seq(Turn)
  PROVE  Cut(plan, J) \in Seq(Turn) /\ (plan.limited => Cut(plan, J) = Latest(J, plan.room))
<1>1. plan.room \in Nat
  BY DEF Plan
<1> QED
  BY <1>1, LatestParts DEF Cut

\* to_request_body: what is left of the transcript is what fits into the prompt.
LEMMA TruncatedKeeps ==
  ASSUME plan \in Plan, Fits(plan), NEW s \in LocalUserSession, NEW J \in Seq(Turn), Len(J) <= MaxTurns,
         TranscriptOf(plan, s, J)
  PROVE  /\ TranscriptOf(plan, Truncated(s), J) /\ IsCut(plan, Truncated(s), J)
         /\ IF plan.limited
            THEN Truncated(s).prompt \o Joined[Truncated(s).history] = <<System>> \o Cut(plan, J)
            ELSE s.context = <<System>> \o Cut(plan, J)
<1>1. PICK q \in Seq(Turn) : /\ Keeps(plan, q, J) /\ s.context = <<System>> \o q
                             /\ plan.limited => s.history = Singles(q)
  BY DEF TranscriptOf
<1>2. s.prompt = <<System>> /\ s.accumulates /\ plan.room \in Nat /\ MaxTurns \in Nat
  BY UserSessionAssumption DEF TranscriptOf, Plan
<1>3. CASE plan.limited
  <2> DEFINE L  == Latest(J, plan.room)
             c  == <<System>> \o L
             s1 == [s EXCEPT !.history = Singles(L), !.context = c]
  <2>1. Latest(q, plan.room) = L /\ L \in Seq(Turn) /\ Cut(plan, J) = L
    BY <1>1, <1>2, <1>3, LatestParts DEF Keeps, Cut
  <2>2. Fitting[s.history][plan.room] = Singles(L) /\ Joined[Singles(L)] = L
    BY <1>1, <1>2, <1>3, <2>1, FittingSingles, JoinedSingles
  <2> HIDE DEF L
  <2>3. Truncated(s) = s1
    BY <1>2, <1>3, <2>2 DEF Truncated
  <2>4. s1.prompt = <<System>> /\ s1.accumulates /\ s1.history = Singles(L) /\ s1.context = c
    <3> HIDE DEF c
    <3> QED
      BY <1>2, Rewriting
  <2> HIDE DEF s1
  <2>5. Keeps(plan, L, J)
    <3>1. Len(L) <= plan.room + 1
      BY <1>2, LatestParts DEF L
    <3>2. Latest(L, plan.room) = Latest(J, plan.room)
      <4>1. 1 \in Turn
        BY <1>2, UserSessionAssumption DEF Turn
      <4> QED
        BY <1>2, <4>1, LatestOfLatest DEF L
    <3>3. ASSUME "fail" \in plan.faults, plan.room > 1 PROVE L = J
      <4>1. plan.room >= MaxTurns
        BY <1>2, <1>3, <3>3 DEF Fits
      <4>2. Len(J) <= plan.room
        BY <1>2, <4>1
      <4> QED
        BY <4>2 DEF L, Latest
    <3> QED
      BY <1>3, <3>1, <3>2, <3>3 DEF Keeps
  <2>6. TranscriptOf(plan, s1, J)
    BY <2>1, <2>4, <2>5 DEF TranscriptOf
  <2> QED
    BY <1>3, <2>1, <2>2, <2>3, <2>4, <2>6 DEF IsCut
<1>4. CASE ~plan.limited
  BY <1>1, <1>4 DEF Truncated, IsCut, Keeps, Cut
<1> QED
  BY <1>3, <1>4

\* What is behind a text.
LEMMA Behind ==
  ASSUME NEW a \in Text, NEW b \in Text
  PROVE  SubSeq(a \o b, Len(a) + 1, Len(a \o b)) = b
<1> DEFINE S == Turn \cup {System}
<1>1. a \in Seq(S) /\ b \in Seq(S)
  BY DEF Text
<1> HIDE DEF S
<1> DEFINE c == a \o b
<1>2. /\ c \in Seq(S) /\ Len(c) = Len(a) + Len(b) /\ Len(a) \in Nat /\ Len(b) \in Nat
      /\ \A k \in 1 .. Len(b) : c[Len(a) + k] = b[k]
  BY <1>1
<1> HIDE DEF c
<1> DEFINE d == SubSeq(c, Len(a) + 1, Len(c))
<1>3. /\ d \in Seq(S) /\ Len(d) = Len(c) + 1 - (Len(a) + 1)
      /\ \A k \in 1 .. Len(c) + 1 - (Len(a) + 1) : d[k] = c[(Len(a) + 1) + k - 1]
  <2>1. Len(a) + 1 \in Nat \ {0} /\ Len(c) \in 0 .. Len(c) /\ Len(a) + 1 <= Len(c) + 1
    BY <1>2
  <2> QED
    BY <1>2, <2>1, PartOfSeq
<1> HIDE DEF d
<1>4. Len(d) = Len(b)
  BY <1>2, <1>3
<1>5. ASSUME NEW k \in 1 .. Len(b) PROVE d[k] = b[k]
  <2>1. k \in 1 .. Len(c) + 1 - (Len(a) + 1) /\ (Len(a) + 1) + k - 1 = Len(a) + k
    BY <1>2, <1>5
  <2> QED
    BY <1>2, <1>3, <2>1
<1>6. d = b
  BY <1>1, <1>3, <1>4, <1>5
<1> QED
  BY <1>6 DEF c, d

\* update_context after an answer: the turn is added to the transcript.
LEMMA AnswerKept ==
  ASSUME plan \in Plan, Fits(plan), NEW s \in LocalUserSession, NEW J \in Seq(Turn), Len(J) <= MaxTurns,
         TranscriptOf(plan, s, J), IsCut(plan, s, J), NEW t \in Turn
  PROVE  TranscriptOf(plan, Updated(s, (<<System>> \o Cut(plan, J)) \o <<t>>), Append(J, t))
<1> DEFINE L  == Cut(plan, J)
           a  == <<System>> \o L
           r  == a \o <<t>>
           K  == Append(L, t)
           J1 == Append(J, t)
           c  == <<System>> \o K
<1>1. s.prompt = <<System>> /\ s.accumulates /\ plan.room \in Nat /\ MaxTurns \in Nat
  BY UserSessionAssumption DEF TranscriptOf, Plan
<1>2. L \in Seq(Turn) /\ L \in Text /\ a \in Text /\ <<t>> \in Text /\ <<System>> \in Text
  BY CutTurns, JoinedSingles, Texts
<1>3. J1 \in Seq(Turn) /\ K \in Seq(Turn) /\ L \o <<t>> = K
  BY <1>2
<1>4. r = c
  <2>1. (<<System>> \o L) \o <<t>> = <<System>> \o (L \o <<t>>)
    <3> HIDE DEF L
    <3> QED
      BY <1>2, ConcatAssociative DEF Text
  <2> HIDE DEF L
  <2> QED
    BY <1>3, <2>1
<1>5. CASE plan.limited
  <2> DEFINE s1 == [s EXCEPT !.history = Singles(K), !.context = c]
  <2>1. L = Latest(J, plan.room) /\ s.history = Singles(L) /\ Joined[Singles(L)] = L
    BY <1>2, <1>5, CutTurns, JoinedSingles DEF IsCut
  <2> HIDE DEF L, K
  <2>2. SubSeq(r, Len(s.prompt \o Joined[s.history]) + 1, Len(r)) = <<t>>
    <3>1. s.prompt \o Joined[s.history] = a
      BY <1>1, <2>1
    <3>2. SubSeq(r, Len(a) + 1, Len(r)) = <<t>>
      BY <1>2, Behind
    <3> QED
      BY <3>1, <3>2
  <2>3. Append(s.history, <<t>>) = Singles(K) /\ <<t>> # <<>>
    BY <1>2, <2>1, SingleParts DEF K
  <2>4. Len(K) <= plan.room + 1
    <3>1. Len(L) <= plan.room /\ Len(L) \in Nat
      BY <1>1, <2>1, LatestParts
    <3>2. Len(K) = Len(L) + 1
      BY <1>2 DEF K
    <3> QED
      BY <1>1, <3>1, <3>2
  <2>5. Fitting[Singles(K)][plan.room + 1] = Singles(K) /\ Joined[Singles(K)] = K
    <3>1. Latest(K, plan.room + 1) = K
      BY <2>4 DEF Latest
    <3>2. plan.room + 1 \in Nat
      BY <1>1
    <3> QED
      BY <1>3, <3>1, <3>2, FittingSingles, JoinedSingles
  <2>6. Updated(s, r) = s1
    <3> DEFINE content == SubSeq(r, Len(s.prompt \o Joined[s.history]) + 1, Len(r))
               history == IF content = <<>> THEN s.history ELSE Append(s.history, content)
    <3>1. history = Singles(K)
      BY <2>2, <2>3
    <3> HIDE DEF history
    <3>2. Updated(s, r) = [s EXCEPT !.history = Fitting[history][plan.room + 1],
                                    !.context = s.prompt \o Joined[Fitting[history][plan.room + 1]]]
      BY <1>1, <1>5 DEF Updated, history
    <3> HIDE DEF r
    <3> QED
      BY <1>1, <2>5, <3>1, <3>2
  <2>7. s1.prompt = <<System>> /\ s1.accumulates /\ s1.history = Singles(K) /\ s1.context = c
    <3> HIDE DEF c
    <3> QED
      BY <1>1, Rewriting
  <2> HIDE DEF s1
  <2>8. Keeps(plan, K, J1)
    <3>1. Latest(K, plan.room) = Latest(J1, plan.room)
      BY <1>1, <2>1, LatestOfLatest DEF K
    <3>2. ASSUME "fail" \in plan.faults, plan.room > 1 PROVE K = J1
      <4>1. plan.room >= MaxTurns
        BY <1>1, <1>5, <3>2 DEF Fits
      <4>2. Len(J) <= plan.room
        BY <1>1, <4>1
      <4> QED
        BY <2>1, <4>2 DEF K, Latest
    <3> QED
      BY <1>5, <2>4, <3>1, <3>2 DEF Keeps
  <2>9. TranscriptOf(plan, s1, J1)
    BY <1>3, <2>7, <2>8 DEF TranscriptOf
  <2> QED
    BY <2>6, <2>9 DEF L
<1>6. CASE ~plan.limited
  <2> DEFINE s1 == [s EXCEPT !.context = c]
  <2>1. Updated(s, r) = s1
    <3> HIDE DEF c, r
    <3> QED
      BY <1>4, <1>6 DEF Updated
  <2>2. s1.prompt = <<System>> /\ s1.accumulates /\ s1.context = c
    <3> HIDE DEF c
    <3> QED
      BY <1>1, Rewriting
  <2> HIDE DEF s1, r
  <2>3. K = J1
    BY <1>6 DEF Cut
  <2>4. Keeps(plan, K, J1)
    BY <1>6, <2>3 DEF Keeps
  <2>5. TranscriptOf(plan, s1, J1)
    BY <1>3, <1>6, <2>2, <2>4 DEF TranscriptOf
  <2> QED
    BY <2>1, <2>5 DEF r
<1> QED
  BY <1>5, <1>6

\* update_context after a failure: the context of the last round is read again, and
\* gives back what was kept of it.
LEMMA FailureKept ==
  ASSUME plan \in Plan, Fits(plan), NEW s \in LocalUserSession, NEW J \in Seq(Turn), Len(J) <= MaxTurns,
         TranscriptOf(plan, s, J), IsCut(plan, s, J), "fail" \in plan.faults, NEW r, Carries(plan, r, J)
  PROVE  TranscriptOf(plan, Updated(s, r), J)
<1>1. s.prompt = <<System>> /\ s.accumulates /\ plan.room \in Nat /\ MaxTurns \in Nat
  BY UserSessionAssumption DEF TranscriptOf, Plan
<1>2. PICK old \in Seq(Turn) : r = <<System>> \o old /\ Keeps(plan, old, J)
  BY DEF Carries
<1>3. CASE plan.limited
  <2> DEFINE L == Latest(J, plan.room)
             a == <<System>> \o L
             content == SubSeq(r, Len(s.prompt \o Joined[s.history]) + 1, Len(r))
             history == IF content = <<>> THEN s.history ELSE Append(s.history, content)
  <2>1. /\ L = Latest(old, plan.room) /\ L \in Seq(Turn)
        /\ Len(L) = IF Len(old) <= plan.room THEN Len(old) ELSE plan.room
        /\ Len(old) \in Nat /\ Len(old) <= plan.room + 1
    BY <1>1, <1>2, <1>3, LatestParts DEF Keeps
  <2>2. s.history = Singles(L) /\ Joined[Singles(L)] = L
    BY <1>3, <2>1, JoinedSingles DEF IsCut, Cut
  <2>3. s.prompt \o Joined[s.history] = a
    BY <1>1, <2>2
  <2>4. /\ <<System>> \in Text /\ L \in Text /\ old \in Text /\ r \in Text
        /\ Len(a) = Len(L) + 1 /\ Len(r) = Len(old) + 1
        /\ \A k \in 1 .. Len(old) : r[k + 1] = old[k]
    <3>1. <<System>> \in Text /\ L \in Text /\ old \in Text
      BY <2>1, JoinedSingles, Texts
    <3> QED
      BY <1>2, <3>1 DEF Text
  <2> HIDE DEF L
  <2>5. \E K \in Seq(Turn) : history = Singles(K) /\ Keeps(plan, K, J)
    <3>1. CASE Len(old) <= plan.room
      <4>1. L = old
        BY <2>1, <3>1 DEF Latest
      <4>2. a = r
        BY <1>2, <4>1
      <4>3. content = SubSeq(r, Len(r) + 1, Len(r))
        BY <2>3, <4>2
      <4>4. content = <<>>
        <5> DEFINE S == Turn \cup {System}
        <5>1. r \in Seq(S)
          BY <2>4 DEF Text
        <5> HIDE DEF S
        <5>2. SubSeq(r, Len(r) + 1, Len(r)) = <<>>
          <6>1. Len(r) \in Nat
            BY <5>1
          <6>2. SubSeq(r, Len(r) + 1, Len(r)) \in Seq(S) /\ Len(SubSeq(r, Len(r) + 1, Len(r))) = 0
            BY <5>1, <6>1, PartOfSeq
          <6> QED
            BY <6>2
        <5> QED
          BY <4>3, <5>2
      <4> HIDE DEF content
      <4> QED
        BY <1>2, <2>2, <4>1, <4>4
    <3>2. CASE ~(Len(old) <= plan.room)
      <4> DEFINE x == old[Len(old)]
                 K == Append(L, x)
      <4>1. Len(old) = plan.room + 1 /\ Len(L) = plan.room /\ x \in Turn
        BY <1>1, <2>1, <3>2
      <4>2. plan.room <= 1
        <5> SUFFICES ASSUME plan.room > 1 PROVE FALSE
          BY <1>1
        <5>1. old = J /\ plan.room >= MaxTurns
          BY <1>1, <1>2, <1>3 DEF Keeps, Fits
        <5> QED
          BY <1>1, <4>1, <5>1
      <4>3. content = <<x>>
        <5>1. Len(a) + 1 = Len(r) /\ Len(r) \in Nat \ {0, 1} /\ r[Len(r)] = x
          BY <1>1, <2>1, <2>4, <4>1
        <5>2. content = SubSeq(r, Len(r), Len(r))
          BY <2>3, <5>1
        <5>3. SubSeq(r, Len(r), Len(r)) = <<r[Len(r)]>>
          <6> DEFINE S == Turn \cup {System}
          <6>1. r \in Seq(S)
            BY <2>4 DEF Text
          <6> HIDE DEF S
          <6> DEFINE m == Len(r)
                     d == SubSeq(r, m, m)
          <6>2. /\ d \in Seq(S) /\ Len(d) = m + 1 - m
                /\ \A k \in 1 .. m + 1 - m : d[k] = r[m + k - 1]
            <7>1. m \in Nat \ {0} /\ m \in 0 .. Len(r) /\ m <= m + 1
              BY <5>1
            <7> QED
              BY <6>1, <7>1, PartOfSeq
          <6>3. m + 1 - m = 1 /\ m + 1 - 1 = m
            BY <5>1
          <6> HIDE DEF d, m
          <6>4. d \in Seq(S) /\ Len(d) = 1 /\ d[1] = r[m]
            BY <6>2, <6>3
          <6>5. d = <<r[m]>>
            BY <6>4
          <6> QED
            BY <6>5 DEF d, m
        <5> QED
          BY <5>1, <5>2, <5>3
      <4> HIDE DEF content, x
      <4>4. history = Singles(K) /\ K \in Seq(Turn) /\ Len(K) = plan.room + 1
        <5>1. Append(Singles(L), <<x>>) = Singles(Append(L, x))
          BY <2>1, <4>1, SingleParts
        <5>2. <<x>> # <<>>
          OBVIOUS
        <5>3. history = Singles(K)
          BY <2>2, <4>3, <5>1, <5>2
        <5>4. K \in Seq(Turn) /\ Len(K) = Len(L) + 1
          BY <2>1, <4>1
        <5> QED
          BY <4>1, <5>3, <5>4
      <4>5. Latest(K, plan.room) = Latest(J, plan.room)
        <5> DEFINE y == Latest(K, plan.room)
        <5>1. /\ y \in Seq(Turn) /\ Len(y) = plan.room
              /\ \A k \in 1 .. Len(y) : y[k] = K[k + 1]
          <6> HIDE DEF K
          <6> QED
            BY <1>1, <4>4, LatestButOne
        <5>2. /\ L = Latest(old, plan.room)
              /\ \A k \in 1 .. Len(L) : L[k] = old[k + 1]
          <6>1. Len(old) = plan.room + 1 /\ Len(L) = plan.room
            BY <1>1, <2>1, <4>1
          <6> QED
            BY <1>1, <2>1, <6>1, LatestButOne
        <5> HIDE DEF y
        <5>3. \A k \in 1 .. Len(L) : L[k] = y[k]
          <6> SUFFICES ASSUME NEW k \in 1 .. Len(L) PROVE L[k] = y[k]
            OBVIOUS
          <6>1. k = 1 /\ plan.room = 1
            BY <1>1, <4>1, <4>2
          <6>2. K[2] = x /\ old[2] = x
            <7>1. Len(L) + 1 = 2 /\ Len(old) = 2
              BY <4>1, <6>1
            <7>2. K[Len(L) + 1] = x
              BY <2>1, <4>1
            <7>3. old[2] = x
              BY <7>1 DEF x
            <7> QED
              BY <7>1, <7>2, <7>3
          <6> QED
            BY <4>1, <5>1, <5>2, <6>1, <6>2
        <5>4. L = y
          BY <2>1, <4>1, <5>1, <5>3, SeqEqual
        <5> QED
          BY <5>4 DEF L, y
      <4>6. Keeps(plan, K, J)
        BY <1>1, <1>3, <4>2, <4>4, <4>5 DEF Keeps
      <4> QED
        BY <4>4, <4>6
    <3> QED
      BY <3>1, <3>2
  <2>6. PICK K \in Seq(Turn) : history = Singles(K) /\ Keeps(plan, K, J)
    BY <2>5
  <2> DEFINE c  == <<System>> \o K
             s1 == [s EXCEPT !.history = Singles(K), !.context = c]
  <2>7. Fitting[Singles(K)][plan.room + 1] = Singles(K) /\ Joined[Singles(K)] = K
    <3>1. Latest(K, plan.room + 1) = K
      BY <1>3, <2>6 DEF Keeps, Latest
    <3>2. plan.room + 1 \in Nat
      BY <1>1
    <3> QED
      BY <2>6, <3>1, <3>2, FittingSingles, JoinedSingles
  <2>8. Updated(s, r) = s1
    <3>1. Updated(s, r) = [s EXCEPT !.history = Fitting[history][plan.room + 1],
                                    !.context = s.prompt \o Joined[Fitting[history][plan.room + 1]]]
      BY <1>1, <1>3 DEF Updated
    <3> HIDE DEF history
    <3> QED
      BY <1>1, <2>6, <2>7, <3>1
  <2>9. s1.prompt = <<System>> /\ s1.accumulates /\ s1.history = Singles(K) /\ s1.context = c
    <3> HIDE DEF c
    <3> QED
      BY <1>1, Rewriting
  <2> HIDE DEF s1
  <2>10. TranscriptOf(plan, s1, J)
    BY <2>6, <2>9 DEF TranscriptOf
  <2> QED
    BY <2>8, <2>10
<1>4. CASE ~plan.limited
  <2> DEFINE s1 == [s EXCEPT !.context = r]
  <2>1. Updated(s, r) = s1
    BY <1>4 DEF Updated
  <2>2. s1.prompt = <<System>> /\ s1.accumulates /\ s1.context = r
    BY <1>1, Rewriting
  <2> HIDE DEF s1
  <2>3. TranscriptOf(plan, s1, J)
    BY <1>2, <1>4, <2>2 DEF TranscriptOf
  <2> QED
    BY <2>1, <2>3
<1> QED
  BY <1>3, <1>4

-----------------------------------------------------------------------------
(* The story of a conversation *)

\* The conversation of the turns of id i.
Talk(i) == IF plan.generator = "shared_prefix" THEN <<stage, 0>> ELSE <<1, i>>

\* The turns of conversation c that succeeded, in the order of q.
Selected(q, cv, p, c) == Among[q][{u \in Turn : cv[u] = c /\ p[u] = "done"}]

\* Those of them ahead of turn t.
Ahead(q, t) == {q[k] : k \in {n \in 1 .. Len(q) : \A j \in 1 .. n : q[j] # t}}
EarlierOf(q, cv, p, t) == Among[q][{u \in Turn : u \in Ahead(q, t) /\ cv[u] = cv[t] /\ p[u] = "done"}]

Told(c) == Selected(served, conversation, pc, c)

\* The id under which the generator registers.
Used(i) == plan.generator = "shared_prefix" => i = 0

\* A turn under way belongs to the conversation of its id, and an id without a
\* session has none yet.
TalkInv ==
  /\ \A t \in Turn : pc[t] \in Task => conversation[t] = Talk(id[t])
  /\ plan.generator = "shared_prefix" =>
       \A t \in Turn : t <= loaded => conversation[t] \in (1 .. stage) \X {0}
  /\ phase # "done" =>
       \A i \in ID : Used(i) /\ registry[i] = 0 => \A t \in Turn : t <= loaded => conversation[t] # Talk(i)

\* Requests fail only where they may.
FailInv == \A t \in Turn : pc[t] = "failing" => "fail" \in plan.faults

\* Turns pass once, and those of a conversation one after the other.
PassedInv ==
  /\ Distinct(served)
  /\ \A k \in 1 .. Len(served) : pc[served[k]] \in Holding \cup {"done", "failed", "cancelled"}
  /\ \A t \in Turn : pc[t] \in Holding => t \in In(served)
  /\ \A k, l \in 1 .. Len(served) :
       k < l /\ conversation[served[k]] = conversation[served[l]] => pc[served[k]] \notin Holding

\* The transcript of a session stands for the turns of its conversation that succeeded.
KeptInv == \A i \in ID : Used(i) /\ registry[i] # 0 =>
             TranscriptOf(plan, sessions[registry[i]], Told(Talk(i)))

\* So does what a turn carries whose request is out, and its session is cut for it.
HeldInv == \A t \in Turn : pc[t] \in Holding =>
             /\ IsCut(plan, sessions[registry[id[t]]], Told(conversation[t]))
             /\ Carries(plan, carried[t], Told(conversation[t]))

\* What TranscriptUnbroken says of turn t.
Unbroken(p, x, t, J) == x = (<<System>> \o Cut(p, J)) \o <<t>>

UnbrokenInv == \A t \in Turn : t \in In(served) =>
                 Unbroken(plan, sent[t], t, EarlierOf(served, conversation, pc, t))

Talks == TalkInv /\ FailInv /\ PassedInv /\ KeptInv /\ HeldInv /\ UnbrokenInv

\* The transcript of one session is that of another.
SameScript(s, s1) ==
  /\ s1.prompt = s.prompt /\ s1.accumulates = s.accumulates
  /\ s1.history = s.history /\ s1.context = s.context

\* A step in which no turn passes its session or ends there.
Unheard ==
  /\ UNCHANGED <<served, sent>>
  /\ \A t \in Turn : pc'[t] # pc[t] => pc'[t] \notin {"sent", "done", "failed"}
  /\ \A t \in Turn : pc[t] \in Holding => carried'[t] = carried[t]
  /\ Len(sessions') = Len(sessions)
  /\ \A o \in 1 .. Len(sessions) : SameScript(sessions[o], sessions'[o])

\* Turn t passes session o, and its request is sent.
Sends(t, o) ==
  /\ pc[t] \in {"arriving", "woken", "granted"} /\ ~sessions[o].in_flight
  /\ pc' = [pc EXCEPT ![t] = "sent"]
  /\ served' = Append(served, t)
  /\ carried' = [carried EXCEPT ![t] = sessions[o].context]
  /\ \E s \in LocalUserSession :
       /\ SameScript(sessions[o], s)
       /\ sessions' = [sessions EXCEPT ![o] = Truncated(s)]
       /\ sent' = [sent EXCEPT ![t] =
            (IF plan.limited THEN Truncated(s).prompt \o Joined[Truncated(s).history]
                             ELSE sessions[o].context) \o <<t>>]

\* Turn t ends at session o.
Stops(t, o) ==
  /\ pc[t] \in {"answered", "failing"}
  /\ pc'[t] = IF pc[t] = "answered" THEN "done" ELSE "failed"
  /\ \A u \in Turn : u # t /\ pc'[u] # pc[u] => pc'[u] \notin {"sent", "done", "failed"}
  /\ UNCHANGED <<served, sent, carried>>
  /\ \E s \in LocalUserSession :
       /\ SameScript(Updated(sessions[o], Response(t)), s)
       /\ sessions' = [sessions EXCEPT ![o] = s]

\* While turns run, one at most passes or ends.
LEMMA InnerStory ==
  ASSUME TypeOK, Lanes, Inner
  PROVE  \/ Unheard
         \/ \E t \in Turn : \E o \in 1 .. Len(sessions) :
              o = registry[id[t]] /\ Registered(o) /\ (Sends(t, o) \/ Stops(t, o))
<1>1. /\ pc \in [Turn -> {"unloaded"} \cup Task \cup Ended] /\ sessions \in Seq(LocalUserSession)
      /\ \A o \in 1 .. Len(sessions) : sessions[o] \in LocalUserSession
  BY DEF TypeOK
<1>2. ASSUME NEW o \in 1 .. Len(sessions), NEW s, SameScript(sessions[o], s),
             sessions' = [sessions EXCEPT ![o] = s]
      PROVE  /\ Len(sessions') = Len(sessions)
             /\ \A p \in 1 .. Len(sessions) : SameScript(sessions[p], sessions'[p])
  <2>1. Len(sessions') = Len(sessions)
    BY <1>1, <1>2
  <2>2. ASSUME NEW p \in 1 .. Len(sessions) PROVE SameScript(sessions[p], sessions'[p])
    <3>1. sessions'[p] = IF p = o THEN s ELSE sessions[p]
      BY <1>1, <1>2
    <3> QED
      BY <1>1, <1>2, <3>1 DEF SameScript
  <2> QED
    BY <2>1, <2>2
<1>3. CASE \E t \in Turn : Due(t) \/ Answer(t)
  <2>1. PICK t \in Turn : Due(t) \/ Answer(t)
    BY <1>3
  <2>2. sessions' = sessions /\ UNCHANGED <<served, sent, carried>>
    BY <2>1 DEF Due, Answer, turnVars
  <2>3. \E p \in {"arriving", "answered", "failing"} : pc' = [pc EXCEPT ![t] = p]
    BY <2>1, Zenon DEF Due, Answer
  <2>4. \A u \in Turn : pc'[u] # pc[u] => pc'[u] \notin {"sent", "done", "failed"}
    BY <1>1, <2>3
  <2> QED
    BY <2>2, <2>4 DEF Unheard, SameScript
<1>4. CASE Step
  <2> DEFINE t == Current
  <2>1. t \in Turn /\ ready # <<>>
    BY <1>4, SessionOfTask DEF Step
  <2> HIDE DEF t
  <2>2. CASE Drop(t)
    <3>1. pc' = [pc EXCEPT ![t] = "dropped"] /\ sessions' = sessions /\ UNCHANGED <<served, sent, carried>>
      BY <2>2 DEF Drop, turnVars
    <3> QED
      BY <1>1, <2>1, <3>1 DEF Unheard, SameScript
  <2>3. CASE Park(t)
    <3> DEFINE o == registry[id[t]]
    <3>1. o \in 1 .. Len(sessions)
      BY <2>1, <2>3, ParkEffect
    <3>2. /\ pc' = [pc EXCEPT ![t] = "parked"] /\ UNCHANGED <<carried, sent, served>>
          /\ sessions' = [sessions EXCEPT ![o] =
               [sessions[o] EXCEPT !.waiting_rounds = Append(sessions[o].waiting_rounds, t)]]
      BY <2>3 DEF Park
    <3> HIDE DEF o
    <3> DEFINE s  == sessions[o]
               s1 == [s EXCEPT !.waiting_rounds = Append(s.waiting_rounds, t)]
    <3>3. SameScript(s, s1)
      <4>1. s \in LocalUserSession
        BY <1>1, <3>1
      <4> HIDE DEF s
      <4> QED
        BY <4>1 DEF LocalUserSession, SameScript
    <3>4. sessions' = [sessions EXCEPT ![o] = s1]
      BY <3>2
    <3> HIDE DEF s1
    <3>5. /\ Len(sessions') = Len(sessions)
          /\ \A p \in 1 .. Len(sessions) : SameScript(sessions[p], sessions'[p])
      BY <1>2, <3>1, <3>3, <3>4
    <3> QED
      BY <1>1, <2>1, <3>2, <3>5 DEF Unheard
  <2>4. CASE AwaitLock(t)
    <3>1. PICK o \in 1 .. Len(sessions) :
            /\ pc' = [pc EXCEPT ![t] = "locking"] /\ UNCHANGED <<carried, sent, served>>
            /\ sessions' = [sessions EXCEPT ![o] =
                 [sessions[o] EXCEPT !.waiters = Append(sessions[o].waiters, t)]]
      BY <2>4 DEF AwaitLock
    <3> DEFINE s  == sessions[o]
               s1 == [s EXCEPT !.waiters = Append(s.waiters, t)]
    <3>2. SameScript(s, s1)
      <4>1. s \in LocalUserSession
        BY <1>1
      <4> HIDE DEF s
      <4> QED
        BY <4>1 DEF LocalUserSession, SameScript
    <3>3. sessions' = [sessions EXCEPT ![o] = s1]
      BY <3>1
    <3> HIDE DEF s1
    <3>4. /\ Len(sessions') = Len(sessions)
          /\ \A p \in 1 .. Len(sessions) : SameScript(sessions[p], sessions'[p])
      BY <1>2, <3>2, <3>3
    <3> QED
      BY <1>1, <2>1, <3>1, <3>4 DEF Unheard
  <2>5. CASE Pass(t)
    <3> DEFINE taken(o) == [sessions EXCEPT ![o].in_flight = TRUE,
                              ![o].waiters = IF pc[t] = "granted" THEN Tail(@) ELSE @]
               r == registry[id[t]]
               body(o) == Truncated(taken(o)[r])
               w(o) == IF pc[t] = "granted" THEN Tail(sessions[o].waiters) ELSE sessions[o].waiters
               s1(o) == [sessions[o] EXCEPT !.in_flight = TRUE, !.waiters = w(o)]
    <3>1. PICK o \in 1 .. Len(sessions) :
            /\ Takes(t, o)
            /\ carried' = [carried EXCEPT ![t] = sessions[o].context]
            /\ \/ /\ pc' = [pc EXCEPT ![t] = "sent"]
                  /\ sessions' = [taken(o) EXCEPT ![r] = body(o)]
                  /\ sent' = [sent EXCEPT ![t] =
                       (IF plan.limited THEN body(o).prompt \o Joined[body(o).history]
                                        ELSE carried'[t]) \o <<t>>]
                  /\ served' = Append(served, t)
               \/ /\ pc' = [pc EXCEPT ![t] = "raised"]
                  /\ sessions' = taken(o)
                  /\ UNCHANGED <<sent, served>>
      BY <2>5, Zenon DEF Pass
    <3> HIDE DEF taken, body, r, w, s1
    <3>2. o = r /\ Registered(o) /\ pc[t] \in {"arriving", "woken", "granted"}
      BY <2>1, <3>1, SessionReached DEF r, Takes, Reaches, Arrives
    <3>3. /\ sessions[o] \in LocalUserSession /\ sessions[o].waiters \in Seq(Turn)
      BY SessionParts
    <3>4. ~sessions[o].in_flight
      <4>1. CASE LockIsFree(sessions[o])
        BY <4>1 DEF LockIsFree
      <4>2. CASE pc[t] = "granted" /\ o = object[t]
        BY <2>1, <3>2, <4>2 DEF Lanes, LockInv, LockOf
      <4> QED
        BY <3>1, <4>1, <4>2 DEF Takes
    <3>5. w(o) \in Seq(Turn)
      <4>1. pc[t] = "granted" => sessions[o].waiters # <<>>
        <5> SUFFICES ASSUME pc[t] = "granted" PROVE sessions[o].waiters # <<>>
          OBVIOUS
        <5>1. object[t] = o
          BY <2>1, <3>2, SessionOfTask DEF Queueing, r
        <5> QED
          BY <2>1, <3>2, <5>1 DEF Lanes, LockInv, LockOf, First
      <4> QED
        BY <3>3, <4>1 DEF w
    <3>6. taken(o) = [sessions EXCEPT ![o] = s1(o)]
      BY <1>1, <3>3 DEF LocalUserSession, taken, s1, w
    <3>7. s1(o) \in LocalUserSession
      BY <3>3, <3>5 DEF LocalUserSession, s1
    <3>8. SameScript(sessions[o], s1(o))
      BY <3>3 DEF LocalUserSession, SameScript, s1
    <3>9. CASE sessions' = taken(o) /\ pc' = [pc EXCEPT ![t] = "raised"] /\ UNCHANGED <<sent, served>>
      <4>1. /\ Len(sessions') = Len(sessions)
            /\ \A p \in 1 .. Len(sessions) : SameScript(sessions[p], sessions'[p])
        BY <1>2, <3>6, <3>8, <3>9
      <4>2. \A u \in Turn : pc'[u] # pc[u] => pc'[u] = "raised"
        BY <1>1, <2>1, <3>9
      <4>3. \A u \in Turn : pc[u] \in Holding => carried'[u] = carried[u]
        BY <3>1, <3>2 DEF TypeOK, Holding
      <4> QED
        BY <3>9, <4>1, <4>2, <4>3 DEF Unheard
    <3>10. CASE /\ pc' = [pc EXCEPT ![t] = "sent"]
                /\ sessions' = [taken(o) EXCEPT ![r] = body(o)]
                /\ sent' = [sent EXCEPT ![t] =
                     (IF plan.limited THEN body(o).prompt \o Joined[body(o).history]
                                      ELSE carried'[t]) \o <<t>>]
                /\ served' = Append(served, t)
      <4>1. body(o) = Truncated(s1(o))
        <5>1. taken(o)[r] = s1(o)
          BY <1>1, <3>2, <3>6
        <5> QED
          BY <5>1 DEF body
      <4>2. sessions' = [sessions EXCEPT ![o] = Truncated(s1(o))]
        BY <1>1, <3>2, <3>6, <3>10, <4>1
      <4>3. carried'[t] = sessions[o].context
        BY <2>1, <3>1 DEF TypeOK
      <4>4. sent' = [sent EXCEPT ![t] =
              (IF plan.limited THEN Truncated(s1(o)).prompt \o Joined[Truncated(s1(o)).history]
                               ELSE sessions[o].context) \o <<t>>]
        BY <3>10, <4>1, <4>3
      <4>5. Sends(t, o)
        BY <3>1, <3>2, <3>4, <3>7, <3>8, <3>10, <4>2, <4>4, Zenon DEF Sends
      <4> QED
        BY <2>1, <3>2, <4>5 DEF r
    <3> QED
      BY <3>1, <3>9, <3>10, Zenon
  <2>6. CASE End(t)
    <3> DEFINE o == registry[id[t]]
               s0 == Updated(sessions[o], Response(t))
               woken == Woken(s0)
               s1 == [s0 EXCEPT !.in_flight = FALSE, !.waiting_rounds = SubSeq(@, Len(woken) + 1, Len(@))]
    <3>1. /\ o \in 1 .. Len(sessions) /\ Registered(o)
          /\ pc[t] \in {"answered", "failing"}
          /\ pc' = [u \in Turn |-> IF u = t THEN IF pc[t] = "answered" THEN "done" ELSE "failed"
                                    ELSE IF First(sessions[o].waiting_rounds, u) THEN "woken"
                                    ELSE IF Grants(sessions[o], u) THEN "granted"
                                    ELSE pc[u]]
          /\ Becomes(o, FALSE, sessions[o].waiters, Left(sessions[o].waiting_rounds))
      BY <2>1, <2>6, EndEffect, Zenon
    <3>2. UNCHANGED <<served, sent, carried>>
      BY <2>6 DEF End, turnVars
    <3>3. sessions' = [sessions EXCEPT ![o] = s1]
      BY <2>6, Zenon DEF End
    <3>4. s0 \in LocalUserSession
      <4>1. Response(t) \in Text
        BY <2>1 DEF Response, TypeOK
      <4>2. sessions[o] \in LocalUserSession /\ plan \in Plan
        BY <1>1, <3>1, SessionOfTask
      <4> QED
        BY <4>1, <4>2, TranscriptType
    <3>5. SameScript(s0, s1)
      <4> HIDE DEF s0, woken
      <4> QED
        BY <3>4 DEF LocalUserSession, SameScript
    <3>6. s1 \in LocalUserSession
      <4> HIDE DEF s1, o
      <4>1. sessions' \in Seq(LocalUserSession) /\ sessions'[o] = s1 /\ o \in 1 .. Len(sessions')
        BY <1>1, <3>1, <3>3 DEF Becomes
      <4> QED
        BY <4>1
    <3>7. \A u \in Turn : /\ u = t => pc'[u] = IF pc[t] = "answered" THEN "done" ELSE "failed"
                          /\ u # t /\ pc'[u] # pc[u] => pc'[u] \notin {"sent", "done", "failed"}
      <4> HIDE DEF o
      <4> QED
        BY <3>1
    <3> HIDE DEF s1
    <3>8. Stops(t, o)
      <4> HIDE DEF o
      <4> QED
        BY <2>1, <3>1, <3>2, <3>3, <3>5, <3>6, <3>7 DEF Stops, s0
    <3> QED
      BY <2>1, <3>1, <3>8
  <2> QED
    BY <1>4, <2>2, <2>3, <2>4, <2>5, <2>6 DEF Step, t
<1> QED
  BY <1>3, <1>4 DEF Inner

\* The turns that have passed.
Through == Holding \cup {"done", "failed", "cancelled"}

\* A step in which no turn passes its session or ends there, and nothing of the
\* transcripts is lost; a session that is new has none.
Steady ==
  /\ UNCHANGED <<plan, served, sent>>
  /\ \A t \in Turn :
       /\ pc[t] # "unloaded" => conversation'[t] = conversation[t] /\ id'[t] = id[t]
       /\ pc'[t] = "done" <=> pc[t] = "done"
       /\ pc'[t] \in Holding => pc[t] \in Holding /\ carried'[t] = carried[t]
       /\ pc[t] \in Through => pc'[t] \in Through
  /\ stage' = stage \/ \A i \in ID : registry'[i] = 0
  /\ \A i \in ID : registry'[i] # 0 =>
       \/ registry'[i] = registry[i] /\ SameScript(sessions[registry[i]], sessions'[registry[i]])
       \/ phase # "done" /\ registry[i] = 0 /\ SameScript(Opening, sessions'[registry'[i]])

\* Whatever step is taken, it is such a step, or one turn passes or ends.
LEMMA Steadiness ==
  ASSUME TypeOK, Lanes, [Next]_vars
  PROVE  \/ Steady
         \/ Inner /\ \E t \in Turn : \E o \in 1 .. Len(sessions) :
              o = registry[id[t]] /\ Registered(o) /\ (Sends(t, o) \/ Stops(t, o))
<1>1. /\ sessions \in Seq(LocalUserSession) /\ Len(sessions) \in Nat
      /\ registry \in [ID -> 0 .. Len(sessions)] /\ id \in [Turn -> ID]
      /\ pc \in [Turn -> {"unloaded"} \cup Task \cup Ended] /\ loaded \in Nat
      /\ conversation \in [Turn -> Nat \X Nat]
      /\ \A i \in ID : registry[i] # 0 => registry[i] \in 1 .. Len(sessions)
  BY UserSessionAssumption DEF TypeOK
<1>2. CASE Inner /\ Unheard
  <2>1. /\ UNCHANGED <<loadVars, id, conversation, served, sent>>
        /\ \A t \in Turn : pc'[t] # pc[t] => <<pc[t], pc'[t]>> \in Moves
    BY <1>2, TurnsMove DEF Unheard
  <2>2. /\ \A t \in Turn : pc'[t] # pc[t] => pc'[t] \notin {"sent", "done", "failed"}
        /\ \A t \in Turn : pc[t] \in Holding => carried'[t] = carried[t]
        /\ \A o \in 1 .. Len(sessions) : SameScript(sessions[o], sessions'[o])
    BY <1>2 DEF Unheard
  <2>3. ASSUME NEW t \in Turn
        PROVE  /\ pc'[t] = "done" <=> pc[t] = "done"
               /\ pc'[t] \in Holding => pc[t] \in Holding /\ carried'[t] = carried[t]
               /\ pc[t] \in Through => pc'[t] \in Through
    <3>1. CASE pc'[t] = pc[t]
      BY <2>2, <3>1
    <3>2. CASE pc'[t] # pc[t]
      BY <2>1, <2>2, <3>2 DEF Moves, Holding, Through
    <3> QED
      BY <3>1, <3>2
  <2> QED
    BY <1>1, <2>1, <2>2, <2>3 DEF Steady, loadVars
<1>3. CASE Load
  <2>1. PICK i \in ID :
          /\ LoadTurn(i) /\ phase = "serve" /\ loaded + 1 \in Turn
          /\ \/ UNCHANGED <<sessions, registry>>
             \/ \E s : Fresh(s) /\ Register(i, s) /\ registry[i] = 0 /\ s = Opening
    BY <1>3, Loading
  <2> DEFINE n == loaded + 1
  <2>2. /\ UNCHANGED <<plan, phase, stage, carried, sent, served>>
        /\ pc' = [pc EXCEPT ![n] = "scheduled"] /\ id' = [id EXCEPT ![n] = i]
        /\ \E c : conversation' = [conversation EXCEPT ![n] = c]
    BY <2>1 DEF LoadTurn
  <2>3. pc[n] = "unloaded" /\ n \in Turn
    BY <1>1, <2>1 DEF Lanes, LoadedInv
  <2> HIDE DEF n
  <2>4. ASSUME NEW t \in Turn
        PROVE  /\ pc[t] # "unloaded" => conversation'[t] = conversation[t] /\ id'[t] = id[t]
               /\ pc'[t] = "done" <=> pc[t] = "done"
               /\ pc'[t] \in Holding => pc[t] \in Holding /\ carried'[t] = carried[t]
               /\ pc[t] \in Through => pc'[t] \in Through
    BY <1>1, <2>2, <2>3 DEF Holding, Through
  <2>5. ASSUME NEW j \in ID, registry'[j] # 0
        PROVE  \/ registry'[j] = registry[j] /\ SameScript(sessions[registry[j]], sessions'[registry[j]])
               \/ registry[j] = 0 /\ SameScript(Opening, sessions'[registry'[j]])
    <3>1. CASE UNCHANGED <<sessions, registry>>
      BY <3>1 DEF SameScript
    <3>2. CASE \E s : Fresh(s) /\ Register(i, s) /\ registry[i] = 0 /\ s = Opening
      <4>1. /\ Opening \in LocalUserSession /\ sessions' = Append(sessions, Opening)
            /\ registry' = [registry EXCEPT ![i] = Len(sessions) + 1] /\ registry[i] = 0
        BY <3>2 DEF Register, Fresh
      <4>2. /\ sessions'[Len(sessions) + 1] = Opening
            /\ \A o \in 1 .. Len(sessions) : sessions'[o] = sessions[o]
        BY <1>1, <4>1
      <4> QED
        BY <1>1, <2>5, <4>1, <4>2 DEF SameScript
    <3> QED
      BY <2>1, <3>1, <3>2
  <2> QED
    BY <2>1, <2>2, <2>4, <2>5 DEF Steady
<1>4. CASE Drain
  <2>1. /\ UNCHANGED <<plan, stage, registry, sessions, id, carried, sent, conversation, served>>
        /\ pc' = [t \in Turn |-> IF pc[t] = "scheduled" THEN "dropped" ELSE pc[t]]
    BY <1>4 DEF Drain, turnVars
  <2> QED
    BY <1>1, <2>1 DEF Steady, SameScript, Holding, Through
<1>5. CASE EndStage
  <2>1. /\ UNCHANGED <<plan, sessions, id, carried, sent, conversation, served>>
        /\ pc' = [t \in Turn |-> IF pc[t] \in Task THEN "cancelled" ELSE pc[t]]
        /\ \A i \in ID : registry'[i] = 0
    BY <1>5 DEF EndStage, turnVars, ClearInstances
  <2>2. Holding \subseteq Task /\ "done" \notin Task /\ "cancelled" \notin Holding
    BY DEF Task, Queueing, Holding
  <2> QED
    BY <1>1, <2>1, <2>2 DEF Steady, Through
<1>6. CASE UNCHANGED vars
  BY <1>1, <1>6 DEF vars, Steady, SameScript
<1> QED
  BY <1>2, <1>3, <1>4, <1>5, <1>6, InnerStory DEF Next, Load, Inner, Done

-----------------------------------------------------------------------------
(* The invariant of the transcripts *)

\* A turn is loaded into the conversation of its id.
LEMMA TalkStep == ASSUME TypeOK, Lanes, TalkInv, [Next]_vars PROVE TalkInv'
<1>1. /\ loaded \in Nat /\ Turn \subseteq Nat /\ ID \subseteq Nat /\ stage \in Nat \ {0}
      /\ conversation \in [Turn -> Nat \X Nat] /\ id \in [Turn -> ID] /\ Turns \in Nat \ {0}
      /\ pc \in [Turn -> {"unloaded"} \cup Task \cup Ended] /\ registry \in [ID -> 0 .. Len(sessions)]
      /\ Len(sessions) \in Nat
      /\ plan.generator \in {"shared_prefix", "conversation_replay"}
  <2>1. plan.generator \in {"shared_prefix", "conversation_replay"} /\ Len(plan.rounds) \in Nat
    BY SessionOfTask DEF Plan
  <2>2. stage \in Nat \ {0} /\ loaded \in Nat
    BY <2>1, UserSessionAssumption DEF TypeOK
  <2>3. Turn \subseteq Nat /\ ID \subseteq Nat /\ Len(sessions) \in Nat
    BY DEF Turn, ID, TypeOK
  <2> QED
    BY <2>1, <2>2, <2>3, UserSessionAssumption DEF TypeOK
<1>2. CASE Load
  <2>1. PICK i \in ID :
          /\ LoadTurn(i) /\ phase = "serve" /\ loaded + 1 \in Turn
          /\ plan.generator = "shared_prefix" => i = 0
          /\ plan.generator = "conversation_replay" => stage = 1 /\ base = 0 /\ i = loaded \div Turns
          /\ \/ UNCHANGED <<sessions, registry>> /\ registry[i] # 0
             \/ \E s : Fresh(s) /\ Register(i, s) /\ registry[i] = 0
    BY <1>2, Loading
  <2> DEFINE n == loaded + 1
             c == Talk(i)
  <2>2. /\ UNCHANGED <<plan, phase, stage>> /\ loaded' = n
        /\ pc' = [pc EXCEPT ![n] = "scheduled"] /\ id' = [id EXCEPT ![n] = i]
        /\ conversation' = [conversation EXCEPT ![n] = c]
    <3>1. <<stage, IF plan.generator = "shared_prefix" THEN 0 ELSE (loaded - base) \div Turns>> = c
      <4>1. CASE plan.generator = "shared_prefix"
        BY <4>1 DEF Talk
      <4>2. CASE plan.generator = "conversation_replay"
        <5>1. stage = 1 /\ loaded - base = loaded /\ i = loaded \div Turns
          BY <1>1, <2>1, <4>2
        <5> QED
          BY <4>2, <5>1 DEF Talk
      <4> QED
        BY <1>1, <4>1, <4>2
    <3> QED
      BY <2>1, <3>1 DEF LoadTurn
  <2>3. n \in Turn /\ pc[n] = "unloaded" /\ \A t \in Turn : t <= n <=> t <= loaded \/ t = n
    BY <1>1, <2>1 DEF Lanes, LoadedInv
  <2>4. registry'[i] # 0 /\ \A j \in ID : registry'[j] = 0 => registry[j] = 0
    BY <1>1, <2>1 DEF Register
  <2>5. \A j \in ID : Talk(j)' = Talk(j)
    BY <2>2 DEF Talk
  <2>6. \A j \in ID : Used(j) /\ j # i => Talk(j) # c
    BY <2>1 DEF Used, Talk
  <2>7. plan.generator = "shared_prefix" => c \in (1 .. stage) \X {0}
    BY <1>1 DEF Talk
  <2> HIDE DEF c, n
  <2>8. \A t \in Turn : pc'[t] \in Task => conversation'[t] = Talk(id'[t])
    BY <1>1, <2>2, <2>3 DEF TalkInv, c
  <2>9. plan.generator = "shared_prefix" => \A t \in Turn : t <= n => conversation'[t] \in (1 .. stage) \X {0}
    BY <1>1, <2>2, <2>3, <2>7 DEF TalkInv
  <2>10. ASSUME NEW j \in ID, Used(j), registry'[j] = 0, NEW t \in Turn, t <= n
         PROVE  conversation'[t] # Talk(j)
    BY <1>1, <2>1, <2>2, <2>3, <2>4, <2>6, <2>10 DEF TalkInv
  <2>11. \A t \in Turn : id'[t] \in ID
    BY <1>1, <2>2
  <2> QED
    BY <2>2, <2>5, <2>8, <2>9, <2>10, <2>11 DEF TalkInv, Used
<1>3. CASE Inner
  <2>1. /\ UNCHANGED <<loadVars, id, conversation>>
        /\ \A t \in Turn : pc'[t] # pc[t] => <<pc[t], pc'[t]>> \in Moves
    BY <1>3, TurnsMove
  <2>2. \A t \in Turn : pc'[t] \in Task => pc[t] \in Task
    BY <2>1 DEF Moves, Task, Queueing, Holding
  <2> QED
    BY <2>1, <2>2 DEF TalkInv, Talk, Used, loadVars
<1>4. CASE Drain
  <2>1. /\ UNCHANGED <<plan, stage, registry, loaded, id, conversation>>
        /\ pc' = [t \in Turn |-> IF pc[t] = "scheduled" THEN "dropped" ELSE pc[t]]
        /\ phase # "done"
    BY <1>4 DEF Drain, turnVars
  <2>2. \A t \in Turn : pc'[t] \in Task => pc[t] \in Task
    BY <1>1, <2>1 DEF Task, Queueing, Holding
  <2> QED
    BY <2>1, <2>2 DEF TalkInv, Talk, Used
<1>5. CASE EndStage
  <2>1. /\ UNCHANGED <<plan, loaded, id, conversation>> /\ phase = "drain"
        /\ \A t \in Turn : pc'[t] \notin Task
        /\ \/ stage = Len(plan.rounds) /\ phase' = "done" /\ stage' = stage
           \/ stage # Len(plan.rounds) /\ stage' = stage + 1
    BY <1>5 DEF EndStage, turnVars, Task, Queueing, Holding
  <2>2. ASSUME plan.generator = "shared_prefix"
        PROVE  \A t \in Turn : t <= loaded => /\ conversation[t] \in (1 .. stage') \X {0}
                                              /\ stage' # stage => conversation[t] # <<stage', 0>>
    BY <1>1, <2>1, <2>2 DEF TalkInv
  <2>3. plan.generator # "shared_prefix" => phase' = "done"
    BY <1>1, <2>1 DEF Lanes, SlotInv
  <2>4. phase' # "done" => stage' # stage
    BY <1>1, <2>1
  <2> QED
    BY <2>1, <2>2, <2>3, <2>4 DEF TalkInv, Talk, Used
<1>6. CASE UNCHANGED vars
  BY <1>6 DEF vars, TalkInv, Talk, Used
<1> QED
  BY <1>2, <1>3, <1>4, <1>5, <1>6 DEF Next, Load, Inner, Done

\* A request fails only in a plan in which requests do.
LEMMA FailStep == ASSUME TypeOK, Lanes, FailInv, [Next]_vars PROVE FailInv'
<1>1. pc \in [Turn -> {"unloaded"} \cup Task \cup Ended]
  BY DEF TypeOK
<1>2. CASE \E t \in Turn : Due(t) \/ Answer(t)
  <2>1. PICK t \in Turn : Due(t) \/ Answer(t)
    BY <1>2
  <2>2. \/ pc' = [pc EXCEPT ![t] = "arriving"]
        \/ pc' = [pc EXCEPT ![t] = "answered"]
        \/ "fail" \in plan.faults /\ pc' = [pc EXCEPT ![t] = "failing"]
    BY <2>1, Zenon DEF Due, Answer
  <2>3. plan' = plan
    BY <2>1 DEF Due, Answer, loadVars
  <2> QED
    BY <1>1, <2>2, <2>3 DEF FailInv
<1>3. CASE Step
  <2> DEFINE t == Current
  <2>1. t \in Turn /\ ready # <<>>
    BY <1>3, SessionOfTask DEF Step
  <2>2. plan' = plan
    BY <1>3, TurnsMove DEF Inner, loadVars
  <2>3. CASE End(t)
    <3>1. pc' = [u \in Turn |-> IF u = t THEN IF pc[t] = "answered" THEN "done" ELSE "failed"
                                ELSE IF First(sessions[registry[id[t]]].waiting_rounds, u) THEN "woken"
                                ELSE IF Grants(sessions[registry[id[t]]], u) THEN "granted"
                                ELSE pc[u]]
      BY <2>1, <2>3, EndEffect, Zenon
    <3> HIDE DEF t
    <3> QED
      BY <2>2, <3>1 DEF FailInv
  <2>4. CASE Drop(t) \/ Park(t) \/ AwaitLock(t) \/ Pass(t)
    <3>1. \E p \in {"dropped", "parked", "locking", "sent", "raised"} : pc' = [pc EXCEPT ![t] = p]
      BY <2>4, Zenon DEF Drop, Park, AwaitLock, Pass
    <3> HIDE DEF t
    <3> QED
      BY <1>1, <2>1, <2>2, <3>1 DEF FailInv
  <2> QED
    BY <1>3, <2>3, <2>4 DEF Step
<1>4. CASE Load \/ Drain \/ EndStage \/ UNCHANGED vars
  <2>1. plan' = plan /\ \A u \in Turn : pc'[u] # pc[u] => pc'[u] \in {"scheduled", "dropped", "cancelled"}
    <3>1. CASE EndStage
      BY <1>1, <3>1 DEF EndStage
    <3>2. CASE Load \/ Drain \/ UNCHANGED vars
      <4>1. plan' = plan
        BY <3>2 DEF Load, LoadNext, Reprime, NextConversation, LoadTurn, Drain, vars
      <4>2. CASE ~EndStage
        BY <3>2, <4>1, <4>2, OuterForms
      <4> QED
        BY <3>1, <4>2
    <3> QED
      BY <1>4, <3>1, <3>2
  <2> QED
    BY <2>1 DEF FailInv
<1> QED
  BY <1>2, <1>3, <1>4 DEF Next, Load, Done

\* Turns of one conversation that are under way have one id.
LEMMA OneId ==
  ASSUME TypeOK, Lanes, TalkInv, NEW t \in Turn, NEW u \in Turn,
         pc[t] \in Task, pc[u] \in Task, conversation[t] = conversation[u]
  PROVE  id[t] = id[u]
<1>1. Talk(id[t]) = Talk(id[u])
  BY DEF TalkInv
<1>2. CASE plan.generator = "shared_prefix"
  BY <1>2 DEF Lanes, SlotInv
<1>3. CASE plan.generator # "shared_prefix"
  BY <1>1, <1>3 DEF Talk
<1> QED
  BY <1>2, <1>3

\* While a session's lock is free, none of its turns has a request out.
LEMMA NobodyHolds ==
  ASSUME TypeOK, Lanes, TalkInv, NEW t \in Turn, NEW u \in Turn,
         LET o == registry[id[t]] IN o \in 1 .. Len(sessions) /\ Registered(o) /\ ~sessions[o].in_flight,
         pc[t] \in Task, conversation[t] = conversation[u]
  PROVE  pc[u] \notin Holding
<1> SUFFICES ASSUME pc[u] \in Holding PROVE FALSE
  OBVIOUS
<1>1. id[t] = id[u]
  BY OneId DEF Task
<1>2. object[u] = registry[id[t]]
  BY <1>1, SessionOfTask
<1>3. u \in Owners(registry[id[t]])
  BY <1>2 DEF Owners
<1>4. OwnerOf(registry[id[t]])
  BY DEF Lanes, OwnerInv
<1> QED
  BY <1>3, <1>4 DEF OwnerOf

\* A turn passes once, when none of its conversation has a request out.
LEMMA PassedStep == ASSUME TypeOK, Lanes, TalkInv, PassedInv, [Next]_vars PROVE PassedInv'
<1>1. /\ served \in Seq(Turn) /\ pc \in [Turn -> {"unloaded"} \cup Task \cup Ended]
      /\ \A k \in 1 .. Len(served) : served[k] \in Turn /\ pc[served[k]] # "unloaded"
  <2>1. served \in Seq(Turn) /\ pc \in [Turn -> {"unloaded"} \cup Task \cup Ended]
    BY DEF TypeOK
  <2>2. \A k \in 1 .. Len(served) : pc[served[k]] # "unloaded"
    BY DEF PassedInv, Holding
  <2> QED
    BY <2>1, <2>2
<1>2. CASE Steady
  <2>1. served' = served
    BY <1>2 DEF Steady
  <2>2. \A t \in Turn : /\ pc'[t] \in Holding => pc[t] \in Holding
                        /\ pc[t] \in Through => pc'[t] \in Through
                        /\ pc[t] # "unloaded" => conversation'[t] = conversation[t]
    BY <1>2 DEF Steady
  <2>3. Distinct(served') /\ In(served') = In(served)
    BY <2>1 DEF PassedInv
  <2>4. \A k \in 1 .. Len(served') : pc'[served'[k]] \in Holding \cup {"done", "failed", "cancelled"}
    BY <1>1, <2>1, <2>2 DEF PassedInv, Through
  <2>5. \A t \in Turn : pc'[t] \in Holding => t \in In(served')
    BY <2>2, <2>3 DEF PassedInv
  <2>6. \A k, l \in 1 .. Len(served') :
          k < l /\ conversation'[served'[k]] = conversation'[served'[l]] => pc'[served'[k]] \notin Holding
    BY <1>1, <2>1, <2>2 DEF PassedInv
  <2> QED
    BY <2>3, <2>4, <2>5, <2>6 DEF PassedInv
<1>3. ASSUME Inner, NEW t \in Turn, NEW o \in 1 .. Len(sessions),
             o = registry[id[t]], Registered(o), Stops(t, o)
      PROVE  PassedInv'
  <2>1. served' = served /\ conversation' = conversation
    BY <1>3, TurnsMove DEF Stops
  <2>2. ASSUME NEW u \in Turn
        PROVE  /\ pc'[u] \in Holding => pc[u] \in Holding
               /\ pc[u] \in Through => pc'[u] \in Through
    <3>1. pc'[u] = pc[u] \/ <<pc[u], pc'[u]>> \in Moves
      BY <1>3, TurnsMove
    <3>2. pc'[u] # "sent" \/ pc'[u] = pc[u]
      BY <1>3 DEF Stops
    <3> QED
      BY <3>1, <3>2 DEF Moves, Holding, Through
  <2>3. \A k \in 1 .. Len(served') : pc'[served'[k]] \in Holding \cup {"done", "failed", "cancelled"}
    BY <1>1, <2>1, <2>2 DEF PassedInv, Through
  <2>4. \A u \in Turn : pc'[u] \in Holding => u \in In(served')
    BY <2>1, <2>2 DEF PassedInv
  <2>5. \A k, l \in 1 .. Len(served') :
          k < l /\ conversation'[served'[k]] = conversation'[served'[l]] => pc'[served'[k]] \notin Holding
    BY <1>1, <2>1, <2>2 DEF PassedInv
  <2>6. Distinct(served')
    BY <2>1 DEF PassedInv
  <2> QED
    BY <2>3, <2>4, <2>5, <2>6 DEF PassedInv
<1>4. ASSUME Inner, NEW t \in Turn, NEW o \in 1 .. Len(sessions),
             o = registry[id[t]], Registered(o), Sends(t, o)
      PROVE  PassedInv'
  <2> DEFINE q == served
             n == Len(q)
  <2>1. /\ conversation' = conversation /\ served' = Append(q, t)
        /\ pc[t] \in {"arriving", "woken", "granted"} /\ ~sessions[o].in_flight
        /\ \A u \in Turn : pc'[u] = IF u = t THEN "sent" ELSE pc[u]
    BY <1>1, <1>4, TurnsMove DEF Sends
  <2>2. /\ In(Append(q, t)) = In(q) \cup {t} /\ Len(Append(q, t)) = n + 1 /\ n \in Nat
        /\ \A k \in 1 .. n : Append(q, t)[k] = q[k]
        /\ Append(q, t)[n + 1] = t
    BY <1>1, InAppended
  <2>3. \A k \in 1 .. n : q[k] # t /\ q[k] \in Turn
    BY <1>1, <2>1 DEF PassedInv, Holding
  <2>4. \A k \in 1 .. n : conversation[q[k]] = conversation[t] => pc[q[k]] \notin Holding
    <3>1. pc[t] \in Task
      BY <2>1 DEF Task, Queueing
    <3> QED
      BY <1>4, <2>1, <2>3, <3>1, NobodyHolds
  <2>5. Len(served') = n + 1 /\ In(served') = In(q) \cup {t}
        /\ \A k \in 1 .. n + 1 : served'[k] = IF k = n + 1 THEN t ELSE q[k]
    <3>1. \A k \in 1 .. n + 1 : k # n + 1 => k \in 1 .. n
      BY <2>2
    <3> QED
      BY <2>1, <2>2, <3>1
  <2>6. \A k \in 1 .. n + 1 : k # n + 1 => k \in 1 .. n
    BY <2>2
  <2>7. Distinct(served')
    BY <2>3, <2>5, <2>6 DEF PassedInv, Distinct
  <2>8. \A k \in 1 .. Len(served') : pc'[served'[k]] \in Holding \cup {"done", "failed", "cancelled"}
    BY <2>1, <2>3, <2>5, <2>6 DEF PassedInv, Holding
  <2>9. \A u \in Turn : pc'[u] \in Holding => u \in In(served')
    BY <2>1, <2>5 DEF PassedInv
  <2>10. ASSUME NEW k \in 1 .. Len(served'), NEW l \in 1 .. Len(served'), k < l,
                conversation'[served'[k]] = conversation'[served'[l]]
         PROVE  pc'[served'[k]] \notin Holding
    <3>1. k \in 1 .. n
      BY <2>2, <2>5, <2>10
    <3>2. served'[k] = q[k] /\ q[k] # t /\ pc'[q[k]] = pc[q[k]]
      BY <2>1, <2>3, <2>5, <2>6, <2>2, <3>1
    <3>3. CASE l = n + 1
      BY <2>1, <2>4, <2>5, <2>10, <3>1, <3>2, <3>3
    <3>4. CASE l # n + 1
      <4>1. l \in 1 .. n /\ served'[l] = q[l]
        BY <2>5, <2>6, <2>10, <3>4
      <4> QED
        BY <2>1, <2>10, <3>1, <3>2, <4>1 DEF PassedInv
    <3> QED
      BY <3>3, <3>4
  <2> QED
    BY <2>7, <2>8, <2>9, <2>10 DEF PassedInv
<1> QED
  BY <1>2, <1>3, <1>4, Steadiness

\* Of nothing, nothing is selected.
LEMMA AmongNone == \A q \in Seq(Turn) : Among[q][{}] = <<>>
<1> DEFINE Good == {q \in Seq(Turn) : Among[q][{}] = <<>>}
<1>1. <<>> \in Good
  BY AmongGrows
<1>2. ASSUME NEW q \in Seq(Turn), NEW x \in Turn, q \in Good PROVE Append(q, x) \in Good
  <2>1. Append(q, x) \in Seq(Turn)
    BY <1>2
  <2>2. {} \in SUBSET Turn
    OBVIOUS
  <2> QED
    BY <1>2, <2>1, <2>2, AmongGrows
<1>3. \A q \in Seq(Turn) : q \in Good
  <2> HIDE DEF Good
  <2> QED
    BY <1>1, <1>2, QueueInduction
<1> QED
  BY <1>3

\* What a conversation has told so far is no longer than the run.
LEMMA ToldParts ==
  ASSUME TypeOK, PassedInv
  PROVE  /\ \A c : Told(c) \in Seq(Turn) /\ Len(Told(c)) <= MaxTurns
         /\ \A t : EarlierOf(served, conversation, pc, t) \in Seq(Turn)
<1>1. served \in Seq(Turn) /\ Distinct(served) /\ MaxTurns \in Nat
  BY UserSessionAssumption DEF TypeOK, PassedInv
<1>2. ASSUME NEW A \in SUBSET Turn PROVE Among[served][A] \in Seq(Turn) /\ Len(Among[served][A]) <= MaxTurns
  <2>1. Among[served][A] \in Seq(Turn) /\ Len(Among[served][A]) <= Len(served)
    BY <1>1, AmongGrows, AmongOf
  <2>2. Len(served) <= MaxTurns /\ Len(served) \in Nat
    BY <1>1, QueueBound
  <2>3. Len(Among[served][A]) \in Nat
    BY <2>1
  <2> QED
    BY <1>1, <2>1, <2>2, <2>3
<1>3. \A c : {u \in Turn : conversation[u] = c /\ pc[u] = "done"} \in SUBSET Turn
  OBVIOUS
<1>4. \A t : {u \in Turn : u \in Ahead(served, t) /\ conversation[u] = conversation[t] /\ pc[u] = "done"}
               \in SUBSET Turn
  OBVIOUS
<1> QED
  BY <1>2, <1>3, <1>4 DEF Told, Selected, EarlierOf

\* A turn whose request is out passed after all of its conversation that succeeded.
LEMMA EarlierIsTold ==
  ASSUME TypeOK, PassedInv, NEW t \in Turn, pc[t] \in Holding
  PROVE  EarlierOf(served, conversation, pc, t) = Told(conversation[t])
<1> DEFINE q == served
           A == {u \in Turn : u \in Ahead(q, t) /\ conversation[u] = conversation[t] /\ pc[u] = "done"}
           B == {u \in Turn : conversation[u] = conversation[t] /\ pc[u] = "done"}
<1>1. q \in Seq(Turn) /\ Len(q) \in Nat /\ Distinct(q)
  BY DEF TypeOK, PassedInv
<1>2. PICK m \in 1 .. Len(q) : q[m] = t
  BY DEF PassedInv, In
<1>3. ASSUME NEW u \in B, u \in In(q) PROVE u \in A
  <2>1. PICK k \in 1 .. Len(q) : q[k] = u
    BY <1>3 DEF In
  <2>2. k # m /\ ~(m < k)
    BY <1>2, <1>3, <2>1 DEF PassedInv, Holding
  <2>3. k < m
    BY <1>1, <2>2
  <2>4. \A j \in 1 .. k : q[j] # t
    <3> SUFFICES ASSUME NEW j \in 1 .. k, q[j] = t PROVE FALSE
      OBVIOUS
    <3>1. j \in 1 .. Len(q) /\ j < m
      BY <1>1, <2>3
    <3> QED
      BY <1>1, <1>2, <3>1 DEF Distinct
  <2>5. u \in Ahead(q, t)
    BY <2>1, <2>4 DEF Ahead
  <2> QED
    BY <1>3, <2>5
<1>4. A \cap In(q) = B \cap In(q)
  BY <1>3
<1>5. Among[q][A] = Among[q][B]
  BY <1>1, <1>4, AmongOf
<1> QED
  BY <1>5 DEF EarlierOf, Told, Selected

\* The transcript of a session is that of another with the same.
LEMMA ScriptCarried ==
  ASSUME NEW p, NEW s, NEW s1, NEW J, SameScript(s, s1)
  PROVE  /\ TranscriptOf(p, s, J) => TranscriptOf(p, s1, J)
         /\ IsCut(p, s, J) => IsCut(p, s1, J)
BY DEF SameScript, TranscriptOf, IsCut

\* In a steady step the conversations have told what they had.
LEMMA StoryStays ==
  ASSUME TypeOK, PassedInv, Steady
  PROVE  /\ \A c : Selected(served', conversation', pc', c) = Told(c)
         /\ \A t \in Turn : t \in In(served) =>
              EarlierOf(served', conversation', pc', t) = EarlierOf(served, conversation, pc, t)
         /\ \A t \in Turn : t \in In(served) => conversation'[t] = conversation[t]
<1>1. /\ served' = served
      /\ \A t \in Turn : /\ pc[t] # "unloaded" => conversation'[t] = conversation[t]
                         /\ pc'[t] = "done" <=> pc[t] = "done"
  BY DEF Steady
<1>2. ASSUME NEW t \in Turn, t \in In(served) PROVE pc[t] # "unloaded"
  BY <1>2 DEF PassedInv, In, Holding
<1>3. \A c : {u \in Turn : conversation'[u] = c /\ pc'[u] = "done"}
               = {u \in Turn : conversation[u] = c /\ pc[u] = "done"}
  BY <1>1
<1>4. ASSUME NEW t \in Turn, t \in In(served)
      PROVE  {u \in Turn : u \in Ahead(served, t) /\ conversation'[u] = conversation'[t] /\ pc'[u] = "done"}
               = {u \in Turn : u \in Ahead(served, t) /\ conversation[u] = conversation[t] /\ pc[u] = "done"}
  BY <1>1, <1>2, <1>4
<1>5. \A t \in Turn : t \in In(served) => conversation'[t] = conversation[t]
  BY <1>1, <1>2
<1> QED
  BY <1>1, <1>3, <1>4, <1>5 DEF Told, Selected, EarlierOf

\* A turn that passes has told nothing yet, and finds what has been told.
LEMMA Sending ==
  ASSUME TypeOK, Lanes, PassedInv, Inner, NEW t \in Turn, NEW o \in 1 .. Len(sessions), Sends(t, o)
  PROVE  /\ \A c : Selected(served', conversation', pc', c) = Told(c)
         /\ \A u \in Turn : u \in In(served) =>
              EarlierOf(served', conversation', pc', u) = EarlierOf(served, conversation, pc, u)
         /\ EarlierOf(served', conversation', pc', t) = Told(conversation[t])
         /\ t \notin In(served) /\ In(served') = In(served) \cup {t}
         /\ conversation' = conversation
<1> DEFINE q == served
           n == Len(q)
           r == Append(q, t)
<1>1. /\ q \in Seq(Turn) /\ n \in Nat /\ Distinct(q)
      /\ pc \in [Turn -> {"unloaded"} \cup Task \cup Ended]
  BY DEF TypeOK, PassedInv
<1>2. /\ conversation' = conversation /\ served' = r
      /\ pc[t] \in {"arriving", "woken", "granted"}
      /\ \A u \in Turn : pc'[u] = IF u = t THEN "sent" ELSE pc[u]
  BY <1>1, TurnsMove DEF Sends
<1>3. /\ In(r) = In(q) \cup {t} /\ r \in Seq(Turn) /\ Len(r) = n + 1
      /\ \A k \in 1 .. n : r[k] = q[k]
      /\ r[n + 1] = t
  BY <1>1, InAppended
<1>4. /\ \A u \in Turn : pc'[u] = "done" <=> pc[u] = "done"
      /\ pc'[t] # "done" /\ pc[t] # "done"
  BY <1>2
<1>5. \A k \in 1 .. n : q[k] # t
  BY <1>2 DEF PassedInv, Holding
<1>6. t \notin In(q)
  BY <1>5 DEF In
<1> HIDE DEF r
<1>7. ASSUME NEW A \in SUBSET Turn, t \notin A PROVE Among[r][A] = Among[q][A]
  BY <1>1, <1>7, AmongGrows DEF r
<1>8. ASSUME NEW c PROVE Selected(served', conversation', pc', c) = Told(c)
  <2> DEFINE A == {u \in Turn : conversation[u] = c /\ pc[u] = "done"}
  <2>1. {u \in Turn : conversation'[u] = c /\ pc'[u] = "done"} = A
    BY <1>2, <1>4
  <2>2. Among[r][A] = Among[q][A]
    BY <1>4, <1>7
  <2> QED
    BY <1>2, <2>1, <2>2 DEF Selected, Told
<1>9. ASSUME NEW u \in Turn, u \in In(q)
      PROVE  EarlierOf(served', conversation', pc', u) = EarlierOf(served, conversation, pc, u)
  <2> DEFINE A == {v \in Turn : v \in Ahead(q, u) /\ conversation[v] = conversation[u] /\ pc[v] = "done"}
  <2>1. Ahead(r, u) = Ahead(q, u)
    <3>1. PICK m \in 1 .. n : q[m] = u
      BY <1>9 DEF In
    <3>2. ASSUME NEW k \in 1 .. n + 1, \A j \in 1 .. k : r[j] # u
          PROVE  k \in 1 .. n /\ (\A j \in 1 .. k : q[j] # u) /\ r[k] = q[k]
      <4>1. ~(m <= k)
        BY <1>1, <1>3, <3>1, <3>2
      <4>2. k \in 1 .. n /\ \A j \in 1 .. k : j \in 1 .. n
        BY <1>1, <3>1, <4>1
      <4> QED
        BY <1>3, <3>2, <4>2
    <3>3. ASSUME NEW k \in 1 .. n, \A j \in 1 .. k : q[j] # u
          PROVE  k \in 1 .. n + 1 /\ (\A j \in 1 .. k : r[j] # u) /\ r[k] = q[k]
      <4>1. k \in 1 .. n + 1 /\ \A j \in 1 .. k : j \in 1 .. n
        BY <1>1, <3>3
      <4> QED
        BY <1>3, <3>3, <4>1
    <3> QED
      BY <1>3, <3>2, <3>3 DEF Ahead
  <2>2. {v \in Turn : v \in Ahead(r, u) /\ conversation'[v] = conversation'[u] /\ pc'[v] = "done"} = A
    BY <1>2, <1>4, <2>1
  <2>3. Among[r][A] = Among[q][A]
    BY <1>4, <1>7
  <2> QED
    BY <1>2, <2>2, <2>3 DEF EarlierOf
<1>10. EarlierOf(served', conversation', pc', t) = Told(conversation[t])
  <2> DEFINE A == {v \in Turn : v \in Ahead(r, t) /\ conversation[v] = conversation[t] /\ pc[v] = "done"}
             B == {v \in Turn : conversation[v] = conversation[t] /\ pc[v] = "done"}
  <2>1. \A k \in 1 .. n : k \in 1 .. Len(r) /\ \A j \in 1 .. k : r[j] # t
    <3> SUFFICES ASSUME NEW k \in 1 .. n, NEW j \in 1 .. k PROVE k \in 1 .. Len(r) /\ r[j] # t
      OBVIOUS
    <3>1. j \in 1 .. n
      BY <1>1
    <3> QED
      BY <1>1, <1>3, <1>5, <3>1
  <2>2. In(q) \subseteq Ahead(r, t)
    BY <1>3, <2>1 DEF In, Ahead
  <2>3. A \cap In(q) = B \cap In(q)
    BY <2>2
  <2>4. {v \in Turn : v \in Ahead(r, t) /\ conversation'[v] = conversation'[t] /\ pc'[v] = "done"} = A
    BY <1>2, <1>4
  <2>5. Among[r][A] = Among[q][A]
    BY <1>4, <1>7
  <2>6. Among[q][A] = Among[q][B]
    BY <1>1, <2>3, AmongOf
  <2> QED
    BY <1>2, <2>4, <2>5, <2>6 DEF EarlierOf, Told, Selected
<1> QED
  BY <1>2, <1>3, <1>6, <1>8, <1>9, <1>10

\* A turn that ends has been told last in its conversation, if it was answered.
LEMMA Ending ==
  ASSUME TypeOK, Lanes, PassedInv, Inner, NEW t \in Turn, NEW o \in 1 .. Len(sessions), Stops(t, o)
  PROVE  /\ \A c : Selected(served', conversation', pc', c) =
              IF c = conversation[t] /\ pc[t] = "answered" THEN Append(Told(c), t) ELSE Told(c)
         /\ \A u \in Turn : u \in In(served) =>
              EarlierOf(served', conversation', pc', u) = EarlierOf(served, conversation, pc, u)
         /\ conversation' = conversation /\ t \in In(served)
<1> DEFINE q == served
           n == Len(q)
<1>1. /\ q \in Seq(Turn) /\ n \in Nat /\ Distinct(q)
      /\ pc \in [Turn -> {"unloaded"} \cup Task \cup Ended]
  BY DEF TypeOK, PassedInv
<1>2. /\ conversation' = conversation /\ served' = q
      /\ pc[t] \in {"answered", "failing"}
      /\ pc'[t] = IF pc[t] = "answered" THEN "done" ELSE "failed"
  BY TurnsMove DEF Stops
<1>3. \A u \in Turn : u # t => (pc'[u] = "done" <=> pc[u] = "done")
  <2> SUFFICES ASSUME NEW u \in Turn, u # t PROVE pc'[u] = "done" <=> pc[u] = "done"
    OBVIOUS
  <2>1. pc'[u] = pc[u] \/ pc'[u] # "done"
    BY DEF Stops
  <2>2. pc'[u] = pc[u] \/ <<pc[u], pc'[u]>> \in Moves
    BY TurnsMove
  <2> QED
    BY <2>1, <2>2 DEF Moves
<1>4. t \in In(q)
  BY <1>2 DEF PassedInv, Holding
<1>5. PICK m \in 1 .. n : q[m] = t
  BY <1>4 DEF In
<1>6. ASSUME NEW l \in 1 .. n, m < l PROVE conversation[q[l]] # conversation[t]
  BY <1>2, <1>5, <1>6 DEF PassedInv, Holding
<1>7. ASSUME NEW c PROVE Selected(served', conversation', pc', c) =
                           IF c = conversation[t] /\ pc[t] = "answered" THEN Append(Told(c), t) ELSE Told(c)
  <2> DEFINE A == {u \in Turn : conversation[u] = c /\ pc[u] = "done"}
             B == {u \in Turn : conversation[u] = c /\ pc'[u] = "done"}
  <2>1. Selected(served', conversation', pc', c) = Among[q][B] /\ Told(c) = Among[q][A]
    BY <1>2 DEF Selected, Told
  <2>2. CASE c = conversation[t] /\ pc[t] = "answered"
    <3>1. B = A \cup {t} /\ t \notin A
      BY <1>2, <1>3, <2>2
    <3>2. \A l \in 1 .. n : l > m => q[l] \notin A
      <4> SUFFICES ASSUME NEW l \in 1 .. n, l > m PROVE q[l] \notin A
        OBVIOUS
      <4>1. m < l
        BY <1>1
      <4> QED
        BY <1>6, <2>2, <4>1
    <3>3. A \in SUBSET Turn
      OBVIOUS
    <3> HIDE DEF A, B
    <3>4. Among[q][A \cup {t}] = Append(Among[q][A], t)
      BY <1>1, <1>5, <3>1, <3>2, <3>3, AmongWith
    <3> QED
      BY <2>1, <2>2, <3>1, <3>4
  <2>3. CASE ~(c = conversation[t] /\ pc[t] = "answered")
    <3>1. B = A
      BY <1>2, <1>3, <2>3
    <3> HIDE DEF A, B
    <3> QED
      BY <2>1, <2>3, <3>1
  <2> QED
    BY <2>2, <2>3
<1>8. ASSUME NEW u \in Turn, u \in In(q)
      PROVE  EarlierOf(served', conversation', pc', u) = EarlierOf(served, conversation, pc, u)
  <2>1. PICK l \in 1 .. n : q[l] = u
    BY <1>8 DEF In
  <2>2. ~(t \in Ahead(q, u) /\ conversation[t] = conversation[u])
    <3> SUFFICES ASSUME t \in Ahead(q, u), conversation[t] = conversation[u] PROVE FALSE
      OBVIOUS
    <3>1. PICK k \in 1 .. n : q[k] = t /\ \A j \in 1 .. k : q[j] # u
      BY DEF Ahead
    <3>2. k = m
      BY <1>5, <3>1, <1>1 DEF Distinct
    <3>3. ~(l <= m)
      BY <1>1, <2>1, <3>1, <3>2
    <3> QED
      BY <1>1, <1>6, <2>1, <3>3
  <2>3. {v \in Turn : v \in Ahead(q, u) /\ conversation[v] = conversation[u] /\ pc'[v] = "done"}
          = {v \in Turn : v \in Ahead(q, u) /\ conversation[v] = conversation[u] /\ pc[v] = "done"}
    BY <1>3, <2>2
  <2> QED
    BY <1>2, <2>3 DEF EarlierOf
<1> QED
  BY <1>2, <1>4, <1>7, <1>8

\* The session of a turn under way, and the conversation it stands for.
LEMMA AtSession ==
  ASSUME TypeOK, Lanes, TalkInv, PassedInv, KeptInv, NEW t \in Turn, pc[t] \in Task
  PROVE  LET o == registry[id[t]]
             J == Told(conversation[t])
         IN /\ o \in 1 .. Len(sessions) /\ sessions[o] \in LocalUserSession
            /\ id[t] \in ID /\ Used(id[t]) /\ conversation[t] = Talk(id[t])
            /\ TranscriptOf(plan, sessions[o], J) /\ J \in Seq(Turn) /\ Len(J) <= MaxTurns
            /\ \A i \in ID : Used(i) /\ registry[i] # 0 /\ i # id[t] =>
                 registry[i] # o /\ Talk(i) # conversation[t]
<1> DEFINE o == registry[id[t]]
<1>1. id[t] \in ID /\ o \in 1 .. Len(sessions) /\ Registered(o)
  BY SessionOfTask
<1>2. sessions[o] \in LocalUserSession
  BY <1>1, SessionParts
<1>3. Used(id[t]) /\ conversation[t] = Talk(id[t])
  BY DEF Lanes, SlotInv, TalkInv, Used
<1>4. TranscriptOf(plan, sessions[o], Told(conversation[t]))
  BY <1>1, <1>3 DEF KeptInv
<1>5. ASSUME NEW i \in ID, Used(i), registry[i] # 0, i # id[t]
      PROVE  registry[i] # o /\ Talk(i) # conversation[t]
  <2>1. registry[i] # o
    BY <1>1, <1>5 DEF Lanes, NamedInv
  <2>2. Talk(i) # Talk(id[t])
    BY <1>3, <1>5 DEF Talk, Used
  <2> QED
    BY <1>3, <2>1, <2>2
<1> QED
  BY <1>1, <1>2, <1>3, <1>4, <1>5, ToldParts

\* Whoever has a request out beside a turn at a session is at another.
LEMMA OthersElsewhere ==
  ASSUME TypeOK, Lanes, NEW t \in Turn, NEW o \in 1 .. Len(sessions), o = registry[id[t]], Registered(o),
         pc[t] \in {"answered", "failing"} \/ ~sessions[o].in_flight, pc[t] \in Task
  PROVE  \A u \in Turn : u # t /\ pc[u] \in Holding =>
           /\ registry[id[u]] # o /\ registry[id[u]] \in 1 .. Len(sessions)
<1> SUFFICES ASSUME NEW u \in Turn, u # t, pc[u] \in Holding
             PROVE  registry[id[u]] # o /\ registry[id[u]] \in 1 .. Len(sessions)
  OBVIOUS
<1>1. object[u] = registry[id[u]] /\ registry[id[u]] \in 1 .. Len(sessions)
  BY SessionOfTask DEF Task
<1>2. ASSUME registry[id[u]] = o PROVE FALSE
  <2>1. u \in Owners(o)
    BY <1>1, <1>2 DEF Owners
  <2>2. OwnerOf(o)
    BY DEF Lanes, OwnerInv
  <2>3. t \in Owners(o)
    <3>1. pc[t] \in {"answered", "failing"}
      BY <2>1, <2>2 DEF OwnerOf
    <3>2. object[t] = o
      BY <3>1, SessionOfTask DEF Holding
    <3> QED
      BY <3>1, <3>2 DEF Owners, Holding
  <2> QED
    BY <2>1, <2>2, <2>3 DEF OwnerOf
<1> QED
  BY <1>1, <1>2

\* What a session that is replaced leaves of the others.
LEMMA Replaced ==
  ASSUME TypeOK, NEW o \in 1 .. Len(sessions), NEW s, sessions' = [sessions EXCEPT ![o] = s]
  PROVE  /\ sessions'[o] = s
         /\ \A p \in 1 .. Len(sessions) : p # o => sessions'[p] = sessions[p]
<1>1. sessions \in Seq(LocalUserSession)
  BY DEF TypeOK
<1> QED
  BY <1>1

\* A conversation starts with the system prompt and no turn.
LEMMA OpeningTells == ASSUME plan \in Plan PROVE TranscriptOf(plan, Opening, <<>>)
<1>1. plan.room \in Nat
  BY DEF Plan
<1>2. /\ Opening.prompt = <<System>> /\ Opening.accumulates /\ Opening.context = <<System>>
      /\ Opening.history = <<>>
  BY DEF Opening, New
<1>3. <<>> \in Seq(Turn) /\ Len(<<>>) = 0 /\ <<System>> \o <<>> = <<System>>
  OBVIOUS
<1>4. Singles(<<>>) = <<>>
  BY <1>3, SingleParts
<1>5. Keeps(plan, <<>>, <<>>)
  BY <1>1, <1>3 DEF Keeps
<1> QED
  BY <1>2, <1>3, <1>4, <1>5 DEF TranscriptOf

\* The transcript of a session stays what its conversation told when a turn passes.
LEMMA SendingKeeps ==
  ASSUME TypeOK, Lanes, Fits(plan), Talks, Inner, NEW t \in Turn, NEW o \in 1 .. Len(sessions),
         o = registry[id[t]], Registered(o), Sends(t, o)
  PROVE  KeptInv' /\ HeldInv' /\ UnbrokenInv'
<1> DEFINE J == Told(conversation[t])
<1>1. pc[t] \in Task /\ pc[t] \notin Holding /\ ~sessions[o].in_flight /\ plan \in Plan
  BY SessionOfTask DEF Sends, Task, Queueing, Holding
<1>2. /\ UNCHANGED <<plan, stage, registry, id, conversation>>
      /\ \A u \in Turn : pc'[u] = IF u = t THEN "sent" ELSE pc[u]
      /\ carried'[t] = sessions[o].context
      /\ \A u \in Turn : u # t => carried'[u] = carried[u]
  <2>1. UNCHANGED <<plan, stage, registry, id, conversation>>
    BY TurnsMove DEF loadVars
  <2> QED
    BY <2>1 DEF Sends, TypeOK
<1>3. PICK s \in LocalUserSession :
        /\ SameScript(sessions[o], s)
        /\ sessions' = [sessions EXCEPT ![o] = Truncated(s)]
        /\ sent' = [sent EXCEPT ![t] =
             (IF plan.limited THEN Truncated(s).prompt \o Joined[Truncated(s).history]
                              ELSE sessions[o].context) \o <<t>>]
  BY Zenon DEF Sends
<1>4. /\ id[t] \in ID /\ Used(id[t]) /\ conversation[t] = Talk(id[t])
      /\ TranscriptOf(plan, sessions[o], J) /\ J \in Seq(Turn) /\ Len(J) <= MaxTurns
      /\ \A i \in ID : Used(i) /\ registry[i] # 0 /\ i # id[t] =>
           registry[i] # o /\ Talk(i) # conversation[t]
  BY <1>1, AtSession DEF Talks
<1>5. /\ \A c : Selected(served', conversation', pc', c) = Told(c)
      /\ \A u \in Turn : u \in In(served) =>
           EarlierOf(served', conversation', pc', u) = EarlierOf(served, conversation, pc, u)
      /\ EarlierOf(served', conversation', pc', t) = J
      /\ t \notin In(served) /\ In(served') = In(served) \cup {t}
  BY Sending DEF Talks
<1> HIDE DEF J
<1>6. TranscriptOf(plan, s, J)
  BY <1>3, <1>4, ScriptCarried
<1>7. /\ TranscriptOf(plan, Truncated(s), J) /\ IsCut(plan, Truncated(s), J)
      /\ IF plan.limited
         THEN Truncated(s).prompt \o Joined[Truncated(s).history] = <<System>> \o Cut(plan, J)
         ELSE s.context = <<System>> \o Cut(plan, J)
  BY <1>1, <1>4, <1>6, TruncatedKeeps
<1>8. sessions'[o] = Truncated(s) /\ \A p \in 1 .. Len(sessions) : p # o => sessions'[p] = sessions[p]
  BY <1>3, Replaced
<1>9. KeptInv'
  <2>1. ASSUME NEW i \in ID, Used(i), registry[i] # 0
        PROVE  TranscriptOf(plan, sessions'[registry[i]], Told(Talk(i)))
    <3>1. CASE i = id[t]
      BY <1>4, <1>7, <1>8, <3>1 DEF J
    <3>2. CASE i # id[t]
      <4>1. registry[i] # o /\ registry[i] \in 1 .. Len(sessions)
        BY <1>4, <2>1, <3>2 DEF TypeOK
      <4> QED
        BY <1>8, <2>1, <4>1 DEF Talks, KeptInv
    <3> QED
      BY <3>1, <3>2
  <2>2. \A i \in ID : Selected(served', conversation', pc', Talk(i)) = Told(Talk(i))
    BY <1>5
  <2> QED
    BY <1>2, <2>1, <2>2 DEF KeptInv, Told, Used, Talk
<1>10. HeldInv'
  <2>1. ASSUME NEW u \in Turn, pc'[u] \in Holding
        PROVE  /\ IsCut(plan, sessions'[registry[id[u]]], Told(conversation[u]))
               /\ Carries(plan, carried'[u], Told(conversation[u]))
    <3>1. CASE u = t
      <4>1. Carries(plan, sessions[o].context, J)
        BY <1>4 DEF TranscriptOf, Carries
      <4> QED
        BY <1>2, <1>7, <1>8, <3>1, <4>1 DEF J
    <3>2. CASE u # t
      <4>1. pc[u] \in Holding
        BY <1>2, <2>1, <3>2
      <4>2. registry[id[u]] # o /\ registry[id[u]] \in 1 .. Len(sessions)
        BY <1>1, <3>2, <4>1, OthersElsewhere
      <4> QED
        BY <1>2, <1>8, <3>2, <4>1, <4>2 DEF Talks, HeldInv
    <3> QED
      BY <3>1, <3>2
  <2>2. \A u \in Turn : Selected(served', conversation', pc', conversation[u]) = Told(conversation[u])
    BY <1>5
  <2> QED
    BY <1>2, <2>1, <2>2 DEF HeldInv, Told
<1>11. UnbrokenInv'
  <2>1. Unbroken(plan, sent'[t], t, J)
    <3> DEFINE x == IF plan.limited THEN Truncated(s).prompt \o Joined[Truncated(s).history]
                                    ELSE sessions[o].context
               y == x \o <<t>>
    <3>1. x = <<System>> \o Cut(plan, J)
      <4>1. s.context = sessions[o].context
        BY <1>3, Zenon DEF SameScript
      <4>2. CASE plan.limited
        BY <1>7, <4>2, Zenon
      <4>3. CASE ~plan.limited
        BY <1>7, <4>1, <4>3, Zenon
      <4> QED
        BY <4>2, <4>3
    <3>2. sent' = [sent EXCEPT ![t] = y]
      BY <1>3
    <3>3. t \in DOMAIN sent
      BY DEF TypeOK
    <3> HIDE DEF x
    <3>4. y = (<<System>> \o Cut(plan, J)) \o <<t>>
      BY <3>1
    <3> HIDE DEF y
    <3>5. sent'[t] = y
      BY <3>2, <3>3
    <3> QED
      BY <3>4, <3>5 DEF Unbroken
  <2>2. ASSUME NEW u \in Turn, u \in In(served)
        PROVE  Unbroken(plan, sent'[u], u, EarlierOf(served, conversation, pc, u))
    <3>1. sent'[u] = sent[u]
      <4>1. u # t /\ u \in DOMAIN sent
        BY <1>5, <2>2 DEF TypeOK
      <4>2. \E y : sent' = [sent EXCEPT ![t] = y]
        BY <1>3, Zenon
      <4> QED
        BY <4>1, <4>2
    <3> QED
      BY <2>2, <3>1 DEF Talks, UnbrokenInv
  <2> QED
    BY <1>2, <1>5, <2>1, <2>2 DEF UnbrokenInv
<1> QED
  BY <1>9, <1>10, <1>11

\* So it does when a turn ends: an answer adds its turn, a failure nothing.
LEMMA EndingKeeps ==
  ASSUME TypeOK, Lanes, Fits(plan), Talks, Inner, NEW t \in Turn, NEW o \in 1 .. Len(sessions),
         o = registry[id[t]], Registered(o), Stops(t, o)
  PROVE  KeptInv' /\ HeldInv' /\ UnbrokenInv'
<1> DEFINE J == Told(conversation[t])
           K == IF pc[t] = "answered" THEN Append(J, t) ELSE J
<1>1. /\ pc[t] \in Task /\ pc[t] \in Holding /\ plan \in Plan
      /\ pc[t] \in {"answered", "failing"} /\ pc'[t] \notin Holding
  BY SessionOfTask DEF Stops, Task, Holding
<1>2. /\ UNCHANGED <<plan, stage, registry, id, conversation, served, sent, carried>>
      /\ \A u \in Turn : pc'[u] # pc[u] => <<pc[u], pc'[u]>> \in Moves
  BY TurnsMove DEF loadVars, Stops
<1>3. \A u \in Turn : pc'[u] \in Holding => u # t /\ pc[u] \in Holding
  <2> SUFFICES ASSUME NEW u \in Turn, pc'[u] \in Holding PROVE u # t /\ pc[u] \in Holding
    OBVIOUS
  <2>1. u # t
    BY <1>1
  <2>2. pc'[u] # pc[u] => pc'[u] # "sent"
    BY <2>1 DEF Stops
  <2> QED
    BY <1>2, <2>1, <2>2 DEF Moves, Holding
<1>4. PICK s \in LocalUserSession :
        /\ SameScript(Updated(sessions[o], Response(t)), s)
        /\ sessions' = [sessions EXCEPT ![o] = s]
  BY Zenon DEF Stops
<1>5. /\ id[t] \in ID /\ Used(id[t]) /\ conversation[t] = Talk(id[t])
      /\ sessions[o] \in LocalUserSession
      /\ TranscriptOf(plan, sessions[o], J) /\ J \in Seq(Turn) /\ Len(J) <= MaxTurns
      /\ \A i \in ID : Used(i) /\ registry[i] # 0 /\ i # id[t] =>
           registry[i] # o /\ Talk(i) # conversation[t]
  BY <1>1, AtSession DEF Talks
<1>6. /\ \A c : Selected(served', conversation', pc', c) =
           IF c = conversation[t] /\ pc[t] = "answered" THEN Append(Told(c), t) ELSE Told(c)
      /\ \A u \in Turn : u \in In(served) =>
           EarlierOf(served', conversation', pc', u) = EarlierOf(served, conversation, pc, u)
      /\ t \in In(served)
  BY Ending DEF Talks
<1>7. IsCut(plan, sessions[o], J) /\ Carries(plan, carried[t], J)
  BY <1>1 DEF Talks, HeldInv
<1>8. sent[t] = (<<System>> \o Cut(plan, J)) \o <<t>>
  <2>1. EarlierOf(served, conversation, pc, t) = J
    BY <1>1, EarlierIsTold DEF Talks
  <2> HIDE DEF J
  <2> QED
    BY <1>6, <2>1 DEF Talks, UnbrokenInv, Unbroken
<1>9. TranscriptOf(plan, s, K)
  <2> HIDE DEF J
  <2>1. TranscriptOf(plan, Updated(sessions[o], Response(t)), K)
    <3>1. CASE pc[t] = "answered"
      <4>1. Response(t) = (<<System>> \o Cut(plan, J)) \o <<t>>
        BY <1>8, <3>1 DEF Response
      <4>2. TranscriptOf(plan, Updated(sessions[o], (<<System>> \o Cut(plan, J)) \o <<t>>), Append(J, t))
        BY <1>1, <1>5, <1>7, AnswerKept
      <4> QED
        BY <3>1, <4>1, <4>2, Zenon
    <3>2. CASE pc[t] # "answered"
      <4>1. Response(t) = carried[t] /\ "fail" \in plan.faults
        BY <1>1, <3>2 DEF Response, Talks, FailInv
      <4>2. TranscriptOf(plan, Updated(sessions[o], carried[t]), J)
        BY <1>1, <1>5, <1>7, <4>1, FailureKept
      <4> QED
        BY <3>2, <4>1, <4>2, Zenon
    <3> QED
      BY <3>1, <3>2
  <2> QED
    BY <1>4, <2>1, ScriptCarried
<1>10. sessions'[o] = s /\ \A p \in 1 .. Len(sessions) : p # o => sessions'[p] = sessions[p]
  BY <1>4, Replaced
<1>11. KeptInv'
  <2>1. ASSUME NEW i \in ID, Used(i), registry[i] # 0
        PROVE  TranscriptOf(plan, sessions'[registry[i]], Selected(served', conversation', pc', Talk(i)))
    <3>1. CASE i = id[t]
      <4>1. Selected(served', conversation', pc', Talk(i)) = K
        BY <1>5, <1>6, <3>1
      <4> HIDE DEF K
      <4> QED
        BY <1>9, <1>10, <3>1, <4>1
    <3>2. CASE i # id[t]
      <4>1. registry[i] # o /\ registry[i] \in 1 .. Len(sessions) /\ Talk(i) # conversation[t]
        BY <1>5, <2>1, <3>2 DEF TypeOK
      <4>2. Selected(served', conversation', pc', Talk(i)) = Told(Talk(i))
        BY <1>6, <4>1
      <4> QED
        BY <1>10, <2>1, <4>1, <4>2 DEF Talks, KeptInv
    <3> QED
      BY <3>1, <3>2
  <2> QED
    BY <1>2, <2>1 DEF KeptInv, Told, Used, Talk
<1>12. HeldInv'
  <2>1. ASSUME NEW u \in Turn, pc'[u] \in Holding
        PROVE  /\ IsCut(plan, sessions'[registry[id[u]]], Selected(served', conversation', pc', conversation[u]))
               /\ Carries(plan, carried[u], Selected(served', conversation', pc', conversation[u]))
    <3>1. u # t /\ pc[u] \in Holding
      BY <1>3, <2>1
    <3>2. registry[id[u]] # o /\ registry[id[u]] \in 1 .. Len(sessions)
      BY <1>1, <3>1, OthersElsewhere
    <3>3. conversation[u] # conversation[t]
      <4>1. pc[u] \in Task
        BY <3>1 DEF Task
      <4> QED
        BY <1>1, <3>2, <4>1, OneId DEF Talks
    <3>4. Selected(served', conversation', pc', conversation[u]) = Told(conversation[u])
      BY <1>6, <3>3
    <3> QED
      BY <1>10, <3>1, <3>2, <3>4 DEF Talks, HeldInv
  <2> QED
    BY <1>2, <2>1 DEF HeldInv, Told
<1>13. UnbrokenInv'
  <2>1. ASSUME NEW u \in Turn, u \in In(served)
        PROVE  Unbroken(plan, sent[u], u, EarlierOf(served', conversation', pc', u))
    BY <1>6, <2>1 DEF Talks, UnbrokenInv
  <2>2. In(served') = In(served)
    BY <1>2
  <2> QED
    BY <1>2, <2>1, <2>2 DEF UnbrokenInv
<1> QED
  BY <1>11, <1>12, <1>13

\* So it does in a step in which no turn passes or ends: a new session has an empty
\* transcript, and its conversation has told nothing.
LEMMA SteadyKeeps ==
  ASSUME TypeOK, Lanes, Talks, Steady, Lanes', plan \in Plan
  PROVE  KeptInv' /\ HeldInv' /\ UnbrokenInv'
<1>1. /\ \A c : Selected(served', conversation', pc', c) = Told(c)
      /\ \A t \in Turn : t \in In(served) =>
           EarlierOf(served', conversation', pc', t) = EarlierOf(served, conversation, pc, t)
      /\ \A t \in Turn : t \in In(served) => conversation'[t] = conversation[t]
  BY StoryStays DEF Talks
<1>2. /\ UNCHANGED <<plan, served, sent>>
      /\ \A t \in Turn : /\ pc[t] # "unloaded" => conversation'[t] = conversation[t] /\ id'[t] = id[t]
                         /\ pc'[t] \in Holding => pc[t] \in Holding /\ carried'[t] = carried[t]
      /\ stage' = stage \/ \A i \in ID : registry'[i] = 0
      /\ \A i \in ID : registry'[i] # 0 =>
           \/ registry'[i] = registry[i] /\ SameScript(sessions[registry[i]], sessions'[registry[i]])
           \/ phase # "done" /\ registry[i] = 0 /\ SameScript(Opening, sessions'[registry'[i]])
  BY DEF Steady
<1>3. KeptInv'
  <2>1. ASSUME NEW i \in ID, Used(i), registry'[i] # 0
        PROVE  TranscriptOf(plan, sessions'[registry'[i]], Told(Talk(i)))
    <3>1. CASE registry'[i] = registry[i] /\ SameScript(sessions[registry[i]], sessions'[registry[i]])
      <4>1. TranscriptOf(plan, sessions[registry[i]], Told(Talk(i)))
        BY <2>1, <3>1 DEF Talks, KeptInv
      <4> QED
        BY <3>1, <4>1, ScriptCarried
    <3>2. CASE phase # "done" /\ registry[i] = 0 /\ SameScript(Opening, sessions'[registry'[i]])
      <4>1. Told(Talk(i)) = <<>>
        <5>1. \A t \in Turn : t <= loaded => conversation[t] # Talk(i)
          BY <2>1, <3>2 DEF Talks, TalkInv
        <5>2. \A t \in Turn : pc[t] = "done" => t <= loaded
          <6>1. loaded \in Nat /\ Turn \subseteq Nat
            BY UserSessionAssumption DEF TypeOK, Turn
          <6> QED
            BY <6>1 DEF Lanes, LoadedInv
        <5>3. {u \in Turn : conversation[u] = Talk(i) /\ pc[u] = "done"} = {}
          BY <5>1, <5>2
        <5>4. served \in Seq(Turn)
          BY DEF TypeOK
        <5> QED
          BY <5>3, <5>4, AmongNone DEF Told, Selected
      <4>2. TranscriptOf(plan, Opening, <<>>)
        BY OpeningTells
      <4> QED
        BY <3>2, <4>1, <4>2, ScriptCarried
    <3> QED
      BY <1>2, <2>1, <3>1, <3>2
  <2>2. \A i \in ID : registry'[i] # 0 => Talk(i)' = Talk(i)
    BY <1>2 DEF Talk
  <2>3. \A i \in ID : Used(i)' <=> Used(i)
    BY <1>2 DEF Used
  <2>4. ASSUME NEW i \in ID, Used(i)', registry'[i] # 0
        PROVE  TranscriptOf(plan', sessions'[registry'[i]], Selected(served', conversation', pc', Talk(i)'))
    BY <1>1, <1>2, <2>1, <2>2, <2>3, <2>4
  <2> QED
    BY <2>4 DEF KeptInv, Told
<1>4. HeldInv'
  <2>1. ASSUME NEW t \in Turn, pc'[t] \in Holding
        PROVE  /\ IsCut(plan, sessions'[registry'[id'[t]]], Told(conversation[t]))
               /\ Carries(plan, carried'[t], Told(conversation[t]))
               /\ conversation'[t] = conversation[t]
    <3>1. pc[t] \in Holding /\ pc[t] \in Task /\ pc'[t] \in Task /\ pc[t] # "unloaded"
      BY <1>2, <2>1 DEF Task, Holding
    <3>2. id'[t] = id[t] /\ conversation'[t] = conversation[t] /\ carried'[t] = carried[t]
      BY <1>2, <2>1, <3>1
    <3>3. id[t] \in ID /\ registry[id[t]] # 0
      BY <3>1, SessionOfTask DEF Lanes, NamedInv
    <3>4. registry'[id[t]] # 0
      BY <3>1, <3>2 DEF Lanes, NamedInv
    <3>5. /\ registry'[id[t]] = registry[id[t]]
          /\ SameScript(sessions[registry[id[t]]], sessions'[registry[id[t]]])
      BY <1>2, <3>3, <3>4
    <3>6. IsCut(plan, sessions[registry[id[t]]], Told(conversation[t])) /\ Carries(plan, carried[t], Told(conversation[t]))
      BY <3>1 DEF Talks, HeldInv
    <3> QED
      BY <3>2, <3>5, <3>6, ScriptCarried
  <2>2. \A t \in Turn : Selected(served', conversation', pc', conversation[t]) = Told(conversation[t])
    BY <1>1
  <2> QED
    BY <1>2, <2>1, <2>2 DEF HeldInv, Told
<1>5. UnbrokenInv'
  <2>1. ASSUME NEW u \in Turn, u \in In(served)
        PROVE  Unbroken(plan, sent[u], u, EarlierOf(served', conversation', pc', u))
    BY <1>1, <2>1 DEF Talks, UnbrokenInv
  <2>2. In(served') = In(served)
    BY <1>2
  <2> QED
    BY <1>2, <2>1, <2>2 DEF UnbrokenInv
<1> QED
  BY <1>3, <1>4, <1>5

\* Before the first turn, nothing has been told.
LEMMA InitTalks == ASSUME DistinctIds, Init PROVE Talks
<1>1. /\ plan \in Plan /\ TypeOK /\ served = <<>> /\ phase = "serve" /\ loaded = 0
      /\ \A t \in Turn : pc[t] = "unloaded" /\ ~(t <= loaded)
      /\ \A i \in ID : registry[i] = IF i = 0 THEN 1 ELSE 0
      /\ sessions[1] = Opening
  <2>1. TypeOK /\ plan \in Plan
    BY InitOK, UserSessionAssumption DEF Init
  <2>2. sessions = <<Opening>>
    BY DEF Init, Opening
  <2>3. sessions[1] = Opening
    BY <2>2
  <2>4. /\ served = <<>> /\ phase = "serve" /\ loaded = 0
        /\ \A t \in Turn : pc[t] = "unloaded"
        /\ \A i \in ID : registry[i] = IF i = 0 THEN 1 ELSE 0
    BY DEF Init
  <2>5. \A t \in Turn : ~(t <= 0)
    BY DEF Turn
  <2> QED
    BY <2>1, <2>3, <2>4, <2>5
<1>2. TalkInv /\ FailInv
  BY <1>1 DEF TalkInv, FailInv, Task, Queueing, Holding
<1>3. In(served) = {} /\ Distinct(served)
  BY <1>1 DEF In, Distinct
<1>4. PassedInv
  BY <1>1, <1>3 DEF PassedInv, Holding
<1>5. \A c : Told(c) = <<>>
  <2>1. \A c : {u \in Turn : conversation[u] = c /\ pc[u] = "done"} = {}
    BY <1>1
  <2>2. served \in Seq(Turn)
    BY <1>1
  <2> QED
    BY <2>1, <2>2, AmongNone DEF Told, Selected
<1>6. KeptInv
  BY <1>1, <1>5, OpeningTells DEF KeptInv
<1>7. HeldInv /\ UnbrokenInv
  BY <1>1, <1>3 DEF HeldInv, UnbrokenInv, Holding
<1> QED
  BY <1>2, <1>4, <1>6, <1>7 DEF Talks

\* Failed requests do not meet prompts that are cut, in any plan.
FailuresFit == \A p \in Plans : Fits(p)

\* What the sessions keep of their conversations, in every state that is reached.
LEMMA TalksKept == ASSUME DistinctIds, FailuresFit PROVE Spec => [](TypeOK /\ Lanes /\ Talks)
<1>1. Init => TypeOK /\ Lanes /\ Talks
  BY InitOK, InitTalks
<1>2. TypeOK /\ Lanes /\ Talks /\ [Next]_vars => (TypeOK /\ Lanes /\ Talks)'
  <2> SUFFICES ASSUME TypeOK, Lanes, Talks, [Next]_vars PROVE TypeOK' /\ Lanes' /\ Talks'
    OBVIOUS
  <2>1. TypeOK' /\ Lanes'
    <3>1. LoadedInv' /\ NamedInv' /\ SlotInv' /\ LockInv' /\ RoundsInv'
      BY LoadedStep, NamedStep, SlotStep, LockStep, RoundsStep
    <3>2. OwnerInv' /\ DueInv' /\ WokenInv'
      BY OwnerStep, DueStep, WokenStep
    <3> QED
      BY <3>1, <3>2, TypeStep DEF Lanes
  <2>2. TalkInv' /\ FailInv' /\ PassedInv'
    BY TalkStep, FailStep, PassedStep DEF Talks
  <2>3. plan \in Plan /\ Fits(plan)
    BY UserSessionAssumption DEF TypeOK, FailuresFit
  <2>4. KeptInv' /\ HeldInv' /\ UnbrokenInv'
    BY <2>1, <2>3, Steadiness, SteadyKeeps, SendingKeeps, EndingKeeps
  <2> QED
    BY <2>1, <2>2, <2>4 DEF Talks
<1> QED
  BY <1>1, <1>2, PTL DEF Spec

\* Every prompt is the system prompt, the latest turns of its conversation and
\* stage that succeeded, as many as fit, and its own: whatever the turns before it
\* did, their session hands on exactly what they said.
THEOREM TranscriptsKept == ASSUME DistinctIds, FailuresFit PROVE Spec => []TranscriptUnbroken
<1>1. ASSUME TypeOK, Lanes, Talks PROVE TranscriptUnbroken
  <2> SUFFICES ASSUME NEW t \in ToSet(served)
               PROVE  LET earlier == Among[served][{u \in Before(t) \cap SameConversation(t) : pc[u] = "done"}]
                          first == IF plan.limited /\ Len(earlier) > plan.room
                                   THEN Len(earlier) - plan.room + 1 ELSE 1
                      IN sent[t] = <<System>> \o SubSeq(earlier, first, Len(earlier)) \o <<t>>
    BY Zenon DEF TranscriptUnbroken
  <2> DEFINE earlier == Among[served][{u \in Before(t) \cap SameConversation(t) : pc[u] = "done"}]
             first == IF plan.limited /\ Len(earlier) > plan.room THEN Len(earlier) - plan.room + 1 ELSE 1
  <2>1. t \in Turn /\ t \in In(served) /\ plan.room \in Nat
    <3>1. served \in Seq(Turn) /\ plan \in Plan
      BY <1>1, UserSessionAssumption DEF TypeOK
    <3> QED
      BY <3>1 DEF ToSet, In, Plan
  <2>2. earlier = EarlierOf(served, conversation, pc, t) /\ earlier \in Seq(Turn)
    <3>1. {u \in Before(t) \cap SameConversation(t) : pc[u] = "done"}
            = {u \in Turn : u \in Ahead(served, t) /\ conversation[u] = conversation[t] /\ pc[u] = "done"}
      BY DEF Before, SameConversation, Ahead
    <3>2. earlier = EarlierOf(served, conversation, pc, t)
      BY <3>1 DEF EarlierOf
    <3>3. EarlierOf(served, conversation, pc, t) \in Seq(Turn)
      BY <1>1, ToldParts DEF Talks
    <3> QED
      BY <3>2, <3>3
  <2>3. sent[t] = (<<System>> \o Cut(plan, earlier)) \o <<t>>
    <3>1. Unbroken(plan, sent[t], t, EarlierOf(served, conversation, pc, t))
      BY <1>1, <2>1 DEF Talks, UnbrokenInv
    <3> HIDE DEF earlier
    <3> QED
      BY <2>2, <3>1 DEF Unbroken
  <2> HIDE DEF earlier
  <2>4. Cut(plan, earlier) = SubSeq(earlier, first, Len(earlier))
    <3>1. Len(earlier) \in Nat /\ SubSeq(earlier, 1, Len(earlier)) = earlier
      BY <2>2
    <3>2. CASE plan.limited /\ Len(earlier) > plan.room
      <4>1. ~(Len(earlier) <= plan.room)
        BY <2>1, <3>1, <3>2
      <4> QED
        BY <3>2, <4>1 DEF Cut, Latest
    <3>3. CASE ~(plan.limited /\ Len(earlier) > plan.room)
      <4>1. ~plan.limited \/ Len(earlier) <= plan.room
        BY <2>1, <3>1, <3>3
      <4> QED
        BY <3>1, <3>3, <4>1 DEF Cut, Latest
    <3> QED
      BY <3>2, <3>3
  <2> HIDE DEF first
  <2>5. sent[t] = <<System>> \o SubSeq(earlier, first, Len(earlier)) \o <<t>>
    BY <2>3, <2>4
  <2> QED
    BY <2>5, Zenon DEF earlier, first
<1> QED
  BY <1>1, TalksKept, PTL
=============================================================================
