----------------------------- MODULE UserSession -----------------------------
(***************************************************************************)
(* Multi-turn conversations (apis/user_session.py).  The turns of one slot *)
(* of a generator are loaded in order by one worker, and run as tasks of   *)
(* its event loop.  A LocalUserSession lets one turn at a time pass and    *)
(* hands each the transcript of those before it.  Its registry is emptied  *)
(* at every stage boundary; a generator registers a session again when it  *)
(* loads the next turn (shared_prefix_datagen.py,                          *)
(* conversation_replay_datagen.py).                                        *)
(*                                                                         *)
(* The event loop runs its ready tasks first in, first out; a step is what *)
(* a task does between two awaits.  A text is the sequence of what it is   *)
(* made of: the system prompt, and turns (a prompt and its answer).        *)
(***************************************************************************)
EXTENDS Integers, Sequences, FiniteSets, SequencesExt

CONSTANTS
  Plans,          \* the configurations, one of which is run
  Turns,          \* turns of a conversation
  MaxTurns,       \* bound: turns of the whole run
  MaxConcurrency  \* permits of the worker

\* A plan: who generates the data, the requests of each stage, whether a maximal
\* model length bounds the texts, how many earlier turns then fit into a prompt
\* beside the system prompt and the turn itself, and what may go wrong:
\* "fail":  a request fails
\* "raise": building the body of a request raises
\* "end":   a stage ends early
Plan == [generator : {"shared_prefix", "conversation_replay"}, rounds : Seq(Nat \ {0}) \ {<<>>},
         limited : BOOLEAN, room : Nat, faults : SUBSET {"fail", "raise", "end"}]

Turn   == 1 .. MaxTurns
System == 0                      \* the system prompt, as a part of a text
ID     == 0 .. MaxTurns          \* user_session_id: conv_i is 0, slot_i_convo_k is k
Text   == Seq(Turn \cup {System})

ASSUME UserSessionAssumption ==
  /\ Turns \in Nat \ {0}
  /\ MaxTurns \in Nat \ {0}
  /\ MaxConcurrency \in Nat \ {0}
  /\ Plans # {}
  /\ Plans \subseteq Plan

VARIABLES
  plan,
  phase,         \* serve, drain, done
  stage,
  base, loaded,  \* turns loaded before this stage, and in all
  slot,          \* user_sessions[conv_idx].user_session_id
  registry,      \* LocalUserSession._instances: the session of an id, 0 = none
  sessions,      \* every LocalUserSession ever made
  pc,            \* where each turn is
  id,            \* its user_session_id
  object,        \* the session in whose get_context it is or was
  carried,       \* _session_context: what get_context returned
  sent,          \* the prompt of its request
  ready,         \* the event loop's queue
  conversation,  \* of the generator, to which a turn belongs (history)
  served         \* the turns in the order they passed (history)

vars == <<plan, phase, stage, base, loaded, slot, registry, sessions, pc, id, object, carried,
          sent, ready, conversation, served>>
turnVars == <<id, object, carried, sent, conversation, served>>
loadVars == <<plan, phase, stage, base, loaded, slot, registry>>

Queueing == {"parked", "woken", "locking", "granted"}
Holding  == {"sent", "answered", "failing"}
Task     == {"scheduled", "arriving"} \cup Queueing \cup Holding
Ended    == {"done", "failed", "dropped", "cancelled", "raised"}

LocalUserSession ==
  [prompt : Text, accumulates : BOOLEAN, history : Seq(Text), context : Text,
   in_flight : BOOLEAN, waiting_rounds : Seq(Turn), waiters : Seq(Turn)]

TypeOK ==
  /\ plan \in Plans
  /\ phase \in {"serve", "drain", "done"}
  /\ stage \in 1 .. Len(plan.rounds)
  /\ base \in 0 .. loaded /\ loaded \in 0 .. MaxTurns
  /\ slot \in ID
  /\ sessions \in Seq(LocalUserSession)
  /\ registry \in [ID -> 0 .. Len(sessions)]
  /\ pc \in [Turn -> {"unloaded"} \cup Task \cup Ended]
  /\ id \in [Turn -> ID]
  /\ object \in [Turn -> 0 .. Len(sessions)]
  /\ carried \in [Turn -> Text] /\ sent \in [Turn -> Text]
  /\ ready \in Seq(Turn) /\ served \in Seq(Turn)
  /\ conversation \in [Turn -> Nat \X Nat]

New(prompt, context, accumulates) ==
  [prompt |-> prompt, accumulates |-> accumulates, history |-> <<>>, context |-> context,
   in_flight |-> FALSE, waiting_rounds |-> <<>>, waiters |-> <<>>]
-----------------------------------------------------------------------------
(* Texts *)

Joined[h \in Seq(Text)] == IF h = <<>> THEN <<>> ELSE Head(h) \o Joined[Tail(h)]

\* Texts are dropped from the front of h while those left have more than n parts.
Fitting[h \in Seq(Text)] ==
  [n \in Nat |-> IF Len(Joined[h]) <= n THEN h ELSE Fitting[Tail(h)][n]]

\* update_context up to the release: what session s keeps of a response. The
\* answer fits beside what the request carried.
Updated(s, response) ==
  IF s.accumulates /\ plan.limited
  THEN LET content == SubSeq(response, Len(s.prompt \o Joined[s.history]) + 1, Len(response))
           history == IF content = <<>> THEN s.history ELSE Append(s.history, content)
           kept == Fitting[history][plan.room + 1]
       IN [s EXCEPT !.history = kept, !.context = s.prompt \o Joined[kept]]
  ELSE [s EXCEPT !.context = response]

\* to_request_body once the turn has passed: the session, cut to the request's budget.
Truncated(s) ==
  IF plan.limited
  THEN LET kept == Fitting[s.history][plan.room]
       IN [s EXCEPT !.history = kept, !.context = s.prompt \o Joined[kept]]
  ELSE s
-----------------------------------------------------------------------------
(* The generator loads a turn *)

Busy == {t \in Turn : pc[t] \in Task}

\* The stage has a request left, and the worker a permit for it.
MayLoad ==
  /\ phase = "serve"
  /\ loaded < MaxTurns
  /\ loaded - base < plan.rounds[stage]
  /\ Cardinality(Busy) < MaxConcurrency

LoadTurn(i) ==
  LET t == loaded + 1 IN
    /\ loaded' = t
    /\ slot' = i
    /\ pc' = [pc EXCEPT ![t] = "scheduled"]
    /\ id' = [id EXCEPT ![t] = i]
    /\ conversation' = [conversation EXCEPT ![t] =
         <<stage, IF plan.generator = "shared_prefix" THEN 0 ELSE (loaded - base) \div Turns>>]
    /\ UNCHANGED <<plan, phase, stage, base, object, carried, sent, ready, served>>

Register(i, s) ==
  /\ sessions' = Append(sessions, s)
  /\ registry' = [registry EXCEPT ![i] = Len(sessions) + 1]

\* The turn that begins the next conversation of the slot.
OpensConversation ==
  plan.generator = "conversation_replay" /\ loaded > base /\ (loaded - base) % Turns = 0

\* The session is still registered.
LoadNext ==
  /\ MayLoad
  /\ registry[slot] # 0
  /\ ~OpensConversation
  /\ LoadTurn(slot)
  /\ UNCHANGED <<sessions, registry>>

\* The registry has been emptied: the session is made anew. Conversation replay
\* gives it the system prompt as its context only.
Reprime ==
  /\ MayLoad
  /\ registry[slot] = 0
  /\ Register(slot, IF plan.generator = "shared_prefix" THEN New(<<System>>, <<System>>, TRUE)
                                                         ELSE New(<<>>, <<System>>, FALSE))
  /\ LoadTurn(slot)

\* Conversation replay: the slot starts a new conversation, whether or not the
\* turns of the last have ended. The registry may hold its id already.
NextConversation ==
  /\ MayLoad
  /\ registry[slot] # 0
  /\ OpensConversation
  /\ LET convo == (loaded - base) \div Turns IN
       /\ Register(convo, New(<<System>>, <<System>>, TRUE))
       /\ LoadTurn(convo)
-----------------------------------------------------------------------------
(* A turn in the event loop *)

Current == Head(ready)

\* The scheduled time of a turn has come; times increase.
Due(t) ==
  /\ phase = "serve"
  /\ pc[t] = "scheduled"
  /\ \A u \in Turn : pc[u] = "scheduled" => t <= u
  /\ pc' = [pc EXCEPT ![t] = "arriving"]
  /\ ready' = Append(ready, t)
  /\ UNCHANGED <<loadVars, sessions, turnVars>>

\* Defect: the rounds that wait are not looked at.
MustWaitIfLocked(s) == s.in_flight

MustWait(s) == s.waiting_rounds # <<>> \/ s.in_flight

\* The task of a turn that has come due runs, while the stage does.
Arrives(t) == phase = "serve" /\ pc[t] = "arriving"

\* The stage is winding down: nothing new is sent.
Drop(t) ==
  /\ phase = "drain"
  /\ pc[t] = "arriving"
  /\ pc' = [pc EXCEPT ![t] = "dropped"]
  /\ ready' = Tail(ready)
  /\ UNCHANGED <<loadVars, sessions, turnVars>>

\* get_context: the session is busy, so a future is left in its queue.
Park(t) ==
  LET o == registry[id[t]] IN
    /\ Arrives(t)
    /\ MustWait(sessions[o])
    /\ pc' = [pc EXCEPT ![t] = "parked"]
    /\ object' = [object EXCEPT ![t] = o]
    /\ sessions' = [sessions EXCEPT ![o].waiting_rounds = Append(@, t)]
    /\ ready' = Tail(ready)
    /\ UNCHANGED <<loadVars, id, carried, sent, conversation, served>>

\* The turn reaches the acquisition of session o's lock.
Reaches(t, o) ==
  \/ Arrives(t) /\ o = registry[id[t]] /\ ~MustWait(sessions[o])
  \/ pc[t] = "woken" /\ o = object[t]

\* Defect: the lock is taken whoever holds it.
LockUnheeded(s) == s.waiters = <<>>

LockIsFree(s) == ~s.in_flight /\ s.waiters = <<>>

AwaitLock(t) ==
  \E o \in 1 .. Len(sessions) :
    /\ Reaches(t, o)
    /\ ~LockIsFree(sessions[o])
    /\ pc' = [pc EXCEPT ![t] = "locking"]
    /\ object' = [object EXCEPT ![t] = o]
    /\ sessions' = [sessions EXCEPT ![o].waiters = Append(@, t)]
    /\ ready' = Tail(ready)
    /\ UNCHANGED <<loadVars, id, carried, sent, conversation, served>>

\* The lock is taken, by a turn that reaches it or by the waiter it was granted to.
Takes(t, o) ==
  \/ Reaches(t, o) /\ LockIsFree(sessions[o])
  \/ pc[t] = "granted" /\ o = object[t]

\* Turn t passes session o, and leaves the lock's queue if it waited there: the
\* lock is granted to the first only. Its body is built with the session now
\* registered under its id, and its request sent; or building it raises, outside
\* the error handling of the client.
Pass(t) ==
  \E o \in 1 .. Len(sessions) :
    LET taken == [sessions EXCEPT ![o].in_flight = TRUE,
                                  ![o].waiters = IF pc[t] = "granted" THEN Tail(@) ELSE @]
        r == registry[id[t]]
        body == Truncated(taken[r])
    IN
    /\ Takes(t, o)
    /\ object' = [object EXCEPT ![t] = o]
    /\ carried' = [carried EXCEPT ![t] = sessions[o].context]
    /\ ready' = Tail(ready)
    /\ \/ /\ pc' = [pc EXCEPT ![t] = "sent"]
          /\ sessions' = [taken EXCEPT ![r] = body]
          /\ sent' = [sent EXCEPT ![t] =
               (IF plan.limited THEN body.prompt \o Joined[body.history] ELSE carried'[t]) \o <<t>>]
          /\ served' = Append(served, t)
       \/ /\ "raise" \in plan.faults
          /\ pc' = [pc EXCEPT ![t] = "raised"]
          /\ sessions' = taken
          /\ UNCHANGED <<sent, served>>
    /\ UNCHANGED <<loadVars, id, conversation>>

\* The answer arrives, or the request fails.
Answer(t) ==
  /\ pc[t] = "sent"
  /\ \/ pc' = [pc EXCEPT ![t] = "answered"]
     \/ "fail" \in plan.faults /\ pc' = [pc EXCEPT ![t] = "failing"]
  /\ ready' = Append(ready, t)
  /\ UNCHANGED <<loadVars, sessions, turnVars>>

FirstOf(q) == IF q = <<>> THEN <<>> ELSE <<Head(q)>>

\* Defect: nobody is woken.
WakesNobody(s) == <<>>

\* The future of the first waiting round is resolved by update_context.
Woken(s) == FirstOf(s.waiting_rounds)

\* asyncio.Lock.release wakes the first waiter, unless it is awake already.
Granted(s) ==
  IF s.in_flight /\ s.waiters # <<>> /\ pc[Head(s.waiters)] = "locking"
  THEN FirstOf(s.waiters)
  ELSE <<>>

\* Defect: a turn that failed leaves its prompt behind.
ResponseOfFailed(t) == sent[t]

\* What a turn that has ended makes of the transcript.
Response(t) == IF pc[t] = "answered" THEN sent[t] ELSE carried[t]

\* process_response or process_failure, which both end in update_context.
End(t) ==
  LET o == registry[id[t]]
      s == Updated(sessions[o], Response(t))
      woken == Woken(s)
      granted == Granted(s)
  IN
  /\ pc[t] \in {"answered", "failing"}
  /\ sessions' = [sessions EXCEPT ![o] =
       [s EXCEPT !.in_flight = FALSE, !.waiting_rounds = SubSeq(@, Len(woken) + 1, Len(@))]]
  /\ pc' = [u \in Turn |-> CASE u = t -> IF pc[t] = "answered" THEN "done" ELSE "failed"
                             [] u \in ToSet(woken) -> "woken"
                             [] u \in ToSet(granted) -> "granted"
                             [] OTHER -> pc[u]]
  /\ ready' = Tail(ready) \o woken \o granted
  /\ UNCHANGED <<loadVars, turnVars>>

Step ==
  /\ ready # <<>>
  /\ \/ Drop(Current) \/ Park(Current) \/ AwaitLock(Current)
     \/ Pass(Current) \/ End(Current)
-----------------------------------------------------------------------------
(* The stage boundary *)

\* The stage is over: what is not yet due is dropped.
Drain ==
  /\ phase = "serve"
  /\ \/ loaded - base = plan.rounds[stage] /\ Busy = {}
     \/ "end" \in plan.faults
  /\ phase' = "drain"
  /\ pc' = [t \in Turn |-> IF pc[t] = "scheduled" THEN "dropped" ELSE pc[t]]
  /\ UNCHANGED <<plan, stage, base, loaded, slot, registry, sessions, ready, turnVars>>

\* Tasks that have outlived the grace are cancelled, and the registry is emptied.
ClearInstances == [i \in ID |-> 0]

EndStage ==
  /\ phase = "drain"
  /\ pc' = [t \in Turn |-> IF pc[t] \in Task THEN "cancelled" ELSE pc[t]]
  /\ ready' = <<>>
  /\ registry' = ClearInstances
  /\ base' = loaded
  /\ IF stage = Len(plan.rounds) THEN phase' = "done" /\ stage' = stage
                                 ELSE phase' = "serve" /\ stage' = stage + 1
  /\ UNCHANGED <<plan, loaded, slot, sessions, turnVars>>

Done == phase = "done" /\ UNCHANGED vars
-----------------------------------------------------------------------------
Init ==
  /\ plan \in Plans
  /\ phase = "serve"
  /\ stage = 1
  /\ base = 0
  /\ loaded = 0
  /\ slot = 0
  /\ sessions = <<New(<<System>>, <<System>>, TRUE)>>
  /\ registry = [i \in ID |-> IF i = 0 THEN 1 ELSE 0]
  /\ pc = [t \in Turn |-> "unloaded"]
  /\ id = [t \in Turn |-> 0]
  /\ object = [t \in Turn |-> 0]
  /\ carried = [t \in Turn |-> <<>>]
  /\ sent = [t \in Turn |-> <<>>]
  /\ ready = <<>>
  /\ conversation = [t \in Turn |-> <<0, 0>>]
  /\ served = <<>>

Next ==
  \/ LoadNext \/ Reprime \/ NextConversation
  \/ \E t \in Turn : Due(t) \/ Answer(t)
  \/ Step
  \/ Drain \/ EndStage \/ Done

Spec == Init /\ [][Next]_vars

\* The worker and its event loop run, timers expire and requests end; that a
\* stage ends early is not assumed.
FairSpec ==
  /\ Spec
  /\ WF_vars(LoadNext \/ Reprime \/ NextConversation)
  /\ WF_vars(Step)
  /\ WF_vars(\E t \in Turn : Due(t))
  /\ WF_vars(\E t \in Turn : Answer(t))
  /\ WF_vars(EndStage)
-----------------------------------------------------------------------------
(* Properties *)

SameConversation(t) == {u \in Turn : conversation[u] = conversation[t]}

\* The turns that passed before turn t, which may be still to pass.
Before(t) == {served[k] : k \in {n \in 1 .. Len(served) : \A j \in 1 .. n : served[j] # t}}

\* The turns of A, in their order in q: SelectSeq, as a function of the queue.
Among[q \in Seq(Turn)] ==
  [A \in SUBSET Turn |->
     IF q = <<>> THEN <<>>
     ELSE LET rest == Among[Front(q)][A]
          IN IF Last(q) \in A THEN Append(rest, Last(q)) ELSE rest]

\* A session's lock is held by exactly one turn while one of its turns has a
\* request in flight, and left held only by a turn whose body could not be
\* built: no turn releases what another holds (the defensive release at the end
\* of update_context), and no end of a turn leaves it behind.
OneTurnAtATime ==
  \A o \in 1 .. Len(sessions) :
    LET holders == {t \in Turn : object[t] = o /\ pc[t] \in Holding}
        raised == {t \in Turn : object[t] = o /\ pc[t] = "raised"}
    IN (\E i \in ID : registry[i] = o)
         => Cardinality(holders \cup raised) = (IF sessions[o].in_flight THEN 1 ELSE 0)

\* The prompt of a turn is the system prompt, the latest earlier turns of its
\* conversation and stage that succeeded, in the order they passed, as many as
\* fit, and its own: nothing of a turn that failed, of another conversation, or
\* of an earlier stage, and nothing lost.
TranscriptUnbroken ==
  \A t \in ToSet(served) :
    LET earlier == Among[served][{u \in Before(t) \cap SameConversation(t) : pc[u] = "done"}]
        first == IF plan.limited /\ Len(earlier) > plan.room THEN Len(earlier) - plan.room + 1 ELSE 1
    IN sent[t] = <<System>> \o SubSeq(earlier, first, Len(earlier)) \o <<t>>

\* Turns may overtake each other, but a later turn of its conversation never
\* passes one that is still to arrive or waits for its round to be woken: it can
\* only get in between the wake-up of a turn and the moment that turn runs.
NotOvertakenBeforeWoken ==
  [][\A t, u \in Turn :
       /\ t < u /\ conversation[t] = conversation[u]
       /\ pc[u] # "sent" /\ pc'[u] = "sent"
       => pc[t] \notin {"scheduled", "arriving", "parked"}]_vars

\* Every turn that has been loaded ends, however the turns before it ended:
\* whoever ends passes the session on, and no wake-up is lost. Only a turn whose
\* body cannot be built keeps the later turns waiting.
TurnsEnd == []<>(Busy = {} \/ \E u \in Turn : pc[u] = "raised")

\* A request that fails takes nothing from the transcript and adds nothing to it:
\* "no response returned, use context from the last round". So no prompt repeats a
\* part of its conversation.
NothingSentTwice ==
  \A t \in ToSet(served) : \A j, k \in 1 .. Len(sent[t]) : sent[t][j] = sent[t][k] => j = k

\* A session that is registered again after a stage boundary does not lose "the
\* system_prompt the conversation was built around".
SystemPromptCarried == \A t \in ToSet(served) : Head(sent[t]) = System
=============================================================================
