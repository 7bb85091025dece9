----------------------------- MODULE TurnPlacement -----------------------------
(***************************************************************************)
(* Which prompt, session and worker a request gets: the generators of      *)
(* datagen/synthetic/shared_prefix_datagen.py and                          *)
(* datagen/replay/conversation_replay_datagen.py, the texts of exact       *)
(* length of datagen_utils.py and random_datagen.py, and the routing of    *)
(* LoadGenerator.run_stage.                                                *)
(*                                                                         *)
(* A text is the [group, prompt] it was generated for, or the number of    *)
(* its tokens.  A request has the index i, from 0, of the stage it is of.  *)
(***************************************************************************)
EXTENDS Integers, FiniteSets, SequencesExt

Failed == <<>>
Buffer == 1      \* PROMPT_TOKEN_BUFFER, which is 200
Attempts == 20   \* max_iterations

(* The bound on the length of an output: fixed lengths are the mean, and   *)
(* never cut to the maximum.                                               *)
LeastOf(a, b) == IF a < b THEN a ELSE b

(* Defect: the maximum bounds every distribution.                          *)
MaxCeiling(dist) == dist.max
Ceiling(dist) == IF dist.type = "fixed" THEN dist.mean ELSE dist.max

LengthAccepted(dist, maxModelLen) == Ceiling(dist) + Buffer < maxModelLen

(* sample_from_distribution, as far as it bounds a sample.                 *)
Samples(dist) == IF dist.type = "fixed" THEN {dist.mean} ELSE dist.min .. dist.max
-----------------------------------------------------------------------------
(* Shared prefixes *)

Generated(groups, prompts) == [k \in 1..(groups * prompts) |-> [group |-> (k - 1) \div prompts, prompt |-> (k - 1) % prompts]]

(* Defect: the sessions keep their order.                                  *)
AsGenerated(list, order) == list
Shuffled(list, order) == [k \in DOMAIN list |-> list[order[k]]]
ShuffledSessions(list, order) == Shuffled(list, order)

(* _generate_prompts: parallel lists, in one shuffled order.               *)
Lists(groups, prompts, order) ==
    LET all == Generated(groups, prompts) IN
    [prompts |-> Shuffled(all, order), outputs |-> Shuffled(all, order),
     prefixes |-> Shuffled([k \in DOMAIN all |-> all[k].group], order),
     groups |-> Shuffled([k \in DOMAIN all |-> all[k].group], order),
     sessions |-> ShuffledSessions(all, order)]

(* load_lazy_data: the prefix is that of the session, or is given to the   *)
(* session that is made again if the registry does not hold it.            *)
SharedTurn(lists, i, registered) ==
    LET k == (i % Len(lists.prompts)) + 1
        user == (i % Len(lists.sessions)) + 1
    IN [question |-> lists.prompts[k], output |-> lists.outputs[k], image |-> lists.groups[k],
        session |-> lists.sessions[user], round |-> i \div Len(lists.sessions),
        prefix |-> IF registered THEN lists.sessions[user].group ELSE lists.prefixes[k]]
-----------------------------------------------------------------------------
(* Conversations *)

(* Defect: every conversation takes the first turns.                       *)
FromTheStart(counts, c) == 0
TurnOffset(counts, c) == FoldLeft(+, 0, SubSeq(counts, 1, c - 1))

(* _build_conversations: turns are sampled together and dealt out.         *)
Blueprints(counts) == [c \in DOMAIN counts |-> [t \in 1..counts[c] |-> TurnOffset(counts, c) + t]]

(* Defect: a conversation goes on where the slot is.                       *)
TurnOfRound(round, turns) == (round % (turns + 1)) % turns
TurnIndex(round, turns) == round % turns

(* load_lazy_data: a slot starts its next conversation with its first      *)
(* turn; sessions holds the id of each slot, which the turn is sent under. *)
ConversationTurn(blueprints, sessions, i) ==
    LET slot == (i % Len(blueprints)) + 1
        round == i \div Len(blueprints)
        turns == Len(blueprints[slot])
        turn == TurnIndex(round, turns)
        id == IF turn = 0 /\ round > 0 THEN <<slot, round \div turns>> ELSE sessions[slot]
    IN [slot |-> slot, turn |-> turn, prompt |-> blueprints[slot][turn + 1], session |-> id, round |-> round]

(* The turns a slot's worker loads in a stage of n requests.               *)
ConversationTurns(blueprints, n) ==
    LET Load(made, i) ==
            LET turn == ConversationTurn(blueprints, made.sessions, i) IN
            [turns |-> Append(made.turns, turn), sessions |-> [made.sessions EXCEPT ![turn.slot] = turn.session]]
    IN FoldLeft(Load, [turns |-> <<>>, sessions |-> [s \in DOMAIN blueprints |-> <<s>>]], [k \in 1..n |-> k - 1]).turns

(* Defect: the shared prompt is kept over stages.                          *)
FirstKept(cached, stage) == IF cached = <<>> THEN <<stage>> ELSE cached
StagePrompt(cached, stage) == IF cached = <<>> \/ cached # <<stage>> THEN <<stage>> ELSE cached

(* _get_or_generate_shared_prompt, as slots are primed again in a stage.   *)
PromptsOf(stages) ==
    FoldLeft(LAMBDA made, s : [cached |-> StagePrompt(made.cached, s), used |-> Append(made.used, StagePrompt(made.cached, s))],
             [cached |-> <<>>, used |-> <<>>], stages).used
-----------------------------------------------------------------------------
(* Workers *)

(* preferred_worker_count and _active_worker_count                         *)
ActiveWorkers(workers, level, pinned) ==
    LET limited == IF level = <<>> THEN workers ELSE LeastOf(workers, level[1])
        needed == IF pinned = 0 THEN limited ELSE LeastOf(limited, pinned)
    IN IF needed > 1 THEN needed ELSE 1

(* Defect: the worker of a request is that of its index.                   *)
PreferredByIndex(pinned, i) == i
Preferred(pinned, i) == i % pinned

WorkerOf(pinned, active, i) == Preferred(pinned, i) % active
-----------------------------------------------------------------------------
(* Texts of an exact length: count[n] is the length the tokenizer counts   *)
(* in what it makes of n tokens, which need not be n.                      *)

Adjusted(n, length, target) ==
    IF length < target THEN n + (target - length) ELSE IF length - target < n THEN n - (length - target) ELSE 0

(* Defect: a suffix is cut like any text.                                  *)
CutAway(n, length, target) == Adjusted(n, length, target)
AdjustedSuffix(n, length, target) ==
    IF length < target THEN n + (target - length) ELSE IF length - target < n - 1 THEN n - (length - target) ELSE LeastOf(n, 1)

(* converge_to_exact_length_text; the tokens of its tries.                 *)
NextTry(n, length, target, suffix) == IF suffix THEN AdjustedSuffix(n, length, target) ELSE Adjusted(n, length, target)
Tries(target, count, suffix) ==
    LET Try(tried, k) ==
            LET n == tried[Len(tried)] IN
            IF count[n] = target THEN tried ELSE Append(tried, NextTry(n, count[n], target, suffix))
    IN FoldLeft(Try, <<target>>, [k \in 1 .. (Attempts - 1) |-> k])
Converged(target, count, suffix) ==
    LET n == Last(Tries(target, count, suffix)) IN
    IF target <= 0 THEN <<0>> ELSE IF count[n] = target THEN <<n>> ELSE Failed

(* RandomDataGenerator: with a template, which adds its own tokens, a      *)
(* length is that of the whole prompt.                                     *)
TemplateFits(lengths, overhead) == \A k \in DOMAIN lengths : lengths[k] > overhead
RandomPrompt(lengths, overhead, i) ==
    [tokens |-> Converged(lengths[i], [n \in 0 .. 2 * lengths[i] |-> n + overhead], FALSE), special |-> overhead = 0]
-----------------------------------------------------------------------------
(* Properties *)

(* A prompt, its prefix, its output length and its images are of one       *)
(* group, and its session is that of its user, in every round and whether  *)
(* or not the session had to be made again: the lists are shuffled alike.  *)
PromptsBelongTogether(groups, prompts, order, n) ==
    LET lists == Lists(groups, prompts, order) IN
    \A i \in 0 .. (n - 1), registered \in BOOLEAN :
        LET turn == SharedTurn(lists, i, registered) IN
        /\ turn.session = turn.question /\ turn.output = turn.question
        /\ turn.prefix = turn.question.group /\ turn.image = turn.question.group

(* All turns of a user go to one worker, which is one that is running; so  *)
(* its session, which only that worker has, sees every round (run_stage,   *)
(* get_data).                                                              *)
UsersStayTogether(groups, prompts, workers, level, n) ==
    LET active == ActiveWorkers(workers, level, groups)
        users == groups * prompts
    IN \A i, j \in 0 .. (n - 1) :
        /\ WorkerOf(groups, active, i) \in 0 .. (workers - 1)
        /\ i % users = j % users => WorkerOf(groups, active, i) = WorkerOf(groups, active, j)

(* A slot plays its conversations through: each turn once and in order, of *)
(* its own turns and under one id, which is of this conversation only; all *)
(* turns that were sampled are dealt out to exactly one slot.              *)
ConversationsPlayThrough(counts, n) ==
    LET blueprints == Blueprints(counts)
        turns == ConversationTurns(blueprints, n)
        Earlier(k) == {l \in 1 .. (k - 1) : turns[l].slot = turns[k].slot}
    IN /\ FlattenSeq(blueprints) = [k \in 1 .. TurnOffset(Append(counts, 0), Len(counts) + 1) |-> k]
       /\ \A k \in DOMAIN turns :
            LET turn == turns[k]
                count == counts[turn.slot]
            IN /\ turn.prompt = blueprints[turn.slot][(Cardinality(Earlier(k)) % count) + 1]
               /\ \A l \in DOMAIN turns : turns[l].session = turn.session =>
                    turns[l].slot = turn.slot /\ turns[l].round \div count = turn.round \div count
               /\ turn.turn > 0 => \E l \in Earlier(k) : /\ \A m \in Earlier(k) : m <= l
                                                         /\ turns[l].session = turn.session /\ turns[l].turn = turn.turn - 1

(* All conversations of a stage share its system prompt, and no stage has  *)
(* that of another (_get_or_generate_shared_prompt).                       *)
StagesShareAPrompt(stages) == \A k \in DOMAIN stages : PromptsOf(stages)[k] = <<stages[k]>>

(* Every output that can be sampled leaves room for a prompt.              *)
OutputsLeaveRoom(dist, maxModelLen) == LengthAccepted(dist, maxModelLen) => \A s \in Samples(dist) : s + Buffer < maxModelLen

(* A suffix keeps its first token, a word's start, in every try, whatever  *)
(* the tokenizer counts (SharedPrefixDataGenerator._sample_suffix_ids).    *)
SuffixesKeepTheirStart(target, count) ==
    target > 0 => LET tries == Tries(target, count, TRUE) IN \A k \in DOMAIN tries : tries[k] >= 1

(* A prompt in a template has the length asked for, with the template.     *)
TemplatesAreCounted(lengths, overhead) ==
    TemplateFits(lengths, overhead) => \A i \in DOMAIN lengths : RandomPrompt(lengths, overhead, i).tokens = <<lengths[i] - overhead>>
=============================================================================
