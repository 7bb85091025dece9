------------------------------- MODULE SyntheticText -------------------------------
(***************************************************************************)
(* The text of synthetic sessions (synthetic_agentic_datagen.py): padding  *)
(* a turn or a system prompt to a number of tokens, the numbers of a       *)
(* rendered result, the arguments of a call and the result that echoes     *)
(* them.  A text is the sequence of the token counts of its words; the     *)
(* tokenizer is taken to be additive.                                      *)
(***************************************************************************)
EXTENDS Integers, SequencesExt, FiniteSetsExt, TLC

TokenCount(words) == FoldLeft(+, 0, words)
CeilDiv(a, b) == (a + b - 1) \div b
AtLeastOne(n) == IF n < 1 THEN 1 ELSE n

(* n words of a pool, from some word on and round the pool again.          *)
Cycled(pool, n, start) == [k \in 1..n |-> pool[((start + k - 1) % Len(pool)) + 1]]

(* How many words to pad with: by the average of the pool, corrected once  *)
(* by what those words came to.                                            *)
Estimate(budget, pool) == AtLeastOne(CeilDiv(budget * Len(pool), TokenCount(pool)))
(* Defect: the estimate stands. *)
Estimated(budget, pool, start) == Estimate(budget, pool)
PaddingWords(budget, pool, start) ==
    LET n == Estimate(budget, pool)
        actual == TokenCount(Cycled(pool, n, start))
    IN  IF actual = budget THEN n ELSE AtLeastOne(CeilDiv(budget * n, actual))

(* The padding of a turn: none when the wrapper and the content alone cost *)
(* as much as the target.                                                  *)
FitFiller(target, fixedCost, pool, start) ==
    LET budget == target - fixedCost
    IN  IF budget <= 0 \/ pool = <<>> THEN <<>> ELSE Cycled(pool, PaddingWords(budget, pool, start), start)

(* A system prompt: cut to the target, never below a word, or whole and    *)
(* padded behind a header of its own.                                      *)
(* Defect: the first cut, by proportion, stands. *)
FirstCut(prompt, target) == SubSeq(prompt, 1, AtLeastOne((Len(prompt) * target) \div TokenCount(prompt)))
CutPrompt(prompt, target) ==
    LET most == Len(FirstCut(prompt, target))
        fits == {n \in 1..most : n = 1 \/ TokenCount(SubSeq(prompt, 1, n)) <= target}
    IN  SubSeq(prompt, 1, CHOOSE n \in fits : \A m \in fits : m <= n)

SystemHead(prompt, header, target, pool) ==
    LET budget == target - TokenCount(prompt) - header
    IN  IF TokenCount(prompt) >= target THEN CutPrompt(prompt, target)
        ELSE IF budget <= 0 \/ pool = <<>> THEN prompt
        ELSE prompt \o <<header>> \o Cycled(pool, PaddingWords(budget, pool, 0), 0)

(* The numbers of a result, drawn one by one, are put right in pairs and   *)
(* ranks that share a suffix.  A field is a base and a suffix; a value     *)
(* that is no number leaves its group alone.                               *)
NoNumber == -1
Ranks == <<"p50", "p90", "p95", "p99">>
Clamp(values, lo, hi) ==
    [f \in DOMAIN values |->
        LET limit == <<hi, f[2]>>
        IN  IF f[1] = lo /\ limit \in DOMAIN values /\ values[f] # NoNumber /\ values[limit] # NoNumber /\ values[f] > values[limit]
            THEN values[limit] ELSE values[f]]
RanksOf(values, suffix) == SelectSeq(Ranks, LAMBDA r : <<r, suffix>> \in DOMAIN values)
SortPercentiles(values) ==
    [f \in DOMAIN values |->
        LET group == RanksOf(values, f[2])
            numbers == [k \in DOMAIN group |-> values[<<group[k], f[2]>>]]
        IN  IF f[1] \notin Range(group) \/ NoNumber \in Range(numbers) THEN values[f]
            ELSE SortSeq(numbers, <)[CHOOSE k \in DOMAIN group : group[k] = f[1]]]

(* Defect: only the pairs are put right. *)
PairsRepaired(values) == Clamp(Clamp(values, "in_use", "max"), "heap_used", "heap_max")
Repaired(values) == SortPercentiles(Clamp(Clamp(values, "in_use", "max"), "heap_used", "heap_max"))

(* The arguments of a call: what the schema requires, from its enumeration *)
(* first, from the subject of the session, from the theme, or by type.     *)
(* A value is <<where it comes from, which>>.                              *)
Argument(prop, spec, pinned, entities) ==
    IF spec.enum # {} THEN <<"enum", CHOOSE e \in spec.enum : TRUE>>
    ELSE IF prop \in DOMAIN pinned THEN pinned[prop]
    ELSE IF prop \in entities THEN <<"entity", prop>>
    ELSE <<spec.type, prop>>
ToolArguments(schema, pinned, entities) == [p \in {q \in DOMAIN schema : schema[q].required} |-> Argument(p, schema[p], pinned, entities)]

(* The fields of the result of that call: an entity is the argument of     *)
(* that name, else the subject of the session, else drawn anew; any other  *)
(* field is drawn anew.                                                    *)
(* Defect: the subject of the session wins over the argument. *)
SubjectFirst(args, pinned) == pinned @@ args
ResultPinned(args, pinned) == args @@ pinned

ResultField(field, args, pinned, entities) ==
    LET given == ResultPinned(args, pinned)
    IN  IF field \in entities /\ field \in DOMAIN given THEN given[field] ELSE <<"drawn", field>>

(* ---- properties ------------------------------------------------------- *)
(* Padding comes within the costliest word of its target, and is never     *)
(* short of it when all words cost the same; a prompt is cut to fit.       *)
PaddingIsClose(target, fixedCost, pool, start) ==
    LET filler == TokenCount(FitFiller(target, fixedCost, pool, start))
        budget == target - fixedCost
    IN  budget > 0 /\ pool # <<>> =>
            /\ filler < budget + Max(Range(pool)) /\ budget < filler + Max(Range(pool))
            /\ (\A k \in DOMAIN pool : pool[k] = pool[1]) => filler \in budget..budget + pool[1] - 1
HeadIsWhole(prompt, header, target, pool) ==
    LET head == SystemHead(prompt, header, target, pool)
    IN  IF TokenCount(prompt) >= target THEN IsPrefix(head, prompt) /\ (Len(head) = 1 \/ TokenCount(head) <= target)
        ELSE IsPrefix(prompt, head) /\ (Len(pool) = 1 => TokenCount(head) < target + pool[1] \/ head = prompt)
(* No rendered result shows an order that cannot be, and none of its       *)
(* percentiles is made up.                                                 *)
NumbersAreOrdered(values) ==
    LET after == Repaired(values)
        numeric(s) == \A r \in Range(Ranks) : <<r, s>> \in DOMAIN values => values[<<r, s>>] # NoNumber
    IN  \A f, g \in DOMAIN values :
            /\ values[f] = NoNumber => after[f] = NoNumber
            /\ f = <<"in_use", g[2]>> /\ g[1] = "max" /\ values[f] # NoNumber /\ values[g] # NoNumber => after[f] <= after[g]
            /\ f[2] = g[2] /\ numeric(f[2]) /\ (\E i, j \in 1..4 : i < j /\ f[1] = Ranks[i] /\ g[1] = Ranks[j]) => after[f] <= after[g]
            /\ f[1] \in Range(Ranks) => \E h \in DOMAIN values : h[2] = f[2] /\ h[1] \in Range(Ranks) /\ after[f] = values[h]
(* The result of a call is about what the call was made with, and the      *)
(* whole session about one subject.                                        *)
ResultsEcho(schema, pinned, entities) ==
    LET args == ToolArguments(schema, pinned, entities)
    IN  \A p \in DOMAIN schema :
            /\ p \in DOMAIN args => /\ schema[p].required
                                    /\ schema[p].enum # {} => args[p][2] \in schema[p].enum
                                    /\ p \in entities => ResultField(p, args, pinned, entities) = args[p]
            /\ p \in entities /\ p \in DOMAIN pinned /\ schema[p].enum = {} => ResultField(p, args, pinned, entities) = pinned[p]
=============================================================================
