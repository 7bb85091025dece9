-------------------------------- MODULE MCNumbers --------------------------------
(***************************************************************************)
(* Expressions of up to three operands, and conditions of up to three      *)
(* comparisons.                                                            *)
(***************************************************************************)
EXTENDS MCCase, Integers, Sequences

N == INSTANCE NumericExpressions

Leaf(op, value) == [op |-> op, value |-> value, args |-> <<>>]
Node(op, args) == [op |-> op, value |-> 0, args |-> args]
Numbers == {Leaf("num", -1), Leaf("num", 2)}
T == Leaf("t", 0)
First == Numbers \cup {T, Leaf("rv", <<-2, 1>>)}
Second == Numbers \cup {T, Leaf("rv", <<-1, 3>>)}
Binary == {"+", "*", "min", "max"}
Pairs == {Node(op, <<a, b>>) : op \in Binary, a \in First, b \in Second} \cup {Node(op, <<a>>) : op \in {"abs", "other"}, a \in First}
Expressions == First \cup Pairs \cup {Node(op, <<a, b>>) : op \in Binary, a \in Pairs, b \in Numbers \cup {T}}
                     \cup {Node("abs", <<a>>) : a \in Pairs}
BoundsCase == Idle("bounds") /\ \E e \in Expressions, duration \in {0, 3} : Make("bounds", [tree |-> e, duration |-> duration])

Ranges == {<<-N!Unbounded, N!Unbounded>>, <<0, N!Unbounded>>, <<0, 2>>, <<-2, 3>>}
RangeCase == Idle("range") /\
    \E e \in First \cup Pairs, permitted \in Ranges, clip, timed, solved \in BOOLEAN :
        Make("range", [tree |-> e, permitted |-> permitted, clip |-> clip, timed |-> timed, duration |-> 2, solved |-> solved])

Comparisons == {Leaf(op, bound) : op \in {">", ">=", "<", "<="}, bound \in 0..2}
Joined == {Node(op, <<a, b>>) : op \in {"and", "or"}, a, b \in Comparisons}
Conditions == Comparisons \cup Joined \cup {Node(op, <<a, b>>) : op \in {"and", "or"}, a \in Joined, b \in Comparisons}
ConditionCase == Idle("condition") /\ \E p \in Conditions : Make("condition", p)

(* What is proved of an expression when it is read holds when it is drawn: *)
(* its bounds, its range policy, and that a stop condition once true stays *)
(* true.                                                                   *)
NumbersAreSafe ==
    /\ On("bounds", LAMBDA x : N!BoundsAreSound(x.tree, x.duration))
    /\ On("range", N!NoSampleEscapes)
    /\ On("condition", LAMBDA p : N!StopConditionsLast(p, 6))

NumberAlgorithms == {"bounds", "range", "condition"}
NumberCases == BoundsCase \/ RangeCase \/ ConditionCase
=============================================================================
