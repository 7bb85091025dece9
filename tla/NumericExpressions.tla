---------------------------- MODULE NumericExpressions ----------------------------
(***************************************************************************)
(* Numbers of a configuration that depend on the time t of a stage or are  *)
(* drawn at random, and conditions that end a stage                        *)
(* (utils/numeric/expression/expression.py).  Parsing, solving and drawing *)
(* are sympy's and numpy's.                                                *)
(*                                                                         *)
(* An expression is a tree [op, value, args]: "num"; "t"; "rv", a random   *)
(* variable, its value being the support; "+", "*", "abs", "min", "max";   *)
(* or "other", a function (here the identity) for which there is no        *)
(* interval arithmetic.  Numbers are integers, and times those of a grid.  *)
(* A range is <<least, greatest>>, or <<>> if it could not be determined.  *)
(***************************************************************************)
EXTENDS Integers, Sequences, FiniteSets, FiniteSetsExt

Unknown == <<>>
Unbounded == 1000
Inside(v, range) == range[1] <= v /\ v <= range[2]
Least(a, b) == IF a < b THEN a ELSE b
Greatest(a, b) == IF a < b THEN b ELSE a

RECURSIVE Leaves(_)
Leaves(e) == IF e.args = <<>> THEN {e} ELSE UNION {Leaves(e.args[k]) : k \in DOMAIN e.args}
IsRandom(e) == \E l \in Leaves(e) : l.op = "rv"
DependsOnTime(e) == \E l \in Leaves(e) : l.op = "t"

(* The value for a time and for draws, a function of the supports.         *)
RECURSIVE ValueOf(_, _, _)
ValueOf(e, t, draws) ==
    LET v(k) == ValueOf(e.args[k], t, draws)
    IN CASE e.op = "num" -> e.value
         [] e.op = "t" -> t
         [] e.op = "rv" -> draws[e.value]
         [] e.op = "+" -> v(1) + v(2)
         [] e.op = "*" -> v(1) * v(2)
         [] e.op = "abs" -> Greatest(v(1), -v(1))
         [] e.op = "min" -> Least(v(1), v(2))
         [] e.op = "max" -> Greatest(v(1), v(2))
         [] e.op = "other" -> v(1)
Supports(e) == {l.value : l \in {l \in Leaves(e) : l.op = "rv"}}
Draws(e) == {d \in [Supports(e) -> Int \cap UNION {s[1]..s[2] : s \in Supports(e)}] : \A s \in Supports(e) : Inside(d[s], s)}

(***************************************************************************)
(* bounds: interval arithmetic over the tree.                              *)
(***************************************************************************)
Hull(values) == <<Min(values), Max(values)>>

(* Defect: the bounds of a product are those of the ends.                  *)
ProductOfEnds(a, b) == <<a[1] * b[1], a[2] * b[2]>>

ProductRange(a, b) == Hull({a[i] * b[j] : i, j \in {1, 2}})

AbsRange(a) ==
    CASE a[1] >= 0 -> a
      [] a[1] < 0 /\ a[2] <= 0 -> <<-a[2], -a[1]>>
      [] OTHER -> <<0, Greatest(-a[1], a[2])>>

RECURSIVE RangeOf(_, _)
RangeOf(e, duration) ==
    LET part(k) == RangeOf(e.args[k], duration)
    IN CASE e.op = "num" -> <<e.value, e.value>>
         [] e.op = "t" -> <<0, duration>>
         [] e.op = "rv" -> e.value
         [] e.op = "other" \/ \E k \in DOMAIN e.args : part(k) = Unknown -> Unknown
         [] OTHER -> CASE e.op = "+" -> <<part(1)[1] + part(2)[1], part(1)[2] + part(2)[2]>>
                       [] e.op = "*" -> ProductRange(part(1), part(2))
                       [] e.op = "abs" -> AbsRange(part(1))
                       [] e.op = "min" -> <<Least(part(1)[1], part(2)[1]), Least(part(1)[2], part(2)[2])>>
                       [] e.op = "max" -> <<Greatest(part(1)[1], part(2)[1]), Greatest(part(1)[2], part(2)[2])>>

(***************************************************************************)
(* The permitted range of an expression.  x is [tree, permitted, clip,     *)
(* timed, duration, solved]: the permitted range, whether random draws are *)
(* cut to it, whether the duration is known, and whether sympy can find    *)
(* the range of a function of t.                                           *)
(***************************************************************************)
ClipsDraws(x) == x.clip /\ IsRandom(x.tree)
BoundsGiven(x) == x.permitted # <<-Unbounded, Unbounded>>

StaticRange(x) ==
    CASE x.tree.op = "rv" -> x.tree.value
      [] x.tree.op # "rv" /\ IsRandom(x.tree) -> Unknown
      [] ~IsRandom(x.tree) /\ ~DependsOnTime(x.tree) -> Hull({ValueOf(x.tree, 0, <<>>)})
      [] ~IsRandom(x.tree) /\ DependsOnTime(x.tree) ->
             IF x.timed /\ x.solved THEN Hull({ValueOf(x.tree, t, <<>>) : t \in 0..x.duration}) ELSE Unknown

Contained(a, b) == b[1] <= a[1] /\ a[2] <= b[2]
Disjoint(a, b) == a[2] < b[1] \/ b[2] < a[1]

Constructs(x) ==
    /\ x.permitted[1] <= x.permitted[2]
    /\ x.clip => BoundsGiven(x)
    /\ LET static == StaticRange(x)
       IN \/ ~BoundsGiven(x)
          \/ static = Unknown
          \/ static # Unknown /\ (IF ClipsDraws(x) THEN ~Disjoint(static, x.permitted) ELSE Contained(static, x.permitted))

(* Defect: what was not decided is not looked at again.                    *)
NeverChecked(x) == FALSE

ChecksSamples(x) == BoundsGiven(x) /\ StaticRange(x) = Unknown /\ ~ClipsDraws(x)

(* What a sample yields: <<number>>, or nothing if it raises.              *)
Sample(x, t, draws) ==
    LET value == ValueOf(x.tree, t, draws)
    IN CASE ClipsDraws(x) -> <<Least(Greatest(value, x.permitted[1]), x.permitted[2])>>
         [] ~ClipsDraws(x) /\ ChecksSamples(x) /\ ~Inside(value, x.permitted) -> <<>>
         [] OTHER -> <<value>>

(***************************************************************************)
(* Conditions on t.  Cell 2k of the time line is the instant k, cell 2k+1  *)
(* what lies between k and k+1, the last cell all that is later.           *)
(***************************************************************************)
Compare(op, bound, cell) ==
    CASE op = ">" -> cell > 2 * bound
      [] op = ">=" -> cell >= 2 * bound
      [] op = "<" -> cell < 2 * bound
      [] op = "<=" -> cell <= 2 * bound

RECURSIVE Holds(_, _)
Holds(p, cell) ==
    CASE p.op = "and" -> \A k \in DOMAIN p.args : Holds(p.args[k], cell)
      [] p.op = "or" -> \E k \in DOMAIN p.args : Holds(p.args[k], cell)
      [] OTHER -> Compare(p.op, p.value, cell)

Provable(p) == p.op \in {"and", "or", ">", ">=", "<", "<="}

RECURSIVE HoldingSet(_, _)
HoldingSet(p, cells) ==
    CASE p.op = "and" -> {c \in cells : \A k \in DOMAIN p.args : c \in HoldingSet(p.args[k], cells)}
      [] p.op = "or" -> UNION {HoldingSet(p.args[k], cells) : k \in DOMAIN p.args}
      [] OTHER -> {c \in cells : Compare(p.op, p.value, c)}

IsInterval(s) == \A a, b \in s : \A c \in a..b : c \in s

(* Defect: a condition need not go on holding for ever.                    *)
HoldsForAWhile(p, last) ==
    LET holding == HoldingSet(p, 0..last)
    IN Provable(p) /\ holding # {} /\ IsInterval(holding) /\ Min(holding) > 1

ProvesBoundary(p, last) ==
    LET holding == HoldingSet(p, 0..last)
    IN /\ Provable(p)
       /\ holding # {}
       /\ IsInterval(holding) /\ last \in holding
       /\ Min(holding) > 1

Boundary(p, last) == Min(HoldingSet(p, 0..last)) \div 2

(***************************************************************************)
(* Properties.                                                             *)
(***************************************************************************)
(* The bounds hold whatever is drawn and whatever the time, so that who    *)
(* budgets for the worst case (Expression.bounds) is never surprised.      *)
BoundsAreSound(e, duration) ==
    LET range == RangeOf(e, duration)
    IN range # Unknown => \A t \in 0..duration, d \in Draws(e) : Inside(ValueOf(e, t, d), range)

(* No sample of an expression that was accepted lies outside its permitted *)
(* range, though most cannot be decided in advance; a draw that is to be   *)
(* cut never raises; and nothing is rejected that cannot go wrong.         *)
NoSampleEscapes(x) ==
    LET values == {ValueOf(x.tree, t, d) : t \in 0..x.duration, d \in Draws(x.tree)}
        samples == {Sample(x, t, d) : t \in 0..x.duration, d \in Draws(x.tree)}
    IN IF Constructs(x)
       THEN /\ \A s \in samples \ {<<>>} : Inside(s[1], x.permitted)
            /\ <<>> \in samples => ~ClipsDraws(x) /\ \E v \in values : ~Inside(v, x.permitted)
       ELSE \/ \E v \in values : ~Inside(v, x.permitted)
            \/ x.clip /\ ~BoundsGiven(x)

(* A condition that is accepted is false at the start of a stage and from  *)
(* its boundary on true for ever: whoever looks at it now and then, or     *)
(* only at the boundary, cannot miss it.                                   *)
StopConditionsLast(p, last) ==
    ProvesBoundary(p, last) =>
        /\ ~Holds(p, 0)
        /\ Boundary(p, last) > 0
        /\ \A c \in 0..last : Holds(p, c) <=> (c > 2 * Boundary(p, last) \/ (c = 2 * Boundary(p, last) /\ Holds(p, c)))
=============================================================================
