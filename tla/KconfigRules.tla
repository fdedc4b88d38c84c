---------------------------- MODULE KconfigRules ----------------------------
(***************************************************************************)
(* Dependency expressions of kconfig (support/kconfig/expr.c), and the     *)
(* rules by which they are simplified, compared and evaluated: what the    *)
(* code does at one node of a tree.  The functions that go down the tree   *)
(* call themselves; an operator ...Step below is the body of one of them,  *)
(* with the calls it makes as parameters, and KconfigExpr ties the knot.   *)
(*                                                                         *)
(* ty[s] is the type of symbol s: "boolean", "tristate", "int", "hex",     *)
(* "string" or "unknown" (never defined); a name that is not in its domain *)
(* is a constant (y, m, n, quoted text).                                   *)
(***************************************************************************)
EXTENDS Tristate

\* LET v == e IN Body(v), for an e that takes long: a LET is expanded at every
\* use of its name when TLC reports what a run evaluated.
Bind(e, Body(_)) == Body(e)

NoExpr == [op |-> "none"]                             \* the NULL pointer
Sy(s)  == [op |-> "sym", sym |-> s]
Eq(s, t)  == [op |-> "eq", l |-> s, r |-> t]
Neq(s, t) == [op |-> "neq", l |-> s, r |-> t]
Not(e)    == [op |-> "not", a |-> e]
And(e, f) == [op |-> "and", a |-> e, b |-> f]
Or(e, f)  == [op |-> "or", a |-> e, b |-> f]

Y == Sy("y")
M == Sy("m")
N == Sy("n")

TypeOf(ty, s) == IF s \in DOMAIN ty THEN ty[s] ELSE "const"
Binary(e)  == e.op \in {"and", "or"}
Compare(e) == e.op \in {"eq", "neq"}
expr_is_yes(e) == e \in {NoExpr, Y}

Two(op, e, f) == [op |-> op, a |-> e, b |-> f]
expr_alloc_and(e, f) == IF e = NoExpr THEN f ELSE IF f = NoExpr THEN e ELSE And(e, f)
expr_alloc_or(e, f)  == IF e = NoExpr THEN f ELSE IF f = NoExpr THEN e ELSE Or(e, f)

\* What joining with the neutral element of op leaves alone.
Neutral(op) == IF op = "and" THEN Y ELSE N
Zero(op)    == IF op = "and" THEN N ELSE Y
\* What op becomes under a negation; a mutant that forgets to swap.
DualKept(op) == op
Dual(op)     == IF op = "and" THEN "or" ELSE "and"

-----------------------------------------------------------------------------
(* The value of an expression: tri[s] and str[s] are the value of s as a   *)
(* tristate and as text.                                                   *)

ConstTri(c) == CASE c = "y" -> yes [] c = "m" -> mod [] OTHER -> no
TriOf(s, tri) == IF s \in DOMAIN tri THEN tri[s] ELSE ConstTri(s)
StrOf(s, str) == IF s \in DOMAIN str THEN str[s] ELSE s

CalcStep(e, calc(_), tri, str) ==
  CASE e.op = "none" -> yes
    [] e.op = "sym" -> TriOf(e.sym, tri)
    [] e.op = "and" -> EXPR_AND(calc(e.a), calc(e.b))
    [] e.op = "or" -> EXPR_OR(calc(e.a), calc(e.b))
    [] e.op = "not" -> EXPR_NOT(calc(e.a))
    [] e.op = "eq" -> IF StrOf(e.l, str) = StrOf(e.r, str) THEN yes ELSE no
    [] OTHER -> IF StrOf(e.l, str) = StrOf(e.r, str) THEN no ELSE yes

-----------------------------------------------------------------------------
(* Constants under && and || disappear.                                    *)

Joined(op, f, g) == IF Zero(op) \in {f, g} THEN Zero(op)
                    ELSE IF f = Neutral(op) THEN g
                    ELSE IF g = Neutral(op) THEN f
                    ELSE Two(op, f, g)
YnStep(e, yn(_)) == IF Binary(e) THEN Joined(e.op, yn(e.a), yn(e.b)) ELSE e

-----------------------------------------------------------------------------
(* Equality of expressions up to the order of operands: what both sides    *)
(* have in common is taken out of both.                                    *)

\* y and n are the same as themselves, but stay where they are.
SameConst(e, f) == e = f /\ e \in {Y, N}

\* __expr_eliminate_eq: the two trees, <<left, right>>.
EliminateEqStep(op, e, f, elim(_, _, _), alike(_, _)) ==
  CASE e.op = op ->
         Bind(elim(op, e.a, f), LAMBDA left :
         Bind(elim(op, e.b, left[2]), LAMBDA right :
           <<Two(op, left[1], right[1]), right[2]>>))
    [] e.op # op /\ f.op = op ->
         Bind(elim(op, e, f.a), LAMBDA left :
         Bind(elim(op, left[1], f.b), LAMBDA right :
           <<right[1], Two(op, left[2], right[2])>>))
    [] OTHER ->
         IF alike(e, f) THEN <<Neutral(op), Neutral(op)>> ELSE <<e, f>>

EliminateEqBoth(e, f, elim(_, _, _), yn(_)) ==
  IF NoExpr \in {e, f} THEN <<e, f>>
  ELSE Bind(IF Binary(e) THEN elim(e.op, e, f) ELSE <<e, f>>, LAMBDA p :
       Bind(IF p[1].op # p[2].op /\ Binary(p[2]) THEN elim(p[2].op, p[1], p[2]) ELSE p, LAMBDA q :
         <<yn(q[1]), yn(q[2])>>))

EqStep(e, f, eq(_, _), both(_, _)) ==
  CASE e.op # f.op -> FALSE
    [] e.op = f.op /\ e.op \in {"sym", "eq", "neq"} -> e = f
    [] e.op = f.op /\ e.op = "not" -> eq(e.a, f.a)
    [] OTHER -> Bind(both(e, f), LAMBDA p : p[1].op = "sym" /\ p[1] = p[2])

-----------------------------------------------------------------------------
(* expr_transform: negations move down to the symbols, comparisons of a    *)
(* boolean with a constant become the symbol or its negation.              *)

\* A mutant that does not see the != of FOO!=n.
BooleanTestEqOnly(e, ty) ==
  IF TypeOf(ty, e.l) = "boolean" /\ e.r = "n" THEN Not(Sy(e.l)) ELSE e
BooleanTest(e, ty) ==
  IF TypeOf(ty, e.l) # "boolean" THEN e
  ELSE CASE e.r = "m" -> IF e.op = "eq" THEN N ELSE Y
         [] e.r = "n" -> IF e.op = "eq" THEN Not(Sy(e.l)) ELSE Sy(e.l)
         [] e.r = "y" -> IF e.op = "eq" THEN Sy(e.l) ELSE Not(Sy(e.l))
         [] OTHER -> e

\* !(a || b) is !a && !b.
DeMorgan(f) == Two(Dual(f.op), Not(f.a), Not(f.b))
\* The negation of a tree that is transformed already.
Negated(f, trans(_)) ==
  CASE f.op = "not" -> trans(f.a)
    [] f.op = "eq" -> Neq(f.l, f.r)
    [] f.op = "neq" -> Eq(f.l, f.r)
    [] Binary(f) -> trans(DeMorgan(f))
    [] f = Y -> N
    [] f = M -> M
    [] f = N -> Y
    [] OTHER -> Not(f)
TransformStep(e, trans(_), ty) ==
  CASE e.op \in {"none", "sym"} -> e
    [] Compare(e) -> BooleanTest(e, ty)
    [] Binary(e) -> Two(e.op, trans(e.a), trans(e.b))
    [] e.op = "not" -> Negated(trans(e.a), trans)

\* FOO!=n becomes FOO where only "not n" matters.
\* A mutant that takes FOO!=m for FOO!=n.
IsNotNoLoose(e, ty) == e.op = "neq" /\ TypeOf(ty, e.l) = "tristate"
IsNotNo(e, ty)      == e.op = "neq" /\ TypeOf(ty, e.l) = "tristate" /\ e.r = "n"
TransBoolStep(e, trans(_), ty) ==
  CASE Binary(e) -> Two(e.op, trans(e.a), trans(e.b))
    [] e.op = "not" -> Not(trans(e.a))
    [] IsNotNo(e, ty) -> Sy(e.l)
    [] OTHER -> e

-----------------------------------------------------------------------------
(* Pairs of operands that say the same, or decide each other, are joined   *)
(* into one; NoExpr if they are neither.                                   *)

Plain(e) == e.op \in {"sym", "eq", "neq"}
Joinable(e, f) == /\ Plain(e) \/ (e.op = "not" /\ Plain(e.a))
                  /\ Plain(f) \/ (f.op = "not" /\ f.a.op = "sym")

SymOf(e) == CASE e.op = "sym" -> e.sym
              [] Compare(e) -> e.l
              [] OTHER -> IF e.a.op = "sym" THEN e.a.sym ELSE e.a.l

\* The operands are g and h, in either order.
OneEach(e, f, g, h) == {e, f} = {g, h} /\ g # h
Third(x, y) == CHOOSE z \in {"y", "m", "n"} \ {x, y} : TRUE
TwoConsts(e, f, op) == /\ e.op = op /\ f.op = op /\ e.r # f.r
                       /\ {e.r, f.r} \subseteq {"y", "m", "n"}

JoinOr(e, f, ty) ==
  IF ~Joinable(e, f) \/ SymOf(e) # SymOf(f) THEN NoExpr
  ELSE LET s == SymOf(e) IN
    CASE TypeOf(ty, s) = "tristate" /\ TwoConsts(e, f, "eq") -> Neq(s, Third(e.r, f.r))
      [] TypeOf(ty, s) = "boolean" /\ OneEach(e, f, Sy(s), Not(Sy(s))) -> Y
      [] OTHER -> NoExpr

\* (a='b') && (a!='c'): the second says nothing, or contradicts the first.
\* A mutant with the test the wrong way round.
ExcludeSwapped(eq, neq) == IF eq.r # neq.r THEN N ELSE eq
Exclude(eq, neq) == IF eq.r = neq.r THEN N ELSE eq

JoinAnd(e, f, ty) ==
  IF ~Joinable(e, f) \/ SymOf(e) # SymOf(f) \/ TypeOf(ty, SymOf(e)) \notin {"boolean", "tristate"}
  THEN NoExpr
  ELSE LET s == SymOf(e)
           consts == TypeOf(ty, e.r) = "const" /\ TypeOf(ty, f.r) = "const"
       IN
    IF OneEach(e, f, Sy(s), Eq(s, "y")) THEN Eq(s, "y")
    ELSE IF OneEach(e, f, Sy(s), Neq(s, "n")) THEN Sy(s)
    ELSE IF OneEach(e, f, Sy(s), Neq(s, "m")) THEN Eq(s, "y")
    ELSE IF TypeOf(ty, s) = "boolean" THEN NoExpr
    ELSE IF e.op = "eq" /\ f.op = "neq" /\ consts THEN Exclude(e, f)
    ELSE IF e.op = "neq" /\ f.op = "eq" /\ consts THEN Exclude(f, e)
    ELSE IF TwoConsts(e, f, "neq") THEN Eq(s, Third(e.r, f.r))
    ELSE NoExpr

Join(op, e, f, ty, eq(_, _)) ==
  IF eq(e, f) THEN e ELSE IF op = "or" THEN JoinOr(e, f, ty) ELSE JoinAnd(e, f, ty)

-----------------------------------------------------------------------------
(* The operands of a tree of op, counted from the left: what hangs below   *)
(* its upper nodes, those of op.                                           *)

CountStep(op, e, count(_)) == IF e.op = op THEN count(e.a) + count(e.b) ELSE 1

\* The i-th operand, and the tree with x in its place.
OperandStep(op, e, i, count(_), operand(_, _)) ==
  IF e.op # op THEN e
  ELSE IF i <= count(e.a) THEN operand(e.a, i) ELSE operand(e.b, i - count(e.a))
ReplaceStep(op, e, i, x, count(_), replace(_, _, _)) ==
  IF e.op # op THEN x
  ELSE IF i <= count(e.a) THEN Two(op, replace(e.a, i, x), e.b)
  ELSE Two(op, e.a, replace(e.b, i - count(e.a), x))

\* The upper node over a range of operands.
NodeStep(op, e, range, count(_), node(_, _)) ==
  IF e.op # op \/ range = <<1, count(e.a) + count(e.b)>> THEN e
  ELSE IF range[2] <= count(e.a) THEN node(e.a, range)
  ELSE node(e.b, <<range[1] - count(e.a), range[2] - count(e.a)>>)

\* Operands i and j, in a first pass over the tree t.e that was changed t.n
\* times: the i-th is simplified, and then joined with the j-th.
JoinPair(op, t, i, j, dups1(_), operand(_, _), replace(_, _, _), join(_, _)) ==
  IF i = j THEN t
  ELSE Bind(dups1(operand(t.e, i)), LAMBDA own :
       Bind(join(own.e, operand(t.e, j)), LAMBDA one :
         IF one = NoExpr THEN [e |-> replace(t.e, i, own.e), n |-> t.n + own.n]
         ELSE [e |-> replace(replace(t.e, i, Neutral(op)), j, one), n |-> t.n + own.n + 1]))

\* Operand i of one tree and j of another, if they are equal, go out of both.
ExtractPair(op, x, i, j, eq(_, _), operand(_, _), replace(_, _, _)) ==
  LET common == operand(x.e, i) IN
  IF ~eq(common, operand(x.f, j)) THEN x
  ELSE [ex |-> IF x.ex = NoExpr THEN common ELSE Two(op, x.ex, common),
        e |-> replace(x.e, i, Neutral(op)), f |-> replace(x.f, j, Neutral(op))]
\* What was common, and what is left of the two trees.
Extracted(x, yn(_)) == IF x.ex = NoExpr THEN <<NoExpr, x.e, x.f>> ELSE <<x.ex, yn(x.e), yn(x.f)>>

\* In a second pass: an operand that the node over a range denies decides all.
DenyPair(op, t, i, range, dups2(_), operand(_, _), replace(_, _, _), node(_, _), trans(_), extract(_, _)) ==
  IF range = <<i, i>> \/ ~Binary(operand(t.e, i)) THEN t
  ELSE Bind(dups2(operand(t.e, i)), LAMBDA own :
       Bind(replace(t.e, i, own.e), LAMBDA e :
         IF extract(trans(Not(own.e)), node(e, range))[2] = Neutral(op)
         THEN [e |-> replace(e, i, Zero(op)), n |-> t.n + own.n + 1]
         ELSE [e |-> e, n |-> t.n + own.n]))

-----------------------------------------------------------------------------
(* An expression for "e equals k" (op "eq") or "e differs from k" ("neq"). *)

TransCompareStep(e, op, k, trans(_, _)) ==
  LET flip(f) == IF op = "neq" THEN Not(f) ELSE f
  IN CASE e = NoExpr -> flip(Sy(k))
       [] Binary(e) -> flip(CASE k = "y" -> Two(e.op, trans(e.a, "eq"), trans(e.b, "eq"))
                              [] k = "n" -> Two(Dual(e.op), trans(e.a, "eq"), trans(e.b, "eq"))
                              [] OTHER -> e)
       [] e.op = "not" -> trans(e.a, IF op = "eq" THEN "neq" ELSE "eq")
       [] Compare(e) -> CASE k = "y" -> flip(e)
                          [] k = "m" -> IF op = "eq" THEN N ELSE Y
                          [] OTHER -> IF op = "eq" THEN Not(e) ELSE e
       [] OTHER -> IF op = "eq" THEN Eq(e.sym, k) ELSE Neq(e.sym, k)
=============================================================================
