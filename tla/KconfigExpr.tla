---------------------------- MODULE KconfigExpr -----------------------------
(***************************************************************************)
(* How the dependency expressions of kconfig are simplified, compared,     *)
(* factored and evaluated (support/kconfig/expr.c): the functions that go  *)
(* down the trees, by the rules of KconfigRules.  The code rewrites trees  *)
(* in place through pointers; here an operator returns the trees it leaves.*)
(***************************************************************************)
EXTENDS KconfigRules, SequencesExt

\* FoldLeft of SequencesExt, whose definition costs TLC the cube of the length.
FoldAlong(op(_, _), base, seq) ==
  LET fold[i \in 0..Len(seq)] == IF i = 0 THEN base ELSE op(fold[i - 1], seq[i])
  IN fold[Len(seq)]

RECURSIVE expr_calc_value(_, _, _)
expr_calc_value(e, tri, str) == CalcStep(e, LAMBDA f : expr_calc_value(f, tri, str), tri, str)

RECURSIVE expr_eliminate_yn(_)
expr_eliminate_yn(e) == YnStep(e, LAMBDA f : expr_eliminate_yn(f))

RECURSIVE EliminateEq(_, _, _), expr_eliminate_eq(_, _), expr_eq(_, _)
\* May the two be taken out?  A mutant that compares the kinds of node only.
AlikeInKind(e, f) == e.op = f.op
Alike(e, f) == ~SameConst(e, f) /\ expr_eq(e, f)
EliminateEq(op, e, f) ==
  EliminateEqStep(op, e, f, LAMBDA o, g, h : EliminateEq(o, g, h), LAMBDA g, h : Alike(g, h))
expr_eliminate_eq(e, f) ==
  EliminateEqBoth(e, f, LAMBDA o, g, h : EliminateEq(o, g, h), LAMBDA g : expr_eliminate_yn(g))
expr_eq(e, f) ==
  EqStep(e, f, LAMBDA g, h : expr_eq(g, h), LAMBDA g, h : expr_eliminate_eq(g, h))

RECURSIVE expr_transform(_, _), expr_trans_bool(_, _), expr_trans_compare(_, _, _)
expr_transform(e, ty) == TransformStep(e, LAMBDA f : expr_transform(f, ty), ty)
expr_trans_bool(e, ty) == TransBoolStep(e, LAMBDA f : expr_trans_bool(f, ty), ty)
expr_trans_compare(e, op, k) ==
  TransCompareStep(e, op, k, LAMBDA f, o : expr_trans_compare(f, o, k))

-----------------------------------------------------------------------------
(* expr_eliminate_dups: pairs of operands that say the same, or decide     *)
(* each other, are joined into one.                                        *)

expr_join(op, e, f, ty) == Join(op, e, f, ty, LAMBDA g, h : expr_eq(g, h))

RECURSIVE Count(_, _), Operand(_, _, _), Replaced(_, _, _, _), Node(_, _, _)
Count(op, e) == CountStep(op, e, LAMBDA f : Count(op, f))
Operand(op, e, i) ==
  OperandStep(op, e, i, LAMBDA f : Count(op, f), LAMBDA f, k : Operand(op, f, k))
Replaced(op, e, i, x) ==
  ReplaceStep(op, e, i, x, LAMBDA f : Count(op, f), LAMBDA f, k, y : Replaced(op, f, k, y))
Node(op, e, range) ==
  NodeStep(op, e, range, LAMBDA f : Count(op, f), LAMBDA f, r : Node(op, f, r))

\* All pairs of 1..m and 1..n, in order.
Pairs(m, n) == [k \in 1..(m * n) |-> <<((k - 1) \div n) + 1, ((k - 1) % n) + 1>>]

\* Both passes return the tree they leave and how often they changed it.
RECURSIVE expr_eliminate_dups1(_, _), expr_eliminate_dups2(_, _)
expr_eliminate_dups1(e, ty) ==
  IF ~Binary(e) THEN [e |-> e, n |-> 0]
  ELSE LET step(t, ij) == JoinPair(e.op, t, ij[1], ij[2],
                            LAMBDA f : expr_eliminate_dups1(f, ty),
                            LAMBDA f, i : Operand(e.op, f, i),
                            LAMBDA f, i, x : Replaced(e.op, f, i, x),
                            LAMBDA f, g : expr_join(e.op, f, g, ty))
           n == Count(e.op, e)
       IN FoldAlong(step, [e |-> e, n |-> 0], Pairs(n, n))

expr_extract_eq(op, e, f) ==
  LET step(x, ij) == ExtractPair(op, x, ij[1], ij[2],
                       LAMBDA g, h : expr_eq(g, h),
                       LAMBDA g, i : Operand(op, g, i),
                       LAMBDA g, i, y : Replaced(op, g, i, y))
  IN Bind(FoldAlong(step, [ex |-> NoExpr, e |-> e, f |-> f], Pairs(Count(op, e), Count(op, f))),
          LAMBDA x : Extracted(x, LAMBDA g : expr_eliminate_yn(g)))

\* The nodes of a tree of op in the order the second pass meets them, each as
\* the range of operands it covers.
RECURSIVE Nodes(_, _, _)
Nodes(op, e, from) ==
  IF e.op # op THEN << <<from, from>> >>
  ELSE Nodes(op, e.a, from) \o Nodes(op, e.b, from + Count(op, e.a))
         \o << <<from, from + Count(op, e) - 1>> >>

expr_eliminate_dups2(e, ty) ==
  IF ~Binary(e) THEN [e |-> e, n |-> 0]
  ELSE LET nodes == Nodes(e.op, e, 1)
           step(t, k) == DenyPair(e.op, t, k[1], nodes[k[2]],
                           LAMBDA f : expr_eliminate_dups2(f, ty),
                           LAMBDA f, i : Operand(e.op, f, i),
                           LAMBDA f, i, x : Replaced(e.op, f, i, x),
                           LAMBDA f, range : Node(e.op, f, range),
                           LAMBDA f : expr_transform(f, ty),
                           LAMBDA f, g : expr_extract_eq(e.op, f, g))
       IN FoldAlong(step, [e |-> e, n |-> 0], Pairs(Count(e.op, e), Len(nodes)))

RECURSIVE expr_eliminate_dups(_, _)
expr_eliminate_dups(e, ty) ==
  Bind(expr_eliminate_dups1(e, ty), LAMBDA one :
  Bind(expr_eliminate_dups2(one.e, ty), LAMBDA two :
    IF one.n + two.n = 0 THEN two.e
    ELSE expr_eliminate_dups(expr_eliminate_yn(two.e), ty)))

-----------------------------------------------------------------------------
(* What an expression says about a symbol.                                 *)

RECURSIVE expr_contains_symbol(_, _), expr_depends_symbol(_, _)
expr_contains_symbol(e, s) ==
  CASE Binary(e) -> expr_contains_symbol(e.a, s) \/ expr_contains_symbol(e.b, s)
    [] e.op = "not" -> expr_contains_symbol(e.a, s)
    [] Compare(e) -> s \in {e.l, e.r}
    [] OTHER -> e = Sy(s)

expr_depends_symbol(e, s) ==
  CASE e.op = "and" -> expr_depends_symbol(e.a, s) \/ expr_depends_symbol(e.b, s)
    [] OTHER -> e \in {Sy(s), Eq(s, "y"), Eq(s, "m"), Neq(s, "n")}
=============================================================================
