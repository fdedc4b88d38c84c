------------------------- MODULE KconfigExprProofs --------------------------
(***************************************************************************)
(* What expr.c does to an expression keeps its value: theorems for all     *)
(* expressions over any symbols, of any types, with any values they can    *)
(* have.                                                                   *)
(*                                                                         *)
(* The functions of expr.c call themselves on the operands. Here they are  *)
(* functions on Expr, the set of all trees, and of each is assumed what    *)
(* its body does at one node, the step of KconfigRules (IsYn, IsTransform, *)
(* ...). The recursive operators of KconfigExpr satisfy the same           *)
(* equations, and those are all the proofs use: induction on the size of   *)
(* the trees (BySize) does the rest. Nothing is assumed of how deep a tree *)
(* is.                                                                     *)
(*                                                                         *)
(* w is the moment: tri[w] and str[w] are what the symbols are then, and   *)
(* V[w] the values of the expressions.                                     *)
(***************************************************************************)
EXTENDS KconfigRules, WellFoundedInduction, TLAPS

CONSTANTS Name,     \* the names an expression compares
          Sym,      \* those it uses as symbols, y and n among them
          Expr,     \* all expressions over them
          size,     \* of each, in nodes
          ty, tri, str,
          V         \* the value of each

Ops == {"and", "or"}

\* Expr is made of these trees and no others.
Trees ==
  /\ size \in [Expr -> Nat \ {0}]
  /\ \A s \in Sym : Sy(s) \in Expr /\ size[Sy(s)] = 1
  /\ \A l, r \in Name : /\ Eq(l, r) \in Expr /\ size[Eq(l, r)] = 1
                        /\ Neq(l, r) \in Expr /\ size[Neq(l, r)] = 1
  /\ \A e \in Expr : Not(e) \in Expr /\ size[Not(e)] = size[e] + 1
  /\ \A op \in Ops : \A e, f \in Expr :
       Two(op, e, f) \in Expr /\ size[Two(op, e, f)] = size[e] + size[f] + 1
  /\ \A e \in Expr : \/ \E s \in Sym : e = Sy(s)
                     \/ \E l, r \in Name : e = Eq(l, r) \/ e = Neq(l, r)
                     \/ \E f \in Expr : e = Not(f)
                     \/ \E op \in Ops : \E f, g \in Expr : e = Two(op, f, g)

\* The constants of kconfig, and the names that stand for a value y, m or n.
Constants == {"y", "m", "n"}
Toggles == {s \in Name : TypeOf(ty, s) \in {"boolean", "tristate"}}
\* The text of a toggle with the value v.
TextFor(v) == IF v = yes THEN "y" ELSE IF v = mod THEN "m" ELSE "n"

\* Names, types and values as kconfig has them: y, m and n are constants, a
\* boolean or a tristate can be used as a symbol and its text is that of its
\* value, and a boolean is never m.
Names(w) ==
  /\ Sym \subseteq Name /\ Constants \subseteq Name /\ {"y", "n"} \subseteq Sym
  /\ Toggles \subseteq Sym
  /\ \A c \in Constants : TypeOf(ty, c) = "const"
  /\ \A c \in Name : TypeOf(ty, c) = "const" => c \notin DOMAIN tri[w] /\ c \notin DOMAIN str[w]
  /\ \A s \in Sym : TriOf(s, tri[w]) \in Tri
  /\ \A s \in Toggles : /\ s \in DOMAIN tri[w] /\ s \in DOMAIN str[w]
                        /\ str[w][s] = TextFor(tri[w][s])
                        /\ TypeOf(ty, s) = "boolean" => tri[w][s] # mod

\* V gives the values of expr_calc_value when the symbols are as w has them.
Values(w) == \A e \in Expr : V[w][e] = CalcStep(e, LAMBDA f : V[w][f], tri[w], str[w])

-----------------------------------------------------------------------------
(* Fields and operands.                                                    *)

\* The operator and the operands of a tree of each kind.
LEMMA SyFields == \A s : Sy(s).op = "sym" /\ Sy(s).sym = s
BY DEF Sy
LEMMA EqFields == \A l, r : Eq(l, r).op = "eq" /\ Eq(l, r).l = l /\ Eq(l, r).r = r
BY DEF Eq
LEMMA NeqFields == \A l, r : Neq(l, r).op = "neq" /\ Neq(l, r).l = l /\ Neq(l, r).r = r
BY DEF Neq
LEMMA NotFields == \A e : Not(e).op = "not" /\ Not(e).a = e
BY DEF Not
LEMMA TwoFields == \A op, e, f : /\ Two(op, e, f).op = op
                                 /\ Two(op, e, f).a = e /\ Two(op, e, f).b = f
BY DEF Two

\* The constants y, m and n are three different symbols.
LEMMA Consts == Y.op = "sym" /\ M.op = "sym" /\ N.op = "sym" /\ Y # N /\ Y # M /\ N # M
<1>1. Y.sym = "y" /\ M.sym = "m" /\ N.sym = "n"
  BY SyFields DEF Y, M, N
<1> QED BY <1>1, SyFields DEF Y, M, N

-----------------------------------------------------------------------------
(* Induction over trees.                                                   *)

\* A set of numbers that is not empty has a least one.
LEMMA LeastElement ==
  ASSUME NEW T, T \subseteq Nat, T # {}
  PROVE  \E x \in T : \A y \in T : x <= y
<1> DEFINE R == OpToRel(<, Nat)
<1>1. IsWellFoundedOn(R, Nat)
  BY NatLessThanWellFounded
<1>2. \A x, y \in Nat : y < x => <<y, x>> \in R
  BY DEF OpToRel
<1> HIDE DEF R
<1>3. PICK x \in T : \A y \in T : ~(<<y, x>> \in R)
  BY <1>1, WFMin
<1>4. \A y \in T : ~(y < x)
  BY <1>2, <1>3, Zenon
<1>5. x \in Nat /\ \A y \in T : y \in Nat
  OBVIOUS
<1>6. \A y \in Nat : ~(y < x) => x <= y
  BY <1>5
<1>7. \A y \in T : x <= y
  BY <1>4, <1>5, <1>6, Zenon
<1> QED BY <1>7, Zenon

\* What holds of a tree when it holds of all smaller ones holds of every tree.
LEMMA BySize ==
  ASSUME Trees, NEW S,
         \A e \in Expr : (\A f \in Expr : size[f] < size[e] => f \in S) => e \in S
  PROVE  Expr \subseteq S
<1> DEFINE T == {size[e] : e \in Expr \ S}
<1>1. SUFFICES ASSUME T # {} PROVE FALSE
  OBVIOUS
<1>2. T \subseteq Nat
  BY DEF Trees
<1>3. PICK n \in T : \A k \in T : n <= k
  BY <1>1, <1>2, LeastElement
<1>4. PICK e \in Expr \ S : n = size[e]
  BY <1>3
<1>5. ASSUME NEW f \in Expr, size[f] < size[e] PROVE f \in S
  <2>1. size[f] \in Nat /\ size[e] \in Nat
    BY <1>4 DEF Trees
  <2>2. ~(size[e] <= size[f])
    BY <1>5, <2>1
  <2> QED BY <1>3, <1>4, <2>2
<1> QED BY <1>4, <1>5

\* What holds of the leaves, and of a tree when of its operands, holds of all.
LEMMA ByTree ==
  ASSUME Trees, NEW S,
         \A s \in Sym : Sy(s) \in S,
         \A l, r \in Name : Eq(l, r) \in S /\ Neq(l, r) \in S,
         \A e \in Expr \cap S : Not(e) \in S,
         \A op \in Ops : \A e, f \in Expr \cap S : Two(op, e, f) \in S
  PROVE  Expr \subseteq S
<1>1. ASSUME NEW e \in Expr, \A f \in Expr : size[f] < size[e] => f \in S PROVE e \in S
  <2>1. CASE \E s \in Sym : e = Sy(s)
    BY <2>1
  <2>2. CASE \E l, r \in Name : e = Eq(l, r) \/ e = Neq(l, r)
    BY <2>2
  <2>3. CASE \E f \in Expr : e = Not(f)
    <3>1. PICK f \in Expr : e = Not(f)
      BY <2>3
    <3>2. size[e] = size[f] + 1 /\ size[f] \in Nat
      BY <3>1 DEF Trees
    <3>3. f \in S
      BY <1>1, <3>2
    <3> QED BY <3>1, <3>3
  <2>4. CASE \E op \in Ops : \E f, g \in Expr : e = Two(op, f, g)
    <3>1. PICK op \in Ops, f \in Expr, g \in Expr : e = Two(op, f, g)
      BY <2>4
    <3>2. size[e] = size[f] + size[g] + 1 /\ size[f] \in Nat /\ size[g] \in Nat
      BY <3>1 DEF Trees
    <3>3. f \in S /\ g \in S
      BY <1>1, <3>2
    <3> QED BY <3>1, <3>3
  <2> QED BY <2>1, <2>2, <2>3, <2>4 DEF Trees
<1> QED BY <1>1, BySize

\* A tree of && or || has a node more than its operands.
LEMMA SizeOfTwo ==
  ASSUME Trees, NEW op \in Ops, NEW e \in Expr, NEW f \in Expr
  PROVE  Two(op, e, f) \in Expr /\ size[Two(op, e, f)] = size[e] + size[f] + 1
BY DEF Trees

-----------------------------------------------------------------------------
(* Values.                                                                 *)

\* The value of && and of || from those of the operands.
Val(op, v, w) == IF op = "and" THEN EXPR_AND(v, w) ELSE EXPR_OR(v, w)

\* The value of a tree of each kind.
LEMMA SyValue == ASSUME NEW w, Trees, Values(w), NEW s \in Sym PROVE V[w][Sy(s)] = TriOf(s, tri[w])
<1>1. Sy(s) \in Expr
  BY DEF Trees
<1> QED BY <1>1, SyFields DEF Values, CalcStep
LEMMA EqValue ==
  ASSUME NEW w, Trees, Values(w), NEW l \in Name, NEW r \in Name
  PROVE  V[w][Eq(l, r)] = IF StrOf(l, str[w]) = StrOf(r, str[w]) THEN yes ELSE no
<1>1. Eq(l, r) \in Expr
  BY DEF Trees
<1> QED BY <1>1, EqFields DEF Values, CalcStep
LEMMA NeqValue ==
  ASSUME NEW w, Trees, Values(w), NEW l \in Name, NEW r \in Name
  PROVE  V[w][Neq(l, r)] = IF StrOf(l, str[w]) = StrOf(r, str[w]) THEN no ELSE yes
<1>1. Neq(l, r) \in Expr
  BY DEF Trees
<1> QED BY <1>1, NeqFields DEF Values, CalcStep
LEMMA NotValue == ASSUME NEW w, Trees, Values(w), NEW e \in Expr PROVE V[w][Not(e)] = EXPR_NOT(V[w][e])
<1>1. Not(e) \in Expr
  BY DEF Trees
<1> QED BY <1>1, NotFields DEF Values, CalcStep
LEMMA TwoValue ==
  ASSUME NEW w, Trees, Values(w), NEW op \in Ops, NEW e \in Expr, NEW f \in Expr
  PROVE  V[w][Two(op, e, f)] = Val(op, V[w][e], V[w][f])
<1>1. Two(op, e, f) \in Expr
  BY DEF Trees
<1>2. CASE op = "and"
  BY <1>1, <1>2, TwoFields DEF Values, CalcStep, Val
<1>3. CASE op = "or"
  BY <1>1, <1>3, TwoFields DEF Values, CalcStep, Val
<1> QED BY <1>2, <1>3 DEF Ops

\* && and || are the minimum and the maximum: what follows for three values.
LEMMA ValFacts ==
  ASSUME NEW op \in Ops, NEW v \in Tri, NEW w \in Tri
  PROVE  /\ Val(op, v, w) \in Tri
         /\ Val(op, v, w) \in {v, w}
         /\ Val(op, v, w) = Val(op, w, v)
         /\ Val(op, v, v) = v
BY DEF Ops, Val, EXPR_AND, EXPR_OR, Tri, yes, no
LEMMA ValShuffle ==
  ASSUME NEW op \in Ops, NEW v \in Tri, NEW w \in Tri, NEW c \in Tri, NEW d \in Tri
  PROVE  Val(op, Val(op, v, c), Val(op, w, d)) = Val(op, Val(op, v, w), Val(op, c, d))
BY DEF Ops, Val, EXPR_AND, EXPR_OR, Tri, yes, no
LEMMA ValAssoc ==
  ASSUME NEW op \in Ops, NEW v \in Tri, NEW w \in Tri, NEW c \in Tri
  PROVE  Val(op, Val(op, v, w), c) = Val(op, v, Val(op, w, c))
BY DEF Ops, Val, EXPR_AND, EXPR_OR, Tri, yes, no
LEMMA NotFacts ==
  ASSUME NEW v \in Tri
  PROVE  EXPR_NOT(v) \in Tri /\ EXPR_NOT(EXPR_NOT(v)) = v
BY DEF EXPR_NOT, Tri, yes, no
LEMMA ValNot ==
  ASSUME NEW op \in Ops, NEW v \in Tri, NEW w \in Tri
  PROVE  Dual(op) \in Ops /\ EXPR_NOT(Val(op, v, w)) = Val(Dual(op), EXPR_NOT(v), EXPR_NOT(w))
BY DEF Ops, Val, Dual, EXPR_NOT, EXPR_AND, EXPR_OR, Tri, yes, no

\* y has the value y, n the value n.
LEMMA ConstValues ==
  ASSUME NEW w, Trees, Names(w), Values(w)
  PROVE  /\ Y \in Expr /\ N \in Expr /\ V[w][Y] = yes /\ V[w][N] = no
         /\ size[Y] = 1 /\ size[N] = 1
<1>1. "y" \in Sym /\ "n" \in Sym
  BY Zenon DEF Names
<1>2. TriOf("y", tri[w]) = yes /\ TriOf("n", tri[w]) = no
  BY Zenon DEF Names, Constants, TriOf, ConstTri
<1> QED BY <1>1, <1>2, SyValue, Zenon DEF Y, N, Trees

\* Every expression has one of the three values.
LEMMA InTri ==
  ASSUME NEW w, Trees, Names(w), Values(w)
  PROVE  \A e \in Expr : V[w][e] \in Tri
<1> DEFINE S == {e \in Expr : V[w][e] \in Tri}
<1>0. yes \in Tri /\ no \in Tri
  BY DEF Tri, yes, no
<1>1. ASSUME NEW s \in Sym PROVE Sy(s) \in S
  <2>1. Sy(s) \in Expr /\ V[w][Sy(s)] = TriOf(s, tri[w])
    BY SyValue, Zenon DEF Trees
  <2>2. TriOf(s, tri[w]) \in Tri
    BY DEF Names
  <2> QED BY <2>1, <2>2
<1>2. ASSUME NEW l \in Name, NEW r \in Name PROVE Eq(l, r) \in S /\ Neq(l, r) \in S
  <2>1. Eq(l, r) \in Expr /\ Neq(l, r) \in Expr
    BY Zenon DEF Trees
  <2>2. V[w][Eq(l, r)] \in Tri /\ V[w][Neq(l, r)] \in Tri
    BY <1>0, EqValue, NeqValue, Zenon
  <2> QED BY <2>1, <2>2
<1>3. ASSUME NEW e \in Expr \cap S PROVE Not(e) \in S
  <2>1. Not(e) \in Expr /\ V[w][Not(e)] = EXPR_NOT(V[w][e])
    BY NotValue, Zenon DEF Trees
  <2> QED BY <2>1, NotFacts
<1>4. ASSUME NEW op \in Ops, NEW e \in Expr \cap S, NEW f \in Expr \cap S PROVE Two(op, e, f) \in S
  <2>1. e \in Expr /\ f \in Expr /\ V[w][e] \in Tri /\ V[w][f] \in Tri
    OBVIOUS
  <2>2. Two(op, e, f) \in Expr
    BY <2>1, Zenon DEF Trees
  <2>3. V[w][Two(op, e, f)] = Val(op, V[w][e], V[w][f])
    BY <2>1, TwoValue
  <2> QED BY <2>1, <2>2, <2>3, ValFacts
<1> HIDE DEF S
<1>5. Expr \subseteq S
  BY <1>1, <1>2, <1>3, <1>4, ByTree, Zenon
<1> QED BY <1>5 DEF S

-----------------------------------------------------------------------------
(* Taking constants out.                                                   *)

\* y leaves what it is joined to by && and n decides it; || the other way.
LEMMA NeutralFacts ==
  ASSUME NEW w, Trees, Names(w), Values(w), NEW op \in Ops
  PROVE  /\ Neutral(op) \in Expr /\ Zero(op) \in Expr
         /\ size[Neutral(op)] = 1 /\ size[Zero(op)] = 1
         /\ ~Binary(Neutral(op)) /\ ~Binary(Zero(op))
         /\ \A v \in Tri : /\ Val(op, V[w][Neutral(op)], v) = v
                           /\ Val(op, V[w][Zero(op)], v) = V[w][Zero(op)]
<1>1. Neutral(op) \in {Y, N} /\ Zero(op) \in {Y, N}
  BY DEF Neutral, Zero
<1>2. ~Binary(Y) /\ ~Binary(N)
  BY Consts DEF Binary
<1>3. \A v \in Tri : /\ Val("and", yes, v) = v /\ Val("and", no, v) = no
                    /\ Val("or", no, v) = v /\ Val("or", yes, v) = yes
  BY DEF Val, EXPR_AND, EXPR_OR, Tri, yes, no
<1>4. /\ op = "and" => V[w][Neutral(op)] = yes /\ V[w][Zero(op)] = no
      /\ op = "or" => V[w][Neutral(op)] = no /\ V[w][Zero(op)] = yes
  BY ConstValues, Zenon DEF Neutral, Zero
<1>5. CASE op = "and"
  BY <1>1, <1>2, <1>3, <1>4, <1>5, ConstValues, Zenon
<1>6. CASE op = "or"
  BY <1>1, <1>2, <1>3, <1>4, <1>6, ConstValues, Zenon
<1> QED BY <1>5, <1>6, Zenon DEF Ops

\* What __expr_eliminate_yn makes of two trees has the value of both together.
LEMMA JoinedValue ==
  ASSUME NEW w, Trees, Names(w), Values(w), NEW op \in Ops, NEW f \in Expr, NEW g \in Expr
  PROVE  /\ Joined(op, f, g) \in Expr
         /\ V[w][Joined(op, f, g)] = Val(op, V[w][f], V[w][g])
         /\ size[Joined(op, f, g)] <= size[f] + size[g] + 1
<1>0. /\ V[w][f] \in Tri /\ V[w][g] \in Tri
      /\ size[f] \in Nat /\ size[g] \in Nat /\ size[Zero(op)] = 1
  BY InTri, NeutralFacts, Zenon DEF Trees
<1>1. CASE Zero(op) \in {f, g}
  <2>1. Joined(op, f, g) = Zero(op)
    BY <1>1, Zenon DEF Joined
  <2>2. Val(op, V[w][f], V[w][g]) = V[w][Zero(op)]
    BY <1>0, <1>1, ValFacts, NeutralFacts
  <2> QED BY <1>0, <2>1, <2>2, NeutralFacts
<1>2. CASE Zero(op) \notin {f, g} /\ f = Neutral(op)
  <2>1. Joined(op, f, g) = g
    BY <1>2, Zenon DEF Joined
  <2> QED BY <1>0, <1>2, <2>1, NeutralFacts
<1>3. CASE Zero(op) \notin {f, g} /\ f # Neutral(op) /\ g = Neutral(op)
  <2>1. Joined(op, f, g) = f
    BY <1>3, Zenon DEF Joined
  <2>2. Val(op, V[w][f], V[w][g]) = V[w][f]
    BY <1>0, <1>3, ValFacts, NeutralFacts
  <2> QED BY <1>0, <2>1, <2>2
<1>4. CASE Zero(op) \notin {f, g} /\ f # Neutral(op) /\ g # Neutral(op)
  <2>1. Joined(op, f, g) = Two(op, f, g)
    BY <1>4, Zenon DEF Joined
  <2>2. /\ Two(op, f, g) \in Expr /\ size[Two(op, f, g)] = size[f] + size[g] + 1
    BY DEF Trees
  <2> QED BY <1>0, <2>1, <2>2, TwoValue
<1> QED BY <1>1, <1>2, <1>3, <1>4

\* yn is what expr_eliminate_yn leaves of each tree.
IsYn(yn) == \A e \in Expr : yn[e] = YnStep(e, LAMBDA f : yn[f])
LEMMA YnOfTwo ==
  ASSUME Trees, NEW yn, IsYn(yn), NEW op \in Ops, NEW f \in Expr, NEW g \in Expr
  PROVE  yn[Two(op, f, g)] = Joined(op, yn[f], yn[g])
<1>1. Two(op, f, g) \in Expr
  BY Zenon DEF Trees
<1>2. Binary(Two(op, f, g))
  BY TwoFields DEF Ops, Binary
<1> QED BY <1>1, <1>2, TwoFields DEF IsYn, YnStep
LEMMA YnOfOne ==
  ASSUME Trees, NEW yn, IsYn(yn), NEW e \in Expr, ~Binary(e)
  PROVE  yn[e] = e
BY DEF IsYn, YnStep
LEMMA NotBinary ==
  ASSUME Trees
  PROVE  /\ \A s \in Sym : ~Binary(Sy(s))
         /\ \A l, r \in Name : ~Binary(Eq(l, r)) /\ ~Binary(Neq(l, r))
         /\ \A e \in Expr : ~Binary(Not(e))
BY SyFields, EqFields, NeqFields, NotFields, Zenon DEF Binary

\* expr_eliminate_yn keeps the value of every expression, does not make it
\* larger, and finds nothing to do in what it has made.
THEOREM YnKeepsValue ==
  ASSUME NEW w, Trees, Names(w), Values(w), NEW yn, IsYn(yn)
  PROVE  \A e \in Expr : /\ yn[e] \in Expr /\ size[yn[e]] <= size[e]
                         /\ V[w][yn[e]] = V[w][e]
                         /\ yn[yn[e]] = yn[e]
<1> DEFINE P(e) == /\ yn[e] \in Expr /\ size[yn[e]] <= size[e]
                   /\ V[w][yn[e]] = V[w][e] /\ yn[yn[e]] = yn[e]
           S == {e \in Expr : P(e)}
<1>1. ASSUME NEW e \in Expr, ~Binary(e) PROVE e \in S
  <2>1. yn[e] = e
    BY <1>1, YnOfOne
  <2>2. size[e] <= size[e]
    BY DEF Trees
  <2> QED BY <2>1, <2>2
<1>2. ASSUME NEW op \in Ops, NEW f \in Expr \cap S, NEW g \in Expr \cap S PROVE Two(op, f, g) \in S
  <2> DEFINE e == Two(op, f, g)
             h == Joined(op, yn[f], yn[g])
  <2>0. f \in Expr /\ g \in Expr
    OBVIOUS
  <2>1. e \in Expr /\ size[e] = size[f] + size[g] + 1 /\ V[w][e] = Val(op, V[w][f], V[w][g])
    <3>1. V[w][e] = Val(op, V[w][f], V[w][g])
      BY <2>0, TwoValue
    <3> QED BY <2>0, <3>1, Zenon DEF Trees
  <2>2. yn[e] = h
    BY <2>0, YnOfTwo
  <2>3. P(f) /\ P(g)
    OBVIOUS
  <2>4. h \in Expr /\ V[w][h] = Val(op, V[w][f], V[w][g]) /\ size[h] <= size[yn[f]] + size[yn[g]] + 1
    BY <2>3, JoinedValue
  <2>5. size[h] <= size[e]
    <3>1. /\ size[h] \in Nat /\ size[yn[f]] \in Nat /\ size[yn[g]] \in Nat
          /\ size[f] \in Nat /\ size[g] \in Nat
      BY <2>3, <2>4, Zenon DEF Trees
    <3> HIDE DEF h, e
    <3> QED BY <2>1, <2>3, <2>4, <3>1
  <2>6. yn[h] = h
    <3>1. h \in {Zero(op), yn[f], yn[g]} \/ h = Two(op, yn[f], yn[g])
      BY DEF Joined
    <3>2. CASE h = Zero(op)
      BY <3>2, NeutralFacts, YnOfOne
    <3>3. CASE h \in {yn[f], yn[g]}
      BY <2>3, <3>3
    <3>4. CASE h = Two(op, yn[f], yn[g])
      <4>1. yn[Two(op, yn[f], yn[g])] = Joined(op, yn[yn[f]], yn[yn[g]])
        BY <2>3, YnOfTwo, Zenon
      <4> QED BY <2>3, <3>4, <4>1
    <3> HIDE DEF h
    <3> QED BY <3>1, <3>2, <3>3, <3>4
  <2> HIDE DEF h, e
  <2>7. P(e)
    BY <2>1, <2>2, <2>4, <2>5, <2>6
  <2>8. e \in S
    BY <2>1, <2>7
  <2> QED BY <2>8 DEF e
<1> HIDE DEF S
<1>3. Expr \subseteq S
  <2>1. /\ \A s \in Sym : Sy(s) \in S
        /\ \A l, r \in Name : Eq(l, r) \in S /\ Neq(l, r) \in S
        /\ \A e \in Expr : Not(e) \in S
    BY <1>1, NotBinary, Zenon DEF Trees
  <2> QED BY <1>2, <2>1, ByTree
<1> QED BY <1>3 DEF S

-----------------------------------------------------------------------------
(* Taking out what two trees have in common.                               *)

\* What a tree of each kind is made of.
LEMMA Operand ==
  ASSUME Trees, NEW e \in Expr
  PROVE  /\ e.op \in {"sym", "eq", "neq", "not", "and", "or"}
         /\ e.op = "sym" => e.sym \in Sym /\ e = Sy(e.sym)
         /\ e.op = "eq" => e.l \in Name /\ e.r \in Name /\ e = Eq(e.l, e.r)
         /\ e.op = "neq" => e.l \in Name /\ e.r \in Name /\ e = Neq(e.l, e.r)
         /\ e.op = "not" => e.a \in Expr /\ e = Not(e.a)
         /\ e.op \in Ops => e.a \in Expr /\ e.b \in Expr /\ e = Two(e.op, e.a, e.b)
<1>1. CASE \E s \in Sym : e = Sy(s)
  BY <1>1, SyFields DEF Ops
<1>2. CASE \E l, r \in Name : e = Eq(l, r)
  BY <1>2, EqFields DEF Ops
<1>3. CASE \E l, r \in Name : e = Neq(l, r)
  BY <1>3, NeqFields DEF Ops
<1>4. CASE \E f \in Expr : e = Not(f)
  BY <1>4, NotFields DEF Ops
<1>5. CASE \E op \in Ops : \E f, g \in Expr : e = Two(op, f, g)
  BY <1>5, TwoFields DEF Ops
<1>6. \/ \E s \in Sym : e = Sy(s)
      \/ \E l, r \in Name : e = Eq(l, r) \/ e = Neq(l, r)
      \/ \E f \in Expr : e = Not(f)
      \/ \E op \in Ops : \E f, g \in Expr : e = Two(op, f, g)
  BY Zenon DEF Trees
<1> QED BY <1>1, <1>2, <1>3, <1>4, <1>5, <1>6

\* Binary trees are those of && and ||.
LEMMA BinaryOp == \A e : Binary(e) <=> e.op \in Ops
BY DEF Binary, Ops

\* p is what remains of e and f without something of value c, which was in both.
Shares(w, op, e, f, p) ==
  /\ p[1] \in Expr /\ size[p[1]] <= size[e]
  /\ p[2] \in Expr /\ size[p[2]] <= size[f]
  /\ \E c \in Tri : V[w][e] = Val(op, V[w][p[1]], c) /\ V[w][f] = Val(op, V[w][p[2]], c)

\* What both operands of the first tree share with the second one, taken out in
\* turn, the tree shares.
LEMMA SharesLeft ==
  ASSUME NEW w, Trees, Names(w), Values(w), NEW op \in Ops,
         NEW a \in Expr, NEW b \in Expr, NEW f \in Expr, NEW p, NEW q,
         Shares(w, op, a, f, p), Shares(w, op, b, p[2], q)
  PROVE  Shares(w, op, Two(op, a, b), f, <<Two(op, p[1], q[1]), q[2]>>)
<1>1. p[1] \in Expr /\ p[2] \in Expr /\ q[1] \in Expr /\ q[2] \in Expr
  BY DEF Shares
<1>2. PICK c \in Tri : V[w][a] = Val(op, V[w][p[1]], c) /\ V[w][f] = Val(op, V[w][p[2]], c)
  BY DEF Shares
<1>3. PICK d \in Tri : V[w][b] = Val(op, V[w][q[1]], d) /\ V[w][p[2]] = Val(op, V[w][q[2]], d)
  BY DEF Shares
<1>4. /\ V[w][p[1]] \in Tri /\ V[w][p[2]] \in Tri /\ V[w][q[1]] \in Tri /\ V[w][q[2]] \in Tri
  BY <1>1, InTri
<1>5. /\ V[w][Two(op, a, b)] = Val(op, V[w][a], V[w][b])
      /\ V[w][Two(op, p[1], q[1])] = Val(op, V[w][p[1]], V[w][q[1]])
  BY <1>1, TwoValue
<1>6. Val(op, c, d) \in Tri /\ Val(op, c, d) = Val(op, d, c)
  BY ValFacts
<1>7. V[w][Two(op, a, b)] = Val(op, V[w][Two(op, p[1], q[1])], Val(op, c, d))
  BY <1>2, <1>3, <1>4, <1>5, ValShuffle
<1>8. V[w][f] = Val(op, V[w][q[2]], Val(op, c, d))
  BY <1>2, <1>3, <1>4, <1>6, ValAssoc
<1>9. /\ Two(op, p[1], q[1]) \in Expr
      /\ size[Two(op, p[1], q[1])] <= size[Two(op, a, b)]
      /\ size[q[2]] <= size[f]
  <2>1. /\ size[a] \in Nat /\ size[b] \in Nat /\ size[f] \in Nat
        /\ size[p[1]] \in Nat /\ size[p[2]] \in Nat /\ size[q[1]] \in Nat /\ size[q[2]] \in Nat
    BY <1>1, Zenon DEF Trees
  <2>2. /\ size[p[1]] <= size[a] /\ size[p[2]] <= size[f]
        /\ size[q[1]] <= size[b] /\ size[q[2]] <= size[p[2]]
    BY DEF Shares
  <2>3. /\ Two(op, p[1], q[1]) \in Expr
        /\ size[Two(op, p[1], q[1])] = size[p[1]] + size[q[1]] + 1
        /\ size[Two(op, a, b)] = size[a] + size[b] + 1
    BY <1>1, SizeOfTwo
  <2> QED BY <2>1, <2>2, <2>3
<1> HIDE DEF Shares
<1> DEFINE t == <<Two(op, p[1], q[1]), q[2]>>
<1>10. t[1] = Two(op, p[1], q[1]) /\ t[2] = q[2]
  OBVIOUS
<1> HIDE DEF t
<1>11. Shares(w, op, Two(op, a, b), f, t)
  BY <1>1, <1>6, <1>7, <1>8, <1>9, <1>10, Zenon DEF Shares
<1> QED BY <1>11 DEF t

\* The same with the two trees exchanged.
LEMMA SharesSwap ==
  ASSUME NEW w, NEW op, NEW e, NEW f, NEW p, Shares(w, op, e, f, p)
  PROVE  Shares(w, op, f, e, <<p[2], p[1]>>)
<1> DEFINE t == <<p[2], p[1]>>
<1>1. t[1] = p[2] /\ t[2] = p[1]
  OBVIOUS
<1> HIDE DEF t
<1>2. Shares(w, op, f, e, t)
  BY <1>1, Zenon DEF Shares
<1> QED BY <1>2 DEF t

\* And what both operands of the second tree share with the first one.
LEMMA SharesRight ==
  ASSUME NEW w, Trees, Names(w), Values(w), NEW op \in Ops,
         NEW a \in Expr, NEW b \in Expr, NEW e \in Expr, NEW p, NEW q,
         Shares(w, op, e, a, p), Shares(w, op, p[1], b, q)
  PROVE  Shares(w, op, e, Two(op, a, b), <<q[1], Two(op, p[2], q[2])>>)
<1> DEFINE s == <<p[2], p[1]>>
           t == <<q[2], q[1]>>
<1>1. Shares(w, op, a, e, s) /\ Shares(w, op, b, p[1], t)
  BY SharesSwap
<1>2. s[1] = p[2] /\ s[2] = p[1] /\ t[1] = q[2] /\ t[2] = q[1]
  OBVIOUS
<1> HIDE DEF s, t
<1>3. Shares(w, op, Two(op, a, b), e, <<Two(op, s[1], t[1]), t[2]>>)
  BY <1>1, <1>2, SharesLeft
<1> QED BY <1>2, <1>3, SharesSwap

\* Nothing taken out, or all.
LEMMA SharesNothing ==
  ASSUME NEW w, Trees, Names(w), Values(w), NEW op \in Ops, NEW e \in Expr, NEW f \in Expr
  PROVE  Shares(w, op, e, f, <<e, f>>)
<1> DEFINE c == V[w][Neutral(op)]
           t == <<e, f>>
<1>1. /\ c \in Tri /\ V[w][e] \in Tri /\ V[w][f] \in Tri
      /\ V[w][e] = Val(op, V[w][e], c) /\ V[w][f] = Val(op, V[w][f], c)
  BY NeutralFacts, InTri, ValFacts
<1>2. size[e] <= size[e] /\ size[f] <= size[f]
  BY DEF Trees
<1>3. t[1] = e /\ t[2] = f
  OBVIOUS
<1> HIDE DEF c, t
<1>4. Shares(w, op, e, f, t)
  BY <1>1, <1>2, <1>3, Zenon DEF Shares
<1> QED BY <1>4 DEF t

\* Of two trees of one value all may be taken out.
LEMMA SharesAll ==
  ASSUME NEW w, Trees, Names(w), Values(w), NEW op \in Ops, NEW e \in Expr, NEW f \in Expr, V[w][e] = V[w][f]
  PROVE  Shares(w, op, e, f, <<Neutral(op), Neutral(op)>>)
<1> DEFINE n == Neutral(op)
           t == <<n, n>>
<1>1. /\ V[w][n] \in Tri /\ V[w][e] \in Tri
      /\ V[w][e] = Val(op, V[w][n], V[w][e])
  BY NeutralFacts, InTri
<1>2. size[n] <= size[e] /\ size[n] <= size[f]
  <2>1. size[n] = 1
    BY NeutralFacts
  <2>2. size[e] \in Nat \ {0} /\ size[f] \in Nat \ {0}
    BY DEF Trees
  <2> HIDE DEF n
  <2> QED BY <2>1, <2>2
<1>3. t[1] = n /\ t[2] = n /\ n \in Expr
  BY NeutralFacts
<1> HIDE DEF n, t
<1>4. Shares(w, op, e, f, t)
  BY <1>1, <1>2, <1>3, Zenon DEF Shares
<1> QED BY <1>4 DEF t, n

\* The functions that compare two trees, each calling the others.
IsEliminate(elim, both, eq, yn) ==
  /\ IsYn(yn)
  /\ \A op \in Ops : \A e, f \in Expr :
       elim[op][e][f] = EliminateEqStep(op, e, f, LAMBDA o, g, h : elim[o][g][h],
                                        LAMBDA g, h : ~SameConst(g, h) /\ eq[g][h])
  /\ \A e, f \in Expr :
       /\ both[e][f] = EliminateEqBoth(e, f, LAMBDA o, g, h : elim[o][g][h], LAMBDA g : yn[g])
       /\ eq[e][f] = EqStep(e, f, LAMBDA g, h : eq[g][h], LAMBDA g, h : both[g][h])

\* __expr_eliminate_eq goes into a first tree of op, then into a second one, and
\* compares what has no op.
LEMMA ElimLeft ==
  ASSUME NEW elim, NEW both, NEW eq, NEW yn, IsEliminate(elim, both, eq, yn),
         NEW op \in Ops, NEW e \in Expr, NEW f \in Expr, e.op = op
  PROVE  LET p == elim[op][e.a][f]
             q == elim[op][e.b][p[2]]
         IN elim[op][e][f] = <<Two(op, p[1], q[1]), q[2]>>
<1>1. elim[op][e][f] = EliminateEqStep(op, e, f, LAMBDA o, g, h : elim[o][g][h],
                                       LAMBDA g, h : ~SameConst(g, h) /\ eq[g][h])
  BY DEF IsEliminate
<1> QED BY <1>1, Zenon DEF EliminateEqStep, Bind
LEMMA ElimRight ==
  ASSUME NEW elim, NEW both, NEW eq, NEW yn, IsEliminate(elim, both, eq, yn),
         NEW op \in Ops, NEW e \in Expr, NEW f \in Expr, e.op # op, f.op = op
  PROVE  LET p == elim[op][e][f.a]
             q == elim[op][p[1]][f.b]
         IN elim[op][e][f] = <<q[1], Two(op, p[2], q[2])>>
<1>1. elim[op][e][f] = EliminateEqStep(op, e, f, LAMBDA o, g, h : elim[o][g][h],
                                       LAMBDA g, h : ~SameConst(g, h) /\ eq[g][h])
  BY DEF IsEliminate
<1> QED BY <1>1, Zenon DEF EliminateEqStep, Bind
LEMMA ElimNeither ==
  ASSUME NEW elim, NEW both, NEW eq, NEW yn, IsEliminate(elim, both, eq, yn),
         NEW op \in Ops, NEW e \in Expr, NEW f \in Expr, e.op # op, f.op # op
  PROVE  /\ ~SameConst(e, f) /\ eq[e][f] => elim[op][e][f] = <<Neutral(op), Neutral(op)>>
         /\ ~(~SameConst(e, f) /\ eq[e][f]) => elim[op][e][f] = <<e, f>>
<1>1. elim[op][e][f] = EliminateEqStep(op, e, f, LAMBDA o, g, h : elim[o][g][h],
                                       LAMBDA g, h : ~SameConst(g, h) /\ eq[g][h])
  BY DEF IsEliminate
<1> QED BY <1>1, Zenon DEF EliminateEqStep, Bind

\* Trees of op share what is found in their operands.
LEMMA ElimOfTwo ==
  ASSUME NEW w, Trees, Names(w), Values(w), NEW elim, NEW both, NEW eq, NEW yn, IsEliminate(elim, both, eq, yn),
         NEW op \in Ops, NEW e \in Expr, NEW f \in Expr, op \in {e.op, f.op},
         \A g, h \in Expr : size[g] + size[h] < size[e] + size[f] => Shares(w, op, g, h, elim[op][g][h])
  PROVE  Shares(w, op, e, f, elim[op][e][f])
<1>0. \A g \in Expr : size[g] \in Nat
  BY DEF Trees
<1>1. CASE e.op = op
  <2> DEFINE p == elim[op][e.a][f]
             q == elim[op][e.b][p[2]]
  <2>1. /\ e.a \in Expr /\ e.b \in Expr /\ e = Two(op, e.a, e.b)
        /\ size[e] = size[e.a] + size[e.b] + 1
    BY <1>1, Operand, SizeOfTwo
  <2>2. Shares(w, op, e.a, f, p)
    BY <1>0, <2>1
  <2>3. p[2] \in Expr /\ size[p[2]] <= size[f]
    BY <2>2 DEF Shares
  <2>4. Shares(w, op, e.b, p[2], q)
    <3> HIDE DEF p
    <3>1. size[e.b] + size[p[2]] < size[e] + size[f]
      BY <1>0, <2>1, <2>3
    <3> QED BY <2>1, <2>3, <3>1
  <2>5. elim[op][e][f] = <<Two(op, p[1], q[1]), q[2]>>
    BY <1>1, ElimLeft
  <2> HIDE DEF p, q
  <2> QED BY <2>1, <2>2, <2>4, <2>5, SharesLeft
<1>2. CASE e.op # op /\ f.op = op
  <2> DEFINE p == elim[op][e][f.a]
             q == elim[op][p[1]][f.b]
  <2>1. /\ f.a \in Expr /\ f.b \in Expr /\ f = Two(op, f.a, f.b)
        /\ size[f] = size[f.a] + size[f.b] + 1
    BY <1>2, Operand, SizeOfTwo
  <2>2. Shares(w, op, e, f.a, p)
    BY <1>0, <2>1
  <2>3. p[1] \in Expr /\ size[p[1]] <= size[e]
    BY <2>2 DEF Shares
  <2>4. Shares(w, op, p[1], f.b, q)
    <3> HIDE DEF p
    <3>1. size[p[1]] + size[f.b] < size[e] + size[f]
      BY <1>0, <2>1, <2>3
    <3> QED BY <2>1, <2>3, <3>1
  <2>5. elim[op][e][f] = <<q[1], Two(op, p[2], q[2])>>
    BY <1>2, ElimRight
  <2> HIDE DEF p, q
  <2> QED BY <2>1, <2>2, <2>4, <2>5, SharesRight
<1> QED BY <1>1, <1>2

\* Both passes of expr_eliminate_eq: what is left of e and f, and that e and f
\* are these and something more, under && or || or both.
Apart(w, e, f, p) ==
  /\ p[1] \in Expr /\ p[2] \in Expr
  /\ \E op1, op2 \in Ops : \E c, d \in Tri :
       /\ V[w][e] = Val(op1, Val(op2, V[w][p[1]], d), c)
       /\ V[w][f] = Val(op1, Val(op2, V[w][p[2]], d), c)

\* expr_eliminate_eq leaves of two trees what is in only one of them.
LEMMA BothOfTwo ==
  ASSUME NEW w, Trees, Names(w), Values(w), NEW elim, NEW both, NEW eq, NEW yn, IsEliminate(elim, both, eq, yn),
         NEW e \in Expr, NEW f \in Expr,
         \A op \in Ops : \A g, h \in Expr :
           (size[g] + size[h] <= size[e] + size[f] /\ op \in {g.op, h.op})
             => Shares(w, op, g, h, elim[op][g][h])
  PROVE  Apart(w, e, f, both[e][f])
<1> DEFINE p == IF Binary(e) THEN elim[e.op][e][f] ELSE <<e, f>>
           q == IF p[1].op # p[2].op /\ Binary(p[2]) THEN elim[p[2].op][p[1]][p[2]] ELSE p
           r == <<yn[q[1]], yn[q[2]]>>
<1>0. \A g \in Expr : size[g] \in Nat
  BY DEF Trees
<1>1. both[e][f] = r
  <2>1. NoExpr \notin {e, f}
    BY Operand DEF NoExpr
  <2>2. both[e][f] = EliminateEqBoth(e, f, LAMBDA o, g, h : elim[o][g][h], LAMBDA g : yn[g])
    BY DEF IsEliminate
  <2> QED BY <2>1, <2>2 DEF EliminateEqBoth, Bind
<1>2. PICK op1 \in Ops : Shares(w, op1, e, f, p)
  <2>1. CASE Binary(e)
    <3>1. e.op \in Ops
      BY <2>1, BinaryOp
    <3>2. size[e] + size[f] <= size[e] + size[f]
      BY <1>0
    <3>3. Shares(w, e.op, e, f, elim[e.op][e][f])
      BY <3>1, <3>2
    <3> QED BY <2>1, <3>1, <3>3
  <2>2. CASE ~Binary(e)
    <3>1. "and" \in Ops
      BY DEF Ops
    <3>2. Shares(w, "and", e, f, <<e, f>>)
      BY <3>1, SharesNothing
    <3> QED BY <2>2, <3>1, <3>2
  <2> QED BY <2>1, <2>2
<1>3. /\ p[1] \in Expr /\ size[p[1]] <= size[e]
      /\ p[2] \in Expr /\ size[p[2]] <= size[f]
  BY <1>2 DEF Shares
<1>4. PICK c \in Tri : V[w][e] = Val(op1, V[w][p[1]], c) /\ V[w][f] = Val(op1, V[w][p[2]], c)
  BY <1>2 DEF Shares
<1> HIDE DEF p
<1>5. PICK op2 \in Ops : Shares(w, op2, p[1], p[2], q)
  <2>1. CASE p[1].op # p[2].op /\ Binary(p[2])
    <3>1. p[2].op \in Ops
      BY <2>1, BinaryOp
    <3>2. size[p[1]] + size[p[2]] <= size[e] + size[f]
      BY <1>0, <1>3
    <3>3. Shares(w, p[2].op, p[1], p[2], elim[p[2].op][p[1]][p[2]])
      BY <1>3, <3>1, <3>2
    <3> QED BY <2>1, <3>1, <3>3
  <2>2. CASE ~(p[1].op # p[2].op /\ Binary(p[2]))
    <3> DEFINE t == <<p[1], p[2]>>
    <3>1. "and" \in Ops
      BY DEF Ops
    <3>2. Shares(w, "and", p[1], p[2], t)
      BY <1>3, <3>1, SharesNothing
    <3>3. t[1] = p[1] /\ t[2] = p[2]
      OBVIOUS
    <3>4. Shares(w, "and", p[1], p[2], p)
      <4> HIDE DEF t
      <4> QED BY <3>2, <3>3 DEF Shares
    <3> QED BY <2>2, <3>1, <3>4
  <2> QED BY <2>1, <2>2
<1>6. q[1] \in Expr /\ q[2] \in Expr
  BY <1>5 DEF Shares
<1>7. PICK d \in Tri : V[w][p[1]] = Val(op2, V[w][q[1]], d) /\ V[w][p[2]] = Val(op2, V[w][q[2]], d)
  BY <1>5 DEF Shares
<1>8. r[1] = yn[q[1]] /\ r[2] = yn[q[2]]
  OBVIOUS
<1> HIDE DEF q, r
<1>9. r[1] \in Expr /\ r[2] \in Expr /\ V[w][r[1]] = V[w][q[1]] /\ V[w][r[2]] = V[w][q[2]]
  <2>1. IsYn(yn)
    BY Zenon DEF IsEliminate
  <2> QED BY <1>6, <1>8, <2>1, YnKeepsValue
<1>10. Apart(w, e, f, r)
  <2>1. /\ V[w][e] = Val(op1, Val(op2, V[w][r[1]], d), c)
        /\ V[w][f] = Val(op1, Val(op2, V[w][r[2]], d), c)
    BY <1>4, <1>7, <1>9
  <2>2. \E o1, o2 \in Ops : \E c1, d1 \in Tri :
          /\ V[w][e] = Val(o1, Val(o2, V[w][r[1]], d1), c1)
          /\ V[w][f] = Val(o1, Val(o2, V[w][r[2]], d1), c1)
    <3> WITNESS op1 \in Ops, op2 \in Ops
    <3> WITNESS c \in Tri, d \in Tri
    <3> QED BY <2>1
  <2> QED BY <1>9, <2>2 DEF Apart
<1> QED BY <1>1, <1>10

\* Trees that are found equal have one value, and what is taken out of two trees
\* was in both: for every pair of trees when for every smaller pair.
LEMMA EqStepSound ==
  ASSUME NEW w, Trees, Names(w), Values(w), NEW elim, NEW both, NEW eq, NEW yn, IsEliminate(elim, both, eq, yn),
         NEW e \in Expr, NEW f \in Expr, eq[e][f],
         \A g, h \in Expr : size[g] + size[h] < size[e] + size[f] /\ eq[g][h] => V[w][g] = V[w][h],
         Apart(w, e, f, both[e][f])
  PROVE  V[w][e] = V[w][f]
<1>0. EqStep(e, f, LAMBDA g, h : eq[g][h], LAMBDA g, h : both[g][h])
  BY DEF IsEliminate
<1>1. e.op = f.op
  BY <1>0 DEF EqStep
<1>2. CASE e.op \in {"sym", "eq", "neq"}
  <2>1. e = f
    BY <1>0, <1>1, <1>2 DEF EqStep
  <2> QED BY <2>1
<1>3. CASE e.op = "not"
  <2>1. eq[e.a][f.a]
    BY <1>0, <1>1, <1>3 DEF EqStep
  <2>2. e.a \in Expr /\ f.a \in Expr /\ e = Not(e.a) /\ f = Not(f.a)
    BY <1>1, <1>3, Operand
  <2>3. /\ size[e] = size[e.a] + 1 /\ size[f] = size[f.a] + 1
        /\ size[e.a] \in Nat /\ size[f.a] \in Nat
    BY <2>2 DEF Trees
  <2>4. V[w][e.a] = V[w][f.a]
    BY <2>1, <2>2, <2>3
  <2>5. V[w][Not(e.a)] = EXPR_NOT(V[w][e.a]) /\ V[w][Not(f.a)] = EXPR_NOT(V[w][f.a])
    BY <2>2, NotValue
  <2> QED BY <2>2, <2>4, <2>5
<1>4. CASE e.op \in {"and", "or"}
  <2>1. both[e][f][1] = both[e][f][2]
    BY <1>0, <1>1, <1>4 DEF EqStep, Bind
  <2> QED BY <2>1 DEF Apart
<1> QED BY <1>2, <1>3, <1>4, Operand

\* expr_eq finds no two expressions equal that differ in value, and what
\* __expr_eliminate_eq takes out of two expressions was in both.
Sound(w, elim, eq, e, f) ==
  /\ eq[e][f] => V[w][e] = V[w][f]
  /\ \A op \in Ops : Shares(w, op, e, f, elim[op][e][f])

\* This holds of every pair, by induction on the size of both together.
LEMMA AllSound ==
  ASSUME NEW w, Trees, Names(w), Values(w), NEW elim, NEW both, NEW eq, NEW yn, IsEliminate(elim, both, eq, yn)
  PROVE  \A e, f \in Expr : Sound(w, elim, eq, e, f)
<1> DEFINE T == {n \in Nat : \E e, f \in Expr : n = size[e] + size[f] /\ ~Sound(w, elim, eq, e, f)}
<1>0. \A g, h \in Expr : size[g] \in Nat /\ size[g] + size[h] \in Nat
  BY DEF Trees
<1>1. SUFFICES ASSUME T # {} PROVE FALSE
  BY <1>0
<1>2. PICK n \in T : \A k \in T : n <= k
  BY <1>1, LeastElement
<1>3. PICK e \in Expr, f \in Expr : n = size[e] + size[f] /\ ~Sound(w, elim, eq, e, f)
  BY <1>2
<1>4. ASSUME NEW g \in Expr, NEW h \in Expr, size[g] + size[h] < n PROVE Sound(w, elim, eq, g, h)
  <2>1. size[g] + size[h] \in Nat /\ n \in Nat
    BY <1>0, <1>3
  <2>2. size[g] + size[h] \notin T
    BY <1>2, <1>4, <2>1
  <2> QED BY <2>1, <2>2
<1> HIDE DEF T
<1>5. ASSUME NEW op \in Ops, NEW g \in Expr, NEW h \in Expr,
             size[g] + size[h] <= n, op \in {g.op, h.op}
      PROVE  Shares(w, op, g, h, elim[op][g][h])
  <2>1. ASSUME NEW g1 \in Expr, NEW h1 \in Expr, size[g1] + size[h1] < size[g] + size[h]
        PROVE  Shares(w, op, g1, h1, elim[op][g1][h1])
    <3>1. size[g1] + size[h1] < n
      BY <1>0, <1>3, <1>5, <2>1
    <3> QED BY <1>4, <3>1 DEF Sound
  <2> QED BY <1>5, <2>1, ElimOfTwo
<1>6. Apart(w, e, f, both[e][f])
  BY <1>3, <1>5, BothOfTwo
<1>7. eq[e][f] => V[w][e] = V[w][f]
  BY <1>3, <1>4, <1>6, EqStepSound DEF Sound
<1>8. ASSUME NEW op \in Ops PROVE Shares(w, op, e, f, elim[op][e][f])
  <2>1. CASE op \in {e.op, f.op}
    <3>1. size[e] + size[f] <= n
      BY <1>0, <1>3
    <3> QED BY <1>5, <2>1, <3>1
  <2>2. CASE op \notin {e.op, f.op} /\ ~SameConst(e, f) /\ eq[e][f]
    <3>0. e.op # op /\ f.op # op
      BY <2>2
    <3>1. elim[op][e][f] = <<Neutral(op), Neutral(op)>>
      BY <2>2, <3>0, ElimNeither
    <3> QED BY <1>7, <2>2, <3>1, SharesAll
  <2>3. CASE op \notin {e.op, f.op} /\ ~(~SameConst(e, f) /\ eq[e][f])
    <3>0. e.op # op /\ f.op # op
      BY <2>3
    <3>1. elim[op][e][f] = <<e, f>>
      BY <2>3, <3>0, ElimNeither
    <3> QED BY <3>1, SharesNothing
  <2> QED BY <2>1, <2>2, <2>3
<1> QED BY <1>3, <1>7, <1>8 DEF Sound

\* Expressions that expr_eq finds equal have one value, whatever their symbols are.
THEOREM EqualInValue ==
  ASSUME NEW w, Trees, Names(w), Values(w), NEW elim, NEW both, NEW eq, NEW yn, IsEliminate(elim, both, eq, yn)
  PROVE  \A e, f \in Expr : eq[e][f] => V[w][e] = V[w][f]
BY AllSound DEF Sound

\* What expr_eliminate_eq takes out of two expressions was in both.
LEMMA AllApart ==
  ASSUME NEW w, Trees, Names(w), Values(w), NEW elim, NEW both, NEW eq, NEW yn, IsEliminate(elim, both, eq, yn)
  PROVE  \A e, f \in Expr : Apart(w, e, f, both[e][f])
BY AllSound, BothOfTwo DEF Sound

\* What expr_eliminate_eq leaves of the second expression is y only if the first
\* is never above it: the entry goes into the submenu (menu_finalize).
THEOREM NothingLeftImplied ==
  ASSUME NEW w, Trees, Names(w), Values(w), NEW elim, NEW both, NEW eq, NEW yn, IsEliminate(elim, both, eq, yn),
         NEW e \in Expr, NEW f \in Expr, both[e][f][2] = Y
  PROVE  V[w][e] <= V[w][f]
<1> DEFINE p == both[e][f]
<1>1. PICK op1 \in Ops, op2 \in Ops, c \in Tri, d \in Tri :
        /\ V[w][e] = Val(op1, Val(op2, V[w][p[1]], d), c)
        /\ V[w][f] = Val(op1, Val(op2, V[w][p[2]], d), c)
  <2>1. Apart(w, e, f, p)
    BY AllApart
  <2> QED BY <2>1 DEF Apart
<1>2. V[w][p[1]] \in Tri /\ V[w][p[2]] = yes
  <2>1. p[1] \in Expr
    BY AllApart DEF Apart
  <2> QED BY <2>1, InTri, ConstValues
<1>3. \A v \in Tri : Val(op1, Val(op2, v, d), c) <= Val(op1, Val(op2, yes, d), c)
  BY DEF Ops, Val, EXPR_AND, EXPR_OR, Tri, yes, no
<1> QED BY <1>1, <1>2, <1>3

-----------------------------------------------------------------------------
(* Moving negations down.                                                  *)

\* What there is nothing to transform in: a negation is over a symbol that is
\* no constant, no boolean is compared with a constant.
Local(e, S) ==
  /\ e.op = "not" => e.a.op = "sym" /\ e.a \notin {Y, M, N}
  /\ e.op \in Ops => e.a \in S /\ e.b \in S
  /\ Compare(e) => BooleanTest(e, ty) = e
Normal == UNION {S \in SUBSET Expr : \A e \in S : Local(e, S)}

\* Normal is the largest such set.
LEMMA NormalIsLocal ==
  ASSUME NEW e \in Expr
  PROVE  e \in Normal <=> Local(e, Normal)
<1>1. ASSUME NEW f \in Normal PROVE f \in Expr /\ Local(f, Normal)
  <2>1. PICK S \in SUBSET Expr : f \in S /\ \A g \in S : Local(g, S)
    BY DEF Normal
  <2>2. \A g \in S : g \in Normal
    BY <2>1 DEF Normal
  <2>3. Local(f, S)
    BY <2>1
  <2> HIDE DEF Normal
  <2> QED BY <2>1, <2>2, <2>3, Zenon DEF Local
<1>2. ASSUME Local(e, Normal) PROVE e \in Normal
  <2> DEFINE S == Normal \cup {e}
  <2>1. S \in SUBSET Expr
    BY <1>1
  <2>2. ASSUME NEW f \in S PROVE Local(f, S)
    <3>1. Local(f, Normal)
      BY <1>1, <1>2
    <3>2. Normal \subseteq S
      OBVIOUS
    <3> HIDE DEF S
    <3> QED BY <3>1, <3>2, Zenon DEF Local
  <2>3. e \in S
    OBVIOUS
  <2> HIDE DEF S
  <2> QED BY <2>1, <2>2, <2>3 DEF Normal
<1> QED BY <1>1, <1>2
LEMMA NormalExpr == Normal \subseteq Expr
BY DEF Normal

\* tr is what expr_transform makes of each tree, by the operator of the tree.
IsTransform(tr) == \A e \in Expr : tr[e] = TransformStep(e, LAMBDA f : tr[f], ty)
NegatedBy(tr, f) == Negated(f, LAMBDA g : tr[g])
LEMMA TransformCases ==
  ASSUME Trees, NEW tr, IsTransform(tr)
  PROVE  /\ \A e \in Expr : e.op = "sym" => tr[e] = e
         /\ \A e \in Expr : Compare(e) => tr[e] = BooleanTest(e, ty)
         /\ \A e \in Expr : e.op \in Ops => tr[e] = Two(e.op, tr[e.a], tr[e.b])
         /\ \A e \in Expr : e.op = "not" => tr[e] = NegatedBy(tr, tr[e.a])
<1> SUFFICES ASSUME NEW e \in Expr
             PROVE  /\ e.op = "sym" => tr[e] = e
                    /\ Compare(e) => tr[e] = BooleanTest(e, ty)
                    /\ e.op \in Ops => tr[e] = Two(e.op, tr[e.a], tr[e.b])
                    /\ e.op = "not" => tr[e] = NegatedBy(tr, tr[e.a])
  OBVIOUS
<1>1. tr[e] = TransformStep(e, LAMBDA f : tr[f], ty)
  BY DEF IsTransform
<1>2. CASE e.op = "sym"
  <2>1. ~Compare(e) /\ ~Binary(e) /\ e.op # "not" /\ e.op \notin Ops
    BY <1>2 DEF Compare, Binary, Ops
  <2> QED BY <1>1, <1>2, <2>1, Zenon DEF TransformStep
<1>3. CASE Compare(e)
  <2>1. e.op \notin {"none", "sym"} /\ ~Binary(e) /\ e.op # "not" /\ e.op \notin Ops
    BY <1>3 DEF Compare, Binary, Ops
  <2> QED BY <1>1, <1>3, <2>1, Zenon DEF TransformStep
<1>4. CASE e.op \in Ops
  <2>1. ~Compare(e) /\ Binary(e) /\ e.op \notin {"none", "sym"} /\ e.op # "not"
    BY <1>4 DEF Compare, Binary, Ops
  <2> QED BY <1>1, <1>4, <2>1, Zenon DEF TransformStep
<1>5. CASE e.op = "not"
  <2>1. ~Compare(e) /\ ~Binary(e) /\ e.op \notin {"none", "sym"} /\ e.op \notin Ops
    BY <1>5 DEF Compare, Binary, Ops
  <2> QED BY <1>1, <1>5, <2>1, Zenon DEF TransformStep, NegatedBy
<1> QED BY <1>2, <1>3, <1>4, <1>5, Operand DEF Compare, Ops

\* What it makes of a negation, by what is negated.
LEMMA NegatedCases ==
  ASSUME Trees, NEW tr, NEW f \in Expr
  PROVE  /\ f.op = "not" => NegatedBy(tr, f) = tr[f.a]
         /\ f.op = "eq" => NegatedBy(tr, f) = Neq(f.l, f.r)
         /\ f.op = "neq" => NegatedBy(tr, f) = Eq(f.l, f.r)
         /\ f.op \in Ops => NegatedBy(tr, f) = tr[DeMorgan(f)]
         /\ f = Y => NegatedBy(tr, f) = N
         /\ f = M => NegatedBy(tr, f) = M
         /\ f = N => NegatedBy(tr, f) = Y
         /\ f.op = "sym" /\ f \notin {Y, M, N} => NegatedBy(tr, f) = Not(f)
<1>1. CASE f.op = "not"
  <2>1. f.op \notin {"eq", "neq", "sym"} /\ f.op \notin Ops /\ f # Y /\ f # M /\ f # N /\ ~Binary(f)
    BY <1>1, Consts DEF Ops, Binary
  <2> QED BY <1>1, <2>1, Zenon DEF Negated, NegatedBy
<1>2. CASE f.op = "eq"
  <2>1. f.op \notin {"not", "neq", "sym"} /\ f.op \notin Ops /\ f # Y /\ f # M /\ f # N /\ ~Binary(f)
    BY <1>2, Consts DEF Ops, Binary
  <2> QED BY <1>2, <2>1, Zenon DEF Negated, NegatedBy
<1>3. CASE f.op = "neq"
  <2>1. f.op \notin {"eq", "not", "sym"} /\ f.op \notin Ops /\ f # Y /\ f # M /\ f # N /\ ~Binary(f)
    BY <1>3, Consts DEF Ops, Binary
  <2> QED BY <1>3, <2>1, Zenon DEF Negated, NegatedBy
<1>4. CASE f.op \in Ops
  <2>1. f.op \notin {"eq", "neq", "not", "sym"} /\ Binary(f) /\ f # Y /\ f # M /\ f # N
    BY <1>4, Consts DEF Ops, Binary
  <2> QED BY <1>4, <2>1, Zenon DEF Negated, NegatedBy
<1>5. CASE f.op = "sym"
  <2>1. f.op \notin {"eq", "neq", "not"} /\ ~Binary(f) /\ f.op \notin Ops
    BY <1>5 DEF Ops, Binary
  <2> QED BY <1>5, <2>1, Consts, Zenon DEF Negated, NegatedBy
<1> QED BY <1>1, <1>2, <1>3, <1>4, <1>5, Operand DEF Ops

\* The text of a toggle tells its value, that of a constant itself.
LEMMA TextFacts ==
  ASSUME NEW w, Names(w)
  PROVE  /\ \A c \in Constants : StrOf(c, str[w]) = c
         /\ \A s \in Toggles : /\ s \in Sym /\ s \in Name /\ s \notin Constants
                               /\ StrOf(s, str[w]) = TextFor(TriOf(s, tri[w]))
                               /\ TriOf(s, tri[w]) \in Tri
                               /\ TypeOf(ty, s) = "boolean" => TriOf(s, tri[w]) # mod
<1>1. ASSUME NEW c \in Constants PROVE StrOf(c, str[w]) = c
  <2>1. c \in Name /\ TypeOf(ty, c) = "const"
    BY DEF Names
  <2>2. c \notin DOMAIN str[w]
    BY <2>1 DEF Names
  <2> QED BY <2>2 DEF StrOf
<1>2. ASSUME NEW s \in Toggles
      PROVE  /\ s \in Sym /\ s \in Name /\ s \notin Constants
             /\ StrOf(s, str[w]) = TextFor(TriOf(s, tri[w]))
             /\ TriOf(s, tri[w]) \in Tri
             /\ TypeOf(ty, s) = "boolean" => TriOf(s, tri[w]) # mod
  <2>1. s \in Sym /\ s \in Name /\ s \in DOMAIN tri[w] /\ s \in DOMAIN str[w] /\ str[w][s] = TextFor(tri[w][s])
    BY DEF Names, Toggles
  <2>2. TypeOf(ty, s) # "const"
    BY DEF Toggles
  <2>3. TypeOf(ty, s) = "boolean" => tri[w][s] # mod
    BY DEF Names
  <2> QED BY <2>1, <2>2, <2>3 DEF Names, StrOf, TriOf
<1> QED BY <1>1, <1>2

\* A symbol has nothing to transform, nor has its negation but of a constant.
LEMMA SymNormal ==
  ASSUME NEW w, Trees, Names(w)
  PROVE  /\ \A s \in Sym : Sy(s) \in Normal
         /\ \A s \in Sym : s \notin Constants => Not(Sy(s)) \in Normal
         /\ Y \in Normal /\ N \in Normal
<1>1. ASSUME NEW s \in Sym PROVE Sy(s) \in Normal
  <2>1. Sy(s) \in Expr /\ Sy(s).op = "sym"
    BY SyFields DEF Trees
  <2>2. Local(Sy(s), Normal)
    BY <2>1 DEF Local, Compare, Ops
  <2> QED BY <2>1, <2>2, NormalIsLocal
<1>2. ASSUME NEW s \in Sym, s \notin Constants PROVE Not(Sy(s)) \in Normal
  <2>1. Not(Sy(s)) \in Expr /\ Not(Sy(s)).op = "not" /\ Not(Sy(s)).a = Sy(s) /\ Sy(s).op = "sym"
    BY SyFields, NotFields DEF Trees
  <2>2. Sy(s) \notin {Y, M, N}
    <3>1. Y.sym = "y" /\ M.sym = "m" /\ N.sym = "n" /\ Sy(s).sym = s
      BY SyFields DEF Y, M, N
    <3>2. s # "y" /\ s # "m" /\ s # "n"
      BY <1>2 DEF Constants
    <3> QED BY <3>1, <3>2
  <2>3. Local(Not(Sy(s)), Normal)
    BY <2>1, <2>2 DEF Local, Compare, Ops
  <2> QED BY <2>1, <2>3, NormalIsLocal
<1> QED BY <1>1, <1>2 DEF Names, Y, N

\* Comparing a boolean with y, m or n says that it is set, or not, or nothing.
LEMMA BooleanTestValue ==
  ASSUME NEW w, Trees, Names(w), Values(w), NEW e \in Expr, Compare(e)
  PROVE  BooleanTest(e, ty) \in Normal /\ V[w][BooleanTest(e, ty)] = V[w][e]
<1>0. /\ e.l \in Name /\ e.r \in Name
      /\ e.op \in {"eq", "neq"}
      /\ e.op = "eq" => e = Eq(e.l, e.r)
      /\ e.op = "neq" => e = Neq(e.l, e.r)
  BY Operand DEF Compare
<1>1. CASE BooleanTest(e, ty) = e
  <2>1. Local(e, Normal)
    BY <1>0, <1>1 DEF Local, Ops
  <2> QED BY <1>1, <2>1, NormalIsLocal
<1>2. CASE TypeOf(ty, e.l) = "boolean" /\ e.r \in Constants
  <2> DEFINE s == e.l
             v == TriOf(s, tri[w])
  <2>1. s \in Toggles
    BY <1>0, <1>2 DEF Toggles
  <2>2. /\ s \in Sym /\ s \notin Constants
        /\ StrOf(s, str[w]) = TextFor(v) /\ v \in {no, yes} /\ StrOf(e.r, str[w]) = e.r
    BY <1>2, <2>1, TextFacts DEF Tri, no, yes, mod
  <2>3. /\ V[w][Sy(s)] = v /\ V[w][Not(Sy(s))] = EXPR_NOT(v)
        /\ V[w][Y] = yes /\ V[w][N] = no
        /\ Sy(s) \in Normal /\ Not(Sy(s)) \in Normal /\ Y \in Normal /\ N \in Normal
    <3>1. Sy(s) \in Expr
      BY <2>2 DEF Trees
    <3> QED BY <2>2, <3>1, SyValue, NotValue, ConstValues, SymNormal
  <2>4. e.op = "eq" => V[w][e] = IF TextFor(v) = e.r THEN yes ELSE no
    BY <1>0, <2>2, EqValue
  <2>5. e.op = "neq" => V[w][e] = IF TextFor(v) = e.r THEN no ELSE yes
    BY <1>0, <2>2, NeqValue
  <2>6. /\ EXPR_NOT(no) = yes /\ EXPR_NOT(yes) = no
        /\ TextFor(no) = "n" /\ TextFor(yes) = "y"
    BY DEF EXPR_NOT, TextFor, no, yes, mod
  <2>7. CASE e.r = "m"
    <3>1. BooleanTest(e, ty) = IF e.op = "eq" THEN N ELSE Y
      BY <1>2, <2>7, Zenon DEF BooleanTest
    <3>2. TextFor(v) # e.r
      BY <2>2, <2>6, <2>7
    <3> QED BY <1>0, <2>3, <2>4, <2>5, <3>1, <3>2
  <2>8. CASE e.r = "n"
    <3>1. BooleanTest(e, ty) = IF e.op = "eq" THEN Not(Sy(s)) ELSE Sy(s)
      BY <1>2, <2>8, Zenon DEF BooleanTest
    <3>2. v = no \/ v = yes
      BY <2>2
    <3> QED BY <1>0, <2>3, <2>4, <2>5, <2>6, <2>8, <3>1, <3>2
  <2>9. CASE e.r = "y"
    <3>1. BooleanTest(e, ty) = IF e.op = "eq" THEN Sy(s) ELSE Not(Sy(s))
      BY <1>2, <2>9, Zenon DEF BooleanTest
    <3>2. v = no \/ v = yes
      BY <2>2
    <3> QED BY <1>0, <2>3, <2>4, <2>5, <2>6, <2>9, <3>1, <3>2
  <2> QED BY <1>2, <2>7, <2>8, <2>9 DEF Constants
<1>3. CASE ~(TypeOf(ty, e.l) = "boolean" /\ e.r \in Constants)
  <2>1. TypeOf(ty, e.l) # "boolean" \/ e.r \notin {"y", "m", "n"}
    BY <1>3 DEF Constants
  <2>2. BooleanTest(e, ty) = e
    BY <2>1, Zenon DEF BooleanTest
  <2> QED BY <1>1, <2>2
<1> QED BY <1>2, <1>3

\* A tree in normal form stays as it is.
LEMMA NormalStays ==
  ASSUME Trees, NEW tr, IsTransform(tr)
  PROVE  \A e \in Normal : tr[e] = e
<1> DEFINE S == {e \in Expr : e \in Normal => tr[e] = e}
<1>1. ASSUME NEW e \in Expr, \A f \in Expr : size[f] < size[e] => f \in S PROVE e \in S
  <2> SUFFICES ASSUME e \in Normal PROVE tr[e] = e
    OBVIOUS
  <2>0. Local(e, Normal)
    BY NormalIsLocal
  <2>1. CASE e.op = "sym"
    BY <2>1, TransformCases
  <2>2. CASE Compare(e)
    BY <2>0, <2>2, TransformCases DEF Local
  <2>3. CASE e.op \in Ops
    <3>1. e.a \in Normal /\ e.b \in Normal
      BY <2>0, <2>3 DEF Local
    <3>2. e.a \in Expr /\ e.b \in Expr /\ e = Two(e.op, e.a, e.b)
      BY <2>3, Operand
    <3>3. size[e.a] < size[e] /\ size[e.b] < size[e]
      <4>1. size[e] = size[e.a] + size[e.b] + 1
        BY <2>3, <3>2, SizeOfTwo
      <4>2. size[e.a] \in Nat /\ size[e.b] \in Nat
        BY <3>2 DEF Trees
      <4> QED BY <4>1, <4>2
    <3>4. tr[e.a] = e.a /\ tr[e.b] = e.b
      BY <1>1, <3>1, <3>2, <3>3
    <3>5. tr[e] = Two(e.op, tr[e.a], tr[e.b])
      BY <2>3, TransformCases
    <3> QED BY <3>2, <3>4, <3>5
  <2>4. CASE e.op = "not"
    <3>1. e.a.op = "sym" /\ e.a \notin {Y, M, N}
      BY <2>0, <2>4 DEF Local
    <3>2. e.a \in Expr /\ e = Not(e.a)
      BY <2>4, Operand
    <3>3. tr[e.a] = e.a
      BY <3>1, <3>2, TransformCases
    <3>4. tr[e] = NegatedBy(tr, e.a)
      BY <2>4, <3>3, TransformCases
    <3>5. NegatedBy(tr, e.a) = Not(e.a)
      BY <3>1, <3>2, NegatedCases
    <3> QED BY <3>2, <3>4, <3>5
  <2> QED BY <2>1, <2>2, <2>3, <2>4, Operand DEF Compare, Ops
<1>2. Expr \subseteq S
  <2> HIDE DEF S
  <2> QED BY <1>1, BySize
<1> QED BY <1>2, NormalExpr

\* The negation of a tree in normal form.
LEMMA NegatedNormal ==
  ASSUME NEW w, Trees, Names(w), Values(w), NEW tr, IsTransform(tr)
  PROVE  \A e \in Normal : /\ tr[Not(e)] = NegatedBy(tr, e)
                           /\ tr[Not(e)] \in Normal
                           /\ V[w][tr[Not(e)]] = EXPR_NOT(V[w][e])
<1> DEFINE P(e) == tr[Not(e)] \in Normal /\ V[w][tr[Not(e)]] = EXPR_NOT(V[w][e])
           S == {e \in Expr : e \in Normal => P(e)}
<1>0. ASSUME NEW e \in Normal PROVE e \in Expr /\ tr[Not(e)] = NegatedBy(tr, e)
  <2>1. e \in Expr /\ Not(e) \in Expr /\ Not(e).op = "not" /\ Not(e).a = e
    BY NormalExpr, NotFields DEF Trees
  <2>2. tr[e] = e
    BY NormalStays
  <2>3. tr[Not(e)] = NegatedBy(tr, tr[Not(e).a])
    BY <2>1, TransformCases
  <2> QED BY <2>1, <2>2, <2>3
<1>1. ASSUME NEW e \in Expr, \A f \in Expr : size[f] < size[e] => f \in S PROVE e \in S
  <2> SUFFICES ASSUME e \in Normal PROVE P(e)
    OBVIOUS
  <2>0. Local(e, Normal) /\ tr[Not(e)] = NegatedBy(tr, e) /\ V[w][e] \in Tri
    BY <1>0, NormalIsLocal, InTri
  <2>1. CASE e.op = "eq"
    <3>1. e.l \in Name /\ e.r \in Name /\ e = Eq(e.l, e.r)
      BY <2>1, Operand
    <3>2. tr[Not(e)] = Neq(e.l, e.r)
      BY <2>0, <2>1, NegatedCases
    <3>3. V[w][Neq(e.l, e.r)] = EXPR_NOT(V[w][e])
      BY <3>1, EqValue, NeqValue DEF EXPR_NOT, yes, no
    <3>4. Neq(e.l, e.r) \in Normal
      <4>1. BooleanTest(e, ty) = e
        BY <2>0, <2>1 DEF Local, Compare
      <4>2. TypeOf(ty, e.l) # "boolean" \/ e.r \notin Constants
        <5> SUFFICES ASSUME TypeOf(ty, e.l) = "boolean", e.r \in Constants PROVE FALSE
          OBVIOUS
        <5>1. BooleanTest(e, ty) \in {N, Not(Sy(e.l)), Sy(e.l)}
          BY <2>1, Zenon DEF BooleanTest, Constants
        <5>2. N.op # "eq" /\ Not(Sy(e.l)).op # "eq" /\ Sy(e.l).op # "eq"
          BY Consts, NotFields, SyFields
        <5> QED BY <2>1, <4>1, <5>1, <5>2
      <4> DEFINE n == Neq(e.l, e.r)
      <4>3. n \in Expr /\ n.op = "neq" /\ n.l = e.l /\ n.r = e.r
        BY <3>1, NeqFields DEF Trees
      <4> HIDE DEF n
      <4>4. BooleanTest(n, ty) = n
        BY <4>2, <4>3, Zenon DEF BooleanTest, Constants
      <4>5. Local(n, Normal)
        BY <4>3, <4>4 DEF Local, Ops
      <4>6. n \in Normal
        BY <4>3, <4>5, NormalIsLocal
      <4> QED BY <4>6 DEF n
    <3> QED BY <3>2, <3>3, <3>4
  <2>2. CASE e.op = "neq"
    <3>1. e.l \in Name /\ e.r \in Name /\ e = Neq(e.l, e.r)
      BY <2>2, Operand
    <3>2. tr[Not(e)] = Eq(e.l, e.r)
      BY <2>0, <2>2, NegatedCases
    <3>3. V[w][Eq(e.l, e.r)] = EXPR_NOT(V[w][e])
      BY <3>1, EqValue, NeqValue DEF EXPR_NOT, yes, no
    <3>4. Eq(e.l, e.r) \in Normal
      <4>1. BooleanTest(e, ty) = e
        BY <2>0, <2>2 DEF Local, Compare
      <4>2. TypeOf(ty, e.l) # "boolean" \/ e.r \notin Constants
        <5> SUFFICES ASSUME TypeOf(ty, e.l) = "boolean", e.r \in Constants PROVE FALSE
          OBVIOUS
        <5>1. BooleanTest(e, ty) \in {Y, Not(Sy(e.l)), Sy(e.l)}
          BY <2>2, Zenon DEF BooleanTest, Constants
        <5>2. Y.op # "neq" /\ Not(Sy(e.l)).op # "neq" /\ Sy(e.l).op # "neq"
          BY Consts, NotFields, SyFields
        <5> QED BY <2>2, <4>1, <5>1, <5>2
      <4> DEFINE n == Eq(e.l, e.r)
      <4>3. n \in Expr /\ n.op = "eq" /\ n.l = e.l /\ n.r = e.r
        BY <3>1, EqFields DEF Trees
      <4> HIDE DEF n
      <4>4. BooleanTest(n, ty) = n
        BY <4>2, <4>3, Zenon DEF BooleanTest, Constants
      <4>5. Local(n, Normal)
        BY <4>3, <4>4 DEF Local, Ops
      <4>6. n \in Normal
        BY <4>3, <4>5, NormalIsLocal
      <4> QED BY <4>6 DEF n
    <3> QED BY <3>2, <3>3, <3>4
  <2>3. CASE e.op = "not"
    <3>1. e.a \in Expr /\ e = Not(e.a) /\ e.a.op = "sym"
      BY <2>0, <2>3, Operand DEF Local
    <3>2. tr[Not(e)] = e.a
      BY <2>0, <2>3, <3>1, NegatedCases, TransformCases
    <3>3. e.a \in Normal
      <4>1. e.a.sym \in Sym /\ e.a = Sy(e.a.sym)
        BY <3>1, Operand
      <4> QED BY <4>1, SymNormal
    <3>4. V[w][e.a] = EXPR_NOT(V[w][e])
      BY <3>1, NotValue, NotFacts, InTri
    <3> QED BY <3>2, <3>3, <3>4
  <2>4. CASE e.op \in Ops
    <3> DEFINE d == DeMorgan(e)
    <3>1. /\ e.a \in Expr /\ e.b \in Expr /\ e = Two(e.op, e.a, e.b)
          /\ e.a \in Normal /\ e.b \in Normal
      BY <2>0, <2>4, Operand DEF Local
    <3>2. Dual(e.op) \in Ops
      BY DEF Dual, Ops
    <3>3. /\ d \in Expr /\ d.op = Dual(e.op) /\ d.a = Not(e.a) /\ d.b = Not(e.b)
      <4>1. Not(e.a) \in Expr /\ Not(e.b) \in Expr
        BY <3>1 DEF Trees
      <4> QED BY <3>2, <4>1, SizeOfTwo, TwoFields DEF DeMorgan
    <3>4. tr[Not(e)] = tr[d]
      BY <2>0, <2>4, NegatedCases
    <3> HIDE DEF d
    <3>5. tr[d] = Two(Dual(e.op), tr[Not(e.a)], tr[Not(e.b)])
      BY <3>2, <3>3, TransformCases
    <3>6. P(e.a) /\ P(e.b)
      <4>1. size[e.a] < size[e] /\ size[e.b] < size[e]
        <5>1. size[e] = size[e.a] + size[e.b] + 1
          BY <2>4, <3>1, SizeOfTwo
        <5>2. size[e.a] \in Nat /\ size[e.b] \in Nat
          BY <3>1 DEF Trees
        <5> QED BY <5>1, <5>2
      <4> QED BY <1>1, <3>1, <4>1
    <3> DEFINE t == Two(Dual(e.op), tr[Not(e.a)], tr[Not(e.b)])
    <3>7. tr[Not(e.a)] \in Expr /\ tr[Not(e.b)] \in Expr
      BY <3>6, NormalExpr
    <3>8. t \in Expr /\ t.op \in Ops /\ t.a \in Normal /\ t.b \in Normal
      BY <3>2, <3>6, <3>7, SizeOfTwo, TwoFields
    <3>9. V[w][t] = EXPR_NOT(V[w][e])
      <4>1. V[w][t] = Val(Dual(e.op), EXPR_NOT(V[w][e.a]), EXPR_NOT(V[w][e.b]))
        BY <3>2, <3>6, <3>7, TwoValue
      <4>2. V[w][e] = Val(e.op, V[w][e.a], V[w][e.b]) /\ V[w][e.a] \in Tri /\ V[w][e.b] \in Tri
        BY <2>4, <3>1, TwoValue, InTri
      <4> QED BY <2>4, <4>1, <4>2, ValNot
    <3>10. t \in Normal
      <4> HIDE DEF t
      <4>1. Local(t, Normal)
        BY <3>8 DEF Local, Compare, Ops
      <4> QED BY <3>8, <4>1, NormalIsLocal
    <3> QED BY <3>4, <3>5, <3>9, <3>10
  <2>5. CASE e.op = "sym"
    <3>1. e.sym \in Sym /\ e = Sy(e.sym)
      BY <2>5, Operand
    <3>2. CASE e.sym = "y"
      <4>1. e = Y
        BY <3>1, <3>2 DEF Y
      <4>2. tr[Not(e)] = N
        BY <2>0, <4>1, NegatedCases
      <4> QED BY <4>1, <4>2, ConstValues, SymNormal DEF EXPR_NOT, yes, no
    <3>3. CASE e.sym = "n"
      <4>1. e = N
        BY <3>1, <3>3 DEF N
      <4>2. tr[Not(e)] = Y
        BY <2>0, <4>1, NegatedCases
      <4> QED BY <4>1, <4>2, ConstValues, SymNormal DEF EXPR_NOT, yes, no
    <3>4. CASE e.sym = "m"
      <4>1. e = M
        BY <3>1, <3>4 DEF M
      <4>2. tr[Not(e)] = M
        BY <2>0, <4>1, NegatedCases
      <4>3. TriOf("m", tri[w]) = mod
        BY DEF Names, Constants, TriOf, ConstTri
      <4>4. V[w][e] = mod
        BY <3>1, <3>4, <4>3, SyValue
      <4> QED BY <4>1, <4>2, <4>4 DEF EXPR_NOT, mod
    <3>5. CASE e.sym \notin Constants
      <4>1. Not(Sy(e.sym)) \in Normal
        BY <3>1, <3>5, SymNormal
      <4>2. e \notin {Y, M, N}
        <5>1. Y.sym = "y" /\ M.sym = "m" /\ N.sym = "n"
          BY SyFields DEF Y, M, N
        <5> QED BY <3>5, <5>1 DEF Constants
      <4>3. tr[Not(e)] = Not(e)
        BY <2>0, <2>5, <4>2, NegatedCases
      <4> QED BY <3>1, <4>1, <4>3, NotValue
    <3> QED BY <3>2, <3>3, <3>4, <3>5 DEF Constants
  <2> QED BY <2>1, <2>2, <2>3, <2>4, <2>5, Operand DEF Ops
<1>2. Expr \subseteq S
  <2> HIDE DEF S
  <2> QED BY <1>1, BySize
<1> QED BY <1>0, <1>2, NormalExpr

\* expr_transform keeps the value of every expression, for every value of its
\* symbols, and what it leaves has negations over symbols only, no boolean
\* compared with a constant, and nothing left to transform.
THEOREM TransformSound ==
  ASSUME NEW w, Trees, Names(w), Values(w), NEW tr, IsTransform(tr)
  PROVE  \A e \in Expr : tr[e] \in Normal /\ V[w][tr[e]] = V[w][e] /\ tr[tr[e]] = tr[e]
<1> DEFINE S == {e \in Expr : tr[e] \in Normal /\ V[w][tr[e]] = V[w][e]}
<1>1. ASSUME NEW s \in Sym PROVE Sy(s) \in S
  <2>1. Sy(s) \in Expr /\ Sy(s).op = "sym"
    BY SyFields DEF Trees
  <2>2. tr[Sy(s)] = Sy(s)
    BY <2>1, TransformCases
  <2> QED BY <2>1, <2>2, SymNormal
<1>2. ASSUME NEW e \in Expr, Compare(e) PROVE e \in S
  BY <1>2, BooleanTestValue, TransformCases
<1>3. ASSUME NEW l \in Name, NEW r \in Name PROVE Eq(l, r) \in S /\ Neq(l, r) \in S
  <2>1. /\ Eq(l, r) \in Expr /\ Neq(l, r) \in Expr
        /\ Compare(Eq(l, r)) /\ Compare(Neq(l, r))
    BY EqFields, NeqFields DEF Trees, Compare
  <2> QED BY <1>2, <2>1
<1>4. ASSUME NEW e \in Expr \cap S PROVE Not(e) \in S
  <2> DEFINE f == tr[e]
  <2>1. f \in Normal /\ V[w][f] = V[w][e]
    OBVIOUS
  <2>2. Not(e) \in Expr /\ Not(e).op = "not" /\ Not(e).a = e
    BY NotFields DEF Trees
  <2>3. tr[Not(e)] = NegatedBy(tr, f)
    BY <2>2, TransformCases
  <2> HIDE DEF f
  <2>4. tr[Not(e)] = tr[Not(f)]
    BY <2>1, <2>3, NegatedNormal
  <2>5. tr[Not(f)] \in Normal /\ V[w][tr[Not(f)]] = EXPR_NOT(V[w][e])
    BY <2>1, NegatedNormal
  <2>6. V[w][Not(e)] = EXPR_NOT(V[w][e])
    BY NotValue
  <2> QED BY <2>2, <2>4, <2>5, <2>6
<1>5. ASSUME NEW op \in Ops, NEW e \in Expr \cap S, NEW f \in Expr \cap S PROVE Two(op, e, f) \in S
  <2> DEFINE t == Two(op, tr[e], tr[f])
  <2>1. e \in Expr /\ f \in Expr /\ tr[e] \in Normal /\ tr[f] \in Normal
        /\ V[w][tr[e]] = V[w][e] /\ V[w][tr[f]] = V[w][f]
    OBVIOUS
  <2>2. tr[e] \in Expr /\ tr[f] \in Expr
    BY <2>1, NormalExpr
  <2>3. Two(op, e, f) \in Expr /\ Two(op, e, f).op \in Ops
    BY <2>1, SizeOfTwo, TwoFields
  <2>4. tr[Two(op, e, f)] = t
    <3> DEFINE h == Two(op, e, f)
    <3>1. h \in Expr /\ h.op = op /\ h.a = e /\ h.b = f
      BY <2>3, TwoFields
    <3> HIDE DEF h
    <3>2. tr[h] = t
      BY <3>1, TransformCases
    <3> QED BY <3>2 DEF h
  <2>5. t \in Expr /\ t.op \in Ops /\ t.a = tr[e] /\ t.b = tr[f]
    BY <2>2, SizeOfTwo, TwoFields
  <2>6. V[w][t] = V[w][Two(op, e, f)]
    BY <2>1, <2>2, TwoValue
  <2>7. t \in Normal
    <3> HIDE DEF t
    <3>1. Local(t, Normal)
      BY <2>1, <2>5 DEF Local, Compare, Ops
    <3> QED BY <2>5, <3>1, NormalIsLocal
  <2> QED BY <2>3, <2>4, <2>6, <2>7
<1> HIDE DEF S
<1>6. Expr \subseteq S
  BY <1>1, <1>3, <1>4, <1>5, ByTree
<1> QED BY <1>6, NormalStays DEF S

\* tb is what expr_trans_bool makes of each tree.
IsTransBool(tb) == \A e \in Expr : tb[e] = TransBoolStep(e, LAMBDA f : tb[f], ty)

\* What expr_trans_bool makes of a tree, by its operator.
LEMMA TransBoolCases ==
  ASSUME Trees, NEW tb, IsTransBool(tb), NEW e \in Expr
  PROVE  /\ e.op \in Ops => tb[e] = Two(e.op, tb[e.a], tb[e.b])
         /\ e.op = "not" => tb[e] = Not(tb[e.a])
         /\ e.op \in {"sym", "eq", "neq"} => tb[e] = IF IsNotNo(e, ty) THEN Sy(e.l) ELSE e
<1>0. tb[e] = TransBoolStep(e, LAMBDA f : tb[f], ty)
  BY DEF IsTransBool
<1>1. CASE e.op \in Ops
  <2>1. Binary(e) /\ e.op # "not" /\ e.op \notin {"sym", "eq", "neq"} /\ ~IsNotNo(e, ty)
    BY <1>1 DEF Binary, Ops, IsNotNo
  <2> QED BY <1>0, <2>1, Zenon DEF TransBoolStep
<1>2. CASE e.op = "not"
  <2>1. ~Binary(e) /\ e.op \notin Ops /\ e.op \notin {"sym", "eq", "neq"} /\ ~IsNotNo(e, ty)
    BY <1>2 DEF Binary, Ops, IsNotNo
  <2> QED BY <1>0, <1>2, <2>1, Zenon DEF TransBoolStep
<1>3. CASE e.op \in {"sym", "eq", "neq"}
  <2>1. ~Binary(e) /\ e.op \notin Ops /\ e.op # "not"
    BY <1>3 DEF Binary, Ops
  <2> QED BY <1>0, <2>1, Zenon DEF TransBoolStep
<1> QED BY <1>1, <1>2, <1>3, Operand DEF Ops

\* What a symbol, a comparison becomes.
LEMMA TransBoolLeaf ==
  ASSUME NEW w, Trees, Names(w), Values(w), NEW tb, IsTransBool(tb), NEW e \in Expr, e.op \in {"sym", "eq", "neq"}
  PROVE  /\ tb[e] \in Expr
         /\ V[w][tb[e]] # no <=> V[w][e] # no
         /\ V[w][tb[e]] # mod => V[w][tb[e]] = V[w][e]
<1>1. CASE ~IsNotNo(e, ty)
  <2>1. tb[e] = e
    BY <1>1, TransBoolCases
  <2> QED BY <2>1
<1>2. CASE IsNotNo(e, ty)
  <2> DEFINE s == e.l
             v == TriOf(s, tri[w])
  <2>1. tb[e] = Sy(s)
    BY <1>2, TransBoolCases
  <2>2. s \in Name /\ "n" \in Name /\ e = Neq(s, "n") /\ s \in Toggles
    BY <1>2, Operand DEF IsNotNo, Toggles, Names, Constants
  <2>3. /\ s \in Sym /\ StrOf(s, str[w]) = TextFor(v) /\ v \in Tri /\ StrOf("n", str[w]) = "n"
    BY <2>2, TextFacts DEF Constants
  <2>4. V[w][e] = IF TextFor(v) = "n" THEN no ELSE yes
    BY <2>2, <2>3, NeqValue
  <2>5. V[w][Sy(s)] = v /\ Sy(s) \in Expr
    BY <2>3, SyValue DEF Trees
  <2>6. TextFor(v) = "n" <=> v = no
    BY <2>3 DEF TextFor, Tri, no, mod, yes
  <2> HIDE DEF v, s
  <2> QED BY <2>1, <2>3, <2>4, <2>5, <2>6 DEF Tri, no, mod, yes
<1> QED BY <1>1, <1>2

\* In a tree that expr_transform has left, a comparison FOO!=n may become FOO
\* where only "not n" matters (expr_trans_bool), whatever is m.
THEOREM TransBoolSound ==
  ASSUME NEW w, Trees, Names(w), Values(w), NEW tb, IsTransBool(tb)
  PROVE  \A e \in Normal : tb[e] \in Expr /\ (V[w][tb[e]] # no <=> V[w][e] # no)
<1> DEFINE P(e) == tb[e] \in Expr /\ (V[w][tb[e]] # no <=> V[w][e] # no)
           S == {e \in Expr : e \in Normal => P(e)}
<1>1. ASSUME NEW e \in Expr, \A f \in Expr : size[f] < size[e] => f \in S PROVE e \in S
  <2> SUFFICES ASSUME e \in Normal PROVE P(e)
    OBVIOUS
  <2>0. Local(e, Normal)
    BY NormalIsLocal
  <2>1. CASE e.op \in {"sym", "eq", "neq"}
    BY <2>1, TransBoolLeaf
  <2>2. CASE e.op \in Ops
    <3>1. /\ e.a \in Expr /\ e.b \in Expr /\ e = Two(e.op, e.a, e.b)
          /\ e.a \in Normal /\ e.b \in Normal
      BY <2>0, <2>2, Operand DEF Local
    <3>2. size[e.a] < size[e] /\ size[e.b] < size[e]
      <4>1. size[e] = size[e.a] + size[e.b] + 1
        BY <2>2, <3>1, SizeOfTwo
      <4>2. size[e.a] \in Nat /\ size[e.b] \in Nat
        BY <3>1 DEF Trees
      <4> QED BY <4>1, <4>2
    <3>3. P(e.a) /\ P(e.b)
      BY <1>1, <3>1, <3>2
    <3>4. tb[e] = Two(e.op, tb[e.a], tb[e.b])
      BY <2>2, TransBoolCases
    <3>5. tb[e] \in Expr
      BY <2>2, <3>3, <3>4, SizeOfTwo
    <3>6. /\ V[w][tb[e]] = Val(e.op, V[w][tb[e.a]], V[w][tb[e.b]])
          /\ V[w][e] = Val(e.op, V[w][e.a], V[w][e.b])
      BY <2>2, <3>1, <3>3, <3>4, TwoValue
    <3>7. \A u, v \in Tri : /\ Val("and", u, v) # no <=> u # no /\ v # no
                            /\ Val("or", u, v) # no <=> u # no \/ v # no
      BY DEF Val, EXPR_AND, EXPR_OR, Tri, no
    <3>8. /\ V[w][tb[e.a]] \in Tri /\ V[w][tb[e.b]] \in Tri /\ V[w][e.a] \in Tri /\ V[w][e.b] \in Tri
      BY <3>1, <3>3, InTri
    <3> QED BY <2>2, <3>3, <3>5, <3>6, <3>7, <3>8 DEF Ops
  <2>3. CASE e.op = "not"
    <3>1. e.a \in Expr /\ e = Not(e.a) /\ e.a.op = "sym"
      BY <2>0, <2>3, Operand DEF Local
    <3>2. tb[e.a] = e.a
      BY <3>1, TransBoolCases DEF IsNotNo
    <3>3. tb[e] = e
      BY <2>3, <3>1, <3>2, TransBoolCases
    <3> QED BY <3>3
  <2> QED BY <2>1, <2>2, <2>3, Operand DEF Ops
<1>2. Expr \subseteq S
  <2> HIDE DEF S
  <2> QED BY <1>1, BySize
<1> QED BY <1>2, NormalExpr

\* Where no symbol is m (Buildroot has no MODULES), no expression is.
TwoValued(w) == \A s \in Sym : TriOf(s, tri[w]) # mod

\* Then no value is m.
LEMMA NeverM ==
  ASSUME NEW w, Trees, Names(w), Values(w), TwoValued(w)
  PROVE  \A e \in Expr : V[w][e] \in {no, yes}
<1> DEFINE S == {e \in Expr : V[w][e] \in {no, yes}}
<1>1. ASSUME NEW s \in Sym PROVE Sy(s) \in S
  <2>1. Sy(s) \in Expr /\ V[w][Sy(s)] = TriOf(s, tri[w])
    BY SyValue DEF Trees
  <2>2. TriOf(s, tri[w]) \in Tri /\ TriOf(s, tri[w]) # mod
    BY DEF Names, TwoValued
  <2> QED BY <2>1, <2>2 DEF Tri, no, mod, yes
<1>2. ASSUME NEW l \in Name, NEW r \in Name PROVE Eq(l, r) \in S /\ Neq(l, r) \in S
  <2>1. Eq(l, r) \in Expr /\ Neq(l, r) \in Expr
    BY DEF Trees
  <2>2. V[w][Eq(l, r)] \in {no, yes} /\ V[w][Neq(l, r)] \in {no, yes}
    BY EqValue, NeqValue
  <2> QED BY <2>1, <2>2
<1>3. ASSUME NEW e \in Expr \cap S PROVE Not(e) \in S
  <2>1. e \in Expr /\ V[w][e] \in {no, yes} /\ Not(e) \in Expr
    BY DEF Trees
  <2>2. V[w][Not(e)] = EXPR_NOT(V[w][e])
    BY <2>1, NotValue
  <2>3. EXPR_NOT(no) = yes /\ EXPR_NOT(yes) = no
    BY DEF EXPR_NOT, no, yes
  <2> QED BY <2>1, <2>2, <2>3
<1>4. ASSUME NEW op \in Ops, NEW e \in Expr \cap S, NEW f \in Expr \cap S PROVE Two(op, e, f) \in S
  <2>1. e \in Expr /\ f \in Expr /\ V[w][e] \in Tri /\ V[w][f] \in Tri
    BY DEF Tri, no, yes
  <2>2. V[w][Two(op, e, f)] \in {V[w][e], V[w][f]}
    BY <2>1, TwoValue, ValFacts
  <2> QED BY <2>1, <2>2, SizeOfTwo
<1> HIDE DEF S
<1>5. Expr \subseteq S
  BY <1>1, <1>2, <1>3, <1>4, ByTree
<1> QED BY <1>5 DEF S

-----------------------------------------------------------------------------
(* The test whether an entry is visible.                                   *)

\* What "e equals k" and "e differs from k" are when e has the value v.
Says(o, k, v) == IF o = "eq" THEN (IF v = ConstTri(k) THEN yes ELSE no)
                 ELSE IF v = ConstTri(k) THEN no ELSE yes
\* cmp is what expr_trans_compare makes of each tree for = and for != with k.
IsCompare(cmp, k) ==
  \A o \in {"eq", "neq"} : \A e \in Expr :
    cmp[o][e] = TransCompareStep(e, o, k, LAMBDA f, p : cmp[p][f])
\* A symbol in an expression is y, n, a boolean or a tristate.
Toggled == Sym \subseteq Toggles \cup {"y", "n"}
\* The operator that equality with k makes of op.
Under(op, k) == IF k = "y" THEN op ELSE Dual(op)
\* A comparison with the sign turned, as a tree and by its sign.
Flip(o, f) == IF o = "neq" THEN Not(f) ELSE f
Other(o) == IF o = "eq" THEN "neq" ELSE "eq"

\* What expr_trans_compare makes of a tree, by its operator.
LEMMA CompareCases ==
  ASSUME Trees, NEW k \in {"y", "n"}, NEW cmp, IsCompare(cmp, k), NEW o \in {"eq", "neq"}, NEW e \in Expr
  PROVE  /\ e.op \in Ops => cmp[o][e] = Flip(o, Two(Under(e.op, k), cmp["eq"][e.a], cmp["eq"][e.b]))
         /\ e.op = "not" => cmp[o][e] = cmp[Other(o)][e.a]
         /\ e.op \in {"eq", "neq"} /\ k = "y" => cmp[o][e] = Flip(o, e)
         /\ e.op \in {"eq", "neq"} /\ k = "n" => cmp[o][e] = Flip(Other(o), e)
         /\ e.op = "sym" => cmp[o][e] = IF o = "eq" THEN Eq(e.sym, k) ELSE Neq(e.sym, k)
<1>0. cmp[o][e] = TransCompareStep(e, o, k, LAMBDA f, p : cmp[p][f]) /\ e # NoExpr
  <2>1. NoExpr.op = "none"
    BY DEF NoExpr
  <2>2. e # NoExpr
    BY <2>1, Operand
  <2>3. cmp[o][e] = TransCompareStep(e, o, k, LAMBDA f, p : cmp[p][f])
    BY DEF IsCompare
  <2> QED BY <2>2, <2>3
<1>1. CASE e.op \in Ops
  <2>1. Binary(e) /\ e.op \notin {"not", "sym", "eq", "neq"}
    BY <1>1 DEF Binary, Ops
  <2>2. CASE k = "y"
    <3>1. cmp[o][e] = Flip(o, Two(e.op, cmp["eq"][e.a], cmp["eq"][e.b]))
      BY <1>0, <2>1, <2>2, Zenon DEF TransCompareStep, Flip, Compare
    <3> QED BY <1>1, <2>1, <2>2, <3>1 DEF Under
  <2>3. CASE k = "n"
    <3>1. cmp[o][e] = Flip(o, Two(Dual(e.op), cmp["eq"][e.a], cmp["eq"][e.b]))
      BY <1>0, <2>1, <2>3, Zenon DEF TransCompareStep, Flip, Compare
    <3> QED BY <1>1, <2>1, <2>3, <3>1 DEF Under
  <2> QED BY <2>2, <2>3
<1>2. CASE e.op = "not"
  <2>1. ~Binary(e) /\ ~Compare(e) /\ e.op \notin Ops
    BY <1>2 DEF Binary, Ops, Compare
  <2> QED BY <1>0, <1>2, <2>1, Zenon DEF TransCompareStep, Other
<1>3. CASE e.op \in {"eq", "neq"}
  <2>1. ~Binary(e) /\ Compare(e) /\ e.op # "not" /\ e.op \notin Ops /\ e.op # "sym"
    BY <1>3 DEF Binary, Ops, Compare
  <2>2. CASE k = "y"
    <3>1. cmp[o][e] = Flip(o, e)
      BY <1>0, <2>1, <2>2, Zenon DEF TransCompareStep, Flip
    <3> QED BY <2>1, <2>2, <3>1
  <2>3. CASE k = "n"
    <3>1. cmp[o][e] = IF o = "eq" THEN Not(e) ELSE e
      BY <1>0, <2>1, <2>3, Zenon DEF TransCompareStep
    <3> QED BY <2>1, <2>3, <3>1 DEF Flip, Other
  <2> QED BY <2>2, <2>3
<1>4. CASE e.op = "sym"
  <2>1. ~Binary(e) /\ ~Compare(e) /\ e.op # "not" /\ e.op \notin Ops
    BY <1>4 DEF Binary, Ops, Compare
  <2> QED BY <1>0, <1>4, <2>1, Zenon DEF TransCompareStep
<1> QED BY <1>1, <1>2, <1>3, <1>4, Operand DEF Ops

\* Where no symbol is m, expr_trans_compare makes of an expression the test
\* whether it equals y or n, or differs from it.
THEOREM TransCompareSound ==
  ASSUME NEW w, Trees, Names(w), Values(w), TwoValued(w), Toggled,
         NEW k \in {"y", "n"}, NEW cmp, IsCompare(cmp, k)
  PROVE  \A o \in {"eq", "neq"} : \A e \in Expr :
           cmp[o][e] \in Expr /\ V[w][cmp[o][e]] = Says(o, k, V[w][e])
<1> DEFINE P(o, e) == cmp[o][e] \in Expr /\ V[w][cmp[o][e]] = Says(o, k, V[w][e])
           S == {e \in Expr : P("eq", e) /\ P("neq", e)}
<1>0. /\ EXPR_NOT(no) = yes /\ EXPR_NOT(yes) = no /\ no # yes
      /\ k = "y" => ConstTri(k) = yes
      /\ k = "n" => ConstTri(k) = no
  BY DEF EXPR_NOT, no, yes, ConstTri
<1>1. ASSUME NEW o \in {"eq", "neq"}, NEW f \in Expr, V[w][f] \in {no, yes}
      PROVE  /\ Flip(o, f) \in Expr
             /\ V[w][Flip(o, f)] = IF o = "eq" THEN V[w][f] ELSE EXPR_NOT(V[w][f])
  BY NotValue DEF Flip, Trees
<1>2. ASSUME NEW o \in {"eq", "neq"}, NEW e \in Expr, e.op \in {"eq", "neq"} PROVE P(o, e)
  <2>1. V[w][e] \in {no, yes}
    BY NeverM
  <2>2. Other(o) \in {"eq", "neq"} /\ (o = "eq" <=> Other(o) # "eq")
    BY DEF Other
  <2>3. CASE k = "y"
    <3>1. cmp[o][e] = Flip(o, e)
      BY <1>2, <2>3, CompareCases
    <3> QED BY <1>0, <1>1, <2>1, <2>3, <3>1 DEF Says
  <2>4. CASE k = "n"
    <3>1. cmp[o][e] = Flip(Other(o), e)
      BY <1>2, <2>4, CompareCases
    <3> QED BY <1>0, <1>1, <2>1, <2>2, <2>4, <3>1 DEF Says
  <2> QED BY <2>3, <2>4
<1>3. ASSUME NEW o \in {"eq", "neq"}, NEW s \in Sym PROVE P(o, Sy(s))
  <2>1. Sy(s) \in Expr /\ Sy(s).op = "sym" /\ Sy(s).sym = s /\ s \in Name /\ k \in Name
    BY SyFields DEF Trees, Names, Constants
  <2>2. cmp[o][Sy(s)] = IF o = "eq" THEN Eq(s, k) ELSE Neq(s, k)
    BY <2>1, CompareCases
  <2>3. StrOf(k, str[w]) = k
    BY TextFacts DEF Constants
  <2>4. StrOf(s, str[w]) = k <=> TriOf(s, tri[w]) = ConstTri(k)
    <3>1. CASE s \in Toggles
      <4>1. StrOf(s, str[w]) = TextFor(TriOf(s, tri[w])) /\ TriOf(s, tri[w]) \in Tri
        BY <3>1, TextFacts
      <4>2. \A v \in Tri : TextFor(v) = k <=> v = ConstTri(k)
        BY <1>0 DEF TextFor, Tri, no, mod, yes
      <4> QED BY <4>1, <4>2
    <3>2. CASE s \in {"y", "n"}
      <4>1. StrOf(s, str[w]) = s
        BY <3>2, TextFacts DEF Constants
      <4>2. TriOf(s, tri[w]) = ConstTri(s)
        BY <3>2 DEF TriOf, Names, Constants
      <4>3. ConstTri("y") = yes /\ ConstTri("n") = no
        BY DEF ConstTri
      <4> QED BY <1>0, <3>2, <4>1, <4>2, <4>3
    <3> QED BY <3>1, <3>2 DEF Toggled
  <2>5. V[w][Sy(s)] = TriOf(s, tri[w])
    BY SyValue
  <2>6. /\ Eq(s, k) \in Expr /\ Neq(s, k) \in Expr
        /\ V[w][Eq(s, k)] = IF StrOf(s, str[w]) = k THEN yes ELSE no
        /\ V[w][Neq(s, k)] = IF StrOf(s, str[w]) = k THEN no ELSE yes
    <3>1. Eq(s, k) \in Expr /\ Neq(s, k) \in Expr
      BY <2>1 DEF Trees
    <3>2. V[w][Eq(s, k)] = IF StrOf(s, str[w]) = k THEN yes ELSE no
      BY <2>1, <2>3, EqValue
    <3>3. V[w][Neq(s, k)] = IF StrOf(s, str[w]) = k THEN no ELSE yes
      BY <2>1, <2>3, NeqValue
    <3> QED BY <3>1, <3>2, <3>3
  <2> QED BY <2>2, <2>4, <2>5, <2>6 DEF Says
<1>4. ASSUME NEW e \in Expr \cap S PROVE Not(e) \in S
  <2>1. /\ Not(e) \in Expr /\ Not(e).op = "not" /\ Not(e).a = e
        /\ V[w][Not(e)] = EXPR_NOT(V[w][e]) /\ V[w][e] \in {no, yes}
    BY NotFields, NotValue, NeverM DEF Trees
  <2>2. cmp["eq"][Not(e)] = cmp["neq"][e] /\ cmp["neq"][Not(e)] = cmp["eq"][e]
    BY <2>1, CompareCases DEF Other
  <2>3. P("eq", e) /\ P("neq", e)
    OBVIOUS
  <2>4. P("eq", Not(e)) /\ P("neq", Not(e))
    BY <1>0, <2>1, <2>2, <2>3 DEF Says
  <2> QED BY <2>1, <2>4
<1>5. ASSUME NEW op \in Ops, NEW e \in Expr \cap S, NEW f \in Expr \cap S PROVE Two(op, e, f) \in S
  <2> DEFINE b == Two(op, e, f)
             t == Two(Under(op, k), cmp["eq"][e], cmp["eq"][f])
  <2>1. e \in Expr /\ f \in Expr /\ P("eq", e) /\ P("eq", f) /\ V[w][e] \in {no, yes} /\ V[w][f] \in {no, yes}
    BY NeverM
  <2>2. b \in Expr /\ b.op = op /\ b.a = e /\ b.b = f /\ V[w][b] = Val(op, V[w][e], V[w][f])
    BY <2>1, SizeOfTwo, TwoFields, TwoValue
  <2>3. Under(op, k) \in Ops
    BY DEF Under, Dual, Ops
  <2>4. t \in Expr /\ V[w][t] = Val(Under(op, k), V[w][cmp["eq"][e]], V[w][cmp["eq"][f]])
    <3>1. cmp["eq"][e] \in Expr /\ cmp["eq"][f] \in Expr
      BY <2>1
    <3>2. t \in Expr
      BY <2>3, <3>1, SizeOfTwo
    <3>3. V[w][t] = Val(Under(op, k), V[w][cmp["eq"][e]], V[w][cmp["eq"][f]])
      BY <2>3, <3>1, TwoValue
    <3> QED BY <3>2, <3>3
  <2>5. V[w][t] = Says("eq", k, V[w][b])
    <3>1. \A v, x \in {no, yes} :
            Val(Under(op, k), Says("eq", k, v), Says("eq", k, x)) = Says("eq", k, Val(op, v, x))
      BY <1>0 DEF Val, Under, Dual, Ops, Says, EXPR_AND, EXPR_OR, no, yes
    <3> HIDE DEF t, b
    <3> QED BY <2>1, <2>2, <2>4, <3>1
  <2> HIDE DEF t, b
  <2>6. V[w][t] \in {no, yes}
    BY <2>4, NeverM
  <2>7. ASSUME NEW o \in {"eq", "neq"} PROVE P(o, b)
    <3>1. cmp[o][b] = Flip(o, t)
      BY <2>2, CompareCases DEF t
    <3>2. /\ Flip(o, t) \in Expr
          /\ V[w][Flip(o, t)] = IF o = "eq" THEN V[w][t] ELSE EXPR_NOT(V[w][t])
      BY <1>1, <2>4, <2>6
    <3>3. V[w][Flip(o, t)] = Says(o, k, V[w][b])
      BY <1>0, <2>5, <2>6, <3>2 DEF Says
    <3> QED BY <3>1, <3>2, <3>3
  <2>8. b \in S
    BY <2>2, <2>7
  <2> QED BY <2>8 DEF b
<1>6. ASSUME NEW s \in Sym PROVE Sy(s) \in S
  BY <1>3 DEF Trees
<1>7. ASSUME NEW l \in Name, NEW r \in Name PROVE Eq(l, r) \in S /\ Neq(l, r) \in S
  <2>1. Eq(l, r) \in Expr /\ Neq(l, r) \in Expr /\ Eq(l, r).op = "eq" /\ Neq(l, r).op = "neq"
    BY EqFields, NeqFields DEF Trees
  <2> QED BY <1>2, <2>1
<1> HIDE DEF S
<1>8. Expr \subseteq S
  BY <1>4, <1>5, <1>6, <1>7, ByTree
<1> QED BY <1>8 DEF S

-----------------------------------------------------------------------------
(* Joining two operands into one.                                          *)

\* One of e and f each, in either order: && and || do not mind which.
LEMMA OneEachValue ==
  ASSUME NEW w, Trees, Names(w), Values(w), NEW op \in Ops, NEW e \in Expr, NEW f \in Expr, NEW g, NEW h,
         OneEach(e, f, g, h)
  PROVE  g \in Expr /\ h \in Expr /\ Val(op, V[w][e], V[w][f]) = Val(op, V[w][g], V[w][h])
<1>1. (e = g /\ f = h) \/ (e = h /\ f = g)
  BY DEF OneEach
<1>2. V[w][e] \in Tri /\ V[w][f] \in Tri
  BY InTri
<1>3. Val(op, V[w][e], V[w][f]) = Val(op, V[w][f], V[w][e])
  BY <1>2, ValFacts
<1> QED BY <1>1, <1>3

\* A comparison compares names, a symbol is a symbol.
LEMMA SymInExpr ==
  ASSUME Trees, NEW s
  PROVE  /\ Sy(s) \in Expr => s \in Sym
         /\ \A r : Eq(s, r) \in Expr => s \in Name /\ r \in Name
         /\ \A r : Neq(s, r) \in Expr => s \in Name /\ r \in Name
<1>1. Sy(s) \in Expr => s \in Sym
  BY SyFields, Operand
<1>2. ASSUME NEW r, Eq(s, r) \in Expr PROVE s \in Name /\ r \in Name
  BY <1>2, EqFields, Operand
<1>3. ASSUME NEW r, Neq(s, r) \in Expr PROVE s \in Name /\ r \in Name
  BY <1>3, NeqFields, Operand
<1> QED BY <1>1, <1>2, <1>3

\* What a toggle and its comparisons with constants say of its value.
LEMMA ToggleValue ==
  ASSUME NEW w, Trees, Names(w), Values(w), NEW s \in Toggles
  PROVE  /\ s \in Sym /\ s \in Name /\ TriOf(s, tri[w]) \in Tri
         /\ V[w][Sy(s)] = TriOf(s, tri[w])
         /\ \A c \in Constants :
              /\ c \in Name
              /\ V[w][Eq(s, c)] = IF TextFor(TriOf(s, tri[w])) = c THEN yes ELSE no
              /\ V[w][Neq(s, c)] = IF TextFor(TriOf(s, tri[w])) = c THEN no ELSE yes
<1>1. s \in Sym /\ s \in Name /\ StrOf(s, str[w]) = TextFor(TriOf(s, tri[w])) /\ TriOf(s, tri[w]) \in Tri
  BY TextFacts
<1>2. V[w][Sy(s)] = TriOf(s, tri[w])
  BY <1>1, SyValue
<1>3. ASSUME NEW c \in Constants
      PROVE  /\ c \in Name
             /\ V[w][Eq(s, c)] = IF TextFor(TriOf(s, tri[w])) = c THEN yes ELSE no
             /\ V[w][Neq(s, c)] = IF TextFor(TriOf(s, tri[w])) = c THEN no ELSE yes
  <2>1. c \in Name /\ StrOf(c, str[w]) = c
    BY TextFacts DEF Names
  <2> QED BY <1>1, <2>1, EqValue, NeqValue
<1> QED BY <1>1, <1>2, <1>3

\* The three values have three texts.
LEMMA TextTells ==
  /\ \A v \in Tri : TextFor(v) \in Constants
  /\ TextFor(no) = "n" /\ TextFor(mod) = "m" /\ TextFor(yes) = "y"
  /\ Tri = {no, mod, yes} /\ no # mod /\ no # yes /\ mod # yes
BY DEF TextFor, Tri, no, mod, yes, Constants

\* Two of the constants leave one.
LEMMA ThirdOne ==
  ASSUME NEW x \in Constants, NEW y \in Constants, x # y
  PROVE  Third(x, y) \in Constants \ {x, y} /\ Constants = {x, y, Third(x, y)}
<1>1. Constants \ {x, y} # {}
  BY DEF Constants
<1>2. Third(x, y) \in Constants \ {x, y}
  BY <1>1 DEF Third, Constants
<1> QED BY <1>2 DEF Constants

\* What y and n do to && and ||, and equal operands.
LEMMA ValExtremes ==
  /\ \A v \in Tri : /\ Val("and", yes, v) = v /\ Val("and", v, yes) = v
                    /\ Val("and", no, v) = no /\ Val("and", v, no) = no
                    /\ Val("or", yes, v) = yes /\ Val("or", v, yes) = yes
                    /\ Val("or", no, v) = v /\ Val("or", v, no) = v
                    /\ Val("and", v, v) = v /\ Val("or", v, v) = v
  /\ yes \in Tri /\ no \in Tri /\ mod \in Tri
BY DEF Val, EXPR_AND, EXPR_OR, Tri, yes, no, mod

\* What expr_join_or makes of two operands has the value of FOO || BAR.
LEMMA JoinOrValue ==
  ASSUME NEW w, Trees, Names(w), Values(w), NEW e \in Expr, NEW f \in Expr, JoinOr(e, f, ty) # NoExpr
  PROVE  /\ JoinOr(e, f, ty) \in Expr /\ size[JoinOr(e, f, ty)] = 1
         /\ V[w][JoinOr(e, f, ty)] = Val("or", V[w][e], V[w][f])
<1> DEFINE s == SymOf(e)
           j == JoinOr(e, f, ty)
           v == TriOf(s, tri[w])
<1>0. "or" \in Ops
  BY DEF Ops
<1>1. /\ Joinable(e, f) /\ SymOf(f) = s
      /\ \/ TypeOf(ty, s) = "tristate" /\ TwoConsts(e, f, "eq") /\ j = Neq(s, Third(e.r, f.r))
         \/ TypeOf(ty, s) = "boolean" /\ OneEach(e, f, Sy(s), Not(Sy(s))) /\ j = Y
  BY Zenon DEF JoinOr
<1>2. CASE TypeOf(ty, s) = "tristate" /\ TwoConsts(e, f, "eq") /\ j = Neq(s, Third(e.r, f.r))
  <2>1. e.op = "eq" /\ f.op = "eq" /\ e.r # f.r /\ e.r \in Constants /\ f.r \in Constants
    BY <1>2 DEF TwoConsts, Constants
  <2>2. s = e.l /\ SymOf(f) = f.l
    BY <2>1, Zenon DEF SymOf, Compare
  <2>3. s \in Name /\ e = Eq(s, e.r) /\ f = Eq(s, f.r)
    BY <1>1, <2>1, <2>2, Operand
  <2>4. s \in Toggles
    BY <1>2, <2>3 DEF Toggles
  <2> DEFINE t == Third(e.r, f.r)
  <2>5. t \in Constants \ {e.r, f.r} /\ Constants = {e.r, f.r, t}
    BY <2>1, ThirdOne
  <2> HIDE DEF t, s, j
  <2>6. /\ V[w][e] = IF TextFor(v) = e.r THEN yes ELSE no
        /\ V[w][f] = IF TextFor(v) = f.r THEN yes ELSE no
        /\ V[w][Neq(s, t)] = IF TextFor(v) = t THEN no ELSE yes
        /\ v \in Tri /\ s \in Name /\ t \in Name
    BY <2>1, <2>3, <2>4, <2>5, ToggleValue
  <2>7. TextFor(v) \in {e.r, f.r, t}
    BY <2>5, <2>6, TextTells
  <2>8. V[w][Neq(s, t)] = Val("or", V[w][e], V[w][f])
    BY <2>1, <2>5, <2>6, <2>7, ValExtremes
  <2>9. Neq(s, t) \in Expr /\ size[Neq(s, t)] = 1
    BY <2>6 DEF Trees
  <2> QED BY <1>2, <2>8, <2>9 DEF t, j
<1>3. CASE TypeOf(ty, s) = "boolean" /\ OneEach(e, f, Sy(s), Not(Sy(s))) /\ j = Y
  <2>1. Sy(s) \in Expr /\ Val("or", V[w][e], V[w][f]) = Val("or", V[w][Sy(s)], V[w][Not(Sy(s))])
    BY <1>0, <1>3, OneEachValue
  <2>2. s \in Sym
    BY <2>1, SymInExpr
  <2>3. s \in Toggles /\ v # mod /\ v \in Tri
    BY <1>3, <2>2, TextFacts DEF Toggles, Names
  <2>4. V[w][Sy(s)] = v /\ V[w][Not(Sy(s))] = EXPR_NOT(v)
    BY <2>1, <2>2, SyValue, NotValue
  <2> HIDE DEF v, s, j
  <2>5. Val("or", v, EXPR_NOT(v)) = yes
    BY <2>3 DEF Val, EXPR_OR, EXPR_NOT, Tri, no, mod, yes
  <2>6. Y \in Expr /\ size[Y] = 1 /\ V[w][Y] = yes
    BY ConstValues
  <2> QED BY <1>3, <2>1, <2>4, <2>5, <2>6 DEF j
<1> QED BY <1>1, <1>2, <1>3

\* FOO='b' && FOO!='c', for constants b and c of any kind.
LEMMA ExcludeValue ==
  ASSUME NEW w, Trees, Names(w), Values(w), NEW g \in Expr, NEW h \in Expr, g.op = "eq", h.op = "neq", g.l = h.l,
         TypeOf(ty, g.r) = "const", TypeOf(ty, h.r) = "const"
  PROVE  /\ Exclude(g, h) \in Expr /\ size[Exclude(g, h)] = 1
         /\ V[w][Exclude(g, h)] = Val("and", V[w][g], V[w][h])
<1> DEFINE s == g.l
<1>1. s \in Name /\ g.r \in Name /\ h.r \in Name /\ g = Eq(s, g.r) /\ h = Neq(s, h.r)
  BY Operand
<1>2. StrOf(g.r, str[w]) = g.r /\ StrOf(h.r, str[w]) = h.r
  BY <1>1 DEF Names, StrOf
<1> HIDE DEF s
<1>3. /\ V[w][g] = IF StrOf(s, str[w]) = g.r THEN yes ELSE no
      /\ V[w][h] = IF StrOf(s, str[w]) = h.r THEN no ELSE yes
  BY <1>1, <1>2, EqValue, NeqValue
<1>4. size[g] = 1
  BY <1>1 DEF Trees
<1>5. CASE g.r = h.r
  <2>1. Exclude(g, h) = N
    BY <1>5 DEF Exclude
  <2>2. Val("and", V[w][g], V[w][h]) = no
    BY <1>3, <1>5, ValExtremes
  <2> QED BY <2>1, <2>2, ConstValues
<1>6. CASE g.r # h.r
  <2>1. Exclude(g, h) = g
    BY <1>6 DEF Exclude
  <2>2. Val("and", V[w][g], V[w][h]) = V[w][g]
    BY <1>3, <1>6, ValExtremes
  <2> QED BY <1>4, <2>1, <2>2
<1> QED BY <1>5, <1>6

\* What expr_join_and makes of two operands has the value of FOO && BAR.
LEMMA JoinAndValue ==
  ASSUME NEW w, Trees, Names(w), Values(w), NEW e \in Expr, NEW f \in Expr, JoinAnd(e, f, ty) # NoExpr
  PROVE  /\ JoinAnd(e, f, ty) \in Expr /\ size[JoinAnd(e, f, ty)] = 1
         /\ V[w][JoinAnd(e, f, ty)] = Val("and", V[w][e], V[w][f])
<1> DEFINE s == SymOf(e)
           j == JoinAnd(e, f, ty)
           v == TriOf(s, tri[w])
           consts == TypeOf(ty, e.r) = "const" /\ TypeOf(ty, f.r) = "const"
<1>0. "and" \in Ops
  BY DEF Ops
<1>1. /\ Joinable(e, f) /\ SymOf(f) = s /\ TypeOf(ty, s) \in {"boolean", "tristate"}
      /\ \/ OneEach(e, f, Sy(s), Eq(s, "y")) /\ j = Eq(s, "y")
         \/ OneEach(e, f, Sy(s), Neq(s, "n")) /\ j = Sy(s)
         \/ OneEach(e, f, Sy(s), Neq(s, "m")) /\ j = Eq(s, "y")
         \/ e.op = "eq" /\ f.op = "neq" /\ consts /\ j = Exclude(e, f)
         \/ e.op = "neq" /\ f.op = "eq" /\ consts /\ j = Exclude(f, e)
         \/ TwoConsts(e, f, "neq") /\ j = Eq(s, Third(e.r, f.r))
  <2>1. /\ Joinable(e, f) /\ SymOf(f) = s /\ TypeOf(ty, s) \in {"boolean", "tristate"}
    BY Zenon DEF JoinAnd
  <2>2. j = IF OneEach(e, f, Sy(s), Eq(s, "y")) THEN Eq(s, "y")
            ELSE IF OneEach(e, f, Sy(s), Neq(s, "n")) THEN Sy(s)
            ELSE IF OneEach(e, f, Sy(s), Neq(s, "m")) THEN Eq(s, "y")
            ELSE IF TypeOf(ty, s) = "boolean" THEN NoExpr
            ELSE IF e.op = "eq" /\ f.op = "neq" /\ consts THEN Exclude(e, f)
            ELSE IF e.op = "neq" /\ f.op = "eq" /\ consts THEN Exclude(f, e)
            ELSE IF TwoConsts(e, f, "neq") THEN Eq(s, Third(e.r, f.r))
            ELSE NoExpr
    BY <2>1, Zenon DEF JoinAnd
  <2>3. j # NoExpr
    OBVIOUS
  <2> HIDE DEF s, consts, j
  <2> QED BY <2>1, <2>2, <2>3, Zenon
<1>2. /\ "y" \in Constants /\ "m" \in Constants /\ "n" \in Constants
      /\ \A c \in Constants : c \in Name
  BY DEF Constants, Names
<1>3. ASSUME NEW h, OneEach(e, f, Sy(s), h)
      PROVE  s \in Toggles /\ Val("and", V[w][e], V[w][f]) = Val("and", V[w][Sy(s)], V[w][h])
  <2>1. Sy(s) \in Expr /\ Val("and", V[w][e], V[w][f]) = Val("and", V[w][Sy(s)], V[w][h])
    BY <1>0, <1>3, OneEachValue
  <2>2. s \in Sym
    BY <2>1, SymInExpr
  <2> QED BY <1>1, <2>1, <2>2 DEF Toggles, Names
<1>11. ASSUME s \in Toggles
       PROVE  /\ V[w][Sy(s)] = v /\ v \in Tri /\ Sy(s) \in Expr /\ size[Sy(s)] = 1
              /\ \A c \in Constants :
                   /\ V[w][Eq(s, c)] = IF TextFor(v) = c THEN yes ELSE no
                   /\ V[w][Neq(s, c)] = IF TextFor(v) = c THEN no ELSE yes
                   /\ Eq(s, c) \in Expr /\ size[Eq(s, c)] = 1
  <2> HIDE DEF s
  <2>1. /\ s \in Sym /\ s \in Name /\ v \in Tri /\ V[w][Sy(s)] = v
        /\ \A c \in Constants :
             /\ V[w][Eq(s, c)] = IF TextFor(v) = c THEN yes ELSE no
             /\ V[w][Neq(s, c)] = IF TextFor(v) = c THEN no ELSE yes
    BY <1>11, ToggleValue
  <2> HIDE DEF v
  <2> QED BY <1>2, <2>1 DEF Trees
<1>4. CASE OneEach(e, f, Sy(s), Eq(s, "y")) /\ j = Eq(s, "y")
  <2>1. s \in Toggles /\ Val("and", V[w][e], V[w][f]) = Val("and", V[w][Sy(s)], V[w][Eq(s, "y")])
    BY <1>3, <1>4
  <2> HIDE DEF s, j
  <2>2. /\ V[w][Sy(s)] = v /\ v \in Tri /\ V[w][Eq(s, "y")] = IF TextFor(v) = "y" THEN yes ELSE no
        /\ Eq(s, "y") \in Expr /\ size[Eq(s, "y")] = 1
    BY <1>2, <1>11, <2>1
  <2>3. Val("and", v, V[w][Eq(s, "y")]) = V[w][Eq(s, "y")]
    BY <2>2, TextTells, ValExtremes
  <2> QED BY <1>4, <2>1, <2>2, <2>3 DEF j
<1>5. CASE OneEach(e, f, Sy(s), Neq(s, "n")) /\ j = Sy(s)
  <2>1. s \in Toggles /\ Val("and", V[w][e], V[w][f]) = Val("and", V[w][Sy(s)], V[w][Neq(s, "n")])
    BY <1>3, <1>5
  <2> HIDE DEF s, j
  <2>2. /\ V[w][Sy(s)] = v /\ v \in Tri /\ V[w][Neq(s, "n")] = IF TextFor(v) = "n" THEN no ELSE yes
        /\ Sy(s) \in Expr /\ size[Sy(s)] = 1
    BY <1>2, <1>11, <2>1
  <2>3. Val("and", v, V[w][Neq(s, "n")]) = v
    BY <2>2, TextTells, ValExtremes
  <2> QED BY <1>5, <2>1, <2>2, <2>3 DEF j
<1>6. CASE OneEach(e, f, Sy(s), Neq(s, "m")) /\ j = Eq(s, "y")
  <2>1. s \in Toggles /\ Val("and", V[w][e], V[w][f]) = Val("and", V[w][Sy(s)], V[w][Neq(s, "m")])
    BY <1>3, <1>6
  <2> HIDE DEF s, j
  <2>2. /\ V[w][Sy(s)] = v /\ v \in Tri
        /\ V[w][Neq(s, "m")] = IF TextFor(v) = "m" THEN no ELSE yes
        /\ V[w][Eq(s, "y")] = IF TextFor(v) = "y" THEN yes ELSE no
        /\ Eq(s, "y") \in Expr /\ size[Eq(s, "y")] = 1
    BY <1>2, <1>11, <2>1
  <2>3. Val("and", v, V[w][Neq(s, "m")]) = V[w][Eq(s, "y")]
    BY <2>2, TextTells, ValExtremes
  <2> QED BY <1>6, <2>1, <2>2, <2>3 DEF j
<1>7. ASSUME e.op \in {"eq", "neq"}, f.op \in {"eq", "neq"} PROVE e.l = s /\ f.l = s /\ s \in Toggles
  <2>1. e.l = s /\ SymOf(f) = f.l
    BY <1>7, Zenon DEF SymOf, Compare
  <2>2. e.l \in Name
    BY <1>7, Operand
  <2> QED BY <1>1, <2>1, <2>2 DEF Toggles
<1>8. CASE e.op = "eq" /\ f.op = "neq" /\ consts /\ j = Exclude(e, f)
  <2>1. e.l = f.l
    BY <1>7, <1>8
  <2> QED BY <1>8, <2>1, ExcludeValue
<1>9. CASE e.op = "neq" /\ f.op = "eq" /\ consts /\ j = Exclude(f, e)
  <2>1. e.l = f.l
    BY <1>7, <1>9
  <2>2. Val("and", V[w][e], V[w][f]) = Val("and", V[w][f], V[w][e])
    BY <1>0, InTri, ValFacts
  <2> QED BY <1>9, <2>1, <2>2, ExcludeValue
<1>10. CASE TwoConsts(e, f, "neq") /\ j = Eq(s, Third(e.r, f.r))
  <2>1. e.op = "neq" /\ f.op = "neq" /\ e.r # f.r /\ e.r \in Constants /\ f.r \in Constants
    BY <1>10 DEF TwoConsts, Constants
  <2>2. s \in Toggles /\ e.l = s /\ f.l = s
    BY <1>7, <2>1
  <2>3. e = Neq(s, e.r) /\ f = Neq(s, f.r)
    BY <2>1, <2>2, Operand
  <2> DEFINE t == Third(e.r, f.r)
  <2>4. t \in Constants \ {e.r, f.r} /\ Constants = {e.r, f.r, t}
    BY <2>1, ThirdOne
  <2> HIDE DEF t, s, j
  <2>5. /\ V[w][e] = IF TextFor(v) = e.r THEN no ELSE yes
        /\ V[w][f] = IF TextFor(v) = f.r THEN no ELSE yes
        /\ V[w][Eq(s, t)] = IF TextFor(v) = t THEN yes ELSE no
        /\ v \in Tri /\ s \in Name /\ t \in Name
    BY <2>1, <2>2, <2>3, <2>4, ToggleValue
  <2>6. TextFor(v) \in {e.r, f.r, t}
    BY <2>4, <2>5, TextTells
  <2>7. V[w][Eq(s, t)] = Val("and", V[w][e], V[w][f])
    BY <2>1, <2>4, <2>5, <2>6, ValExtremes
  <2>8. Eq(s, t) \in Expr /\ size[Eq(s, t)] = 1
    BY <2>5 DEF Trees
  <2> QED BY <1>10, <2>7, <2>8 DEF t, j
<1> QED BY <1>1, <1>4, <1>5, <1>6, <1>8, <1>9, <1>10

\* Join, with its test for equality as a function.
JoinBy(eq, op, e, f) == Join(op, e, f, ty, LAMBDA g, h : eq[g][h])

\* Two operands of && or || that are joined into one have the value of that one,
\* whether they were found equal or decide each other.
THEOREM JoinSound ==
  ASSUME NEW w, Trees, Names(w), Values(w), NEW elim, NEW both, NEW eq, NEW yn, IsEliminate(elim, both, eq, yn),
         NEW op \in Ops, NEW e \in Expr, NEW f \in Expr,
         JoinBy(eq, op, e, f) # NoExpr
  PROVE  /\ JoinBy(eq, op, e, f) \in Expr
         /\ JoinBy(eq, op, e, f) = e \/ size[JoinBy(eq, op, e, f)] = 1
         /\ V[w][JoinBy(eq, op, e, f)] = Val(op, V[w][e], V[w][f])
<1> DEFINE j == JoinBy(eq, op, e, f)
<1>0. j = IF eq[e][f] THEN e ELSE IF op = "or" THEN JoinOr(e, f, ty) ELSE JoinAnd(e, f, ty)
  BY Zenon DEF Join, JoinBy
<1>9. j # NoExpr
  OBVIOUS
<1>8. eq[e][f] => V[w][e] = V[w][f]
  BY EqualInValue
<1>7. V[w][e] \in Tri /\ V[w][f] \in Tri
  BY InTri
<1> HIDE DEF j
<1>1. CASE eq[e][f]
  <2>1. j = e
    BY <1>0, <1>1
  <2>2. Val(op, V[w][e], V[w][e]) = V[w][e]
    BY <1>7, ValFacts
  <2> QED BY <1>1, <1>8, <2>1, <2>2 DEF j
<1>2. CASE ~eq[e][f] /\ op = "or"
  <2>1. j = JoinOr(e, f, ty)
    BY <1>0, <1>2
  <2> QED BY <1>2, <1>9, <2>1, JoinOrValue DEF j
<1>3. CASE ~eq[e][f] /\ op = "and"
  <2>1. j = JoinAnd(e, f, ty)
    BY <1>0, <1>3
  <2> QED BY <1>3, <1>9, <2>1, JoinAndValue DEF j
<1> QED BY <1>1, <1>2, <1>3 DEF Ops, j
=============================================================================
