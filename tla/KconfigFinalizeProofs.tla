----------------------- MODULE KconfigFinalizeProofs -----------------------
(***************************************************************************)
(* expr_eliminate_dups keeps the value and ends, and with it what          *)
(* menu_finalize does to a dependency keeps what a run of TLC checks on    *)
(* small expressions: five invariants of KconfigFinalize, here for all     *)
(* expressions.                                                            *)
(*                                                                         *)
(* expr_eliminate_dups goes over pairs of operands, twice, until nothing   *)
(* changes. A pass is here a finite sequence of steps, each for some pair  *)
(* (IsDups1, IsDups2): the code's own order is one of them, so what holds  *)
(* of every such sequence holds of the code. The loop around them is the   *)
(* code's (IsDups), and that it ends is a theorem (RoundShrinks).          *)
(***************************************************************************)
EXTENDS KconfigFinalize, KconfigExprProofs

CONSTANTS cnt, opd, put, node, elim, both, eq, yn, tr, d1, d2, ext

\* The operands of a tree of op, counted from the left through all its nodes of
\* op: how many, the i-th, the tree with x for the i-th, and the node that has the
\* operands of a range. A tree of another operator is its own only operand.
IsOperands ==
  \A op \in Ops : \A e \in Expr :
    /\ cnt[op][e] = CountStep(op, e, LAMBDA f : cnt[op][f])
    /\ \A i \in Nat :
         opd[op][e][i] = OperandStep(op, e, i, LAMBDA f : cnt[op][f], LAMBDA f, k : opd[op][f][k])
    /\ \A i \in Nat : \A x \in Expr :
         put[op][e][i][x] = ReplaceStep(op, e, i, x, LAMBDA f : cnt[op][f],
                                        LAMBDA f, k, y : put[op][f][k][y])
    /\ \A range \in Int \X Int :
         node[op][e][range] = NodeStep(op, e, range, LAMBDA f : cnt[op][f],
                                       LAMBDA f, r : node[op][f][r])

\* A tree that is no tree of op.
LEMMA OperandsOfOne ==
  ASSUME IsOperands, NEW op \in Ops, NEW e \in Expr, e.op # op
  PROVE  /\ cnt[op][e] = 1
         /\ \A i \in Nat : opd[op][e][i] = e /\ \A x \in Expr : put[op][e][i][x] = x
         /\ \A range \in Int \X Int : node[op][e][range] = e
<1>1. cnt[op][e] = 1
  BY DEF IsOperands, CountStep
<1>2. ASSUME NEW i \in Nat PROVE opd[op][e][i] = e
  BY DEF IsOperands, OperandStep
<1>3. ASSUME NEW i \in Nat, NEW x \in Expr PROVE put[op][e][i][x] = x
  <2>1. put[op][e][i][x] = ReplaceStep(op, e, i, x, LAMBDA f : cnt[op][f],
                                              LAMBDA f, k, y : put[op][f][k][y])
    BY Zenon DEF IsOperands
  <2> QED BY <2>1, Zenon DEF ReplaceStep
<1>4. ASSUME NEW range \in Int \X Int PROVE node[op][e][range] = e
  <2>1. node[op][e][range] = NodeStep(op, e, range, LAMBDA f : cnt[op][f],
                                            LAMBDA f, r : node[op][f][r])
    BY Zenon DEF IsOperands
  <2> QED BY <2>1, Zenon DEF NodeStep
<1> QED BY <1>1, <1>2, <1>3, <1>4

\* A tree of op has those of both sides.
LEMMA OperandsOfTwo ==
  ASSUME Trees, IsOperands, NEW op \in Ops, NEW a \in Expr, NEW b \in Expr
  PROVE  LET e == Two(op, a, b) IN
         /\ e \in Expr /\ e.op = op
         /\ cnt[op][e] = cnt[op][a] + cnt[op][b]
         /\ \A i \in Nat :
              /\ i <= cnt[op][a] =>
                   /\ opd[op][e][i] = opd[op][a][i]
                   /\ \A x \in Expr : put[op][e][i][x] = Two(op, put[op][a][i][x], b)
              /\ ~(i <= cnt[op][a]) =>
                   /\ opd[op][e][i] = opd[op][b][i - cnt[op][a]]
                   /\ \A x \in Expr : put[op][e][i][x] = Two(op, a, put[op][b][i - cnt[op][a]][x])
         /\ \A range \in Int \X Int :
              \/ node[op][e][range] = e
              \/ node[op][e][range] = node[op][a][range]
              \/ node[op][e][range]
                   = node[op][b][<<range[1] - cnt[op][a], range[2] - cnt[op][a]>>]
<1> DEFINE e == Two(op, a, b)
<1>1. e \in Expr /\ e.op = op /\ e.a = a /\ e.b = b
  BY TwoFields, SizeOfTwo
<1> HIDE DEF e
<1>2. cnt[op][e] = cnt[op][a] + cnt[op][b]
  BY <1>1 DEF IsOperands, CountStep
<1>3. ASSUME NEW i \in Nat
      PROVE  /\ i <= cnt[op][a] => opd[op][e][i] = opd[op][a][i]
             /\ ~(i <= cnt[op][a]) => opd[op][e][i] = opd[op][b][i - cnt[op][a]]
  <2>1. opd[op][e][i] = OperandStep(op, e, i, LAMBDA f : cnt[op][f], LAMBDA f, k : opd[op][f][k])
    BY <1>1, Zenon DEF IsOperands
  <2> QED BY <1>1, <2>1, Zenon DEF OperandStep
<1>4. ASSUME NEW i \in Nat, NEW x \in Expr
      PROVE  /\ i <= cnt[op][a] => put[op][e][i][x] = Two(op, put[op][a][i][x], b)
             /\ ~(i <= cnt[op][a]) => put[op][e][i][x] = Two(op, a, put[op][b][i - cnt[op][a]][x])
  <2>1. put[op][e][i][x] = ReplaceStep(op, e, i, x, LAMBDA f : cnt[op][f],
                                              LAMBDA f, k, y : put[op][f][k][y])
    BY <1>1, Zenon DEF IsOperands
  <2> QED BY <1>1, <2>1, Zenon DEF ReplaceStep
<1>5. ASSUME NEW range \in Int \X Int
      PROVE  \/ node[op][e][range] = e
             \/ node[op][e][range] = node[op][a][range]
             \/ node[op][e][range] = node[op][b][<<range[1] - cnt[op][a], range[2] - cnt[op][a]>>]
  <2>1. node[op][e][range] = NodeStep(op, e, range, LAMBDA f : cnt[op][f],
                                            LAMBDA f, r : node[op][f][r])
    BY <1>1, Zenon DEF IsOperands
  <2> QED BY <1>1, <2>1, Zenon DEF NodeStep
<1> QED BY <1>1, <1>2, <1>3, <1>4, <1>5 DEF e

\* Either side of a tree is smaller than the tree.
LEMMA SmallerOperands ==
  ASSUME Trees, NEW e \in Expr, NEW op \in Ops, NEW a \in Expr, NEW b \in Expr, e = Two(op, a, b)
  PROVE  size[a] < size[e] /\ size[b] < size[e]
<1>1. size[e] = size[a] + size[b] + 1
  BY SizeOfTwo
<1>2. size[a] \in Nat /\ size[b] \in Nat
  BY DEF Trees
<1> QED BY <1>1, <1>2

\* Every tree has an operand.
LEMMA CountPositive ==
  ASSUME Trees, IsOperands, NEW op \in Ops
  PROVE  \A e \in Expr : cnt[op][e] \in Nat /\ cnt[op][e] >= 1
<1> DEFINE S == {e \in Expr : cnt[op][e] \in Nat /\ cnt[op][e] >= 1}
<1>1. ASSUME NEW e \in Expr, \A f \in Expr : size[f] < size[e] => f \in S PROVE e \in S
  <2>1. CASE e.op # op
    BY <2>1, OperandsOfOne
  <2>2. CASE e.op = op
    <3>1. e.a \in Expr /\ e.b \in Expr /\ e = Two(op, e.a, e.b)
      BY <2>2, Operand
    <3>2. size[e.a] < size[e] /\ size[e.b] < size[e]
      BY <3>1, SmallerOperands
    <3>3. e.a \in S /\ e.b \in S
      BY <1>1, <3>1, <3>2
    <3>4. cnt[op][e] = cnt[op][e.a] + cnt[op][e.b]
      BY <3>1, OperandsOfTwo
    <3> QED BY <3>3, <3>4
  <2> QED BY <2>1, <2>2
<1> HIDE DEF S
<1>2. Expr \subseteq S
  BY <1>1, BySize
<1> QED BY <1>2 DEF S

\* The i-th operand is not a tree of op, and the tree says: it and something else.
Hole(w, op, e, i) ==
  /\ opd[op][e][i] \in Expr /\ opd[op][e][i].op # op
  /\ \E c \in Tri, k \in Nat :
       /\ e.op = op => k > 0
       /\ V[w][e] = Val(op, V[w][opd[op][e][i]], c)
       /\ size[e] = size[opd[op][e][i]] + k
       /\ \A x \in Expr : /\ put[op][e][i][x] \in Expr
                          /\ e.op = op => put[op][e][i][x].op = op
                          /\ V[w][put[op][e][i][x]] = Val(op, V[w][x], c)
                          /\ size[put[op][e][i][x]] = size[x] + k

\* An operand of one side is one of the tree.
LEMMA HoleOfTwo ==
  ASSUME NEW w, Trees, Names(w), Values(w), NEW op \in Ops,
         NEW a \in Expr, NEW b \in Expr, NEW e, NEW i, NEW j,
         e = Two(op, a, b) \/ e = Two(op, b, a), e \in Expr, e.op = op,
         Hole(w, op, a, j), opd[op][e][i] = opd[op][a][j],
         \A x \in Expr : \/ put[op][e][i][x] = Two(op, put[op][a][j][x], b)
                         \/ put[op][e][i][x] = Two(op, b, put[op][a][j][x])
  PROVE  Hole(w, op, e, i)
<1> DEFINE o == opd[op][a][j]
<1>1. PICK c \in Tri, k \in Nat :
        /\ V[w][a] = Val(op, V[w][o], c)
        /\ size[a] = size[o] + k
        /\ \A x \in Expr : /\ put[op][a][j][x] \in Expr
                           /\ V[w][put[op][a][j][x]] = Val(op, V[w][x], c)
                           /\ size[put[op][a][j][x]] = size[x] + k
  BY DEF Hole
<1>2. o \in Expr /\ o.op # op /\ opd[op][e][i] = o
  BY DEF Hole
<1> HIDE DEF o
<1> DEFINE d == Val(op, c, V[w][b])
           n == k + size[b] + 1
<1>3. /\ V[w][b] \in Tri /\ \A x \in Expr : V[w][x] \in Tri /\ size[x] \in Nat
      /\ size[b] \in Nat
  BY InTri DEF Trees
<1>4. d \in Tri /\ n \in Nat /\ n > 0
  BY <1>3, ValFacts
<1>5. \A v \in Tri : /\ Val(op, Val(op, v, c), V[w][b]) = Val(op, v, d)
                     /\ Val(op, V[w][b], Val(op, v, c)) = Val(op, v, d)
  <2>1. ASSUME NEW v \in Tri PROVE /\ Val(op, Val(op, v, c), V[w][b]) = Val(op, v, d)
                                   /\ Val(op, V[w][b], Val(op, v, c)) = Val(op, v, d)
    <3>1. Val(op, v, c) \in Tri
      BY ValFacts
    <3>2. Val(op, Val(op, v, c), V[w][b]) = Val(op, v, d)
      BY <1>3, ValAssoc
    <3> QED BY <1>3, <3>1, <3>2, ValFacts
  <2> QED BY <2>1
<1>6. V[w][e] = Val(op, V[w][o], d) /\ size[e] = size[o] + n
  <2>1. V[w][e] = Val(op, V[w][a], V[w][b]) \/ V[w][e] = Val(op, V[w][b], V[w][a])
    BY TwoValue
  <2>2. size[e] = size[a] + size[b] + 1
    BY <1>3, SizeOfTwo
  <2>3. V[w][o] \in Tri /\ size[o] \in Nat
    BY <1>2, <1>3
  <2> QED BY <1>1, <1>3, <1>5, <2>1, <2>2, <2>3
<1>7. ASSUME NEW x \in Expr
      PROVE  /\ put[op][e][i][x] \in Expr /\ put[op][e][i][x].op = op
             /\ V[w][put[op][e][i][x]] = Val(op, V[w][x], d)
             /\ size[put[op][e][i][x]] = size[x] + n
  <2> DEFINE y == put[op][a][j][x]
             z == put[op][e][i][x]
  <2>1. y \in Expr /\ V[w][y] = Val(op, V[w][x], c) /\ size[y] = size[x] + k
    BY <1>1
  <2>2. z = Two(op, y, b) \/ z = Two(op, b, y)
    OBVIOUS
  <2> HIDE DEF y, z
  <2>3. /\ z \in Expr /\ z.op = op /\ size[z] = size[y] + size[b] + 1
        /\ V[w][z] = Val(op, V[w][y], V[w][b]) \/ V[w][z] = Val(op, V[w][b], V[w][y])
    <3>1. CASE z = Two(op, y, b)
      <4>1. size[z] = size[y] + size[b] + 1 /\ z \in Expr
        BY <2>1, <3>1, SizeOfTwo
      <4>2. V[w][z] = Val(op, V[w][y], V[w][b])
        BY <2>1, <3>1, TwoValue
      <4> QED BY <3>1, <4>1, <4>2, TwoFields
    <3>2. CASE z = Two(op, b, y)
      <4>1. size[z] = size[b] + size[y] + 1 /\ z \in Expr
        BY <2>1, <3>2, SizeOfTwo
      <4>2. size[y] \in Nat
        BY <1>3, <2>1
      <4> QED BY <1>3, <2>1, <3>2, <4>1, <4>2, TwoValue, TwoFields
    <3> QED BY <2>2, <3>1, <3>2
  <2>4. V[w][x] \in Tri /\ size[x] \in Nat
    BY <1>3
  <2> QED BY <1>3, <1>5, <2>1, <2>3, <2>4 DEF z
<1> HIDE DEF d, n
<1> QED BY <1>2, <1>4, <1>6, <1>7 DEF Hole

\* Every operand is in such a place.
LEMMA Holes ==
  ASSUME NEW w, Trees, Names(w), Values(w), IsOperands, NEW op \in Ops
  PROVE  \A e \in Expr : \A i \in 1..cnt[op][e] : Hole(w, op, e, i)
<1> DEFINE S == {e \in Expr : \A i \in 1..cnt[op][e] : Hole(w, op, e, i)}
<1>1. ASSUME NEW e \in Expr, \A f \in Expr : size[f] < size[e] => f \in S PROVE e \in S
  <2>1. CASE e.op # op
    <3>1. /\ cnt[op][e] = 1 /\ opd[op][e][1] = e
          /\ \A x \in Expr : put[op][e][1][x] = x
      BY <2>1, OperandsOfOne
    <3>2. V[w][Neutral(op)] \in Tri /\ \A x \in Expr : V[w][x] = Val(op, V[w][x], V[w][Neutral(op)])
      <4>1. Neutral(op) \in Expr /\ \A v \in Tri : Val(op, V[w][Neutral(op)], v) = v
        BY NeutralFacts
      <4>2. V[w][Neutral(op)] \in Tri /\ \A x \in Expr : V[w][x] \in Tri
        BY <4>1, InTri
      <4>3. \A v \in Tri : v = Val(op, v, V[w][Neutral(op)])
        BY <4>1, <4>2, ValFacts
      <4> QED BY <4>2, <4>3
    <3>3. \A x \in Expr : size[x] = size[x] + 0
      BY DEF Trees
    <3>4. Hole(w, op, e, 1)
      BY <2>1, <3>1, <3>2, <3>3 DEF Hole
    <3> QED BY <3>1, <3>4
  <2>2. CASE e.op = op
    <3>1. e.a \in Expr /\ e.b \in Expr /\ e = Two(op, e.a, e.b)
      BY <2>2, Operand
    <3>2. size[e.a] < size[e] /\ size[e.b] < size[e]
      BY <3>1, SmallerOperands
    <3>3. e.a \in S /\ e.b \in S
      BY <1>1, <3>1, <3>2
    <3>4. cnt[op][e.a] \in Nat /\ cnt[op][e.b] \in Nat /\ cnt[op][e] = cnt[op][e.a] + cnt[op][e.b]
      BY <3>1, CountPositive, OperandsOfTwo
    <3>5. ASSUME NEW i \in 1..cnt[op][e] PROVE Hole(w, op, e, i)
      <4>1. CASE i <= cnt[op][e.a]
        <5>1. i \in 1..cnt[op][e.a] /\ i \in Nat
          BY <3>4, <4>1
        <5>2. Hole(w, op, e.a, i)
          BY <3>3, <5>1
        <5>3. /\ opd[op][e][i] = opd[op][e.a][i]
              /\ \A x \in Expr : put[op][e][i][x] = Two(op, put[op][e.a][i][x], e.b)
          BY <3>1, <4>1, <5>1, OperandsOfTwo
        <5> QED BY <2>2, <3>1, <5>2, <5>3, HoleOfTwo
      <4>2. CASE ~(i <= cnt[op][e.a])
        <5> DEFINE j == i - cnt[op][e.a]
        <5>1. j \in 1..cnt[op][e.b] /\ i \in Nat
          BY <3>4, <4>2
        <5>2. Hole(w, op, e.b, j)
          BY <3>3, <5>1
        <5>3. /\ opd[op][e][i] = opd[op][e.b][j]
              /\ \A x \in Expr : put[op][e][i][x] = Two(op, e.a, put[op][e.b][j][x])
          BY <3>1, <4>2, <5>1, OperandsOfTwo
        <5> HIDE DEF j
        <5> QED BY <2>2, <3>1, <5>2, <5>3, HoleOfTwo
      <4> QED BY <4>1, <4>2
    <3> QED BY <3>5
  <2> QED BY <2>1, <2>2
<1> HIDE DEF S
<1>2. Expr \subseteq S
  BY <1>1, BySize
<1> QED BY <1>2 DEF S

\* What is replaced is there, and the other operands are as they were.
Elsewhere(op, e, i) ==
  \A x \in Expr : x.op # op =>
    /\ cnt[op][put[op][e][i][x]] = cnt[op][e]
    /\ opd[op][put[op][e][i][x]][i] = x
    /\ \A j \in 1..cnt[op][e] : j # i => opd[op][put[op][e][i][x]][j] = opd[op][e][j]

\* The same for a tree, from its two sides.
LEMMA ElsewhereOfTwo ==
  ASSUME NEW w, Trees, Names(w), Values(w), IsOperands, NEW op \in Ops,
         NEW a \in Expr, NEW b \in Expr, NEW i \in 1..cnt[op][Two(op, a, b)],
         \A j \in 1..cnt[op][a] : Elsewhere(op, a, j),
         \A j \in 1..cnt[op][b] : Elsewhere(op, b, j)
  PROVE  Elsewhere(op, Two(op, a, b), i)
<1> DEFINE e == Two(op, a, b)
           m == cnt[op][a]
<1>0. e = Two(op, a, b)
  OBVIOUS
<1>1. m \in Nat /\ m >= 1 /\ cnt[op][b] \in Nat /\ cnt[op][e] = m + cnt[op][b]
  BY CountPositive, OperandsOfTwo
<1>2. /\ \A j \in 1..m : opd[op][e][j] = opd[op][a][j]
      /\ \A j \in 1..cnt[op][b] : opd[op][e][m + j] = opd[op][b][j]
  <2>1. ASSUME NEW j \in 1..m PROVE opd[op][e][j] = opd[op][a][j]
    BY <1>1, OperandsOfTwo
  <2>2. ASSUME NEW j \in 1..cnt[op][b] PROVE opd[op][e][m + j] = opd[op][b][j]
    <3>1. m + j \in Nat /\ ~(m + j <= m) 
      BY <1>1
    <3>2. \A k \in Nat : ~(k <= m) => opd[op][e][k] = opd[op][b][k - m]
      BY OperandsOfTwo
    <3> HIDE DEF m, e
    <3>3. opd[op][e][m + j] = opd[op][b][(m + j) - m]
      BY <3>1, <3>2, Zenon
    <3>4. (m + j) - m = j
      BY <1>1
    <3> QED BY <3>3, <3>4, Zenon
  <2> QED BY <2>1, <2>2
<1>3. ASSUME NEW x \in Expr, x.op # op
      PROVE  /\ cnt[op][put[op][e][i][x]] = cnt[op][e]
             /\ opd[op][put[op][e][i][x]][i] = x
             /\ \A j \in 1..cnt[op][e] : j # i => opd[op][put[op][e][i][x]][j] = opd[op][e][j]
  <2>1. CASE i <= m
    <3> DEFINE y == put[op][a][i][x]
               z == Two(op, y, b)
    <3>1. i \in 1..m /\ i \in Nat
      BY <1>1, <2>1
    <3>2. put[op][e][i][x] = z
      BY <2>1, <3>1, OperandsOfTwo
    <3>3. y \in Expr
      BY <3>1, Holes DEF Hole
    <3>4. /\ cnt[op][y] = m /\ opd[op][y][i] = x
          /\ \A j \in 1..m : j # i => opd[op][y][j] = opd[op][a][j]
      BY <1>3, <3>1 DEF Elsewhere
    <3> HIDE DEF y
    <3>5. /\ cnt[op][z] = m + cnt[op][b]
          /\ \A j \in 1..m : opd[op][z][j] = opd[op][y][j]
          /\ \A j \in Nat : ~(j <= m) => opd[op][z][j] = opd[op][b][j - m]
      <4>1. ASSUME NEW j \in 1..m PROVE opd[op][z][j] = opd[op][y][j]
        BY <1>1, <3>3, <3>4, OperandsOfTwo
      <4>2. ASSUME NEW j \in Nat, ~(j <= m) PROVE opd[op][z][j] = opd[op][b][j - m]
        BY <1>1, <3>3, <3>4, <4>2, OperandsOfTwo
      <4>3. cnt[op][z] = m + cnt[op][b]
        BY <3>3, <3>4, OperandsOfTwo
      <4> QED BY <4>1, <4>2, <4>3
    <3> HIDE DEF z, e
    <3>6. ASSUME NEW j \in 1..cnt[op][e], j # i PROVE opd[op][z][j] = opd[op][e][j]
      <4>1. CASE j <= m
        BY <1>1, <1>2, <3>4, <3>5, <3>6, <4>1
      <4>2. CASE ~(j <= m)
        <5>1. j - m \in 1..cnt[op][b] /\ m + (j - m) = j /\ j \in Nat
          BY <1>1, <4>2
        <5>2. opd[op][e][m + (j - m)] = opd[op][b][j - m]
          BY <1>2, <5>1
        <5> QED BY <3>5, <4>2, <5>1, <5>2
      <4> QED BY <4>1, <4>2
    <3> QED BY <1>1, <3>1, <3>2, <3>4, <3>5, <3>6
  <2>2. CASE ~(i <= m)
    <3> DEFINE k == i - m
               y == put[op][b][k][x]
               z == Two(op, a, y)
    <3>1. k \in 1..cnt[op][b] /\ i \in Nat /\ k \in Nat /\ i = m + k
      BY <1>1, <2>2
    <3>2. put[op][e][i][x] = z
      BY <2>2, <3>1, OperandsOfTwo
    <3>3. y \in Expr
      BY <3>1, Holes DEF Hole
    <3>4. /\ cnt[op][y] = cnt[op][b] /\ opd[op][y][k] = x
          /\ \A j \in 1..cnt[op][b] : j # k => opd[op][y][j] = opd[op][b][j]
      BY <1>3, <3>1 DEF Elsewhere
    <3> HIDE DEF y
    <3>5. /\ cnt[op][z] = m + cnt[op][b]
          /\ \A j \in 1..m : opd[op][z][j] = opd[op][a][j]
          /\ \A j \in Nat : ~(j <= m) => opd[op][z][j] = opd[op][y][j - m]
      <4>1. ASSUME NEW j \in 1..m PROVE opd[op][z][j] = opd[op][a][j]
        BY <1>1, <3>3, <3>4, OperandsOfTwo
      <4>2. ASSUME NEW j \in Nat, ~(j <= m) PROVE opd[op][z][j] = opd[op][y][j - m]
        BY <1>1, <3>3, <3>4, <4>2, OperandsOfTwo
      <4>3. cnt[op][z] = m + cnt[op][b]
        BY <3>3, <3>4, OperandsOfTwo
      <4> QED BY <4>1, <4>2, <4>3
    <3> HIDE DEF z, e, k
    <3>6. ASSUME NEW j \in 1..cnt[op][e], j # i PROVE opd[op][z][j] = opd[op][e][j]
      <4>1. CASE j <= m
        BY <1>1, <1>2, <3>5, <4>1
      <4>2. CASE ~(j <= m)
        <5>1. j - m \in 1..cnt[op][b] /\ m + (j - m) = j /\ j \in Nat /\ j - m # k
          BY <1>1, <3>1, <3>6, <4>2
        <5>2. opd[op][e][m + (j - m)] = opd[op][b][j - m]
          BY <1>2, <5>1
        <5> QED BY <3>4, <3>5, <4>2, <5>1, <5>2
      <4> QED BY <4>1, <4>2
    <3>7. i - m = k /\ ~(i <= m)
      BY <1>1, <3>1, <2>2
    <3> QED BY <1>1, <3>1, <3>2, <3>4, <3>5, <3>6, <3>7
  <2> QED BY <1>1, <2>1, <2>2
<1> HIDE DEF e
<1>4. Elsewhere(op, e, i)
  BY <1>3 DEF Elsewhere
<1> QED BY <1>0, <1>4

\* It holds of every operand of every tree.
LEMMA AllElsewhere ==
  ASSUME NEW w, Trees, Names(w), Values(w), IsOperands, NEW op \in Ops
  PROVE  \A e \in Expr : \A i \in 1..cnt[op][e] : Elsewhere(op, e, i)
<1> DEFINE S == {e \in Expr : \A i \in 1..cnt[op][e] : Elsewhere(op, e, i)}
<1>1. ASSUME NEW e \in Expr, \A f \in Expr : size[f] < size[e] => f \in S PROVE e \in S
  <2>1. CASE e.op # op
    <3>1. cnt[op][e] = 1 /\ \A x \in Expr : put[op][e][1][x] = x
      BY <2>1, OperandsOfOne
    <3>2. ASSUME NEW x \in Expr, x.op # op PROVE cnt[op][x] = 1 /\ opd[op][x][1] = x
      BY <3>2, OperandsOfOne
    <3>3. Elsewhere(op, e, 1)
      BY <3>1, <3>2 DEF Elsewhere
    <3> QED BY <3>1, <3>3
  <2>2. CASE e.op = op
    <3>1. e.a \in Expr /\ e.b \in Expr /\ e = Two(op, e.a, e.b)
      BY <2>2, Operand
    <3>2. size[e.a] < size[e] /\ size[e.b] < size[e]
      BY <3>1, SmallerOperands
    <3>3. e.a \in S /\ e.b \in S
      BY <1>1, <3>1, <3>2
    <3>4. ASSUME NEW i \in 1..cnt[op][e] PROVE Elsewhere(op, e, i)
      BY <3>1, <3>3, ElsewhereOfTwo
    <3> QED BY <3>4
  <2> QED BY <2>1, <2>2
<1> HIDE DEF S
<1>2. Expr \subseteq S
  BY <1>1, BySize
<1> QED BY <1>2 DEF S

\* A node of a tree says: it and something else.
LEMMA NodeValue ==
  ASSUME NEW w, Trees, Names(w), Values(w), IsOperands, NEW op \in Ops
  PROVE  \A e \in Expr : \A range \in Int \X Int :
           /\ node[op][e][range] \in Expr
           /\ \E c \in Tri : V[w][e] = Val(op, V[w][node[op][e][range]], c)
<1> DEFINE P(e, range) == /\ node[op][e][range] \in Expr
                          /\ \E c \in Tri : V[w][e] = Val(op, V[w][node[op][e][range]], c)
           S == {e \in Expr : \A range \in Int \X Int : P(e, range)}
<1>0. ASSUME NEW e \in Expr, NEW range \in Int \X Int, node[op][e][range] = e PROVE P(e, range)
  <2>1. Val(op, V[w][e], V[w][e]) = V[w][e] /\ V[w][e] \in Tri
    BY InTri, ValFacts
  <2> QED BY <1>0, <2>1
<1>1. ASSUME NEW e \in Expr, \A f \in Expr : size[f] < size[e] => f \in S PROVE e \in S
  <2>1. CASE e.op # op
    BY <1>0, <2>1, OperandsOfOne
  <2>2. CASE e.op = op
    <3>1. e.a \in Expr /\ e.b \in Expr /\ e = Two(op, e.a, e.b)
      BY <2>2, Operand
    <3>2. size[e.a] < size[e] /\ size[e.b] < size[e]
      BY <3>1, SmallerOperands
    <3>3. e.a \in S /\ e.b \in S
      BY <1>1, <3>1, <3>2
    <3>4. /\ cnt[op][e.a] \in Nat /\ V[w][e.a] \in Tri /\ V[w][e.b] \in Tri
          /\ V[w][e] = Val(op, V[w][e.a], V[w][e.b])
      BY <3>1, CountPositive, InTri, TwoValue
    <3>5. ASSUME NEW range \in Int \X Int PROVE P(e, range)
      <4> DEFINE r == <<range[1] - cnt[op][e.a], range[2] - cnt[op][e.a]>>
      <4>1. r \in Int \X Int
        BY <3>4
      <4> HIDE DEF r
      <4>2. \/ node[op][e][range] = e
            \/ node[op][e][range] = node[op][e.a][range]
            \/ node[op][e][range] = node[op][e.b][r]
        BY <3>1, OperandsOfTwo DEF r
      <4>3. CASE node[op][e][range] = e
        BY <1>0, <4>3
      <4>4. CASE node[op][e][range] = node[op][e.a][range]
        <5> DEFINE x == node[op][e.a][range]
        <5>1. PICK c \in Tri : V[w][e.a] = Val(op, V[w][x], c)
          BY <3>3
        <5>2. x \in Expr
          BY <3>3
        <5> HIDE DEF x
        <5>3. Val(op, c, V[w][e.b]) \in Tri /\ V[w][e] = Val(op, V[w][x], Val(op, c, V[w][e.b]))
          BY <3>4, <5>1, <5>2, InTri, ValFacts, ValAssoc
        <5> QED BY <4>4, <5>2, <5>3 DEF x
      <4>5. CASE node[op][e][range] = node[op][e.b][r]
        <5> DEFINE x == node[op][e.b][r]
        <5>1. PICK c \in Tri : V[w][e.b] = Val(op, V[w][x], c)
          BY <3>3, <4>1
        <5>2. x \in Expr
          BY <3>3, <4>1
        <5> HIDE DEF x
        <5>3. Val(op, c, V[w][e.a]) \in Tri /\ V[w][e] = Val(op, V[w][x], Val(op, c, V[w][e.a]))
          <6>1. V[w][e] = Val(op, V[w][e.b], V[w][e.a])
            BY <3>4, ValFacts
          <6> QED BY <3>4, <5>1, <5>2, <6>1, InTri, ValFacts, ValAssoc
        <5> QED BY <4>5, <5>2, <5>3 DEF x
      <4> QED BY <4>2, <4>3, <4>4, <4>5
    <3> QED BY <3>5
  <2> QED BY <2>1, <2>2
<1> HIDE DEF S
<1>2. Expr \subseteq S
  BY <1>1, BySize
<1> QED BY <1>2 DEF S

-----------------------------------------------------------------------------
(* The first pass.                                                         *)

\* t is a tree of the same operator, with as many operands, that says the same
\* as e, and is no larger.
Kept(w, op, e, t) == /\ t \in Expr /\ (e.op = op => t.op = op) /\ cnt[op][t] = cnt[op][e]
                     /\ V[w][t] = V[w][e] /\ size[t] <= size[e]

\* What two steps keep one after the other is kept.
LEMMA KeptTransitive ==
  ASSUME Trees, NEW w, NEW op, NEW e \in Expr, NEW f, NEW g, Kept(w, op, e, f), Kept(w, op, f, g)
  PROVE  Kept(w, op, e, g)
<1>1. f \in Expr /\ g \in Expr
  BY DEF Kept
<1>2. size[e] \in Nat /\ size[f] \in Nat /\ size[g] \in Nat
  BY <1>1 DEF Trees
<1>3. size[f] <= size[e] /\ size[g] <= size[f]
  BY DEF Kept
<1>4. size[g] <= size[e]
  BY <1>2, <1>3
<1> QED BY <1>4 DEF Kept

\* A single node is no && or ||.
LEMMA SmallIsPlain ==
  ASSUME Trees, NEW x \in Expr, size[x] = 1
  PROVE  x.op \notin Ops
<1>1. SUFFICES ASSUME x.op \in Ops PROVE FALSE
  OBVIOUS
<1>2. x.a \in Expr /\ x.b \in Expr /\ x = Two(x.op, x.a, x.b)
  BY <1>1, Operand
<1>3. size[x] = size[x.a] + size[x.b] + 1
  BY <1>1, <1>2, SizeOfTwo
<1>4. size[x.a] \in Nat \ {0} /\ size[x.b] \in Nat \ {0}
  BY <1>2 DEF Trees
<1> QED BY <1>3, <1>4

\* An operand may be replaced by one of its value that is no larger.
LEMMA OneReplaced ==
  ASSUME NEW w, Trees, Names(w), Values(w), IsOperands, NEW op \in Ops,
         NEW e \in Expr, NEW i \in 1..cnt[op][e], NEW x \in Expr, x.op # op,
         V[w][x] = V[w][opd[op][e][i]], size[x] <= size[opd[op][e][i]]
  PROVE  Kept(w, op, e, put[op][e][i][x])
<1> DEFINE t == put[op][e][i][x]
<1>1. Hole(w, op, e, i)
  BY Holes
<1>2. PICK c \in Tri, k \in Nat :
        /\ V[w][e] = Val(op, V[w][opd[op][e][i]], c)
        /\ size[e] = size[opd[op][e][i]] + k
        /\ t \in Expr /\ (e.op = op => t.op = op)
        /\ V[w][t] = Val(op, V[w][x], c)
        /\ size[t] = size[x] + k
  BY <1>1 DEF Hole
<1>3. cnt[op][t] = cnt[op][e]
  BY AllElsewhere DEF Elsewhere
<1>4. size[x] \in Nat /\ size[opd[op][e][i]] \in Nat
  BY <1>1 DEF Trees, Hole
<1>5. size[t] <= size[e]
  BY <1>2, <1>4
<1> HIDE DEF t
<1>6. Kept(w, op, e, t)
  BY <1>2, <1>3, <1>5 DEF Kept
<1> QED BY <1>6 DEF t

\* Two operands may be replaced by one that says what both say.
LEMMA TwoReplaced ==
  ASSUME NEW w, Trees, Names(w), Values(w), IsOperands, NEW op \in Ops,
         NEW e \in Expr, NEW i \in 1..cnt[op][e], NEW j \in 1..cnt[op][e], i # j,
         NEW x \in Expr, x.op # op,
         V[w][x] = Val(op, V[w][opd[op][e][i]], V[w][opd[op][e][j]]),
         size[x] <= size[opd[op][e][i]]
  PROVE  Kept(w, op, e, put[op][put[op][e][i][Neutral(op)]][j][x])
<1> DEFINE a == opd[op][e][i]
           b == opd[op][e][j]
           t == put[op][e][i][Neutral(op)]
           r == put[op][t][j][x]
<1>0. /\ Neutral(op) \in Expr /\ Neutral(op).op # op /\ size[Neutral(op)] = 1
      /\ \A v \in Tri : Val(op, V[w][Neutral(op)], v) = v
  BY NeutralFacts DEF Binary, Ops
<1>1. Hole(w, op, e, i) /\ Hole(w, op, e, j)
  BY Holes
<1>2. a \in Expr /\ b \in Expr
  BY <1>1 DEF Hole
<1>3. /\ t \in Expr /\ cnt[op][t] = cnt[op][e] /\ opd[op][t][j] = b
      /\ e.op = op => t.op = op
  <2>1. t \in Expr /\ (e.op = op => t.op = op)
    BY <1>0, <1>1 DEF Hole
  <2>2. Elsewhere(op, e, i)
    BY AllElsewhere
  <2> QED BY <1>0, <2>1, <2>2 DEF Elsewhere
<1>4. PICK c \in Tri, k \in Nat :
        /\ V[w][e] = Val(op, V[w][a], c) /\ size[e] = size[a] + k
        /\ V[w][t] = Val(op, V[w][Neutral(op)], c)
        /\ size[t] = size[Neutral(op)] + k
  BY <1>0, <1>1 DEF Hole
<1> HIDE DEF a, b, t
<1>5. Hole(w, op, t, j)
  BY <1>3, Holes
<1>6. PICK d \in Tri, l \in Nat :
        /\ V[w][t] = Val(op, V[w][b], d) /\ size[t] = size[b] + l
        /\ r \in Expr /\ (t.op = op => r.op = op)
        /\ V[w][r] = Val(op, V[w][x], d) /\ size[r] = size[x] + l
  BY <1>3, <1>5 DEF Hole
<1>7. cnt[op][r] = cnt[op][t]
  BY <1>3, AllElsewhere DEF Elsewhere
<1>8. V[w][a] \in Tri /\ V[w][b] \in Tri /\ V[w][x] = Val(op, V[w][a], V[w][b])
  BY <1>2, InTri DEF a, b
<1>9. V[w][r] = V[w][e]
  <2>1. Val(op, V[w][b], d) = c
    BY <1>0, <1>4, <1>6
  <2>2. V[w][r] = Val(op, V[w][a], Val(op, V[w][b], d))
    BY <1>6, <1>8, ValAssoc
  <2> QED BY <1>4, <2>1, <2>2
<1>10. size[r] <= size[e]
  <2>1. size[a] \in Nat \ {0} /\ size[b] \in Nat \ {0} /\ size[x] \in Nat /\ size[x] <= size[a]
    BY <1>2 DEF Trees, a
  <2> QED BY <1>0, <1>4, <1>6, <2>1
<1> HIDE DEF r
<1>11. Kept(w, op, e, r)
  BY <1>3, <1>6, <1>7, <1>9, <1>10 DEF Kept
<1> QED BY <1>11 DEF r, t

\* A pass starts with the tree and no change counted, and goes on pair by pair.
Start(e) == [e |-> e, n |-> 0]
Pair(op, t, i, j) ==
  JoinPair(op, t, i, j, LAMBDA f : d1[f], LAMBDA f, k : opd[op][f][k],
           LAMBDA f, k, x : put[op][f][k][x], LAMBDA f, g : JoinBy(eq, op, f, g))
\* The first pass ends after some steps, each for a pair of operands.
IsDups1 ==
  \A e \in Expr :
    /\ ~Binary(e) => d1[e] = Start(e)
    /\ Binary(e) =>
         \E m \in Nat : \E t :
           /\ t[0] = Start(e) /\ t[m] = d1[e]
           /\ \A k \in 1..m : \E i, j \in 1..cnt[e.op][e] : t[k] = Pair(e.op, t[k - 1], i, j)

\* What a pass that leaves t does to e.
Passed(w, e, t) == /\ t.e \in Expr /\ t.e.op = e.op
                   /\ V[w][t.e] = V[w][e] /\ size[t.e] <= size[e]

\* A step of the first pass keeps the value.
LEMMA PairKeeps ==
  ASSUME NEW w, Trees, Names(w), Values(w), IsOperands, IsEliminate(elim, both, eq, yn),
         NEW e \in Expr, e.op \in Ops, NEW t, Kept(w, e.op, e, t.e),
         \A f \in Expr : size[f] < size[e] => Passed(w, f, d1[f]),
         NEW i \in 1..cnt[e.op][e], NEW j \in 1..cnt[e.op][e]
  PROVE  Kept(w, e.op, e, Pair(e.op, t, i, j).e)
<1> DEFINE op == e.op
           x == opd[op][t.e][i]
           y == opd[op][t.e][j]
           own == d1[x]
           one == JoinBy(eq, op, own.e, y)
           p == Pair(op, t, i, j).e
<1>1. /\ t.e \in Expr /\ t.e.op = op /\ cnt[op][t.e] = cnt[op][e] /\ size[t.e] <= size[e]
      /\ op \in Ops
  BY DEF Kept
<1>2. Hole(w, op, t.e, i) /\ Hole(w, op, t.e, j)
  BY <1>1, Holes
<1>3. x \in Expr /\ x.op # op /\ y \in Expr /\ y.op # op
  BY <1>2 DEF Hole
<1>4. size[x] < size[e]
  <2>1. PICK k \in Nat : k > 0 /\ size[t.e] = size[x] + k
    BY <1>1, <1>2 DEF Hole
  <2>2. size[x] \in Nat /\ size[e] \in Nat /\ size[t.e] \in Nat
    BY <1>1, <1>3 DEF Trees
  <2> HIDE DEF x
  <2> QED BY <1>1, <2>1, <2>2
<1>5. /\ own.e \in Expr /\ own.e.op = x.op
      /\ V[w][own.e] = V[w][x] /\ size[own.e] <= size[x]
  BY <1>3, <1>4 DEF Passed
<1>6. /\ i = j => p = t.e
      /\ i # j /\ one = NoExpr => p = put[op][t.e][i][own.e]
      /\ i # j /\ one # NoExpr => p = put[op][put[op][t.e][i][Neutral(op)]][j][one]
  BY DEF Pair, JoinPair, Bind
<1>7. ASSUME one # NoExpr
      PROVE  /\ one \in Expr /\ V[w][one] = Val(op, V[w][own.e], V[w][y])
             /\ one = own.e \/ size[one] = 1
  <2> DEFINE o == own.e
  <2>1. o \in Expr /\ y \in Expr
    BY <1>3, <1>5
  <2> HIDE DEF o, y, op
  <2>2. JoinBy(eq, op, o, y) # NoExpr
    BY <1>7 DEF o
  <2>3. /\ JoinBy(eq, op, o, y) \in Expr
        /\ JoinBy(eq, op, o, y) = o \/ size[JoinBy(eq, op, o, y)] = 1
        /\ V[w][JoinBy(eq, op, o, y)] = Val(op, V[w][o], V[w][y])
    BY <1>1, <2>1, <2>2, JoinSound
  <2> QED BY <2>3 DEF o
<1> HIDE DEF one, own, p
<1>8. CASE i = j
  BY <1>6, <1>8 DEF p
<1>9. CASE i # j /\ one = NoExpr
  <2>1. Kept(w, op, t.e, put[op][t.e][i][own.e])
    BY <1>1, <1>3, <1>5, OneReplaced
  <2>2. Kept(w, op, e, put[op][t.e][i][own.e])
    BY <1>1, <2>1, KeptTransitive
  <2> QED BY <1>6, <1>9, <2>2 DEF p
<1>10. CASE i # j /\ one # NoExpr
  <2>1. size[x] \in Nat \ {0}
    BY <1>3 DEF Trees
  <2>2. one \in Expr /\ one.op # op
    BY <1>1, <1>3, <1>5, <1>7, <1>10, SmallIsPlain
  <2>3. size[one] <= size[x]
    BY <1>5, <1>7, <1>10, <2>1
  <2>4. V[w][one] = Val(op, V[w][x], V[w][y])
    BY <1>5, <1>7, <1>10
  <2>5. Kept(w, op, t.e, put[op][put[op][t.e][i][Neutral(op)]][j][one])
    BY <1>1, <1>10, <2>2, <2>3, <2>4, TwoReplaced
  <2>6. Kept(w, op, e, put[op][put[op][t.e][i][Neutral(op)]][j][one])
    BY <1>1, <2>5, KeptTransitive
  <2> QED BY <1>6, <1>10, <2>6 DEF p
<1> QED BY <1>8, <1>9, <1>10

\* What holds at first and stays so holds at last.
LEMMA InSteps ==
  ASSUME NEW m \in Nat, NEW T, 0 \in T, \A k \in 1..m : k - 1 \in T => k \in T
  PROVE  m \in T
<1>1. SUFFICES ASSUME m \notin T PROVE FALSE
  OBVIOUS
<1> DEFINE U == {k \in 0..m : k \notin T}
<1>2. U \subseteq Nat /\ U # {}
  BY <1>1
<1>3. PICK k \in U : \A l \in U : k <= l
  BY <1>2, LeastElement
<1>4. k \in 1..m /\ k - 1 \in 0..m /\ ~(k <= k - 1)
  BY <1>3
<1> QED BY <1>3, <1>4

\* The first pass of expr_eliminate_dups keeps the value of every expression.
THEOREM Dups1Sound ==
  ASSUME NEW w, Trees, Names(w), Values(w), IsOperands, IsEliminate(elim, both, eq, yn), IsDups1
  PROVE  \A e \in Expr : Passed(w, e, d1[e])
<1> DEFINE S == {e \in Expr : Passed(w, e, d1[e])}
<1>1. ASSUME NEW e \in Expr, \A f \in Expr : size[f] < size[e] => f \in S PROVE e \in S
  <2>1. CASE ~Binary(e)
    <3>1. d1[e] = Start(e) /\ Start(e).e = e
      BY <2>1 DEF IsDups1, Start
    <3>2. size[e] \in Nat
      BY DEF Trees
    <3> QED BY <3>1, <3>2 DEF Passed
  <2>2. CASE Binary(e)
    <3>1a. PICK m \in Nat : \E t :
            /\ t[0] = Start(e) /\ t[m] = d1[e]
            /\ \A k \in 1..m : \E i, j \in 1..cnt[e.op][e] : t[k] = Pair(e.op, t[k - 1], i, j)
      BY <2>2 DEF IsDups1
    <3>1. PICK t :
            /\ t[0] = Start(e) /\ t[m] = d1[e]
            /\ \A k \in 1..m : \E i, j \in 1..cnt[e.op][e] : t[k] = Pair(e.op, t[k - 1], i, j)
      BY <3>1a
    <3>2. e.op \in Ops
      BY <2>2, BinaryOp
    <3> DEFINE T == {k \in 0..m : Kept(w, e.op, e, t[k].e)}
    <3>3. 0 \in T
      <4>1. t[0].e = e /\ size[e] \in Nat
        BY <3>1 DEF Start, Trees
      <4> QED BY <4>1 DEF Kept
    <3>4. \A f \in Expr : size[f] < size[e] => Passed(w, f, d1[f])
      BY <1>1
    <3>5. ASSUME NEW k \in 1..m, k - 1 \in T PROVE k \in T
      <4>1. PICK i \in 1..cnt[e.op][e], j \in 1..cnt[e.op][e] : t[k] = Pair(e.op, t[k - 1], i, j)
        BY <3>1
      <4>2. Kept(w, e.op, e, t[k - 1].e)
        BY <3>5
      <4>3. Kept(w, e.op, e, t[k].e)
        BY <3>2, <3>4, <4>1, <4>2, PairKeeps
      <4> QED BY <4>3
    <3> HIDE DEF T
    <3>6. m \in T
      BY <3>3, <3>5, InSteps
    <3>7. Kept(w, e.op, e, d1[e].e)
      BY <3>1, <3>6 DEF T
    <3> QED BY <3>7 DEF Kept, Passed
  <2> QED BY <2>1, <2>2
<1> HIDE DEF S
<1>2. Expr \subseteq S
  BY <1>1, BySize
<1> QED BY <1>2 DEF S

-----------------------------------------------------------------------------
(* What two trees have in common.                                          *)

\* One pair of operands in expr_extract_eq.
Extract(op, x, i, j) ==
  ExtractPair(op, x, i, j, LAMBDA g, h : eq[g][h], LAMBDA g, k : opd[op][g][k],
              LAMBDA g, k, y : put[op][g][k][y])
\* expr_extract_eq takes operands out of both trees, a pair at a time.
IsExtract ==
  \A op \in Ops : \A e, f \in Expr :
    \E m \in Nat : \E x :
      /\ x[0] = [ex |-> NoExpr, e |-> e, f |-> f]
      /\ ext[op][e][f] = Extracted(x[m], LAMBDA g : yn[g])
      /\ \A k \in 1..m : \E i \in 1..cnt[op][e], j \in 1..cnt[op][f] :
           x[k] = Extract(op, x[k - 1], i, j)

\* The trees that are left, and something that went out of both.
Split(w, op, e, f, x) ==
  /\ x.e \in Expr /\ cnt[op][x.e] = cnt[op][e]
  /\ x.f \in Expr /\ cnt[op][x.f] = cnt[op][f]
  /\ \E c \in Tri : V[w][e] = Val(op, V[w][x.e], c) /\ V[w][f] = Val(op, V[w][x.f], c)

\* A tree is its i-th operand and what it is without it.
LEMMA TakenOut ==
  ASSUME NEW w, Trees, Names(w), Values(w), IsOperands, NEW op \in Ops,
         NEW e \in Expr, NEW i \in 1..cnt[op][e]
  PROVE  /\ put[op][e][i][Neutral(op)] \in Expr
         /\ cnt[op][put[op][e][i][Neutral(op)]] = cnt[op][e]
         /\ opd[op][e][i] \in Expr
         /\ V[w][e] = Val(op, V[w][opd[op][e][i]], V[w][put[op][e][i][Neutral(op)]])
<1>0. /\ Neutral(op) \in Expr /\ Neutral(op).op # op
      /\ \A v \in Tri : Val(op, V[w][Neutral(op)], v) = v
  BY NeutralFacts DEF Binary, Ops
<1>1. Hole(w, op, e, i) /\ Elsewhere(op, e, i)
  BY Holes, AllElsewhere
<1>2. cnt[op][put[op][e][i][Neutral(op)]] = cnt[op][e]
  BY <1>0, <1>1 DEF Elsewhere
<1>3. PICK c \in Tri :
        /\ V[w][e] = Val(op, V[w][opd[op][e][i]], c)
        /\ put[op][e][i][Neutral(op)] \in Expr
        /\ V[w][put[op][e][i][Neutral(op)]] = Val(op, V[w][Neutral(op)], c)
  BY <1>0, <1>1 DEF Hole
<1>4. opd[op][e][i] \in Expr
  BY <1>1 DEF Hole
<1>5. V[w][put[op][e][i][Neutral(op)]] = c
  BY <1>0, <1>3
<1> QED BY <1>2, <1>3, <1>4, <1>5

\* A step of expr_extract_eq takes the same out of both.
LEMMA ExtractSplits ==
  ASSUME NEW w, Trees, Names(w), Values(w), IsOperands, IsEliminate(elim, both, eq, yn),
         NEW op \in Ops, NEW e \in Expr, NEW f \in Expr, NEW x, Split(w, op, e, f, x),
         NEW i \in 1..cnt[op][e], NEW j \in 1..cnt[op][f]
  PROVE  Split(w, op, e, f, Extract(op, x, i, j))
<1> DEFINE a == opd[op][x.e][i]
           b == opd[op][x.f][j]
           g == put[op][x.e][i][Neutral(op)]
           h == put[op][x.f][j][Neutral(op)]
           y == Extract(op, x, i, j)
<1>1. y = x \/ (eq[a][b] /\ y.e = g /\ y.f = h)
  BY DEF Extract, ExtractPair
<1>2. PICK c \in Tri : V[w][e] = Val(op, V[w][x.e], c) /\ V[w][f] = Val(op, V[w][x.f], c)
  BY DEF Split
<1>3. x.e \in Expr /\ i \in 1..cnt[op][x.e] /\ x.f \in Expr /\ j \in 1..cnt[op][x.f]
  BY DEF Split
<1>4. /\ g \in Expr /\ cnt[op][g] = cnt[op][e] /\ a \in Expr
      /\ V[w][x.e] = Val(op, V[w][a], V[w][g])
  BY <1>3, TakenOut DEF Split
<1>5. /\ h \in Expr /\ cnt[op][h] = cnt[op][f] /\ b \in Expr
      /\ V[w][x.f] = Val(op, V[w][b], V[w][h])
  BY <1>3, TakenOut DEF Split
<1> HIDE DEF a, b, g, h, y
<1>6. CASE y = x
  BY <1>6 DEF y
<1>7. CASE eq[a][b] /\ y.e = g /\ y.f = h
  <2>1. V[w][a] = V[w][b]
    BY <1>4, <1>5, <1>7, EqualInValue
  <2>2. V[w][a] \in Tri /\ V[w][g] \in Tri /\ V[w][h] \in Tri
    BY <1>4, <1>5, InTri
  <2> DEFINE d == Val(op, V[w][a], c)
  <2>3. d \in Tri
    BY <2>2, ValFacts
  <2>4. ASSUME NEW v \in Tri PROVE Val(op, Val(op, V[w][a], v), c) = Val(op, v, d)
    <3>1. Val(op, V[w][a], v) = Val(op, v, V[w][a])
      BY <2>2, ValFacts
    <3> QED BY <2>2, <3>1, ValAssoc
  <2>5. V[w][e] = Val(op, V[w][y.e], d) /\ V[w][f] = Val(op, V[w][y.f], d)
    BY <1>2, <1>4, <1>5, <1>7, <2>1, <2>2, <2>4
  <2> HIDE DEF d
  <2>6. Split(w, op, e, f, y)
    BY <1>4, <1>5, <1>7, <2>3, <2>5 DEF Split
  <2> QED BY <2>6 DEF y
<1> QED BY <1>1, <1>6, <1>7

\* If nothing is left of the first tree, the second says it already.
LEMMA ExtractSound ==
  ASSUME NEW w, Trees, Names(w), Values(w), IsOperands, IsEliminate(elim, both, eq, yn), IsExtract,
         NEW op \in Ops, NEW e \in Expr, NEW f \in Expr, ext[op][e][f][2] = Neutral(op)
  PROVE  V[w][f] = Val(op, V[w][e], V[w][f])
<1>1a. PICK m \in Nat : \E x :
        /\ x[0] = [ex |-> NoExpr, e |-> e, f |-> f]
        /\ ext[op][e][f] = Extracted(x[m], LAMBDA g : yn[g])
        /\ \A k \in 1..m : \E i \in 1..cnt[op][e], j \in 1..cnt[op][f] :
             x[k] = Extract(op, x[k - 1], i, j)
  BY DEF IsExtract
<1>1. PICK x :
        /\ x[0] = [ex |-> NoExpr, e |-> e, f |-> f]
        /\ ext[op][e][f] = Extracted(x[m], LAMBDA g : yn[g])
        /\ \A k \in 1..m : \E i \in 1..cnt[op][e], j \in 1..cnt[op][f] :
             x[k] = Extract(op, x[k - 1], i, j)
  BY <1>1a
<1> DEFINE T == {k \in 0..m : Split(w, op, e, f, x[k])}
<1>0. /\ \A v \in Tri : Val(op, V[w][Neutral(op)], v) = v
      /\ Neutral(op) \in Expr
  BY NeutralFacts
<1>2. 0 \in T
  <2>1. x[0].e = e /\ x[0].f = f
    BY <1>1
  <2>2. V[w][Neutral(op)] \in Tri /\ V[w][e] \in Tri /\ V[w][f] \in Tri
    BY <1>0, InTri
  <2>3. /\ V[w][e] = Val(op, V[w][e], V[w][Neutral(op)])
        /\ V[w][f] = Val(op, V[w][f], V[w][Neutral(op)])
    BY <1>0, <2>2, ValFacts
  <2>4. Split(w, op, e, f, x[0])
    BY <2>1, <2>2, <2>3 DEF Split
  <2> QED BY <2>4
<1>3. ASSUME NEW k \in 1..m, k - 1 \in T PROVE k \in T
  <2>1. PICK i \in 1..cnt[op][e], j \in 1..cnt[op][f] : x[k] = Extract(op, x[k - 1], i, j)
    BY <1>1
  <2>2. Split(w, op, e, f, x[k - 1])
    BY <1>3
  <2>3. Split(w, op, e, f, x[k])
    BY <2>1, <2>2, ExtractSplits
  <2> QED BY <2>3
<1> HIDE DEF T
<1>4. m \in T
  BY <1>2, <1>3, InSteps
<1> DEFINE y == x[m]
<1>5. PICK c \in Tri : /\ y.e \in Expr /\ y.f \in Expr
                       /\ V[w][e] = Val(op, V[w][y.e], c) /\ V[w][f] = Val(op, V[w][y.f], c)
  BY <1>4 DEF T, Split
<1>6. V[w][y.e] = V[w][Neutral(op)]
  <2>1. ext[op][e][f][2] = y.e \/ ext[op][e][f][2] = yn[y.e]
    BY <1>1 DEF Extracted
  <2>2. V[w][yn[y.e]] = V[w][y.e]
    <3>1. IsYn(yn)
      BY DEF IsEliminate
    <3>2. \A g \in Expr : V[w][yn[g]] = V[w][g]
      BY <3>1, YnKeepsValue
    <3> HIDE DEF y
    <3> QED BY <1>5, <3>2
  <2> QED BY <2>1, <2>2
<1> HIDE DEF y
<1>7. V[w][y.f] \in Tri
  BY <1>5, InTri
<1>8. V[w][e] = c
  BY <1>0, <1>5, <1>6
<1>9. Val(op, c, Val(op, V[w][y.f], c)) = Val(op, V[w][y.f], c)
  <2>1. /\ Val(op, V[w][y.f], c) = Val(op, c, V[w][y.f])
        /\ Val(op, c, c) = c
    BY <1>7, ValFacts
  <2>2. Val(op, Val(op, c, c), V[w][y.f]) = Val(op, c, Val(op, c, V[w][y.f]))
    BY <1>7, ValAssoc
  <2> QED BY <2>1, <2>2
<1> QED BY <1>5, <1>8, <1>9

-----------------------------------------------------------------------------
(* The second pass.                                                        *)

\* One operand and one node in the second pass.
Deny(op, t, i, range) ==
  DenyPair(op, t, i, range, LAMBDA f : d2[f], LAMBDA f, k : opd[op][f][k],
           LAMBDA f, k, x : put[op][f][k][x], LAMBDA f, r : node[op][f][r],
           LAMBDA f : tr[f], LAMBDA f, g : ext[op][f][g])
\* The second pass ends after some steps, each for an operand and a node.
IsDups2 ==
  \A e \in Expr :
    /\ ~Binary(e) => d2[e] = Start(e)
    /\ Binary(e) =>
         \E m \in Nat : \E t :
           /\ t[0] = Start(e) /\ t[m] = d2[e]
           /\ \A k \in 1..m : \E i \in 1..cnt[e.op][e], range \in Int \X Int :
                t[k] = Deny(e.op, t[k - 1], i, range)

\* What is denied by what it stands with is n, or y under ||.
LEMMA Denied ==
  ASSUME NEW op \in Ops, NEW o \in {no, yes}, NEW c \in Tri, NEW d \in Tri, NEW u \in Tri, NEW z,
         z = IF op = "and" THEN no ELSE yes,
         Val(op, o, c) = Val(op, u, d), u = Val(op, EXPR_NOT(o), u)
  PROVE  Val(op, o, c) = Val(op, z, c)
BY DEF Ops, Val, EXPR_AND, EXPR_OR, EXPR_NOT, Tri, no, mod, yes

\* A step of the second pass keeps the value.
LEMMA DenyKeeps ==
  ASSUME NEW w, Trees, Names(w), Values(w), TwoValued(w), IsOperands,
         IsEliminate(elim, both, eq, yn), IsExtract, IsTransform(tr),
         NEW e \in Expr, e.op \in Ops, NEW t, Kept(w, e.op, e, t.e),
         \A f \in Expr : size[f] < size[e] => Passed(w, f, d2[f]),
         NEW i \in 1..cnt[e.op][e], NEW range \in Int \X Int
  PROVE  Kept(w, e.op, e, Deny(e.op, t, i, range).e)
<1> DEFINE op == e.op
           x == opd[op][t.e][i]
           own == d2[x]
           r == put[op][t.e][i][own.e]
           p == Deny(op, t, i, range).e
<1>1. /\ t.e \in Expr /\ t.e.op = op /\ cnt[op][t.e] = cnt[op][e] /\ size[t.e] <= size[e]
      /\ op \in Ops
  BY DEF Kept
<1>2. Hole(w, op, t.e, i)
  BY <1>1, Holes
<1>3. x \in Expr /\ x.op # op
  BY <1>2 DEF Hole
<1>4. size[x] < size[e]
  <2>1. PICK k \in Nat : k > 0 /\ size[t.e] = size[x] + k
    BY <1>1, <1>2 DEF Hole
  <2>2. size[x] \in Nat /\ size[e] \in Nat /\ size[t.e] \in Nat
    BY <1>1, <1>3 DEF Trees
  <2> HIDE DEF x
  <2> QED BY <1>1, <2>1, <2>2
<1>5. /\ own.e \in Expr /\ own.e.op = x.op
      /\ V[w][own.e] = V[w][x] /\ size[own.e] <= size[x]
  BY <1>3, <1>4 DEF Passed
<1>6. \/ p = t.e
      \/ p = r
      \/ /\ p = put[op][r][i][Zero(op)]
         /\ ext[op][tr[Not(own.e)]][node[op][r][range]][2] = Neutral(op)
  BY DEF Deny, DenyPair, Bind
<1> HIDE DEF own, p
<1>7. Kept(w, op, t.e, r)
  BY <1>1, <1>3, <1>5, OneReplaced
<1>8. Kept(w, op, e, r)
  BY <1>1, <1>7, KeptTransitive
<1>9. CASE p = t.e
  BY <1>9 DEF p
<1>10. CASE p = r
  BY <1>8, <1>10 DEF p
<1>11. CASE /\ p = put[op][r][i][Zero(op)]
            /\ ext[op][tr[Not(own.e)]][node[op][r][range]][2] = Neutral(op)
  <2> DEFINE o == own.e
             n == node[op][r][range]
             z == put[op][r][i][Zero(op)]
  <2>0. /\ r \in Expr /\ cnt[op][r] = cnt[op][t.e] /\ opd[op][r][i] = o /\ (r.op = op)
        /\ o \in Expr /\ i \in 1..cnt[op][r]
    <3>1. Elsewhere(op, t.e, i)
      BY <1>1, AllElsewhere
    <3> QED BY <1>1, <1>3, <1>5, <1>7, <3>1 DEF Elsewhere, Kept
  <2>1. /\ Zero(op) \in Expr /\ Zero(op).op # op /\ size[Zero(op)] = 1
        /\ V[w][Zero(op)] = IF op = "and" THEN no ELSE yes
    <3>1. Zero(op) \in Expr /\ size[Zero(op)] = 1 /\ ~Binary(Zero(op))
      BY <1>1, NeutralFacts
    <3>2. V[w][Zero(op)] = IF op = "and" THEN no ELSE yes
      BY ConstValues, Zenon DEF Zero
    <3> QED BY <1>1, <3>1, <3>2 DEF Binary, Ops
  <2>2. Hole(w, op, r, i) /\ Elsewhere(op, r, i)
    BY <1>1, <2>0, Holes, AllElsewhere
  <2> HIDE DEF r, o, op
  <2>3. PICK c \in Tri, k \in Nat :
          /\ V[w][r] = Val(op, V[w][o], c) /\ size[r] = size[o] + k
          /\ z \in Expr /\ (r.op = op => z.op = op)
          /\ V[w][z] = Val(op, V[w][Zero(op)], c) /\ size[z] = size[Zero(op)] + k
    BY <2>0, <2>1, <2>2 DEF Hole
  <2>4. cnt[op][z] = cnt[op][r]
    BY <2>1, <2>2 DEF Elsewhere
  <2>5. n \in Expr /\ \E d \in Tri : V[w][r] = Val(op, V[w][n], d)
    BY <1>1, <2>0, NodeValue
  <2> HIDE DEF n, z
  <2>6. /\ Not(o) \in Expr /\ V[w][Not(o)] = EXPR_NOT(V[w][o])
        /\ tr[Not(o)] \in Expr /\ V[w][tr[Not(o)]] = V[w][Not(o)]
    <3>1. Not(o) \in Expr /\ V[w][Not(o)] = EXPR_NOT(V[w][o])
      <4>1. Not(o) \in Expr
        BY <2>0 DEF Trees
      <4> QED BY <2>0, <4>1, NotValue
    <3>2. tr[Not(o)] \in Normal /\ V[w][tr[Not(o)]] = V[w][Not(o)]
      BY <3>1, TransformSound
    <3> QED BY <3>1, <3>2, NormalExpr
  <2>7. V[w][n] = Val(op, EXPR_NOT(V[w][o]), V[w][n])
    <3>1. ext[op][tr[Not(o)]][n][2] = Neutral(op)
      BY <1>11 DEF o, n
    <3>2. V[w][n] = Val(op, V[w][tr[Not(o)]], V[w][n])
      BY <1>1, <2>5, <2>6, <3>1, ExtractSound
    <3> QED BY <2>6, <3>2
  <2>8. V[w][z] = V[w][r]
    <3>1. PICK d \in Tri : V[w][r] = Val(op, V[w][n], d)
      BY <2>5
    <3>2. V[w][o] \in {no, yes} /\ V[w][n] \in Tri
      BY <2>0, <2>5, NeverM, InTri
    <3>3. Val(op, V[w][o], c) = Val(op, V[w][n], d)
      BY <2>3, <3>1
    <3>4. Val(op, V[w][o], c) = Val(op, V[w][Zero(op)], c)
      BY <1>1, <2>1, <2>7, <3>2, <3>3, Denied
    <3> QED BY <2>3, <3>4
  <2>9. size[z] <= size[r]
    <3>1. size[o] \in Nat \ {0}
      BY <2>0 DEF Trees
    <3> QED BY <2>1, <2>3, <3>1
  <2>10. Kept(w, op, r, z)
    BY <2>0, <2>3, <2>4, <2>8, <2>9 DEF Kept
  <2>11. Kept(w, op, e, z)
    BY <1>8, <2>0, <2>10, KeptTransitive
  <2> QED BY <1>11, <2>11 DEF p, z, op
<1> QED BY <1>6, <1>9, <1>10, <1>11

\* Where no symbol is m, the second pass keeps the value of every expression.
THEOREM Dups2Sound ==
  ASSUME NEW w, Trees, Names(w), Values(w), TwoValued(w), IsOperands,
         IsEliminate(elim, both, eq, yn), IsExtract, IsTransform(tr), IsDups2
  PROVE  \A e \in Expr : Passed(w, e, d2[e])
<1> DEFINE S == {e \in Expr : Passed(w, e, d2[e])}
<1>1. ASSUME NEW e \in Expr, \A f \in Expr : size[f] < size[e] => f \in S PROVE e \in S
  <2>1. CASE ~Binary(e)
    <3>1. d2[e] = Start(e) /\ Start(e).e = e
      BY <2>1 DEF IsDups2, Start
    <3>2. size[e] \in Nat
      BY DEF Trees
    <3> QED BY <3>1, <3>2 DEF Passed
  <2>2. CASE Binary(e)
    <3>1a. PICK m \in Nat : \E t :
            /\ t[0] = Start(e) /\ t[m] = d2[e]
            /\ \A k \in 1..m : \E i \in 1..cnt[e.op][e], range \in Int \X Int :
                 t[k] = Deny(e.op, t[k - 1], i, range)
      BY <2>2 DEF IsDups2
    <3>1. PICK t :
            /\ t[0] = Start(e) /\ t[m] = d2[e]
            /\ \A k \in 1..m : \E i \in 1..cnt[e.op][e], range \in Int \X Int :
                 t[k] = Deny(e.op, t[k - 1], i, range)
      BY <3>1a
    <3>2. e.op \in Ops
      BY <2>2, BinaryOp
    <3> DEFINE T == {k \in 0..m : Kept(w, e.op, e, t[k].e)}
    <3>3. 0 \in T
      <4>1. t[0].e = e /\ size[e] \in Nat
        BY <3>1 DEF Start, Trees
      <4> QED BY <4>1 DEF Kept
    <3>4. \A f \in Expr : size[f] < size[e] => Passed(w, f, d2[f])
      BY <1>1
    <3>5. ASSUME NEW k \in 1..m, k - 1 \in T PROVE k \in T
      <4>1. PICK i \in 1..cnt[e.op][e], range \in Int \X Int :
              t[k] = Deny(e.op, t[k - 1], i, range)
        BY <3>1
      <4>2. Kept(w, e.op, e, t[k - 1].e)
        BY <3>5
      <4>3. Kept(w, e.op, e, t[k].e)
        BY <3>2, <3>4, <4>1, <4>2, DenyKeeps
      <4> QED BY <4>3
    <3> HIDE DEF T
    <3>6. m \in T
      BY <3>3, <3>5, InSteps
    <3>7. Kept(w, e.op, e, d2[e].e)
      BY <3>1, <3>6 DEF T
    <3> QED BY <3>7 DEF Kept, Passed
  <2> QED BY <2>1, <2>2
<1> HIDE DEF S
<1>2. Expr \subseteq S
  BY <1>1, BySize
<1> QED BY <1>2 DEF S

-----------------------------------------------------------------------------
(* Both passes, until neither changes anything.  Each time they change     *)
(* something, expr_eliminate_yn leaves less than there was.                *)

\* There are constants to take out.
Loose(x) == size[yn[x]] < size[x]
\* expr_eliminate_yn leaves less of x than of e, or x is less itself.
Shorter(e, x) == size[x] < size[e] \/ Loose(x)
\* A pass that has left t counts no change, or its changes can be seen.
Counted(e, t) == /\ t.n \in Nat
                 /\ t.n = 0 => t.e = e
                 /\ t.n > 0 => Shorter(e, t.e)

\* Constants in an operand are constants in the tree.
LEMMA LooseTwo ==
  ASSUME NEW w, Trees, Names(w), Values(w), IsYn(yn), NEW op \in Ops, NEW f \in Expr, NEW g \in Expr,
         Loose(f) \/ Loose(g) \/ Neutral(op) \in {f, g}
  PROVE  Loose(Two(op, f, g))
<1> DEFINE h == Joined(op, yn[f], yn[g])
<1>1. yn[Two(op, f, g)] = h /\ size[Two(op, f, g)] = size[f] + size[g] + 1
  BY YnOfTwo, SizeOfTwo
<1>2. /\ yn[f] \in Expr /\ yn[g] \in Expr
      /\ size[yn[f]] <= size[f] /\ size[yn[g]] <= size[g]
  BY YnKeepsValue
<1>3. h \in Expr /\ size[h] <= size[yn[f]] + size[yn[g]] + 1
  BY <1>2, JoinedValue
<1>4. /\ size[f] \in Nat \ {0} /\ size[g] \in Nat \ {0} /\ size[h] \in Nat
      /\ size[yn[f]] \in Nat \ {0} /\ size[yn[g]] \in Nat \ {0}
  BY <1>2, <1>3 DEF Trees
<1>5. CASE Loose(f) \/ Loose(g)
  <2> HIDE DEF h
  <2> QED BY <1>1, <1>2, <1>3, <1>4, <1>5 DEF Loose
<1>6. CASE Neutral(op) \in {f, g}
  <2>1. yn[Neutral(op)] = Neutral(op) /\ size[Zero(op)] = 1
    BY NeutralFacts, YnOfOne
  <2>2. h \in {Zero(op), yn[f], yn[g]}
    BY <1>6, <2>1 DEF Joined
  <2> HIDE DEF h
  <2> QED BY <1>1, <1>2, <1>4, <2>1, <2>2 DEF Loose
<1> QED BY <1>5, <1>6

\* The i-th operand in its own place leaves the tree as it is; one with constants
\* to take out, or that is the neutral constant itself, leaves some in the tree.
Place(op, e, i) ==
  /\ put[op][e][i][opd[op][e][i]] = e
  /\ \A x \in Expr : Loose(x) \/ (e.op = op /\ x = Neutral(op)) => Loose(put[op][e][i][x])

\* The same for a tree, from the side the operand is in.
LEMMA PlaceOfTwo ==
  ASSUME NEW w, Trees, Names(w), Values(w), IsYn(yn), NEW op \in Ops,
         NEW a \in Expr, NEW b \in Expr, NEW e, NEW i, NEW j, Place(op, a, j), e.op = op,
         Hole(w, op, a, j), opd[op][e][i] = opd[op][a][j],
         a.op = op \/ \A x \in Expr : put[op][a][j][x] = x,
         \/ e = Two(op, a, b) /\ \A x \in Expr : put[op][e][i][x] = Two(op, put[op][a][j][x], b)
         \/ e = Two(op, b, a) /\ \A x \in Expr : put[op][e][i][x] = Two(op, b, put[op][a][j][x])
  PROVE  Place(op, e, i)
<1>1. opd[op][a][j] \in Expr /\ \A x \in Expr : put[op][a][j][x] \in Expr
  BY DEF Hole
<1>2. put[op][e][i][opd[op][e][i]] = e
  BY <1>1 DEF Place
<1>3. ASSUME NEW x \in Expr, Loose(x) \/ x = Neutral(op) PROVE Loose(put[op][e][i][x])
  <2> DEFINE y == put[op][a][j][x]
  <2>1. y \in Expr /\ (Loose(y) \/ y = Neutral(op))
    BY <1>1, <1>3 DEF Place
  <2>2. put[op][e][i][x] = Two(op, y, b) \/ put[op][e][i][x] = Two(op, b, y)
    OBVIOUS
  <2> HIDE DEF y
  <2>3. Loose(Two(op, y, b)) /\ Loose(Two(op, b, y))
    BY <2>1, LooseTwo
  <2> QED BY <2>2, <2>3
<1> QED BY <1>2, <1>3 DEF Place

\* It holds of every operand of every tree.
LEMMA Places ==
  ASSUME NEW w, Trees, Names(w), Values(w), IsOperands, IsYn(yn), NEW op \in Ops
  PROVE  \A e \in Expr : \A i \in 1..cnt[op][e] : Place(op, e, i)
<1> DEFINE S == {e \in Expr : \A i \in 1..cnt[op][e] : Place(op, e, i)}
<1>1. ASSUME NEW e \in Expr, \A f \in Expr : size[f] < size[e] => f \in S PROVE e \in S
  <2>1. CASE e.op # op
    <3>1. /\ cnt[op][e] = 1 /\ opd[op][e][1] = e
          /\ \A x \in Expr : put[op][e][1][x] = x
      BY <2>1, OperandsOfOne
    <3>2. Place(op, e, 1)
      BY <2>1, <3>1 DEF Place
    <3> QED BY <3>1, <3>2
  <2>2. CASE e.op = op
    <3>1. e.a \in Expr /\ e.b \in Expr /\ e = Two(op, e.a, e.b)
      BY <2>2, Operand
    <3>2. size[e.a] < size[e] /\ size[e.b] < size[e]
      BY <3>1, SmallerOperands
    <3>3. e.a \in S /\ e.b \in S
      BY <1>1, <3>1, <3>2
    <3>4. cnt[op][e.a] \in Nat /\ cnt[op][e.b] \in Nat /\ cnt[op][e] = cnt[op][e.a] + cnt[op][e.b]
      BY <3>1, CountPositive, OperandsOfTwo
    <3>5. ASSUME NEW f \in Expr, NEW i \in 1..cnt[op][f]
          PROVE  Hole(w, op, f, i) /\ (f.op = op \/ \A x \in Expr : put[op][f][i][x] = x)
      <4>1. Hole(w, op, f, i)
        BY Holes
      <4> QED BY <4>1, OperandsOfOne
    <3>6. ASSUME NEW i \in 1..cnt[op][e] PROVE Place(op, e, i)
      <4>1. CASE i <= cnt[op][e.a]
        <5>1. i \in 1..cnt[op][e.a] /\ i \in Nat
          BY <3>4, <4>1
        <5>2. /\ Place(op, e.a, i) /\ Hole(w, op, e.a, i)
              /\ e.a.op = op \/ \A x \in Expr : put[op][e.a][i][x] = x
          BY <3>1, <3>3, <3>5, <5>1
        <5>3. /\ opd[op][e][i] = opd[op][e.a][i]
              /\ \A x \in Expr : put[op][e][i][x] = Two(op, put[op][e.a][i][x], e.b)
          BY <3>1, <4>1, <5>1, OperandsOfTwo
        <5> QED BY <2>2, <3>1, <5>2, <5>3, PlaceOfTwo
      <4>2. CASE ~(i <= cnt[op][e.a])
        <5> DEFINE j == i - cnt[op][e.a]
        <5>1. j \in 1..cnt[op][e.b] /\ i \in Nat
          BY <3>4, <4>2
        <5>2. /\ Place(op, e.b, j) /\ Hole(w, op, e.b, j)
              /\ e.b.op = op \/ \A x \in Expr : put[op][e.b][j][x] = x
          BY <3>1, <3>3, <3>5, <5>1
        <5>3. /\ opd[op][e][i] = opd[op][e.b][j]
              /\ \A x \in Expr : put[op][e][i][x] = Two(op, e.a, put[op][e.b][j][x])
          BY <3>1, <4>2, <5>1, OperandsOfTwo
        <5> HIDE DEF j
        <5> QED BY <2>2, <3>1, <5>2, <5>3, PlaceOfTwo
      <4> QED BY <4>1, <4>2
    <3> QED BY <3>6
  <2> QED BY <2>1, <2>2
<1> HIDE DEF S
<1>2. Expr \subseteq S
  BY <1>1, BySize
<1> QED BY <1>2 DEF S

\* An operand that a pass of its own has left, in its place.
LEMMA OneCounted ==
  ASSUME NEW w, Trees, Names(w), Values(w), IsOperands, IsYn(yn), NEW op \in Ops,
         NEW e \in Expr, NEW t, t.e \in Expr, size[t.e] <= size[e], Counted(e, t),
         NEW i \in 1..cnt[op][t.e], NEW own, own.e \in Expr, size[own.e] <= size[opd[op][t.e][i]],
         Counted(opd[op][t.e][i], own), NEW r, r.e = put[op][t.e][i][own.e], r.n = t.n + own.n
  PROVE  Counted(e, r)
<1> DEFINE x == opd[op][t.e][i]
<1>1. Place(op, t.e, i) /\ Hole(w, op, t.e, i)
  BY Places, Holes
<1>2. PICK k \in Nat : /\ size[t.e] = size[x] + k
                       /\ r.e \in Expr /\ size[r.e] = size[own.e] + k
  BY <1>1, Zenon DEF Hole
<1>3. x \in Expr
  BY <1>1, Zenon DEF Hole
<1>4. /\ size[x] \in Nat /\ size[own.e] \in Nat /\ size[t.e] \in Nat /\ size[e] \in Nat
      /\ t.n \in Nat /\ own.n \in Nat
  BY <1>3 DEF Trees, Counted
<1>5. CASE own.n = 0
  <2>1. r.n = t.n
    BY <1>4, <1>5
  <2>2. r.e = t.e
    BY <1>1, <1>5 DEF Counted, Place
  <2> QED BY <2>1, <2>2 DEF Counted
<1>6. CASE own.n > 0
  <2>1. r.n \in Nat /\ r.n > 0
    BY <1>4, <1>6
  <2>2. CASE size[own.e] < size[x]
    <3>1. size[r.e] < size[e]
      BY <1>2, <1>4, <2>2
    <3> QED BY <2>1, <3>1 DEF Counted, Shorter
  <2>3. CASE Loose(own.e)
    <3>1. Loose(r.e)
      BY <1>1, <2>3 DEF Place
    <3> QED BY <2>1, <3>1 DEF Counted, Shorter
  <2> QED BY <1>6, <2>2, <2>3 DEF Counted, Shorter
<1> QED BY <1>4, <1>5, <1>6

\* A step of the first pass counts what it changes.
LEMMA PairCounts ==
  ASSUME NEW w, Trees, Names(w), Values(w), IsOperands, IsEliminate(elim, both, eq, yn), IsYn(yn),
         NEW e \in Expr, e.op \in Ops, NEW t, Kept(w, e.op, e, t.e), Counted(e, t),
         \A f \in Expr : size[f] < size[e] => Passed(w, f, d1[f]) /\ Counted(f, d1[f]),
         NEW i \in 1..cnt[e.op][e], NEW j \in 1..cnt[e.op][e]
  PROVE  Counted(e, Pair(e.op, t, i, j))
<1> DEFINE op == e.op
           x == opd[op][t.e][i]
           own == d1[x]
           one == JoinBy(eq, op, own.e, opd[op][t.e][j])
           p == Pair(op, t, i, j)
<1>1. /\ t.e \in Expr /\ t.e.op = op /\ cnt[op][t.e] = cnt[op][e] /\ size[t.e] <= size[e]
      /\ op \in Ops
  BY DEF Kept
<1>2. Hole(w, op, t.e, i) /\ Hole(w, op, t.e, j)
  BY <1>1, Holes
<1>3. x \in Expr /\ x.op # op /\ opd[op][t.e][j] \in Expr
  BY <1>2, Zenon DEF Hole
<1>4. size[x] < size[e]
  <2>1. PICK k \in Nat : k > 0 /\ size[t.e] = size[x] + k
    BY <1>1, <1>2, Zenon DEF Hole
  <2>2. size[x] \in Nat /\ size[e] \in Nat /\ size[t.e] \in Nat
    BY <1>1, <1>3 DEF Trees
  <2> HIDE DEF x
  <2> QED BY <1>1, <2>1, <2>2
<1>5. /\ own.e \in Expr /\ own.e.op = x.op
      /\ size[own.e] <= size[x] /\ Counted(x, own)
  BY <1>3, <1>4 DEF Passed
<1>6. /\ i = j => p = t
      /\ i # j /\ one = NoExpr => /\ p.e = put[op][t.e][i][own.e]
                                  /\ p.n = t.n + own.n
      /\ i # j /\ one # NoExpr => /\ p.e = put[op][put[op][t.e][i][Neutral(op)]][j][one]
                                  /\ p.n = t.n + own.n + 1
  BY Zenon DEF Pair, JoinPair, Bind
<1>7. ASSUME one # NoExpr PROVE one \in Expr /\ one.op # op
  <2> DEFINE o == own.e
             y == opd[op][t.e][j]
  <2>1. o \in Expr /\ y \in Expr /\ o.op # op
    BY <1>3, <1>5
  <2> HIDE DEF o, y, op
  <2>2. JoinBy(eq, op, o, y) # NoExpr
    BY <1>7 DEF o, y
  <2>3. /\ JoinBy(eq, op, o, y) \in Expr
        /\ JoinBy(eq, op, o, y) = o \/ size[JoinBy(eq, op, o, y)] = 1
    BY <1>1, <2>1, <2>2, JoinSound
  <2>4. JoinBy(eq, op, o, y).op # op
    BY <1>1, <2>1, <2>3, SmallIsPlain
  <2> QED BY <2>3, <2>4 DEF o, y
<1> HIDE DEF one, p
<1>8. CASE i = j
  BY <1>6, <1>8 DEF p
<1>9. CASE i # j /\ one = NoExpr
  <2>1. p.e = put[op][t.e][i][own.e] /\ p.n = t.n + own.n
    BY <1>6, <1>9
  <2> HIDE DEF own, op
  <2>2. Counted(e, p)
    BY <1>1, <1>5, <2>1, OneCounted DEF op
  <2> QED BY <2>2 DEF p, op
<1>10. CASE i # j /\ one # NoExpr
  <2> DEFINE r == put[op][t.e][i][Neutral(op)]
             z == put[op][r][j][one]
  <2>1. Neutral(op) \in Expr /\ Neutral(op).op # op
    BY <1>1, NeutralFacts DEF Binary, Ops
  <2>2. Elsewhere(op, t.e, i)
    BY <1>1, AllElsewhere
  <2>3. /\ r \in Expr /\ r.op = op /\ cnt[op][r] = cnt[op][e] /\ opd[op][r][i] = Neutral(op)
    BY <1>1, <1>2, <2>1, <2>2, Zenon DEF Hole, Elsewhere
  <2> HIDE DEF r, op
  <2>4. Elsewhere(op, r, j) /\ Hole(w, op, r, j)
    BY <1>1, <2>3, AllElsewhere, Holes DEF op
  <2>5. one \in Expr /\ one.op # op
    BY <1>7, <1>10
  <2>6. /\ z \in Expr /\ z.op = op
    BY <2>3, <2>4, <2>5 DEF Hole
  <2>7. cnt[op][z] = cnt[op][e] /\ opd[op][z][i] = Neutral(op)
    BY <1>10, <2>3, <2>4, <2>5 DEF Elsewhere, op
  <2> HIDE DEF z
  <2>8. Place(op, z, i)
    BY <1>1, <2>6, <2>7, Places DEF op
  <2>9. Loose(z)
    BY <2>1, <2>6, <2>7, <2>8 DEF Place
  <2>10. p.e = z /\ p.n = t.n + own.n + 1
    BY <1>6, <1>10, Zenon DEF r, z, op
  <2>11. t.n \in Nat /\ own.n \in Nat
    BY <1>5 DEF Counted
  <2>12. p.n \in Nat /\ p.n > 0
    <3> HIDE DEF own
    <3> QED BY <2>10, <2>11
  <2>13. Counted(e, p)
    BY <2>9, <2>10, <2>12 DEF Counted, Shorter
  <2> QED BY <2>13 DEF p, op
<1> QED BY <1>8, <1>9, <1>10

\* The first pass counts a change exactly if there is one to see.
LEMMA Dups1Counts ==
  ASSUME NEW w, Trees, Names(w), Values(w), IsOperands, IsEliminate(elim, both, eq, yn), IsYn(yn), IsDups1
  PROVE  \A e \in Expr : Counted(e, d1[e])
<1> DEFINE S == {e \in Expr : Counted(e, d1[e])}
<1>1. ASSUME NEW e \in Expr, \A f \in Expr : size[f] < size[e] => f \in S PROVE e \in S
  <2>0. Start(e).e = e /\ Start(e).n = 0 /\ Counted(e, Start(e))
    BY DEF Start, Counted
  <2>1. CASE ~Binary(e)
    <3>1. d1[e] = Start(e)
      BY <2>1 DEF IsDups1
    <3> QED BY <2>0, <3>1
  <2>2. CASE Binary(e)
    <3>1a. PICK m \in Nat : \E t :
            /\ t[0] = Start(e) /\ t[m] = d1[e]
            /\ \A k \in 1..m : \E i, j \in 1..cnt[e.op][e] : t[k] = Pair(e.op, t[k - 1], i, j)
      BY <2>2 DEF IsDups1
    <3>1. PICK t :
            /\ t[0] = Start(e) /\ t[m] = d1[e]
            /\ \A k \in 1..m : \E i, j \in 1..cnt[e.op][e] : t[k] = Pair(e.op, t[k - 1], i, j)
      BY <3>1a
    <3>2. e.op \in Ops
      BY <2>2, BinaryOp
    <3> DEFINE T == {k \in 0..m : Kept(w, e.op, e, t[k].e) /\ Counted(e, t[k])}
    <3>3. 0 \in T
      <4>1. t[0].e = e /\ size[e] \in Nat /\ Counted(e, t[0])
        BY <2>0, <3>1 DEF Trees
      <4> QED BY <4>1 DEF Kept
    <3>4. \A f \in Expr : size[f] < size[e] => Passed(w, f, d1[f]) /\ Counted(f, d1[f])
      BY <1>1, Dups1Sound
    <3>5. ASSUME NEW k \in 1..m, k - 1 \in T PROVE k \in T
      <4>1. PICK i \in 1..cnt[e.op][e], j \in 1..cnt[e.op][e] : t[k] = Pair(e.op, t[k - 1], i, j)
        BY <3>1
      <4>2. Kept(w, e.op, e, t[k - 1].e) /\ Counted(e, t[k - 1])
        BY <3>5
      <4>3. Kept(w, e.op, e, t[k].e)
        BY <3>2, <3>4, <4>1, <4>2, PairKeeps
      <4>4. Counted(e, t[k])
        BY <3>2, <3>4, <4>1, <4>2, PairCounts
      <4> QED BY <4>3, <4>4
    <3> HIDE DEF T
    <3>6. m \in T
      BY <3>3, <3>5, InSteps
    <3> QED BY <3>1, <3>6 DEF T
  <2> QED BY <2>1, <2>2
<1> HIDE DEF S
<1>2. Expr \subseteq S
  BY <1>1, BySize
<1> QED BY <1>2 DEF S

\* A step of the second pass counts what it changes.
LEMMA DenyCounts ==
  ASSUME NEW w, Trees, Names(w), Values(w), IsOperands, IsYn(yn),
         NEW e \in Expr, e.op \in Ops, NEW t, Kept(w, e.op, e, t.e), Counted(e, t),
         \A f \in Expr : size[f] < size[e] => Passed(w, f, d2[f]) /\ Counted(f, d2[f]),
         NEW i \in 1..cnt[e.op][e], NEW range \in Int \X Int
  PROVE  Counted(e, Deny(e.op, t, i, range))
<1> DEFINE op == e.op
           x == opd[op][t.e][i]
           own == d2[x]
           r == put[op][t.e][i][own.e]
           p == Deny(op, t, i, range)
<1>1. /\ t.e \in Expr /\ t.e.op = op /\ cnt[op][t.e] = cnt[op][e] /\ size[t.e] <= size[e]
      /\ op \in Ops
  BY DEF Kept
<1>2. Hole(w, op, t.e, i)
  BY <1>1, Holes
<1>3. x \in Expr /\ x.op # op
  BY <1>2, Zenon DEF Hole
<1>4. size[x] < size[e]
  <2>1. PICK k \in Nat : k > 0 /\ size[t.e] = size[x] + k
    BY <1>1, <1>2, Zenon DEF Hole
  <2>2. size[x] \in Nat /\ size[e] \in Nat /\ size[t.e] \in Nat
    BY <1>1, <1>3 DEF Trees
  <2> HIDE DEF x
  <2> QED BY <1>1, <2>1, <2>2
<1>5. /\ own.e \in Expr /\ own.e.op = x.op
      /\ size[own.e] <= size[x] /\ Counted(x, own)
  BY <1>3, <1>4 DEF Passed
<1>6. \/ p = t
      \/ p.e = r /\ p.n = t.n + own.n
      \/ Binary(x) /\ p.e = put[op][r][i][Zero(op)] /\ p.n = t.n + own.n + 1
  BY Zenon DEF Deny, DenyPair, Bind
<1> HIDE DEF own, p
<1>7. CASE p = t
  BY <1>7 DEF p
<1>8. CASE p.e = r /\ p.n = t.n + own.n
  <2> HIDE DEF op
  <2>1. Counted(e, p)
    BY <1>1, <1>5, <1>8, OneCounted DEF op
  <2> QED BY <2>1 DEF p, op
<1>9. CASE Binary(x) /\ p.e = put[op][r][i][Zero(op)] /\ p.n = t.n + own.n + 1
  <2>0. /\ Zero(op) \in Expr /\ size[Zero(op)] = 1
    BY <1>1, NeutralFacts
  <2>1. PICK k \in Nat : r \in Expr /\ size[t.e] = size[x] + k /\ size[r] = size[own.e] + k
    BY <1>2, <1>5, Zenon DEF Hole
  <2>2. Elsewhere(op, t.e, i)
    BY <1>1, AllElsewhere
  <2>3. cnt[op][r] = cnt[op][e] /\ opd[op][r][i] = own.e
    BY <1>1, <1>3, <1>5, <2>2, Zenon DEF Elsewhere
  <2> HIDE DEF r
  <2>4. Hole(w, op, r, i)
    BY <1>1, <2>1, <2>3, Holes
  <2>5. PICK l \in Nat : size[r] = size[own.e] + l /\ size[p.e] = size[Zero(op)] + l
    BY <1>9, <2>0, <2>3, <2>4 DEF Hole
  <2>6. size[own.e] > 1
    <3>1. own.e.op \in Ops
      BY <1>5, <1>9, BinaryOp
    <3>2. size[own.e] \in Nat \ {0}
      BY <1>5 DEF Trees
    <3>3. size[own.e] # 1
      BY <1>5, <3>1, SmallIsPlain
    <3> QED BY <3>2, <3>3
  <2>7. /\ size[x] \in Nat /\ size[own.e] \in Nat /\ size[t.e] \in Nat /\ size[e] \in Nat
        /\ t.n \in Nat /\ own.n \in Nat
    BY <1>1, <1>3, <1>5 DEF Trees, Counted
  <2> HIDE DEF x, op
  <2>8. size[p.e] < size[e]
    BY <1>1, <1>5, <2>0, <2>1, <2>5, <2>6, <2>7
  <2>9. p.n \in Nat /\ p.n > 0
    BY <1>9, <2>7
  <2>10. Counted(e, p)
    BY <2>8, <2>9 DEF Counted, Shorter
  <2> QED BY <2>10 DEF p, op
<1> QED BY <1>6, <1>7, <1>8, <1>9

\* And so does the second pass.
LEMMA Dups2Counts ==
  ASSUME NEW w, Trees, Names(w), Values(w), TwoValued(w), IsOperands,
         IsEliminate(elim, both, eq, yn), IsYn(yn), IsExtract, IsTransform(tr), IsDups2
  PROVE  \A e \in Expr : Counted(e, d2[e])
<1> DEFINE S == {e \in Expr : Counted(e, d2[e])}
<1>1. ASSUME NEW e \in Expr, \A f \in Expr : size[f] < size[e] => f \in S PROVE e \in S
  <2>0. Start(e).e = e /\ Start(e).n = 0 /\ Counted(e, Start(e))
    BY DEF Start, Counted
  <2>1. CASE ~Binary(e)
    <3>1. d2[e] = Start(e)
      BY <2>1 DEF IsDups2
    <3> QED BY <2>0, <3>1
  <2>2. CASE Binary(e)
    <3>1a. PICK m \in Nat : \E t :
            /\ t[0] = Start(e) /\ t[m] = d2[e]
            /\ \A k \in 1..m : \E i \in 1..cnt[e.op][e], range \in Int \X Int :
                 t[k] = Deny(e.op, t[k - 1], i, range)
      BY <2>2 DEF IsDups2
    <3>1. PICK t :
            /\ t[0] = Start(e) /\ t[m] = d2[e]
            /\ \A k \in 1..m : \E i \in 1..cnt[e.op][e], range \in Int \X Int :
                 t[k] = Deny(e.op, t[k - 1], i, range)
      BY <3>1a
    <3>2. e.op \in Ops
      BY <2>2, BinaryOp
    <3> DEFINE T == {k \in 0..m : Kept(w, e.op, e, t[k].e) /\ Counted(e, t[k])}
    <3>3. 0 \in T
      <4>1. t[0].e = e /\ size[e] \in Nat /\ Counted(e, t[0])
        BY <2>0, <3>1 DEF Trees
      <4> QED BY <4>1 DEF Kept
    <3>4. \A f \in Expr : size[f] < size[e] => Passed(w, f, d2[f]) /\ Counted(f, d2[f])
      BY <1>1, Dups2Sound
    <3>5. ASSUME NEW k \in 1..m, k - 1 \in T PROVE k \in T
      <4>1. PICK i \in 1..cnt[e.op][e], range \in Int \X Int :
              t[k] = Deny(e.op, t[k - 1], i, range)
        BY <3>1
      <4>2. Kept(w, e.op, e, t[k - 1].e) /\ Counted(e, t[k - 1])
        BY <3>5
      <4>3. Kept(w, e.op, e, t[k].e)
        BY <3>2, <3>4, <4>1, <4>2, DenyKeeps
      <4>4. Counted(e, t[k])
        BY <3>2, <3>4, <4>1, <4>2, DenyCounts
      <4> QED BY <4>3, <4>4
    <3> HIDE DEF T
    <3>6. m \in T
      BY <3>3, <3>5, InSteps
    <3> QED BY <3>1, <3>6 DEF T
  <2> QED BY <2>1, <2>2
<1> HIDE DEF S
<1>2. Expr \subseteq S
  BY <1>1, BySize
<1> QED BY <1>2 DEF S

\* What one round makes of e, and the changes it counts.
Round(e) == d2[d1[e].e].e
Changes(e) == d1[e].n + d2[d1[e].e].n

\* Where no symbol is m, a round of expr_eliminate_dups keeps the value, and if it
\* counts a change there is less after it: the loop of expr_eliminate_dups ends.
THEOREM RoundShrinks ==
  ASSUME NEW w, Trees, Names(w), Values(w), TwoValued(w), IsOperands,
         IsEliminate(elim, both, eq, yn), IsExtract, IsTransform(tr), IsDups1, IsDups2,
         NEW e \in Expr
  PROVE  /\ Round(e) \in Expr /\ V[w][Round(e)] = V[w][e]
         /\ yn[Round(e)] \in Expr /\ V[w][yn[Round(e)]] = V[w][e]
         /\ Changes(e) \in Nat
         /\ Changes(e) > 0 => size[yn[Round(e)]] < size[e]
<1> DEFINE f == d1[e].e
           g == d2[f].e
<1>0. IsYn(yn)
  BY Zenon DEF IsEliminate
<1>1. f \in Expr /\ V[w][f] = V[w][e] /\ size[f] <= size[e]
  BY Dups1Sound DEF Passed
<1>2. Counted(e, d1[e])
  BY <1>0, Dups1Counts
<1> HIDE DEF f
<1>3. g \in Expr /\ V[w][g] = V[w][f] /\ size[g] <= size[f]
  BY <1>1, Dups2Sound DEF Passed
<1>4. Counted(f, d2[f])
  BY <1>0, <1>1, Dups2Counts
<1> HIDE DEF g
<1>5. yn[g] \in Expr /\ V[w][yn[g]] = V[w][g] /\ size[yn[g]] <= size[g]
  BY <1>0, <1>3, YnKeepsValue
<1>6. d1[e].n \in Nat /\ d2[f].n \in Nat
  BY <1>2, <1>4 DEF Counted
<1>7. size[e] \in Nat /\ size[f] \in Nat /\ size[g] \in Nat /\ size[yn[g]] \in Nat
  BY <1>1, <1>3, <1>5 DEF Trees
<1>8. ASSUME d2[f].n > 0 PROVE size[yn[g]] < size[e]
  <2>1. size[g] < size[f] \/ size[yn[g]] < size[g]
    BY <1>4, <1>8 DEF Counted, Shorter, Loose, g
  <2> QED BY <1>1, <1>3, <1>5, <1>7, <2>1
<1>9. ASSUME d2[f].n = 0, d1[e].n > 0 PROVE size[yn[g]] < size[e]
  <2>1. g = f
    BY <1>4, <1>9 DEF Counted, g
  <2>2. size[f] < size[e] \/ size[yn[f]] < size[f]
    BY <1>2, <1>9 DEF Counted, Shorter, Loose, f
  <2> QED BY <1>1, <1>3, <1>5, <1>7, <2>1, <2>2
<1>10. Round(e) = g /\ Changes(e) = d1[e].n + d2[f].n
  BY DEF Round, Changes, f, g
<1>11. Changes(e) \in Nat /\ (Changes(e) > 0 => d2[f].n > 0 \/ (d2[f].n = 0 /\ d1[e].n > 0))
  BY <1>6, <1>10
<1> QED BY <1>1, <1>3, <1>5, <1>8, <1>9, <1>10, <1>11

CONSTANT dup

\* expr_eliminate_dups goes round until both passes find nothing to do, with
\* expr_eliminate_yn after each round but the last.
IsDups ==
  \A e \in Expr : dup[e] = IF Changes(e) = 0 THEN Round(e) ELSE dup[yn[Round(e)]]

\* Where no symbol is m, expr_eliminate_dups keeps the value of every expression.
THEOREM DupsSound ==
  ASSUME NEW w, Trees, Names(w), Values(w), TwoValued(w), IsOperands,
         IsEliminate(elim, both, eq, yn), IsExtract, IsTransform(tr), IsDups1, IsDups2, IsDups
  PROVE  \A e \in Expr : dup[e] \in Expr /\ V[w][dup[e]] = V[w][e]
<1> DEFINE S == {e \in Expr : dup[e] \in Expr /\ V[w][dup[e]] = V[w][e]}
<1>1. ASSUME NEW e \in Expr, \A f \in Expr : size[f] < size[e] => f \in S PROVE e \in S
  <2>1. CASE Changes(e) = 0
    <3>1. dup[e] = Round(e)
      BY <2>1 DEF IsDups
    <3> QED BY <3>1, RoundShrinks
  <2>2. CASE Changes(e) # 0
    <3>1. dup[e] = dup[yn[Round(e)]]
      BY <2>2 DEF IsDups
    <3>2. /\ yn[Round(e)] \in Expr /\ V[w][yn[Round(e)]] = V[w][e]
          /\ size[yn[Round(e)]] < size[e]
      <4>1. Changes(e) \in Nat
        BY RoundShrinks
      <4>2. Changes(e) > 0
        BY <2>2, <4>1
      <4> QED BY <4>2, RoundShrinks
    <3>3. yn[Round(e)] \in S
      BY <1>1, <3>2
    <3> QED BY <3>1, <3>2, <3>3
  <2> QED BY <2>1, <2>2
<1> HIDE DEF S
<1>2. Expr \subseteq S
  BY <1>1, BySize
<1> QED BY <1>2 DEF S

\* Where no symbol is m, FOO!=n and FOO are the same wherever they stand.
THEOREM TransBoolTwoValued ==
  ASSUME NEW w, Trees, Names(w), Values(w), TwoValued(w), NEW tb, IsTransBool(tb)
  PROVE  \A e \in Expr : tb[e] \in Expr /\ V[w][tb[e]] = V[w][e]
<1> DEFINE P(e) == tb[e] \in Expr /\ V[w][tb[e]] = V[w][e]
           S == {e \in Expr : P(e)}
<1>1. ASSUME NEW e \in Expr, \A f \in Expr : size[f] < size[e] => f \in S PROVE e \in S
  <2>1. CASE e.op \in {"sym", "eq", "neq"}
    <3>1. tb[e] \in Expr /\ (V[w][tb[e]] # mod => V[w][tb[e]] = V[w][e])
      BY <2>1, TransBoolLeaf
    <3>2. V[w][tb[e]] \in {no, yes}
      BY <3>1, NeverM
    <3> QED BY <3>1, <3>2 DEF no, yes, mod
  <2>2. CASE e.op \in Ops
    <3>1. e.a \in Expr /\ e.b \in Expr /\ e = Two(e.op, e.a, e.b)
      BY <2>2, Operand
    <3>2. size[e.a] < size[e] /\ size[e.b] < size[e]
      BY <2>2, <3>1, SmallerOperands
    <3>3. P(e.a) /\ P(e.b)
      BY <1>1, <3>1, <3>2
    <3>4. tb[e] = Two(e.op, tb[e.a], tb[e.b])
      BY <2>2, TransBoolCases
    <3>5. tb[e] \in Expr
      BY <2>2, <3>3, <3>4, SizeOfTwo
    <3>6. /\ V[w][tb[e]] = Val(e.op, V[w][tb[e.a]], V[w][tb[e.b]])
          /\ V[w][e] = Val(e.op, V[w][e.a], V[w][e.b])
      BY <2>2, <3>1, <3>3, <3>4, TwoValue
    <3> QED BY <3>3, <3>5, <3>6
  <2>3. CASE e.op = "not"
    <3>1. e.a \in Expr /\ e = Not(e.a) /\ size[e] = size[e.a] + 1 /\ size[e.a] \in Nat
      <4>1. e.a \in Expr /\ e = Not(e.a)
        BY <2>3, Operand
      <4> QED BY <4>1 DEF Trees
    <3>2. size[e.a] < size[e]
      BY <3>1
    <3>3. P(e.a)
      BY <1>1, <3>1, <3>2
    <3>4. tb[e] = Not(tb[e.a])
      BY <2>3, TransBoolCases
    <3>5. tb[e] \in Expr
      BY <3>3, <3>4 DEF Trees
    <3>6. V[w][tb[e]] = EXPR_NOT(V[w][tb[e.a]]) /\ V[w][e] = EXPR_NOT(V[w][e.a])
      BY <3>1, <3>3, <3>4, NotValue
    <3> QED BY <3>3, <3>5, <3>6
  <2> QED BY <2>1, <2>2, <2>3, Operand DEF Ops
<1> HIDE DEF S
<1>2. Expr \subseteq S
  BY <1>1, BySize
<1> QED BY <1>2 DEF S

-----------------------------------------------------------------------------
(* The functions the machine uses, and what it does with an entry.         *)

CONSTANTS tb, cmp

\* What the functions of expr.c do at each node.
Program ==
  /\ IsEliminate(elim, both, eq, yn) /\ IsTransform(tr) /\ IsTransBool(tb) /\ IsCompare(cmp, "n")
  /\ IsOperands /\ IsExtract /\ IsDups1 /\ IsDups2 /\ IsDups
\* They are the machine's, whose expressions are some of Expr and whose values
\* for symbols are some that symbols can have.
Instance ==
  /\ \A x \in Expr : /\ transform(x) = tr[x]
                     /\ eliminate_dups(x) = dup[x]
                     /\ trans_bool(x) = tb[x]
                     /\ trans_compare(x, "neq", "n") = cmp["neq"][x]
                     /\ \A y \in Expr : eliminate_eq(x, y) = both[x][y]
  /\ Dependencies \subseteq Expr /\ Parents \subseteq Expr /\ Booleans # {}
  /\ \A v \in Valuations :
       /\ Names(v) /\ Values(v) /\ tri[v] = v /\ str[v] = Text(v)
       /\ \A x \in Expr : calc_value(x, v, Text(v)) = V[v][x]
\* What the theorems about the machine assume.
Kconfig == Trees /\ Toggled /\ Program /\ Instance

\* The machine's values are those of V.
LEMMA ValueIs ==
  ASSUME Kconfig, NEW v \in Valuations, NEW x \in Expr
  PROVE  Value(x, v) = V[v][x]
BY DEF Kconfig, Instance, Value

\* Where every symbol is y or n, no symbol is m.
LEMMA NoneIsM ==
  ASSUME Kconfig, NEW v \in Booleans
  PROVE  v \in Valuations /\ Trees /\ Names(v) /\ Values(v) /\ TwoValued(v)
<1>1. v \in Valuations /\ \A s \in DOMAIN v : v[s] # mod
  BY DEF Booleans
<1>2. Trees /\ Toggled /\ Names(v) /\ Values(v) /\ tri[v] = v
  BY <1>1 DEF Kconfig, Instance
<1>3. ASSUME NEW s \in Sym PROVE TriOf(s, tri[v]) # mod
  <2>1. CASE s \in Toggles
    <3>1. s \in DOMAIN v
      BY <1>2, <2>1 DEF Names
    <3> QED BY <1>1, <1>2, <3>1 DEF TriOf
  <2>2. CASE s = "y"
    <3>1. "y" \notin DOMAIN tri[v]
      BY <1>2, Zenon DEF Names, Constants
    <3>2. TriOf("y", tri[v]) = yes
      BY <3>1, Zenon DEF TriOf, ConstTri
    <3> QED BY <2>2, <3>2 DEF yes, mod
  <2>3. CASE s = "n"
    <3>1. "n" \notin DOMAIN tri[v]
      BY <1>2, Zenon DEF Names, Constants
    <3>2. TriOf("n", tri[v]) = no
      BY <3>1, Zenon DEF TriOf, ConstTri
    <3> QED BY <2>3, <3>2 DEF no, mod
  <2> QED BY <1>2, <2>1, <2>2, <2>3 DEF Toggled
<1> QED BY <1>1, <1>2, <1>3 DEF TwoValued

\* expr_transform, expr_eliminate_dups, expr_trans_bool: the theorems about
\* expressions, said of the machine's operators.
LEMMA TransformValue ==
  ASSUME Kconfig, NEW x \in Expr
  PROVE  /\ transform(x) \in Expr
         /\ \A v \in Valuations : Value(transform(x), v) = Value(x, v)
<1>1. ASSUME NEW v \in Valuations
      PROVE  transform(x) \in Expr /\ Value(transform(x), v) = Value(x, v)
  <2>1. Trees /\ Names(v) /\ Values(v) /\ IsTransform(tr) /\ transform(x) = tr[x]
    BY DEF Kconfig, Program, Instance
  <2>2. tr[x] \in Expr /\ V[v][tr[x]] = V[v][x]
    BY <2>1, TransformSound, NormalExpr
  <2> QED BY <2>1, <2>2, ValueIs
<1>2. PICK v \in Valuations : TRUE
  BY DEF Kconfig, Instance, Booleans
<1> QED BY <1>1, <1>2

LEMMA DupsValue ==
  ASSUME Kconfig, NEW x \in Expr
  PROVE  /\ eliminate_dups(x) \in Expr
         /\ \A v \in Booleans : Value(eliminate_dups(x), v) = Value(x, v)
<1>1. ASSUME NEW v \in Booleans
      PROVE  eliminate_dups(x) \in Expr /\ Value(eliminate_dups(x), v) = Value(x, v)
  <2>1. v \in Valuations /\ Trees /\ Names(v) /\ Values(v) /\ TwoValued(v)
    BY NoneIsM
  <2>2. /\ IsOperands /\ IsEliminate(elim, both, eq, yn) /\ IsExtract /\ IsTransform(tr)
        /\ IsDups1 /\ IsDups2 /\ IsDups
    BY DEF Kconfig, Program
  <2>3. eliminate_dups(x) = dup[x]
    BY DEF Kconfig, Instance
  <2>4. dup[x] \in Expr /\ V[v][dup[x]] = V[v][x]
    BY <2>1, <2>2, DupsSound
  <2> QED BY <2>1, <2>3, <2>4, ValueIs
<1>2. PICK v \in Booleans : TRUE
  BY DEF Kconfig, Instance
<1> QED BY <1>1, <1>2

LEMMA TransBoolValue ==
  ASSUME Kconfig, NEW x \in Expr
  PROVE  /\ trans_bool(x) \in Expr
         /\ \A v \in Booleans : Value(trans_bool(x), v) = Value(x, v)
<1>1. ASSUME NEW v \in Booleans
      PROVE  trans_bool(x) \in Expr /\ Value(trans_bool(x), v) = Value(x, v)
  <2>1. v \in Valuations /\ Trees /\ Names(v) /\ Values(v) /\ TwoValued(v)
    BY NoneIsM
  <2>2. IsTransBool(tb) /\ trans_bool(x) = tb[x]
    BY DEF Kconfig, Program, Instance
  <2>3. tb[x] \in Expr /\ V[v][tb[x]] = V[v][x]
    BY <2>1, <2>2, TransBoolTwoValued
  <2> QED BY <2>1, <2>2, <2>3, ValueIs
<1>2. PICK v \in Booleans : TRUE
  BY DEF Kconfig, Instance
<1> QED BY <1>1, <1>2

\* The test whether an entry is visible is y where its dependency is not n.
LEMMA NotNoValue ==
  ASSUME Kconfig, NEW x \in Expr
  PROVE  /\ NotNo(x) \in Expr
         /\ \A v \in Booleans : Value(NotNo(x), v) = IF Value(x, v) # no THEN yes ELSE no
<1> DEFINE c == trans_compare(x, "neq", "n")
<1>1. ASSUME NEW v \in Booleans
      PROVE  c \in Expr /\ Value(c, v) = IF Value(x, v) # no THEN yes ELSE no
  <2>1. v \in Valuations /\ Trees /\ Names(v) /\ Values(v) /\ TwoValued(v)
    BY NoneIsM
  <2>2. Toggled /\ IsCompare(cmp, "n") /\ c = cmp["neq"][x]
    BY DEF Kconfig, Program, Instance
  <2>3. cmp["neq"][x] \in Expr /\ V[v][cmp["neq"][x]] = Says("neq", "n", V[v][x])
    BY <2>1, <2>2, TransCompareSound
  <2>4. Says("neq", "n", V[v][x]) = IF V[v][x] # no THEN yes ELSE no
    BY DEF Says, ConstTri
  <2> QED BY <2>1, <2>2, <2>3, <2>4, ValueIs
<1>2. PICK v \in Booleans : TRUE
  BY DEF Kconfig, Instance
<1>3. c \in Expr
  BY <1>1, <1>2
<1>4. Booleans \subseteq Valuations
  BY DEF Booleans
<1> HIDE DEF c
<1>5. /\ transform(c) \in Expr
      /\ \A u \in Booleans : Value(transform(c), u) = Value(c, u)
  BY <1>3, <1>4, TransformValue
<1>6. /\ eliminate_dups(transform(c)) \in Expr
      /\ \A u \in Booleans : Value(eliminate_dups(transform(c)), u) = Value(c, u)
  BY <1>5, DupsValue
<1>7. NotNo(x) = eliminate_dups(transform(c))
  BY DEF NotNo, c
<1> QED BY <1>1, <1>6, <1>7

\* The conjunction of two expressions, as expr_alloc_and builds it.
LEMMA AndValue ==
  ASSUME Kconfig, NEW x \in Expr, NEW y \in Expr
  PROVE  /\ expr_alloc_and(x, y) \in Expr
         /\ \A v \in Valuations : Value(expr_alloc_and(x, y), v) = EXPR_AND(Value(x, v), Value(y, v))
<1>1. Trees /\ "and" \in Ops
  BY DEF Kconfig, Ops
<1>2. x # NoExpr /\ y # NoExpr
  <2>1. NoExpr.op = "none"
    BY DEF NoExpr
  <2> QED BY <1>1, <2>1, Operand
<1>3. expr_alloc_and(x, y) = Two("and", x, y) /\ Two("and", x, y) \in Expr
  BY <1>1, <1>2, SizeOfTwo DEF expr_alloc_and, And, Two
<1>4. ASSUME NEW v \in Valuations
      PROVE  Value(Two("and", x, y), v) = EXPR_AND(Value(x, v), Value(y, v))
  <2>1. Values(v)
    BY DEF Kconfig, Instance
  <2>2. V[v][Two("and", x, y)] = EXPR_AND(V[v][x], V[v][y])
    BY <1>1, <2>1, TwoValue DEF Val
  <2> QED BY <1>3, <2>2, ValueIs
<1> QED BY <1>3, <1>4

-----------------------------------------------------------------------------
(* The five things menu_finalize must not break.                           *)

\* Where the entry is on its way, and that it has expressions all along.
Stages == {"parsed", "transformed", "inherited", "boolean", "visible", "related"}
TypeInv == stage \in Stages /\ dep \in Expr /\ parent \in Expr /\ basedep \in Expr
\* Before anything is transformed the dependency is what was written, and each
\* step relies on what the one before kept.
Inv == /\ TypeInv
       /\ stage = "parsed" => basedep = dep
       /\ TransformKeepsValue
       /\ InheritKeepsValue
       /\ BooleanKeepsVisibility
       /\ VisibleIsNotNo
       /\ SubmenuImplied

\* Inv holds when the entry is parsed.
LEMMA InvInit == ASSUME Kconfig, Init PROVE Inv
<1>1. TypeInv
  BY DEF Init, TypeInv, Stages, Kconfig, Instance
<1> QED BY <1>1 DEF Init, Inv, TransformKeepsValue, InheritKeepsValue, BooleanKeepsVisibility,
                    VisibleIsNotNo, SubmenuImplied

\* expr_transform of the dependency keeps Inv.
LEMMA InvTransform == ASSUME Kconfig, Inv, Transform PROVE Inv'
<1>1. basedep = dep /\ dep \in Expr /\ dep' = dep /\ stage' = "transformed" /\ basedep' = transform(dep)
  BY DEF Inv, TypeInv, Transform
<1>2. transform(dep) \in Expr /\ \A v \in Valuations : Value(transform(dep), v) = Value(dep, v)
  BY <1>1, TransformValue
<1>3. TypeInv'
  BY <1>1, <1>2 DEF Inv, TypeInv, Transform, Stages
<1>4. TransformKeepsValue'
  BY <1>1, <1>2 DEF TransformKeepsValue, Value
<1> QED BY <1>1, <1>3, <1>4 DEF Inv, InheritKeepsValue, BooleanKeepsVisibility, VisibleIsNotNo, SubmenuImplied

\* Adding the menu's dependency and eliminating duplicates keeps Inv.
LEMMA InvInherit == ASSUME Kconfig, Inv, Inherit PROVE Inv'
<1> DEFINE x == expr_alloc_and(parent, basedep)
<1>1. /\ parent \in Expr /\ basedep \in Expr /\ dep \in Expr
      /\ dep' = dep /\ parent' = parent /\ stage' = "inherited" /\ basedep' = eliminate_dups(x)
      /\ \A v \in Valuations : Value(basedep, v) = Value(dep, v)
  BY DEF Inv, TypeInv, Inherit, TransformKeepsValue
<1>2. x \in Expr /\ \A v \in Valuations : Value(x, v) = EXPR_AND(Value(parent, v), Value(basedep, v))
  BY <1>1, AndValue
<1> HIDE DEF x
<1>3. /\ eliminate_dups(x) \in Expr
      /\ \A v \in Booleans : Value(eliminate_dups(x), v) = Value(x, v)
  BY <1>2, DupsValue
<1>4. TypeInv'
  BY <1>1, <1>3 DEF TypeInv, Stages
<1>5. Booleans \subseteq Valuations
  BY DEF Booleans
<1>6. \A v \in Booleans : Value(eliminate_dups(x), v) = Meaning(v)
  BY <1>1, <1>2, <1>3, <1>5 DEF Meaning
<1>7. InheritKeepsValue'
  BY <1>1, <1>6 DEF InheritKeepsValue, Meaning, Value
<1> QED BY <1>1, <1>4, <1>7 DEF Inv, TransformKeepsValue, BooleanKeepsVisibility, VisibleIsNotNo, SubmenuImplied

\* expr_trans_bool keeps Inv.
LEMMA InvForBoolean == ASSUME Kconfig, Inv, ForBoolean PROVE Inv'
<1>1. /\ parent \in Expr /\ basedep \in Expr /\ dep \in Expr
      /\ dep' = dep /\ parent' = parent /\ stage' = "boolean" /\ basedep' = trans_bool(basedep)
      /\ \A v \in Booleans : Value(basedep, v) = Meaning(v)
  BY DEF Inv, TypeInv, ForBoolean, InheritKeepsValue
<1>2. /\ trans_bool(basedep) \in Expr
      /\ \A v \in Booleans : Value(trans_bool(basedep), v) = Meaning(v)
  BY <1>1, TransBoolValue
<1>3. TypeInv'
  BY <1>1, <1>2 DEF TypeInv, Stages
<1>4. BooleanKeepsVisibility'
  BY <1>1, <1>2 DEF BooleanKeepsVisibility, Meaning, Value
<1> QED BY <1>1, <1>3, <1>4 DEF Inv, TransformKeepsValue, InheritKeepsValue, VisibleIsNotNo, SubmenuImplied

\* The test for visibility keeps Inv.
LEMMA InvVisible == ASSUME Kconfig, Inv, Visible PROVE Inv'
<1>1. /\ parent \in Expr /\ basedep \in Expr /\ dep \in Expr
      /\ dep' = dep /\ parent' = parent /\ stage' = "visible" /\ basedep' = NotNo(basedep)
      /\ \A v \in Booleans : Value(basedep, v) = Meaning(v)
  BY DEF Inv, TypeInv, Visible, InheritKeepsValue
<1>2. /\ NotNo(basedep) \in Expr
      /\ \A v \in Booleans : Value(NotNo(basedep), v) = IF Meaning(v) # no THEN yes ELSE no
  BY <1>1, NotNoValue
<1>3. TypeInv'
  BY <1>1, <1>2 DEF TypeInv, Stages
<1>4. VisibleIsNotNo'
  BY <1>1, <1>2 DEF VisibleIsNotNo, Meaning, Value
<1> QED BY <1>1, <1>3, <1>4 DEF Inv, TransformKeepsValue, InheritKeepsValue, BooleanKeepsVisibility, SubmenuImplied

\* Comparing with the entry above keeps Inv.
LEMMA InvRelate == ASSUME Kconfig, Inv, Relate PROVE Inv'
<1> DEFINE x == NotNo(eliminate_dups(basedep))
           y == NotNo(parent)
           left == eliminate_eq(x, y)[2]
<1>1. /\ parent \in Expr /\ basedep \in Expr /\ dep \in Expr
      /\ dep' = dep /\ parent' = parent /\ stage' = "related" /\ basedep' = left
      /\ \A v \in Valuations : Value(basedep, v) = Value(dep, v)
  BY DEF Inv, TypeInv, Relate, TransformKeepsValue
<1>2. Booleans \subseteq Valuations
  BY DEF Booleans
<1>3. x \in Expr /\ \A v \in Booleans : Value(x, v) = IF Value(dep, v) # no THEN yes ELSE no
  <2>1. /\ eliminate_dups(basedep) \in Expr
        /\ \A v \in Booleans : Value(eliminate_dups(basedep), v) = Value(basedep, v)
    BY <1>1, DupsValue
  <2> QED BY <1>1, <1>2, <2>1, NotNoValue
<1>4. y \in Expr /\ \A v \in Booleans : Value(y, v) = IF Value(parent, v) # no THEN yes ELSE no
  BY <1>1, NotNoValue
<1> HIDE DEF x, y
<1>5. left = both[x][y][2]
  BY <1>3, <1>4 DEF Kconfig, Instance
<1>6. PICK u \in Booleans : TRUE
  BY DEF Kconfig, Instance
<1>7. IsEliminate(elim, both, eq, yn)
  BY DEF Kconfig, Program
<1>8. both[x][y][2] \in Expr
  <2>1. Trees /\ Names(u) /\ Values(u)
    BY <1>6, NoneIsM
  <2>2. Apart(u, x, y, both[x][y])
    BY <1>3, <1>4, <1>7, <2>1, AllApart
  <2> QED BY <2>2 DEF Apart
<1>9. ASSUME expr_is_yes(left), NEW v \in Booleans, Value(dep, v) # no PROVE Value(parent, v) # no
  <2>1. left = Y
    <3>1. NoExpr.op = "none"
      BY DEF NoExpr
    <3>2. Trees
      BY DEF Kconfig
    <3> QED BY <1>5, <1>8, <1>9, <3>1, <3>2, Operand DEF expr_is_yes
  <2>2. v \in Valuations /\ Trees /\ Names(v) /\ Values(v)
    BY <1>9, NoneIsM
  <2>3. V[v][x] <= V[v][y]
    BY <1>3, <1>4, <1>5, <1>7, <2>1, <2>2, NothingLeftImplied
  <2>4. Value(x, v) = yes /\ Value(x, v) = V[v][x] /\ Value(y, v) = V[v][y]
    BY <1>3, <1>4, <1>9, <2>2, ValueIs
  <2>5. ~(yes <= no)
    BY DEF yes, no
  <2> QED BY <1>4, <1>9, <2>3, <2>4, <2>5
<1> HIDE DEF left
<1>10. TypeInv'
  BY <1>1, <1>5, <1>8 DEF TypeInv, Stages
<1>11. SubmenuImplied'
  BY <1>1, <1>9 DEF SubmenuImplied, Value
<1> QED BY <1>1, <1>10, <1>11 DEF Inv, TransformKeepsValue, InheritKeepsValue, BooleanKeepsVisibility, VisibleIsNotNo

\* So every step keeps it.
LEMMA InvStep == ASSUME Kconfig, Inv, [Next]_vars PROVE Inv'
<1>1. CASE Transform
  BY <1>1, InvTransform
<1>2. CASE Inherit
  BY <1>2, InvInherit
<1>3. CASE ForBoolean
  BY <1>3, InvForBoolean
<1>4. CASE Visible
  BY <1>4, InvVisible
<1>5. CASE Relate
  BY <1>5, InvRelate
<1>6. CASE UNCHANGED vars
  BY <1>6 DEF vars, Inv, TypeInv, TransformKeepsValue, InheritKeepsValue, BooleanKeepsVisibility,
              VisibleIsNotNo, SubmenuImplied, Meaning, Value
<1> QED BY <1>1, <1>2, <1>3, <1>4, <1>5, <1>6 DEF Next

\* Inv always holds.
LEMMA InvAlways == ASSUME Kconfig PROVE Spec => []Inv
<1>1. Init => Inv
  BY InvInit
<1>2. Inv /\ [Next]_vars => Inv'
  BY InvStep
<1> QED BY <1>1, <1>2, PTL DEF Spec

\* expr_transform changes no dependency's value, whatever its symbols are.
THEOREM TransformKept == ASSUME Kconfig PROVE Spec => []TransformKeepsValue
<1>1. Inv => TransformKeepsValue
  BY DEF Inv
<1> QED BY <1>1, InvAlways, PTL

\* What menu_finalize stores as the dependency of an entry of a menu has the value
\* of the entry's own and the menu's together, where no symbol is m.
THEOREM InheritKept == ASSUME Kconfig PROVE Spec => []InheritKeepsValue
<1>1. Inv => InheritKeepsValue
  BY DEF Inv
<1> QED BY <1>1, InvAlways, PTL

\* expr_trans_bool leaves an entry that is no tristate as visible as it was.
THEOREM BooleanKept == ASSUME Kconfig PROVE Spec => []BooleanKeepsVisibility
<1>1. Inv => BooleanKeepsVisibility
  BY DEF Inv
<1> QED BY <1>1, InvAlways, PTL

\* The test whether an entry is visible is y where its dependency is not n.
THEOREM VisibleKept == ASSUME Kconfig PROVE Spec => []VisibleIsNotNo
<1>1. Inv => VisibleIsNotNo
  BY DEF Inv
<1> QED BY <1>1, InvAlways, PTL

\* An entry goes into the submenu of another only if it is visible only when that
\* one is.
THEOREM SubmenuKept == ASSUME Kconfig PROVE Spec => []SubmenuImplied
<1>1. Inv => SubmenuImplied
  BY DEF Inv
<1> QED BY <1>1, InvAlways, PTL
=============================================================================
