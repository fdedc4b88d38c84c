--------------------------- MODULE MCKconfigExpr ----------------------------
(***************************************************************************)
(* KconfigFinalize with the functions of KconfigExpr, over every           *)
(* expression of a few shapes below every parent of a few shapes.          *)
(***************************************************************************)
EXTENDS KconfigFinalize, TLC

K == INSTANCE KconfigExpr

Types == [s \in {"A", "B", "T", "y", "m", "n"} |->
            CASE s \in {"A", "B"} -> "boolean" [] s = "T" -> "tristate" [] OTHER -> "const"]
Leaves == {Sy("A"), Sy("B"), Sy("T"), Eq("A", "n"), Neq("A", "n"), Eq("T", "y"), Eq("T", "m"),
           Neq("T", "m"), Neq("T", "n")}
Level2 == {Not(a) : a \in Leaves} \cup {Two(op, a, b) : op \in {"and", "or"}, a, b \in Leaves}
MCDependencies ==
  Leaves \cup Level2 \cup {Not(a) : a \in Level2} \cup
  {Two(op, a, b) : op \in {"and", "or"}, a \in Level2, b \in {Sy("A"), Not(Sy("A")), Eq("T", "y")}}
MCParents == {Sy("A"), Sy("T"), Neq("T", "m")} \cup
             {Two(op, a, b) : op \in {"and", "or"},
                              a \in {Sy("A"), Sy("T"), Not(Sy("A"))},
                              b \in {Sy("B"), Not(Sy("B")), Sy("T")}}
MCValuations == {[s \in {"A", "B", "T"} |->
                    IF s = "A" THEN a ELSE IF s = "B" THEN b ELSE t] :
                   a, b \in {no, yes}, t \in Tri}

MCcalc_value(x, tri, str) == K!expr_calc_value(x, tri, str)
MCtransform(x) == K!expr_transform(x, Types)
MCeliminate_dups(x) == K!expr_eliminate_dups(x, Types)
MCtrans_bool(x) == K!expr_trans_bool(x, Types)
MCtrans_compare(x, op, k) == K!expr_trans_compare(x, op, k)
MCeliminate_eq(x, y) == K!expr_eliminate_eq(x, y)

-----------------------------------------------------------------------------
\* The symbols and values of this instance are such as the theorems of
\* KconfigFinalizeProofs are about.
P == INSTANCE KconfigExprProofs WITH
       Name <- DOMAIN Types, Sym <- {"A", "B", "T", "y", "n"}, ty <- Types,
       tri <- [v \in MCValuations |-> v], str <- [v \in MCValuations |-> Text(v)],
       V <- [v \in MCValuations |-> [e \in MCDependencies |-> Value(e, v)]],
       Expr <- MCDependencies, size <- <<>>
ASSUME SymbolsAsProved == P!Toggled /\ \A v \in MCValuations : P!Names(v) /\ P!Values(v)
=============================================================================
