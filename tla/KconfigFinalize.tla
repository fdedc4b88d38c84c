-------------------------- MODULE KconfigFinalize ---------------------------
(***************************************************************************)
(* What menu_finalize (support/kconfig/menu.c) does to the dependency of   *)
(* one entry, step by step: transform it, join it with the parent's, take  *)
(* out what is said twice, and (for a symbol that cannot be m) drop what   *)
(* only m can tell; or turn it into the test whether the entry is visible, *)
(* against which the following entries are compared.                       *)
(*                                                                         *)
(* The functions of expr.c that go down the trees are parameters, with the *)
(* names they have there but for the prefix expr_: TLC gets those of       *)
(* KconfigExpr, and the proofs know no more of them than their bodies in   *)
(* KconfigRules.                                                           *)
(***************************************************************************)
EXTENDS KconfigRules

CONSTANTS Dependencies,          \* the expressions of an entry
          Parents,               \* those of a menu, transformed already
          Valuations,            \* the values symbols can have
          calc_value(_, _, _),   \* of an expression, given tri and str
          transform(_),
          eliminate_dups(_),
          trans_bool(_),
          trans_compare(_, _, _),
          eliminate_eq(_, _)

VARIABLES dep,      \* the expression in the Kconfig file
          parent,   \* the dependency of the enclosing menu
          basedep,  \* what is left of both
          stage
vars == <<dep, parent, basedep, stage>>

Init == /\ dep \in Dependencies
        /\ parent \in Parents
        /\ basedep = dep
        /\ stage = "parsed"

Transform == /\ stage = "parsed"
             /\ basedep' = transform(basedep)
             /\ stage' = "transformed"
             /\ UNCHANGED <<dep, parent>>
Inherit == /\ stage = "transformed"
           /\ basedep' = eliminate_dups(expr_alloc_and(parent, basedep))
           /\ stage' = "inherited"
           /\ UNCHANGED <<dep, parent>>
ForBoolean == /\ stage = "inherited"
              /\ basedep' = trans_bool(basedep)
              /\ stage' = "boolean"
              /\ UNCHANGED <<dep, parent>>
\* The test whether an entry with dependency x is visible.
NotNo(x) == eliminate_dups(transform(trans_compare(x, "neq", "n")))
Visible == /\ stage = "inherited"
           /\ basedep' = NotNo(basedep)
           /\ stage' = "visible"
           /\ UNCHANGED <<dep, parent>>
\* For an entry outside the menu: what the test whether it is visible has in
\* common with the test whether the menu is goes out of the latter.
Relate == /\ stage = "transformed"
          /\ stage' = "related"
          /\ basedep' = eliminate_eq(NotNo(eliminate_dups(basedep)), NotNo(parent))[2]
          /\ UNCHANGED <<dep, parent>>

Next == Transform \/ Inherit \/ ForBoolean \/ Visible \/ Relate
Spec == Init /\ [][Next]_vars

-----------------------------------------------------------------------------
\* MODULES is not defined in Buildroot: no symbol is ever m.
Booleans == {v \in Valuations : \A s \in DOMAIN v : v[s] # mod}

Text(v) == [s \in DOMAIN v |-> CASE v[s] = yes -> "y" [] v[s] = mod -> "m" [] OTHER -> "n"]
Value(x, v) == calc_value(x, v, Text(v))
Meaning(v) == EXPR_AND(Value(parent, v), Value(dep, v))

\* Moving negations and rewriting comparisons keeps the value of a dependency,
\* for every value of its symbols (expr_transform).
TransformKeepsValue ==
  stage = "transformed" => \A v \in Valuations : Value(basedep, v) = Value(dep, v)
\* Joining it with the parent's dependency and taking out what is said twice
\* keeps the value of both together (expr_eliminate_dups, expr_join_or,
\* expr_join_and).  That is over the values a tristate can have without MODULES,
\* which Buildroot has not: with m, (T && T!='n') || T='m' and such change.
InheritKeepsValue ==
  stage = "inherited" => \A v \in Booleans : Value(basedep, v) = Meaning(v)
\* For a symbol that is no tristate, a comparison FOO!=n may become FOO: the
\* dependency is met when it was met before (expr_trans_bool).
BooleanKeepsVisibility ==
  stage = "boolean" => \A v \in Booleans : (Value(basedep, v) # no) <=> (Meaning(v) # no)
\* The expression made for "this entry is visible" is y where the dependency is
\* not n, and n elsewhere (expr_trans_compare).
VisibleIsNotNo ==
  stage = "visible" => \A v \in Booleans : Value(basedep, v) = IF Meaning(v) # no THEN yes ELSE no
\* An entry goes into the submenu of the one before it only if it is visible
\* only when that one is: what expr_eliminate_eq leaves is y only then
\* (menu_finalize, expr_eliminate_eq).
SubmenuImplied ==
  stage = "related" /\ expr_is_yes(basedep) =>
    \A v \in Booleans : Value(dep, v) # no => Value(parent, v) # no
=============================================================================
