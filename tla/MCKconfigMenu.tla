--------------------------- MODULE MCKconfigMenu ----------------------------
(***************************************************************************)
(* conf_parse on all Kconfig files of a few shapes: three symbols, flat or *)
(* the last two inside an if, a menu or a choice, with every combination   *)
(* of dependencies, selects and prompts from a small set.                  *)
(***************************************************************************)
EXTENDS KconfigMenu

VARIABLES file,     \* the statements
          k,        \* what the parser made of them so far
          checked,  \* result of the dependency check
          stage
vars == <<file, k, checked, stage>>

Opt(kind, e, cond) == [kind |-> kind, e |-> e, cond |-> cond, lo |-> None, hi |-> None]
Config(s, t, dep, opts) == [kind |-> "config", sym |-> s, type |-> t, optional |-> FALSE,
                            dep |-> dep, opts |-> opts, kids |-> <<>>]
Block(kind, s, dep, opts, kids) ==
  [kind |-> kind, sym |-> s, type |-> "unknown", optional |-> FALSE,
   dep |-> dep, opts |-> opts, kids |-> kids]
Prompt == Opt("prompt", NoExpr, NoExpr)

Conds(a, b) == {NoExpr, Sy(a), And(Sy(a), Not(Sy(b))), Or(Neq(a, "n"), Sy(b))}
OptsOf(a, b) == {<<Opt("prompt", NoExpr, Sy(b))>>, <<Opt("default", Sy(b), NoExpr)>>,
                 <<Prompt>>, <<Opt("select", Sy(b), Not(Sy(a))), Prompt>>}

Configs(s, t, a, b) == {Config(s, t, dep, opts) : dep \in Conds(a, b), opts \in OptsOf(a, b)}

As == Configs("A", "boolean", "B", "C")
Bs == Configs("B", "tristate", "A", "C")
Cs == Configs("C", "boolean", "A", "B")
Simple(set) == {c \in set : Len(c.opts) = 1 /\ c.opts[1].kind = "prompt"}
Blocks(b, c) == {<<b, c>>} \cup
  {<<Block(kind, None, cond, <<>>, <<b, c>>)>> :
      kind \in {"if", "menu"}, cond \in {Sy("A"), Not(Sy("A"))}}
Files == {<<a>> \o rest : a \in As,
                          rest \in UNION {Blocks(b, c) : b \in Bs, c \in Simple(Cs)}}
         \cup {<<a, Block("choice", "CH", dep, <<Prompt>>, <<b, c>>)>> :
                 a \in As, dep \in {NoExpr, Sy("A")},
                 b \in Simple(Bs) \cup {[x EXCEPT !.type = "unknown"] : x \in Simple(Bs)},
                 c \in Simple(Cs)}

Names == <<"A", "CH", "B", "C", MODULES>>
Init == /\ file \in Files
        /\ k = <<>>
        /\ checked = <<>>
        /\ stage = "start"
Parse == /\ stage = "start"
         /\ stage' = "parsed"
         /\ k' = zconfparse(file, Names)
         /\ UNCHANGED <<file, checked>>
Finalize == /\ stage = "parsed"
            /\ stage' = "finalized"
            /\ k' = menu_finalize(WithModules(k), 0)
            /\ UNCHANGED <<file, checked>>
Check == /\ stage = "finalized"
         /\ stage' = "checked"
         \* the hash table holds the symbols in no particular order
         /\ \E order \in {Names, Reverse(Names)} : checked' = CheckAll([k EXCEPT !.syms = order])
         /\ UNCHANGED <<file, k>>
Next == Parse \/ Finalize \/ Check
Spec == Init /\ [][Next]_vars

-----------------------------------------------------------------------------
(* What the file says: every statement with what encloses it.              *)

RECURSIVE Within(_, _)
Within(sts, conds) ==
  UNION {{[st |-> sts[i], conds |-> Append(conds, sts[i].dep)]} \cup
         Within(sts[i].kids, IF sts[i].kind = "choice" THEN <<Sy(sts[i].sym)>>
                             ELSE Append(conds, sts[i].dep)) : i \in DOMAIN sts}
Written == Within(file, <<>>)

Valuations == [{"A", "B", "C", "CH"} -> {no, yes}]
Value(e, v) == expr_calc_value(e, v @@ (MODULES :> no) @@ ("y" :> yes) @@ ("m" :> mod) @@ ("n" :> no),
                               [s \in DOMAIN v |-> IF v[s] = yes THEN "y" ELSE "n"])
Holds(r, cond, v) == /\ Value(cond, v) # no
                     /\ \A i \in DOMAIN r.conds : Value(r.conds[i], v) # no

RECURSIVE Preorder(_)
Preorder(i) == <<i>> \o FlattenSeq([n \in DOMAIN k.kids[i] |-> Preorder(k.kids[i][n])])
RECURSIVE Above(_)
Above(i) == IF i = 0 THEN {} ELSE {i} \cup Above(k.parent[i])

\* Making submenus and lifting the entries of promptless ones keeps every entry,
\* once, in the order of the file, under the parent that lists it: the lists are
\* cut and spliced in place while they are walked (menu_finalize).
TreeInSourceOrder ==
  stage = "finalized" =>
    /\ Preorder(0) = [i \in 1..Cardinality(Menus(k)) |-> i - 1]
    /\ \A i \in Menus(k) : \A j \in Range(k.kids[i]) : k.parent[j] = i

\* A prompt is visible exactly when its own condition, its entry's dependencies
\* and those of everything around it hold, whatever was simplified away and in
\* whichever order the tree was restructured (menu_finalize).
VisibleAsWritten ==
  stage = "finalized" =>
    \A r \in Written : \A i \in DOMAIN r.st.opts : r.st.opts[i].kind = "prompt" =>
      \E p \in DOMAIN k.props :
        /\ k.props[p].sym = r.st.sym /\ k.props[p].text
        /\ \A v \in Valuations : (Value(k.props[p].vis, v) # no) <=> Holds(r, r.st.opts[i].cond, v)

\* What selects a symbol is what the file says: a select counts when its own
\* condition holds and the entry it stands in can be set (menu_finalize).
SelectedAsWritten ==
  stage = "finalized" =>
    \A t \in {"A", "B", "C"}, v \in Valuations :
      (k.rev[t] # NoExpr /\ Value(k.rev[t], v) # no) <=>
        \E r \in Written : \E i \in DOMAIN r.st.opts :
          /\ r.st.opts[i].kind = "select" /\ r.st.opts[i].e = Sy(t)
          /\ v[r.st.sym] # no
          /\ Holds(r, r.st.opts[i].cond, v)

\* A symbol is set only when its prompt is visible, it has a default or it is
\* selected.
Possible(v) ==
  \A s \in DOMAIN v : v[s] # no =>
    \/ k.rev[s] # NoExpr /\ Value(k.rev[s], v) # no
    \/ \E p \in DOMAIN k.props : /\ k.props[p].sym = s
                                /\ k.props[p].kind \in {"prompt", "menu", "default"}
                                /\ Value(k.props[p].vis, v) # no
\* A front end reaches every visible prompt: what the entry is moved under is
\* visible too, or set, in which case its visible entries make it visible
\* (menu_finalize against menu_is_visible).
ShownUnderShown ==
  stage = "finalized" =>
    \A j \in Menus(k) \ {0}, v \in {v \in Valuations : Possible(v)} :
      k.mprompt[j] # 0 /\ Value(k.props[k.mprompt[j]].vis, v) # no =>
        \A i \in Above(k.parent[j]) :
          /\ k.mprompt[i] # 0
          /\ \/ Value(k.props[k.mprompt[i]].vis, v) # no
             \/ k.msym[i] # None /\ v[k.msym[i]] # no

-----------------------------------------------------------------------------
(* s needs t: calculating s calculates t.                                  *)

Needs(s) ==
  Range(SymbolsIn(k.rev[s])) \cup
  UNION {Range(SymbolsIn(k.props[i].vis)) \cup
         (IF k.props[i].kind = "default" THEN Range(SymbolsIn(k.props[i].e)) ELSE {}) :
           i \in {i \in DOMAIN k.props : k.props[i].sym = s /\ k.props[i].kind # "select"}}
RECURSIVE Reach(_)
Reach(set) == LET more == set \cup UNION {Needs(s) : s \in set \cap Symbols(k)}
              IN IF more = set THEN set ELSE Reach(more)
Recursive == \E s \in Symbols(k) : s \in Reach(Needs(s))

\* The depth-first check, which marks symbols and never looks at one twice,
\* reports a recursion exactly when the value of a symbol depends on itself, in
\* whichever order it meets the symbols (sym_check_deps; choices, where it looks
\* at the values as one, are left out).
CycleReported ==
  stage = "checked" /\ k.choices = {} => (checked.d.found <=> Recursive)
=============================================================================
