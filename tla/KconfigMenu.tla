---------------------------- MODULE KconfigMenu -----------------------------
(***************************************************************************)
(* From the statements of the Kconfig files to the menu tree and the       *)
(* symbols (support/kconfig/menu.c, as driven by the grammar in zconf.y),  *)
(* and the check for recursive dependencies (symbol.c).                    *)
(*                                                                         *)
(* A statement has kind ("config", "menuconfig", "choice", "menu", "if" or *)
(* "comment"), sym, type, optional, dep (its "depends on" lines, or the    *)
(* condition of an if), opts (its prompts, defaults, selects and ranges,   *)
(* in order) and kids (the statements inside it).  An option has kind, e   *)
(* (the default, the symbol selected), lo and hi (of a range) and cond.    *)
(*                                                                         *)
(* The tree k has, beside what KconfigSymbol describes, for menu i (0 is   *)
(* the root): kids[i], parent[i], msym[i], mdep[i] and mprompt[i], the     *)
(* index in k.props of its prompt, or 0.                                   *)
(***************************************************************************)
EXTENDS KconfigSymbol

MODULES == "<modules>"                   \* modules_sym has no name in the code
HasSymbol(st) == st.kind \in {"config", "menuconfig", "choice"}

\* 'm' in a condition stands for 'm' && MODULES.
RECURSIVE menu_check_dep(_)
menu_check_dep(e) ==
  CASE Binary(e) -> Two(e.op, menu_check_dep(e.a), menu_check_dep(e.b))
    [] e.op = "not" -> Not(menu_check_dep(e.a))
    [] e = M -> And(M, Sy(MODULES))
    [] OTHER -> e

menu_set_type(k, s, t) == IF k.type[s] = "unknown" THEN [k EXCEPT !.type[s] = t] ELSE k

-----------------------------------------------------------------------------
(* Building the tree, one statement after the other.                       *)

\* _menu_init and the start of conf_parse.  order is the order of the hash table.
_menu_init(order) ==
  LET all == Range(order)
  IN [syms |-> order, type |-> [s \in all |-> IF s = MODULES THEN "boolean" ELSE "unknown"],
      props |-> <<[kind |-> "menu", sym |-> None, text |-> TRUE, vis |-> NoExpr,
                   e |-> NoExpr, lo |-> None, hi |-> None, menu |-> 0]>>,
      dir |-> [s \in all |-> NoExpr], rev |-> [s \in all |-> NoExpr],
      choices |-> {}, vals |-> [s \in all |-> <<>>], choice |-> [s \in all |-> None],
      optional |-> {}, auto |-> {MODULES}, modules |-> MODULES,
      kids |-> (0 :> <<>>), parent |-> (0 :> 0), msym |-> (0 :> None),
      mdep |-> (0 :> NoExpr), mprompt |-> (0 :> 1)]

Menus(k) == DOMAIN k.kids
menu_add_entry(k, parent, s) ==
  LET i == Cardinality(Menus(k))
      p == [kind |-> "symbol", sym |-> s, text |-> FALSE, vis |-> NoExpr,
            e |-> Sy(s), lo |-> None, hi |-> None, menu |-> i]
  IN [k EXCEPT !.kids = [@ EXCEPT ![parent] = Append(@, i)] @@ (i :> <<>>),
               !.parent = @ @@ (i :> parent), !.msym = @ @@ (i :> s),
               !.mdep = @ @@ (i :> NoExpr), !.mprompt = @ @@ (i :> 0),
               !.props = IF s = None THEN @ ELSE Append(@, p)]

\* text: has the property a text, that is, is it a prompt of some kind?
menu_add_prop(k, i, kind, text, opt) ==
  LET p == [kind |-> kind, sym |-> k.msym[i], text |-> text,
            vis |-> menu_check_dep(opt.cond), e |-> opt.e, lo |-> opt.lo,
            hi |-> opt.hi, menu |-> i]
  IN [k EXCEPT !.props = Append(@, p),
               !.mprompt[i] = IF text THEN Len(k.props) + 1 ELSE @]
Bare == [e |-> NoExpr, lo |-> None, hi |-> None, cond |-> NoExpr]

AddOption(k, i, st, opt) ==
  menu_add_prop(k, i, IF opt.kind = "prompt" /\ st.kind = "menuconfig" THEN "menu" ELSE opt.kind,
                opt.kind = "prompt", opt)

RECURSIVE AddStatement(_, _, _)
AddStatement(k, parent, st) ==
  LET s == IF HasSymbol(st) THEN st.sym ELSE None
      i == Cardinality(Menus(k))
      head(k1) ==
        CASE st.kind \in {"config", "menuconfig"} ->
               menu_set_type([k1 EXCEPT !.optional = @ \cup {s}], s, st.type)
          [] st.kind = "choice" ->
               menu_set_type([k1 EXCEPT !.auto = @ \cup {s}, !.choices = @ \cup {s},
                                        !.optional = IF st.optional THEN @ \cup {s} ELSE @],
                             s, st.type)
          [] st.kind \in {"menu", "comment"} -> menu_add_prop(k1, i, st.kind, TRUE, Bare)
          [] OTHER -> k1
      options(k2) == FoldAlong(LAMBDA a, opt : AddOption(a, i, st, opt), k2, st.opts)
  IN FoldAlong(LAMBDA a, kid : AddStatement(a, i, kid),
               [options(head(menu_add_entry(k, parent, s))) EXCEPT !.mdep[i] = menu_check_dep(st.dep)],
               st.kids)

zconfparse(sts, order) ==
  FoldAlong(LAMBDA a, st : AddStatement(a, 0, st), _menu_init(order), sts)

-----------------------------------------------------------------------------
(* menu_finalize.                                                          *)

\* The type of a choice is the one of its first value that has one, and the
\* values without one get it.
ChoiceType(k, i) ==
  LET c == k.msym[i]
      typed == SelectSeq(k.kids[i], LAMBDA j : k.msym[j] # None /\ k.type[k.msym[j]] # "unknown")
      k1 == IF typed = <<>> THEN k ELSE menu_set_type(k, c, k.type[k.msym[typed[1]]])
  IN FoldAlong(LAMBDA a, j : IF a.msym[j] = None THEN a ELSE menu_set_type(a, a.msym[j], a.type[c]),
              k1, k.kids[i])

\* What an entry depends on is handed down to its properties, and a select to
\* the symbol it selects.
\* A mutant that leaves a property with its own condition only.
OwnCondition(k, i, p) == expr_transform(k.props[p].vis, k.type)
Condition(k, i, p)    == expr_alloc_and(k.mdep[i], expr_transform(k.props[p].vis, k.type))
\* A mutant whose select holds even where the one who selects is out of reach.
SelectedAlways(s, dep) == Sy(s)
SelectedBy(s, dep)     == expr_alloc_and(Sy(s), dep)
PassToProperty(k, i, p) ==
  LET s == k.msym[i]
      es == k.props[p].e.sym
  IN Bind(expr_eliminate_dups(Condition(k, i, p), k.type), LAMBDA vis :
     Bind(IF s # None /\ k.type[s] # "tristate" THEN expr_trans_bool(vis, k.type) ELSE vis, LAMBDA dep :
     Bind([k EXCEPT !.props[p].vis = dep], LAMBDA k1 :
       IF k.props[p].kind # "select" \/ es \notin Symbols(k) THEN k1
       ELSE [k1 EXCEPT !.rev[es] = expr_alloc_or(@, SelectedBy(s, dep))])))

PassDown(k, parentdep, i) ==
  FoldAlong(LAMBDA a, p : PassToProperty(a, i, p),
            [k EXCEPT !.mdep[i] = expr_eliminate_dups(
               expr_alloc_and(parentdep, expr_transform(k.mdep[i], k.type)), k.type)],
            SelectSeq([p \in DOMAIN k.props |-> p], LAMBDA p : k.props[p].menu = i))

IsChoice(k, i) == k.msym[i] # None /\ k.msym[i] \in k.choices
ShownWhen(k, i) == IF k.mprompt[i] # 0 THEN k.props[k.mprompt[i]].vis ELSE k.mdep[i]
NotNo(k, e) == expr_eliminate_dups(expr_transform(expr_trans_compare(e, "neq", "n"), k.type), k.type)

\* Can entry j be shown only when the entry of s, shown under base, is?
\* A mutant that takes every mention of s for a dependency.
BelongsIfNamed(k, s, base, j) == expr_contains_symbol(ShownWhen(k, j), s)
BelongsUnder(k, s, base, j) ==
  LET dep == ShownWhen(k, j)
  IN /\ expr_contains_symbol(dep, s)
     /\ \/ expr_depends_symbol(dep, s)
        \/ expr_is_yes(expr_eliminate_eq(NotNo(k, dep), base)[2])

RECURSIVE menu_finalize(_, _), FinalizeKids(_, _, _), Absorb(_, _, _, _), AdoptValue(_, _, _)

FinalizeKids(k, i, n) ==
  IF n > Len(k.kids[i]) THEN k
  ELSE FinalizeKids(menu_finalize(k, k.kids[i][n]), i, n + 1)

\* The entries after i, from position n of its parent's list, become its submenu
\* as long as they belong there; returns the tree and the position reached.
Absorb(k, i, base, n) ==
  LET up == k.parent[i] IN
  IF n > Len(k.kids[up]) \/ ~BelongsUnder(k, k.msym[i], base, k.kids[up][n])
  THEN [k |-> k, n |-> n]
  ELSE Absorb([menu_finalize(k, k.kids[up][n]) EXCEPT !.parent[k.kids[up][n]] = i], i, base, n + 1)

\* What is left of a list when the entries after position at, up to n, move.  A
\* mutant that leaves one of them.
LeftTwice(list, at, n) == SubSeq(list, 1, at) \o SubSeq(list, IF n > at + 1 THEN n - 1 ELSE n, Len(list))
Left(list, at, n)      == SubSeq(list, 1, at) \o SubSeq(list, n, Len(list))
Submenu(k, i) ==
  LET up == k.parent[i]
      at == CHOOSE n \in DOMAIN k.kids[up] : k.kids[up][n] = i
      split(r, list) ==
        [r.k EXCEPT !.kids = [@ EXCEPT ![i] = SubSeq(list, at + 1, r.n - 1),
                                       ![up] = Left(list, at, r.n)],
                    !.dir[k.msym[i]] = expr_alloc_or(@, r.k.mdep[i])]
  IN Bind(NotNo(k, IF k.mprompt[i] # 0 THEN k.props[k.mprompt[i]].vis ELSE NoExpr), LAMBDA base :
     Bind(Absorb(k, i, base, at + 1), LAMBDA r : split(r, r.k.kids[up])))

\* Entry j of choice i becomes one of its values.
Adopts(k, i, j) == IsChoice(k, i) /\ k.msym[j] # None /\ k.choice[k.msym[j]] = None
\* An entry of choice c becomes one of its values.
AdoptedValue(k, c, j) ==
  LET s == k.msym[j]
      onlyY == k.type[c] = "tristate" /\ k.type[s] # "tristate"
      limit(p) == IF onlyY /\ p.menu = j THEN [p EXCEPT !.vis = expr_alloc_and(Eq(c, "y"), @)] ELSE p
  IN [k EXCEPT !.choice[s] = c, !.vals[c] = Append(@, s),
               !.mdep[j] = IF onlyY THEN expr_alloc_and(Eq(c, "y"), @) ELSE @,
               !.props = [p \in DOMAIN @ |-> limit(@[p])]]

\* From position n on: values are adopted, and an entry without a prompt makes
\* place for the entries below it.
AdoptValue(k, i, n) ==
  IF n > Len(k.kids[i]) THEN k
  ELSE LET j == k.kids[i][n]
           below == k.kids[j]
           lift(k1) ==
             IF k1.mprompt[j] # 0 THEN k1
             ELSE [k1 EXCEPT
                   !.kids = [@ EXCEPT ![i] = SubSeq(@, 1, n) \o below \o SubSeq(@, n + 1, Len(@)),
                                      ![j] = <<>>],
                   !.parent = [m \in DOMAIN @ |-> IF m \in Range(below) THEN i ELSE @[m]]]
       IN AdoptValue(lift(IF Adopts(k, i, j)
                          THEN AdoptedValue(k, k.msym[i], j) ELSE k), i, n + 1)

menu_finalize(k, i) ==
  LET s == k.msym[i]
      down(k1) == LET dep == IF IsChoice(k, i) THEN Sy(s) ELSE ShownWhen(k1, i)
                  IN FinalizeKids(FoldAlong(LAMBDA a, j : PassDown(a, dep, j), k1, k1.kids[i]), i, 1)
  IN Bind(AdoptValue(IF k.kids[i] # <<>> THEN down(IF IsChoice(k, i) THEN ChoiceType(k, i) ELSE k)
                     ELSE IF s # None THEN Submenu(k, i) ELSE k, i, 1), LAMBDA k3 :
       IF s = None \/ s \in k.optional \/ k.mprompt[i] = 0 THEN k3
       ELSE [k3 EXCEPT !.rev[s] = expr_alloc_or(@, expr_alloc_and(k3.props[k3.mprompt[i]].vis, M))])

\* modules_sym follows the symbol MODULES unless an option made it follow another.
WithModules(k) ==
  [k EXCEPT !.props = Append(@, [kind |-> "default", sym |-> MODULES, text |-> FALSE,
                                 vis |-> NoExpr, e |-> Sy("MODULES"), lo |-> None,
                                 hi |-> None, menu |-> -1])]
conf_parse(sts, order) == menu_finalize(WithModules(zconfparse(sts, order)), 0)

-----------------------------------------------------------------------------
(* sym_check_deps: depth first through what the value of a symbol depends  *)
(* on.  The flags CHECK (on the way) and CHECKED (seen) are sets; found is *)
(* set when "recursive dependency detected" is printed; ret is the symbol  *)
(* returned, or None.                                                      *)

RECURSIVE sym_check_deps(_, _, _)
CheckNext(k, d, s) == IF d.ret # None \/ s \notin Symbols(k) THEN d ELSE sym_check_deps(k, d, s)
sym_check_expr_deps(k, d, e) ==
  FoldAlong(LAMBDA a, s : CheckNext(k, a, s), d, SymbolsIn(e))

\* What the default p of s says; a mutant that does not look.
DefaultSkipped(k, s, p) == NoExpr
DefaultOf(k, s, p) == IF k.props[p].kind # "default" \/ sym_is_choice(k, s) THEN NoExpr
                      ELSE k.props[p].e
sym_check_sym_deps(k, d, s) ==
  LET own == SelectSeq([i \in DOMAIN k.props |-> i],
                       LAMBDA i : k.props[i].sym = s /\ k.props[i].kind # "select")
      byProp(a, i) ==
        sym_check_expr_deps(k, sym_check_expr_deps(k, a, k.props[i].vis),
                            DefaultOf(k, s, i))
  IN FoldAlong(byProp, sym_check_expr_deps(k, d, k.rev[s]), own)

sym_check_choice_deps(k, d, c) ==
  LET values == Range(k.vals[c])
      d1 == [d EXCEPT !.check = @ \cup values \cup {c}, !.checked = @ \cup values \cup {c}]
      d3 == FoldAlong(LAMBDA a, v : IF a.ret # None THEN a ELSE sym_check_sym_deps(k, a, v),
                      [sym_check_sym_deps(k, d1, c) EXCEPT !.check = @ \ {c}], k.vals[c])
  IN [d3 EXCEPT !.check = @ \ values, !.ret = IF @ \in values THEN c ELSE @]

sym_check_deps(k, d, s) ==
  IF s \in d.check THEN [d EXCEPT !.found = TRUE, !.ret = s]
  ELSE IF s \in d.checked THEN d
  ELSE Bind(CASE sym_is_choice_value(k, s) -> sym_check_deps(k, d, k.choice[s])
              [] sym_is_choice(k, s) -> sym_check_choice_deps(k, d, s)
              [] OTHER -> [sym_check_sym_deps(k, [d EXCEPT !.check = @ \cup {s},
                                                           !.checked = @ \cup {s}], s)
                           EXCEPT !.check = @ \ {s}], LAMBDA r :
         IF r.ret = s THEN [r EXCEPT !.ret = None] ELSE r)

\* The end of conf_parse: every symbol in the order of the table; errors counts
\* the symbols for which the check returned something.
CheckAll(k) ==
  FoldAlong(LAMBDA a, s :
             Bind(sym_check_deps(k, a.d, s), LAMBDA d :
               [d |-> [d EXCEPT !.ret = None],
                errors |-> IF d.ret = None THEN a.errors ELSE a.errors + 1]),
           [d |-> [check |-> {}, checked |-> {}, found |-> FALSE, ret |-> None], errors |-> 0],
           k.syms)
=============================================================================
