--------------------------- MODULE KconfigSymbol ----------------------------
(***************************************************************************)
(* Values of kconfig symbols (support/kconfig/symbol.c).  The code keeps   *)
(* them in the symbols and recomputes them lazily: a symbol whose flag     *)
(* VALID is set keeps what it has until something clears the flag.  Here   *)
(* an operator takes the description k and the state x of all symbols, and *)
(* returns the state it leaves.                                            *)
(*                                                                         *)
(* k is what the parser made of the Kconfig files (KconfigMenu):           *)
(*   syms       the symbols, in the order of the hash table                *)
(*   type       type of each symbol                                        *)
(*   props      the properties, in the order they were read; each has kind,*)
(*              sym, text (has it one?), vis, e (its expression; a range   *)
(*              has lo and hi) and menu                                    *)
(*   dir, rev   direct dependency, and what selects the symbol             *)
(*   choices, vals              the choices, and the values of each       *)
(*   choice     the choice a symbol is a value of, or "none"               *)
(*   optional, auto, modules    flags OPTIONAL and AUTO, modules_sym       *)
(* x has                                                                   *)
(*   tri, val   current value; val of a choice is the chosen symbol        *)
(*   vis, dir, rev              visibility and dependencies, as values     *)
(*   pvis       visibility of each property, as last computed              *)
(*   valid, write, user, auto   the sets of symbols with that flag         *)
(*   utri, uval, atri, aval     user value, and the one of auto.conf       *)
(*   mval, changed              modules_val, and sym_change_count # 0      *)
(***************************************************************************)
EXTENDS KconfigExpr, TLC

None == "none"                                          \* a NULL symbol
Symbols(k) == {k.syms[i] : i \in DOMAIN k.syms}
sym_is_choice(k, s)       == s \in k.choices
sym_is_choice_value(k, s) == k.choice[s] # None
sym_has_value(x, s)       == s \in x.user
Properties(k, s, kind) ==
  SelectSeq([i \in DOMAIN k.props |-> i],
            LAMBDA i : k.props[i].sym = s /\ k.props[i].kind = kind)
Prompts(k, s) ==
  SelectSeq([i \in DOMAIN k.props |-> i],
            LAMBDA i : k.props[i].sym = s /\ k.props[i].text)

\* Numbers are texts here as in the code; those in use have one digit.
Digit == 0..9
DecTexts == {ToString(n) : n \in Digit}
HexTexts == DecTexts \cup {"0x" \o ToString(n) : n \in Digit}
strtol(t) == IF \E n \in Digit : t \in {ToString(n), "0x" \o ToString(n)}
             THEN CHOOSE n \in Digit : t \in {ToString(n), "0x" \o ToString(n)}
             ELSE 0

sym_get_type(k, x, s) ==
  IF k.type[s] = "tristate" /\ (x.mval = no \/ (sym_is_choice_value(k, s) /\ x.vis[s] = yes))
  THEN "boolean" ELSE k.type[s]

Toggles(k, s) == k.type[s] \in {"boolean", "tristate"}
TriText(k, x, t) ==
  CASE t = no -> "n" [] t = yes -> "y"
    [] OTHER -> IF x.tri[k.modules] = no THEN "n" ELSE "m"

\* The code calculates modules_sym first for a symbol that is m; that one is
\* valid since the last sym_clear_all_valid or conf_read_simple.
sym_get_string_value(k, x, s) == IF Toggles(k, s) THEN TriText(k, x, x.tri[s]) ELSE x.val[s]
sym_get_tristate_value(x, s) == x.tri[s]
sym_get_choice_value(x, s) == x.val[s]
Texts(k, x) == [s \in Symbols(k) |-> sym_get_string_value(k, x, s)]
sym_is_changable(x, s) == x.vis[s] > x.rev[s]

RECURSIVE SymbolsIn(_)
SymbolsIn(e) ==
  CASE Binary(e) -> SymbolsIn(e.a) \o SymbolsIn(e.b)
    [] e.op = "not" -> SymbolsIn(e.a)
    [] e.op = "sym" -> <<e.sym>>
    [] Compare(e) -> <<e.l, e.r>>
    [] OTHER -> <<>>

-----------------------------------------------------------------------------
(* sym_calc_value and what it calls.  Calculating an expression calculates *)
(* its symbols, from left to right; Val is its value once that is done.    *)

RECURSIVE sym_calc_value(_, _, _)
Calc(k, x, e) ==
  FoldAlong(LAMBDA y, s : IF s \in Symbols(k) THEN sym_calc_value(k, y, s) ELSE y,
           x, SymbolsIn(e))
Val(k, x, e) == expr_calc_value(e, x.tri, Texts(k, x))

\* prop->visible.tri of property i.
CalcProp(k, x, i) ==
  Bind(Calc(k, x, k.props[i].vis), LAMBDA y : [y EXCEPT !.pvis[i] = Val(k, y, k.props[i].vis)])
\* The first of these properties whose condition holds: its index, or 0.
RECURSIVE FirstVisible(_, _, _)
FirstVisible(k, x, list) ==
  IF list = <<>> THEN [x |-> x, i |-> 0]
  ELSE Bind(CalcProp(k, x, Head(list)), LAMBDA y :
         IF y.pvis[Head(list)] # no THEN [x |-> y, i |-> Head(list)]
         ELSE FirstVisible(k, y, Tail(list)))
sym_get_default_prop(k, x, s) == FirstVisible(k, x, Properties(k, s, "default"))
sym_get_range_prop(k, x, s)   == FirstVisible(k, x, Properties(k, s, "range"))

\* A bound of a range is a symbol, or a constant.
CalcText(k, x, s) ==
  IF s \in Symbols(k)
  THEN Bind(sym_calc_value(k, x, s), LAMBDA y : [x |-> y, text |-> y.val[s]])
  ELSE [x |-> x, text |-> s]

\* How the value n of s relates to the range of s, and the bound it misses.
InRange(k, x, s, n) ==
  Bind(sym_get_range_prop(k, x, s), LAMBDA p :
    IF p.i = 0 THEN [x |-> p.x, ok |-> TRUE, bound |-> ""]
    ELSE Bind(CalcText(k, p.x, k.props[p.i].lo), LAMBDA low :
         IF n < strtol(low.text) THEN [x |-> low.x, ok |-> FALSE, bound |-> low.text]
         ELSE Bind(CalcText(k, low.x, k.props[p.i].hi), LAMBDA high :
              [x |-> high.x, ok |-> n <= strtol(high.text), bound |-> high.text])))
sym_validate_range(k, x, s) ==
  LET text(t) == IF k.type[s] = "int" THEN ToString(strtol(t)) ELSE "0x" \o ToString(strtol(t))
  IN IF k.type[s] \notin {"int", "hex"} THEN x
     ELSE Bind(InRange(k, x, s, strtol(x.val[s])), LAMBDA r :
            IF r.ok THEN r.x ELSE [r.x EXCEPT !.val[s] = text(r.bound)])

\* m counts as y where m is impossible.
NotMod(t) == IF t = mod THEN yes ELSE t

sym_calc_visibility(k, x, s) ==
  LET prompt(a, i) == Bind(CalcProp(k, a.x, i), LAMBDA y : [x |-> y, t |-> EXPR_OR(a.t, y.pvis[i])])
      asShown(seen) == [seen.x EXCEPT !.vis[s] = IF k.type[s] # "tristate" \/ seen.x.mval = no
                                                 THEN NotMod(seen.t) ELSE seen.t]
      direct(y) == [y EXCEPT !.dir[s] = NotMod(Val(k, y, k.dir[s]))]
      selected(y) == IF k.rev[s] = NoExpr THEN no ELSE Val(k, y, k.rev[s])
      reverse(y) == [y EXCEPT !.rev[s] = IF sym_get_type(k, y, s) = "boolean"
                                         THEN NotMod(selected(y)) ELSE selected(y)]
  IN Bind(asShown(FoldAlong(prompt, [x |-> x, t |-> no], Prompts(k, s))), LAMBDA y :
       IF sym_is_choice_value(k, s) THEN y
       ELSE reverse(Calc(k, direct(Calc(k, y, k.dir[s])), k.rev[s])))

\* The default a choice falls back to: the value of a default that holds and
\* that is visible, or the first visible value.
RECURSIVE ChoiceDefault(_, _, _, _)
ChoiceDefault(k, x, s, defaults) ==
  IF defaults = <<>>
  THEN LET visible == SelectSeq(k.vals[s], LAMBDA v : x.vis[v] # no)
       IN [x |-> x, v |-> IF visible = <<>> THEN None ELSE visible[1]]
  ELSE Bind(FirstVisible(k, x, defaults), LAMBDA p :
       IF p.i # 0 /\ p.x.vis[k.props[p.i].e.sym] # no
       THEN [x |-> p.x, v |-> k.props[p.i].e.sym]
       ELSE ChoiceDefault(k, p.x, s, IF p.i = 0 THEN <<>>
                                     ELSE SelectSeq(defaults, LAMBDA i : i > p.i)))
sym_choice_default(k, x, s) == ChoiceDefault(k, x, s, Properties(k, s, "default"))

\* The choice has a user value only while all its visible values have one.
AskedAll(k, x, s) ==
  IF \A i \in DOMAIN k.vals[s] : x.vis[k.vals[s][i]] # no => k.vals[s][i] \in x.user
  THEN x ELSE [x EXCEPT !.user = @ \ {s}]
Settle(k, x, s) ==
  IF x.uval[s] # None /\ x.vis[x.uval[s]] # no THEN [x EXCEPT !.val[s] = x.uval[s]]
  ELSE Bind(sym_choice_default(k, x, s), LAMBDA d :
         IF d.v = None THEN [d.x EXCEPT !.val[s] = None, !.tri[s] = no]
         ELSE [d.x EXCEPT !.val[s] = d.v])
sym_calc_choice(k, x, s) ==
  Bind(AskedAll(k, FoldAlong(LAMBDA a, v : sym_calc_visibility(k, a, v), x, k.vals[s]), s),
       LAMBDA y : Settle(k, y, s))

\* The value of a boolean or tristate that is not a value of a choice set to y.
OwnTristate(k, x, s) ==
  IF x.vis[s] # no /\ sym_has_value(x, s)
  THEN [x |-> x, t |-> EXPR_AND(x.utri[s], x.vis[s]), write |-> TRUE]
  ELSE Bind(IF sym_is_choice(k, s) THEN [x |-> x, i |-> 0] ELSE sym_get_default_prop(k, x, s), LAMBDA p :
       Bind(IF p.i = 0 THEN p.x ELSE Calc(k, p.x, k.props[p.i].e), LAMBDA y :
         [x |-> y,
          t |-> IF p.i = 0 THEN no ELSE EXPR_AND(Val(k, y, k.props[p.i].e), y.pvis[p.i]),
          write |-> x.vis[s] # no \/ x.rev[s] # no \/ p.i # 0]))

\* A boolean is never m; a mutant that forgets it.
AsCalculated(k, x, s, t) == t
Promoted(k, x, s, t) == IF sym_get_type(k, x, s) = "boolean" THEN NotMod(t) ELSE t
CalcTristate(k, x, s) ==
  LET set(y, t) == [y EXCEPT !.tri[s] = Promoted(k, y, s, t)]
  IN IF sym_is_choice_value(k, s) /\ x.vis[s] = yes
     THEN [x EXCEPT !.tri[s] = IF x.val[k.choice[s]] = s THEN yes ELSE no]
     ELSE Bind(OwnTristate(k, x, s), LAMBDA o :
            set(IF o.write THEN [o.x EXCEPT !.write = @ \cup {s}] ELSE o.x, EXPR_OR(o.t, o.x.rev[s])))

CalcString(k, x, s) ==
  IF x.vis[s] # no /\ sym_has_value(x, s)
  THEN [x EXCEPT !.val[s] = x.uval[s], !.write = @ \cup {s}]
  ELSE Bind(sym_get_default_prop(k, IF x.vis[s] # no THEN [x EXCEPT !.write = @ \cup {s}] ELSE x, s),
            LAMBDA p :
              IF p.i = 0 THEN p.x
              ELSE Bind(CalcText(k, p.x, k.props[p.i].e.sym), LAMBDA d :
                     [d.x EXCEPT !.val[s] = d.text, !.write = @ \cup {s}]))

\* The values of a choice that is written are written.
SpreadWrite(k, x, s) ==
  IF s \notin x.write THEN x
  ELSE [x EXCEPT !.write = @ \cup {v \in Symbols(k) : k.choice[v] = s /\ x.vis[v] # no}]

\* What a recursive call finds while the value is calculated.
Cleared(k, x, s) == [x EXCEPT !.tri[s] = no, !.val[s] = IF Toggles(k, s) THEN "n" ELSE ""]
CalcOwn(k, x, s) == IF Toggles(k, s) THEN CalcTristate(k, x, s) ELSE CalcString(k, x, s)
CalcChoice(k, x, s) == IF sym_is_choice(k, s) /\ x.tri[s] = yes THEN sym_calc_choice(k, x, s) ELSE x
SetModules(k, x, s, old) ==
  IF s = k.modules /\ x.tri[s] # old THEN [x EXCEPT !.mval = x.tri[s]] ELSE x

sym_calc_value(k, x, s) ==
  IF s \in x.valid THEN x
  ELSE Bind([x EXCEPT !.valid = @ \cup {s},
                      !.write = IF sym_is_choice_value(k, s) THEN @ ELSE @ \ {s}], LAMBDA x1 :
       Bind(CalcOwn(k, Cleared(k, sym_calc_visibility(k, x1, s), s), s), LAMBDA x2 :
       Bind(sym_validate_range(k, CalcChoice(k, x2, s), s), LAMBDA x3 :
       Bind(SetModules(k, x3, s, x.tri[s]), LAMBDA x4 :
       Bind(IF sym_is_choice(k, s) THEN SpreadWrite(k, x4, s) ELSE x4, LAMBDA x5 :
         IF s \in k.auto THEN [x5 EXCEPT !.write = @ \ {s}] ELSE x5)))))

sym_clear_all_valid(k, x) ==
  sym_calc_value(k, [x EXCEPT !.valid = {}, !.changed = TRUE], k.modules)

-----------------------------------------------------------------------------
(* Setting a value: the state and whether the symbol took it.              *)

sym_tristate_within_range(k, x, s, t) ==
  /\ x.vis[s] # no
  /\ Toggles(k, s)
  /\ ~(sym_get_type(k, x, s) = "boolean" /\ t = mod)
  /\ x.vis[s] > x.rev[s]
  /\ IF sym_is_choice_value(k, s) /\ x.vis[s] = yes THEN t = yes
     ELSE t \in x.rev[s]..x.vis[s]

\* What is calculated anew when s gets another value; a mutant that forgets the
\* symbols that depend on it.
OnlyItself(k, x, s) == [x EXCEPT !.valid = @ \ {s}, !.changed = TRUE]
Recalculate(k, x, s) == sym_clear_all_valid(k, x)
sym_set_tristate_value(k, x, s, t) ==
  LET old == sym_get_tristate_value(x, s)
      c == k.choice[s]
      x1 == [x EXCEPT !.user = @ \cup {s}]
      x2 == IF c = None \/ t # yes THEN x1
            ELSE [x1 EXCEPT !.uval[c] = s,
                            !.user = @ \cup {c} \cup
                              {v \in Symbols(k) : k.choice[v] = c /\ x.vis[v] # no}]
      x3 == [x2 EXCEPT !.utri[s] = t]
  IN IF old # t /\ ~sym_tristate_within_range(k, x, s, t) THEN [x |-> x, ok |-> FALSE]
     ELSE [x |-> IF old # t THEN Recalculate(k, x3, s) ELSE x3, ok |-> TRUE]
sym_set_choice_value(k, x, c, v) == sym_set_tristate_value(k, x, v, yes).x

\* no, mod, yes, no ...: the first the symbol takes.
RECURSIVE ToggleFrom(_, _, _, _)
ToggleFrom(k, x, s, t) ==
  LET new == (t + 1) % 3
  IN Bind(sym_set_tristate_value(k, x, s, new), LAMBDA r :
       IF r.ok \/ new = x.tri[s] THEN r.x ELSE ToggleFrom(k, x, s, new))
sym_toggle_tristate_value(k, x, s) == ToggleFrom(k, x, s, sym_get_tristate_value(x, s))

TristateOf(t) == CASE t \in {"y", "Y"} -> yes [] t \in {"m", "M"} -> mod [] OTHER -> no
sym_string_valid(k, s, t) ==
  CASE k.type[s] = "string" -> TRUE
    [] k.type[s] = "int" -> t \in DecTexts
    [] k.type[s] = "hex" -> t \in HexTexts
    [] OTHER -> t \in {"y", "Y", "m", "M", "n", "N"}

\* The state, and whether the text is a value the symbol may take.
sym_string_within_range(k, x, s, t) ==
  IF ~sym_string_valid(k, s, t) THEN [x |-> x, ok |-> FALSE]
  ELSE IF Toggles(k, s)
  THEN [x |-> x, ok |-> sym_tristate_within_range(k, x, s, TristateOf(t))]
  ELSE IF k.type[s] = "string" THEN [x |-> x, ok |-> TRUE]
  ELSE InRange(k, x, s, strtol(t))

Hexed(t) == IF t \in DecTexts THEN "0x" \o t ELSE t
sym_set_string_value(k, x, s, t) ==
  IF Toggles(k, s)
  THEN IF sym_string_valid(k, s, t) THEN sym_set_tristate_value(k, x, s, TristateOf(t))
       ELSE [x |-> x, ok |-> FALSE]
  ELSE Bind(sym_string_within_range(k, x, s, t), LAMBDA r :
       LET text == IF k.type[s] = "hex" THEN Hexed(t) ELSE t
           x1 == [r.x EXCEPT !.user = @ \cup {s}]
       IN IF ~r.ok THEN r
          ELSE IF text = t /\ x.uval[s] = t THEN [x |-> x1, ok |-> TRUE]
          ELSE [x |-> sym_clear_all_valid(k, [x1 EXCEPT !.uval[s] = text]), ok |-> TRUE])

-----------------------------------------------------------------------------
(* The value a symbol would have had without the user (for savedefconfig). *)

\* e is the value of the default property p, or nothing.
DefaultTri(k, p, e, s) ==
  Bind(Calc(k, p.x, e), LAMBDA y :
  Bind(EXPR_OR(IF p.i = 0 THEN no ELSE EXPR_AND(Val(k, y, e), y.pvis[p.i]), y.rev[s]), LAMBDA t :
  Bind(IF (~sym_is_choice_value(k, s) /\ y.tri[k.modules] = no) \/ k.type[s] = "boolean"
       THEN NotMod(t) ELSE t, LAMBDA u :
    [x |-> y, text |-> CASE u = no -> "n" [] u = mod -> "m" [] OTHER -> "y"])))
sym_get_string_default(k, x, s) ==
  Bind(sym_get_default_prop(k, sym_calc_value(k, sym_calc_visibility(k, x, s), k.modules), s), LAMBDA p :
    IF Toggles(k, s) THEN DefaultTri(k, p, IF p.i = 0 THEN NoExpr ELSE k.props[p.i].e, s)
    ELSE IF p.i = 0 THEN [x |-> p.x, text |-> ""]
    ELSE CalcText(k, p.x, k.props[p.i].e.sym))
=============================================================================
