---------------------------- MODULE KconfigData -----------------------------
(***************************************************************************)
(* Reading and writing configurations (support/kconfig/confdata.c, and     *)
(* menu_is_visible of menu.c, which the writers call).                     *)
(*                                                                         *)
(* A configuration file is a sequence of lines [sym, text]; text is what   *)
(* follows the = sign, or Unset for "# CONFIG_X is not set".  Comments and *)
(* blank lines are left out.                                               *)
(***************************************************************************)
EXTENDS KconfigMenu

Unset == "is not set"
NoFile == <<[sym |-> None, text |-> "no file"]>>

-----------------------------------------------------------------------------
(* Text in quotes: " and \ are preceded by \.                              *)

Char(t, i) == SubSeq(t, i, i)
\* A mutant that does not quote the quotes.
SpecialBackslash == {"\\"}
Special == {"\"", "\\"}
sym_escape_string_value(t) ==
  "\"" \o FoldAlong(LAMBDA a, i : a \o (IF Char(t, i) \in Special THEN "\\" ELSE "") \o Char(t, i),
                   "", [i \in 1..Len(t) |-> i]) \o "\""

\* What the quoted text starting at t[i] stands for; ok is FALSE if it does not end.
RECURSIVE Unquote(_, _, _)
Unquote(t, i, done) ==
  CASE i > Len(t) -> [ok |-> FALSE, text |-> done]
    [] i <= Len(t) /\ Char(t, i) = "\"" -> [ok |-> TRUE, text |-> done]
    [] i < Len(t) /\ Char(t, i) = "\\" -> Unquote(t, i + 2, done \o Char(t, i + 1))
    [] OTHER -> Unquote(t, i + 1, done \o Char(t, i))

-----------------------------------------------------------------------------
(* Reading.  d is one of the two sets of values a symbol can have (the     *)
(* user's, or those of auto.conf): tri, val, and has, the symbols that     *)
(* have one; bad counts the warnings and the unknown names as one flag.    *)

conf_set_sym_val(k, d, s, t) ==
  LET tri(v) == [d EXCEPT !.tri[s] = v, !.has = @ \cup {s}]
      text(v) == IF sym_string_valid(k, s, v) THEN [d EXCEPT !.val[s] = v, !.has = @ \cup {s}]
                 ELSE [d EXCEPT !.bad = TRUE]
      q == Unquote(t, 2, "")
  IN CASE k.type[s] = "tristate" /\ t = "m" -> tri(mod)
       [] Toggles(k, s) /\ t = "y" -> tri(yes)
       [] Toggles(k, s) /\ t = "n" -> tri(no)
       [] k.type[s] = "string" /\ (t = "" \/ Char(t, 1) # "\"") -> d
       [] k.type[s] = "string" /\ t # "" /\ Char(t, 1) = "\"" ->
            IF q.ok THEN text(q.text) ELSE [d EXCEPT !.bad = TRUE]
       [] k.type[s] \in {"int", "hex"} -> text(t)
       [] OTHER -> [d EXCEPT !.bad = TRUE]
\* The code skips what follows after a line it could not use.
Rejected(k, s, t) ==
  CASE Toggles(k, s) -> t \notin {"y", "n"} \cup (IF k.type[s] = "tristate" THEN {"m"} ELSE {})
    [] k.type[s] = "string" -> t # "" /\ Char(t, 1) = "\"" /\ ~Unquote(t, 2, "").ok
    [] OTHER -> ~sym_string_valid(k, s, t)

\* A value of a choice decides the choice.
SetChoice(k, d, s) ==
  LET c == k.choice[s]
      t == d.tri[s]
  IN [CASE t = mod /\ d.tri[c] = yes -> [d EXCEPT !.bad = TRUE, !.has = @ \ {c}]
        [] t = yes -> [d EXCEPT !.bad = @ \/ d.tri[c] # no, !.val[c] = s]
        [] OTHER -> d
      EXCEPT !.tri[c] = EXPR_OR(@, t)]

ReadLine(k, d, line) ==
  LET s == line.sym
      d1 == IF s \in d.has THEN [d EXCEPT !.bad = TRUE] ELSE d
      rejected == line.text # Unset /\ Rejected(k, s, line.text)
  IN IF s \notin Symbols(k) THEN [d EXCEPT !.bad = TRUE]
     ELSE Bind(IF line.text # Unset THEN conf_set_sym_val(k, d1, s, line.text)
               ELSE IF Toggles(k, s) THEN [d1 EXCEPT !.tri[s] = no, !.has = @ \cup {s}]
               ELSE d1, LAMBDA d2 :
            IF rejected \/ ~sym_is_choice_value(k, s) THEN d2 ELSE SetChoice(k, d2, s))

ReadLines(k, lines) ==
  FoldAlong(LAMBDA d, line : ReadLine(k, d, line),
           [tri |-> [s \in Symbols(k) |-> no], val |-> [s \in Symbols(k) |-> None],
            has |-> k.choices, bad |-> FALSE], lines)

\* conf_read_simple for the user's values.  It fails when there is no file.
ReadUser(k, x, lines) ==
  sym_calc_value(k, IF lines = NoFile THEN [x EXCEPT !.changed = TRUE]
                    ELSE Bind(ReadLines(k, lines), LAMBDA d :
                           [x EXCEPT !.valid = {}, !.utri = d.tri, !.uval = d.val, !.user = d.has]),
                 k.modules)
\* ... and for those of auto.conf; the names it does not know count as symbols
\* from now on, and are among has.
ReadAuto(k, x, lines) ==
  LET known == SelectSeq(lines, LAMBDA l : l.sym \in Symbols(k))
      new == {lines[i].sym : i \in {i \in DOMAIN lines :
                                      /\ lines[i].sym \notin Symbols(k)
                                      /\ lines[i].text = "" \/ Char(lines[i].text, 1) # "\""}}
  IN IF lines = NoFile THEN x
     ELSE Bind(ReadLines(k, known), LAMBDA d :
            sym_calc_value(k, [x EXCEPT !.valid = {}, !.atri = d.tri, !.aval = d.val,
                                        !.auto = d.has \cup new], k.modules))

\* Does the value agree with the saved one (or are there neither)?
Agrees(k, x, s) ==
  IF sym_has_value(x, s) /\ s \in x.write
  THEN IF Toggles(k, s) THEN x.utri[s] = x.tri[s] ELSE x.val[s] = x.uval[s]
  ELSE ~sym_has_value(x, s) /\ s \notin x.write

\* The second loop of conf_read, for one symbol: generated values are forgotten
\* unless something disagrees, texts out of range always.
Forget(k, a, s) ==
  IF ~sym_has_value(a.x, s) \/ sym_is_choice_value(k, s) THEN a
  ELSE Bind(IF a.x.vis[s] = no /\ ~a.unsaved THEN [a.x EXCEPT !.user = @ \ {s}] ELSE a.x, LAMBDA y :
         IF Toggles(k, s) THEN [a EXCEPT !.x = y]
         ELSE Bind(sym_string_within_range(k, y, s, y.uval[s]), LAMBDA r :
                IF r.ok THEN [a EXCEPT !.x = r.x]
                ELSE [x |-> [r.x EXCEPT !.valid = @ \ {s}, !.user = @ \ {s}], unsaved |-> TRUE]))

CalcAll(k, x) == FoldAlong(LAMBDA a, s : sym_calc_value(k, a, s), x, k.syms)
conf_read(k, x, lines) ==
  LET unsaved(y) == \E s \in Symbols(k) \ (k.choices \cup k.auto) : ~Agrees(k, y, s)
      forget(y) == FoldAlong(LAMBDA a, s : Forget(k, a, s), [x |-> y, unsaved |-> unsaved(y)], k.syms)
  IN Bind(ReadUser(k, [x EXCEPT !.changed = FALSE], lines), LAMBDA y :
       IF lines = NoFile THEN y
       ELSE Bind(forget(CalcAll(k, y)), LAMBDA r :
              [r.x EXCEPT !.changed = @ \/ r.unsaved \/ ReadLines(k, lines).bad]))

-----------------------------------------------------------------------------
(* menu_is_visible: the state it leaves, and the answer.                   *)

RECURSIVE menu_is_visible(_, _, _), AnyVisible(_, _, _)
\* The state with the visibility of the prompt of entry i.
CalcPrompt(k, x, i) ==
  IF k.msym[i] # None THEN sym_calc_value(k, x, k.msym[i]) ELSE CalcProp(k, x, k.mprompt[i])
menu_is_visible(k, x, i) ==
  LET s == k.msym[i]
      p == k.mprompt[i]
  IN IF p = 0 THEN [x |-> x, ok |-> FALSE]
     ELSE Bind(CalcPrompt(k, x, i), LAMBDA y :
       IF y.pvis[p] # no THEN [x |-> y, ok |-> TRUE]
       ELSE IF s = None \/ y.tri[s] = no THEN [x |-> y, ok |-> FALSE]
       ELSE Bind(AnyVisible(k, y, k.kids[i]), LAMBDA r :
              IF r.ok THEN [r EXCEPT !.x.user = @ \cup {s}] ELSE r))
AnyVisible(k, x, list) ==
  IF list = <<>> THEN [x |-> x, ok |-> FALSE]
  ELSE Bind(menu_is_visible(k, x, Head(list)), LAMBDA r :
         IF r.ok THEN r ELSE AnyVisible(k, r.x, Tail(list)))

-----------------------------------------------------------------------------
(* Writing: the state left and the lines written.                          *)

RECURSIVE MenuOrder(_, _)
MenuOrder(k, i) == <<i>> \o FlattenSeq([n \in DOMAIN k.kids[i] |-> MenuOrder(k, k.kids[i][n])])
\* All entries but the root, in the order the writers meet them.
Walk(k) == Tail(MenuOrder(k, 0))

\* conf_write_symbol with the printer of .config files.
ConfigLine(k, x, s) ==
  LET t == sym_get_string_value(k, x, s)
  IN [sym |-> s, text |-> IF k.type[s] = "string" THEN sym_escape_string_value(t)
                          ELSE IF Toggles(k, s) /\ t = "n" THEN Unset ELSE t]

WriteEntry(k, a, i) ==
  LET s == k.msym[i]
  IN CASE s = None -> [a EXCEPT !.x = menu_is_visible(k, a.x, i).x]
       [] s # None /\ s \in k.choices -> a
       [] OTHER -> Bind(sym_calc_value(k, a.x, s), LAMBDA y :
                     IF s \notin y.write THEN [a EXCEPT !.x = y]
                     ELSE [x |-> [y EXCEPT !.write = @ \ {s}],
                           lines |-> Append(a.lines, ConfigLine(k, y, s))])
\* The lines conf_write puts into its file, and the state when they are written.
WriteAll(k, x) ==
  FoldAlong(LAMBDA a, i : WriteEntry(k, a, i),
            [x |-> IF x.changed THEN x ELSE sym_clear_all_valid(k, x), lines |-> <<>>], Walk(k))

\* A minimal configuration: what is not the default.
\* A mutant that leaves out whatever is chosen.
IsChosen(k, x, s) ==
  sym_is_choice_value(k, s) /\ k.choice[s] \notin k.optional /\ x.tri[s] = yes
IsDefaultOfChoice(k, x, s) ==
  /\ sym_is_choice_value(k, s)
  /\ k.choice[s] \notin k.optional
  /\ sym_choice_default(k, x, k.choice[s]).v = s
  /\ k.type[s] = "boolean"
  /\ x.tri[s] = yes
Minimal(k, lines, z, s) ==
  Bind(sym_get_string_default(k, z, s), LAMBDA d :
    IF sym_get_string_value(k, z, s) = d.text \/ IsDefaultOfChoice(k, d.x, s)
    THEN [x |-> d.x, lines |-> lines]
    ELSE [x |-> d.x, lines |-> Append(lines, ConfigLine(k, d.x, s))])
MinimalEntry(k, a, i) ==
  LET s == k.msym[i]
  IN CASE s = None -> [a EXCEPT !.x = menu_is_visible(k, a.x, i).x]
       [] s # None /\ s \in k.choices -> a
       [] OTHER -> Bind(sym_calc_value(k, a.x, s), LAMBDA y :
                     IF s \notin y.write THEN [a EXCEPT !.x = y]
                     ELSE IF ~sym_is_changable(y, s) THEN [a EXCEPT !.x = [y EXCEPT !.write = @ \ {s}]]
                     ELSE Minimal(k, a.lines, [y EXCEPT !.write = @ \ {s}], s))
conf_write_defconfig(k, x) ==
  FoldAlong(LAMBDA a, i : MinimalEntry(k, a, i),
           [x |-> sym_clear_all_valid(k, x), lines |-> <<>>], Walk(k))

-----------------------------------------------------------------------------
(* conf_write_autoconf.                                                    *)

\* conf_split_config: the symbols whose header is touched because their value
\* is not the one in auto.conf, with the state it leaves.
IsAsSaved(k, x, s) == IF Toggles(k, s) THEN x.tri[s] = x.atri[s]
                      ELSE sym_get_string_value(k, x, s) = x.aval[s]
\* A mutant that looks only at what is written.
DiffersIfWritten(k, x, s) ==
  s \in x.write /\ IF s \notin x.auto THEN ~(Toggles(k, s) /\ x.tri[s] = no) ELSE ~IsAsSaved(k, x, s)
Differs(k, x, s) ==
  IF s \notin x.write THEN s \in x.auto
  ELSE IF s \notin x.auto THEN ~(Toggles(k, s) /\ x.tri[s] = no)
  ELSE ~IsAsSaved(k, x, s)
conf_split_config(k, x, autoconf) ==
  LET named == Symbols(k) \ (k.choices \cup k.auto)
  IN Bind(CalcAll(k, ReadAuto(k, x, autoconf)), LAMBDA y :
       [x |-> y, touch |-> {s \in named : Differs(k, y, s)} \cup (y.auto \ Symbols(k))])

\* The symbols written to auto.conf and autoconf.h, in hash order.
AutoSyms(k, x) == SelectSeq(k.syms, LAMBDA s : s \in x.write /\ s \notin k.choices)
AutoLines(k, x) ==
  LET lines == [i \in DOMAIN AutoSyms(k, x) |-> ConfigLine(k, x, AutoSyms(k, x)[i])]
  IN SelectSeq(lines, LAMBDA l : l.text # Unset)
\* header_print_symbol: what is defined, and as what.
HeaderLine(k, x, s) ==
  LET t == sym_get_string_value(k, x, s)
  IN CASE Toggles(k, s) -> [sym |-> s, text |-> IF t = "m" THEN "1 (module)" ELSE "1"]
       [] k.type[s] = "hex" -> [sym |-> s, text |-> Hexed(t)]
       [] OTHER -> [sym |-> s, text |-> ConfigLine(k, x, s).text]
HeaderLines(k, x) ==
  LET set == SelectSeq(AutoSyms(k, x), LAMBDA s : sym_get_string_value(k, x, s) # "n" \/ ~Toggles(k, s))
  IN [i \in DOMAIN set |-> HeaderLine(k, x, set[i])]

-----------------------------------------------------------------------------
(* conf_set_all_new_symbols: all*config, defconfig and randconfig.         *)

\* how[s] is the value a symbol without one is given, or -1 for none.
SetNew(k, x, how, random) ==
  LET new == {s \in Symbols(k) : s \notin x.user /\ Toggles(k, s) /\ how[s] # -1}
  IN sym_clear_all_valid(k,
       [x EXCEPT !.utri = [s \in Symbols(k) |-> IF s \in new THEN how[s] ELSE @[s]],
                 !.user = @ \cup (IF random THEN new \ k.choices ELSE new)])

\* set_all_choice_values
SettleChoice(k, x, c) ==
  IF c \in x.user \/ c \notin k.choices THEN x
  ELSE Bind(sym_calc_value(k, x, c), LAMBDA y :
         [y EXCEPT !.utri = [s \in Symbols(k) |-> IF k.choice[s] = c /\ s \notin y.user
                                                  THEN no ELSE @[s]],
                   !.user = @ \cup {c}, !.valid = @ \ {c}])
conf_set_all_new_symbols(k, x, how) ==
  FoldAlong(LAMBDA a, c : SettleChoice(k, a, c), SetNew(k, x, how, FALSE), k.syms)

\* randomize_choice_values with pick[c] as the value drawn.
RandomChoice(k, x, c, pick) ==
  IF c \in x.user \/ c \notin k.choices THEN x
  ELSE Bind(sym_calc_value(k, x, c), LAMBDA y :
         IF y.tri[c] # yes THEN y
         ELSE [y EXCEPT !.utri = [s \in Symbols(k) |-> IF k.choice[s] # c THEN @[s]
                                                       ELSE IF s = pick[c] THEN yes ELSE no],
                        !.uval[c] = pick[c], !.user = @ \cup {c}, !.valid = @ \ {c}])
RandomConfig(k, x, how, pick) ==
  FoldAlong(LAMBDA a, c : RandomChoice(k, a, c, pick), SetNew(k, x, how, TRUE), k.syms)
=============================================================================
