---------------------------- MODULE KconfigFront ----------------------------
(***************************************************************************)
(* What the two full-screen configurators, menuconfig (support/kconfig/    *)
(* mconf.c) and nconfig (nconf.c), have in common: the calls of their      *)
(* functions under way, each with the dialog it shows, the symbols, the    *)
(* configuration files, and the texts made of the menu tree (menu.c).      *)
(*                                                                         *)
(* A function that shows dialogs is a frame: it opens its next dialog when *)
(* it has none (NoDialog), and goes on when the dialog has returned res.   *)
(***************************************************************************)
EXTENDS KconfigData, Lxdialog, FiniteSets

CONSTANTS Statements,   \* the statements of the Kconfig files
          Order,        \* the order of the symbols in the hash table
          Text,         \* the prompt of each menu entry
          Fronts,       \* the configurators to start: "mconf", "nconf"
          ConfigName,   \* what .config is called here
          FirstDisk,    \* the files there may be at first
          Terminals,    \* heights the user may give the terminal
          Keys, NKeys,  \* the keys pressed in each function of mconf, and of nconf
          MaxText,      \* how long a text the user types, in each function
          FieldWidth,   \* cells of an input field
          ListRows,     \* rows of a checklist (6 in the code)
          HelpLines,    \* lines of a help text
          MaxCommands,  \* commands beside moves and answers
          Faults        \* how writing a file may fail

VARIABLES front,      \* which configurator runs
          k,          \* the menu tree
          x,          \* the symbols
          calls,      \* the frames
          flags,      \* show_all_options, child_count # 0, save_and_exit
          filename,   \* filename
          disk,       \* the configuration files, by name
          size,       \* height of the terminal
          status,     \* "running", or how the configurator ended
          used,       \* commands given
          faults      \* what has failed, or came at a bad time
vars == <<front, k, x, calls, flags, filename, disk, size, status, used, faults>>

NoDialog == [kind |-> "none"]
NoMatch  == [on |-> FALSE, dir |-> "down", next |-> FALSE, pattern |-> ""]
\* active is the entry to highlight (active_menu, or its number), saved where a
\* list was scrolled to, look an entry menu_is_visible has still to be called for.
Frame(fn, i) == [fn |-> fn, i |-> i, active |-> -1, saved |-> 0, arg |-> "", look |-> -1,
                 items |-> <<>>, dlg |-> NoDialog, res |-> Again, match |-> NoMatch]
Top     == calls[Len(calls)]
Below   == SubSeq(calls, 1, Len(calls) - 1)
Closed(f) == [f EXCEPT !.dlg = NoDialog, !.res = Again, !.items = <<>>]
Replace(f) == calls' = Append(Below, f)
Push(f, g) == calls' = Below \o <<f, g>>
Pop        == calls' = Below
Running(which)   == status = "running" /\ front = which
Opening(which, fn)  == Running(which) /\ Top.fn = fn /\ Top.dlg = NoDialog /\ Top.res = Again
Returned(which, fn) == Running(which) /\ Top.fn = fn /\ Top.res # Again
\* Only KEY_RESIZE comes with another height (or the same: what changed is the width).
After(key) == IF key = "resize" THEN Terminals ELSE {size}

\* The symbols before anything was read.
Fresh ==
  LET zero == [s \in Symbols(k) |-> no]
      none == [s \in Symbols(k) |-> None]
  IN [tri |-> zero, val |-> none, vis |-> zero, dir |-> zero, rev |-> zero,
      pvis |-> [p \in DOMAIN k.props |-> no],
      valid |-> {}, write |-> {}, user |-> {}, auto |-> {},
      utri |-> zero, uval |-> none, atri |-> zero, aval |-> none,
      mval |-> no, changed |-> FALSE]

-----------------------------------------------------------------------------
(* The configuration files.                                                *)

File(name) == IF name \in DOMAIN disk THEN disk[name] ELSE NoFile
\* Renaming over the new file keeps what was there as name.old.
Moved(name) == IF File(name) = NoFile THEN disk ELSE (name \o ".old") :> File(name) @@ disk
\* conf_write, up to its message: a frame of its own, whose caller finds what it
\* returns, 0 or 1, in res.
Writing(name) == [Frame("write", 0) EXCEPT !.arg = name]
Replying(res) == calls' = [Below EXCEPT ![Len(Below)].res = res]
conf_write ==
  /\ status = "running" /\ Top.fn = "write"
  /\ \E fault \in Faults :
       /\ faults' = faults \cup ({fault} \ {"none"})
       /\ CASE fault = "open" -> UNCHANGED <<x, disk>> /\ Replying(1)
            [] fault = "rename" -> \E w \in {WriteAll(k, x)} :
                 x' = w.x /\ disk' = (Top.arg :> NoFile) @@ Moved(Top.arg) /\ Replying(1)
            [] OTHER -> \E w \in {WriteAll(k, x)} :
                 x' = w.x /\ disk' = (Top.arg :> w.lines) @@ Moved(Top.arg) /\ Replying(0)
  /\ UNCHANGED <<front, k, flags, filename, size, status, used>>
\* Reading a file that is there.
conf_load_file(name) == [conf_read(k, x, File(name)) EXCEPT !.changed = TRUE]
\* conf_read has set the count of changes to 0 when it finds there is no file.
conf_load_nothing == [x EXCEPT !.changed = FALSE]

-----------------------------------------------------------------------------
(* Entries.                                                                *)

Kind(i) == k.props[k.mprompt[i]].kind
menu_has_prompt(i) == k.mprompt[i] # 0
\* An item of a menu: what it is for (tag), and what it tells of the symbol.
Item(i, tag, shown) == [i |-> i, tag |-> tag, shown |-> shown]
Value(y, s) == <<sym_get_string_value(k, y, s), sym_is_changable(y, s)>>

\* Asking menu_is_visible for these entries one after the other: those it is true of.
Seen(y, list) ==
  FoldAlong(LAMBDA a, j : Bind(menu_is_visible(k, a.x, j), LAMBDA v :
              [x |-> v.x, shown |-> IF v.ok THEN a.shown \cup {j} ELSE a.shown]),
            [x |-> y, shown |-> {}], list)

\* build_conf goes through the tree with work to do: entries to make an item of,
\* the values of a choice to find the one that is shown for it (def_menu), and
\* the choice itself, to be told of then.
Work(job, list) == [n \in DOMAIN list |-> [job |-> job, i |-> list[n]]]
Do(a, jobs)     == [a EXCEPT !.todo = jobs \o @]
ChoiceWork(i)   == Work("value", k.kids[i]) \o Work("choice", <<i>>)
Look(a, j, v) == [a EXCEPT !.x = v.x, !.def = IF v.ok /\ k.msym[j] = v.x.val[k.msym[k.parent[j]]]
                                              THEN j ELSE @]
Starting(y, i) == [x |-> y, items |-> <<>>, counted |-> flags.counted, def |-> 0, todo |-> Work("entry", <<i>>)]
ChoiceTag(y, i, def) == IF sym_is_changable(y, k.msym[i]) \/ def # 0 THEN "t" ELSE ":"
SymbolTag(y, s) == IF sym_is_choice_value(k, s) /\ y.tri[s] = yes THEN ":"
                   ELSE IF Toggles(k, s) THEN "t" ELSE "s"

-----------------------------------------------------------------------------
(* The texts about a symbol: how many lines, and the places to jump to.    *)

RECURSIVE Ancestors(_)
\* The menus around i, but the root, from inside out.
Ancestors(i) == IF k.parent[i] = 0 THEN <<>> ELSE <<k.parent[i]>> \o Ancestors(k.parent[i])
Location(i) == SubSeq(Ancestors(i), 1, SmallerOf(8, Len(Ancestors(i))))

\* The line of the location that carries the jump, at its innermost menu that is
\* visible (the menus are printed from the outside in), and where it leads.
Jump(list, at, n, target) == [line |-> n + Len(list) - at, target |-> target]
Jumps(list, shown, n, i) ==
  LET visible == {j \in DOMAIN list : list[j] \in shown}
  IN IF visible = {} THEN <<>>
     ELSE <<Jump(list, Least(visible), n, IF i \in shown THEN i ELSE list[Least(visible)])>>
get_prompt_str(a, p) ==
  LET prop == k.props[p]
      list == Location(prop.menu)
      before == a.n + 2 + (IF expr_is_yes(prop.vis) THEN 0 ELSE 1)
      after  == before + (IF list = <<>> THEN 0 ELSE 1 + Len(list))
  IN Bind(Seen(a.x, list), LAMBDA r :
     Bind(Seen(r.x, IF a.jumps /\ r.shown # {} THEN <<prop.menu>> ELSE <<>>), LAMBDA m :
       [a EXCEPT !.x = m.x, !.n = after,
                 !.hits = IF a.jumps THEN @ \o Jumps(list, r.shown \cup m.shown, before + 1, prop.menu) ELSE @]))
\* What is told of the name, the range and the type, and of what selects.
get_symbol_str(a, s) ==
  LET named  == s \notin k.choices
      ranges == IF named /\ k.type[s] \in {"int", "hex"} THEN Properties(k, s, "range") ELSE <<>>
      below  == 2 + (IF Properties(k, s, "select") = <<>> THEN 0 ELSE 1) + (IF k.rev[s] = NoExpr THEN 0 ELSE 1)
      above(i) == (IF named THEN 2 ELSE 0) + (IF i = 0 THEN 0 ELSE 1)
  IN Bind(FirstVisible(k, a.x, ranges), LAMBDA r :
     Bind(FoldAlong(get_prompt_str, [a EXCEPT !.x = r.x, !.n = @ + above(r.i)], Prompts(k, s)), LAMBDA b :
       [b EXCEPT !.n = @ + below]))
NoText(y, jumps) == [x |-> y, n |-> 0, jumps |-> jumps, hits |-> <<>>]

Occurs(text, pattern) ==
  \E j \in 0..Len(text) - Len(pattern) : SubSeq(text, j + 1, j + Len(pattern)) = pattern
\* The symbols with such a name, in the order of the table; none for no name.
sym_re_search(pattern) ==
  SelectSeq(k.syms, LAMBDA s : /\ pattern # "" /\ Occurs(s, pattern)
                               /\ s \notin k.choices \cup {k.modules})
Calculated(y, list) == FoldAlong(LAMBDA a, s : sym_calc_value(k, a, s), y, list)
get_relations_str(y, list, jumps) ==
  IF list = <<>> THEN [NoText(y, jumps) EXCEPT !.n = 1]
  ELSE FoldAlong(get_symbol_str, NoText(y, jumps), list)
\* The help of an entry, HelpLines lines and what is known of the symbol.
menu_get_ext_help(y, i) ==
  IF k.msym[i] = None THEN [NoText(y, FALSE) EXCEPT !.n = HelpLines]
  ELSE get_symbol_str([NoText(y, FALSE) EXCEPT !.n = HelpLines], k.msym[i])

-----------------------------------------------------------------------------
(* Starting, and having ended.                                             *)

Init ==
  /\ front \in Fronts
  /\ k = conf_parse(Statements, Order)
  /\ disk \in FirstDisk
  /\ x = conf_read(k, Fresh, File(ConfigName))
  /\ calls = <<Frame("conf", 0)>>
  /\ flags = [all |-> FALSE, counted |-> FALSE, quiet |-> FALSE]
  /\ filename = ConfigName
  /\ size \in Terminals
  /\ IF front = "mconf" THEN init_dialog(size) ELSE size >= 20
  /\ status = "running" /\ used = 0 /\ faults = {}

Ends(how) == status' = how /\ calls' = <<>>
Rest == status # "running" /\ UNCHANGED vars
=============================================================================
