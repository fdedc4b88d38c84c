------------------------------- MODULE Nconf --------------------------------
(***************************************************************************)
(* nconfig (support/kconfig/nconf.c).  The mode of a single menu is left   *)
(* out.  A menu without any item keeps those of the menu shown before,     *)
(* blanked; here it has none, and nothing is current.                      *)
(***************************************************************************)
EXTENDS KconfigFront, NconfGui

-----------------------------------------------------------------------------
(* The items of a menu.  Beside what mconf.c tells each item tells whether *)
(* it is visible, which is asked once the values have been read: with      *)
(* flags.all these are the values of whenever they were last calculated.   *)

NMake(a, i, tag, shown, counts) ==
  Bind(menu_is_visible(k, a.x, i), LAMBDA v :
    [a EXCEPT !.x = v.x, !.counted = @ \/ counts, !.items = Append(@, Item(i, tag, Append(shown, v.ok)))])
NKids(a, i) == Do(a, Work("entry", k.kids[i]))
NIsNew(y, s) == ~sym_has_value(y, s) /\ sym_is_changable(y, s)

NconfChoice(a, i) ==
  LET s == k.msym[i]
      chosen == a.x.tri[s] = yes
      made == NMake(a, i, ChoiceTag(a.x, i, a.def), Value(a.x, s) \o <<IF chosen THEN a.def ELSE 0>>, TRUE)
  IN CASE ~chosen -> NKids(made, i)
       [] chosen /\ a.def # 0 /\ k.kids[a.def] # <<>> -> Do(made, Work("entry", <<a.def>>))
       [] OTHER -> made
\* How an entry is shown: its tag, what is told of it, whether it counts as an
\* item, and whether the entries below it follow.
NconfShown(y, cur, i) ==
  LET s == k.msym[i]
      tag == SymbolTag(y, s)
  IN CASE s = None -> [tag |-> IF Kind(i) = "menu" THEN "m" ELSE ":", told |-> <<>>,
                       counts |-> TRUE, kids |-> Kind(i) # "menu"]
       [] s # None /\ i = cur -> [tag |-> ":", told |-> <<>>, counts |-> FALSE, kids |-> TRUE]
       [] OTHER -> [tag |-> tag, told |-> Value(y, s) \o <<NIsNew(y, s)>>,
                    counts |-> TRUE, kids |-> Kind(i) # "menu" \/ tag = "s"]
NconfEntry(a, cur, i) ==
  IF k.msym[i] = None /\ (k.mprompt[i] = 0 \/ i = cur) THEN NKids(a, i)
  ELSE IF k.msym[i] \in k.choices THEN Do([a EXCEPT !.def = 0, !.counted = TRUE], ChoiceWork(i))
  ELSE Bind(NconfShown(a.x, cur, i), LAMBDA n :
         IF n.kids THEN NKids(NMake(a, i, n.tag, n.told, n.counts), i)
         ELSE NMake(a, i, n.tag, n.told, n.counts))
NconfWork(a, cur, w) ==
  CASE w.job = "choice" -> NconfChoice(a, w.i)
    [] w.job = "entry" /\ flags.all -> NconfEntry(a, cur, w.i)
    [] OTHER -> Bind(menu_is_visible(k, a.x, w.i), LAMBDA v :
                  IF w.job = "value" THEN Look(a, w.i, v)
                  ELSE IF ~v.ok THEN [a EXCEPT !.x = v.x] ELSE NconfEntry([a EXCEPT !.x = v.x], cur, w.i))
RECURSIVE NconfBuild(_, _)
NconfBuild(a, cur) ==
  IF a.todo = <<>> THEN a ELSE NconfBuild(NconfWork([a EXCEPT !.todo = Tail(@)], cur, Head(a.todo)), cur)
NconfBuilt(y, i) == NconfBuild(Starting(y, i), i)

-----------------------------------------------------------------------------
(* Searching in a menu.                                                    *)

\* What wgetch returns for a key; those of a menu do not all have a letter.
Command == [f1 |-> 1, f2 |-> 2, f3 |-> 3, f4 |-> 4, f5 |-> 5, f6 |-> 6, f7 |-> 7, f8 |-> 8, f9 |-> 9,
            enter |-> 10, esc |-> 27, space |-> 32, m |-> 109, n |-> 110, y |-> 121,
            left |-> 260, right |-> 261, resize |-> 410]
Silent == {"f1", "f2", "f3", "f4", "f5", "f6", "f7", "f8", "f9", "enter", "esc", "home", "left", "right", "resize"}
\* The code of some keys ends like that of a letter.
AsChar(key) == CASE key = "space" -> " " [] key = "npage" -> "r" [] key = "ppage" -> "s" [] key = "end" -> "h"
                 [] OTHER -> key
adj_match_dir(m) == [m EXCEPT !.next = FALSE]
\* do_match: the search, whether the key was for it, and whether to look for the pattern.
do_match(m, key) ==
  LET over == [NoMatch EXCEPT !.on = ~m.on]
  IN CASE key = "/" \/ (m.on /\ key = "esc") -> [m |-> over, used |-> TRUE, look |-> FALSE]
       [] key # "/" /\ ~m.on -> [m |-> m, used |-> FALSE, look |-> FALSE]
       [] m.on /\ key \in {"up", "down"} -> [m |-> [m EXCEPT !.dir = key, !.next = TRUE], used |-> TRUE, look |-> TRUE]
       [] m.on /\ key = "backspace" ->
            [m |-> [adj_match_dir(m) EXCEPT !.pattern = SubSeq(@, 1, LargerOf(Len(@) - 1, 0))],
             used |-> TRUE, look |-> FALSE]
       [] m.on /\ key \in Silent \ {"esc"} -> [m |-> [m EXCEPT !.on = FALSE, !.pattern = ""], used |-> FALSE, look |-> FALSE]
       [] OTHER -> [m |-> [adj_match_dir(m) EXCEPT !.pattern = @ \o AsChar(key)], used |-> TRUE, look |-> TRUE]
\* get_mext_match: the number of the next item with the pattern, or -1; "hung" when
\* it looks for ever, having started beside the items, "divided" if there is none.
Matches(f) == {n \in 0..f.dlg.n - 1 : Occurs(" " \o Text[f.items[n + 1].i], f.match.pattern)}
get_mext_match(f) ==
  LET step == IF f.match.dir = "down" THEN 1 ELSE -1
      start == f.dlg.cur + (IF f.match.next THEN step ELSE 0)
      at(d) == (start + step * d) % f.dlg.n
      found == {d \in 0..f.dlg.n - 1 : at(d) \in Matches(f)}
  IN CASE f.dlg.n = 0 -> [ok |-> FALSE, how |-> "divided"]
       [] f.dlg.n # 0 /\ found # {} -> [ok |-> TRUE, n |-> at(Least(found))]
       [] f.dlg.n # 0 /\ found = {} /\ start \in 0..f.dlg.n - 1 -> [ok |-> TRUE, n |-> -1]
       [] OTHER -> [ok |-> FALSE, how |-> "hung"]

-----------------------------------------------------------------------------
(* A key.                                                                  *)

NPress(d, key) == CASE d.kind = "btn" -> BtnKey(d, key) [] d.kind = "form" -> FormKey(d, key) [] OTHER -> ScrollKey(d, key)
Roomy(f, key) ==
  IF f.dlg.kind # "form" \/ key \in FormMoves \cup Leaves \cup {"enter", "f1"} THEN TRUE
  ELSE Len(f.dlg.text) < MaxText[f.fn]
Counts(yes_) == IF yes_ THEN used < MaxCommands /\ used' = used + 1 ELSE UNCHANGED used
NconfKey ==
  /\ Running("nconf")
  /\ Top.dlg.kind \in {"btn", "form", "scroll"} /\ Top.res = Again
  /\ \E key \in NKeys[Top.fn] : \E p \in {NPress(Top.dlg, key)} :
       /\ Roomy(Top, key)
       /\ Replace([Top EXCEPT !.dlg = p.d, !.res = p.res])
       /\ Counts(Top.dlg.kind = "form" /\ Top.fn # "search" /\ p.res \notin {Again, KEY_EXIT})
  /\ UNCHANGED <<front, k, x, flags, filename, disk, size, status, faults>>

AtMenu == Running("nconf") /\ Top.dlg.kind = "curses" /\ Top.res = Again
\* Every key sets the number of the item to show first: to -1, if not to one found.
NconfMatch ==
  /\ AtMenu
  /\ \E key \in NKeys[Top.fn] : \E d \in {do_match(Top.match, key)} :
       /\ d.used /\ Len(d.m.pattern) <= MaxText.match
       /\ \E f \in {[Top EXCEPT !.match = d.m, !.active = -1]} :
          \E r \in {IF d.look THEN get_mext_match(f) ELSE [ok |-> TRUE, n |-> -1]} :
            IF ~r.ok THEN Ends(r.how)
            ELSE \E c \in {IF r.n = -1 THEN [d |-> f.dlg, last |-> f.saved] ELSE center_item(f.dlg, r.n, f.saved)} :
                   Replace([f EXCEPT !.dlg = c.d, !.saved = c.last, !.active = r.n]) /\ UNCHANGED status
  /\ UNCHANGED <<front, k, x, flags, filename, disk, size, used, faults>>

ItemOf(f) == IF f.dlg.cur = -1 THEN -1 ELSE f.items[f.dlg.cur + 1].i
NconfMenuKey ==
  /\ AtMenu
  /\ \E key \in NKeys[Top.fn] : \E d \in {do_match(Top.match, key)} :
       /\ ~d.used
       /\ \E f \in {[Top EXCEPT !.match = d.m, !.active = -1]} :
            CASE key \in MenuMoves -> Replace([f EXCEPT !.dlg = menu_driver(@, key)]) /\ UNCHANGED used
              [] key \in {"h", "?"} -> /\ Counts(TRUE)
                                       /\ IF ItemOf(f) = -1 THEN Replace(f) ELSE Push(f, Frame("help", ItemOf(f)))
              [] key \in DOMAIN Command /\ key \notin IF f.fn = "choice" THEN {"right", "y", "n", "m"} ELSE {} ->
                   /\ Replace([f EXCEPT !.res = Command[key]])
                   /\ key \in {"f6", "f7"} => used < MaxCommands
                   /\ Counts(key \notin {"esc", "left", "f5", "f6", "f7", "f9"})
              [] OTHER -> Replace(f) /\ UNCHANGED used
       /\ size' \in After(key)
  /\ UNCHANGED <<front, k, x, flags, filename, disk, status, faults>>

-----------------------------------------------------------------------------
(* conf().                                                                 *)

\* The list is made anew, at the item number active and as scrolled to as it can
\* be; before that the item that was current is looked at (look).
LookedAt == IF Top.look = -1 THEN x ELSE menu_is_visible(k, x, Top.look).x
NconfLeaves == calls' = IF Below = <<>> THEN <<Frame("exit", 0)>> ELSE Below
Listed(f, items, selected, last) ==
  IF items = <<>> THEN [f EXCEPT !.look = -1, !.items = items, !.dlg = new_items(0, size - 7)]
  ELSE Bind(show_menu(Len(items), selected, last, size - 7), LAMBDA s :
         [f EXCEPT !.look = -1, !.items = items, !.dlg = s.d, !.saved = s.last])
\* After an empty menu current_index is -1, and center_item reads the word before the
\* table of items: what it finds is no item of the menu, and nothing is set, or what
\* it points to cannot be read.
Beside == -2
Selected == IF Top.active = Beside THEN -1 ELSE LargerOf(Top.active, 0)
NconfOpenMenu ==
  /\ Opening("nconf", "conf")
  /\ \E y \in {LookedAt} : \E b \in {NconfBuilt(y, Top.i)} :
       /\ x' = b.x
       /\ flags' = [flags EXCEPT !.counted = b.counted]
       /\ \/ /\ IF b.counted THEN Replace(Listed(Top, b.items, Selected, Top.saved)) ELSE NconfLeaves
             /\ UNCHANGED status
          \/ b.counted /\ b.items # <<>> /\ Top.active = Beside /\ Ends("crashed")
  /\ UNCHANGED <<front, k, filename, disk, size, used, faults>>

Done(res) == Top.dlg.kind = "curses" /\ Top.res \in res
\* Out of the loop that reads keys, where the place in the list is kept.
NGoing == IF Top.dlg.cur = -1 THEN [Closed(Top) EXCEPT !.active = Beside]
          ELSE [Closed(Top) EXCEPT !.active = Top.dlg.cur, !.saved = Top.dlg.top, !.look = ItemOf(Top)]
\* A choice keeps no more than what was scrolled to, for when its value is shown.
ChoiceGoing == [Closed(Top) EXCEPT !.arg.top = Top.dlg.top, !.look = ItemOf(Top)]
Back == IF Top.fn = "choice" THEN ChoiceGoing ELSE NGoing
NconfBack ==
  /\ Running("nconf") /\ Done({5, 27, 260})
  /\ IF Top.res # 27 /\ Below = <<>> /\ Top.i = 0 THEN Replace(NGoing) ELSE NconfLeaves
  /\ UNCHANGED <<front, k, x, flags, filename, disk, size, status, used, faults>>

NText(total) == [Frame("text", 0) EXCEPT !.arg = total]
Buttons(n) == [Frame("btn", 0) EXCEPT !.arg = n]
\* process_special_keys
Special_(key) ==
  CASE key \in {1, 3} -> NText(HelpLines + 1)
    [] key = 2 -> Frame("help", ItemOf(Top))
    [] key = 4 -> Frame("showall", 0)
    [] key = 6 -> Frame("save", 0)
    [] key = 7 -> Frame("load", 0)
    [] key = 8 -> Frame("search", 0)
    [] key = 9 -> Frame("exit", 0)
NconfSpecial ==
  /\ Running("nconf") /\ Done({1, 2, 3, 4, 6, 7, 8, 9, 410})
  /\ IF Top.res = 410 \/ (Top.res = 2 /\ Top.dlg.cur = -1) THEN Replace(Back) ELSE Push(Back, Special_(Top.res))
  /\ UNCHANGED <<front, k, x, flags, filename, disk, size, status, used, faults>>

\* What a key does to the current item, if that is visible: the symbols it leaves,
\* and the function it calls.
Tagged(tag) == Top.items[Top.dlg.cur + 1].tag = tag
NWanted(res) == CASE res = 121 -> yes [] res = 110 -> no [] OTHER -> mod
NSet(y, s, res) ==
  IF res \in {10, 32} THEN [x |-> sym_toggle_tristate_value(k, y, s), calls |-> <<>>]
  ELSE Bind(sym_set_tristate_value(k, y, s, NWanted(res)), LAMBDA r :
         IF res # 121 \/ r.ok THEN [x |-> r.x, calls |-> <<>>]
         ELSE Bind(sym_set_tristate_value(k, y, s, mod), LAMBDA q :
                [x |-> q.x, calls |-> IF q.ok THEN <<Buttons(0)>> ELSE <<>>]))
Entering == Top.res \in {10, 261}
Deciding(y, i) == k.msym[i] \in k.choices /\ y.tri[k.msym[i]] = yes
NCalled(y, i) ==
  CASE Tagged("m") -> IF Entering \/ Top.res = 32 THEN <<Frame("conf", i)>> ELSE <<>>
    [] Tagged("s") -> IF Entering THEN <<Frame("string", i)>> ELSE <<>>
    [] Tagged("t") /\ Entering /\ Deciding(y, i) ->
         <<[Frame("choice", i) EXCEPT !.active = 0, !.arg = [sym |-> y.val[k.msym[i]], top |-> Top.dlg.top]]>>
    [] Tagged("t") /\ Entering /\ ~Deciding(y, i) /\ Kind(i) = "menu" -> <<Frame("conf", i)>>
    [] OTHER -> <<>>
Sets(y, i) == /\ Tagged("t") /\ Top.res # 261
              /\ Top.res = 10 => ~Deciding(y, i) /\ Kind(i) # "menu"
NconfAct ==
  /\ Running("nconf") /\ Top.fn = "conf" /\ Done({10, 32, 109, 110, 121, 261})
  /\ \E f \in {[NGoing EXCEPT !.look = -1]} :
       IF ItemOf(Top) = -1 THEN Replace(f) /\ UNCHANGED x
       ELSE \E v \in {menu_is_visible(k, x, ItemOf(Top))} :
              IF v.ok /\ Sets(v.x, ItemOf(Top))
              THEN \E t \in {NSet(v.x, k.msym[ItemOf(Top)], Top.res)} :
                     x' = t.x /\ calls' = Below \o <<f>> \o t.calls
              ELSE x' = v.x /\ calls' = Below \o <<f>> \o (IF v.ok THEN NCalled(v.x, ItemOf(Top)) ELSE <<>>)
  /\ UNCHANGED <<front, k, flags, filename, disk, size, status, used, faults>>

-----------------------------------------------------------------------------
(* conf_choice: the highlight goes to the value the choice had at first, if*)
(* that is shown, or else to the number left in active.  For -1 the code   *)
(* reads before the array of the items.                                    *)

NMark(i, j) == IF k.msym[j] = x.val[k.msym[i]] THEN "X" ELSE IF k.msym[j] = None THEN ":" ELSE ""
NChoiceItems(i, shown) ==
  LET list == IF flags.all THEN k.kids[i] ELSE SelectSeq(k.kids[i], LAMBDA j : j \in shown)
  IN [n \in DOMAIN list |-> Item(list[n], ":", <<NMark(i, list[n]), list[n] \in shown>>)]
NconfOpenChoice ==
  /\ Opening("nconf", "choice")
  /\ \E r \in {Seen(LookedAt, k.kids[Top.i])} : \E items \in {NChoiceItems(Top.i, r.shown)} :
       LET same == {n \in DOMAIN items : k.msym[items[n].i] = Top.arg.sym}
           selected == IF same = {} THEN Top.active ELSE (CHOOSE n \in same : \A m \in same : m <= n) - 1
           last == IF same = {} THEN Top.saved ELSE Top.arg.top
       IN /\ x' = r.x
          /\ \/ Replace([Listed(Top, items, selected, last) EXCEPT !.active = selected]) /\ UNCHANGED status
             \/ selected = -1 /\ items # <<>> /\ Ends("undefined")
  /\ UNCHANGED <<front, k, flags, filename, disk, size, used, faults>>
NconfChoose ==
  /\ Running("nconf") /\ Top.fn = "choice" /\ Done({10, 32})
  /\ \E f \in {[ChoiceGoing EXCEPT !.look = -1]} :
       IF ItemOf(Top) = -1 THEN Replace(f) /\ UNCHANGED x
       ELSE \E v \in {menu_is_visible(k, x, ItemOf(Top))} :
              IF v.ok /\ k.msym[ItemOf(Top)] # None
              THEN x' = sym_set_tristate_value(k, v.x, k.msym[ItemOf(Top)], yes).x /\ Pop
              ELSE x' = v.x /\ Replace(f)
  /\ UNCHANGED <<front, k, flags, filename, disk, size, status, used, faults>>

-----------------------------------------------------------------------------
(* The other functions.                                                    *)

NconfOpenText ==
  /\ \/ Opening("nconf", "text") /\ Replace([Top EXCEPT !.dlg = show_scroll_win(Top.arg, size)])
     \/ Opening("nconf", "btn") /\ Replace([Top EXCEPT !.dlg = btn_dialog(Top.arg)])
     \/ Opening("nconf", "showall") /\ Replace([Top EXCEPT !.dlg = btn_dialog(2)])
  /\ UNCHANGED <<front, k, x, flags, filename, disk, size, status, used, faults>>
NconfOpenHelp ==
  /\ Opening("nconf", "help")
  /\ \E h \in {menu_get_ext_help(x, Top.i)} : x' = h.x /\ Replace(NText(h.n + 1))
  /\ UNCHANGED <<front, k, flags, filename, disk, size, status, used, faults>>
NconfTextRead ==
  /\ Returned("nconf", "text") \/ Returned("nconf", "btn")
  /\ Pop
  /\ UNCHANGED <<front, k, x, flags, filename, disk, size, status, used, faults>>
\* handle_f4
NconfShowAll ==
  /\ Returned("nconf", "showall") /\ Pop
  /\ flags' = [flags EXCEPT !.all = IF Top.res \in {0, 1} THEN Top.res = 0 ELSE @]
  /\ UNCHANGED <<front, k, x, filename, disk, size, status, used, faults>>

NBoxes == {"string", "load", "save", "search"}
NBoxText == CASE Top.fn = "string" -> sym_get_string_value(k, x, k.msym[Top.i])
              [] Top.fn = "search" -> ""
              [] OTHER -> filename
NconfOpenBox ==
  /\ \E fn \in NBoxes : Opening("nconf", fn)
  /\ Replace([Top EXCEPT !.dlg = form_inputbox(NBoxText, FieldWidth)])
  /\ UNCHANGED <<front, k, x, flags, filename, disk, size, status, used, faults>>
NconfBoxLeft ==
  /\ \E fn \in NBoxes : Returned("nconf", fn)
  /\ Top.dlg # NoDialog /\ Top.res = KEY_EXIT /\ Pop
  /\ UNCHANGED <<front, k, x, flags, filename, disk, size, status, used, faults>>
NconfBoxHelp ==
  /\ \E fn \in NBoxes : Returned("nconf", fn)
  /\ Top.dlg # NoDialog /\ Top.res = 1
  /\ Push(Closed(Top), IF Top.fn = "string" THEN Frame("help", Top.i) ELSE NText(HelpLines + 1))
  /\ UNCHANGED <<front, k, x, flags, filename, disk, size, status, used, faults>>
NTyped(fn) == Returned("nconf", fn) /\ Top.res = 0 /\ Top.dlg # NoDialog

\* conf_string
NconfString ==
  /\ NTyped("string")
  /\ \E r \in {sym_set_string_value(k, x, k.msym[Top.i], Top.dlg.text)} :
       x' = r.x /\ IF r.ok THEN Pop ELSE Push(Closed(Top), Buttons(0))
  /\ UNCHANGED <<front, k, flags, filename, disk, size, status, used, faults>>
\* conf_load
NconfLoad ==
  /\ NTyped("load")
  /\ CASE Top.dlg.text = "" -> Pop /\ UNCHANGED <<x, filename, faults>>
       [] File(Top.dlg.text) # NoFile ->
            x' = conf_load_file(Top.dlg.text) /\ filename' = Top.dlg.text /\ Pop /\ UNCHANGED faults
       [] OTHER -> /\ x' = conf_load_nothing /\ faults' = faults \cup {"missing"}
                   /\ Push(Closed(Top), Buttons(0)) /\ UNCHANGED filename
  /\ UNCHANGED <<front, k, flags, disk, size, status, used>>
\* conf_save; what conf_write tells of its success it tells before it counts the
\* changes as saved.
NconfSave ==
  /\ NTyped("save")
  /\ IF Top.dlg.text = "" THEN Pop
     ELSE Push([Closed(Top) EXCEPT !.arg = Top.dlg.text], Writing(Top.dlg.text))
  /\ UNCHANGED <<front, k, x, flags, filename, disk, size, status, used, faults>>
NconfWrote ==
  /\ Returned("nconf", "save") /\ Top.dlg = NoDialog
  /\ Push(IF Top.res = 1 THEN Closed(Top) ELSE [Closed(Top) EXCEPT !.fn = "saved"], Buttons(1))
  /\ UNCHANGED <<front, k, x, flags, filename, disk, size, status, used, faults>>
NconfSaved ==
  /\ Opening("nconf", "saved")
  /\ x' = [x EXCEPT !.changed = FALSE] /\ filename' = Top.arg /\ Pop
  /\ UNCHANGED <<front, k, flags, disk, size, status, used, faults>>
\* search_conf
NconfSearch ==
  /\ NTyped("search")
  /\ \E list \in {sym_re_search(Top.dlg.text)} : \E t \in {get_relations_str(Calculated(x, list), list, FALSE)} :
       x' = t.x /\ Replace(NText(t.n + 1))
  /\ UNCHANGED <<front, k, flags, filename, disk, size, status, used, faults>>

-----------------------------------------------------------------------------
(* do_exit, asked for by a key or by main when the root menu was left.     *)

NconfOpenExit ==
  /\ Opening("nconf", "exit")
  /\ IF x.changed THEN Replace([Top EXCEPT !.dlg = btn_dialog(2)]) /\ UNCHANGED status ELSE Ends("ended")
  /\ UNCHANGED <<front, k, x, flags, filename, disk, size, used, faults>>
Exited(how) == [Frame("exited", 0) EXCEPT !.arg = how]
NconfExitAnswer ==
  /\ Returned("nconf", "exit") /\ Top.dlg # NoDialog
  /\ CASE Top.res = KEY_EXIT -> calls' = IF Below = <<>> THEN <<Frame("conf", 0)>> ELSE Below
       [] Top.res = 0 -> Push(Closed(Top), Writing(filename))
       [] OTHER -> Push(Exited("notsaved"), Buttons(1))
  /\ UNCHANGED <<front, k, x, flags, filename, disk, size, status, used, faults>>
NconfExitWrote ==
  /\ Returned("nconf", "exit") /\ Top.dlg = NoDialog
  /\ Push(Exited(IF Top.res = 0 THEN "ended" ELSE "notsaved"), Buttons(1))
  /\ UNCHANGED <<front, k, x, flags, filename, disk, size, status, used, faults>>
NconfExited ==
  /\ Opening("nconf", "exited")
  /\ x' = IF Top.arg = "ended" THEN [x EXCEPT !.changed = FALSE] ELSE x
  /\ Ends(Top.arg)
  /\ UNCHANGED <<front, k, flags, filename, disk, size, used, faults>>

NconfOpens == \/ NconfOpenMenu \/ NconfOpenChoice \/ NconfOpenText \/ NconfOpenHelp \/ NconfOpenBox \/ NconfOpenExit
NconfGoesOn == \/ NconfBack \/ NconfSpecial \/ NconfAct \/ NconfChoose \/ NconfTextRead \/ NconfShowAll
               \/ NconfBoxLeft \/ NconfBoxHelp \/ NconfString \/ NconfLoad \/ NconfSave \/ NconfWrote
               \/ NconfSaved \/ NconfSearch \/ NconfExitAnswer \/ NconfExitWrote \/ NconfExited
NconfNext == NconfOpens \/ NconfKey \/ NconfMatch \/ NconfMenuKey \/ NconfGoesOn
=============================================================================
