------------------------------- MODULE Mconf --------------------------------
(***************************************************************************)
(* menuconfig (support/kconfig/mconf.c) on the dialogs of Lxdialog.  The   *)
(* mode of a single menu is left out.                                      *)
(***************************************************************************)
EXTENDS KconfigFront

-----------------------------------------------------------------------------
(* The items of a menu.                                                    *)

Make(a, item) == [a EXCEPT !.items = Append(@, item), !.counted = TRUE]
Header(a, i)  == [a EXCEPT !.items = Append(@, Item(i, ":", <<>>))]
IsNew(y, s)   == ~sym_has_value(y, s) /\ sym_is_changable(y, s)
Kids(a, i)    == Do(a, Work("entry", k.kids[i]))

MconfChoice(a, i) ==
  LET s == k.msym[i]
      chosen == a.x.tri[s] = yes
      made == Make(a, Item(i, ChoiceTag(a.x, i, a.def), Value(a.x, s) \o <<IF chosen THEN a.def ELSE 0>>))
  IN CASE ~chosen -> Kids(made, i)
       [] chosen /\ a.def # 0 /\ k.kids[a.def] # <<>> -> Do(made, Work("entry", <<a.def>>))
       [] OTHER -> made
MconfSymbol(a, cur, i) ==
  LET s == k.msym[i]
      tag == SymbolTag(a.x, s)
      made == Make(a, Item(i, tag, Value(a.x, s) \o <<IsNew(a.x, s)>>))
  IN CASE i = cur -> Kids(Header(a, i), i)
       [] i # cur /\ Kind(i) = "menu" /\ tag # "s" -> made
       [] OTHER -> Kids(made, i)
MconfEntry(a, cur, i) ==
  LET s == k.msym[i]
      shown == k.mprompt[i] # 0 /\ i # cur
  IN CASE s = None /\ shown /\ Kind(i) = "menu" -> Make(a, Item(i, "m", <<>>))
       [] s = None /\ shown /\ Kind(i) # "menu" -> Kids(Make(a, Item(i, ":", <<>>)), i)
       [] s = None /\ ~shown -> Kids(a, i)
       [] s # None /\ s \in k.choices -> Do([a EXCEPT !.def = 0], ChoiceWork(i))
       [] OTHER -> MconfSymbol(a, cur, i)
\* Is the entry passed over, being v.ok or not?  And what is next.
MconfPasses(v, i) == IF flags.all THEN ~menu_has_prompt(i) ELSE ~v.ok
MconfWork(a, cur, w) ==
  IF w.job = "choice" THEN MconfChoice(a, w.i)
  ELSE Bind(menu_is_visible(k, a.x, w.i), LAMBDA v :
         IF w.job = "value" THEN Look(a, w.i, v)
         ELSE IF MconfPasses(v, w.i) THEN [a EXCEPT !.x = v.x]
         ELSE MconfEntry([a EXCEPT !.x = v.x], cur, w.i))
\* a has the symbols, the items so far, and whether an item was ever counted.
RECURSIVE build_conf(_, _)
build_conf(a, cur) ==
  IF a.todo = <<>> THEN a ELSE build_conf(MconfWork([a EXCEPT !.todo = Tail(@)], cur, Head(a.todo)), cur)
Built(y, i) == build_conf(Starting(y, i), i)

\* first_alpha: the letter of an item; y, n, m and h are not taken.
first_alpha(text) ==
  LET letters == {j \in 1..Len(text) : SubSeq(text, j, j) \notin {"y", "n", "m", "h"}}
  IN IF letters = {} THEN "" ELSE SubSeq(text, Least(letters), Least(letters))
Hot(items) == [n \in 0..Len(items) - 1 |-> first_alpha(Text[items[n + 1].i])]
\* The number of the last item that is for entry i, or -1.
NumberOf(items, i) ==
  LET all == {n \in DOMAIN items : items[n].i = i}
  IN IF all = {} THEN -1 ELSE (CHOOSE n \in all : \A m \in all : m <= n) - 1

-----------------------------------------------------------------------------
(* A key in a dialog.                                                      *)

Press(d, key, height) ==
  CASE d.kind = "menu"  -> MenuKey(d, key, height)
    [] d.kind = "list"  -> ListKey(d, key, height)
    [] d.kind = "input" -> InputKey(d, key, height)
    [] d.kind = "yesno" -> YesNoKey(d, key, height)
    [] d.kind = "text"  -> TextKey(d, key, height)
Typable(f, key) ==
  IF f.dlg.kind # "input" \/ key \in NotTyped \cup {"left", "right", "backspace"} THEN TRUE
  ELSE f.dlg.button # -1 \/ Len(f.dlg.text) < MaxText[f.fn]
\* All but moves, leaving a dialog, answers to a question and what is searched for;
\* of saving and loading it is giving the name.
IsCommand(d, res) == /\ res \notin {Again, KEY_ESC, TooSmall} /\ d.kind \notin {"yesno", "text"}
                     /\ Top.fn # "search"
                     /\ d.kind = "menu" => res \notin {1, 3, 4}
MconfKey ==
  /\ Running("mconf") /\ Top.dlg # NoDialog /\ Top.res = Again
  /\ \E key \in Keys[Top.fn] : \E lines \in After(key) :
       /\ Typable(Top, key)
       /\ \E p \in {Press(Top.dlg, key, lines)} :
            /\ Replace([Top EXCEPT !.dlg = p.d, !.res = p.res])
            /\ p.d.kind = "menu" /\ p.res \in {3, 4} => used < MaxCommands
            /\ IF key = "resize" \/ IsCommand(p.d, p.res) THEN used < MaxCommands /\ used' = used + 1 ELSE UNCHANGED used
       /\ size' = lines
  /\ UNCHANGED <<front, k, x, flags, filename, disk, status, faults>>

-----------------------------------------------------------------------------
(* conf().                                                                 *)

Leave == calls' = IF Below = <<>> THEN <<Frame("exit", 0)>> ELSE Below
MconfOpenMenu ==
  /\ Opening("mconf", "conf")
  /\ \E b \in {Built(x, Top.i)} :
       /\ x' = b.x
       /\ flags' = [flags EXCEPT !.counted = b.counted]
       /\ IF ~b.counted \/ ~MenuFits(size) THEN Leave
          ELSE Replace([Top EXCEPT !.items = b.items,
                          !.dlg = dialog_menu(Len(b.items), Hot(b.items),
                                              NumberOf(b.items, Top.active), Top.saved, size)])
  /\ UNCHANGED <<front, k, filename, disk, size, status, used, faults>>

MconfLeave ==
  /\ Returned("mconf", "conf") /\ Top.res \in {1, KEY_ESC, TooSmall}
  /\ Leave
  /\ UNCHANGED <<front, k, x, flags, filename, disk, size, status, used, faults>>

\* The item a command is for (there is none in an empty menu), and what becomes
\* of the frame.
Commanded(set) == Returned("mconf", "conf") /\ Top.res \in set
HasItem == MenuItem(Top.dlg) \in 0..Top.dlg.count - 1
ItemAt  == Top.items[MenuItem(Top.dlg) + 1]
Going   == [Closed(Top) EXCEPT !.saved = Top.dlg.scroll, !.active = ItemAt.i]

\* What <Enter> leads to, or <Space> at a menu.
Called ==
  LET s == k.msym[ItemAt.i]
      decided == s \in k.choices /\ x.tri[s] = yes
  IN CASE ItemAt.tag = "m" -> {Frame("conf", ItemAt.i)}
       [] ItemAt.tag = "t" /\ decided -> {[Frame("choice", ItemAt.i) EXCEPT !.active = x.val[s]]}
       [] ItemAt.tag = "t" /\ ~decided /\ Kind(ItemAt.i) = "menu" -> {Frame("conf", ItemAt.i)}
       [] ItemAt.tag = "s" -> {Frame("string", ItemAt.i)}
       [] OTHER -> {}
MconfCall ==
  /\ \/ Commanded({0}) /\ HasItem
     \/ Commanded({8}) /\ HasItem /\ ItemAt.tag = "m"
  /\ \E f \in Called : Push(Going, f)
  /\ UNCHANGED <<front, k, x, flags, filename, disk, size, status, used, faults>>
\* Commands that do nothing where they are given.
MconfNothing ==
  /\ \/ Commanded({0} \cup 2..10) /\ ~HasItem /\ Replace([Closed(Top) EXCEPT !.saved = Top.dlg.scroll])
     \/ Commanded({0}) /\ HasItem /\ Called = {} /\ Replace(Going)
     \/ Commanded(5..8) /\ HasItem /\ ItemAt.tag \notin {"t", IF Top.res = 8 THEN "m" ELSE "t"} /\ Replace(Going)
  /\ UNCHANGED <<front, k, x, flags, filename, disk, size, status, used, faults>>

\* show_textbox: n lines in a box tall rows high (0 for the whole screen); ended
\* tells of a newline at the end.
TextFrame(n, ended, tall) == [Frame("text", 0) EXCEPT !.arg = [n |-> n, ended |-> ended, tall |-> tall]]
Message(tall) == TextFrame(1, FALSE, tall)
\* show_help, of an entry, and show_helptext.
show_help(i)  == Frame("help", i)
show_helptext == TextFrame(HelpLines, TRUE, 0)

MconfAsk ==
  /\ Commanded({2, 3, 4, 9}) /\ HasItem
  /\ Push(Going, CASE Top.res = 2 -> IF k.msym[ItemAt.i] = None THEN show_helptext ELSE show_help(ItemAt.i)
                   [] Top.res = 3 -> Frame("save", 0)
                   [] Top.res = 4 -> Frame("load", 0)
                   [] OTHER -> Frame("search", 0))
  /\ UNCHANGED <<front, k, x, flags, filename, disk, size, status, used, faults>>

\* <Y>, <N>, <M> and <Space>: what they make of the symbol, and whether they show
\* why it is m.
Wanted(res) == CASE res = 5 -> yes [] res = 6 -> no [] OTHER -> mod
SetTo(s, res) ==
  IF res = 8 THEN [x |-> sym_toggle_tristate_value(k, x, s), told |-> FALSE]
  ELSE Bind(sym_set_tristate_value(k, x, s, Wanted(res)), LAMBDA r :
         IF res # 5 \/ r.ok THEN [x |-> r.x, told |-> FALSE]
         ELSE Bind(sym_set_tristate_value(k, x, s, mod), LAMBDA q : [x |-> q.x, told |-> q.ok]))
MconfSet ==
  /\ Commanded(5..8) /\ HasItem /\ ItemAt.tag = "t"
  /\ \E t \in {SetTo(k.msym[ItemAt.i], Top.res)} :
       x' = t.x /\ IF t.told THEN Push(Going, Message(6)) ELSE Replace(Going)
  /\ UNCHANGED <<front, k, flags, filename, disk, size, status, used, faults>>

MconfShowAll ==
  /\ Commanded({10}) /\ HasItem /\ Replace(Going)
  /\ flags' = [flags EXCEPT !.all = ~@]
  /\ UNCHANGED <<front, k, x, filename, disk, size, status, used, faults>>

-----------------------------------------------------------------------------
(* The functions conf() calls.                                             *)

\* Texts are not shown on a terminal that is too small.
MconfOpenText ==
  /\ Opening("mconf", "text")
  /\ IF TextFits(size)
     THEN Replace([Top EXCEPT !.dlg = dialog_textbox(Top.arg.n, Top.arg.ended, Top.arg.tall,
                                                     FALSE, <<>>, 0, size)])
     ELSE Pop
  /\ UNCHANGED <<front, k, x, flags, filename, disk, size, status, used, faults>>
MconfOpenHelp ==
  /\ Opening("mconf", "help")
  /\ \E h \in {menu_get_ext_help(x, Top.i)} : x' = h.x /\ Replace(TextFrame(h.n, TRUE, 0))
  /\ UNCHANGED <<front, k, flags, filename, disk, size, status, used, faults>>
MconfTextRead ==
  /\ Returned("mconf", "text") /\ Pop
  /\ UNCHANGED <<front, k, x, flags, filename, disk, size, status, used, faults>>

\* conf_choice: the visible values, with the chosen one marked.
ChoiceMark(c, s) == IF s = x.val[c] THEN "X" ELSE IF s = None THEN ":" ELSE ""
ChoiceItems(i, shown) ==
  LET list == SelectSeq(k.kids[i], LAMBDA j : j \in shown)
  IN [n \in DOMAIN list |-> Item(list[n], ChoiceMark(k.msym[i], k.msym[list[n]]), <<>>)]
\* A comment begins with a star.
FirstLetters(items) == [n \in 0..Len(items) - 1 |-> IF k.msym[items[n + 1].i] = None THEN "*"
                                                   ELSE SubSeq(Text[items[n + 1].i], 1, 1)]
\* The highlight: the first item for the active symbol, else the last one chosen.
ChosenNumber(items, active) ==
  LET same  == {n \in DOMAIN items : k.msym[items[n].i] = active}
      cross == {n \in DOMAIN items : items[n].tag = "X"}
  IN CASE same # {} -> Least(same) - 1
       [] same = {} /\ cross # {} -> (CHOOSE n \in cross : \A m \in cross : m <= n) - 1
       [] OTHER -> 0
MconfOpenChoice ==
  /\ Opening("mconf", "choice")
  /\ \E r \in {Seen(x, k.kids[Top.i])} : \E items \in {ChoiceItems(Top.i, r.shown)} :
       /\ x' = r.x
       /\ IF ~ListFits(size) THEN Pop
          ELSE Replace([Top EXCEPT !.items = items,
                          !.dlg = dialog_checklist(Len(items), FirstLetters(items),
                                                   ChosenNumber(items, Top.active), ListRows)])
  /\ UNCHANGED <<front, k, flags, filename, disk, size, status, used, faults>>
Picked == LET n == Top.dlg.scroll + Top.dlg.choice
          IN IF n \in 0..Top.dlg.count - 1 THEN {Top.items[n + 1].i} ELSE {}
MconfChoose ==
  /\ Returned("mconf", "choice") /\ Top.res = 0
  /\ \E i \in Picked : IF k.msym[i] = None THEN Replace(Closed(Top)) /\ x' = x
                       ELSE Pop /\ x' = sym_set_tristate_value(k, x, k.msym[i], yes).x
  /\ UNCHANGED <<front, k, flags, filename, disk, size, status, used, faults>>
MconfChoiceHelp ==
  /\ Returned("mconf", "choice") /\ Top.res = 1
  /\ \/ Picked = {} /\ Push(Closed(Top), show_help(Top.i))
     \/ \E i \in Picked : Push([Closed(Top) EXCEPT !.active = k.msym[i]], show_help(i))
  /\ UNCHANGED <<front, k, x, flags, filename, disk, size, status, used, faults>>
MconfChoiceLeft ==
  /\ Returned("mconf", "choice")
  /\ Top.res \in {KEY_ESC, TooSmall} \/ (Top.res = 0 /\ Picked = {})
  /\ Pop
  /\ UNCHANGED <<front, k, x, flags, filename, disk, size, status, used, faults>>

\* The boxes to type into.  On a terminal too small for them the callers but the
\* search try again for ever.
Boxes == {"string", "load", "save", "search"}
BoxHeight == IF Top.fn \in {"load", "save"} THEN 11 ELSE 10
BoxText == CASE Top.fn = "string" -> sym_get_string_value(k, x, k.msym[Top.i])
             [] Top.fn = "search" -> ""
             [] OTHER -> filename
NoRoom == IF Top.fn = "search" THEN Pop /\ UNCHANGED status ELSE Ends("hung")
MconfOpenBox ==
  /\ \E fn \in Boxes : Opening("mconf", fn)
  /\ IF InputFits([height |-> BoxHeight], size)
     THEN Replace([Top EXCEPT !.dlg = dialog_inputbox(BoxText, FieldWidth, BoxHeight)]) /\ UNCHANGED status
     ELSE NoRoom
  /\ UNCHANGED <<front, k, x, flags, filename, disk, size, used, faults>>
MconfBoxLeft ==
  /\ \E fn \in Boxes : Returned("mconf", fn)
  /\ \/ Top.res = KEY_ESC /\ Pop /\ UNCHANGED status
     \/ Top.res = TooSmall /\ NoRoom
  /\ UNCHANGED <<front, k, x, flags, filename, disk, size, used, faults>>
MconfBoxHelp ==
  /\ \E fn \in Boxes : Returned("mconf", fn)
  /\ Top.res = 1 /\ Top.dlg # NoDialog
  /\ Push(Closed(Top), IF Top.fn = "string" THEN show_help(Top.i) ELSE show_helptext)
  /\ UNCHANGED <<front, k, x, flags, filename, disk, size, status, used, faults>>
Typed(fn) == Returned("mconf", fn) /\ Top.res = 0 /\ Top.dlg # NoDialog

\* conf_string
MconfString ==
  /\ Typed("string")
  /\ \E r \in {sym_set_string_value(k, x, k.msym[Top.i], Top.dlg.text)} :
       x' = r.x /\ IF r.ok THEN Pop ELSE Push(Closed(Top), Message(5))
  /\ UNCHANGED <<front, k, flags, filename, disk, size, status, used, faults>>

\* conf_load
MconfLoad ==
  /\ Typed("load")
  /\ CASE Top.dlg.text = "" -> Pop /\ UNCHANGED <<x, filename, faults>>
       [] File(Top.dlg.text) # NoFile ->
            x' = conf_load_file(Top.dlg.text) /\ filename' = Top.dlg.text /\ Pop /\ UNCHANGED faults
       [] OTHER -> /\ x' = conf_load_nothing /\ faults' = faults \cup {"missing"}
                   /\ Push(Closed(Top), Message(5)) /\ UNCHANGED filename
  /\ UNCHANGED <<front, k, flags, disk, size, status, used>>

\* conf_save.  conf_write says what it has written before it counts the changes
\* as saved; once save_and_exit is set it does so without a box.
MconfSave ==
  /\ Typed("save")
  /\ IF Top.dlg.text = "" THEN Pop
     ELSE Push([Closed(Top) EXCEPT !.arg = Top.dlg.text], Writing(Top.dlg.text))
  /\ UNCHANGED <<front, k, x, flags, filename, disk, size, status, used, faults>>
MconfWrote ==
  /\ Returned("mconf", "save") /\ Top.dlg = NoDialog
  /\ CASE Top.res = 1 -> Push(Closed(Top), Message(5))
       [] Top.res = 0 /\ flags.quiet -> Replace([Closed(Top) EXCEPT !.fn = "saved"])
       [] OTHER -> Push([Closed(Top) EXCEPT !.fn = "saved"], Message(6))
  /\ UNCHANGED <<front, k, x, flags, filename, disk, size, status, used, faults>>
\* A mutant forgets under which name it saved.
SavedNamed(name) == filename
SavedUnder(name) == name
MconfSaved ==
  /\ Opening("mconf", "saved")
  /\ x' = [x EXCEPT !.changed = FALSE] /\ filename' = SavedUnder(Top.arg) /\ Pop
  /\ UNCHANGED <<front, k, flags, disk, size, status, used, faults>>

\* search_conf: the results are shown again after every jump, where they were left.
MconfSearch ==
  /\ Typed("search")
  /\ \E list \in {sym_re_search(Top.dlg.text)} :
       x' = Calculated(x, list) /\ Replace([Closed(Top) EXCEPT !.fn = "results", !.arg = list])
  /\ UNCHANGED <<front, k, flags, filename, disk, size, status, used, faults>>
MconfOpenResults ==
  /\ Opening("mconf", "results")
  /\ \E t \in {get_relations_str(x, Top.arg, TRUE)} :
       /\ x' = t.x
       /\ IF TextFits(size)
          THEN Replace([Top EXCEPT !.dlg = dialog_textbox(t.n, TRUE, 0, TRUE, t.hits, Top.saved, size)])
          ELSE Pop
  /\ UNCHANGED <<front, k, flags, filename, disk, size, status, used, faults>>
MconfJump ==
  /\ Returned("mconf", "results") /\ Top.res \notin {0, TooSmall}
  /\ LET i == Top.dlg.hits[Top.res].target
     IN Push([Closed(Top) EXCEPT !.saved = LeftAt(Top.dlg)], [Frame("conf", k.parent[i]) EXCEPT !.active = i])
  /\ UNCHANGED <<front, k, x, flags, filename, disk, size, status, used, faults>>
MconfResultsLeft ==
  /\ Returned("mconf", "results") /\ Top.res \in {0, TooSmall} /\ Pop
  /\ UNCHANGED <<front, k, x, flags, filename, disk, size, status, used, faults>>

-----------------------------------------------------------------------------
(* The end: handle_exit, called by main and by the handler of SIGINT.      *)

MconfOpenExit ==
  /\ Opening("mconf", "exit")
  /\ flags' = [flags EXCEPT !.quiet = TRUE]
  /\ CASE ~x.changed -> Ends("ended")
       [] x.changed /\ YesNoFits(size) -> Replace([Top EXCEPT !.dlg = dialog_yesno]) /\ UNCHANGED status
       [] OTHER -> Ends("notsaved")
  /\ UNCHANGED <<front, k, x, filename, disk, size, used, faults>>
MconfExitSave ==
  /\ Returned("mconf", "exit") /\ Top.res = 0 /\ Top.dlg # NoDialog
  /\ Push(Closed(Top), Writing(filename))
  /\ UNCHANGED <<front, k, x, flags, filename, disk, size, status, used, faults>>
WriteEnds(res) == IF res = 0 THEN "ended" ELSE "notsaved"
MconfExitWrote ==
  /\ Returned("mconf", "exit") /\ Top.dlg = NoDialog
  /\ x' = IF Top.res = 0 THEN [x EXCEPT !.changed = FALSE] ELSE x
  /\ Ends(WriteEnds(Top.res))
  /\ UNCHANGED <<front, k, flags, filename, disk, size, used, faults>>
MconfExitNot ==
  /\ Returned("mconf", "exit") /\ Top.res # 0 /\ Top.dlg # NoDialog
  /\ IF Top.res = KEY_ESC /\ Top.arg # "signal" THEN calls' = <<Frame("conf", 0)>> /\ UNCHANGED status
     ELSE Ends("notsaved")
  /\ UNCHANGED <<front, k, x, flags, filename, disk, size, used, faults>>

\* The signal comes while a key is waited for.  Where conf_write tells that it has
\* written, the changes still count, and handle_exit may write once more: what has
\* been written is not marked any longer, so that nothing is.
Telling == \E n \in DOMAIN calls : calls[n].fn = "saved"
Interrupt ==
  /\ Running("mconf") /\ Top.dlg # NoDialog /\ Top.res = Again
  /\ ~(Top.fn = "exit" /\ Top.arg = "signal")
  /\ calls' = <<[Frame("exit", 0) EXCEPT !.arg = "signal"]>>
  /\ faults' = IF Telling THEN faults \cup {"interrupted"} ELSE faults
  /\ UNCHANGED <<front, k, x, flags, filename, disk, size, status, used>>

MconfOpens == \/ MconfOpenMenu \/ MconfOpenText \/ MconfOpenHelp \/ MconfOpenChoice \/ MconfOpenBox
              \/ MconfOpenResults \/ MconfOpenExit
MconfGoesOn == \/ MconfLeave \/ MconfCall \/ MconfNothing \/ MconfAsk \/ MconfSet \/ MconfShowAll
               \/ MconfTextRead \/ MconfChoose \/ MconfChoiceHelp \/ MconfChoiceLeft \/ MconfBoxLeft
               \/ MconfBoxHelp \/ MconfString \/ MconfLoad \/ MconfSave \/ MconfWrote \/ MconfSaved
               \/ MconfSearch \/ MconfJump \/ MconfResultsLeft
               \/ MconfExitSave \/ MconfExitWrote \/ MconfExitNot
MconfNext == MconfOpens \/ MconfKey \/ MconfGoesOn \/ Interrupt
=============================================================================
