-------------------------- MODULE MCKconfigFronts ---------------------------
EXTENDS Mconf, Nconf

Opt(kind, e, cond) == [kind |-> kind, e |-> e, cond |-> cond, lo |-> None, hi |-> None]
Config(s, t, dep, opts) == [kind |-> "config", sym |-> s, type |-> t, optional |-> FALSE,
                            dep |-> dep, opts |-> opts, kids |-> <<>>]
Block(kind, s, dep, opts, kids) ==
  [kind |-> kind, sym |-> s, type |-> "unknown", optional |-> FALSE,
   dep |-> dep, opts |-> opts, kids |-> kids]
Prompt == Opt("prompt", NoExpr, NoExpr)
Within5 == [Opt("range", NoExpr, NoExpr) EXCEPT !.lo = "1", !.hi = "5"]

MCFile == <<
  Config("A", "boolean", NoExpr, <<Prompt>>),
  Config("N", "int", Sy("A"), <<Prompt, Within5, Opt("default", Sy("3"), NoExpr)>>),
  Block("choice", "CH", NoExpr, <<Prompt>>, <<
    Config("C1", "boolean", NoExpr, <<Prompt>>),
    Config("C2", "boolean", Sy("A"), <<Prompt>>)>>),
  Block("menu", None, NoExpr, <<>>, <<
    Config("D", "boolean", Sy("A"), <<Prompt>>)>>)>>
MCOrder == <<"C2", "D", MODULES, "A", "CH", "N", "C1">>
MCText == <<"ash", "size", "libc", "glibc", "musl", "more", "dev">>
Line(s, t) == [sym |-> s, text |-> t]
ADisk == ("a" :> <<Line("A", "y"), Line("N", "3"), Line("C1", "y"), Line("C2", Unset), Line("D", Unset)>>)
          @@ ("b" :> <<Line("A", Unset), Line("C1", "y")>>)
\* With A unset there is a menu without items.
MCFirstDisk == {ADisk, [ADisk EXCEPT !["a"] = ADisk["b"]]}
MCMaxText == [string |-> 2, load |-> 1, save |-> 1, search |-> 1, match |-> 1]
Editing == {"backspace", "left", "tab", "enter", "esc esc"}
Naming == {"backspace", "b", "enter", "esc esc"}
MCKeys == [conf |-> {"up", "down", "npage", "ppage", "right", "enter", "y", "n", "space", "?", "z", "/", "s", "o", "esc esc", "resize"},
           choice |-> {"up", "down", "enter", "?", "esc esc", "resize"},
           string |-> Editing \cup {"2", "resize"}, load |-> Naming \cup {"c"}, save |-> Naming,
           search |-> Editing \cup {"C", "D"},
           results |-> {"up", "down", "npage", "1", "2", "x"},
           text |-> {"down", "up", "npage", "x", "resize"}, exit |-> {"y", "n", "right", "enter", "esc esc", "resize"}]
NEditing == {"backspace", "left", "home", "del", "enter", "esc"}
NNaming == {"backspace", "b", "enter", "esc"}
MCNKeys == [conf |-> {"up", "down", "end", "enter", "right", "left", "y", "n", "space", "h", "/", "d", "backspace",
                      "f2", "f4", "f5", "f7", "f8", "f9", "f6", "resize"},
            choice |-> {"down", "up", "enter", "/", "l", "f1", "f7", "left"},
            string |-> NEditing \cup {"2", "f1"}, load |-> NNaming \cup {"c"}, save |-> NNaming,
            search |-> {"C", "enter", "esc"},
            text |-> {"down", "npage", "end", "u", "enter"}, btn |-> {"enter"},
            showall |-> {"enter", "right", "esc"}, exit |-> {"enter", "right", "esc"}]

Next == MconfNext \/ NconfNext \/ conf_write \/ Rest
Spec == Init /\ [][Next]_vars
-----------------------------------------------------------------------------
(* What the dialog on top shows.                                           *)

\* What the user sees is what the program holds: after any moves, scrolling,
\* resizing, editing and jumping each row of a menu or a list shows its item, one
\* row is lit, and it is that of the item a command would act on; the field of an
\* inputbox shows the text around the cursor; a textbox shows its lines in order,
\* tells its end, and the keys to jump with are those that are on the page.  In
\* nconfig the current item is in a row of the window, and neither a menu nor a text
\* is scrolled past its end.  (The windows of menuconfig are painted once and then
\* patched row by row.  Excepted are an empty menu, the page behind a text whose last
\* page is full, and the rows of a menu of menuconfig that a resize has painted from
\* a stale first item, menubox.c:250-264: Shifted.)
OnScreen ==
  status = "running" =>
    CASE Top.dlg.kind \in {"menu", "list"} -> MenuOnScreen(Top.dlg)
      [] Top.dlg.kind = "input" -> InputOnScreen(Top.dlg)
      [] Top.dlg.kind = "text" -> TextOnScreen(Top.dlg)
      [] Top.dlg.kind = "form" -> FieldOnScreen(Top.dlg)
      [] Top.dlg.kind = "scroll" -> ScrollOnScreen(Top.dlg)
      [] Top.dlg.kind = "curses" -> CursesOnScreen(Top.dlg)
      [] OTHER -> TRUE

\* The entry whose item is lit on the screen.
Lit(f) ==
  CASE f.fn = "string" -> {f.i}
    [] f.dlg.kind \in {"menu", "list"} -> {f.items[n + 1].i : n \in {n \in 0..f.dlg.count - 1 : \E r \in DOMAIN f.dlg.rows : f.dlg.rows[r] = [item |-> n, lit |-> TRUE]}}
    [] f.dlg.kind = "curses" -> {ItemOf(f)}
    [] OTHER -> {}
About(s, i) == s = k.msym[i] \/ k.choice[k.msym[i]] = s
Set(s) == x.utri[s] # x'.utri[s] \/ x.uval[s] # x'.uval[s]
\* While a configurator runs, the value a user gives a symbol changes only through
\* the item that is lit on the screen (or the choice it belongs to), unless a file
\* is loaded: the item's number, its row, its tag and its entry never come apart.
\* A menu of menuconfig that was painted from a stale first item is excepted.
ActsOnHighlighted ==
  [][status = "running" /\ Top.fn # "load" /\ ~Shifted(Top.dlg) =>
       \A s \in Symbols(k) : Set(s) => \E i \in Lit(Top) : About(s, i)]_vars

\* The items made anew, with every value calculated again.
Again_(y, i) == IF front = "mconf" THEN Built([y EXCEPT !.valid = {}], i).items ELSE NconfBuilt([y EXCEPT !.valid = {}], i).items
\* A menu shows what every symbol would be found to be if it were calculated now:
\* whatever was asked, set, loaded, saved, searched or looked at before it was
\* drawn or is lying over it, no value, no "(NEW)" and no visibility it shows is an
\* old one.  (In nconfig this is not so while all symbols are shown.)
ShownIsCurrent ==
  status = "running" /\ Top.fn = "conf" /\ Top.dlg.kind \in {"menu", "curses"} /\ (front = "nconf" => ~flags.all) =>
    Top.items = Again_(x, Top.i)

-----------------------------------------------------------------------------
(* What is left in the file.                                               *)

\* The values the symbols have, and whether the file holds them.
Values(y) == Bind(CalcAll(k, [y EXCEPT !.valid = {}]), LAMBDA z : Texts(k, z))
Saved == Values(conf_read(k, Fresh, File(filename))) = Values(x)
\* When a configurator ends with "End of the configuration" (and not "NOT saved"),
\* what the last named file reads back as is what the symbols were, through any
\* saving under other names, loading and failing writes.  A rename that failed, a
\* load that failed and an interrupt between writing and counting the changes as
\* saved are excepted: after each of these the code does lose changes.
NothingLost == status = "ended" /\ faults \cap {"rename", "missing", "interrupted"} = {} => Saved
\* Changes that are not saved are told of: "Your configuration changes were NOT
\* saved." (mconf.c:914).
NotSavedIsTold == status = "ended" /\ faults \cap {"rename", "interrupted"} = {} => Saved
=============================================================================
