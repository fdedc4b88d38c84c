------------------------------ MODULE Lxdialog ------------------------------
(***************************************************************************)
(* The dialog boxes of menuconfig (support/kconfig/lxdialog).  Each is a   *)
(* record and an operator that says what a key makes of it.  A window is   *)
(* a function on its rows: as in the code it is painted once and then kept *)
(* up row by row, by scrolling and by printing single rows again.  Colours,*)
(* borders, buttons' labels and the wrapping of texts are left out, widths *)
(* too (a terminal of 80 columns).                                         *)
(*                                                                         *)
(* What a key leads to is [d, res]: the box, and Again, or the value the   *)
(* function of the code returns.                                           *)
(***************************************************************************)
EXTENDS Integers, Sequences

KEY_ESC  == 27
TooSmall == -2                              \* -ERRDISPLAYTOOSMALL
Again    == -1
Stay(d)        == [d |-> d, res |-> Again]
Return(d, res) == [d |-> d, res |-> res]

SmallerOf(a, b) == IF a < b THEN a ELSE b
LargerOf(a, b)  == IF a < b THEN b ELSE a
Least(S) == CHOOSE i \in S : \A j \in S : i <= j

\* A single <Esc> starts an escape sequence and is dropped with it; "esc esc" is
\* <Esc> pressed twice.
on_key_esc(key) == IF key = "esc esc" THEN KEY_ESC ELSE Again

\* The next of n buttons, or the one before.
Button(b, key, n) == IF key = "left" THEN (b + n - 1) % n ELSE (b + 1) % n

Blank == [item |-> -1, lit |-> FALSE]
PrintItem(d, item, row, lit) ==
  [d EXCEPT !.rows = [r \in DOMAIN @ |-> IF r = row THEN [item |-> item, lit |-> lit] ELSE @[r]]]
\* wscrl: the rows move up by n, or down.
Scrolled(rows, n) == [r \in DOMAIN rows |-> IF r + n \in DOMAIN rows THEN rows[r + n] ELSE Blank]
Painted(height, max, first, choice) ==
  [r \in 0..height - 1 |-> IF r < max THEN [item |-> first + r, lit |-> r = choice] ELSE Blank]

-----------------------------------------------------------------------------
(* menubox.c.  Items are numbered from 0; count of them, hot their letters,*)
(* selected the number of the one the caller wants highlighted or -1, and  *)
(* saved what *s_scroll was.                                               *)

do_scroll(m, n) == [m EXCEPT !.scroll = @ + n, !.rows = Scrolled(@, n)]

MenuFits(lines) == lines >= 15
\* From do_resize on.  Where first_item is still that of the layout before, the rows
\* are painted from another item than the one scrolled to.  The code does not know:
\* stale is a variable of this model only.
LayMenu(m, lines) ==
  LET height == lines - 14
      max  == SmallerOf(height, m.count)
      at   == IF m.selected >= 0 THEN m.selected ELSE m.choice
      kept == m.saved <= at /\ at < m.saved + max /\ m.saved >= 0 /\ m.saved + max <= m.count
      centred == IF at >= m.count - (max \div 2) THEN m.count - max ELSE at - (max \div 2)
      scroll == IF kept THEN m.saved ELSE IF at >= max THEN centred ELSE 0
      first  == IF kept \/ at >= max THEN scroll ELSE m.first
  IN [m EXCEPT !.max = max, !.scroll = scroll, !.first = first, !.choice = at - scroll,
               !.stale = first # scroll, !.rows = Painted(height, max, first, at - scroll)]
dialog_menu(count, hot, selected, saved, lines) ==
  LayMenu([kind |-> "menu", count |-> count, hot |-> hot, selected |-> selected, saved |-> saved,
           first |-> 0, scroll |-> 0, choice |-> 0, max |-> 0, button |-> 0, stale |-> FALSE,
           rows |-> <<>>], lines)

\* The next row whose item has this letter, or max.
HotRow(m, key) ==
  LET all   == {i \in 0..m.max - 1 : m.hot[m.scroll + i] = key}
      after == {i \in all : i > m.choice}
  IN IF key \in {"y", "n", "m", "h"} \/ all = {} THEN m.max
     ELSE Least(IF after = {} THEN all ELSE after)

\* A mutant that does not print the row that scrolls in.
MenuUpUnprinted(m) ==
  IF m.choice < 2 /\ m.scroll # 0 THEN do_scroll(m, -1)
  ELSE [m EXCEPT !.choice = LargerOf(@ - 1, 0)]
MenuUp(m) ==
  IF m.choice < 2 /\ m.scroll # 0 THEN PrintItem(do_scroll(m, -1), m.scroll - 1, 0, FALSE)
  ELSE [m EXCEPT !.choice = LargerOf(@ - 1, 0)]
MenuDown(m) ==
  IF m.choice > m.max - 3 /\ m.scroll + m.max < m.count
  THEN PrintItem(do_scroll(m, 1), m.scroll + m.max, m.max - 1, FALSE)
  ELSE [m EXCEPT !.choice = SmallerOf(@ + 1, m.max - 1)]
\* One turn of the loop of <Page Up>, and of <Page Down>.
PageUpTurn(m) ==
  IF m.scroll > 0 THEN PrintItem(do_scroll(m, -1), m.scroll - 1, 0, FALSE)
  ELSE [m EXCEPT !.choice = IF @ > 0 THEN @ - 1 ELSE @]
PageDownTurn(m) ==
  IF m.scroll + m.max < m.count THEN PrintItem(do_scroll(m, 1), m.scroll + m.max, m.max - 1, FALSE)
  ELSE [m EXCEPT !.choice = IF @ + 1 < m.max THEN @ + 1 ELSE @]
MenuPageUp(m)   == LET turn[i \in 0..m.max] == IF i = 0 THEN m ELSE PageUpTurn(turn[i - 1]) IN turn[m.max]
MenuPageDown(m) == LET turn[i \in 0..m.max] == IF i = 0 THEN m ELSE PageDownTurn(turn[i - 1]) IN turn[m.max]

MenuMoved(m, key) ==
  CASE key = "up"    -> MenuUp(m)
    [] key = "down"  -> MenuDown(m)
    [] key = "ppage" -> MenuPageUp(m)
    [] key = "npage" -> MenuPageDown(m)
    [] OTHER -> [m EXCEPT !.choice = HotRow(m, key)]
\* The old row is printed plain, then things move, then the new row is lit.
MenuMove(m, key) ==
  LET new == MenuMoved(PrintItem(m, m.scroll + m.choice, m.choice, FALSE), key)
  IN PrintItem(new, new.scroll + new.choice, new.choice, TRUE)

MenuResult(m, key) ==
  CASE key \in {"?", "h"} -> 2
    [] key \in {"s", "y"} -> 5
    [] key = "n" -> 6
    [] key = "m" -> 7
    [] key = "space" -> 8
    [] key = "/" -> 9
    [] key = "z" -> 10
    [] OTHER -> m.button
MenuCommands == {"?", "h", "s", "y", "n", "m", "space", "/", "z", "enter"}
\* The item that is set selected for the caller; a mutant forgets the scrolling.
RowOnly(m) == m.choice
MenuItem(m) == m.scroll + m.choice

MenuKey(m, key, lines) ==
  IF HotRow(m, key) < m.max \/ key \in {"up", "down", "ppage", "npage"} THEN Stay(MenuMove(m, key))
  ELSE CASE key \in {"left", "right", "tab"} -> Stay([m EXCEPT !.button = Button(@, key, 5)])
         [] key \in MenuCommands -> Return(m, MenuResult(m, key))
         [] key \in {"e", "x"} -> Return(m, KEY_ESC)
         [] key \in {"esc", "esc esc"} -> Return(m, on_key_esc(key))
         [] key = "resize" -> IF MenuFits(lines) THEN Stay(LayMenu(m, lines)) ELSE Return(m, TooSmall)
         [] OTHER -> Stay(m)

-----------------------------------------------------------------------------
(* checklist.c: the values of a choice, size rows of them (6 in the code). *)

ListFits(lines) == lines >= 15 + 6
LayList(c) ==
  LET max == SmallerOf(c.size, c.count)
      over == LargerOf(c.choice - c.size + 1, 0)
      scroll == IF over > 0 THEN over ELSE c.scroll
  IN [c EXCEPT !.max = max, !.scroll = scroll, !.choice = @ - over,
               !.rows = Painted(c.size, max, scroll, c.choice - over)]
dialog_checklist(count, hot, choice, size) ==
  LayList([kind |-> "list", count |-> count, hot |-> hot, choice |-> choice, size |-> size,
           scroll |-> 0, max |-> 0, button |-> 0, rows |-> <<>>])

\* The first row whose item starts with this letter, or max.
ListRow(c, key) == LET all == {i \in 0..c.max - 1 : c.hot[c.scroll + i] = key}
                   IN IF all = {} THEN c.max ELSE Least(all)
\* The list moves by n under a highlight that stays in row at, the first or the
\* last; a list of one row is not scrolled but printed over.
ListScroll(c, at, n) ==
  LET plain == PrintItem(c, c.scroll + at, at, FALSE)
  IN PrintItem([c EXCEPT !.scroll = @ + n, !.rows = IF c.size > 1 THEN Scrolled(plain.rows, n) ELSE @],
               c.scroll + n + at, at, TRUE)
ListTo(c, row) ==
  IF row = c.choice THEN c
  ELSE [PrintItem(PrintItem(c, c.scroll + c.choice, c.choice, FALSE), c.scroll + row, row, TRUE)
        EXCEPT !.choice = row]
ListMove(c, key) ==
  CASE key = "up" /\ c.choice = 0 -> IF c.scroll = 0 THEN c ELSE ListScroll(c, 0, -1)
    [] key = "up" /\ c.choice # 0 -> ListTo(c, c.choice - 1)
    [] key = "down" /\ c.choice = c.max - 1 ->
         IF c.scroll + c.choice >= c.count - 1 THEN c ELSE ListScroll(c, c.max - 1, 1)
    [] key = "down" /\ c.choice # c.max - 1 -> ListTo(c, c.choice + 1)
    [] OTHER -> ListTo(c, ListRow(c, key))

ListKey(c, key, lines) ==
  IF ListRow(c, key) < c.max \/ key \in {"up", "down"} THEN Stay(ListMove(c, key))
  ELSE CASE key \in {"h", "?"} -> Return(c, 1)
         [] key \in {"s", "space", "enter"} -> Return(c, c.button)
         [] key \in {"left", "right", "tab"} -> Stay([c EXCEPT !.button = Button(@, key, 2)])
         [] key = "x" -> Return(c, KEY_ESC)
         [] key \in {"esc", "esc esc"} -> Return(c, on_key_esc(key))
         [] key = "resize" -> IF ListFits(lines) THEN Stay(LayList(c)) ELSE Return(c, TooSmall)
         [] OTHER -> Stay(c)

-----------------------------------------------------------------------------
(* inputbox.c: a line of text in a field of width cells.  button is -1     *)
(* while the field has the cursor.                                         *)

CharAt(text, i) == SubSeq(text, i + 1, i + 1)
InputFits(b, lines) == lines > b.height - 2
\* The text from show on, and a blank behind it; what is further right stays.
DrawText(b) ==
  [b EXCEPT !.cells = [i \in DOMAIN @ |-> IF b.show + i < Len(b.text) THEN CharAt(b.text, b.show + i)
                                          ELSE IF b.show + i = Len(b.text) THEN " " ELSE @[i]]]
\* From do_resize on.
LayInput(b) ==
  LET len == Len(b.text)
      at  == SmallerOf(len, b.width - 1)
  IN [b EXCEPT !.pos = len, !.show = len - at, !.at = at,
               !.cells = [i \in 0..b.width - 1 |-> IF i < at THEN CharAt(b.text, len - at + i) ELSE " "]]
dialog_inputbox(init, width, height) ==
  LayInput([kind |-> "input", text |-> init, width |-> width, height |-> height,
            pos |-> 0, show |-> 0, at |-> 0, button |-> -1, cells |-> <<>>])

\* The cursor goes one to the left: in the field, or the text moves.
CursorLeft(b)  == IF b.at > 0 THEN [b EXCEPT !.at = @ - 1, !.pos = @ - 1]
                  ELSE [b EXCEPT !.show = @ - 1, !.pos = @ - 1]
CursorRight(b) == IF b.at < b.width - 1 THEN [b EXCEPT !.at = @ + 1, !.pos = @ + 1]
                  ELSE [b EXCEPT !.show = @ + 1, !.pos = @ + 1]
Without(text, i) == SubSeq(text, 1, i) \o SubSeq(text, i + 2, Len(text))
With(text, i, c) == SubSeq(text, 1, i) \o c \o SubSeq(text, i + 1, Len(text))
\* A mutant that does not draw the line again when a character goes.
BackspaceUndrawn(b) == [CursorLeft(b) EXCEPT !.text = Without(@, b.pos - 1)]
Backspace(b) == DrawText([CursorLeft(b) EXCEPT !.text = Without(@, b.pos - 1)])
Insert(b, c) == DrawText([CursorRight(b) EXCEPT !.text = With(@, b.pos, c)])

FieldKey(b, key) ==
  CASE key = "backspace" -> IF b.pos > 0 THEN Backspace(b) ELSE b
    [] key = "left" -> IF b.pos > 0 THEN IF b.at > 0 THEN CursorLeft(b) ELSE DrawText(CursorLeft(b)) ELSE b
    [] key = "right" -> IF b.pos = Len(b.text) THEN b
                        ELSE IF b.at < b.width - 1 THEN CursorRight(b) ELSE DrawText(CursorRight(b))
    [] OTHER -> Insert(b, IF key = "space" THEN " " ELSE key)
NotTyped == {"tab", "up", "down", "enter", "esc", "esc esc", "resize"}

InputKey(b, key, lines) ==
  IF b.button = -1 /\ key \notin NotTyped THEN Stay(FieldKey(b, key))
  ELSE CASE key \in {"up", "left"} -> Stay([b EXCEPT !.button = IF @ = -1 THEN 1 ELSE @ - 1])
         [] key \in {"tab", "down", "right"} -> Stay([b EXCEPT !.button = IF @ = 1 THEN -1 ELSE @ + 1])
         [] key = "o" -> Return(b, 0)
         [] key = "h" -> Return(b, 1)
         [] key \in {"enter", "space"} -> Return(b, LargerOf(b.button, 0))
         [] key = "x" -> Return(b, KEY_ESC)
         [] key \in {"esc", "esc esc"} -> Return(b, on_key_esc(key))
         [] key = "resize" -> IF InputFits(b, lines) THEN Stay(LayInput(b)) ELSE Return(b, TooSmall)
         [] OTHER -> Stay(b)

-----------------------------------------------------------------------------
(* yesno.c                                                                 *)

YesNoFits(lines) == lines >= 6 + 4
dialog_yesno == [kind |-> "yesno", button |-> 0]
YesNoKey(d, key, lines) ==
  CASE key = "y" -> Return(d, 0)
    [] key = "n" -> Return(d, 1)
    [] key \in {"left", "right", "tab"} -> Stay([d EXCEPT !.button = Button(@, key, 2)])
    [] key \in {"space", "enter"} -> Return(d, d.button)
    [] key \in {"esc", "esc esc"} -> Return(d, on_key_esc(key))
    [] key = "resize" -> IF YesNoFits(lines) THEN Stay(d) ELSE Return(d, TooSmall)
    [] OTHER -> Stay(d)

-----------------------------------------------------------------------------
(* textbox.c: a text of n lines; ended tells whether the last one has a    *)
(* newline.  page is the line it would read next (n at the end of the      *)
(* buffer), begin and end are begin_reached and end_reached, and length is *)
(* page_length.  hits are the places in the text a key leads to; those on  *)
(* the page are live.  It does not scroll sideways here.                   *)

TextFits(lines) == lines >= 8
\* get_line, n times.
get_line(t, n) ==
  LET to == t.page + n
  IN IF n = 0 THEN t
     ELSE [t EXCEPT !.page = SmallerOf(to, t.n), !.end = IF t.ended THEN to > t.n ELSE to >= t.n]
\* The end of the text counts as a line once.
back_lines(t, n) ==
  LET spent == IF n > 0 /\ t.page = t.n /\ t.end THEN 1 ELSE 0
      back  == n - spent
  IN [t EXCEPT !.end = @ /\ spent = 0, !.page = LargerOf(@ - back, 0),
               !.begin = back > 0 /\ back >= t.page]
\* A mutant that takes the keys for the page before it is known where it starts.
update_early(t, h) == back_lines(get_line([t EXCEPT !.live = {i \in DOMAIN t.hits : t.page <= t.hits[i].line}], h), h)
update_text(t, h) ==
  LET there == get_line(t, h)
      back  == back_lines(there, h)
  IN [back EXCEPT !.live = {i \in DOMAIN t.hits : back.page <= t.hits[i].line /\ t.hits[i].line < there.page}]
print_page(t) ==
  LET h == t.boxh
      u == IF t.updates THEN update_text(t, h) ELSE t
      there == get_line(u, h)
      printed == u.n - u.page + (IF u.ended THEN 1 ELSE 0)
  IN [there EXCEPT !.length = IF there.end THEN LargerOf(printed, 1) ELSE h,
                   !.rows = [r \in 0..h - 1 |-> IF u.page + r < u.n THEN u.page + r ELSE -1]]
\* From do_resize on.
LayText(t, lines) ==
  LET height == IF t.tall # 0 THEN t.tall ELSE lines - 4
  IN print_page([t EXCEPT !.height = height, !.boxh = height - 4])
dialog_textbox(n, ended, tall, updates, hits, vscroll, lines) ==
  LayText(get_line([kind |-> "text", n |-> n, ended |-> ended, tall |-> tall, updates |-> updates,
                    hits |-> hits, live |-> {}, page |-> 0, begin |-> vscroll = 0, end |-> FALSE,
                    length |-> 0, height |-> 0, boxh |-> 0, rows |-> <<>>], vscroll), lines)

\* Where the text was left, for the next time.
LeftAt(t) == back_lines(t, t.length).page
Refreshed(t, n) == print_page(back_lines(t, n))
TextUp(t) == IF t.begin THEN t ELSE Refreshed(t, t.length + 1)
TextMove(t, key) ==
  CASE key = "home" -> IF t.begin THEN t ELSE print_page([t EXCEPT !.begin = TRUE, !.page = 0])
    [] key = "end" -> Refreshed([t EXCEPT !.end = TRUE, !.page = t.n], t.boxh)
    [] key = "up" -> TextUp(t)
    [] key = "ppage" -> IF t.begin THEN t ELSE Refreshed(t, t.length + t.boxh)
    [] key = "down" -> IF t.end THEN t ELSE Refreshed(t, t.length - 1)
    [] key \in {"npage", "space"} -> IF t.end THEN t ELSE print_page([t EXCEPT !.begin = FALSE])
    [] OTHER -> t
\* The keys of the places in the text are numbered.
Digits == <<"1", "2", "3", "4", "5", "6", "7", "8", "9">>
HitKey(i) == Digits[((i - 1) % 9) + 1]
\* The result is 0 for the end, or the place that was asked for.
TextKey(t, key, lines) ==
  IF \E i \in t.live : key = HitKey(i) THEN Return(t, CHOOSE i \in t.live : key = HitKey(i))
  ELSE CASE key \in {"x", "enter", "esc esc"} -> Return(t, 0)
         [] key = "resize" -> LET back == back_lines(t, t.height)
                              IN IF TextFits(lines) THEN Stay(LayText(back, lines)) ELSE Return(back, TooSmall)
         [] OTHER -> Stay(TextMove(t, key))

\* util.c: the terminal menuconfig needs to start.
init_dialog(lines) == lines >= 19

-----------------------------------------------------------------------------
(* What a box should show, whatever it has been through.                   *)

\* What is in the rows of a menu or a list is what should be, and the item that a
\* command acts on is there; of a menu painted from a stale first_item only that.
RowsOf(d) == [r \in DOMAIN d.rows |-> IF r < d.max THEN [item |-> d.scroll + r, lit |-> r = d.choice] ELSE Blank]
Shifted(d) == d.kind = "menu" /\ d.stale
MenuOnScreen(d) == d.count > 0 => MenuItem(d) \in 0..d.count - 1 /\ (Shifted(d) \/ d.rows = RowsOf(d))
InputOnScreen(d) ==
  /\ d.pos = d.show + d.at /\ d.at \in 0..d.width - 1
  /\ d.cells = [i \in 0..d.width - 1 |-> IF d.show + i < Len(d.text) THEN CharAt(d.text, d.show + i) ELSE " "]
\* The lines are in order, the keys lead where they say, and the flags are right.
TextOnScreen(d) ==
  LET shown == {d.rows[r] : r \in DOMAIN d.rows} \ {-1}
  IN /\ \A r \in DOMAIN d.rows : d.rows[r] = IF d.rows[0] # -1 /\ d.rows[0] + r < d.n THEN d.rows[0] + r ELSE -1
     /\ d.begin => d.rows[0] = 0
     /\ d.end => shown = {} \/ d.n - 1 \in shown
     /\ shown = {} => d.end
     /\ d.updates => d.live = {i \in DOMAIN d.hits : d.hits[i].line \in shown}
=============================================================================
