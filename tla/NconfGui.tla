------------------------------ MODULE NconfGui ------------------------------
(***************************************************************************)
(* What nconfig shows (support/kconfig/nconf.gui.c): a question with       *)
(* buttons, a line to type into, a text to scroll; and, from the library   *)
(* of menus of ncurses as nconf.c uses it, a list of items.  What a key    *)
(* leads to is told as in Lxdialog.                                        *)
(***************************************************************************)
EXTENDS Lxdialog

KEY_EXIT == -3
Leaves == {"esc", "f5", "f9"}
\* Mutants: a field that does not hold its cursor at its left end, and, below, a menu
\* that does not follow its current item.
AtMost(low, i, high) == SmallerOf(i, high)
Between(low, i, high) == LargerOf(low, SmallerOf(i, high))

-----------------------------------------------------------------------------
(* btn_dialog: n buttons, or none (what it returns is then not looked at). *)

btn_dialog(n) == [kind |-> "btn", n |-> n, cur |-> 0]
BtnKey(d, key) ==
  CASE key = "left"  -> Stay([d EXCEPT !.cur = LargerOf(@ - 1, 0)])
    [] key = "right" -> Stay([d EXCEPT !.cur = SmallerOf(@ + 1, LargerOf(d.n - 1, 0))])
    [] key \in {"enter", "space"} -> Return(d, d.cur)
    [] key \in Leaves -> Return(d, KEY_EXIT)
    [] OTHER -> Stay(d)

-----------------------------------------------------------------------------
(* dialog_inputbox: pos is cursor_position and at cursor_form_win; the     *)
(* whole field is written again after each key.                            *)

DrawField(b) ==
  [b EXCEPT !.at = Between(0, @, b.width - 1),
            !.cells = LET from == b.pos - Between(0, b.at, b.width - 1)
                      IN [i \in 0..b.width - 1 |-> IF from + i < Len(b.text) THEN CharAt(b.text, from + i) ELSE " "]]
form_inputbox(init, width) ==
  DrawField([kind |-> "form", text |-> init, width |-> width, pos |-> Len(init), at |-> Len(init), cells |-> <<>>])
MovedBy(b, n) == IF b.pos + n \in 0..Len(b.text) THEN [b EXCEPT !.pos = @ + n, !.at = @ + n] ELSE b
Edited(b, key) ==
  CASE key = "backspace" -> IF b.pos = 0 THEN b ELSE [MovedBy(b, -1) EXCEPT !.text = Without(@, b.pos - 1)]
    [] key = "del"  -> IF b.pos = Len(b.text) THEN b ELSE [b EXCEPT !.text = Without(@, b.pos)]
    [] key \in {"up", "right"}  -> MovedBy(b, 1)
    [] key \in {"down", "left"} -> MovedBy(b, -1)
    [] key = "home" -> [b EXCEPT !.pos = 0, !.at = 0]
    [] key = "end"  -> [b EXCEPT !.pos = Len(b.text), !.at = Len(b.text)]
    [] OTHER -> LET c == IF key = "space" THEN " " ELSE key
                IN [b EXCEPT !.text = With(@, b.pos, c), !.pos = @ + 1, !.at = @ + 1]
FormMoves == {"backspace", "del", "up", "down", "left", "right", "home", "end"}
FormKey(b, key) ==
  CASE key = "enter" -> Return(b, 0)
    [] key = "f1" -> Return(b, 1)
    [] key \in Leaves -> Return(b, KEY_EXIT)
    [] OTHER -> Stay(DrawField(Edited(b, key)))

-----------------------------------------------------------------------------
(* show_scroll_win: a text of total lines from line start on.              *)

show_scroll_win(total, lines) ==
  [kind |-> "scroll", total |-> total, start |-> 0,
   rows |-> LargerOf(SmallerOf(total + 4, lines - 2) - 4, 0)]
ScrolledTo(w, start) ==
  LET last == w.total - w.rows
      down == LargerOf(start, 0)
  IN Stay([w EXCEPT !.start = IF down >= last THEN last ELSE down])
ScrollKey(w, key) ==
  CASE key \in {"npage", "space", "d"} -> ScrolledTo(w, w.start + w.rows - 2)
    [] key \in {"ppage", "u"} -> ScrolledTo(w, w.start - (w.rows + 2))
    [] key = "home" -> ScrolledTo(w, 0)
    [] key = "end"  -> ScrolledTo(w, w.total - w.rows)
    [] key \in {"down", "j"} -> ScrolledTo(w, w.start + 1)
    [] key \in {"up", "k"}   -> ScrolledTo(w, w.start - 1)
    [] key \in {"enter", "q", "f1"} \cup Leaves -> Return(w, 0)
    [] OTHER -> Stay(w)

-----------------------------------------------------------------------------
(* A menu of ncurses: n items (from 0), the current one, the one in the    *)
(* top row, and how many are shown; room is how many the caller has room   *)
(* for (mwin_max_lines).                                                   *)

new_items(n, room) == [kind |-> "curses", n |-> n, cur |-> IF n = 0 THEN -1 ELSE 0, top |-> 0,
                       arows |-> SmallerOf(n, room), room |-> room]
set_top_row(m, row) ==
  IF row \in 0..m.n - m.arows /\ row # m.top THEN [m EXCEPT !.top = row, !.cur = row] ELSE m
CurrentUnseen(m, top, i) == [m EXCEPT !.cur = i, !.top = top]
\* An item becomes the current one, shown at or below this row.
Current(m, top, i) == [m EXCEPT !.cur = i, !.top = IF i < top THEN i ELSE LargerOf(top, i - m.arows + 1)]
set_current_item(m, i) == IF i \in 0..m.n - 1 THEN Current(m, m.top, i) ELSE m
menu_driver(m, key) ==
  LET down == SmallerOf(m.n - m.arows - m.top, m.arows)
      up   == SmallerOf(m.arows, m.top)
  IN CASE key = "up"    -> set_current_item(m, m.cur - 1)
       [] key = "down"  -> set_current_item(m, m.cur + 1)
       [] key = "npage" -> IF down <= 0 THEN m ELSE Current(m, m.top + down, SmallerOf(m.cur + down, m.n - 1))
       [] key = "ppage" -> IF up <= 0 THEN m ELSE Current(m, m.top - up, LargerOf(m.cur - up, 0))
       [] key = "home"  -> set_current_item(m, 0)
       [] key = "end"   -> set_current_item(m, m.n - 1)
MenuMoves == {"up", "down", "npage", "ppage", "home", "end"}

\* center_item (of nconf.c) and show_menu: the menu, and what *last_top_row becomes.
center_item(m, selected, last) ==
  LET at   == set_top_row(m, last)
      out  == selected < at.top \/ selected >= at.top + m.room
      half == LargerOf(selected - m.room \div 2, 0)
      row  == IF ~out THEN at.top ELSE IF half >= m.n - m.room THEN m.n - m.room ELSE half
  IN [d |-> set_current_item(set_top_row(at, row), selected), last |-> row]
show_menu(n, selected, last, room) == center_item(new_items(n, room), selected, last)

-----------------------------------------------------------------------------
(* What they should show, whatever they have been through.                 *)

\* The field shows the text around the cursor, and the cursor is in it.
FieldOnScreen(b) ==
  /\ b.at \in 0..b.width - 1 /\ b.pos \in b.at..Len(b.text)
  /\ b.cells = [i \in 0..b.width - 1 |-> LET p == b.pos - b.at + i
                                         IN IF p < Len(b.text) THEN CharAt(b.text, p) ELSE " "]
\* No row is wasted: the text ends at the end of the window or below it.
ScrollOnScreen(w) == w.start \in 0..w.total - w.rows
\* The current item is in a row, and so is some item in every row.
CursesOnScreen(m) ==
  m.n > 0 => m.top \in 0..m.n - m.arows /\ m.cur \in m.top..m.top + m.arows - 1
=============================================================================
