--------------------------- MODULE LxdialogProofs ---------------------------
(***************************************************************************)
(* What a dialog box of menuconfig shows is what it holds, for boxes of    *)
(* any size, any number of items and texts of any length, whatever keys    *)
(* are pressed.                                                            *)
(***************************************************************************)
EXTENDS NconfGui, SequenceTheorems, WellFoundedInduction, TLAPS

CONSTANT Key                                \* the keys of the terminal, letters among them
VARIABLES box,                              \* the box on the screen
          res,                              \* Again, or what its function returned
          lines                             \* of the terminal
vars == <<box, res, lines>>

\* A key is pressed while the box is open; what comes of it is out(lines').
Pressed(key) == /\ res = Again
                /\ IF key = "resize" THEN lines' \in Nat ELSE lines' = lines
Becomes(out) == box' = out.d /\ res' = out.res

-----------------------------------------------------------------------------
(* Least elements.                                                         *)

LEMMA LeastElement ==
  ASSUME NEW T, T \subseteq Nat, T # {}
  PROVE  Least(T) \in T /\ \A y \in T : Least(T) <= y
<1> DEFINE R == OpToRel(<, Nat)
<1>1. IsWellFoundedOn(R, Nat)
  BY NatLessThanWellFounded
<1>2. \A x, y \in Nat : y < x => <<y, x>> \in R
  BY DEF OpToRel
<1> HIDE DEF R
<1>3. PICK x \in T : \A y \in T : ~(<<y, x>> \in R)
  BY <1>1, WFMin
<1>4. \A y \in T : ~(y < x)
  BY <1>2, <1>3, Zenon
<1>5. x \in Nat /\ \A y \in T : y \in Nat
  OBVIOUS
<1>6. \A y \in Nat : ~(y < x) => x <= y
  BY <1>5
<1>7. \A y \in T : x <= y
  BY <1>4, <1>5, <1>6, Zenon
<1> QED BY <1>7, Zenon DEF Least


-----------------------------------------------------------------------------
(* Windows.                                                                *)

\* What a row of an item shows, and what PrintItem makes of the rows.
Plain(item) == [item |-> item, lit |-> FALSE]
Lit(item)   == [item |-> item, lit |-> TRUE]
Put(rows, row, cell) == [r \in DOMAIN rows |-> IF r = row THEN cell ELSE rows[r]]

\* A row of a painted window.
PaintedRow(max, first, choice, r) ==
  IF r < max THEN [item |-> first + r, lit |-> r = choice] ELSE Blank
LEMMA PaintedRows ==
  ASSUME NEW h, NEW max, NEW first, NEW choice
  PROVE  /\ Painted(h, max, first, choice) = [r \in 0..h - 1 |-> PaintedRow(max, first, choice, r)]
         /\ DOMAIN Painted(h, max, first, choice) = 0..h - 1
         /\ \A r \in 0..h - 1 :
              Painted(h, max, first, choice)[r] = PaintedRow(max, first, choice, r)
BY DEF Painted, PaintedRow

LEMMA PlainRow ==
  ASSUME NEW max \in Int, NEW first \in Int, NEW choice \in Int, NEW r \in Int, r < max, r # choice
  PROVE  PaintedRow(max, first, choice, r) = Plain(first + r)
<1>1. (r = choice) = FALSE
  OBVIOUS
<1> QED BY <1>1 DEF PaintedRow, Plain, Lit
LEMMA LitRow ==
  ASSUME NEW max \in Int, NEW first \in Int, NEW r \in Int, r < max
  PROVE  PaintedRow(max, first, r, r) = Lit(first + r)
<1>1. (r = r) = TRUE
  OBVIOUS
<1> QED BY <1>1 DEF PaintedRow, Plain, Lit
LEMMA BlankRow ==
  ASSUME NEW max \in Int, NEW first, NEW choice, NEW r \in Int, r >= max
  PROVE  PaintedRow(max, first, choice, r) = Blank
BY DEF PaintedRow

\* Printing a row again, lit or plain, changes that row and no other.
LEMMA Repainted ==
  ASSUME NEW h \in Nat, NEW max \in 0..h, NEW first \in Int, NEW row \in 0..max - 1,
         NEW old \in {row, -1}, NEW new \in {row, -1}, NEW cell,
         PaintedRow(max, first, new, row) = cell
  PROVE  Put(Painted(h, max, first, old), row, cell) = Painted(h, max, first, new)
<1>0. row # -1 /\ row \in Int
  OBVIOUS
<1>1. \A r \in 0..h - 1 : r # row => PaintedRow(max, first, old, r) = PaintedRow(max, first, new, r)
  <2> SUFFICES ASSUME NEW r \in 0..h - 1, r # row
               PROVE  PaintedRow(max, first, old, r) = PaintedRow(max, first, new, r)
    OBVIOUS
  <2>1. CASE r < max
    <3>1. /\ max \in Int /\ first \in Int /\ r \in Int /\ old \in Int /\ new \in Int
          /\ r # old /\ r # new
      BY <1>0
    <3>2. PaintedRow(max, first, old, r) = Plain(first + r)
      BY <2>1, <3>1, PlainRow
    <3>3. PaintedRow(max, first, new, r) = Plain(first + r)
      BY <2>1, <3>1, PlainRow
    <3> QED BY <3>2, <3>3
  <2>2. CASE r >= max
    <3>1. max \in Int /\ r \in Int
      OBVIOUS
    <3> QED BY <2>2, <3>1, BlankRow, Zenon
  <2>3. r < max \/ r >= max
    OBVIOUS
  <2> QED BY <2>1, <2>2, <2>3
<1> DEFINE rows == Painted(h, max, first, old)
           now(r) == PaintedRow(max, first, new, r)
<1>2. /\ DOMAIN rows = 0..h - 1
      /\ \A r \in 0..h - 1 : r # row => rows[r] = now(r)
  BY <1>1, PaintedRows
<1>3. Painted(h, max, first, new) = [r \in 0..h - 1 |-> now(r)]
  BY PaintedRows
<1>4. now(row) = cell
  OBVIOUS
<1> HIDE DEF rows, now
<1>5. Put(rows, row, cell) = [r \in 0..h - 1 |-> now(r)]
  BY <1>2, <1>4 DEF Put
<1> QED BY <1>3, <1>5 DEF rows
LEMMA Unlit ==
  ASSUME NEW h \in Nat, NEW max \in 0..h, NEW first \in Int, NEW row \in 0..max - 1
  PROVE  Put(Painted(h, max, first, row), row, Plain(first + row)) = Painted(h, max, first, -1)
<1>1. max \in Int /\ row \in Int /\ -1 \in Int /\ row < max /\ row # -1
  OBVIOUS
<1>2. PaintedRow(max, first, -1, row) = Plain(first + row)
  BY <1>1, PlainRow, ZenonT(30)
<1>3. row \in {row, -1} /\ -1 \in {row, -1}
  OBVIOUS
<1> QED BY <1>2, <1>3, Repainted, Zenon
LEMMA Relit ==
  ASSUME NEW h \in Nat, NEW max \in 0..h, NEW first \in Int, NEW row \in 0..max - 1
  PROVE  Put(Painted(h, max, first, -1), row, Lit(first + row)) = Painted(h, max, first, row)
<1>1. max \in Int /\ row \in Int /\ row < max
  OBVIOUS
<1>2. PaintedRow(max, first, row, row) = Lit(first + row)
  BY <1>1, LitRow, Zenon
<1>3. row \in {row, -1} /\ -1 \in {row, -1}
  OBVIOUS
<1> QED BY <1>2, <1>3, Repainted, Zenon

\* A full window that scrolls down by a row, or up, and has the new row printed.
LEMMA ScrolledUp ==
  ASSUME NEW h \in Nat \ {0}, NEW first \in Int
  PROVE  Put(Scrolled(Painted(h, h, first, -1), -1), 0, Plain(first - 1))
           = Painted(h, h, first - 1, -1)
<1>1. \A r \in 0..h - 1 : PaintedRow(h, first - 1, -1, r) = Plain(first - 1 + r)
  <2> TAKE r \in 0..h - 1
  <2>1. r # -1 /\ r < h /\ first - 1 \in Int
    OBVIOUS
  <2> QED BY <2>1, PlainRow
<1>2. \A r \in 0..h - 1 : r # 0 =>
        r + -1 \in 0..h - 1 /\ PaintedRow(h, first, -1, r + -1) = Plain(first - 1 + r)
  <2> SUFFICES ASSUME NEW r \in 0..h - 1, r # 0
               PROVE  /\ r + -1 \in 0..h - 1
                      /\ PaintedRow(h, first, -1, r + -1) = Plain(first - 1 + r)
    OBVIOUS
  <2>1. /\ r + -1 # -1 /\ r + -1 < h /\ first + (r + -1) = first - 1 + r
        /\ h \in Int /\ -1 \in Int /\ r + -1 \in Int /\ r + -1 \in 0..h - 1
    OBVIOUS
  <2> DEFINE q == r + -1
  <2>2. q \in Int /\ q # -1 /\ q < h
    BY <2>1
  <2> HIDE DEF q
  <2>3. PaintedRow(h, first, -1, q) = Plain(first + q)
    BY <2>1, <2>2, PlainRow
  <2> QED BY <2>1, <2>3 DEF q
<1>3. first - 1 + 0 = first - 1
  OBVIOUS
<1> DEFINE old == Painted(h, h, first, -1)
<1>4. DOMAIN old = 0..h - 1 /\ DOMAIN Scrolled(old, -1) = 0..h - 1
  BY PaintedRows DEF Scrolled
<1>5. \A r \in 0..h - 1 : r # 0 => Scrolled(old, -1)[r] = Plain(first - 1 + r)
  BY <1>2, <1>4, PaintedRows DEF Scrolled
<1> HIDE DEF old
<1>6. Put(Scrolled(old, -1), 0, Plain(first - 1))
        = [r \in 0..h - 1 |-> Plain(first - 1 + r)]
  BY <1>3, <1>4, <1>5 DEF Put
<1>7. Painted(h, h, first - 1, -1) = [r \in 0..h - 1 |-> Plain(first - 1 + r)]
  BY <1>1, PaintedRows
<1> QED BY <1>6, <1>7 DEF old
LEMMA ScrolledDown ==
  ASSUME NEW h \in Nat \ {0}, NEW first \in Int
  PROVE  Put(Scrolled(Painted(h, h, first, -1), 1), h - 1, Plain(first + h))
           = Painted(h, h, first + 1, -1)
<1>1. \A r \in 0..h - 1 : PaintedRow(h, first + 1, -1, r) = Plain(first + 1 + r)
  <2> TAKE r \in 0..h - 1
  <2>1. r # -1 /\ r < h /\ first + 1 \in Int
    OBVIOUS
  <2> QED BY <2>1, PlainRow
<1>2. \A r \in 0..h - 1 : r # h - 1 =>
        r + 1 \in 0..h - 1 /\ PaintedRow(h, first, -1, r + 1) = Plain(first + 1 + r)
  <2> SUFFICES ASSUME NEW r \in 0..h - 1, r # h - 1
               PROVE  /\ r + 1 \in 0..h - 1
                      /\ PaintedRow(h, first, -1, r + 1) = Plain(first + 1 + r)
    OBVIOUS
  <2>1. /\ r + 1 # -1 /\ r + 1 < h /\ first + (r + 1) = first + 1 + r
        /\ h \in Int /\ -1 \in Int /\ r + 1 \in Int /\ r + 1 \in 0..h - 1
    OBVIOUS
  <2> DEFINE q == r + 1
  <2>2. q \in Int /\ q # -1 /\ q < h
    BY <2>1
  <2> HIDE DEF q
  <2>3. PaintedRow(h, first, -1, q) = Plain(first + q)
    BY <2>1, <2>2, PlainRow
  <2> QED BY <2>1, <2>3 DEF q
<1>3. first + 1 + (h - 1) = first + h
  OBVIOUS
<1> DEFINE old == Painted(h, h, first, -1)
<1>4. DOMAIN old = 0..h - 1 /\ DOMAIN Scrolled(old, 1) = 0..h - 1
  BY PaintedRows DEF Scrolled
<1>5. \A r \in 0..h - 1 : r # h - 1 => Scrolled(old, 1)[r] = Plain(first + 1 + r)
  BY <1>2, <1>4, PaintedRows DEF Scrolled
<1> HIDE DEF old
<1>6. Put(Scrolled(old, 1), h - 1, Plain(first + h))
        = [r \in 0..h - 1 |-> Plain(first + 1 + r)]
  BY <1>3, <1>4, <1>5 DEF Put
<1>7. Painted(h, h, first + 1, -1) = [r \in 0..h - 1 |-> Plain(first + 1 + r)]
  BY <1>1, PaintedRows
<1> QED BY <1>6, <1>7 DEF old

\* What is printed last in a row is there.
LEMMA PutTwice ==
  ASSUME NEW rows, NEW row, NEW a, NEW b
  PROVE  Put(Put(rows, row, a), row, b) = Put(rows, row, b)
BY DEF Put
\* A window of one row is printed over.
LEMMA OneRow ==
  ASSUME NEW first \in Int, NEW now \in Int
  PROVE  Put(Painted(1, 1, first, 0), 0, Lit(now)) = Painted(1, 1, now, 0)
<1>1. PaintedRow(1, now, 0, 0) = Lit(now + 0) /\ now + 0 = now
  BY LitRow
<1>2. 0..1 - 1 = {0}
  OBVIOUS
<1> QED BY <1>1, <1>2, PaintedRows DEF Put

\* PrintItem changes the rows only.
LEMMA PrintPlain ==
  ASSUME NEW d, NEW item, NEW row
  PROVE  PrintItem(d, item, row, FALSE) = [d EXCEPT !.rows = Put(d.rows, row, Plain(item))]
BY DEF PrintItem, Put, Plain
LEMMA PrintLit ==
  ASSUME NEW d, NEW item, NEW row
  PROVE  PrintItem(d, item, row, TRUE) = [d EXCEPT !.rows = Put(d.rows, row, Lit(item))]
BY DEF PrintItem, Put, Lit

-----------------------------------------------------------------------------
(* The checklist.                                                          *)

ListBox(hot, rows) ==
  [kind : {"list"}, count : Nat \ {0}, hot : {hot}, choice : Int, size : Nat \ {0},
   scroll : Int, max : Int, button : Int, rows : {rows}]
ListIn(c) ==
  /\ c \in ListBox(c.hot, c.rows)
  /\ c.max = SmallerOf(c.size, c.count)
  /\ c.scroll \in 0..c.count - c.max
  /\ c.choice \in 0..c.max - 1
  /\ c.rows = Painted(c.size, c.max, c.scroll, c.choice)

LEMMA ListLaid ==
  ASSUME NEW c, c \in ListBox(c.hot, c.rows), c.scroll = 0, c.choice \in 0..c.count - 1
  PROVE  ListIn(LayList(c))
<1> DEFINE max    == SmallerOf(c.size, c.count)
           over   == LargerOf(c.choice - c.size + 1, 0)
           scroll == IF over > 0 THEN over ELSE c.scroll
           rows   == Painted(c.size, max, scroll, c.choice - over)
<1>1. /\ max \in Int /\ scroll \in 0..c.count - max /\ c.choice - over \in 0..max - 1
      /\ scroll \in Int /\ c.choice - over \in Int
  BY DEF ListBox, SmallerOf, LargerOf
<1>3. LayList(c) = [c EXCEPT !.max = max, !.scroll = scroll, !.choice = c.choice - over, !.rows = rows]
  BY DEF LayList
<1> HIDE DEF max, over, scroll, rows
<1>4. LayList(c) \in ListBox(c.hot, rows)
  BY <1>1, <1>3 DEF ListBox
<1>5. /\ LayList(c).hot = c.hot /\ LayList(c).size = c.size /\ LayList(c).count = c.count
      /\ LayList(c).max = max /\ LayList(c).scroll = scroll
      /\ LayList(c).choice = c.choice - over /\ LayList(c).rows = rows
  BY <1>3 DEF ListBox
<1> QED BY <1>1, <1>4, <1>5 DEF ListIn, max, rows

\* The highlight moves to another row.
LEMMA ListGoes ==
  ASSUME NEW c, ListIn(c), NEW row \in 0..c.max - 1
  PROVE  ListIn(ListTo(c, row))
<1>0. CASE row = c.choice
  BY <1>0 DEF ListTo
<1>1. CASE row # c.choice
  <2> DEFINE rows == Painted(c.size, c.max, c.scroll, row)
             plain == Put(c.rows, c.choice, Plain(c.scroll + c.choice))
  <2>1. /\ c.size \in Nat /\ c.max \in 0..c.size /\ c.scroll \in Int /\ c.choice \in 0..c.max - 1
        /\ c \in ListBox(c.hot, c.rows) /\ row \in Int /\ c.max \in Int
    BY DEF ListIn, ListBox, SmallerOf
  <2>2. plain = Painted(c.size, c.max, c.scroll, -1)
    BY <2>1, Unlit DEF ListIn
  <2>3. Put(plain, row, Lit(c.scroll + row)) = rows
    BY <2>1, <2>2, Relit
  <2> HIDE DEF rows
  <2>5. PrintItem(c, c.scroll + c.choice, c.choice, FALSE) = [c EXCEPT !.rows = plain]
    BY PrintPlain
  <2> DEFINE d == [c EXCEPT !.rows = plain]
  <2> HIDE DEF plain
  <2>6. d.rows = plain
    BY <2>1 DEF ListBox
  <2>7. ListTo(c, row) = [PrintItem(d, c.scroll + row, row, TRUE) EXCEPT !.choice = row]
    BY <1>1, <2>5 DEF ListTo
  <2> HIDE DEF d
  <2>8. PrintItem(d, c.scroll + row, row, TRUE) = [d EXCEPT !.rows = rows]
    BY <2>3, <2>6, PrintLit
  <2>9. /\ ListTo(c, row) \in ListBox(c.hot, rows)
        /\ ListTo(c, row).hot = c.hot /\ ListTo(c, row).size = c.size /\ ListTo(c, row).count = c.count
        /\ ListTo(c, row).max = c.max /\ ListTo(c, row).scroll = c.scroll
        /\ ListTo(c, row).choice = row /\ ListTo(c, row).rows = rows
    <3> DEFINE f == [d EXCEPT !.rows = rows]
               g == [f EXCEPT !.choice = row]
    <3>1. ListTo(c, row) = g
      BY <2>7, <2>8
    <3>2. /\ f \in ListBox(c.hot, rows) /\ f.hot = c.hot /\ f.size = c.size /\ f.count = c.count
          /\ f.max = c.max /\ f.scroll = c.scroll /\ f.rows = rows
      BY <2>1 DEF ListBox, d
    <3> HIDE DEF f
    <3>3. /\ g \in ListBox(c.hot, rows) /\ g.hot = c.hot /\ g.size = c.size /\ g.count = c.count
          /\ g.max = c.max /\ g.scroll = c.scroll /\ g.choice = row /\ g.rows = rows
      BY <2>1, <3>2 DEF ListBox
    <3> HIDE DEF g
    <3> QED BY <3>1, <3>3
  <2> QED BY <2>9 DEF ListIn, rows
<1> QED BY <1>0, <1>1

\* The list scrolls by a row under the highlight.
LEMMA ListScrolls ==
  ASSUME NEW c, ListIn(c), NEW at, NEW n \in {-1, 1},
         at = c.choice,
         \/ n = -1 /\ c.choice = 0 /\ c.scroll > 0
         \/ n = 1 /\ c.choice = c.max - 1 /\ c.scroll + c.choice < c.count - 1
  PROVE  ListIn(ListScroll(c, at, n))
<1> DEFINE h     == c.size
           plain == Put(c.rows, at, Plain(c.scroll + at))
           moved == IF h > 1 THEN Scrolled(plain, n) ELSE c.rows
           rows  == Painted(h, h, c.scroll + n, at)
<1>1. /\ c \in ListBox(c.hot, c.rows) /\ h \in Nat \ {0} /\ c.max = h /\ c.scroll \in Int /\ at \in 0..h - 1
      /\ c.scroll + n \in 0..c.count - h /\ c.scroll + n \in Int /\ h \in Int /\ at \in Int
      /\ h \in 0..h
  BY DEF ListIn, ListBox, SmallerOf
<1>2. c.rows = Painted(h, h, c.scroll, at)
  BY <1>1 DEF ListIn
<1>3. plain = Painted(h, h, c.scroll, -1)
  <2>1. Put(Painted(h, h, c.scroll, at), at, Plain(c.scroll + at)) = Painted(h, h, c.scroll, -1)
    <3> HIDE DEF h
    <3>1. h \in Nat
      BY <1>1
    <3> QED BY <1>1, <3>1, Unlit, Zenon
  <2> QED BY <1>2, <2>1
<1>4. Put(moved, at, Lit(c.scroll + n + at)) = rows
  <2> DEFINE new == Painted(h, h, c.scroll + n, -1)
             cell == Lit(c.scroll + n + at)
  <2>1. Put(new, at, cell) = rows
    BY <1>1, Relit
  <2>2. CASE h > 1
    <3>1. Put(Scrolled(plain, n), at, Plain(c.scroll + n + at)) = new
      <4>1. CASE n = -1
        <5>1. at = 0 /\ c.scroll + n = c.scroll - 1 /\ c.scroll + n + at = c.scroll - 1
          BY <1>1, <4>1
        <5> QED BY <1>1, <1>3, <4>1, <5>1, ScrolledUp
      <4>2. CASE n = 1
        <5>1. at = h - 1 /\ c.scroll + n = c.scroll + 1 /\ c.scroll + n + at = c.scroll + h
          BY <1>1, <4>2
        <5> QED BY <1>1, <1>3, <4>2, <5>1, ScrolledDown
      <4> QED BY <4>1, <4>2
    <3> HIDE DEF plain, new, cell, rows
    <3>2. Put(Scrolled(plain, n), at, cell) = rows
      BY <2>1, <3>1, PutTwice
    <3> QED BY <2>2, <3>2 DEF cell
  <2>3. CASE h = 1
    <3>1. at = 0 /\ ~(h > 1) /\ c.scroll + n + at = c.scroll + n
      BY <1>1, <2>3
    <3>2. moved = c.rows
      BY <3>1
    <3>3. /\ c.rows = Painted(1, 1, c.scroll, 0)
          /\ rows = Painted(1, 1, c.scroll + n, 0)
      BY <1>2, <2>3, <3>1
    <3> HIDE DEF moved, rows
    <3> QED BY <1>1, <3>1, <3>2, <3>3, OneRow
  <2> QED BY <1>1, <2>2, <2>3
<1>6. PrintItem(c, c.scroll + at, at, FALSE) = [c EXCEPT !.rows = plain]
  BY PrintPlain
<1>7. PrintItem(c, c.scroll + at, at, FALSE).rows = plain
  BY <1>1, <1>6 DEF ListBox
<1> DEFINE d == [c EXCEPT !.scroll = c.scroll + n, !.rows = moved]
<1>8. ListScroll(c, at, n) = PrintItem(d, c.scroll + n + at, at, TRUE)
  BY <1>7 DEF ListScroll
<1> HIDE DEF h, plain, moved, rows
<1>9. d.rows = moved
  BY <1>1 DEF ListBox
<1> HIDE DEF d
<1>10. ListScroll(c, at, n) = [d EXCEPT !.rows = rows]
  <2> DEFINE item == c.scroll + n + at
  <2>1. /\ Put(d.rows, at, Lit(item)) = rows
        /\ ListScroll(c, at, n) = PrintItem(d, item, at, TRUE)
    BY <1>4, <1>8, <1>9
  <2> HIDE DEF item
  <2> QED BY <2>1, PrintLit
<1>11. /\ ListScroll(c, at, n) \in ListBox(c.hot, rows)
       /\ ListScroll(c, at, n).hot = c.hot /\ ListScroll(c, at, n).size = c.size /\ ListScroll(c, at, n).count = c.count
       /\ ListScroll(c, at, n).max = c.max /\ ListScroll(c, at, n).scroll = c.scroll + n
       /\ ListScroll(c, at, n).choice = c.choice /\ ListScroll(c, at, n).rows = rows
  BY <1>1, <1>10 DEF ListBox, d
<1> QED BY <1>1, <1>11 DEF ListIn, rows, h

LEMMA ListRowIn ==
  ASSUME NEW c, NEW key, c.max \in Nat
  PROVE  ListRow(c, key) \in 0..c.max
<1> DEFINE all == {i \in 0..c.max - 1 : c.hot[c.scroll + i] = key}
<1>1. all \subseteq Nat /\ all \subseteq 0..c.max - 1
  OBVIOUS
<1>2. ListRow(c, key) = IF all = {} THEN c.max ELSE Least(all)
  BY DEF ListRow
<1> HIDE DEF all
<1>3. CASE all = {}
  BY <1>2, <1>3
<1>4. CASE all # {}
  <2>1. Least(all) \in all
    BY <1>1, <1>4, LeastElement
  <2>2. Least(all) \in 0..c.max - 1
    BY <1>1, <2>1
  <2>3. ListRow(c, key) = Least(all)
    BY <1>2, <1>4
  <2> HIDE DEF all
  <2> QED BY <2>2, <2>3
<1> QED BY <1>3, <1>4

LEMMA ListMoves ==
  ASSUME NEW c, ListIn(c), NEW key, key \in {"up", "down"} \/ ListRow(c, key) < c.max
  PROVE  ListIn(ListMove(c, key))
<1>1. /\ c.max \in Nat \ {0} /\ c.choice \in 0..c.max - 1 /\ c.scroll \in 0..c.count - c.max
      /\ c.count \in Nat
  BY DEF ListIn, ListBox, SmallerOf
<1>2. CASE key = "up" /\ c.choice = 0
  <2>1. ListMove(c, key) = IF c.scroll = 0 THEN c ELSE ListScroll(c, 0, -1)
    BY <1>2 DEF ListMove
  <2>2. c.scroll # 0 => c.scroll > 0
    BY <1>1
  <2> QED BY <1>2, <2>1, <2>2, ListScrolls
<1>3. CASE key = "up" /\ c.choice # 0
  <2>1. ListMove(c, key) = ListTo(c, c.choice - 1) /\ c.choice - 1 \in 0..c.max - 1
    BY <1>1, <1>3 DEF ListMove
  <2> QED BY <2>1, ListGoes
<1>4. CASE key = "down" /\ c.choice = c.max - 1
  <2>1. ListMove(c, key) =
          IF c.scroll + c.choice >= c.count - 1 THEN c ELSE ListScroll(c, c.max - 1, 1)
    BY <1>4 DEF ListMove
  <2>2. ~(c.scroll + c.choice >= c.count - 1) => c.scroll + c.choice < c.count - 1
    BY <1>1
  <2> QED BY <1>4, <2>1, <2>2, ListScrolls
<1>5. CASE key = "down" /\ c.choice # c.max - 1
  <2>1. ListMove(c, key) = ListTo(c, c.choice + 1) /\ c.choice + 1 \in 0..c.max - 1
    BY <1>1, <1>5 DEF ListMove
  <2> QED BY <2>1, ListGoes
<1>6. CASE key \notin {"up", "down"}
  <2>1. ListMove(c, key) = ListTo(c, ListRow(c, key))
    BY <1>6 DEF ListMove
  <2>2. ListRow(c, key) \in 0..c.max - 1
    BY <1>1, <1>6, ListRowIn
  <2> QED BY <2>1, <2>2, ListGoes
<1> QED BY <1>2, <1>3, <1>4, <1>5, <1>6

LEMMA ListAnswers ==
  ASSUME NEW c, ListIn(c), NEW key, NEW l
  PROVE  ListIn(ListKey(c, key, l).d)
<1>1. c.max \in Nat /\ c \in ListBox(c.hot, c.rows)
  BY DEF ListIn, ListBox, SmallerOf
<1>2. CASE key \in {"up", "down"} \/ ListRow(c, key) < c.max
  <2>1. ListKey(c, key, l) = Stay(ListMove(c, key))
    BY <1>2 DEF ListKey
  <2> QED BY <1>2, <2>1, ListMoves DEF Stay
<1>3. CASE ~(key \in {"up", "down"} \/ ListRow(c, key) < c.max)
  <2>1. ListRow(c, key) = c.max
    BY <1>1, <1>3, ListRowIn
  <2> DEFINE turned == [c EXCEPT !.button = Button(@, key, 2)]
  <2>2. ListKey(c, key, l).d \in {c, turned, LayList(c)}
    BY <1>3, <2>1 DEF ListKey, Stay, Return
  <2>3. ListIn(turned)
    <3>1. Button(c.button, key, 2) \in Int
      BY <1>1 DEF Button, ListBox
    <3>2. /\ turned \in ListBox(c.hot, c.rows) /\ turned.hot = c.hot /\ turned.rows = c.rows
          /\ turned.size = c.size /\ turned.count = c.count /\ turned.max = c.max
          /\ turned.scroll = c.scroll /\ turned.choice = c.choice
      BY <1>1, <3>1 DEF ListBox
    <3> HIDE DEF turned
    <3> QED BY <3>2 DEF ListIn
  <2>4. ListIn(LayList(c))
    <3> DEFINE rows == Painted(c.size, c.max, c.scroll, c.choice)
    <3>1. LayList(c) = [c EXCEPT !.max = c.max, !.scroll = c.scroll, !.choice = c.choice, !.rows = rows]
      <4>1. LargerOf(c.choice - c.size + 1, 0) = 0 /\ c.choice - 0 = c.choice
        BY <1>1 DEF ListIn, ListBox, SmallerOf, LargerOf
      <4>2. ~(0 > 0)
        OBVIOUS
      <4>3. c.max = SmallerOf(c.size, c.count)
        BY DEF ListIn
      <4> QED BY <4>1, <4>2, <4>3 DEF LayList
    <3>2. rows = c.rows
      BY DEF ListIn
    <3> QED BY <1>1, <3>1, <3>2 DEF ListIn, ListBox
  <2> QED BY <2>2, <2>3, <2>4
<1> QED BY <1>2, <1>3

\* A checklist from its opening on.
ListInit ==
  /\ \E count, size \in Nat \ {0} : \E hot \in [0..count - 1 -> Key], choice \in 0..count - 1 :
       box = dialog_checklist(count, hot, choice, size)
  /\ res = Again
  /\ lines \in Nat
ListNext == \E key \in Key : Pressed(key) /\ Becomes(ListKey(box, key, lines'))
ListSpec == ListInit /\ [][ListNext]_vars

\* A checklist shows what it holds, whatever keys are pressed and however often
\* the terminal changes its size: the rows are the items from scroll on, and the
\* one that is lit is the one the caller is told (checklist.c patches its rows).
THEOREM ListShows == ListSpec => []MenuOnScreen(box)
<1>1. ListInit => ListIn(box)
  <2> SUFFICES ASSUME NEW count \in Nat \ {0}, NEW size \in Nat \ {0},
                      NEW hot \in [0..count - 1 -> Key], NEW choice \in 0..count - 1,
                      box = dialog_checklist(count, hot, choice, size)
               PROVE  ListIn(box)
    BY DEF ListInit
  <2> DEFINE c == [kind |-> "list", count |-> count, hot |-> hot, choice |-> choice, size |-> size,
                   scroll |-> 0, max |-> 0, button |-> 0, rows |-> <<>>]
  <2>1. c \in ListBox(c.hot, c.rows) /\ c.scroll = 0 /\ c.choice \in 0..c.count - 1
    BY DEF ListBox
  <2>2. box = LayList(c)
    BY DEF dialog_checklist
  <2> HIDE DEF c
  <2> QED BY <2>1, <2>2, ListLaid
<1>2. ListIn(box) /\ [ListNext]_vars => ListIn(box)'
  BY ListAnswers DEF ListNext, Becomes, vars
<1>3. ListIn(box) => MenuOnScreen(box)
  <2> SUFFICES ASSUME ListIn(box) PROVE MenuOnScreen(box)
    OBVIOUS
  <2>1. DOMAIN box.rows = 0..box.size - 1
    BY PaintedRows DEF ListIn
  <2>2. RowsOf(box) = Painted(box.size, box.max, box.scroll, box.choice)
    BY <2>1 DEF RowsOf, Painted
  <2>3. box.scroll + box.choice \in 0..box.count - 1
    BY DEF ListIn, ListBox, SmallerOf
  <2> QED BY <2>2, <2>3 DEF MenuOnScreen, MenuItem, ListIn
<1> QED BY <1>1, <1>2, <1>3, PTL DEF ListSpec

-----------------------------------------------------------------------------
(* The menu.                                                               *)

MenuBox(hot, rows) ==
  [kind : {"menu"}, count : Nat \ {0}, hot : {hot}, selected : Int, saved : Int, first : Int,
   scroll : Int, choice : Int, max : Int, button : Int, stale : BOOLEAN, rows : {rows}]
\* A menu of h rows whose row lit is lit.
MenuIn(m, h, lit) ==
  /\ m \in MenuBox(m.hot, m.rows)
  /\ m.max = SmallerOf(h, m.count)
  /\ m.scroll \in 0..m.count - m.max
  /\ m.choice \in 0..m.max - 1
  /\ m.stale \/ m.rows = Painted(h, m.max, m.scroll, lit)
\* What no key but a resize changes.
Same(m, b) ==
  /\ m.count = b.count /\ m.selected = b.selected /\ m.saved = b.saved
  /\ m.first = b.first /\ m.max = b.max /\ m.stale = b.stale
Moving(m, h, b) == MenuIn(m, h, -1) /\ Same(m, b)

LEMMA MenuNumbers ==
  ASSUME NEW h \in Nat \ {0}, NEW m, NEW lit, MenuIn(m, h, lit)
  PROVE  /\ m.count \in Nat \ {0} /\ m.max \in 1..m.count /\ m.max \in 1..h /\ m.max \in Int
         /\ m.scroll \in Int /\ m.choice \in Int /\ m.scroll \in Nat /\ m.choice \in 0..m.max - 1
         /\ m.scroll <= m.count - m.max
         /\ m.max < m.count => m.max = h
BY DEF MenuIn, MenuBox, SmallerOf

\* Another row is chosen and none is printed.
LEMMA ChoiceOnly ==
  ASSUME NEW h, NEW m, NEW b, Moving(m, h, b), NEW row \in 0..m.max - 1, m.max \in Int
  PROVE  Moving([m EXCEPT !.choice = row], h, b)
<1> DEFINE n == [m EXCEPT !.choice = row]
<1>1. row \in Int
  OBVIOUS
<1>2. /\ n \in MenuBox(m.hot, m.rows) /\ n.hot = m.hot /\ n.rows = m.rows
      /\ n.max = m.max /\ n.count = m.count /\ n.scroll = m.scroll /\ n.choice = row
      /\ n.selected = m.selected /\ n.saved = m.saved /\ n.first = m.first /\ n.stale = m.stale
  BY <1>1 DEF Moving, MenuIn, MenuBox
<1> HIDE DEF n
<1>3. Moving(n, h, b)
  BY <1>2 DEF Moving, MenuIn, Same
<1> QED BY <1>3 DEF n

\* The items scroll by one.
LEMMA ScrollsUp ==
  ASSUME NEW h \in Nat \ {0}, NEW m, NEW b, Moving(m, h, b), m.scroll > 0
  PROVE  Moving(PrintItem(do_scroll(m, -1), m.scroll - 1, 0, FALSE), h, b)
<1> DEFINE d == do_scroll(m, -1)
           n == PrintItem(d, m.scroll - 1, 0, FALSE)
           rows == Put(Scrolled(m.rows, -1), 0, Plain(m.scroll - 1))
<1>0. MenuIn(m, h, -1)
  BY DEF Moving
<1>1. /\ m.max = h /\ m.scroll \in Int /\ m.scroll - 1 \in 0..m.count - m.max /\ m.scroll - 1 \in Int
      /\ m.scroll + -1 = m.scroll - 1
  BY <1>0, MenuNumbers
<1>2. m \in MenuBox(m.hot, m.rows) /\ (m.stale \/ m.rows = Painted(h, m.max, m.scroll, -1))
  BY <1>0 DEF MenuIn
<1>3. m.stale \/ rows = Painted(h, m.max, m.scroll - 1, -1)
  BY <1>1, <1>2, ScrolledUp
<1> HIDE DEF rows
<1>4. d = [m EXCEPT !.scroll = m.scroll - 1, !.rows = Scrolled(m.rows, -1)]
  BY <1>1 DEF do_scroll
<1>5. d.rows = Scrolled(m.rows, -1)
  BY <1>2, <1>4 DEF MenuBox
<1> HIDE DEF d
<1>6. n = [d EXCEPT !.rows = rows]
  <2> DEFINE item == m.scroll - 1
  <2>1. Put(d.rows, 0, Plain(item)) = rows
    BY <1>5 DEF rows
  <2> HIDE DEF item
  <2>2. PrintItem(d, item, 0, FALSE) = [d EXCEPT !.rows = rows]
    BY <2>1, PrintPlain
  <2> QED BY <2>2 DEF item
<1> HIDE DEF n
<1>7. /\ n \in MenuBox(m.hot, rows) /\ n.hot = m.hot /\ n.rows = rows
      /\ n.max = m.max /\ n.count = m.count /\ n.scroll = m.scroll - 1 /\ n.choice = m.choice
      /\ n.selected = m.selected /\ n.saved = m.saved /\ n.first = m.first /\ n.stale = m.stale
  BY <1>1, <1>2, <1>4, <1>6 DEF MenuBox
<1>8. Moving(n, h, b)
  BY <1>1, <1>3, <1>7 DEF Moving, MenuIn, Same
<1> QED BY <1>8 DEF n, d
LEMMA ScrollsDown ==
  ASSUME NEW h \in Nat \ {0}, NEW m, NEW b, Moving(m, h, b), m.scroll + m.max < m.count
  PROVE  Moving(PrintItem(do_scroll(m, 1), m.scroll + m.max, m.max - 1, FALSE), h, b)
<1> DEFINE d == do_scroll(m, 1)
           n == PrintItem(d, m.scroll + m.max, m.max - 1, FALSE)
           rows == Put(Scrolled(m.rows, 1), m.max - 1, Plain(m.scroll + m.max))
<1>0. MenuIn(m, h, -1)
  BY DEF Moving
<1>1. /\ m.max = h /\ m.scroll \in Int /\ m.scroll + 1 \in 0..m.count - m.max /\ m.scroll + 1 \in Int
  BY <1>0, MenuNumbers
<1>2. m \in MenuBox(m.hot, m.rows) /\ (m.stale \/ m.rows = Painted(h, m.max, m.scroll, -1))
  BY <1>0 DEF MenuIn
<1>3. m.stale \/ rows = Painted(h, m.max, m.scroll + 1, -1)
  BY <1>1, <1>2, ScrolledDown
<1> HIDE DEF rows
<1>4. d = [m EXCEPT !.scroll = m.scroll + 1, !.rows = Scrolled(m.rows, 1)]
  BY DEF do_scroll
<1>5. d.rows = Scrolled(m.rows, 1)
  BY <1>2, <1>4 DEF MenuBox
<1> HIDE DEF d
<1>6. n = [d EXCEPT !.rows = rows]
  <2> DEFINE item == m.scroll + m.max
             row == m.max - 1
  <2>1. Put(d.rows, row, Plain(item)) = rows
    BY <1>5 DEF rows
  <2> HIDE DEF item, row
  <2>2. PrintItem(d, item, row, FALSE) = [d EXCEPT !.rows = rows]
    BY <2>1, PrintPlain
  <2> QED BY <2>2 DEF item, row
<1> HIDE DEF n
<1>7. /\ n \in MenuBox(m.hot, rows) /\ n.hot = m.hot /\ n.rows = rows
      /\ n.max = m.max /\ n.count = m.count /\ n.scroll = m.scroll + 1 /\ n.choice = m.choice
      /\ n.selected = m.selected /\ n.saved = m.saved /\ n.first = m.first /\ n.stale = m.stale
  BY <1>1, <1>2, <1>4, <1>6 DEF MenuBox
<1>8. Moving(n, h, b)
  BY <1>1, <1>3, <1>7 DEF Moving, MenuIn, Same
<1> QED BY <1>8 DEF n, d

\* A turn of the loop of a page key: the one of <Page Up>, or of <Page Down>.
PageTurn(key, m) == IF key = "ppage" THEN PageUpTurn(m) ELSE PageDownTurn(m)
LEMMA OneTurn ==
  ASSUME NEW h \in Nat \ {0}, NEW m, NEW b, Moving(m, h, b), NEW key
  PROVE  Moving(PageTurn(key, m), h, b)
<1>1. /\ m.max \in Nat \ {0} /\ m.scroll \in Nat /\ m.choice \in 0..m.max - 1 /\ m.count \in Nat
      /\ m.max \in Int
  BY MenuNumbers DEF Moving
<1>2. Moving(PageUpTurn(m), h, b)
  <2>1. CASE m.scroll > 0
    BY <2>1, ScrollsUp DEF PageUpTurn
  <2>2. CASE ~(m.scroll > 0)
    <3> DEFINE row == IF m.choice > 0 THEN m.choice - 1 ELSE m.choice
    <3>1. row \in 0..m.max - 1
      BY <1>1
    <3>2. PageUpTurn(m) = [m EXCEPT !.choice = row]
      BY <2>2 DEF PageUpTurn
    <3> HIDE DEF row
    <3> QED BY <1>1, <3>1, <3>2, ChoiceOnly
  <2> QED BY <2>1, <2>2
<1>3. Moving(PageDownTurn(m), h, b)
  <2>1. CASE m.scroll + m.max < m.count
    BY <2>1, ScrollsDown DEF PageDownTurn
  <2>2. CASE ~(m.scroll + m.max < m.count)
    <3> DEFINE row == IF m.choice + 1 < m.max THEN m.choice + 1 ELSE m.choice
    <3>1. row \in 0..m.max - 1
      BY <1>1
    <3>2. PageDownTurn(m) = [m EXCEPT !.choice = row]
      BY <2>2 DEF PageDownTurn
    <3> HIDE DEF row
    <3> QED BY <1>1, <3>1, <3>2, ChoiceOnly
  <2> QED BY <2>1, <2>2
<1> QED BY <1>2, <1>3 DEF PageTurn

\* The turns g of the loop, n of them: there are such, by the least n for which
\* there were none.
IsTurns(key, m, n, g) == g = [i \in 0..n |-> IF i = 0 THEN m ELSE PageTurn(key, g[i - 1])]
LEMMA TurnsExist ==
  ASSUME NEW key, NEW m, NEW n \in Nat
  PROVE  \E g : IsTurns(key, m, n, g)
<1> DEFINE T == {k \in Nat : ~ \E g : IsTurns(key, m, k, g)}
<1>1. SUFFICES ASSUME T # {} PROVE FALSE
  OBVIOUS
<1>2. PICK k \in T : \A j \in T : k <= j
  BY <1>1, LeastElement
<1>3. CASE k = 0
  <2> DEFINE g == [i \in 0..0 |-> m]
  <2>1. g = [i \in 0..0 |-> IF i = 0 THEN m ELSE PageTurn(key, g[i - 1])]
    OBVIOUS
  <2> HIDE DEF g
  <2>2. IsTurns(key, m, 0, g)
    BY <2>1 DEF IsTurns
  <2> QED BY <1>2, <1>3, <2>2
<1>4. CASE k # 0
  <2>1. k - 1 \in Nat /\ k - 1 \notin T /\ k \in Nat \ {0}
    BY <1>2, <1>4
  <2>2. PICK f : IsTurns(key, m, k - 1, f)
    BY <2>1
  <2>3. /\ f = [i \in 0..k - 1 |-> IF i = 0 THEN m ELSE PageTurn(key, f[i - 1])]
    BY <2>2 DEF IsTurns
  <2> DEFINE g == [i \in 0..k |-> IF i = k THEN PageTurn(key, f[k - 1]) ELSE f[i]]
  <2>4. \A i \in 0..k : g[i] = IF i = 0 THEN m ELSE PageTurn(key, g[i - 1])
    <3> TAKE i \in 0..k
    <3>1. CASE i = 0
      <4>1. f[0] = m /\ 0 # k
        BY <2>1, <2>3
      <4> QED BY <2>1, <3>1, <4>1
    <3>2. CASE i # 0
      <4>1. i - 1 \in 0..k - 1 /\ i - 1 # k /\ i - 1 \in 0..k
        BY <2>1, <3>2
      <4>2. g[i - 1] = f[i - 1]
        BY <4>1
      <4>3. i # k => f[i] = PageTurn(key, f[i - 1])
        BY <2>1, <2>3, <3>2
      <4>4. g[i] = IF i = k THEN PageTurn(key, f[k - 1]) ELSE f[i]
        OBVIOUS
      <4> HIDE DEF g
      <4> QED BY <3>2, <4>2, <4>3, <4>4
    <3> QED BY <3>1, <3>2
  <2>5. g = [i \in 0..k |-> g[i]]
    OBVIOUS
  <2> HIDE DEF g
  <2>6. IsTurns(key, m, k, g)
    BY <2>4, <2>5 DEF IsTurns
  <2> QED BY <1>2, <2>6
<1> QED BY <1>3, <1>4

\* Each turn leaves the menu as it should be: there is no first that does not.
LEMMA ManyTurns ==
  ASSUME NEW h \in Nat \ {0}, NEW m, NEW b, Moving(m, h, b), NEW key, NEW n \in Nat, NEW g,
         IsTurns(key, m, n, g)
  PROVE  Moving(g[n], h, b)
<1> DEFINE T == {i \in 0..n : ~Moving(g[i], h, b)}
<1>1. SUFFICES ASSUME T # {} PROVE FALSE
  OBVIOUS
<1>2. PICK i \in T : \A j \in T : i <= j
  <2>1. T \subseteq Nat
    OBVIOUS
  <2> HIDE DEF T
  <2> QED BY <1>1, <2>1, LeastElement
<1>3. g[i] = IF i = 0 THEN m ELSE PageTurn(key, g[i - 1])
  BY DEF IsTurns
<1>4. i # 0
  BY <1>3
<1>5. i - 1 \in 0..n /\ i - 1 \notin T
  BY <1>2, <1>4
<1>6. Moving(g[i - 1], h, b)
  BY <1>5
<1>7. Moving(g[i], h, b)
  BY <1>3, <1>4, <1>6, OneTurn
<1> QED BY <1>7

LEMMA Pages ==
  ASSUME NEW h \in Nat \ {0}, NEW m, NEW b, Moving(m, h, b)
  PROVE  Moving(MenuPageUp(m), h, b) /\ Moving(MenuPageDown(m), h, b)
<1>1. m.max \in Nat
  BY MenuNumbers DEF Moving
<1>2. Moving(MenuPageUp(m), h, b)
  <2> DEFINE g == CHOOSE g : g = [i \in 0..m.max |-> IF i = 0 THEN m ELSE PageUpTurn(g[i - 1])]
  <2>1. \A f : IsTurns("ppage", m, m.max, f) <=>
                 f = [i \in 0..m.max |-> IF i = 0 THEN m ELSE PageUpTurn(f[i - 1])]
    BY DEF IsTurns, PageTurn
  <2>2. IsTurns("ppage", m, m.max, g)
    BY <1>1, <2>1, TurnsExist
  <2>3. MenuPageUp(m) = g[m.max]
    BY DEF MenuPageUp
  <2> HIDE DEF g
  <2> QED BY <1>1, <2>2, <2>3, ManyTurns
<1>3. Moving(MenuPageDown(m), h, b)
  <2> DEFINE g == CHOOSE g : g = [i \in 0..m.max |-> IF i = 0 THEN m ELSE PageDownTurn(g[i - 1])]
  <2>1. \A f : IsTurns("npage", m, m.max, f) <=>
                 f = [i \in 0..m.max |-> IF i = 0 THEN m ELSE PageDownTurn(f[i - 1])]
    BY DEF IsTurns, PageTurn
  <2>2. IsTurns("npage", m, m.max, g)
    BY <1>1, <2>1, TurnsExist
  <2>3. MenuPageDown(m) = g[m.max]
    BY DEF MenuPageDown
  <2> HIDE DEF g
  <2> QED BY <1>1, <2>2, <2>3, ManyTurns
<1> QED BY <1>2, <1>3

\* The row a letter leads to is one of the menu.
LEMMA HotRowIn ==
  ASSUME NEW m, NEW key, m.max \in Nat
  PROVE  HotRow(m, key) \in 0..m.max
<1> DEFINE all   == {i \in 0..m.max - 1 : m.hot[m.scroll + i] = key}
           after == {i \in all : i > m.choice}
           rows  == IF after = {} THEN all ELSE after
<1>1. /\ rows \subseteq Nat /\ rows \subseteq 0..m.max - 1
      /\ all # {} => rows # {}
  OBVIOUS
<1>2. HotRow(m, key) = IF key \in {"y", "n", "m", "h"} \/ all = {} THEN m.max ELSE Least(rows)
  BY DEF HotRow
<1> HIDE DEF all, rows
<1>3. CASE rows = {}
  BY <1>1, <1>2, <1>3
<1>4. CASE rows # {}
  <2>1. Least(rows) \in rows
    BY <1>1, <1>4, LeastElement
  <2>2. Least(rows) \in 0..m.max - 1
    BY <1>1, <2>1
  <2> QED BY <1>2, <2>2
<1> QED BY <1>3, <1>4

MenuArrows == {"up", "down", "ppage", "npage"}
LEMMA MenuGoes ==
  ASSUME NEW h \in Nat \ {0}, NEW m, NEW b, Moving(m, h, b), NEW key,
         key \in MenuArrows \/ HotRow(m, key) < m.max
  PROVE  Moving(MenuMoved(m, key), h, b)
<1>1. /\ m.max \in Nat \ {0} /\ m.scroll \in Nat /\ m.choice \in 0..m.max - 1 /\ m.count \in Nat
      /\ m.max \in Int
  BY MenuNumbers DEF Moving
<1>2. CASE key = "up"
  <2>1. MenuMoved(m, key) = MenuUp(m)
    BY <1>2 DEF MenuMoved
  <2>2. CASE m.choice < 2 /\ m.scroll # 0
    <3>1. m.scroll > 0
      BY <1>1, <2>2
    <3> QED BY <2>1, <2>2, <3>1, ScrollsUp DEF MenuUp
  <2>3. CASE ~(m.choice < 2 /\ m.scroll # 0)
    <3> DEFINE row == LargerOf(m.choice - 1, 0)
    <3>1. row \in 0..m.max - 1
      BY <1>1 DEF LargerOf
    <3>2. MenuMoved(m, key) = [m EXCEPT !.choice = row]
      BY <2>1, <2>3 DEF MenuUp
    <3> HIDE DEF row
    <3> QED BY <1>1, <3>1, <3>2, ChoiceOnly
  <2> QED BY <2>2, <2>3
<1>3. CASE key = "down"
  <2>1. MenuMoved(m, key) = MenuDown(m)
    BY <1>3 DEF MenuMoved
  <2>2. CASE m.choice > m.max - 3 /\ m.scroll + m.max < m.count
    BY <2>1, <2>2, ScrollsDown DEF MenuDown
  <2>3. CASE ~(m.choice > m.max - 3 /\ m.scroll + m.max < m.count)
    <3> DEFINE row == SmallerOf(m.choice + 1, m.max - 1)
    <3>1. row \in 0..m.max - 1
      BY <1>1 DEF SmallerOf
    <3>2. MenuMoved(m, key) = [m EXCEPT !.choice = row]
      BY <2>1, <2>3 DEF MenuDown
    <3> HIDE DEF row
    <3> QED BY <1>1, <3>1, <3>2, ChoiceOnly
  <2> QED BY <2>2, <2>3
<1>4. CASE key = "ppage"
  BY <1>4, Pages DEF MenuMoved
<1>5. CASE key = "npage"
  BY <1>5, Pages DEF MenuMoved
<1>6. CASE key \notin MenuArrows
  <2> DEFINE row == HotRow(m, key)
  <2>1. row \in 0..m.max - 1
    BY <1>1, <1>6, HotRowIn
  <2>2. MenuMoved(m, key) = [m EXCEPT !.choice = row]
    BY <1>6 DEF MenuMoved, MenuArrows
  <2> HIDE DEF row
  <2> QED BY <1>1, <2>1, <2>2, ChoiceOnly
<1> QED BY <1>2, <1>3, <1>4, <1>5, <1>6 DEF MenuArrows

\* The highlight is taken off, things move, and it is put on where it belongs.
LEMMA MenuStays ==
  ASSUME NEW h \in Nat \ {0}, NEW m, MenuIn(m, h, m.choice), NEW key,
         key \in MenuArrows \/ HotRow(m, key) < m.max
  PROVE  LET n == MenuMove(m, key) IN MenuIn(n, h, n.choice) /\ Same(n, m)
<1> DEFINE plain == PrintItem(m, m.scroll + m.choice, m.choice, FALSE)
           new   == MenuMoved(plain, key)
           n     == MenuMove(m, key)
<1>1. Moving(plain, h, m)
  <2> DEFINE rows == Put(m.rows, m.choice, Plain(m.scroll + m.choice))
  <2>1. /\ m.max \in 0..h /\ m.scroll \in Int /\ m.choice \in 0..m.max - 1 /\ h \in Nat
        /\ m \in MenuBox(m.hot, m.rows)
    BY MenuNumbers DEF MenuIn
  <2>2. m.stale \/ rows = Painted(h, m.max, m.scroll, -1)
    BY <2>1, Unlit DEF MenuIn
  <2>3. plain = [m EXCEPT !.rows = rows]
    BY PrintPlain
  <2> HIDE DEF rows, plain
  <2>4. /\ plain \in MenuBox(m.hot, rows) /\ plain.hot = m.hot /\ plain.rows = rows
        /\ plain.max = m.max /\ plain.count = m.count /\ plain.scroll = m.scroll
        /\ plain.choice = m.choice /\ plain.selected = m.selected /\ plain.saved = m.saved
        /\ plain.first = m.first /\ plain.stale = m.stale
    BY <2>1, <2>3 DEF MenuBox
  <2> QED BY <2>2, <2>4 DEF Moving, MenuIn, Same
<1>2. HotRow(plain, key) = HotRow(m, key) /\ plain.max = m.max
  <2>1. m \in MenuBox(m.hot, m.rows)
    BY DEF MenuIn
  <2> DEFINE rows == Put(m.rows, m.choice, Plain(m.scroll + m.choice))
  <2>2. plain = [m EXCEPT !.rows = rows]
    BY PrintPlain
  <2> HIDE DEF plain, rows
  <2>3. /\ plain.hot = m.hot /\ plain.scroll = m.scroll /\ plain.choice = m.choice
        /\ plain.max = m.max
    BY <2>1, <2>2 DEF MenuBox
  <2> QED BY <2>3 DEF HotRow
<1>3. n = PrintItem(new, new.scroll + new.choice, new.choice, TRUE)
  BY DEF MenuMove
<1> HIDE DEF plain
<1>4. Moving(new, h, m)
  BY <1>1, <1>2, MenuGoes
<1> HIDE DEF new
<1>5. /\ new.max \in 0..h /\ new.scroll \in Int /\ new.choice \in 0..new.max - 1 /\ h \in Nat
      /\ new \in MenuBox(new.hot, new.rows)
      /\ new.stale \/ new.rows = Painted(h, new.max, new.scroll, -1)
  BY <1>4, MenuNumbers DEF Moving, MenuIn
<1> DEFINE rows == Put(new.rows, new.choice, Lit(new.scroll + new.choice))
<1>6. new.stale \/ rows = Painted(h, new.max, new.scroll, new.choice)
  BY <1>5, Relit
<1> HIDE DEF n
<1>7. n = [new EXCEPT !.rows = rows]
  BY <1>3, PrintLit
<1> HIDE DEF rows
<1>8. /\ n \in MenuBox(new.hot, rows) /\ n.hot = new.hot /\ n.rows = rows
      /\ n.max = new.max /\ n.count = new.count /\ n.scroll = new.scroll /\ n.choice = new.choice
      /\ n.selected = new.selected /\ n.saved = new.saved /\ n.first = new.first
      /\ n.stale = new.stale
  BY <1>5, <1>7 DEF MenuBox
<1>9. MenuIn(n, h, n.choice) /\ Same(n, m)
  BY <1>4, <1>6, <1>8 DEF Moving, MenuIn, Same
<1> QED BY <1>9 DEF n

\* Where the menu is left alone: the caller's *s_scroll still fits.
Kept(m, at, max) == /\ m.saved <= at /\ at < m.saved + max
                    /\ m.saved >= 0 /\ m.saved + max <= m.count
\* first_item is what is painted first, unless the item asked for is in the first
\* window and *s_scroll does not fit: then it is what it was.
FirstKnown(m) ==
  m.saved # 0 => m.selected < 0 \/ Kept(m, m.selected, m.max) \/ m.selected >= m.max \/ m.first = 0

LEMMA MenuLaid ==
  ASSUME NEW m, m \in MenuBox(m.hot, m.rows), NEW l \in Int, l >= 15, NEW at \in 0..m.count - 1,
         at = IF m.selected >= 0 THEN m.selected ELSE m.choice
  PROVE  LET n == LayMenu(m, l)
             max == SmallerOf(l - 14, m.count)
         IN /\ MenuIn(n, l - 14, n.choice)
            /\ n.selected = m.selected /\ n.saved = m.saved /\ n.count = m.count
            /\ Kept(m, at, max) \/ at >= max \/ m.first = 0 =>
                 ~n.stale /\ (m.selected >= 0 => FirstKnown(n))
<1> DEFINE h == l - 14
           max == SmallerOf(h, m.count)
           kept == Kept(m, at, max)
           centred == IF at >= m.count - (max \div 2) THEN m.count - max ELSE at - (max \div 2)
           scroll == IF kept THEN m.saved ELSE IF at >= max THEN centred ELSE 0
           first == IF kept \/ at >= max THEN scroll ELSE m.first
           rows == Painted(h, max, first, at - scroll)
           n == LayMenu(m, l)
<1>1. /\ m.count \in Nat \ {0} /\ h \in Nat \ {0} /\ m.saved \in Int /\ m.first \in Int
      /\ m.selected \in Int
  BY DEF MenuBox
<1>2. max \in 1..m.count
  BY <1>1 DEF SmallerOf
<1>3. /\ scroll \in 0..m.count - max /\ at - scroll \in 0..max - 1
      /\ scroll \in Int /\ at - scroll \in Int
  <2>1. CASE kept
    BY <1>1, <1>2, <2>1 DEF Kept
  <2>2. CASE ~kept /\ at >= max
    <3>1. scroll = centred
      BY <2>2
    <3> DEFINE half == max \div 2
    <3>2. half \in Nat /\ 2 * half <= max /\ max <= 2 * half + 1
      BY <1>2
    <3>3. centred = IF at >= m.count - half THEN m.count - max ELSE at - half
      OBVIOUS
    <3> HIDE DEF half, max, centred, scroll
    <3> QED BY <1>1, <1>2, <2>2, <3>1, <3>2, <3>3
  <2>3. CASE ~kept /\ ~(at >= max)
    <3>1. scroll = 0
      BY <2>3
    <3> HIDE DEF scroll, max
    <3> QED BY <1>1, <1>2, <2>3, <3>1
  <2> QED BY <2>1, <2>2, <2>3
<1>4. kept \/ at >= max \/ m.first = 0 => first = scroll
  BY DEF Kept
<1>5. n = [m EXCEPT !.max = max, !.scroll = scroll, !.first = first, !.choice = at - scroll,
                    !.stale = first # scroll, !.rows = rows]
  BY DEF LayMenu, Kept
<1>6. first \in {scroll, m.first}
  OBVIOUS
<1>7. max \in Int /\ first \in Int
  BY <1>1, <1>2, <1>3, <1>6
<1>8. kept \/ at >= max \/ m.first = 0 => (~kept /\ ~(at >= max) => first = 0)
  OBVIOUS
<1> HIDE DEF max, scroll, first, n, centred, kept
<1>9. /\ n \in MenuBox(m.hot, rows) /\ n.hot = m.hot /\ n.rows = rows
      /\ n.max = max /\ n.count = m.count /\ n.scroll = scroll /\ n.choice = at - scroll
      /\ n.selected = m.selected /\ n.saved = m.saved /\ n.first = first
      /\ n.stale = (first # scroll)
  <2> HIDE DEF rows
  <2> QED BY <1>3, <1>5, <1>7 DEF MenuBox
<1>10. MenuIn(n, h, n.choice)
  <2>1. n.stale \/ n.rows = Painted(h, n.max, n.scroll, n.choice)
    BY <1>9 DEF rows
  <2> HIDE DEF rows
  <2> QED BY <1>2, <1>3, <1>9, <2>1 DEF MenuIn, max
<1>11. kept \/ at >= max \/ m.first = 0 => ~n.stale /\ (m.selected >= 0 => FirstKnown(n))
  <2> HIDE DEF rows
  <2> QED BY <1>4, <1>8, <1>9 DEF FirstKnown, Kept, kept
<1> QED BY <1>9, <1>10, <1>11 DEF n, max, kept, h

\* A menu of a terminal of l lines.
MenuOf(m, l) ==
  /\ l \in Nat /\ l >= 15
  /\ MenuIn(m, l - 14, m.choice)
  /\ m.selected < m.count
Fresh(m) == ~m.stale /\ FirstKnown(m)

LEMMA SameKnown ==
  ASSUME NEW n, NEW m, Same(n, m), Fresh(m)
  PROVE  Fresh(n)
BY DEF Same, Fresh, FirstKnown, Kept

\* A resize is harmless if *s_scroll was 0, or if it does not make the list higher
\* and the caller asked for an item: then first_item is not stale when it is used.
LEMMA MenuAnswers ==
  ASSUME NEW m, NEW l, MenuOf(m, l), NEW key, NEW now \in Nat
  PROVE  LET n == MenuKey(m, key, now).d
         IN /\ (MenuOf(n, l) \/ MenuOf(n, now)) /\ n.saved = m.saved
            /\ Fresh(m) /\ (key = "resize" => m.saved = 0 \/ (m.selected >= 0 /\ now <= l)) =>
                 Fresh(n)
<1> DEFINE n == MenuKey(m, key, now).d
           h == l - 14
<1>1. /\ h \in Nat \ {0} /\ MenuIn(m, h, m.choice) /\ m \in MenuBox(m.hot, m.rows)
      /\ m.selected < m.count /\ l \in Nat /\ l >= 15
  BY DEF MenuOf, MenuIn
<1>2. CASE key \in MenuArrows \/ HotRow(m, key) < m.max
  <2>1. n = MenuMove(m, key)
    BY <1>2 DEF MenuKey, Stay, MenuArrows
  <2> HIDE DEF n
  <2>2. MenuIn(n, h, n.choice) /\ Same(n, m)
    BY <1>1, <1>2, <2>1, MenuStays
  <2>3. Fresh(m) => Fresh(n)
    BY <2>2, SameKnown
  <2>4. MenuOf(n, l) /\ n.saved = m.saved
    BY <1>1, <2>2 DEF MenuOf, Same
  <2> QED BY <2>3, <2>4 DEF n
<1>3. CASE ~(key \in MenuArrows \/ HotRow(m, key) < m.max)
  <2> DEFINE turned == [m EXCEPT !.button = Button(@, key, 5)]
  <2>1. \/ n \in {m, turned}
        \/ key = "resize" /\ MenuFits(now) /\ n = LayMenu(m, now)
    <3>1. CASE key = "resize"
      <4>1. MenuKey(m, key, now) = IF MenuFits(now) THEN Stay(LayMenu(m, now)) ELSE Return(m, TooSmall)
        BY <1>3, <3>1 DEF MenuKey, MenuArrows, MenuCommands
      <4>2. n = IF MenuFits(now) THEN LayMenu(m, now) ELSE m
        BY <4>1 DEF Stay, Return
      <4> QED BY <3>1, <4>2
    <3>2. CASE key # "resize"
      <4> QED BY <1>3, <3>2 DEF MenuKey, Stay, Return, MenuArrows
    <3> QED BY <3>1, <3>2
  <2>2. MenuOf(turned, l) /\ turned.saved = m.saved /\ (Fresh(m) => Fresh(turned))
    <3>1. Button(m.button, key, 5) \in Int
      BY <1>1 DEF Button, MenuBox
    <3>2. /\ turned \in MenuBox(m.hot, m.rows) /\ turned.hot = m.hot /\ turned.rows = m.rows
          /\ turned.count = m.count /\ turned.max = m.max /\ turned.saved = m.saved
          /\ turned.scroll = m.scroll /\ turned.choice = m.choice
          /\ turned.selected = m.selected /\ turned.first = m.first /\ turned.stale = m.stale
      BY <1>1, <3>1 DEF MenuBox
    <3> HIDE DEF turned
    <3>3. MenuIn(turned, h, turned.choice) /\ Same(turned, m)
      BY <1>1, <3>2 DEF MenuIn, Same
    <3> QED BY <1>1, <3>2, <3>3, SameKnown DEF MenuOf
  <2>3. CASE key = "resize" /\ MenuFits(now) /\ n = LayMenu(m, now)
    <3> DEFINE at == IF m.selected >= 0 THEN m.selected ELSE m.choice
               max == SmallerOf(now - 14, m.count)
    <3>1. /\ m.selected \in Int /\ m.saved \in Int /\ m.count \in Nat \ {0} /\ m.first \in Int
          /\ m.choice \in 0..m.max - 1 /\ m.max = SmallerOf(h, m.count) /\ m.max \in 1..m.count
          /\ now \in Int /\ now >= 15
      BY <1>1, <2>3 DEF MenuFits, MenuBox, MenuIn, SmallerOf
    <3>2. at \in 0..m.count - 1 /\ max \in 1..m.count
      BY <1>1, <3>1 DEF SmallerOf
    <3>3. Fresh(m) /\ (m.saved = 0 \/ (m.selected >= 0 /\ now <= l)) =>
            Kept(m, at, max) \/ at >= max \/ m.first = 0
      <4>1. CASE m.saved = 0
        <5> HIDE DEF at, max
        <5> QED BY <3>1, <3>2, <4>1 DEF Kept
      <4>2. CASE m.saved # 0
        <5> SUFFICES ASSUME Fresh(m), m.selected >= 0, now <= l
                     PROVE  Kept(m, at, max) \/ at >= max \/ m.first = 0
          BY <4>2
        <5>1. at = m.selected /\ max <= m.max
          BY <1>1, <3>1 DEF SmallerOf
        <5>2. Kept(m, at, m.max) \/ at >= m.max \/ m.first = 0
          BY <1>1, <3>1, <4>2, <5>1 DEF Fresh, FirstKnown
        <5> HIDE DEF at, max
        <5> QED BY <3>1, <3>2, <5>1, <5>2 DEF Kept
      <4> QED BY <4>1, <4>2
    <3>4. /\ MenuIn(n, now - 14, n.choice)
          /\ n.selected = m.selected /\ n.saved = m.saved /\ n.count = m.count
          /\ Kept(m, at, max) \/ at >= max \/ m.first = 0 =>
               ~n.stale /\ (m.selected >= 0 => FirstKnown(n))
      <4> HIDE DEF at
      <4>1. at = IF m.selected >= 0 THEN m.selected ELSE m.choice
        BY DEF at
      <4> HIDE DEF n
      <4> QED BY <1>1, <2>3, <3>1, <3>2, <4>1, MenuLaid
    <3> HIDE DEF n, at, max
    <3>5. Fresh(m) /\ (m.saved = 0 \/ (m.selected >= 0 /\ now <= l)) => Fresh(n)
      BY <3>1, <3>3, <3>4 DEF Fresh, FirstKnown
    <3>6. MenuOf(n, now)
      BY <1>1, <3>1, <3>4 DEF MenuOf
    <3> QED BY <2>3, <3>4, <3>5, <3>6 DEF n
  <2>4. CASE n \in {m, turned}
    BY <2>2, <2>4
  <2> QED BY <2>1, <2>3, <2>4
<1> QED BY <1>2, <1>3

\* A menu from its opening on.
MenuInit ==
  /\ lines \in Nat /\ MenuFits(lines)
  /\ \E count \in Nat \ {0} : \E hot \in [0..count - 1 -> Key], selected \in -1..count - 1, saved \in Int :
       box = dialog_menu(count, hot, selected, saved, lines)
  /\ res = Again
MenuNext ==
  \E key \in Key :
    /\ Pressed(key)
    /\ Becomes(MenuKey(box, key, lines'))
MenuSpec == MenuInit /\ [][MenuNext]_vars

\* A list that does not grow, of which the caller asked for an item, or was never
\* scrolled before: then first_item is not stale when do_resize uses it.
HarmlessResize == box.saved = 0 \/ (box.selected >= 0 /\ lines' <= lines)
FreshNext ==
  \E key \in Key :
    /\ Pressed(key)
    /\ key = "resize" => HarmlessResize
    /\ Becomes(MenuKey(box, key, lines'))
FreshSpec == MenuInit /\ [][FreshNext]_vars

LEMMA MenuOpens ==
  ASSUME MenuInit
  PROVE  MenuOf(box, lines) /\ Fresh(box) /\ lines \in Nat
<1> SUFFICES ASSUME lines \in Nat, lines >= 15,
                    NEW count \in Nat \ {0}, NEW hot \in [0..count - 1 -> Key],
                    NEW selected \in -1..count - 1, NEW saved \in Int,
                    box = dialog_menu(count, hot, selected, saved, lines)
             PROVE  MenuOf(box, lines) /\ Fresh(box)
  BY DEF MenuInit, MenuFits
<1> DEFINE m == [kind |-> "menu", count |-> count, hot |-> hot, selected |-> selected,
                 saved |-> saved, first |-> 0, scroll |-> 0, choice |-> 0, max |-> 0,
                 button |-> 0, stale |-> FALSE, rows |-> <<>>]
           at == IF m.selected >= 0 THEN m.selected ELSE m.choice
<1>1. /\ m \in MenuBox(m.hot, m.rows) /\ m.first = 0 /\ at \in 0..m.count - 1
      /\ m.selected < m.count /\ lines \in Int /\ m.selected \in Int
      /\ m.selected < 0 => m.selected = -1
  BY DEF MenuBox
<1>2. box = LayMenu(m, lines)
  BY DEF dialog_menu
<1>3. at = IF m.selected >= 0 THEN m.selected ELSE m.choice
  OBVIOUS
<1> HIDE DEF m, at
<1>4. /\ MenuIn(box, lines - 14, box.choice)
      /\ box.selected = m.selected /\ box.count = m.count
      /\ ~box.stale /\ (m.selected >= 0 => FirstKnown(box))
  BY <1>1, <1>2, <1>3, MenuLaid
<1>5. FirstKnown(box)
  BY <1>1, <1>4 DEF FirstKnown
<1> QED BY <1>1, <1>4, <1>5 DEF MenuOf, Fresh

\* Whatever keys are pressed and whatever the terminal's sizes: after any moves and
\* pages the item a command acts on is one of the menu, and, unless the menu was
\* painted from a stale first_item (menubox.c:250-264), each row shows its item, one
\* row is lit, and it is that of the item a command acts on (menubox.c patches its
\* rows).
THEOREM MenuShows == MenuSpec => []MenuOnScreen(box)
<1> DEFINE Inv == lines \in Nat /\ \E l \in Nat : MenuOf(box, l)
<1>1. MenuInit => Inv
  BY MenuOpens
<1>2. Inv /\ [MenuNext]_vars => Inv'
  <2> SUFFICES ASSUME lines \in Nat, NEW l \in Nat, MenuOf(box, l), [MenuNext]_vars
               PROVE  Inv'
    OBVIOUS
  <2>1. CASE UNCHANGED vars
    BY <2>1 DEF vars
  <2>2. ASSUME NEW key \in Key, Pressed(key), Becomes(MenuKey(box, key, lines'))
        PROVE  Inv'
    <3> DEFINE n == MenuKey(box, key, lines').d
    <3>1. lines' \in Nat
      BY <2>2 DEF Pressed
    <3>2. box' = n
      BY <2>2 DEF Becomes
    <3>3. MenuOf(n, l) \/ MenuOf(n, lines')
      BY <3>1, MenuAnswers
    <3> HIDE DEF n
    <3> QED BY <3>1, <3>2, <3>3
  <2> QED BY <2>1, <2>2 DEF MenuNext
<1>3. Inv => MenuOnScreen(box)
  <2> SUFFICES ASSUME NEW l \in Nat, MenuOf(box, l) PROVE MenuOnScreen(box)
    OBVIOUS
  <2> DEFINE h == l - 14
  <2>1. h \in Nat \ {0} /\ MenuIn(box, h, box.choice)
    BY DEF MenuOf
  <2> HIDE DEF h
  <2>2. box.scroll + box.choice \in 0..box.count - 1
    BY <2>1, MenuNumbers
  <2>3. CASE box.stale
    <3>1. box.kind = "menu"
      BY <2>1 DEF MenuIn, MenuBox
    <3> QED BY <2>2, <2>3, <3>1 DEF MenuOnScreen, MenuItem, Shifted
  <2>4. CASE ~box.stale
    <3>1. box.rows = Painted(h, box.max, box.scroll, box.choice)
      BY <2>1, <2>4 DEF MenuIn
    <3>2. DOMAIN box.rows = 0..h - 1
      BY <3>1, PaintedRows
    <3>3. RowsOf(box) = Painted(h, box.max, box.scroll, box.choice)
      BY <3>2 DEF RowsOf, Painted
    <3> QED BY <2>2, <3>1, <3>3 DEF MenuOnScreen, MenuItem
  <2> QED BY <2>3, <2>4
<1> QED BY <1>1, <1>2, <1>3, PTL DEF MenuSpec

\* The exception of MenuShows is no wider than it has to be: a menu is painted from
\* a stale first_item only when the list grows, or no item was asked for, and
\* *s_scroll was not 0.
THEOREM MenuFresh == FreshSpec => []~Shifted(box)
<1> DEFINE Inv == \E l \in Nat : /\ MenuOf(box, l) /\ Fresh(box)
                                 /\ box.saved = 0 \/ lines <= l
                                 /\ lines \in Nat
<1>1. MenuInit => Inv
  <2> SUFFICES ASSUME MenuInit PROVE Inv
    OBVIOUS
  <2>1. MenuOf(box, lines) /\ Fresh(box) /\ lines \in Nat /\ lines <= lines
    BY MenuOpens
  <2> QED BY <2>1
<1>2. Inv /\ [FreshNext]_vars => Inv'
  <2> SUFFICES ASSUME NEW l \in Nat, MenuOf(box, l), Fresh(box), box.saved = 0 \/ lines <= l,
                      lines \in Nat, [FreshNext]_vars
               PROVE  Inv'
    OBVIOUS
  <2>1. CASE UNCHANGED vars
    BY <2>1 DEF vars
  <2>2. ASSUME NEW key \in Key, Pressed(key), key = "resize" => HarmlessResize,
               Becomes(MenuKey(box, key, lines'))
        PROVE  Inv'
    <3>1. lines' \in Nat /\ (key # "resize" => lines' = lines)
      BY <2>2 DEF Pressed
    <3>2. key = "resize" => box.saved = 0 \/ (box.selected >= 0 /\ lines' <= l /\ lines' <= lines)
      BY <2>2, <3>1 DEF HarmlessResize
    <3> DEFINE n == MenuKey(box, key, lines').d
    <3>3. /\ (MenuOf(n, l) \/ MenuOf(n, lines')) /\ n.saved = box.saved
          /\ Fresh(n)
      BY <3>1, <3>2, MenuAnswers
    <3>4. box' = n
      BY <2>2 DEF Becomes
    <3> HIDE DEF n
    <3>5. box.saved = 0 \/ (lines' <= l /\ lines' <= lines')
      BY <3>1, <3>2
    <3>6. \E k \in {l, lines'} : MenuOf(box', k) /\ Fresh(box') /\ (box'.saved = 0 \/ lines' <= k)
      BY <3>3, <3>4, <3>5
    <3> QED BY <3>1, <3>6
  <2> QED BY <2>1, <2>2 DEF FreshNext
<1>3. Inv => ~Shifted(box)
  BY DEF Fresh, Shifted
<1> QED BY <1>1, <1>2, <1>3, PTL DEF FreshSpec

-----------------------------------------------------------------------------
(* The inputbox.                                                           *)

InputBox(height, text, cells) ==
  [kind : {"input"}, text : {text}, width : Nat \ {0}, height : {height}, pos : Int, show : Int,
   at : Int, button : Int, cells : {cells}]
\* What a field should show of a text from character show on.
Field(text, show, width) ==
  [i \in 0..width - 1 |-> IF show + i < Len(text) THEN CharAt(text, show + i) ELSE " "]
\* Where the cursor is; what the cells show is stated apart.
CursorIn(b, Char) ==
  /\ b \in InputBox(b.height, b.text, b.cells)
  /\ b.text \in Seq(Char)
  /\ b.show \in Nat /\ b.at \in 0..b.width - 1
  /\ b.pos = b.show + b.at /\ b.pos <= Len(b.text)
InputIn(b, Char) == CursorIn(b, Char) /\ b.cells = Field(b.text, b.show, b.width)

\* A line that is drawn again is right if what it leaves was blank already.
LEMMA Drawn ==
  ASSUME NEW Char, NEW b, CursorIn(b, Char), NEW text \in Seq(Char), NEW show \in Nat,
         b.cells = Field(text, show, b.width),
         \A i \in 0..b.width - 1 : b.show + i > Len(b.text) => show + i >= Len(text)
  PROVE  InputIn(DrawText(b), Char)
<1> DEFINE now == Field(b.text, b.show, b.width)
           d == DrawText(b)
<1>1. /\ b \in InputBox(b.height, b.text, b.cells) /\ b.width \in Nat /\ b.show \in Nat
      /\ Len(b.text) \in Nat /\ Len(text) \in Nat
  BY DEF CursorIn, InputBox
<1>2. \A i \in 0..b.width - 1 :
        (IF b.show + i < Len(b.text) THEN CharAt(b.text, b.show + i)
         ELSE IF b.show + i = Len(b.text) THEN " " ELSE b.cells[i])
          = IF b.show + i < Len(b.text) THEN CharAt(b.text, b.show + i) ELSE " "
  <2> TAKE i \in 0..b.width - 1
  <2>1. b.cells[i] = IF show + i < Len(text) THEN CharAt(text, show + i) ELSE " "
    BY DEF Field
  <2>2. CASE b.show + i > Len(b.text)
    <3>1. /\ ~(b.show + i < Len(b.text)) /\ b.show + i # Len(b.text)
          /\ ~(show + i < Len(text))
      BY <1>1, <2>2
    <3> QED BY <2>1, <3>1, Zenon
  <2>3. CASE ~(b.show + i > Len(b.text))
    <3> DEFINE x == b.show + i
               y == Len(b.text)
    <3>1. x < y \/ x = y
      <4>1. x \in Int /\ y \in Int /\ ~(x > y)
        BY <1>1, <2>3, SMTT(30)
      <4> HIDE DEF x, y
      <4> QED BY <4>1
    <3> QED BY <3>1, Zenon
  <2> QED BY <2>2, <2>3
<1>3. DOMAIN b.cells = 0..b.width - 1
  BY DEF Field
<1>4. d = [b EXCEPT !.cells = now]
  BY <1>2, <1>3 DEF DrawText, Field
<1> HIDE DEF now, d
<1>5. /\ d \in InputBox(b.height, b.text, now) /\ d.height = b.height /\ d.text = b.text
      /\ d.cells = now /\ d.width = b.width /\ d.pos = b.pos /\ d.show = b.show /\ d.at = b.at
  BY <1>1, <1>4 DEF InputBox
<1>6. InputIn(d, Char)
  BY <1>5 DEF InputIn, CursorIn, now
<1> QED BY <1>6 DEF d

\* The cursor moves: show and at say where it is.
LEMMA CursorLeftIn ==
  ASSUME NEW Char, NEW b, CursorIn(b, Char), b.pos > 0
  PROVE  LET d == CursorLeft(b)
         IN /\ CursorIn(d, Char) /\ d.pos = b.pos - 1 /\ d.text = b.text /\ d.cells = b.cells
            /\ d.width = b.width
            /\ d.show = IF b.at > 0 THEN b.show ELSE b.show - 1
<1> DEFINE d == CursorLeft(b)
<1>1. /\ b \in InputBox(b.height, b.text, b.cells) /\ b.show \in Nat /\ b.at \in 0..b.width - 1
      /\ b.pos = b.show + b.at /\ b.width \in Nat /\ Len(b.text) \in Nat /\ b.at \in Int
      /\ b.pos \in Int /\ b.show \in Int
      /\ b.pos - 1 \in Int /\ b.show - 1 \in Int /\ b.at - 1 \in Int
  BY DEF CursorIn, InputBox
<1>2. CASE b.at > 0
  <2>1. d = [b EXCEPT !.at = b.at - 1, !.pos = b.pos - 1]
    BY <1>2 DEF CursorLeft
  <2> HIDE DEF d
  <2>2. /\ d \in InputBox(b.height, b.text, b.cells) /\ d.height = b.height /\ d.text = b.text
        /\ d.cells = b.cells /\ d.width = b.width /\ d.pos = b.pos - 1 /\ d.show = b.show
        /\ d.at = b.at - 1
    BY <1>1, <2>1 DEF InputBox
  <2>3. CursorIn(d, Char)
    BY <1>1, <1>2, <2>2, SMTT(30) DEF CursorIn
  <2>4. d.show = IF b.at > 0 THEN b.show ELSE b.show - 1
    BY <1>2, <2>2
  <2> QED BY <2>2, <2>3, <2>4 DEF d
<1>3. CASE ~(b.at > 0)
  <2>1. d = [b EXCEPT !.show = b.show - 1, !.pos = b.pos - 1]
    BY <1>3 DEF CursorLeft
  <2> HIDE DEF d
  <2>2. /\ d \in InputBox(b.height, b.text, b.cells) /\ d.height = b.height /\ d.text = b.text
        /\ d.cells = b.cells /\ d.width = b.width /\ d.pos = b.pos - 1 /\ d.show = b.show - 1
        /\ d.at = b.at
    BY <1>1, <2>1 DEF InputBox
  <2>3. CursorIn(d, Char)
    BY <1>1, <1>3, <2>2 DEF CursorIn
  <2>4. d.show = IF b.at > 0 THEN b.show ELSE b.show - 1
    BY <1>3, <2>2
  <2> QED BY <2>2, <2>3, <2>4 DEF d
<1> QED BY <1>2, <1>3
\* To the right it stays in the text once what is typed there is.
LEMMA CursorRightIn ==
  ASSUME NEW Char, NEW b, CursorIn(b, Char)
  PROVE  LET d == CursorRight(b)
         IN /\ d \in InputBox(b.height, b.text, b.cells) /\ d.height = b.height
            /\ d.pos = b.pos + 1 /\ d.pos = d.show + d.at /\ d.text = b.text /\ d.cells = b.cells
            /\ d.at \in 0..d.width - 1 /\ d.show \in Nat /\ d.width = b.width
            /\ d.show = IF b.at < b.width - 1 THEN b.show ELSE b.show + 1
<1> DEFINE d == CursorRight(b)
<1>1. /\ b \in InputBox(b.height, b.text, b.cells) /\ b.show \in Nat /\ b.at \in 0..b.width - 1
      /\ b.pos = b.show + b.at /\ b.width \in Nat /\ b.at \in Int
      /\ b.pos \in Int /\ b.show \in Int
      /\ b.pos + 1 \in Int /\ b.show + 1 \in Int /\ b.at + 1 \in Int
  BY DEF CursorIn, InputBox
<1>2. CASE b.at < b.width - 1
  <2>1. d = [b EXCEPT !.at = b.at + 1, !.pos = b.pos + 1]
    BY <1>2 DEF CursorRight
  <2> HIDE DEF d
  <2>2. /\ d \in InputBox(b.height, b.text, b.cells) /\ d.height = b.height /\ d.text = b.text
        /\ d.cells = b.cells /\ d.width = b.width /\ d.pos = b.pos + 1 /\ d.show = b.show
        /\ d.at = b.at + 1
    BY <1>1, <2>1 DEF InputBox
  <2>3. /\ d.show = IF b.at < b.width - 1 THEN b.show ELSE b.show + 1
        /\ d.pos = d.show + d.at /\ d.at \in 0..d.width - 1 /\ d.show \in Nat
    BY <1>1, <1>2, <2>2
  <2> QED BY <2>2, <2>3 DEF d
<1>3. CASE ~(b.at < b.width - 1)
  <2>1. d = [b EXCEPT !.show = b.show + 1, !.pos = b.pos + 1]
    BY <1>3 DEF CursorRight
  <2> HIDE DEF d
  <2>2. /\ d \in InputBox(b.height, b.text, b.cells) /\ d.height = b.height /\ d.text = b.text
        /\ d.cells = b.cells /\ d.width = b.width /\ d.pos = b.pos + 1 /\ d.show = b.show + 1
        /\ d.at = b.at
    BY <1>1, <2>1 DEF InputBox
  <2>3. /\ d.show = IF b.at < b.width - 1 THEN b.show ELSE b.show + 1
        /\ d.pos = d.show + d.at /\ d.at \in 0..d.width - 1 /\ d.show \in Nat
    BY <1>1, <1>3, <2>2
  <2> QED BY <2>2, <2>3 DEF d
<1> QED BY <1>2, <1>3

\* A key that is a text, as all are: of one character or more.
Types(key, Char) == key \in Seq(Char) \ {<<>>}
BlankTypes(Char) == Types(" ", Char)

\* A text without a character, and with one more.
LEMMA WithoutLength ==
  ASSUME NEW Char, NEW text \in Seq(Char), NEW i \in 0..Len(text) - 1
  PROVE  Without(text, i) \in Seq(Char) /\ Len(Without(text, i)) = Len(text) - 1
<1> DEFINE u == SubSeq(text, 1, i)
           v == SubSeq(text, i + 2, Len(text))
<1>1. u \in Seq(Char) /\ Len(u) = i
  OBVIOUS
<1>2. v \in Seq(Char) /\ Len(v) = Len(text) - (i + 1)
  OBVIOUS
<1>3. Without(text, i) = u \o v /\ Len(text) \in Nat
  BY DEF Without
<1> HIDE DEF u, v
<1> QED BY <1>1, <1>2, <1>3
LEMMA WithLength ==
  ASSUME NEW Char, NEW text \in Seq(Char), NEW i \in 0..Len(text), NEW c \in Seq(Char)
  PROVE  With(text, i, c) \in Seq(Char) /\ Len(With(text, i, c)) = Len(text) + Len(c)
<1> DEFINE u == SubSeq(text, 1, i)
           v == SubSeq(text, i + 1, Len(text))
<1>1. u \in Seq(Char) /\ Len(u) = i
  OBVIOUS
<1>2. v \in Seq(Char) /\ Len(v) = Len(text) - i
  OBVIOUS
<1>3. With(text, i, c) = u \o c \o v /\ Len(text) \in Nat /\ Len(c) \in Nat
  BY DEF With
<1> HIDE DEF u, v
<1> DEFINE w == u \o c
<1>4. w \in Seq(Char) /\ Len(w) = i + Len(c)
  BY <1>1
<1>5. With(text, i, c) = w \o v
  BY <1>3
<1> HIDE DEF w
<1>6. w \in Seq(Char) /\ v \in Seq(Char)
  BY <1>2, <1>4
<1>7. w \o v \in Seq(Char) /\ Len(w \o v) = Len(w) + Len(v)
  BY <1>6, ConcatProperties
<1> QED BY <1>2, <1>3, <1>4, <1>5, <1>7

\* The text is replaced under the cursor.
LEMMA TextSet ==
  ASSUME NEW d, d \in InputBox(d.height, d.text, d.cells), NEW text
  PROVE  LET e == [d EXCEPT !.text = text]
         IN /\ e \in InputBox(e.height, e.text, e.cells) /\ e.text = text
            /\ e.height = d.height /\ e.cells = d.cells /\ e.width = d.width
            /\ e.pos = d.pos /\ e.show = d.show /\ e.at = d.at
BY DEF InputBox

LEMMA BackspaceIn ==
  ASSUME NEW Char, NEW b, InputIn(b, Char), b.pos > 0
  PROVE  InputIn(Backspace(b), Char)
<1> DEFINE d == CursorLeft(b)
           new == Without(b.text, b.pos - 1)
           e == [d EXCEPT !.text = new]
<1>1. CursorIn(b, Char) /\ b.cells = Field(b.text, b.show, b.width)
  BY DEF InputIn
<1>2. /\ b.text \in Seq(Char) /\ b.show \in Nat /\ b.at \in 0..b.width - 1 /\ b.width \in Nat
      /\ b.pos = b.show + b.at /\ b.pos \in Nat /\ b.pos <= Len(b.text) /\ Len(b.text) \in Nat
  BY <1>1 DEF CursorIn, InputBox
<1>3. new \in Seq(Char) /\ Len(new) = Len(b.text) - 1
  <2>1. b.pos - 1 \in 0..Len(b.text) - 1
    BY <1>2
  <2> QED BY <1>2, <2>1, WithoutLength
<1>4. /\ CursorIn(d, Char) /\ d.pos = b.pos - 1 /\ d.text = b.text /\ d.cells = b.cells
      /\ d.width = b.width /\ d.show = IF b.at > 0 THEN b.show ELSE b.show - 1
  BY <1>1, CursorLeftIn
<1>5. Backspace(b) = DrawText(e)
  BY <1>4 DEF Backspace
<1> HIDE DEF d, new
<1>6. /\ d \in InputBox(d.height, d.text, d.cells) /\ d.show \in Nat /\ d.at \in 0..d.width - 1
      /\ d.pos = d.show + d.at
  BY <1>4 DEF CursorIn
<1>7. /\ e \in InputBox(e.height, e.text, e.cells) /\ e.text = new
      /\ e.cells = d.cells /\ e.width = d.width
      /\ e.pos = d.pos /\ e.show = d.show /\ e.at = d.at
  BY <1>6, TextSet
<1> HIDE DEF e
<1>8. e.pos <= Len(e.text)
  BY <1>2, <1>3, <1>4, <1>7
<1>9. CursorIn(e, Char)
  BY <1>3, <1>6, <1>7, <1>8 DEF CursorIn
<1>10. \A i \in 0..e.width - 1 : e.show + i > Len(e.text) => b.show + i >= Len(b.text)
  BY <1>2, <1>3, <1>4, <1>7
<1>11. e.cells = Field(b.text, b.show, e.width)
  BY <1>1, <1>4, <1>7
<1> QED BY <1>2, <1>5, <1>9, <1>10, <1>11, Drawn

LEMMA InsertIn ==
  ASSUME NEW Char, NEW b, InputIn(b, Char), NEW c, Types(c, Char)
  PROVE  InputIn(Insert(b, c), Char)
<1>0. c \in Seq(Char) /\ Len(c) \in Nat \ {0}
  BY DEF Types
<1> DEFINE d == CursorRight(b)
           new == With(b.text, b.pos, c)
           e == [d EXCEPT !.text = new]
<1>1. CursorIn(b, Char) /\ b.cells = Field(b.text, b.show, b.width)
  BY DEF InputIn
<1>2. /\ b.text \in Seq(Char) /\ b.show \in Nat /\ b.at \in 0..b.width - 1 /\ b.width \in Nat
      /\ b.pos = b.show + b.at /\ b.pos \in Nat /\ b.pos <= Len(b.text) /\ Len(b.text) \in Nat
  BY <1>1 DEF CursorIn, InputBox
<1>3. new \in Seq(Char) /\ Len(new) = Len(b.text) + Len(c)
  <2>1. b.pos \in 0..Len(b.text)
    BY <1>2
  <2> QED BY <1>0, <1>2, <2>1, WithLength
<1>4. /\ d \in InputBox(b.height, b.text, b.cells) /\ d.height = b.height
      /\ d.pos = b.pos + 1 /\ d.pos = d.show + d.at /\ d.text = b.text /\ d.cells = b.cells
      /\ d.at \in 0..d.width - 1 /\ d.show \in Nat /\ d.width = b.width
      /\ d.show = IF b.at < b.width - 1 THEN b.show ELSE b.show + 1
  BY <1>1, CursorRightIn
<1>5. Insert(b, c) = DrawText(e)
  BY <1>4 DEF Insert
<1> HIDE DEF d, new
<1>6. d \in InputBox(d.height, d.text, d.cells)
  BY <1>4
<1>7. /\ e \in InputBox(e.height, e.text, e.cells) /\ e.text = new
      /\ e.cells = d.cells /\ e.width = d.width
      /\ e.pos = d.pos /\ e.show = d.show /\ e.at = d.at
  BY <1>6, TextSet
<1> HIDE DEF e
<1>8. e.pos <= Len(e.text)
  BY <1>0, <1>2, <1>3, <1>4, <1>7
<1>9. CursorIn(e, Char)
  BY <1>3, <1>4, <1>7, <1>8 DEF CursorIn
<1>10. \A i \in 0..e.width - 1 : e.show + i > Len(e.text) => b.show + i >= Len(b.text)
  BY <1>0, <1>2, <1>3, <1>4, <1>7, SMTT(30)
<1>11. e.cells = Field(b.text, b.show, e.width)
  BY <1>1, <1>4, <1>7
<1> QED BY <1>2, <1>5, <1>9, <1>10, <1>11, Drawn

LEMMA FieldAnswers ==
  ASSUME NEW Char, NEW b, InputIn(b, Char), NEW key,
         Types(key, Char), BlankTypes(Char)
  PROVE  InputIn(FieldKey(b, key), Char)
<1>1. CursorIn(b, Char) /\ b.cells = Field(b.text, b.show, b.width)
  BY DEF InputIn
<1>2. /\ b.text \in Seq(Char) /\ b.show \in Nat /\ b.at \in 0..b.width - 1 /\ b.width \in Nat
      /\ b.pos = b.show + b.at /\ b.pos \in Nat /\ b.pos <= Len(b.text) /\ Len(b.text) \in Nat
  BY <1>1 DEF CursorIn, InputBox
<1>3. CASE key = "backspace"
  <2>1. FieldKey(b, key) = IF b.pos > 0 THEN Backspace(b) ELSE b
    BY <1>3 DEF FieldKey
  <2> QED BY <2>1, BackspaceIn
<1>4. CASE key = "left"
  <2>1. FieldKey(b, key) = IF b.pos > 0 THEN IF b.at > 0 THEN CursorLeft(b) ELSE DrawText(CursorLeft(b)) ELSE b
    BY <1>4 DEF FieldKey
  <2> DEFINE d == CursorLeft(b)
  <2>2. CASE b.pos > 0
    <3>1. /\ CursorIn(d, Char) /\ d.text = b.text /\ d.cells = b.cells /\ d.width = b.width
          /\ d.show = IF b.at > 0 THEN b.show ELSE b.show - 1
      BY <1>1, <2>2, CursorLeftIn
    <3>2. FieldKey(b, key) = IF b.at > 0 THEN d ELSE DrawText(d)
      BY <2>1, <2>2
    <3> HIDE DEF d
    <3>3. CASE b.at > 0
      BY <1>1, <3>1, <3>2, <3>3 DEF InputIn
    <3>4. CASE ~(b.at > 0)
      <4>1. \A i \in 0..d.width - 1 : d.show + i > Len(d.text) => b.show + i >= Len(b.text)
        BY <1>2, <3>1, <3>4
      <4>2. d.cells = Field(b.text, b.show, d.width)
        BY <1>1, <3>1
      <4> QED BY <1>2, <3>1, <3>2, <3>4, <4>1, <4>2, Drawn
    <3> QED BY <3>3, <3>4
  <2>3. CASE ~(b.pos > 0)
    BY <2>1, <2>3
  <2> QED BY <2>2, <2>3
<1>5. CASE key = "right"
  <2>1. FieldKey(b, key) = IF b.pos = Len(b.text) THEN b
                           ELSE IF b.at < b.width - 1 THEN CursorRight(b) ELSE DrawText(CursorRight(b))
    BY <1>5 DEF FieldKey
  <2> DEFINE d == CursorRight(b)
  <2>2. CASE b.pos # Len(b.text)
    <3>1. /\ d \in InputBox(b.height, b.text, b.cells) /\ d.height = b.height
          /\ d.pos = b.pos + 1 /\ d.pos = d.show + d.at /\ d.text = b.text /\ d.cells = b.cells
          /\ d.at \in 0..d.width - 1 /\ d.show \in Nat /\ d.width = b.width
          /\ d.show = IF b.at < b.width - 1 THEN b.show ELSE b.show + 1
      BY <1>1, CursorRightIn
    <3>2. FieldKey(b, key) = IF b.at < b.width - 1 THEN d ELSE DrawText(d)
      BY <2>1, <2>2
    <3> HIDE DEF d
    <3>3. d.pos <= Len(d.text)
      BY <1>2, <2>2, <3>1
    <3>4. CursorIn(d, Char)
      BY <1>2, <3>1, <3>3 DEF CursorIn
    <3>5. CASE b.at < b.width - 1
      BY <1>1, <3>1, <3>2, <3>4, <3>5 DEF InputIn
    <3>6. CASE ~(b.at < b.width - 1)
      <4>1. \A i \in 0..d.width - 1 : d.show + i > Len(d.text) => b.show + i >= Len(b.text)
        BY <1>2, <3>1, <3>6
      <4>2. d.cells = Field(b.text, b.show, d.width)
        BY <1>1, <3>1
      <4> QED BY <1>2, <3>2, <3>4, <3>6, <4>1, <4>2, Drawn
    <3> QED BY <3>5, <3>6
  <2>3. CASE b.pos = Len(b.text)
    BY <2>1, <2>3
  <2> QED BY <2>2, <2>3
<1>6. CASE key \notin {"backspace", "left", "right"}
  <2> DEFINE c == IF key = "space" THEN " " ELSE key
  <2>1. FieldKey(b, key) = Insert(b, c)
    BY <1>6 DEF FieldKey
  <2>2. Types(c, Char)
    BY Zenon DEF BlankTypes
  <2> HIDE DEF c
  <2> QED BY <2>1, <2>2, InsertIn
<1> QED BY <1>3, <1>4, <1>5, <1>6

LEMMA InputLaid ==
  ASSUME NEW Char, NEW b, b \in InputBox(b.height, b.text, b.cells), b.text \in Seq(Char)
  PROVE  InputIn(LayInput(b), Char)
<1> DEFINE len == Len(b.text)
           at == SmallerOf(len, b.width - 1)
           cells == [i \in 0..b.width - 1 |-> IF i < at THEN CharAt(b.text, len - at + i) ELSE " "]
           d == LayInput(b)
<1>1. /\ len \in Nat /\ b.width \in Nat \ {0}
  BY DEF InputBox
<1> HIDE DEF len
<1>2. at \in 0..b.width - 1 /\ len - at \in Nat /\ at \in Int /\ len \in Int /\ len - at \in Int
  BY <1>1 DEF SmallerOf
<1>3. at = len \/ at = b.width - 1
  BY DEF SmallerOf
<1>4. d = [b EXCEPT !.pos = len, !.show = len - at, !.at = at, !.cells = cells]
  BY DEF LayInput, len
<1> HIDE DEF at
<1>5. cells = Field(b.text, len - at, b.width)
  <2>1. \A i \in 0..b.width - 1 : i < at <=> len - at + i < Len(b.text)
    BY <1>1, <1>2 DEF len
  <2> QED BY <2>1 DEF Field
<1> HIDE DEF cells, d
<1>6. /\ d \in InputBox(b.height, b.text, cells) /\ d.height = b.height /\ d.text = b.text
      /\ d.cells = cells /\ d.width = b.width /\ d.pos = len /\ d.show = len - at /\ d.at = at
  BY <1>2, <1>4 DEF InputBox
<1>7. d.pos = d.show + d.at /\ d.pos <= Len(d.text)
  BY <1>1, <1>2, <1>6 DEF len
<1>8. CursorIn(d, Char)
  BY <1>2, <1>6, <1>7 DEF CursorIn
<1> QED BY <1>5, <1>6, <1>8 DEF InputIn, d

LEMMA InputAnswers ==
  ASSUME NEW Char, NEW b, InputIn(b, Char), NEW key, NEW l,
         Types(key, Char), BlankTypes(Char)
  PROVE  InputIn(InputKey(b, key, l).d, Char)
<1>1. b \in InputBox(b.height, b.text, b.cells) /\ b.text \in Seq(Char) /\ b.button \in Int
  BY DEF InputIn, CursorIn, InputBox
<1>2. CASE b.button = -1 /\ key \notin NotTyped
  <2>1. InputKey(b, key, l) = Stay(FieldKey(b, key))
    BY <1>2 DEF InputKey
  <2> QED BY <2>1, FieldAnswers DEF Stay
<1>3. CASE ~(b.button = -1 /\ key \notin NotTyped)
  <2> DEFINE up   == [b EXCEPT !.button = IF b.button = -1 THEN 1 ELSE b.button - 1]
             down == [b EXCEPT !.button = IF b.button = 1 THEN -1 ELSE b.button + 1]
  <2>1. InputKey(b, key, l).d \in {b, up, down, LayInput(b)}
    BY <1>3 DEF InputKey, Stay, Return
  <2>2. ASSUME NEW button \in Int
        PROVE  InputIn([b EXCEPT !.button = button], Char)
    <3> DEFINE d == [b EXCEPT !.button = button]
    <3>1. /\ d \in InputBox(b.height, b.text, b.cells) /\ d.height = b.height /\ d.text = b.text
          /\ d.cells = b.cells /\ d.width = b.width /\ d.pos = b.pos /\ d.show = b.show /\ d.at = b.at
      BY <1>1 DEF InputBox
    <3> HIDE DEF d
    <3>2. InputIn(d, Char)
      BY <3>1 DEF InputIn, CursorIn
    <3> QED BY <3>2 DEF d
  <2>3. InputIn(up, Char) /\ InputIn(down, Char)
    <3>1. /\ (IF b.button = -1 THEN 1 ELSE b.button - 1) \in Int
          /\ (IF b.button = 1 THEN -1 ELSE b.button + 1) \in Int
      BY <1>1
    <3> QED BY <2>2, <3>1
  <2>4. InputIn(LayInput(b), Char)
    BY <1>1, InputLaid
  <2> QED BY <2>1, <2>3, <2>4
<1> QED BY <1>2, <1>3

\* An inputbox from its opening on, for a text of characters Char.
InputInit(Char) ==
  /\ \E init \in Seq(Char), width \in Nat \ {0}, height \in Nat : box = dialog_inputbox(init, width, height)
  /\ res = Again
  /\ lines \in Nat
InputNext == \E key \in Key : Pressed(key) /\ Becomes(InputKey(box, key, lines'))
InputSpec(Char) == InputInit(Char) /\ [][InputNext]_vars

\* The field of an inputbox shows the text around the cursor, whatever is typed,
\* deleted and gone over and however often the terminal changes its size
\* (inputbox.c draws the line again only when it thinks it must).  The keys are
\* strings, and a string is a sequence of characters.
THEOREM InputShows ==
  ASSUME NEW Char, \A key \in Key : Types(key, Char), BlankTypes(Char)
  PROVE  InputSpec(Char) => []InputOnScreen(box)
<1>1. InputInit(Char) => InputIn(box, Char)
  <2> SUFFICES ASSUME NEW init \in Seq(Char), NEW width \in Nat \ {0}, NEW height \in Nat,
                      box = dialog_inputbox(init, width, height)
               PROVE  InputIn(box, Char)
    BY DEF InputInit
  <2> DEFINE b == [kind |-> "input", text |-> init, width |-> width, height |-> height,
                   pos |-> 0, show |-> 0, at |-> 0, button |-> -1, cells |-> <<>>]
  <2>1. b \in InputBox(b.height, b.text, b.cells) /\ b.text \in Seq(Char)
    BY DEF InputBox
  <2>2. box = LayInput(b)
    BY DEF dialog_inputbox
  <2> HIDE DEF b
  <2> QED BY <2>1, <2>2, InputLaid
<1>2. InputIn(box, Char) /\ [InputNext]_vars => InputIn(box, Char)'
  <2> SUFFICES ASSUME InputIn(box, Char), [InputNext]_vars
               PROVE  InputIn(box', Char)
    OBVIOUS
  <2>1. CASE UNCHANGED vars
    BY <2>1 DEF vars
  <2>2. ASSUME NEW key \in Key, Becomes(InputKey(box, key, lines'))
        PROVE  InputIn(box', Char)
    BY <2>2, InputAnswers DEF Becomes
  <2> QED BY <2>1, <2>2 DEF InputNext
<1>3. InputIn(box, Char) => InputOnScreen(box)
  BY DEF InputIn, CursorIn, Field, InputOnScreen
<1> QED BY <1>1, <1>2, <1>3, PTL DEF InputSpec

-----------------------------------------------------------------------------
(* The textbox.                                                            *)

TextRecord(t) ==
  [kind : {"text"}, n : Nat \ {0}, ended : {t.ended}, tall : Nat, updates : {t.updates},
   hits : {t.hits}, live : {t.live}, page : Nat, begin : {t.begin}, end : {t.end}, length : Int,
   height : Int, boxh : Int, rows : {t.rows}]
\* A text that is somewhere between its first line and its end.
TextBox(t) == t \in TextRecord(t) /\ t.page <= t.n
\* What reading on and going back leave alone.
SameText(d, t) ==
  /\ d.n = t.n /\ d.ended = t.ended /\ d.tall = t.tall /\ d.updates = t.updates
  /\ d.hits = t.hits /\ d.height = t.height /\ d.boxh = t.boxh /\ d.length = t.length

LEMMA GetLine ==
  ASSUME NEW t, TextBox(t), NEW k \in Nat \ {0}
  PROVE  LET d == get_line(t, k)
         IN /\ TextBox(d) /\ SameText(d, t) /\ d.live = t.live /\ d.begin = t.begin
            /\ d.page = SmallerOf(t.page + k, t.n)
            /\ d.end = IF t.ended THEN t.page + k > t.n ELSE t.page + k >= t.n
<1> DEFINE page == SmallerOf(t.page + k, t.n)
           end == IF t.ended THEN t.page + k > t.n ELSE t.page + k >= t.n
           d == get_line(t, k)
<1>1. t \in TextRecord(t) /\ t.page \in Nat /\ t.n \in Nat \ {0}
  BY DEF TextBox, TextRecord
<1>2. page \in Nat /\ page <= t.n
  BY <1>1 DEF SmallerOf
<1>3. d = [t EXCEPT !.page = page, !.end = end]
  BY DEF get_line
<1> HIDE DEF page, end, d
<1>4. /\ d \in TextRecord(d) /\ SameText(d, t) /\ d.live = t.live /\ d.begin = t.begin
      /\ d.page = page /\ d.end = end
  BY <1>1, <1>2, <1>3 DEF TextRecord, SameText
<1> QED BY <1>2, <1>4 DEF TextBox, SameText, d, page, end

LEMMA BackLines ==
  ASSUME NEW t, TextBox(t), NEW k \in Nat
  PROVE  LET d == back_lines(t, k)
             back == k - (IF k > 0 /\ t.page = t.n /\ t.end THEN 1 ELSE 0)
         IN /\ TextBox(d) /\ SameText(d, t) /\ d.live = t.live
            /\ d.page = LargerOf(t.page - back, 0)
            /\ d.begin => d.page = 0
<1> DEFINE spent == IF k > 0 /\ t.page = t.n /\ t.end THEN 1 ELSE 0
           back == k - spent
           page == LargerOf(t.page - back, 0)
           begin == back > 0 /\ back >= t.page
           end == t.end /\ spent = 0
           d == back_lines(t, k)
<1>1. t \in TextRecord(t) /\ t.page \in Nat /\ t.n \in Nat \ {0} /\ t.page <= t.n
  BY DEF TextBox, TextRecord
<1>2. back \in Nat
  OBVIOUS
<1>3. d = [t EXCEPT !.end = end, !.page = page, !.begin = begin]
  BY DEF back_lines
<1> HIDE DEF back
<1>4. page \in Nat /\ page <= t.n /\ (begin => page = 0)
  BY <1>1, <1>2 DEF LargerOf
<1> HIDE DEF page, begin, end, d
<1>5. /\ d \in TextRecord(d) /\ SameText(d, t) /\ d.live = t.live
      /\ d.page = page /\ d.begin = begin
  BY <1>1, <1>3, <1>4 DEF TextRecord, SameText
<1> QED BY <1>4, <1>5 DEF TextBox, SameText, d, page, back

\* The places on a page of h lines that starts at line top.
OnPage(hits, top, h, n) ==
  {i \in DOMAIN hits : top <= hits[i].line /\ hits[i].line < SmallerOf(top + h, n)}
HaveLines(hits) == \A i \in DOMAIN hits : hits[i].line \in Nat

\* Looking a page ahead and coming back finds the page, whether or not the end of
\* the text is on it and counts as a line.
LEMMA UpdateText ==
  ASSUME NEW t, TextBox(t), NEW h \in Nat \ {0}, HaveLines(t.hits)
  PROVE  LET u == update_text(t, h)
         IN /\ TextBox(u) /\ SameText(u, t) /\ (u.begin => u.page = 0)
            /\ u.live = OnPage(t.hits, u.page, h, t.n)
<1> DEFINE there == get_line(t, h)
           back  == back_lines(there, h)
           live  == {i \in DOMAIN t.hits : back.page <= t.hits[i].line /\ t.hits[i].line < there.page}
           u     == update_text(t, h)
<1>1. t.page \in Nat /\ t.n \in Nat \ {0} /\ t.page <= t.n
  BY DEF TextBox, TextRecord
<1>2. /\ TextBox(there) /\ SameText(there, t)
      /\ there.page = SmallerOf(t.page + h, t.n)
      /\ there.end = IF t.ended THEN t.page + h > t.n ELSE t.page + h >= t.n
  BY GetLine
<1>3. u = [back EXCEPT !.live = live]
  BY DEF update_text
<1> HIDE DEF there
<1> DEFINE spent == IF h > 0 /\ there.page = there.n /\ there.end THEN 1 ELSE 0
<1>4. /\ TextBox(back) /\ SameText(back, there)
      /\ back.page = LargerOf(there.page - (h - spent), 0)
      /\ back.begin => back.page = 0
  BY <1>2, BackLines
<1> HIDE DEF back
<1>5. there.page = SmallerOf(back.page + h, t.n)
  <2>0. there.n = t.n
    BY <1>2 DEF SameText
  <2>1. CASE t.page + h < t.n
    <3>1. there.page = t.page + h /\ there.page # there.n
      BY <1>1, <1>2, <2>0, <2>1 DEF SmallerOf
    <3>2. spent = 0
      BY <3>1
    <3> HIDE DEF spent
    <3> QED BY <1>1, <1>4, <2>1, <3>1, <3>2 DEF SmallerOf, LargerOf
  <2>2. CASE t.page + h >= t.n
    <3>1. there.page = t.n
      BY <1>1, <1>2, <2>2 DEF SmallerOf
    <3>2. spent \in {0, 1}
      OBVIOUS
    <3>3. t.page + h > t.n => spent = 1
      <4>1. t.page + h > t.n => there.end
        BY <1>1, <1>2, <2>2
      <4> QED BY <2>0, <3>1, <4>1
    <3> HIDE DEF spent
    <3> QED BY <1>1, <1>4, <2>2, <3>1, <3>2, <3>3 DEF SmallerOf, LargerOf
  <2> QED BY <1>1, <2>1, <2>2
<1> DEFINE onPage == OnPage(t.hits, back.page, h, t.n)
<1>6. live = onPage
  BY <1>5 DEF OnPage
<1> HIDE DEF live, onPage, u
<1>7. /\ u \in TextRecord(u) /\ SameText(u, back) /\ u.live = live /\ u.page = back.page
      /\ u.begin = back.begin
  BY <1>3, <1>4 DEF TextBox, TextRecord, SameText
<1>8. TextBox(u) /\ SameText(u, t)
  BY <1>2, <1>4, <1>7 DEF TextBox, SameText
<1> QED BY <1>4, <1>6, <1>7, <1>8 DEF u, onPage

\* A text with room for it, and one that is shown.
Roomy(t)  == TextBox(t) /\ HaveLines(t.hits) /\ t.boxh \in Nat \ {0} /\ t.height = t.boxh + 4
TextIn(t) == Roomy(t) /\ t.length \in Nat \ {0} /\ TextOnScreen(t)

\* The lines of a page that is printed from line top on.
Page(top, h, n) == [r \in 0..h - 1 |-> IF top + r < n THEN top + r ELSE -1]
LEMMA PageShows ==
  ASSUME NEW h \in Nat \ {0}, NEW n \in Nat \ {0}, NEW top \in 0..n
  PROVE  LET rows == Page(top, h, n)
             shown == {rows[r] : r \in DOMAIN rows} \ {-1}
         IN /\ shown = {i \in Nat : top <= i /\ i < SmallerOf(top + h, n)}
            /\ rows[0] = IF top < n THEN top ELSE -1
            /\ \A r \in DOMAIN rows :
                 rows[r] = IF rows[0] # -1 /\ rows[0] + r < n THEN rows[0] + r ELSE -1
<1> DEFINE rows == Page(top, h, n)
           shown == {rows[r] : r \in DOMAIN rows} \ {-1}
<1>1. /\ DOMAIN rows = 0..h - 1
      /\ \A r \in 0..h - 1 : rows[r] = IF top + r < n THEN top + r ELSE -1
  BY DEF Page
<1> HIDE DEF rows
<1>2. rows[0] = IF top < n THEN top ELSE -1
  BY <1>1
<1>3. \A r \in 0..h - 1 : rows[r] = IF rows[0] # -1 /\ rows[0] + r < n THEN rows[0] + r ELSE -1
  BY <1>1, <1>2
<1>4. ASSUME NEW i \in shown PROVE i \in Nat /\ top <= i /\ i < SmallerOf(top + h, n)
  <2>1. PICK r \in 0..h - 1 : i = rows[r] /\ i # -1
    BY <1>1
  <2> QED BY <1>1, <2>1 DEF SmallerOf
<1>5. ASSUME NEW i \in Nat, top <= i, i < SmallerOf(top + h, n) PROVE i \in shown
  <2>1. i - top \in 0..h - 1 /\ top + (i - top) = i /\ i < n /\ i # -1
    BY <1>5 DEF SmallerOf
  <2>2. rows[i - top] = i
    BY <1>1, <2>1
  <2> QED BY <1>1, <2>1, <2>2
<1> QED BY <1>1, <1>2, <1>3, <1>4, <1>5 DEF rows

LEMMA PagePrinted ==
  ASSUME NEW t, Roomy(t), t.begin => t.page = 0
  PROVE  TextIn(print_page(t)) /\ print_page(t).tall = t.tall
<1> DEFINE h == t.boxh
           u == IF t.updates THEN update_text(t, h) ELSE t
           there == get_line(u, h)
           printed == u.n - u.page + (IF u.ended THEN 1 ELSE 0)
           length == IF there.end THEN LargerOf(printed, 1) ELSE h
           rows == Page(u.page, h, u.n)
           d == print_page(t)
<1>1. /\ TextBox(u) /\ SameText(u, t) /\ (u.begin => u.page = 0)
      /\ t.updates => u.live = OnPage(t.hits, u.page, h, t.n)
  BY UpdateText DEF Roomy, SameText
<1>2. d = [there EXCEPT !.length = length, !.rows = rows]
  BY DEF print_page, Page
<1> HIDE DEF u, d
<1>3. h \in Nat \ {0} /\ u.n \in Nat \ {0} /\ u.page \in 0..u.n
  BY <1>1 DEF Roomy, TextBox, TextRecord
<1>4. /\ TextBox(there) /\ SameText(there, u) /\ there.live = u.live /\ there.begin = u.begin
      /\ there.page = SmallerOf(u.page + h, u.n)
      /\ there.end = IF u.ended THEN u.page + h > u.n ELSE u.page + h >= u.n
  BY <1>1, GetLine DEF Roomy
<1> HIDE DEF there
<1>5. length \in Nat \ {0} /\ length \in Int
  BY <1>3 DEF LargerOf, Roomy
<1> HIDE DEF length, rows
<1>6. /\ d \in TextRecord(d) /\ d.n = there.n /\ d.hits = there.hits /\ d.live = there.live
      /\ d.tall = there.tall /\ d.updates = there.updates /\ d.height = there.height
      /\ d.boxh = there.boxh /\ d.page = there.page /\ d.begin = there.begin /\ d.end = there.end
      /\ d.length = length /\ d.rows = rows
  BY <1>2, <1>4, <1>5 DEF TextBox, TextRecord
<1>7. /\ d.n = u.n /\ d.hits = t.hits /\ d.tall = t.tall /\ d.updates = t.updates
      /\ d.height = t.height /\ d.boxh = t.boxh /\ d.live = u.live /\ d.begin = u.begin
  BY <1>1, <1>4, <1>6 DEF SameText
<1>8. TextBox(d)
  BY <1>4, <1>6 DEF TextBox
<1> DEFINE shown == {d.rows[r] : r \in DOMAIN d.rows} \ {-1}
<1>9. /\ shown = {i \in Nat : u.page <= i /\ i < SmallerOf(u.page + h, d.n)}
      /\ d.rows[0] = IF u.page < d.n THEN u.page ELSE -1
      /\ \A r \in DOMAIN d.rows :
           d.rows[r] = IF d.rows[0] # -1 /\ d.rows[0] + r < d.n THEN d.rows[0] + r ELSE -1
  BY <1>3, <1>6, <1>7, PageShows DEF Roomy, rows
<1> HIDE DEF shown
<1>10. d.begin => d.rows[0] = 0
  BY <1>1, <1>3, <1>7, <1>9
<1>11. (d.end => u.page + h >= u.n) /\ (u.page + h > u.n => d.end)
  <2> DEFINE over == u.page + h > u.n
             full == u.page + h >= u.n
  <2>1. d.end = IF u.ended THEN over ELSE full
    BY <1>4, <1>6
  <2>2. over => full
    BY <1>3
  <2>3. (full => u.page + h >= u.n) /\ (u.page + h > u.n => over)
    OBVIOUS
  <2> HIDE DEF over, full
  <2> QED BY <2>1, <2>2, <2>3, Zenon
<1>12. d.end => shown = {} \/ d.n - 1 \in shown
  <2>1. d.end => u.page + h >= u.n
    BY <1>11
  <2>2. CASE u.page = u.n
    BY <1>3, <1>7, <1>9, <2>2 DEF SmallerOf
  <2>3. CASE u.page < u.n
    BY <1>3, <1>7, <1>9, <2>1, <2>3 DEF SmallerOf
  <2> QED BY <1>3, <2>2, <2>3
<1>13. shown = {} => d.end
  <2>1. CASE u.page = u.n
    BY <1>3, <1>11, <2>1
  <2>2. CASE u.page < u.n
    <3>1. u.page \in shown
      BY <1>3, <1>7, <1>9, <2>2 DEF SmallerOf
    <3> QED BY <3>1
  <2> QED BY <1>3, <2>1, <2>2
<1>14. d.updates => d.live = {i \in DOMAIN d.hits : d.hits[i].line \in shown}
  <2> SUFFICES ASSUME d.updates PROVE d.live = {i \in DOMAIN d.hits : d.hits[i].line \in shown}
    OBVIOUS
  <2>1. d.live = OnPage(d.hits, u.page, h, d.n)
    BY <1>1, <1>7 DEF SameText
  <2>2. \A i \in DOMAIN d.hits : d.hits[i].line \in Nat
    BY <1>7 DEF Roomy, HaveLines
  <2> QED BY <1>9, <2>1, <2>2 DEF OnPage
<1>15. TextOnScreen(d)
  BY <1>9, <1>10, <1>12, <1>13, <1>14 DEF TextOnScreen, shown
<1> QED BY <1>5, <1>6, <1>7, <1>8, <1>15 DEF TextIn, Roomy, d

LEMMA RefreshedIn ==
  ASSUME NEW t, Roomy(t), NEW k \in Nat
  PROVE  TextIn(Refreshed(t, k)) /\ Refreshed(t, k).tall = t.tall
<1> DEFINE d == back_lines(t, k)
<1>1. TextBox(d) /\ SameText(d, t) /\ (d.begin => d.page = 0)
  BY BackLines DEF Roomy
<1>2. Refreshed(t, k) = print_page(d)
  BY DEF Refreshed
<1> HIDE DEF d
<1>3. Roomy(d) /\ d.tall = t.tall
  BY <1>1 DEF Roomy, SameText
<1> QED BY <1>1, <1>2, <1>3, PagePrinted

\* The place is set by hand.
LEMMA Placed ==
  ASSUME NEW t, Roomy(t), NEW d, d \in TextRecord(d), d.page \in 0..t.n, d.n = t.n,
         d.hits = t.hits, d.boxh = t.boxh, d.height = t.height
  PROVE  Roomy(d)
BY DEF Roomy, TextBox, TextRecord

LEMMA TextMoves ==
  ASSUME NEW t, TextIn(t), NEW key
  PROVE  TextIn(TextMove(t, key)) /\ TextMove(t, key).tall = t.tall
<1>1. /\ Roomy(t) /\ t.length \in Nat \ {0} /\ t.boxh \in Nat \ {0} /\ t.n \in Nat \ {0}
      /\ t.page \in 0..t.n /\ t \in TextRecord(t)
  BY DEF TextIn, Roomy, TextBox, TextRecord
<1>2. CASE key = "home"
  <2> DEFINE d == [t EXCEPT !.begin = TRUE, !.page = 0]
  <2>1. /\ d \in TextRecord(d) /\ d.n = t.n /\ d.hits = t.hits /\ d.boxh = t.boxh
        /\ d.height = t.height /\ d.page = 0 /\ d.tall = t.tall
    BY <1>1 DEF TextRecord
  <2>3. TextMove(t, key) = IF t.begin THEN t ELSE print_page(d)
    BY <1>2 DEF TextMove
  <2> HIDE DEF d
  <2>4. Roomy(d)
    BY <1>1, <2>1, Placed
  <2> QED BY <2>1, <2>3, <2>4, PagePrinted
<1>3. CASE key = "end"
  <2> DEFINE d == [t EXCEPT !.end = TRUE, !.page = t.n]
  <2>1. /\ d \in TextRecord(d) /\ d.n = t.n /\ d.hits = t.hits /\ d.boxh = t.boxh
        /\ d.height = t.height /\ d.page = t.n /\ d.tall = t.tall
    BY <1>1 DEF TextRecord
  <2>3. TextMove(t, key) = Refreshed(d, t.boxh)
    BY <1>3 DEF TextMove
  <2> HIDE DEF d
  <2>4. Roomy(d)
    BY <1>1, <2>1, Placed
  <2> QED BY <1>1, <2>1, <2>3, <2>4, RefreshedIn
<1>4. CASE key = "up"
  <2>1. TextMove(t, key) = IF t.begin THEN t ELSE Refreshed(t, t.length + 1)
    BY <1>4 DEF TextMove, TextUp
  <2> QED BY <1>1, <2>1, RefreshedIn
<1>5. CASE key = "ppage"
  <2>1. TextMove(t, key) = IF t.begin THEN t ELSE Refreshed(t, t.length + t.boxh)
    BY <1>5 DEF TextMove
  <2> QED BY <1>1, <2>1, RefreshedIn
<1>6. CASE key = "down"
  <2>1. TextMove(t, key) = IF t.end THEN t ELSE Refreshed(t, t.length - 1)
    BY <1>6 DEF TextMove
  <2> QED BY <1>1, <2>1, RefreshedIn
<1>7. CASE key \in {"npage", "space"}
  <2> DEFINE d == [t EXCEPT !.begin = FALSE]
  <2>1. /\ d \in TextRecord(d) /\ d.n = t.n /\ d.hits = t.hits /\ d.boxh = t.boxh
        /\ d.height = t.height /\ d.page = t.page /\ d.tall = t.tall
    BY <1>1 DEF TextRecord
  <2>2. ~d.begin
    BY <1>1 DEF TextRecord
  <2>3. TextMove(t, key) = IF t.end THEN t ELSE print_page(d)
    BY <1>7 DEF TextMove
  <2> HIDE DEF d
  <2>4. Roomy(d)
    BY <1>1, <2>1, <2>2, Placed
  <2> QED BY <1>1, <2>1, <2>2, <2>3, <2>4, PagePrinted
<1>8. CASE key \notin {"home", "end", "up", "ppage", "down", "npage", "space"}
  BY <1>8 DEF TextMove
<1> QED BY <1>2, <1>3, <1>4, <1>5, <1>6, <1>7, <1>8

\* A box that has a row for the text.
Room(tall, l) == IF tall # 0 THEN tall > 4 ELSE l > 8

LEMMA TextLaid ==
  ASSUME NEW t, TextBox(t), HaveLines(t.hits), NEW l \in Nat, Room(t.tall, l),
         t.begin => t.page = 0
  PROVE  TextIn(LayText(t, l)) /\ LayText(t, l).tall = t.tall
<1> DEFINE height == IF t.tall # 0 THEN t.tall ELSE l - 4
           d == [t EXCEPT !.height = height, !.boxh = height - 4]
<1>1. t \in TextRecord(t) /\ t.tall \in Nat
  BY DEF TextBox, TextRecord
<1>2. height \in Int /\ height - 4 \in Nat \ {0} /\ height - 4 \in Int /\ height = height - 4 + 4
  BY <1>1 DEF Room
<1>3. LayText(t, l) = print_page(d)
  BY DEF LayText
<1> HIDE DEF height
<1>4. /\ d \in TextRecord(d) /\ d.n = t.n /\ d.page = t.page /\ d.hits = t.hits /\ d.tall = t.tall
      /\ d.begin = t.begin /\ d.height = height /\ d.boxh = height - 4
  BY <1>1, <1>2 DEF TextRecord
<1> HIDE DEF d
<1>5. Roomy(d)
  BY <1>2, <1>4 DEF Roomy, TextBox
<1> QED BY <1>3, <1>4, <1>5, PagePrinted

LEMMA TextAnswers ==
  ASSUME NEW t, TextIn(t), NEW key, NEW l \in Nat,
         key = "resize" /\ TextFits(l) => Room(t.tall, l)
  PROVE  LET out == TextKey(t, key, l) IN out.res = Again => TextIn(out.d)
<1> DEFINE back == back_lines(t, t.height)
           out == TextKey(t, key, l)
<1>1. /\ Roomy(t) /\ t.height \in Nat /\ HaveLines(t.hits)
  BY DEF TextIn, Roomy
<1>2. \/ out.d \in {t, TextMove(t, key)}
      \/ key = "resize" /\ TextFits(l) /\ out.d = LayText(back, l)
      \/ out.res = TooSmall
  <2> DEFINE hit == \E i \in t.live : key = HitKey(i)
             place == CHOOSE i \in t.live : key = HitKey(i)
  <2>1. CASE hit
    <3>1. out = Return(t, place)
      BY <2>1 DEF TextKey
    <3> QED BY <3>1 DEF Return
  <2>2. CASE ~hit /\ key \in {"x", "enter", "esc esc"}
    <3>1. out = Return(t, 0)
      BY <2>2 DEF TextKey
    <3> QED BY <3>1 DEF Return
  <2>3. CASE ~hit /\ key = "resize"
    <3>1. out = IF TextFits(l) THEN Stay(LayText(back, l)) ELSE Return(back, TooSmall)
      BY <2>3 DEF TextKey
    <3> HIDE DEF back
    <3> QED BY <2>3, <3>1 DEF Return, Stay
  <2>4. CASE ~hit /\ key \notin {"x", "enter", "esc esc", "resize"}
    <3>1. out = Stay(TextMove(t, key))
      BY <2>4 DEF TextKey
    <3> QED BY <3>1 DEF Stay
  <2> QED BY <2>1, <2>2, <2>3, <2>4
<1>3. TooSmall # Again
  BY DEF TooSmall, Again
<1>4. TextIn(TextMove(t, key))
  BY TextMoves
<1>5. TextBox(back) /\ SameText(back, t) /\ (back.begin => back.page = 0)
  BY <1>1, BackLines DEF Roomy
<1> HIDE DEF back, out
<1>6. back.hits = t.hits /\ back.tall = t.tall
  BY <1>5 DEF SameText
<1>7. key = "resize" /\ TextFits(l) => TextIn(LayText(back, l))
  BY <1>1, <1>5, <1>6, TextLaid
<1> QED BY <1>2, <1>3, <1>4, <1>7 DEF out

\* A textbox from its opening on.
TextInit ==
  /\ lines \in Nat
  /\ \E n \in Nat \ {0}, tall, vscroll \in Nat, ended, updates \in BOOLEAN,
        hits \in Seq([line : Nat, target : Int]) :
       /\ Room(tall, lines)
       /\ box = dialog_textbox(n, ended, tall, updates, hits, vscroll, lines)
  /\ res = Again
TextNext ==
  \E key \in Key :
    /\ Pressed(key)
    /\ key = "resize" /\ TextFits(lines') => Room(box.tall, lines')
    /\ Becomes(TextKey(box, key, lines'))
TextSpec == TextInit /\ [][TextNext]_vars

\* While a textbox is open it shows its lines in order and without a gap, knows
\* whether it shows the first and the last, and the keys to jump with are those of
\* the places on the page, for a text of any length that is left and opened
\* anywhere (textbox.c finds a page by reading on and going back).  A terminal of
\* 8 lines leaves no row for a text and is excepted.
THEOREM TextShows == TextSpec => [](res = Again => TextOnScreen(box))
<1> DEFINE Inv == lines \in Nat /\ (res = Again => TextIn(box))
<1>1. TextInit => Inv
  <2> SUFFICES ASSUME lines \in Nat, NEW n \in Nat \ {0}, NEW tall \in Nat, NEW vscroll \in Nat,
                      NEW ended \in BOOLEAN, NEW updates \in BOOLEAN,
                      NEW hits \in Seq([line : Nat, target : Int]), Room(tall, lines),
                      box = dialog_textbox(n, ended, tall, updates, hits, vscroll, lines)
               PROVE  TextIn(box)
    BY DEF TextInit
  <2> DEFINE t == [kind |-> "text", n |-> n, ended |-> ended, tall |-> tall, updates |-> updates,
                   hits |-> hits, live |-> {}, page |-> 0, begin |-> vscroll = 0, end |-> FALSE,
                   length |-> 0, height |-> 0, boxh |-> 0, rows |-> <<>>]
             d == get_line(t, vscroll)
  <2>1. /\ t \in TextRecord(t) /\ t.hits = hits /\ t.tall = tall /\ t.page = 0
        /\ t.begin = (vscroll = 0) /\ t.n = n
    BY DEF TextRecord
  <2>2. box = LayText(d, lines)
    BY DEF dialog_textbox
  <2> HIDE DEF t
  <2>3. TextBox(t)
    BY <2>1 DEF TextBox
  <2>4. HaveLines(hits)
    <3>1. \A i \in DOMAIN hits : hits[i] \in [line : Nat, target : Int]
      BY ElementOfSeq, LenProperties
    <3> QED BY <3>1 DEF HaveLines
  <2>5. TextBox(d) /\ d.hits = hits /\ d.tall = tall /\ (d.begin => d.page = 0)
    <3>1. CASE vscroll = 0
      BY <2>1, <2>3, <3>1 DEF get_line
    <3>2. CASE vscroll # 0
      <4>1. TextBox(d) /\ SameText(d, t) /\ d.begin = t.begin
        BY <2>3, <3>2, GetLine
      <4> HIDE DEF d
      <4>2. ~d.begin
        BY <2>1, <3>2, <4>1
      <4> QED BY <2>1, <4>1, <4>2 DEF SameText
    <3> QED BY <3>1, <3>2
  <2> HIDE DEF d
  <2> QED BY <2>2, <2>4, <2>5, TextLaid
<1>2. Inv /\ [TextNext]_vars => Inv'
  <2> SUFFICES ASSUME Inv, [TextNext]_vars PROVE Inv'
    OBVIOUS
  <2>1. CASE UNCHANGED vars
    BY <2>1 DEF vars
  <2>2. ASSUME NEW key \in Key, Pressed(key),
               key = "resize" /\ TextFits(lines') => Room(box.tall, lines'),
               Becomes(TextKey(box, key, lines'))
        PROVE  Inv'
    <3>1. lines' \in Nat /\ res = Again
      BY <2>2 DEF Pressed
    <3> QED BY <2>2, <3>1, TextAnswers DEF Becomes
  <2> QED BY <2>1, <2>2 DEF TextNext
<1>3. Inv => (res = Again => TextOnScreen(box))
  BY DEF TextIn
<1> QED BY <1>1, <1>2, <1>3, PTL DEF TextSpec


-----------------------------------------------------------------------------
(* The line of nconfig to type into.                                       *)

FormBox(text, cells) ==
  [kind : {"form"}, text : {text}, width : Nat \ {0}, pos : Int, at : Int, cells : {cells}]
\* The cursor is in the field, or one key has just moved it out: DrawField brings
\* it back.
FormMoved(b, Char) ==
  /\ b \in FormBox(b.text, b.cells) /\ b.text \in Seq(Char)
  /\ b.pos \in 0..Len(b.text) /\ b.at <= b.pos
FormIn(b, Char) == FormMoved(b, Char) /\ FieldOnScreen(b)

\* Writing the field again shows the text around the cursor.
LEMMA FieldDrawn ==
  ASSUME NEW Char, NEW b, FormMoved(b, Char)
  PROVE  FormIn(DrawField(b), Char)
<1> DEFINE at == Between(0, b.at, b.width - 1)
           cells == Field(b.text, b.pos - at, b.width)
           d == DrawField(b)
<1>1. /\ b.width \in Nat \ {0} /\ b.pos \in Int /\ b.at \in Int /\ Len(b.text) \in Nat
      /\ b.pos \in 0..Len(b.text) /\ b.at <= b.pos
      /\ b \in FormBox(b.text, b.cells) /\ b.text \in Seq(Char)
  BY DEF FormMoved, FormBox
<1>2. at \in 0..b.width - 1 /\ at <= b.pos /\ at \in Int
  BY <1>1 DEF Between, SmallerOf, LargerOf
<1>3. d = [b EXCEPT !.at = at, !.cells = cells]
  BY DEF DrawField, Field
<1> HIDE DEF at, cells, d
<1>4. /\ d \in FormBox(b.text, cells) /\ d.text = b.text /\ d.width = b.width /\ d.pos = b.pos
      /\ d.at = at /\ d.cells = cells
  BY <1>1, <1>2, <1>3 DEF FormBox
<1>5. d.pos \in 0..Len(d.text) /\ d.at <= d.pos /\ d.pos \in d.at..Len(d.text) /\ d.at \in 0..d.width - 1
  BY <1>1, <1>2, <1>4
<1>6. FormMoved(d, Char)
  BY <1>1, <1>4, <1>5 DEF FormMoved
<1>7. d.cells = Field(d.text, d.pos - d.at, d.width)
  BY <1>4 DEF cells
<1>8. FieldOnScreen(d)
  BY <1>5, <1>7, Zenon DEF FieldOnScreen, Field
<1> QED BY <1>6, <1>8 DEF FormIn, d

\* A change of the text and of the cursor, both within the text.
Changed(b, text, pos, at) == [b EXCEPT !.text = text, !.pos = pos, !.at = at]
LEMMA FormChanged ==
  ASSUME NEW Char, NEW b, FormMoved(b, Char), NEW text \in Seq(Char),
         NEW pos \in 0..Len(text), NEW at \in Int, at <= pos
  PROVE  LET d == Changed(b, text, pos, at)
         IN FormMoved(d, Char) /\ d.text = text /\ d.pos = pos /\ d.at = at
<1> DEFINE d == Changed(b, text, pos, at)
<1>1. b \in FormBox(b.text, b.cells) /\ pos \in Int
  BY DEF FormMoved
<1>2. d \in FormBox(text, b.cells) /\ d.text = text /\ d.pos = pos /\ d.at = at /\ d.cells = b.cells
  BY <1>1 DEF FormBox, Changed
<1> HIDE DEF d
<1>3. FormMoved(d, Char)
  BY <1>2 DEF FormMoved
<1> QED BY <1>2, <1>3 DEF d

\* The same where only the cursor moves, and where only the text changes.
MovedTo(b, pos, at) == [b EXCEPT !.pos = pos, !.at = at]
LEMMA FormMovedTo ==
  ASSUME NEW Char, NEW b, FormMoved(b, Char),
         NEW pos \in 0..Len(b.text), NEW at \in Int, at <= pos
  PROVE  LET d == MovedTo(b, pos, at)
         IN FormMoved(d, Char) /\ d.text = b.text /\ d.pos = pos
<1> DEFINE d == MovedTo(b, pos, at)
<1>1. b \in FormBox(b.text, b.cells) /\ pos \in Int
  BY DEF FormMoved
<1>2. d \in FormBox(b.text, b.cells) /\ d.text = b.text /\ d.pos = pos /\ d.at = at /\ d.cells = b.cells
  BY <1>1 DEF FormBox, MovedTo
<1> HIDE DEF d
<1>3. FormMoved(d, Char)
  BY <1>2 DEF FormMoved
<1> QED BY <1>2, <1>3 DEF d
Retyped(b, text) == [b EXCEPT !.text = text]
LEMMA FormRetyped ==
  ASSUME NEW Char, NEW b, FormMoved(b, Char), NEW text, text \in Seq(Char), b.pos <= Len(text)
  PROVE  FormMoved(Retyped(b, text), Char)
<1> DEFINE d == Retyped(b, text)
<1>1. b \in FormBox(b.text, b.cells) /\ b.pos \in 0..Len(text) /\ b.at <= b.pos
  BY DEF FormMoved
<1>2. /\ d \in FormBox(text, b.cells) /\ d.text = text /\ d.pos = b.pos /\ d.at = b.at
      /\ d.cells = b.cells
  BY <1>1 DEF FormBox, Retyped
<1> HIDE DEF d
<1>3. FormMoved(d, Char)
  BY <1>1, <1>2 DEF FormMoved
<1> QED BY <1>3 DEF d

LEMMA FormMovedBy ==
  ASSUME NEW Char, NEW b, FormMoved(b, Char), NEW n \in {1, -1}
  PROVE  LET d == MovedBy(b, n)
         IN /\ FormMoved(d, Char) /\ d.text = b.text
            /\ b.pos + n \in 0..Len(b.text) => d.pos = b.pos + n
<1> DEFINE d == MovedBy(b, n)
<1>1. b.text \in Seq(Char) /\ b.pos \in Int /\ b.at \in Int /\ b.at <= b.pos
  BY DEF FormMoved, FormBox
<1>2. CASE b.pos + n \in 0..Len(b.text)
  <2>1. d = MovedTo(b, b.pos + n, b.at + n)
    BY <1>2 DEF MovedBy, MovedTo
  <2>2. b.at + n \in Int /\ b.at + n <= b.pos + n
    BY <1>1
  <2> QED BY <1>1, <1>2, <2>1, <2>2, FormMovedTo
<1>3. CASE ~(b.pos + n \in 0..Len(b.text))
  <2>1. d = b
    BY <1>3 DEF MovedBy
  <2> QED BY <1>3, <2>1
<1> QED BY <1>2, <1>3

\* What a key that is typed makes of the text and the cursor.
LEMMA FormEdited ==
  ASSUME NEW Char, NEW b, FormMoved(b, Char), NEW key, Types(key, Char), BlankTypes(Char)
  PROVE  FormMoved(Edited(b, key), Char)
<1>1. b.text \in Seq(Char) /\ b.pos \in 0..Len(b.text) /\ b.at \in Int /\ b.at <= b.pos /\ Len(b.text) \in Nat
  BY DEF FormMoved, FormBox
<1>2. CASE key = "backspace"
  <2>1. CASE b.pos = 0
    BY <1>2, <2>1 DEF Edited
  <2>2. CASE b.pos # 0
    <3> DEFINE d == MovedBy(b, -1)
               new == Without(b.text, b.pos - 1)
    <3>1. FormMoved(d, Char) /\ d.text = b.text /\ d.pos = b.pos - 1
      <4>1. b.pos + (-1) \in 0..Len(b.text) /\ b.pos + (-1) = b.pos - 1 /\ -1 \in {1, -1}
        BY <1>1, <2>2
      <4> QED BY <4>1, FormMovedBy
    <3>2. new \in Seq(Char) /\ Len(new) = Len(b.text) - 1
      <4>1. b.pos - 1 \in 0..Len(b.text) - 1
        BY <1>1, <2>2
      <4> QED BY <1>1, <4>1, WithoutLength
    <3>3. Edited(b, key) = Retyped(d, Without(d.text, b.pos - 1))
      BY <1>2, <2>2 DEF Edited, Retyped
    <3> HIDE DEF d
    <3>4. Edited(b, key) = Retyped(d, new)
      BY <3>1, <3>3
    <3> HIDE DEF new
    <3>5. d.pos <= Len(new)
      BY <1>1, <3>1, <3>2
    <3> QED BY <3>1, <3>2, <3>4, <3>5, FormRetyped
  <2> QED BY <2>1, <2>2
<1>3. CASE key = "del"
  <2>1. CASE b.pos = Len(b.text)
    BY <1>3, <2>1 DEF Edited
  <2>2. CASE b.pos # Len(b.text)
    <3> DEFINE new == Without(b.text, b.pos)
    <3>1. new \in Seq(Char) /\ Len(new) = Len(b.text) - 1
      <4>1. b.pos \in 0..Len(b.text) - 1
        BY <1>1, <2>2
      <4> QED BY <1>1, <4>1, WithoutLength
    <3>2. Edited(b, key) = Retyped(b, new)
      BY <1>3, <2>2 DEF Edited, Retyped
    <3> HIDE DEF new
    <3>3. b.pos <= Len(new)
      BY <1>1, <2>2, <3>1
    <3> QED BY <3>1, <3>2, <3>3, FormRetyped
  <2> QED BY <2>1, <2>2
<1>4. CASE key \in {"up", "right"}
  BY <1>4, FormMovedBy DEF Edited
<1>5. CASE key \in {"down", "left"}
  BY <1>5, FormMovedBy DEF Edited
<1>6. CASE key = "home"
  <2>1. Edited(b, key) = MovedTo(b, 0, 0)
    BY <1>6 DEF Edited, MovedTo
  <2> QED BY <1>1, <2>1, FormMovedTo
<1>7. CASE key = "end"
  <2>1. Edited(b, key) = MovedTo(b, Len(b.text), Len(b.text))
    BY <1>7 DEF Edited, MovedTo
  <2> QED BY <1>1, <2>1, FormMovedTo
<1>8. CASE key \notin FormMoves
  <2> DEFINE c == IF key = "space" THEN " " ELSE key
             new == With(b.text, b.pos, c)
  <2>1. c \in Seq(Char) /\ Len(c) \in Nat \ {0}
    <3>1. c \in Seq(Char) \ {<<>>}
      BY Zenon DEF Types, BlankTypes
    <3> HIDE DEF c
    <3> QED BY <3>1
  <2>2. Edited(b, key) = Changed(b, new, b.pos + 1, b.at + 1)
    BY <1>8 DEF Edited, FormMoves, Changed
  <2> HIDE DEF c
  <2>3. new \in Seq(Char) /\ Len(new) = Len(b.text) + Len(c)
    BY <1>1, <2>1, WithLength
  <2> HIDE DEF new
  <2>4. b.pos + 1 \in 0..Len(new) /\ b.at + 1 \in Int /\ b.at + 1 <= b.pos + 1
    BY <1>1, <2>1, <2>3
  <2> QED BY <2>2, <2>3, <2>4, FormChanged
<1> QED BY <1>2, <1>3, <1>4, <1>5, <1>6, <1>7, <1>8 DEF FormMoves

\* A line of nconfig from its opening on.
FormInit(Char) ==
  /\ \E init \in Seq(Char), width \in Nat \ {0} : box = form_inputbox(init, width)
  /\ res = Again
  /\ lines \in Nat
FormNext == \E key \in Key : Pressed(key) /\ Becomes(FormKey(box, key))
FormSpec(Char) == FormInit(Char) /\ [][FormNext]_vars

\* The line of nconfig to type into shows the text around the cursor, and the cursor
\* stays in it, for texts and fields of any length (dialog_inputbox counts the
\* cursor's place in the text and that in the field apart, lets the second run out
\* of the field and brings it back when it draws).
THEOREM FormShows ==
  ASSUME NEW Char, \A key \in Key : Types(key, Char), BlankTypes(Char)
  PROVE  FormSpec(Char) => []FieldOnScreen(box)
<1>1. FormInit(Char) => FormIn(box, Char)
  <2> SUFFICES ASSUME NEW init \in Seq(Char), NEW width \in Nat \ {0}, box = form_inputbox(init, width)
               PROVE  FormIn(box, Char)
    BY DEF FormInit
  <2> DEFINE b == [kind |-> "form", text |-> init, width |-> width, pos |-> Len(init), at |-> Len(init), cells |-> <<>>]
  <2>1. FormMoved(b, Char)
    <3>1. Len(init) \in Nat
      OBVIOUS
    <3>2. b \in FormBox(init, <<>>) /\ b.text = init /\ b.pos = Len(init) /\ b.at = Len(init) /\ b.cells = <<>>
      BY <3>1 DEF FormBox
    <3> HIDE DEF b
    <3> QED BY <3>1, <3>2 DEF FormMoved
  <2>2. box = DrawField(b)
    BY DEF form_inputbox
  <2> HIDE DEF b
  <2> QED BY <2>1, <2>2, FieldDrawn
<1>2. FormIn(box, Char) /\ [FormNext]_vars => FormIn(box, Char)'
  <2> SUFFICES ASSUME FormIn(box, Char), [FormNext]_vars
               PROVE  FormIn(box', Char)
    OBVIOUS
  <2>1. CASE UNCHANGED vars
    BY <2>1 DEF vars
  <2>2. ASSUME NEW key \in Key, Becomes(FormKey(box, key))
        PROVE  FormIn(box', Char)
    <3>1. FormKey(box, key).d \in {box, DrawField(Edited(box, key))}
      BY DEF FormKey, Stay, Return
    <3>2. FormMoved(Edited(box, key), Char)
      BY FormEdited DEF FormIn
    <3> QED BY <2>2, <3>1, <3>2, FieldDrawn DEF Becomes
  <2> QED BY <2>1, <2>2 DEF FormNext
<1>3. FormIn(box, Char) => FieldOnScreen(box)
  BY DEF FormIn
<1> QED BY <1>1, <1>2, <1>3, PTL DEF FormSpec

-----------------------------------------------------------------------------
(* The text of nconfig to scroll.                                          *)

ScrollBox == [kind : {"scroll"}, total : Nat, start : Int, rows : Nat]
ScrollIn(w) == w \in ScrollBox /\ w.rows <= w.total /\ ScrollOnScreen(w)

ScrollInit == /\ \E total, l \in Nat : box = show_scroll_win(total, l)
              /\ res = Again
              /\ lines \in Nat
ScrollNext == \E key \in Key : Pressed(key) /\ Becomes(ScrollKey(box, key))
ScrollSpec == ScrollInit /\ [][ScrollNext]_vars

\* A text that is scrolled by lines and pages is never scrolled past either end,
\* however long it is and however small the window (show_scroll_win goes down a page
\* of two lines less than the window has, up one of two lines more, and cuts off
\* what is too far).
THEOREM ScrollShows == ScrollSpec => []ScrollOnScreen(box)
<1>1. ScrollInit => ScrollIn(box)
  <2> SUFFICES ASSUME NEW total \in Nat, NEW l \in Nat, box = show_scroll_win(total, l)
               PROVE  ScrollIn(box)
    BY DEF ScrollInit
  <2> DEFINE rows == LargerOf(SmallerOf(total + 4, l - 2) - 4, 0)
  <2>1. rows \in Nat /\ rows <= total
    BY DEF LargerOf, SmallerOf
  <2>2. box = [kind |-> "scroll", total |-> total, start |-> 0, rows |-> rows]
    BY DEF show_scroll_win
  <2> HIDE DEF rows
  <2> QED BY <2>1, <2>2 DEF ScrollIn, ScrollBox, ScrollOnScreen
<1>2. ScrollIn(box) /\ [ScrollNext]_vars => ScrollIn(box)'
  <2> SUFFICES ASSUME ScrollIn(box), [ScrollNext]_vars
               PROVE  ScrollIn(box')
    OBVIOUS
  <2>1. CASE UNCHANGED vars
    BY <2>1 DEF vars
  <2>2. ASSUME NEW start \in Int
        PROVE  ScrollIn(ScrolledTo(box, start).d)
    <3> DEFINE last == box.total - box.rows
               down == LargerOf(start, 0)
               new  == IF down >= last THEN last ELSE down
    <3>1. /\ box \in ScrollBox /\ box.total \in Nat /\ box.rows \in Nat /\ box.rows <= box.total
      BY DEF ScrollIn, ScrollBox
    <3>2. new \in 0..box.total - box.rows /\ new \in Int
      BY <3>1 DEF LargerOf
    <3>3. ScrolledTo(box, start).d = [box EXCEPT !.start = new]
      BY DEF ScrolledTo, Stay
    <3> HIDE DEF new
    <3> QED BY <3>1, <3>2, <3>3 DEF ScrollIn, ScrollBox, ScrollOnScreen
  <2>3. ASSUME NEW key \in Key, Becomes(ScrollKey(box, key))
        PROVE  ScrollIn(box')
    <3>1. box.start \in Int /\ box.rows \in Int /\ box.total \in Int
      BY DEF ScrollIn, ScrollBox
    <3>2. \/ \E start \in Int : ScrollKey(box, key) = ScrolledTo(box, start)
          \/ ScrollKey(box, key).d = box
      BY <3>1 DEF ScrollKey, Stay, Return
    <3> QED BY <2>2, <2>3, <3>2 DEF Becomes
  <2> QED BY <2>1, <2>3 DEF ScrollNext
<1>3. ScrollIn(box) => ScrollOnScreen(box)
  BY DEF ScrollIn
<1> QED BY <1>1, <1>2, <1>3, PTL DEF ScrollSpec

-----------------------------------------------------------------------------
(* The menu of nconfig.                                                    *)

\* A menu of n items, of which arows are shown where there is room for room.
CursesBox == [kind : {"curses"}, n : Nat, cur : Int, top : Int, arows : Nat, room : Nat \ {0}]
CursesIn(m) == m \in CursesBox /\ m.arows = SmallerOf(m.n, m.room) /\ CursesOnScreen(m)

\* What is known of a menu that has items.
LEMMA CursesKnown ==
  ASSUME NEW m, CursesIn(m), m.n > 0
  PROVE  /\ m.n \in Nat \ {0} /\ m.arows \in 1..m.n /\ m.top \in 0..m.n - m.arows
         /\ m.cur \in m.top..m.top + m.arows - 1
         /\ m.n \in Int /\ m.arows \in Int /\ m.top \in Int /\ m.cur \in Int /\ m.room \in Int
BY DEF CursesIn, CursesBox, CursesOnScreen, SmallerOf

\* A menu with another item current in another row is one, if both are in range.
Turned(m, top, cur) == [m EXCEPT !.top = top, !.cur = cur]
LEMMA CursesTurned ==
  ASSUME NEW m, CursesIn(m), NEW top \in 0..m.n - m.arows, NEW cur \in top..top + m.arows - 1
  PROVE  LET d == Turned(m, top, cur)
         IN /\ CursesIn(d) /\ d.n = m.n /\ d.arows = m.arows /\ d.room = m.room
            /\ d.top = top /\ d.cur = cur
<1> DEFINE d == Turned(m, top, cur)
<1>1. m \in CursesBox /\ top \in Int /\ cur \in Int
  BY DEF CursesIn, CursesBox
<1>2. /\ d \in CursesBox /\ d.n = m.n /\ d.arows = m.arows /\ d.room = m.room /\ d.top = top
      /\ d.cur = cur
  BY <1>1 DEF Turned, CursesBox
<1> HIDE DEF d
<1>3. CursesIn(d)
  BY <1>2 DEF CursesIn, CursesOnScreen
<1> QED BY <1>2, <1>3 DEF d

\* An item becomes current: the menu is turned no further than it must be.
LEMMA CurrentIn ==
  ASSUME NEW m, CursesIn(m), m.n > 0, NEW top \in 0..m.n - m.arows, NEW i \in 0..m.n - 1
  PROVE  LET d == Current(m, top, i)
         IN CursesIn(d) /\ d.n = m.n /\ d.arows = m.arows /\ d.room = m.room
<1> DEFINE row == IF i < top THEN i ELSE LargerOf(top, i - m.arows + 1)
<1>1. Current(m, top, i) = [m EXCEPT !.cur = i, !.top = row]
  BY DEF Current
<1>2. [m EXCEPT !.cur = i, !.top = row] = Turned(m, row, i)
  <2> HIDE DEF row
  <2>1. m \in CursesBox
    BY DEF CursesIn
  <2> QED BY <2>1 DEF Turned, CursesBox
<1>3. row \in 0..m.n - m.arows /\ i \in row..row + m.arows - 1
  BY CursesKnown DEF LargerOf
<1> HIDE DEF row
<1> QED BY <1>1, <1>2, <1>3, CursesTurned

\* The requests of ncurses that nconf.c makes.
LEMMA SetCurrentIn ==
  ASSUME NEW m, CursesIn(m), NEW i \in Int
  PROVE  LET d == set_current_item(m, i)
         IN CursesIn(d) /\ d.n = m.n /\ d.arows = m.arows /\ d.room = m.room
<1>1. CASE i \in 0..m.n - 1
  <2>1. m.n > 0
    BY <1>1 DEF CursesIn, CursesBox
  <2>2. m.top \in 0..m.n - m.arows
    BY <2>1, CursesKnown
  <2>3. set_current_item(m, i) = Current(m, m.top, i)
    BY <1>1 DEF set_current_item
  <2> QED BY <1>1, <2>1, <2>2, <2>3, CurrentIn
<1>2. CASE i \notin 0..m.n - 1
  BY <1>2 DEF set_current_item
<1> QED BY <1>1, <1>2

LEMMA SetTopIn ==
  ASSUME NEW m, CursesIn(m), m.n > 0, NEW row \in Int
  PROVE  LET d == set_top_row(m, row)
         IN CursesIn(d) /\ d.n = m.n /\ d.arows = m.arows /\ d.room = m.room
<1>1. CASE row \in 0..m.n - m.arows /\ row # m.top
  <2>1. set_top_row(m, row) = Turned(m, row, row)
    BY <1>1 DEF set_top_row, Turned
  <2>2. row \in row..row + m.arows - 1
    BY CursesKnown
  <2> QED BY <1>1, <2>1, <2>2, CursesTurned
<1>2. CASE ~(row \in 0..m.n - m.arows /\ row # m.top)
  BY <1>2 DEF set_top_row
<1> QED BY <1>1, <1>2

LEMMA DriverIn ==
  ASSUME NEW m, CursesIn(m), m.n > 0, NEW key \in MenuMoves
  PROVE  CursesIn(menu_driver(m, key)) /\ menu_driver(m, key).n = m.n
<1> DEFINE down == SmallerOf(m.n - m.arows - m.top, m.arows)
           up   == SmallerOf(m.arows, m.top)
<1>1. /\ m.n \in Nat \ {0} /\ m.arows \in 1..m.n /\ m.top \in 0..m.n - m.arows
      /\ m.cur \in m.top..m.top + m.arows - 1
      /\ m.n \in Int /\ m.arows \in Int /\ m.top \in Int /\ m.cur \in Int
  BY CursesKnown
<1>2. CASE key \in {"up", "down", "home", "end"}
  <2>1. /\ m.cur - 1 \in Int /\ m.cur + 1 \in Int /\ 0 \in Int /\ m.n - 1 \in Int
    BY <1>1
  <2>2. menu_driver(m, key) \in {set_current_item(m, m.cur - 1), set_current_item(m, m.cur + 1),
                                 set_current_item(m, 0), set_current_item(m, m.n - 1)}
    BY <1>2 DEF menu_driver
  <2> QED BY <2>1, <2>2, SetCurrentIn
<1>3. CASE key = "npage"
  <2>1. CASE down <= 0
    BY <1>3, <2>1 DEF menu_driver
  <2>2. CASE ~(down <= 0)
    <3>1. menu_driver(m, key) = Current(m, m.top + down, SmallerOf(m.cur + down, m.n - 1))
      BY <1>3, <2>2 DEF menu_driver
    <3>2. m.top + down \in 0..m.n - m.arows /\ SmallerOf(m.cur + down, m.n - 1) \in 0..m.n - 1
      BY <1>1, <2>2 DEF SmallerOf
    <3> QED BY <3>1, <3>2, CurrentIn
  <2> QED BY <2>1, <2>2
<1>4. CASE key = "ppage"
  <2>1. CASE up <= 0
    BY <1>4, <2>1 DEF menu_driver
  <2>2. CASE ~(up <= 0)
    <3>1. menu_driver(m, key) = Current(m, m.top - up, LargerOf(m.cur - up, 0))
      BY <1>4, <2>2 DEF menu_driver
    <3>2. m.top - up \in 0..m.n - m.arows /\ LargerOf(m.cur - up, 0) \in 0..m.n - 1
      BY <1>1, <2>2 DEF SmallerOf, LargerOf
    <3> QED BY <3>1, <3>2, CurrentIn
  <2> QED BY <2>1, <2>2
<1> QED BY <1>2, <1>3, <1>4 DEF MenuMoves

\* An item that is looked for is brought onto the screen, wherever the menu was.
LEMMA CenteredIn ==
  ASSUME NEW m, CursesIn(m), m.n > 0, NEW selected \in Int, NEW last \in Int
  PROVE  LET d == center_item(m, selected, last).d
         IN CursesIn(d) /\ d.n = m.n
<1> DEFINE at   == set_top_row(m, last)
           out  == selected < at.top \/ selected >= at.top + m.room
           half == LargerOf(selected - m.room \div 2, 0)
           row  == IF ~out THEN at.top ELSE IF half >= m.n - m.room THEN m.n - m.room ELSE half
           to   == set_top_row(at, row)
<1>1. CursesIn(at) /\ at.n = m.n
  BY SetTopIn
<1>2. row \in Int
  <2>1. /\ at.top \in Int /\ m.n \in Int /\ m.room \in Int /\ m.room \div 2 \in Int
    BY <1>1, CursesKnown
  <2> HIDE DEF at
  <2> QED BY <2>1 DEF LargerOf
<1>3. center_item(m, selected, last).d = set_current_item(to, selected)
  BY DEF center_item
<1> HIDE DEF at, row
<1>4. CursesIn(to) /\ to.n = m.n
  BY <1>1, <1>2, SetTopIn
<1> HIDE DEF to
<1> QED BY <1>3, <1>4, SetCurrentIn

\* A menu from its opening on: it is moved in, and searched.
CursesInit == /\ \E n \in Nat \ {0}, selected, last \in Int, room \in Nat \ {0} :
                   box = show_menu(n, selected, last, room).d
              /\ res = Again
              /\ lines \in Nat
CursesNext == /\ \/ \E key \in MenuMoves : box' = menu_driver(box, key)
                 \/ \E selected, last \in Int : box' = center_item(box, selected, last).d
              /\ UNCHANGED <<res, lines>>
CursesSpec == CursesInit /\ [][CursesNext]_vars

\* The current item of a menu of nconfig is in one of its rows and each row has an
\* item, however many items there are and rows for them, and wherever the caller says
\* that the top row was the last time (last_top_row may come from a menu that had more
\* items, and center_item counts with the rows there is room for, not with those used).
THEOREM CursesShows == CursesSpec => []CursesOnScreen(box)
<1> DEFINE Inv == CursesIn(box) /\ box.n > 0
<1>1. CursesInit => Inv
  <2> SUFFICES ASSUME NEW n \in Nat \ {0}, NEW selected \in Int, NEW last \in Int, NEW room \in Nat \ {0},
                      box = show_menu(n, selected, last, room).d
               PROVE  Inv
    BY DEF CursesInit
  <2> DEFINE m == new_items(n, room)
             rows == SmallerOf(n, room)
  <2>1. rows \in 1..n
    BY DEF SmallerOf
  <2>2. m = [kind |-> "curses", n |-> n, cur |-> 0, top |-> 0, arows |-> rows, room |-> room]
    BY DEF new_items
  <2> HIDE DEF rows
  <2>3. m \in CursesBox /\ m.n = n /\ m.room = room /\ m.arows = rows /\ m.top = 0 /\ m.cur = 0
    BY <2>1, <2>2 DEF CursesBox
  <2> HIDE DEF m
  <2>4. CursesIn(m) /\ m.n > 0
    BY <2>1, <2>3 DEF CursesIn, CursesOnScreen, rows
  <2>5. box = center_item(m, selected, last).d
    BY DEF show_menu, m
  <2> QED BY <2>4, <2>5, CenteredIn
<1>2. Inv /\ [CursesNext]_vars => Inv'
  <2> SUFFICES ASSUME Inv, [CursesNext]_vars
               PROVE  Inv'
    OBVIOUS
  <2>1. CASE UNCHANGED vars
    BY <2>1 DEF vars
  <2>2. ASSUME NEW key \in MenuMoves, box' = menu_driver(box, key)
        PROVE  Inv'
    BY <2>2, DriverIn
  <2>3. ASSUME NEW selected \in Int, NEW last \in Int, box' = center_item(box, selected, last).d
        PROVE  Inv'
    BY <2>3, CenteredIn
  <2> QED BY <2>1, <2>2, <2>3 DEF CursesNext
<1>3. Inv => CursesOnScreen(box)
  BY DEF CursesIn
<1> QED BY <1>1, <1>2, <1>3, PTL DEF CursesSpec
=============================================================================
