---------------------------- MODULE ConsoleProofs ---------------------------
(***************************************************************************)
(* Proofs about module Console, for every screen size and every sequence   *)
(* of calls: the cursor stays below the title bar and on the screen, the   *)
(* title bar is kept, and the screen shows the end of the text.            *)
(*                                                                         *)
(* vga_putchar first writes and moves the cursor, possibly to the row      *)
(* below the screen, and then scrolls; Shows is ShowsTail extended to that *)
(* moment in between.                                                      *)
(***************************************************************************)
EXTENDS Console, SequenceTheorems, TLAPS

\* A row of the screen or of the text.
Row == [Cols -> Glyphs]

\* Screen s shows the end of text l; its cursor may be just below.
Shows(s, l) ==
  /\ s.row \in 1 .. VGA_ROWS
  /\ s.row <= Len(l)
  /\ s.row < VGA_ROWS - 1 => s.row = Len(l)
  /\ s.row = VGA_ROWS => l[Len(l)] = BlankRow
  /\ \A y \in 1 .. (VGA_ROWS - 1) :
       s.cells[y] = IF y <= s.row THEN l[Len(l) - s.row + y] ELSE BlankRow

\* What a screen is between two steps of the console.
Good(s, l) ==
  /\ s \in Screen
  /\ l \in Seq(Row)
  /\ s.col \in Cols
  /\ s.cells[0] = TitleRow
  /\ Shows(s, l)

IInv == Good(screen, log) /\ CursorOnScreen

-----------------------------------------------------------------------------
LEMMA RowFacts ==
  /\ VGA_ROWS \in Nat /\ VGA_COLS \in Nat /\ VGA_ROWS >= 2 /\ VGA_COLS >= 1
  /\ BlankRow \in Row /\ TitleRow \in Row
  /\ 0 \in Cols /\ 0 \in Rows
BY VgaAssumption, GlyphsAssumption, TitleAssumption
   DEF BlankRow, Row, Cols, Rows

\* The fields of a screen.
LEMMA ScreenFields ==
  ASSUME NEW s \in Screen
  PROVE  s.cells \in [Rows -> Row] /\ s.col \in Int /\ s.row \in Int
BY DEF Screen, Row

\* vga_write_cell changes one cell and leaves the cursor.
LEMMA WriteCell ==
  ASSUME NEW s \in Screen, NEW col \in Cols, NEW row \in Rows,
         NEW ch \in Glyphs
  PROVE  /\ vga_write_cell(s, col, row, ch) \in Screen
         /\ vga_write_cell(s, col, row, ch).col = s.col
         /\ vga_write_cell(s, col, row, ch).row = s.row
         /\ vga_write_cell(s, col, row, ch).cells
              = [s.cells EXCEPT ![row] = [s.cells[row] EXCEPT ![col] = ch]]
BY ScreenFields DEF vga_write_cell, Screen, Row

-----------------------------------------------------------------------------
\* Writing into the cursor's row changes the last row of the text.
LEMMA SetRow ==
  ASSUME NEW s, NEW l, NEW t, NEW R \in Row,
         Good(s, l), s.row < VGA_ROWS,
         t \in Screen, t.col \in Cols, t.row = s.row,
         t.cells = [s.cells EXCEPT ![s.row] = R]
  PROVE  Good(t, [l EXCEPT ![Len(l)] = R])
<1> DEFINE n == Len(l)
           m == [l EXCEPT ![n] = R]
<1>0. /\ s \in Screen /\ l \in Seq(Row) /\ Shows(s, l)
      /\ s.cells[0] = TitleRow
  BY DEF Good
<1>1. s.cells \in [Rows -> Row] /\ s.row \in 1 .. (VGA_ROWS - 1)
  BY <1>0, ScreenFields, RowFacts DEF Shows
<1>2. n \in Nat /\ n >= s.row /\ n \in 1 .. n
  BY <1>0, <1>1, LenProperties, RowFacts DEF Shows
<1>3. /\ m \in Seq(Row) /\ Len(m) = n
      /\ \A k \in 1 .. n : m[k] = IF k = n THEN R ELSE l[k]
  BY <1>0, <1>2, ExceptSeq
<1> HIDE DEF n, m
<1>4. \A y \in Rows : t.cells[y] = IF y = s.row THEN R ELSE s.cells[y]
  BY <1>1, RowFacts DEF Rows
<1>5. t.cells[0] = TitleRow
  BY <1>0, <1>1, <1>4, RowFacts
<1>6. \A y \in 1 .. (VGA_ROWS - 1) :
        t.cells[y] = IF y <= t.row THEN m[Len(m) - t.row + y] ELSE BlankRow
  <2> TAKE y \in 1 .. (VGA_ROWS - 1)
  <2>1. y \in Rows
    BY RowFacts DEF Rows
  <2>2. s.cells[y] = IF y <= s.row THEN l[n - s.row + y] ELSE BlankRow
    BY <1>0 DEF Shows, n
  <2>3. CASE y = s.row
    BY <2>1, <2>3, <1>1, <1>2, <1>3, <1>4
  <2>4. CASE y < s.row
    <3>1. n - s.row + y \in 1 .. n /\ n - s.row + y # n
      BY <2>4, <1>1, <1>2
    <3> QED
      BY <3>1, <2>1, <2>2, <2>4, <1>1, <1>2, <1>3, <1>4
  <2>5. CASE y > s.row
    BY <2>1, <2>2, <2>5, <1>1, <1>4
  <2> QED
    BY <2>3, <2>4, <2>5, <1>1
<1>7. Shows(t, m)
  BY <1>0, <1>1, <1>2, <1>3, <1>6, RowFacts DEF Shows, n
<1> QED
  BY <1>3, <1>5, <1>7 DEF Good, n, m

\* Going to the next row begins a new row of the text.
LEMMA NextRow ==
  ASSUME NEW s, NEW l, NEW t,
         Good(s, l), s.row < VGA_ROWS,
         t \in Screen, t.col \in Cols, t.row = s.row + 1,
         t.cells = s.cells
  PROVE  Good(t, Append(l, BlankRow))
<1> DEFINE n == Len(l)
           m == Append(l, BlankRow)
<1>0. /\ s \in Screen /\ l \in Seq(Row) /\ Shows(s, l)
      /\ s.cells[0] = TitleRow
  BY DEF Good
<1>1. s.row \in 1 .. (VGA_ROWS - 1)
  BY <1>0, RowFacts DEF Shows
<1>2. n \in Nat /\ n >= s.row
  BY <1>0, <1>1, LenProperties DEF Shows
<1>3. /\ m \in Seq(Row) /\ Len(m) = n + 1
      /\ \A k \in 1 .. n : m[k] = l[k]
      /\ m[n + 1] = BlankRow
  BY <1>0, <1>2, RowFacts, AppendProperties
<1> HIDE DEF n, m
<1>6. \A y \in 1 .. (VGA_ROWS - 1) :
        t.cells[y] = IF y <= t.row THEN m[Len(m) - t.row + y] ELSE BlankRow
  <2> TAKE y \in 1 .. (VGA_ROWS - 1)
  <2>2. s.cells[y] = IF y <= s.row THEN l[n - s.row + y] ELSE BlankRow
    BY <1>0 DEF Shows, n
  <2>3. Len(m) - t.row + y = n - s.row + y
    BY <1>1, <1>2, <1>3
  <2>4. CASE y <= s.row
    <3>1. n - s.row + y \in 1 .. n
      BY <2>4, <1>1, <1>2
    <3> QED
      BY <3>1, <2>2, <2>3, <2>4, <1>1, <1>3
  <2>5. CASE y = s.row + 1
    <3>1. n - s.row + y = n + 1 /\ y <= t.row /\ ~(y <= s.row)
      BY <2>5, <1>1, <1>2
    <3> QED
      BY <3>1, <2>2, <2>3, <1>3
  <2>6. CASE y > s.row + 1
    BY <2>2, <2>6, <1>1
  <2> QED
    BY <2>4, <2>5, <2>6, <1>1
<1>7. Shows(t, m)
  BY <1>0, <1>1, <1>2, <1>3, <1>6, RowFacts DEF Shows, n
<1> QED
  BY <1>0, <1>3, <1>7 DEF Good, m

\* Moving the cursor along its row changes nothing else.
LEMMA MoveCursor ==
  ASSUME NEW s, NEW l, NEW t,
         Good(s, l), t \in Screen, t.col \in Cols, t.row = s.row,
         t.cells = s.cells
  PROVE  Good(t, l)
BY DEF Good, Shows

\* vga_scroll brings a cursor that has left the screen back to its last row.
LEMMA ScrollGood ==
  ASSUME NEW s, NEW l, Good(s, l), s.row = VGA_ROWS
  PROVE  Good(vga_scroll(s), l) /\ vga_scroll(s).row = VGA_ROWS - 1
<1> DEFINE n == Len(l)
           t == vga_scroll(s)
<1>0. /\ s \in Screen /\ l \in Seq(Row) /\ Shows(s, l)
      /\ s.cells[0] = TitleRow /\ s.col \in Cols
  BY DEF Good
<1>1. s.cells \in [Rows -> Row]
  BY <1>0, ScreenFields
<1>2. n \in Nat /\ n >= VGA_ROWS
  BY <1>0, LenProperties DEF Shows
<1> DEFINE C == [y \in Rows |-> IF y = 0 THEN s.cells[0]
                                ELSE IF y = VGA_ROWS - 1 THEN BlankRow
                                ELSE s.cells[y + 1]]
<1>t. t = [cells |-> C, col |-> s.col, row |-> VGA_ROWS - 1]
  BY DEF vga_scroll
<1>3. t.cells = C /\ t.col = s.col /\ t.row = VGA_ROWS - 1
  BY <1>t
<1> HIDE DEF n, t
<1>4. \A y \in Rows : y # 0 /\ y # VGA_ROWS - 1 => y + 1 \in Rows
  BY RowFacts DEF Rows
<1>5. C \in [Rows -> Row]
  BY <1>1, <1>4, RowFacts
<1>6. t \in Screen
  <2> HIDE DEF C
  <2>1. s.col \in Int /\ VGA_ROWS - 1 \in Int
    BY <1>0, RowFacts, ScreenFields
  <2> QED
    BY <1>t, <1>5, <2>1 DEF Screen, Row
<1>7. t.cells[0] = TitleRow
  BY <1>0, <1>3, RowFacts
<1>8. \A y \in 1 .. (VGA_ROWS - 1) :
        t.cells[y] = IF y <= t.row THEN l[n - t.row + y] ELSE BlankRow
  <2> TAKE y \in 1 .. (VGA_ROWS - 1)
  <2>1. y \in Rows /\ y # 0 /\ y <= t.row
    BY <1>3, RowFacts DEF Rows
  <2>2. CASE y = VGA_ROWS - 1
    <3>1. t.cells[y] = BlankRow
      BY <2>1, <2>2, <1>3
    <3>2. l[n] = BlankRow
      BY <1>0 DEF Shows, n
    <3>3. n - t.row + y = n
      BY <2>2, <1>2, <1>3, RowFacts
    <3> QED
      BY <3>1, <3>2, <3>3, <2>1
  <2>3. CASE y # VGA_ROWS - 1
    <3>1. t.cells[y] = s.cells[y + 1]
      BY <2>1, <2>3, <1>3
    <3>2. y + 1 \in 1 .. (VGA_ROWS - 1)
      BY <2>3, RowFacts
    <3>3. s.cells[y + 1] = l[n - s.row + (y + 1)]
      BY <1>0, <3>2, RowFacts DEF Shows, n
    <3>4. n - s.row + (y + 1) = n - t.row + y
      BY <1>2, <1>3, RowFacts
    <3> QED
      BY <3>1, <3>3, <3>4, <2>1
  <2> QED
    BY <2>2, <2>3
<1>9. Shows(t, l)
  <2>1. /\ t.row \in 1 .. VGA_ROWS /\ t.row <= n
        /\ ~(t.row < VGA_ROWS - 1) /\ t.row # VGA_ROWS
    BY <1>2, <1>3, RowFacts
  <2> QED
    BY <2>1, <1>8 DEF Shows, n
<1> QED
  BY <1>0, <1>3, <1>6, <1>7, <1>9 DEF Good, t

-----------------------------------------------------------------------------
\* Where the three cursor movements of vga_putchar lead.
LEMMA CursorFields ==
  ASSUME NEW s \in Screen, NEW c \in Int
  PROVE  /\ [s EXCEPT !.col = c] \in Screen
         /\ [s EXCEPT !.col = c].col = c
         /\ [s EXCEPT !.col = c].row = s.row
         /\ [s EXCEPT !.col = c].cells = s.cells
BY DEF Screen

LEMMA NewlineFields ==
  ASSUME NEW s \in Screen
  PROVE  /\ Newline(s) \in Screen
         /\ Newline(s).col = 0
         /\ Newline(s).row = s.row + 1
         /\ Newline(s).cells = s.cells
<1>1. s.row + 1 \in Int /\ s.row \in Int /\ 0 \in Int
  BY ScreenFields
<1> QED
  BY <1>1, Zenon DEF Screen, Newline

\* A newline begins a new row of the text.
LEMMA NewlineGood ==
  ASSUME NEW s, NEW l, Good(s, l), s.row < VGA_ROWS
  PROVE  Good(Newline(s), Append(l, BlankRow))
<1>1. s \in Screen
  BY DEF Good
<1> QED
  BY <1>1, NewlineFields, NextRow, RowFacts

\* Writing a character at column c of the cursor's row.
LEMMA WriteGood ==
  ASSUME NEW s, NEW l, NEW c \in Cols, NEW ch \in Glyphs,
         Good(s, l), s.row < VGA_ROWS
  PROVE  /\ Good(vga_write_cell(s, c, s.row, ch), [l EXCEPT ![Len(l)][c] = ch])
         /\ vga_write_cell(s, c, s.row, ch).col = s.col
         /\ vga_write_cell(s, c, s.row, ch).row = s.row
<1> DEFINE t == vga_write_cell(s, c, s.row, ch)
           R == [s.cells[s.row] EXCEPT ![c] = ch]
<1>0. s \in Screen /\ s.col \in Cols /\ Shows(s, l) /\ l \in Seq(Row)
  BY DEF Good
<1>1. s.row \in 1 .. (VGA_ROWS - 1) /\ s.row \in Rows
  BY <1>0, RowFacts DEF Shows, Rows
<1>2. /\ t \in Screen /\ t.col = s.col /\ t.row = s.row
      /\ t.cells = [s.cells EXCEPT ![s.row] = R]
  BY <1>0, <1>1, WriteCell
<1>3. s.cells[s.row] \in Row
  BY <1>0, <1>1, ScreenFields
<1>4. R \in Row
  BY <1>3 DEF Row
<1>5. s.cells[s.row] = l[Len(l)]
  <2>1. Len(l) \in Nat
    BY <1>0, LenProperties
  <2>2. s.cells[s.row] = l[Len(l) - s.row + s.row]
    BY <1>0, <1>1 DEF Shows
  <2>3. Len(l) - s.row + s.row = Len(l)
    BY <2>1, <1>1
  <2> QED
    BY <2>2, <2>3
<1>6. [l EXCEPT ![Len(l)][c] = ch] = [l EXCEPT ![Len(l)] = R]
  BY <1>5
<1> HIDE DEF t, R
<1>7. Good(t, [l EXCEPT ![Len(l)] = R])
  BY <1>0, <1>2, <1>4, SetRow
<1> QED
  BY <1>2, <1>6, <1>7 DEF t

\* vga_putchar keeps the screen good, with the text LogOf describes.
LEMMA PutcharGood ==
  ASSUME Good(screen, log), screen.row < VGA_ROWS,
         NEW ch \in Glyphs \cup {NL, BS}
  PROVE  /\ Good(vga_putchar(screen, ch), LogOf(ch))
         /\ vga_putchar(screen, ch).row < VGA_ROWS
<1> DEFINE s == screen
           t == Emit(s, ch)
<1>0. s \in Screen /\ s.col \in Cols /\ Shows(s, log) /\ log \in Seq(Row)
  BY DEF Good
<1>1. /\ s.row \in 1 .. (VGA_ROWS - 1)
      /\ s.col \in Nat /\ s.col < VGA_COLS /\ s.col \in Int
  BY <1>0, RowFacts DEF Shows, Cols
<1>2. NL # BS /\ NL \notin Glyphs /\ BS \notin Glyphs /\ BLANK \in Glyphs
  BY GlyphsAssumption DEF NL, BS
<1>3. Good(t, LogOf(ch))
  <2>1. CASE ch = NL
    BY <2>1, NewlineGood DEF Emit, LogOf
  <2>2. CASE ch = BS /\ s.col > 0
    <3> DEFINE w == vga_write_cell(s, s.col - 1, s.row, BLANK)
               m == [log EXCEPT ![Len(log)][s.col - 1] = BLANK]
    <3>1. s.col - 1 \in Cols /\ s.col - 1 \in Int
      BY <2>2, <1>1, RowFacts DEF Cols
    <3>2. Good(w, m) /\ w.col = s.col /\ w.row = s.row
      BY <3>1, <1>2, WriteGood
    <3>3. t = [w EXCEPT !.col = w.col - 1]
      BY <2>2, <1>2 DEF Emit, Backspace
    <3>4. LogOf(ch) = m
      BY <2>2, <1>2 DEF LogOf
    <3> HIDE DEF w, m, t
    <3>5. w \in Screen
      BY <3>2 DEF Good
    <3>6. t = [w EXCEPT !.col = s.col - 1]
      BY <3>2, <3>3
    <3>7. t \in Screen /\ t.col \in Cols /\ t.row = w.row /\ t.cells = w.cells
      BY <3>1, <3>5, <3>6, CursorFields, Zenon
    <3>8. Good(t, m)
      BY <3>2, <3>7, MoveCursor
    <3> QED
      BY <3>4, <3>8
  <2>3. CASE ch = BS /\ ~(s.col > 0)
    BY <2>3, <1>2 DEF Emit, Backspace, LogOf
  <2>4. CASE ch \in Glyphs
    <3> DEFINE w == vga_write_cell(s, s.col, s.row, ch)
               m == [log EXCEPT ![Len(log)][s.col] = ch]
    <3>2. Good(w, m) /\ w.col = s.col /\ w.row = s.row
      BY <2>4, <1>0, WriteGood
    <3>3. t = Advance(w)
      BY <2>4, <1>2 DEF Emit
    <3>4. LogOf(ch) = IF s.col + 1 >= VGA_COLS THEN Append(m, BlankRow) ELSE m
      BY <2>4, <1>2 DEF LogOf
    <3> HIDE DEF w, m, t
    <3>5. w \in Screen
      BY <3>2 DEF Good
    <3>6. CASE s.col + 1 >= VGA_COLS
      <4>1. t = Newline(w)
        BY <3>2, <3>3, <3>6 DEF Advance
      <4> QED
        BY <4>1, <3>2, <3>4, <3>6, NewlineGood
    <3>7. CASE ~(s.col + 1 >= VGA_COLS)
      <4>1. t = [w EXCEPT !.col = w.col + 1]
        BY <3>2, <3>3, <3>7 DEF Advance
      <4>2. t = [w EXCEPT !.col = s.col + 1]
        BY <4>1, <3>2
      <4>3. s.col + 1 \in Cols /\ s.col + 1 \in Int
        BY <3>7, <1>1, RowFacts DEF Cols
      <4>4. /\ t \in Screen /\ t.col \in Cols
            /\ t.row = w.row /\ t.cells = w.cells
        BY <4>2, <4>3, <3>5, CursorFields, Zenon
      <4>5. Good(t, m)
        BY <4>4, <3>2, MoveCursor
      <4> QED
        BY <4>5, <3>4, <3>7
    <3> QED
      BY <3>6, <3>7
  <2> QED
    BY <2>1, <2>2, <2>3, <2>4
<1> HIDE DEF t
<1>4. t.row \in 1 .. VGA_ROWS
  BY <1>3 DEF Good, Shows
<1>5. vga_putchar(s, ch) = IF t.row >= VGA_ROWS THEN vga_scroll(t) ELSE t
  BY DEF vga_putchar, t
<1>6. CASE t.row >= VGA_ROWS
  <2>1. t.row = VGA_ROWS
    BY <1>4, <1>6, RowFacts
  <2>2. Good(vga_scroll(t), LogOf(ch)) /\ vga_scroll(t).row = VGA_ROWS - 1
    BY <2>1, <1>3, ScrollGood
  <2> QED
    BY <2>2, <1>5, <1>6, RowFacts
<1>7. CASE ~(t.row >= VGA_ROWS)
  BY <1>3, <1>4, <1>5, <1>7, RowFacts
<1> QED
  BY <1>6, <1>7

\* A cleared screen with its title bar shows a text of one blank row.
LEMMA ClearGood ==
  Good(draw_title_bar(vga_clear), <<BlankRow>>)
  /\ draw_title_bar(vga_clear).row = 1
<1> DEFINE t == draw_title_bar(vga_clear)
           C == [[y \in Rows |-> BlankRow] EXCEPT ![0] = TitleRow]
<1>1. t = [cells |-> C, col |-> 0, row |-> 1]
  BY DEF draw_title_bar, vga_clear
<1>2. C \in [Rows -> Row] /\ C[0] = TitleRow
  BY RowFacts
<1>3. \A y \in 1 .. (VGA_ROWS - 1) : C[y] = BlankRow
  BY RowFacts DEF Rows
<1> HIDE DEF t, C
<1>4. t.cells = C /\ t.col = 0 /\ t.row = 1
  BY <1>1
<1>5. t \in Screen
  BY <1>1, <1>2 DEF Screen, Row
<1>6. <<BlankRow>> \in Seq(Row) /\ Len(<<BlankRow>>) = 1
      /\ <<BlankRow>>[1] = BlankRow
  BY RowFacts
<1>7. Shows(t, <<BlankRow>>)
  BY <1>3, <1>4, <1>6, RowFacts DEF Shows
<1> QED
  BY <1>2, <1>4, <1>5, <1>6, <1>7, RowFacts DEF Good, t

\* draw_separator fills a row and goes to the next one.
LEMMA SeparatorGood ==
  ASSUME Good(screen, log), NEW ch \in Glyphs, draw_separator(ch)
  PROVE  Good(screen', log') /\ screen'.row < VGA_ROWS
<1> DEFINE R == [x \in Cols |-> ch]
           C == [screen.cells EXCEPT ![screen.row] = R]
           w == [cells |-> C, col |-> screen.col, row |-> screen.row]
           m == [log EXCEPT ![Len(log)] = R]
<1>0. screen \in Screen /\ screen.col \in Cols /\ Shows(screen, log)
  BY DEF Good
<1>1. /\ screen.row \in 1 .. (VGA_ROWS - 1) /\ screen.row < VGA_ROWS - 1
      /\ screen.row \in Rows
  BY <1>0, RowFacts DEF draw_separator, Shows, Rows
<1>2. R \in Row
  BY DEF Row
<1>3. screen' = [cells |-> C, col |-> 0, row |-> screen.row + 1]
      /\ log' = Append(m, BlankRow)
  BY DEF draw_separator
<1> HIDE DEF R
<1>4. C \in [Rows -> Row]
  BY <1>0, <1>1, <1>2, ScreenFields
<1>5. C = [screen.cells EXCEPT ![screen.row] = R]
  OBVIOUS
<1> HIDE DEF C
<1>6. w \in Screen /\ w.col = screen.col /\ w.row = screen.row /\ w.cells = C
  BY <1>0, <1>4, ScreenFields DEF Screen, Row
<1>7. /\ screen' \in Screen /\ screen'.col = 0
      /\ screen'.row = screen.row + 1 /\ screen'.cells = C
  BY <1>1, <1>3, <1>4 DEF Screen, Row
<1> HIDE DEF w, m
<1>8. Good(w, m)
  BY <1>0, <1>1, <1>2, <1>5, <1>6, RowFacts, SetRow DEF m
<1>9. Good(screen', Append(m, BlankRow))
  <2>1. w.row < VGA_ROWS /\ screen'.row = w.row + 1 /\ screen'.cells = w.cells
    BY <1>1, <1>6, <1>7, RowFacts
  <2>2. screen' \in Screen /\ screen'.col \in Cols
    BY <1>7, RowFacts
  <2> QED
    BY <2>1, <2>2, <1>8, NextRow
<1> QED
  BY <1>1, <1>3, <1>7, <1>9, RowFacts

-----------------------------------------------------------------------------
\* The invariant holds in every reachable state.
THEOREM Invariant == Spec => []IInv
<1> DEFINE J == Good(screen, log) /\ screen.row < VGA_ROWS
<1>1. Init => J
  BY ClearGood, RowFacts DEF Init
<1>2. J /\ [Next]_vars => J'
  <2> SUFFICES ASSUME J, [Next]_vars PROVE J'
    OBVIOUS
  <2>1. ASSUME NEW ch \in Glyphs \cup {NL, BS}, Putchar(ch) PROVE J'
    <3>1. screen' = vga_putchar(screen, ch) /\ log' = LogOf(ch)
      BY <2>1 DEF Putchar
    <3>2. /\ Good(vga_putchar(screen, ch), LogOf(ch))
          /\ vga_putchar(screen, ch).row < VGA_ROWS
      BY PutcharGood
    <3>3. Good(screen', log') /\ screen'.row < VGA_ROWS
      BY <3>1, <3>2
    <3> QED
      BY <3>3 DEF Good, Shows
  <2>2. CASE Clear
    <3>1. screen' = draw_title_bar(vga_clear) /\ log' = <<BlankRow>>
      BY <2>2 DEF Clear
    <3>2. Good(screen', log') /\ screen'.row < VGA_ROWS
      BY <3>1, ClearGood, RowFacts
    <3> QED
      BY <3>2 DEF Good, Shows
  <2>3. ASSUME NEW ch \in Glyphs, draw_separator(ch) PROVE J'
    <3>1. Good(screen', log') /\ screen'.row < VGA_ROWS
      BY <2>3, SeparatorGood
    <3> QED
      BY <3>1 DEF Good, Shows
  <2>4. CASE UNCHANGED vars
    BY <2>4 DEF vars, Good, Shows
  <2> QED
    BY <2>1, <2>2, <2>3, <2>4 DEF Next
<1>3. J => IInv
  <2> SUFFICES ASSUME J PROVE IInv
    OBVIOUS
  <2>1. screen.row \in 1 .. (VGA_ROWS - 1) /\ screen.col \in Cols
    BY RowFacts DEF Good, Shows
  <2> QED
    BY <2>1 DEF IInv, CursorOnScreen
<1> QED
  BY <1>1, <1>2, <1>3, PTL DEF Spec

\* The console's types.
THEOREM TypeCorrect == Spec => []TypeOK
<1>1. IInv => TypeOK
  BY DEF IInv, Good, TypeOK, Row
<1> QED
  BY <1>1, Invariant, PTL

\* vga_putchar, draw_separator and CLS leave the cursor on the screen and
\* below the title bar, so nothing is written outside the video buffer.
THEOREM CursorStays == Spec => []CursorOnScreen
<1>1. IInv => CursorOnScreen
  BY DEF IInv
<1> QED
  BY <1>1, Invariant, PTL

\* No text, scrolling or clearing destroys the title bar.
THEOREM TitleStays == Spec => []TitleKept
<1>1. IInv => TitleKept
  BY DEF IInv, Good, TitleKept
<1> QED
  BY <1>1, Invariant, PTL

\* The screen always shows the end of the text that was printed.
THEOREM ScreenShowsTail == Spec => []ShowsTail
<1>1. IInv => ShowsTail
  BY DEF IInv, Good, Shows, ShowsTail
<1> QED
  BY <1>1, Invariant, PTL

=============================================================================
