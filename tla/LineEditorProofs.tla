-------------------------- MODULE LineEditorProofs --------------------------
(***************************************************************************)
(* Proofs about module LineEditor, for every screen, prompt, buffer and    *)
(* history size, every set of command names and every output a command     *)
(* may print: the buffer is never overrun, the history is the last lines   *)
(* entered, browsing stays inside it, and the screen shows the line.       *)
(*                                                                         *)
(* vga_print is a recursive function of the number of characters printed.  *)
(* What it leaves on the screen is shown by induction on that number, in   *)
(* the form of NatMin: a set of numbers that is not empty has a least      *)
(* element, and a least character that breaks the claim does not exist.    *)
(***************************************************************************)
EXTENDS LineEditor, SequenceTheorems, WellFoundedInduction, TLAPS

Row == [Cols -> Glyphs]

\* A screen in the middle of vga_putchar: the cursor may have left it by one
\* row, and the rows below the cursor are blank.
Drawable(s) ==
  /\ s \in Screen
  /\ s.col \in Cols
  /\ s.row \in 1 .. VGA_ROWS
  /\ \A y \in (s.row + 1) .. (VGA_ROWS - 1) : s.cells[y] = BlankRow

\* A screen between two calls.
Sound(s) == Drawable(s) /\ s.row < VGA_ROWS

\* The cursor's row holds the first n characters of w and nothing else.
Shown(s, w, n) ==
  /\ s.col = n
  /\ \A x \in Cols : s.cells[s.row][x] = IF x < n THEN w[x + 1] ELSE BLANK

-----------------------------------------------------------------------------
LEMMA RowFacts ==
  /\ VGA_ROWS \in Nat /\ VGA_COLS \in Nat /\ VGA_ROWS >= 2 /\ VGA_COLS >= 1
  /\ BlankRow \in Row /\ TitleRow \in Row
  /\ 0 \in Cols /\ 0 \in Rows
  /\ \A x \in Cols : BlankRow[x] = BLANK
BY VgaAssumption, GlyphsAssumption, TitleAssumption
   DEF BlankRow, Row, Cols, Rows

LEMMA CharFacts ==
  NL # BS /\ NL \notin Glyphs /\ BS \notin Glyphs /\ BLANK \in Glyphs
BY GlyphsAssumption DEF NL, BS

\* The fields of a screen.
LEMMA ScreenFields ==
  ASSUME NEW s \in Screen
  PROVE  s.cells \in [Rows -> Row] /\ s.col \in Int /\ s.row \in Int
BY DEF Screen, Row

\* vga_write_cell changes one cell and leaves the cursor.
LEMMA WriteCell ==
  ASSUME NEW s \in Screen, NEW col \in Cols, NEW row \in Rows,
         NEW ch \in Glyphs
  PROVE  /\ vga_write_cell(s, col, row, ch) \in Screen
         /\ vga_write_cell(s, col, row, ch).col = s.col
         /\ vga_write_cell(s, col, row, ch).row = s.row
         /\ vga_write_cell(s, col, row, ch).cells
              = [s.cells EXCEPT ![row] = [s.cells[row] EXCEPT ![col] = ch]]
BY ScreenFields DEF vga_write_cell, Screen, Row

LEMMA CursorFields ==
  ASSUME NEW s \in Screen, NEW col \in Int
  PROVE  /\ [s EXCEPT !.col = col] \in Screen
         /\ [s EXCEPT !.col = col].col = col
         /\ [s EXCEPT !.col = col].row = s.row
         /\ [s EXCEPT !.col = col].cells = s.cells
BY DEF Screen

\* A newline moves the cursor and writes nothing.
LEMMA NewlineFields ==
  ASSUME NEW s \in Screen
  PROVE  /\ Newline(s) \in Screen
         /\ Newline(s).col = 0
         /\ Newline(s).row = s.row + 1
         /\ Newline(s).cells = s.cells
<1>1. s.row + 1 \in Int /\ s.row \in Int /\ 0 \in Int
  BY ScreenFields
<1> QED
  BY <1>1 DEF Newline, Screen

LEMMA NewlineDrawable ==
  ASSUME NEW s, Sound(s)
  PROVE  Drawable(Newline(s)) /\ Newline(s).col = 0
         /\ Newline(s).row = s.row + 1 /\ Newline(s).cells = s.cells
<1>1. s \in Screen
  BY DEF Sound, Drawable
<1> QED
  BY <1>1, NewlineFields, RowFacts DEF Sound, Drawable

\* Writing in the cursor's row.
LEMMA WriteSound ==
  ASSUME NEW s, Sound(s), NEW col \in Cols, NEW ch \in Glyphs
  PROVE  /\ Sound(vga_write_cell(s, col, s.row, ch))
         /\ vga_write_cell(s, col, s.row, ch).col = s.col
         /\ vga_write_cell(s, col, s.row, ch).row = s.row
         /\ \A x \in Cols : vga_write_cell(s, col, s.row, ch).cells[s.row][x]
                            = IF x = col THEN ch ELSE s.cells[s.row][x]
<1> DEFINE t == vga_write_cell(s, col, s.row, ch)
<1>1. s \in Screen /\ s.row \in Rows /\ s.row \in Nat
  BY RowFacts DEF Sound, Drawable, Rows
<1>2. /\ t \in Screen /\ t.col = s.col /\ t.row = s.row
      /\ t.cells = [s.cells EXCEPT ![s.row] = [s.cells[s.row] EXCEPT ![col] = ch]]
  BY <1>1, WriteCell
<1>3. s.cells \in [Rows -> Row] /\ s.cells[s.row] \in Row
  BY <1>1, ScreenFields
<1> HIDE DEF t
<1>4. \A y \in Rows : y # s.row => t.cells[y] = s.cells[y]
  BY <1>2, <1>3
<1>5. \A x \in Cols : t.cells[s.row][x] = IF x = col THEN ch ELSE s.cells[s.row][x]
  BY <1>1, <1>2, <1>3 DEF Row
<1>6. \A y \in (s.row + 1) .. (VGA_ROWS - 1) : y \in Rows /\ y # s.row
  BY <1>1, RowFacts DEF Rows
<1>7. Sound(t)
  BY <1>2, <1>4, <1>6 DEF Sound, Drawable
<1> QED
  BY <1>2, <1>5, <1>7 DEF t

\* Moving the cursor along its row.
LEMMA MoveSound ==
  ASSUME NEW s, Sound(s), NEW col \in Cols
  PROVE  /\ Sound([s EXCEPT !.col = col])
         /\ [s EXCEPT !.col = col].col = col
         /\ [s EXCEPT !.col = col].row = s.row
         /\ [s EXCEPT !.col = col].cells = s.cells
<1>1. s \in Screen /\ col \in Int
  BY RowFacts DEF Sound, Drawable, Cols
<1>2. PICK t : t = [s EXCEPT !.col = col]
  OBVIOUS
<1>3. t \in Screen /\ t.col = col /\ t.row = s.row /\ t.cells = s.cells
  BY <1>1, <1>2, CursorFields
<1>4. Sound(t)
  BY <1>3 DEF Sound, Drawable
<1> QED
  BY <1>2, <1>3, <1>4

\* vga_scroll brings a cursor that has left the screen back, on a blank row.
LEMMA ScrollSound ==
  ASSUME NEW s, Drawable(s), s.row = VGA_ROWS
  PROVE  /\ Sound(vga_scroll(s)) /\ vga_scroll(s).col = s.col
         /\ vga_scroll(s).cells[vga_scroll(s).row] = BlankRow
<1> DEFINE C == [y \in Rows |-> IF y = 0 THEN s.cells[0]
                                ELSE IF y = VGA_ROWS - 1 THEN BlankRow
                                ELSE s.cells[y + 1]]
<1>1. s \in Screen /\ s.col \in Cols
  BY DEF Drawable
<1>2. s.cells \in [Rows -> Row] /\ s.col \in Int
  BY <1>1, ScreenFields
<1>3. C \in [Rows -> Row]
  <2> SUFFICES ASSUME NEW y \in Rows PROVE C[y] \in Row
    OBVIOUS
  <2>1. y # 0 /\ y # VGA_ROWS - 1 => y + 1 \in Rows
    BY RowFacts DEF Rows
  <2> QED
    BY <2>1, <1>2, RowFacts
<1>4. vga_scroll(s) = [cells |-> C, col |-> s.col, row |-> s.row - 1]
  BY DEF vga_scroll
<1>5. C[VGA_ROWS - 1] = BlankRow /\ VGA_ROWS - 1 \in Nat
  BY RowFacts DEF Rows
<1>6. PICK t : t = vga_scroll(s)
  OBVIOUS
<1> HIDE DEF C
<1>7. t.cells = C /\ t.col = s.col /\ t.row = VGA_ROWS - 1
  BY <1>4, <1>6
<1>8. t \in Screen
  BY <1>2, <1>3, <1>4, <1>5, <1>6 DEF Screen, Row
<1>9. Sound(t)
  BY <1>1, <1>7, <1>8, RowFacts DEF Sound, Drawable
<1> QED
  BY <1>5, <1>6, <1>7, <1>9

\* The end of vga_putchar, where it scrolls if it must.
LEMMA Settle ==
  ASSUME NEW s, NEW ch, Drawable(Emit(s, ch))
  PROVE  /\ Sound(vga_putchar(s, ch))
         /\ vga_putchar(s, ch).col = Emit(s, ch).col
         /\ Emit(s, ch).row < VGA_ROWS => vga_putchar(s, ch) = Emit(s, ch)
         /\ Emit(s, ch).row >= VGA_ROWS
              => vga_putchar(s, ch).cells[vga_putchar(s, ch).row] = BlankRow
<1>1. PICK t : t = Emit(s, ch)
  OBVIOUS
<1>2. vga_putchar(s, ch) = IF t.row >= VGA_ROWS THEN vga_scroll(t) ELSE t
  BY <1>1 DEF vga_putchar
<1>3. Drawable(t) /\ t.row \in 1 .. VGA_ROWS /\ VGA_ROWS \in Nat
  BY <1>1, RowFacts DEF Drawable
<1>4. CASE t.row >= VGA_ROWS
  <2>1. t.row = VGA_ROWS
    BY <1>3, <1>4
  <2> QED
    BY <1>1, <1>2, <1>3, <1>4, <2>1, ScrollSound
<1>5. CASE ~(t.row >= VGA_ROWS)
  BY <1>1, <1>2, <1>3, <1>5 DEF Sound
<1> QED
  BY <1>4, <1>5

\* A newline goes to a blank row.
LEMMA PutNewline ==
  ASSUME NEW s, Sound(s), NEW w
  PROVE  Sound(vga_putchar(s, NL)) /\ Shown(vga_putchar(s, NL), w, 0)
<1>1. PICK t : t = Newline(s)
  OBVIOUS
<1>2. Emit(s, NL) = t
  BY <1>1 DEF Emit
<1>3. Drawable(t) /\ t.col = 0 /\ t.row = s.row + 1 /\ t.cells = s.cells
  BY <1>1, NewlineDrawable
<1>4. PICK u : u = vga_putchar(s, NL)
  OBVIOUS
<1>5. /\ Sound(u) /\ u.col = 0
      /\ t.row < VGA_ROWS => u = t
      /\ t.row >= VGA_ROWS => u.cells[u.row] = BlankRow
  BY <1>2, <1>3, <1>4, Settle
<1>6. s.row \in 1 .. VGA_ROWS /\ VGA_ROWS \in Nat /\ t.row \in Nat
  BY <1>3, RowFacts DEF Sound, Drawable
<1>7. u.cells[u.row] = BlankRow
  <2>1. CASE t.row >= VGA_ROWS
    BY <2>1, <1>5
  <2>2. CASE t.row < VGA_ROWS
    <3>1. t.row \in (s.row + 1) .. (VGA_ROWS - 1)
      BY <2>2, <1>3, <1>6
    <3>2. s.cells[t.row] = BlankRow
      BY <3>1 DEF Sound, Drawable
    <3> QED
      BY <3>2, <2>2, <1>3, <1>5
  <2> QED
    BY <2>1, <2>2, <1>6
<1>8. Shown(u, w, 0)
  <2> SUFFICES ASSUME NEW x \in Cols
               PROVE  u.cells[u.row][x] = IF x < 0 THEN w[x + 1] ELSE BLANK
    BY <1>5 DEF Shown
  <2>1. ~(x < 0)
    BY RowFacts DEF Cols
  <2> QED
    BY <2>1, <1>7, RowFacts
<1> QED
  BY <1>4, <1>5, <1>8

\* A character that is not a newline or a backspace.
LEMMA PutGlyph ==
  ASSUME NEW s, Sound(s), NEW ch \in Glyphs
  PROVE  /\ Sound(vga_putchar(s, ch))
         /\ \A w, n : (Shown(s, w, n) /\ n + 1 < VGA_COLS /\ w[n + 1] = ch)
                        => Shown(vga_putchar(s, ch), w, n + 1)
<1>1. s.col \in Cols /\ s.col \in Nat /\ s.col < VGA_COLS /\ VGA_COLS \in Nat
  BY RowFacts DEF Sound, Drawable, Cols
<1>2. PICK v : v = vga_write_cell(s, s.col, s.row, ch)
  OBVIOUS
<1>3. /\ Sound(v) /\ v.col = s.col /\ v.row = s.row
      /\ \A x \in Cols : v.cells[v.row][x]
                         = IF x = s.col THEN ch ELSE s.cells[s.row][x]
  BY <1>1, <1>2, WriteSound
<1>4. PICK t : t = Emit(s, ch)
  OBVIOUS
<1>5. t = Advance(v)
  BY <1>2, <1>4, CharFacts DEF Emit
<1>6. PICK u : u = vga_putchar(s, ch)
  OBVIOUS
<1>7. CASE s.col + 1 >= VGA_COLS
  <2>1. t = Newline(v)
    BY <1>3, <1>5, <1>7 DEF Advance
  <2>2. Drawable(t)
    BY <2>1, <1>3, NewlineDrawable
  <2>3. Sound(u)
    BY <2>2, <1>4, <1>6, Settle
  <2> QED
    BY <2>3, <1>1, <1>6, <1>7 DEF Shown
<1>8. CASE s.col + 1 < VGA_COLS
  <2>1. s.col + 1 \in Cols
    BY <1>1, <1>8 DEF Cols
  <2>2. t = [v EXCEPT !.col = v.col + 1]
    BY <1>1, <1>3, <1>5, <1>8 DEF Advance
  <2>3. t = [v EXCEPT !.col = s.col + 1]
    BY <2>2, <1>3
  <2>4. Sound(t) /\ t.col = s.col + 1 /\ t.row = v.row /\ t.cells = v.cells
    BY <2>1, <2>3, <1>3, MoveSound
  <2>5. Drawable(t) /\ t.row < VGA_ROWS
    BY <2>4 DEF Sound
  <2>6. u = t
    BY <2>5, <1>4, <1>6, Settle
  <2>7. ASSUME NEW w, NEW n, Shown(s, w, n), w[n + 1] = ch
        PROVE  Shown(u, w, n + 1)
    <3>1. n = s.col /\ n \in Nat
      BY <2>7, <1>1 DEF Shown
    <3>2. u.col = n + 1
      BY <3>1, <2>4, <2>6
    <3> SUFFICES ASSUME NEW x \in Cols
                 PROVE  u.cells[u.row][x] = IF x < n + 1 THEN w[x + 1] ELSE BLANK
      BY <3>2 DEF Shown
    <3>3. u.cells[u.row][x] = IF x = n THEN ch ELSE s.cells[s.row][x]
      BY <3>1, <2>4, <2>6, <1>3
    <3>4. s.cells[s.row][x] = IF x < n THEN w[x + 1] ELSE BLANK
      BY <2>7 DEF Shown
    <3>5. x \in Nat
      BY DEF Cols
    <3>6. x = n => w[x + 1] = ch
      BY <2>7
    <3>7. x < n + 1 <=> (x < n \/ x = n)
      BY <3>1, <3>5
    <3>8. ~(x < n /\ x = n)
      BY <3>1, <3>5
    <3> QED
      BY <3>3, <3>4, <3>6, <3>7, <3>8
  <2> QED
    BY <2>4, <2>6, <2>7, <1>6
<1> QED
  BY <1>1, <1>7, <1>8

\* A backspace takes one character back, and none at the left edge.
LEMMA PutBackspace ==
  ASSUME NEW s, Sound(s)
  PROVE  /\ Sound(vga_putchar(s, BS))
         /\ \A w, n : (Shown(s, w, n) /\ n > 0)
                        => Shown(vga_putchar(s, BS), w, n - 1)
<1>1. s.col \in Cols /\ s.col \in Nat /\ s.col < VGA_COLS /\ VGA_COLS \in Nat
  BY RowFacts DEF Sound, Drawable, Cols
<1>2. PICK t : t = Emit(s, BS)
  OBVIOUS
<1>3. t = Backspace(s)
  BY <1>2, CharFacts DEF Emit
<1>4. PICK u : u = vga_putchar(s, BS)
  OBVIOUS
<1>5. CASE ~(s.col > 0)
  <2>1. t = s
    BY <1>3, <1>5 DEF Backspace
  <2>2. Sound(u)
    BY <2>1, <1>2, <1>4, Settle DEF Sound
  <2> QED
    BY <2>2, <1>4, <1>5 DEF Shown
<1>6. CASE s.col > 0
  <2>1. s.col - 1 \in Cols
    BY <1>1, <1>6 DEF Cols
  <2>2. PICK v : v = vga_write_cell(s, s.col - 1, s.row, BLANK)
    OBVIOUS
  <2>3. /\ Sound(v) /\ v.col = s.col /\ v.row = s.row
        /\ \A x \in Cols : v.cells[v.row][x]
                           = IF x = s.col - 1 THEN BLANK ELSE s.cells[s.row][x]
    BY <2>1, <2>2, CharFacts, WriteSound
  <2>4. t = [v EXCEPT !.col = v.col - 1]
    BY <2>2, <1>3, <1>6 DEF Backspace
  <2>5. t = [v EXCEPT !.col = s.col - 1]
    BY <2>4, <2>3
  <2>6. Sound(t) /\ t.col = s.col - 1 /\ t.row = v.row /\ t.cells = v.cells
    BY <2>1, <2>5, <2>3, MoveSound
  <2>7. Drawable(t) /\ t.row < VGA_ROWS
    BY <2>6 DEF Sound
  <2>8. u = t
    BY <2>7, <1>2, <1>4, Settle
  <2>9. ASSUME NEW w, NEW n, Shown(s, w, n) PROVE Shown(u, w, n - 1)
    <3>1. n = s.col /\ n \in Nat
      BY <2>9, <1>1 DEF Shown
    <3>2. u.col = n - 1
      BY <3>1, <2>6, <2>8
    <3> SUFFICES ASSUME NEW x \in Cols
                 PROVE  u.cells[u.row][x] = IF x < n - 1 THEN w[x + 1] ELSE BLANK
      BY <3>2 DEF Shown
    <3>3. u.cells[u.row][x] = IF x = n - 1 THEN BLANK ELSE s.cells[s.row][x]
      BY <3>1, <2>6, <2>8, <2>3
    <3>4. s.cells[s.row][x] = IF x < n THEN w[x + 1] ELSE BLANK
      BY <2>9 DEF Shown
    <3>5. x \in Nat
      BY DEF Cols
    <3>6. x < n - 1 => (x < n /\ x # n - 1)
      BY <3>1, <3>5
    <3>7. ~(x < n - 1) => (~(x < n) \/ x = n - 1)
      BY <3>1, <3>5
    <3> QED
      BY <3>3, <3>4, <3>6, <3>7
  <2> QED
    BY <2>6, <2>8, <2>9, <1>4
<1> QED
  BY <1>5, <1>6

\* A cleared screen with its title bar.
LEMMA ClearSound == Sound(draw_title_bar(vga_clear))
<1> DEFINE C == [[y \in Rows |-> BlankRow] EXCEPT ![0] = TitleRow]
<1>1. PICK t : t = draw_title_bar(vga_clear)
  OBVIOUS
<1>2. t = [cells |-> C, col |-> 0, row |-> 1]
  BY <1>1 DEF draw_title_bar, vga_clear
<1>3. C \in [Rows -> Row] /\ \A y \in Rows : y # 0 => C[y] = BlankRow
  BY RowFacts
<1> HIDE DEF C
<1>4. t.cells = C /\ t.col = 0 /\ t.row = 1
  BY <1>2
<1>5. t \in Screen
  BY <1>2, <1>3 DEF Screen, Row
<1>6. \A y \in 2 .. (VGA_ROWS - 1) : y \in Rows /\ y # 0
  BY RowFacts DEF Rows
<1>7. Sound(t)
  BY <1>3, <1>4, <1>5, <1>6, RowFacts DEF Sound, Drawable
<1> QED
  BY <1>1, <1>7

-----------------------------------------------------------------------------
\* A set of natural numbers that is not empty has a least element.
LEMMA NatMin ==
  ASSUME NEW T \in SUBSET Nat, T # {}
  PROVE  \E m \in T : \A k \in T : m <= k
<1>1. IsWellFoundedOn(OpToRel(<, Nat), Nat)
  BY NatLessThanWellFounded
<1>2. PICK m \in T : \A y \in T : ~(<<y, m>> \in OpToRel(<, Nat))
  BY <1>1, WFMin
<1>3. \A y \in T : ~(y < m)
  BY <1>2 DEF OpToRel
<1> QED
  BY <1>3

\* The screens vga_print goes through: g[k] after k of its n characters.
Drawing(s, str, n, g) ==
  g = [k \in 0 .. n |-> IF k = 0 THEN s ELSE vga_putchar(g[k - 1], str[k])]

LEMMA DrawingExists ==
  ASSUME NEW s, NEW str, NEW n \in Nat
  PROVE  \E g : Drawing(s, str, n, g)
<1> DEFINE T == {k \in Nat : ~ \E g : Drawing(s, str, k, g)}
<1> SUFFICES ASSUME T # {} PROVE FALSE
  OBVIOUS
<1>1. PICK m \in T : \A k \in T : m <= k
  BY NatMin
<1>2. m # 0
  <2>1. Drawing(s, str, 0, [k \in 0 .. 0 |-> s])
    BY DEF Drawing
  <2> QED
    BY <2>1, <1>1
<1>3. m - 1 \in Nat /\ m - 1 \notin T
  BY <1>1, <1>2
<1>4. PICK g : Drawing(s, str, m - 1, g)
  BY <1>3
<1> DEFINE h == [k \in 0 .. m |-> IF k = m THEN vga_putchar(g[m - 1], str[m])
                                  ELSE g[k]]
<1>5. Drawing(s, str, m, h)
  <2> SUFFICES ASSUME NEW k \in 0 .. m
               PROVE h[k] = IF k = 0 THEN s ELSE vga_putchar(h[k - 1], str[k])
    BY DEF Drawing
  <2>1. \A i \in 0 .. (m - 1) :
          g[i] = IF i = 0 THEN s ELSE vga_putchar(g[i - 1], str[i])
    BY <1>4 DEF Drawing
  <2>2. CASE k = m
    BY <2>2, <1>2, <1>3
  <2>3. CASE k # m
    BY <2>3, <2>1, <1>3
  <2> QED
    BY <2>2, <2>3
<1> QED
  BY <1>5, <1>1

LEMMA PrintDraws ==
  ASSUME NEW s, NEW str, Len(str) \in Nat
  PROVE  \E g : /\ g[0] = s
                /\ \A k \in 1 .. Len(str) : g[k] = vga_putchar(g[k - 1], str[k])
                /\ vga_print(s, str) = g[Len(str)]
<1> DEFINE n == Len(str)
           a == CHOOSE g : g = [k \in 0 .. n |-> IF k = 0 THEN s
                                                 ELSE vga_putchar(g[k - 1], str[k])]
<1>1. \E g : Drawing(s, str, n, g)
  BY DrawingExists
<1>2. \E g : g = [k \in 0 .. n |-> IF k = 0 THEN s
                                   ELSE vga_putchar(g[k - 1], str[k])]
  BY <1>1 DEF Drawing
<1>3. a = [k \in 0 .. n |-> IF k = 0 THEN s ELSE vga_putchar(a[k - 1], str[k])]
  BY <1>2
<1>4. vga_print(s, str) = a[n]
  BY DEF vga_print
<1> HIDE DEF a
<1>5. a[0] = s /\ \A k \in 1 .. n : a[k] = vga_putchar(a[k - 1], str[k])
  BY <1>3
<1> QED
  BY <1>4, <1>5

\* Whatever is printed, the screen stays sound.
LEMMA PrintSound ==
  ASSUME NEW s, Sound(s), NEW str, Len(str) \in Nat,
         \A k \in 1 .. Len(str) : str[k] \in Glyphs \cup {NL, BS}
  PROVE  Sound(vga_print(s, str))
<1>1. PICK g : /\ g[0] = s
               /\ \A k \in 1 .. Len(str) : g[k] = vga_putchar(g[k - 1], str[k])
               /\ vga_print(s, str) = g[Len(str)]
  BY PrintDraws
<1> DEFINE T == {k \in 0 .. Len(str) : ~Sound(g[k])}
<1>2. SUFFICES ASSUME T # {} PROVE FALSE
  BY <1>1
<1>3. PICK m \in T : \A k \in T : m <= k
  <2>1. T \in SUBSET Nat
    OBVIOUS
  <2> HIDE DEF T
  <2> QED
    BY <2>1, <1>2, NatMin
<1>4. m \in 1 .. Len(str)
  BY <1>1, <1>3
<1>5. Sound(g[m - 1])
  BY <1>3, <1>4
<1>6. Sound(vga_putchar(g[m - 1], str[m]))
  BY <1>4, <1>5, PutNewline, PutGlyph, PutBackspace
<1> QED
  BY <1>1, <1>3, <1>4, <1>6

\* Printing characters behind those the cursor's row shows, while they fit.
LEMMA PrintGlyphs ==
  ASSUME NEW s, Sound(s), NEW str, Len(str) \in Nat, NEW w, NEW n \in Nat,
         Shown(s, w, n), n + Len(str) < VGA_COLS,
         \A k \in 1 .. Len(str) : str[k] \in Glyphs /\ w[n + k] = str[k]
  PROVE  Shown(vga_print(s, str), w, n + Len(str))
<1>1. PICK g : /\ g[0] = s
               /\ \A k \in 1 .. Len(str) : g[k] = vga_putchar(g[k - 1], str[k])
               /\ vga_print(s, str) = g[Len(str)]
  BY PrintDraws
<1> DEFINE T == {k \in 0 .. Len(str) : ~(Sound(g[k]) /\ Shown(g[k], w, n + k))}
<1>2. SUFFICES ASSUME T # {} PROVE FALSE
  BY <1>1
<1>3. PICK m \in T : \A k \in T : m <= k
  <2>1. T \in SUBSET Nat
    OBVIOUS
  <2> HIDE DEF T
  <2> QED
    BY <2>1, <1>2, NatMin
<1>4. m \in 1 .. Len(str)
  <2>1. n + 0 = n
    OBVIOUS
  <2> QED
    BY <2>1, <1>1, <1>3
<1>5. Sound(g[m - 1]) /\ Shown(g[m - 1], w, n + (m - 1))
  BY <1>3, <1>4
<1>6. /\ (n + (m - 1)) + 1 = n + m /\ n + m < VGA_COLS
      /\ w[n + m] = str[m] /\ str[m] \in Glyphs
  BY <1>4, RowFacts
<1>7. Sound(g[m]) /\ Shown(g[m], w, n + m)
  <2>1. PICK j : j = n + (m - 1)
    OBVIOUS
  <2>2. j + 1 = n + m
    BY <2>1, <1>6
  <2>3. /\ Sound(g[m - 1]) /\ Shown(g[m - 1], w, j)
        /\ j + 1 < VGA_COLS /\ w[j + 1] = str[m]
    BY <2>1, <2>2, <1>5, <1>6
  <2>4. g[m] = vga_putchar(g[m - 1], str[m])
    BY <1>1, <1>4
  <2>5. Sound(g[m]) /\ Shown(g[m], w, j + 1)
    BY ONLY <2>3, <2>4, <1>6, PutGlyph
  <2> QED
    BY <2>2, <2>5
<1> QED
  BY <1>3, <1>7

\* Backspaces take back as many characters as there are.
LEMMA PrintBackspaces ==
  ASSUME NEW s, Sound(s), NEW str, Len(str) \in Nat, NEW w, NEW n \in Nat,
         Shown(s, w, n), Len(str) <= n,
         \A k \in 1 .. Len(str) : str[k] = BS
  PROVE  Shown(vga_print(s, str), w, n - Len(str))
<1>1. PICK g : /\ g[0] = s
               /\ \A k \in 1 .. Len(str) : g[k] = vga_putchar(g[k - 1], str[k])
               /\ vga_print(s, str) = g[Len(str)]
  BY PrintDraws
<1> DEFINE T == {k \in 0 .. Len(str) : ~(Sound(g[k]) /\ Shown(g[k], w, n - k))}
<1>2. SUFFICES ASSUME T # {} PROVE FALSE
  BY <1>1
<1>3. PICK m \in T : \A k \in T : m <= k
  <2>1. T \in SUBSET Nat
    OBVIOUS
  <2> HIDE DEF T
  <2> QED
    BY <2>1, <1>2, NatMin
<1>4. m \in 1 .. Len(str)
  <2>1. n - 0 = n
    OBVIOUS
  <2> QED
    BY <2>1, <1>1, <1>3
<1>5. Sound(g[m - 1]) /\ Shown(g[m - 1], w, n - (m - 1))
  BY <1>3, <1>4
<1>6. (n - (m - 1)) - 1 = n - m /\ n - (m - 1) > 0 /\ str[m] = BS
  BY <1>4
<1>7. Sound(g[m]) /\ Shown(g[m], w, n - m)
  BY <1>1, <1>4, <1>5, <1>6, PutBackspace
<1> QED
  BY <1>3, <1>7

LEMMA EditorFacts ==
  /\ MAX_LINE \in Nat /\ MAX_LINE >= 1 /\ MAX_HISTORY \in Nat /\ MAX_HISTORY >= 1
  /\ PREFIX_MAX \in Nat /\ MAX_KEYS \in Nat
  /\ PROMPT \in Seq(Glyphs) /\ Len(PROMPT) < VGA_COLS /\ Len(PROMPT) \in Nat
  /\ \A k \in 1 .. Len(PROMPT) : PROMPT[k] \in Glyphs
BY EditorAssumption, RowFacts

\* The prompt is on a row of its own.
LEMMA PromptShown ==
  ASSUME NEW s, Sound(s)
  PROVE  Sound(ShowPrompt(s)) /\ Shown(ShowPrompt(s), PROMPT, Len(PROMPT))
<1>1. PICK str : str = <<NL>> \o PROMPT
  OBVIOUS
<1>2. PICK p : p = Len(PROMPT)
  OBVIOUS
<1>3. /\ Len(str) = p + 1 /\ str[1] = NL
      /\ \A k \in 2 .. (p + 1) : str[k] = PROMPT[k - 1]
  BY <1>1, <1>2, EditorFacts
<1>4. p \in Nat /\ p < VGA_COLS /\ VGA_COLS \in Nat
      /\ \A k \in 1 .. p : PROMPT[k] \in Glyphs
  BY <1>2, EditorFacts, RowFacts
<1>5. ShowPrompt(s) = vga_print(s, str)
  BY <1>1 DEF ShowPrompt
<1> HIDE <1>1
<1>6. Len(str) \in Nat
  BY <1>3, <1>4
<1>7. PICK g : /\ g[0] = s
               /\ \A k \in 1 .. Len(str) : g[k] = vga_putchar(g[k - 1], str[k])
               /\ vga_print(s, str) = g[Len(str)]
  BY <1>6, PrintDraws
<1> DEFINE T == {k \in 1 .. (p + 1) : ~(Sound(g[k]) /\ Shown(g[k], PROMPT, k - 1))}
<1>8. SUFFICES ASSUME T # {} PROVE FALSE
  <2>1. p + 1 \in 1 .. (p + 1) /\ (p + 1) - 1 = p
    BY <1>4
  <2>2. T = {} => Sound(g[p + 1]) /\ Shown(g[p + 1], PROMPT, p)
    BY <2>1
  <2> QED
    BY <2>2, <1>2, <1>3, <1>5, <1>7
<1>9. PICK m \in T : \A k \in T : m <= k
  <2>1. T \in SUBSET Nat
    BY <1>4
  <2> HIDE DEF T
  <2> QED
    BY <2>1, <1>8, NatMin
<1>10. m \in 1 .. (p + 1)
  BY <1>9
<1>11. CASE m = 1
  <2>1. g[1] = vga_putchar(s, NL)
    BY <1>3, <1>4, <1>7
  <2>2. Sound(g[1]) /\ Shown(g[1], PROMPT, 0)
    BY <2>1, PutNewline
  <2>3. 1 - 1 = 0
    OBVIOUS
  <2> QED
    BY <2>2, <2>3, <1>9, <1>11
<1>12. CASE m # 1
  <2>1. m \in 2 .. (p + 1) /\ m - 1 \in 1 .. (p + 1) /\ m - 1 < m
    BY <1>4, <1>10, <1>12
  <2>2. m - 1 \notin T
    BY <2>1, <1>9
  <2>3. Sound(g[m - 1]) /\ Shown(g[m - 1], PROMPT, (m - 1) - 1)
    BY <2>1, <2>2
  <2>4. ((m - 1) - 1) + 1 = m - 1 /\ m - 1 < VGA_COLS /\ m - 1 \in 1 .. p
    BY <2>1, <1>4
  <2>5. str[m] = PROMPT[m - 1] /\ str[m] \in Glyphs
    BY <2>1, <2>4, <1>3, <1>4
  <2>6. g[m] = vga_putchar(g[m - 1], str[m])
    BY <1>3, <1>7, <1>10
  <2>7. Sound(g[m]) /\ Shown(g[m], PROMPT, m - 1)
    BY <2>3, <2>4, <2>5, <2>6, PutGlyph
  <2> QED
    BY <2>7, <1>9
<1> QED
  BY <1>11, <1>12

-----------------------------------------------------------------------------
(***************************************************************************)
(* The inductive invariant.  ScreenShowsLine speaks of a line that has not *)
(* wrapped; that the next prompt starts on a blank row needs the rows      *)
(* below the cursor to be blank in every state, wrapped or not, and that   *)
(* nothing is drawn outside the screen needs the cursor to be on it.       *)
(***************************************************************************)
EditOK ==
  /\ Sound(screen)
  /\ line \in Seq(Glyphs) /\ Len(line) <= MAX_LINE
  /\ wrapped \in BOOLEAN
  /\ ~wrapped => Shown(screen, PROMPT \o line, Len(PROMPT) + Len(line))

\* A line that is kept: not empty, and one cmd_buffer can hold.
Kept(w) == w \in Seq(Glyphs) /\ Len(w) \in 1 .. MAX_LINE

HistoryOK ==
  /\ history \in Seq(Seq(Glyphs)) /\ \A k \in 1 .. Len(history) : Kept(history[k])
  /\ submitted \in Seq(Seq(Glyphs))
  /\ HistoryIsRecent
  /\ history_pos \in Int /\ history_pos >= -1
  /\ BrowsingEntry

IInv == EditOK /\ HistoryOK /\ keys \in 0 .. MAX_KEYS

\* The characters of the prompt and of a line behind it.
LEMMA PromptAndLine ==
  ASSUME NEW w \in Seq(Glyphs)
  PROVE  /\ \A k \in 1 .. Len(PROMPT) : (PROMPT \o w)[k] = PROMPT[k]
         /\ \A k \in 1 .. Len(w) : (PROMPT \o w)[Len(PROMPT) + k] = w[k]
         /\ \A k \in 1 .. Len(w) : w[k] \in Glyphs
         /\ Len(w) \in Nat
BY EditorFacts

\* Shown looks at the first n characters only.
LEMMA ShownPrefix ==
  ASSUME NEW s, NEW v, NEW w, NEW n \in Nat, Shown(s, v, n),
         \A k \in 1 .. n : v[k] = w[k]
  PROVE  Shown(s, w, n)
<1> SUFFICES ASSUME NEW x \in Cols
             PROVE  s.cells[s.row][x] = IF x < n THEN w[x + 1] ELSE BLANK
  BY DEF Shown
<1>1. x < n => x + 1 \in 1 .. n
  BY DEF Cols
<1> QED
  BY <1>1 DEF Shown

\* Redraw keeps EditOK if the screen it is given shows the line.
LEMMA RedrawOK ==
  ASSUME EditOK, NEW w \in Seq(Glyphs), Len(w) <= MAX_LINE, NEW s, Redraw(w, s),
         Sound(s),
         (~wrapped /\ Len(PROMPT) + Len(w) < VGA_COLS)
            => Shown(s, PROMPT \o w, Len(PROMPT) + Len(w))
  PROVE  EditOK'
<1>1. line' = w /\ screen' = s
      /\ wrapped' = (wrapped \/ Len(PROMPT) + Len(w) >= VGA_COLS)
  BY DEF Redraw
<1>2. wrapped' \in BOOLEAN /\ (~wrapped' => ~wrapped /\ Len(PROMPT) + Len(w) < VGA_COLS)
  <2>1. ~(Len(PROMPT) + Len(w) >= VGA_COLS) => Len(PROMPT) + Len(w) < VGA_COLS
    BY EditorFacts, RowFacts, PromptAndLine
  <2> QED
    BY <2>1, <1>1
<1> QED
  BY <1>1, <1>2 DEF EditOK

\* A key that changes neither the line nor the screen.
LEMMA KeepOK ==
  ASSUME EditOK, Redraw(line, screen)
  PROVE  EditOK'
BY RedrawOK DEF EditOK

LEMMA AppendOK ==
  ASSUME EditOK, NEW ch \in Glyphs, Len(line) < MAX_LINE,
         Redraw(Append(line, ch), vga_putchar(screen, ch))
  PROVE  EditOK'
<1>1. PICK w : w = Append(line, ch)
  OBVIOUS
<1>2. PICK s : s = vga_putchar(screen, ch)
  OBVIOUS
<1>3. PICK p : p = Len(PROMPT)
  OBVIOUS
<1>4. PICK n : n = Len(line)
  OBVIOUS
<1>5. line \in Seq(Glyphs) /\ Sound(screen)
  BY DEF EditOK
<1>6. n \in Nat /\ p \in Nat
  BY <1>3, <1>4, <1>5, EditorFacts
<1>7. /\ w \in Seq(Glyphs) /\ Len(w) = n + 1
      /\ w[n + 1] = ch /\ \A k \in 1 .. n : w[k] = line[k]
  BY <1>1, <1>4, <1>5
<1>8. Len(w) <= MAX_LINE
  BY <1>4, <1>6, <1>7, EditorFacts
<1>9. Sound(s)
  BY <1>2, <1>5, PutGlyph
<1>10. ASSUME ~wrapped, p + (n + 1) < VGA_COLS
       PROVE  Shown(s, PROMPT \o w, p + (n + 1))
  <2>1. Shown(screen, PROMPT \o line, p + n)
    BY <1>3, <1>4, <1>10 DEF EditOK
  <2>2. PICK v : v = PROMPT \o line
    OBVIOUS
  <2>3. PICK u : u = PROMPT \o w
    OBVIOUS
  <2>4. \A k \in 1 .. (p + n) : v[k] = u[k]
    <3> SUFFICES ASSUME NEW k \in 1 .. (p + n) PROVE v[k] = u[k]
      OBVIOUS
    <3>1. CASE k \in 1 .. p
      BY <3>1, <2>2, <2>3, <1>3, <1>5, <1>7, PromptAndLine
    <3>2. CASE k \notin 1 .. p
      <4>1. PICK i \in 1 .. n : k = p + i
        <5>1. k - p \in 1 .. n /\ k = p + (k - p)
          BY <3>2, <1>6
        <5> QED
          BY <5>1
      <4>2. i \in 1 .. (n + 1)
        BY <1>6
      <4>3. v[p + i] = line[i]
        BY <4>1, <2>2, <1>3, <1>4, <1>5, PromptAndLine
      <4>4. u[p + i] = w[i]
        BY <4>2, <2>3, <1>3, <1>7, PromptAndLine
      <4> QED
        BY <4>1, <4>3, <4>4, <1>7
    <3> QED
      BY <3>1, <3>2
  <2>5. PICK j : j = p + n
    OBVIOUS
  <2>6. j \in Nat /\ j + 1 = p + (n + 1) /\ j + 1 < VGA_COLS
    BY <2>5, <1>6, <1>10, RowFacts
  <2>7. Shown(screen, u, j)
    BY <2>1, <2>2, <2>4, <2>5, <2>6, ShownPrefix
  <2>8. n + 1 \in 1 .. Len(w)
    BY <1>6, <1>7
  <2>9. u[p + (n + 1)] = ch
    BY <2>3, <2>8, <1>3, <1>7, PromptAndLine
  <2>10. u[j + 1] = ch
    BY <2>6, <2>9
  <2>11. Shown(s, u, j + 1)
    BY ONLY <2>6, <2>7, <2>10, <1>2, <1>5, PutGlyph, ch \in Glyphs
  <2> QED
    BY <2>3, <2>6, <2>11
<1>11. Redraw(w, s)
  BY <1>1, <1>2
<1>12. (~wrapped /\ Len(PROMPT) + Len(w) < VGA_COLS)
          => Shown(s, PROMPT \o w, Len(PROMPT) + Len(w))
  BY <1>3, <1>7, <1>10
<1> QED
  BY ONLY EditOK, <1>7, <1>8, <1>9, <1>11, <1>12, RedrawOK

\* Two texts that start with the prompt and the same n characters.
LEMMA CommonStart ==
  ASSUME NEW v \in Seq(Glyphs), NEW w \in Seq(Glyphs), NEW n \in Nat,
         n <= Len(v), n <= Len(w), \A k \in 1 .. n : v[k] = w[k]
  PROVE  \A k \in 1 .. (Len(PROMPT) + n) : (PROMPT \o v)[k] = (PROMPT \o w)[k]
<1> SUFFICES ASSUME NEW k \in 1 .. (Len(PROMPT) + n)
             PROVE  (PROMPT \o v)[k] = (PROMPT \o w)[k]
  OBVIOUS
<1>1. PICK p : p = Len(PROMPT)
  OBVIOUS
<1>2. p \in Nat
  BY <1>1, EditorFacts
<1>3. CASE k \in 1 .. p
  BY <1>1, <1>3, PromptAndLine
<1>4. CASE k \notin 1 .. p
  <2>1. PICK i : i = k - p
    OBVIOUS
  <2>2. i \in 1 .. n /\ k = p + i
    BY <2>1, <1>1, <1>2, <1>4
  <2>3. i \in 1 .. Len(v) /\ i \in 1 .. Len(w)
    BY <2>2, PromptAndLine
  <2>4. (PROMPT \o v)[p + i] = v[i] /\ (PROMPT \o w)[p + i] = w[i]
    BY <2>3, <1>1, PromptAndLine
  <2> QED
    BY <2>2, <2>4
<1> QED
  BY <1>3, <1>4

\* The backspace key.
LEMMA EraseOK ==
  ASSUME EditOK, Len(line) > 0, Redraw(Front(line), vga_putchar(screen, BS))
  PROVE  EditOK'
<1>1. PICK w : w = Front(line)
  OBVIOUS
<1>2. PICK s : s = vga_putchar(screen, BS)
  OBVIOUS
<1>3. PICK p : p = Len(PROMPT)
  OBVIOUS
<1>4. PICK n : n = Len(line)
  OBVIOUS
<1>5. line \in Seq(Glyphs) /\ Sound(screen)
  BY DEF EditOK
<1>6. n \in Nat /\ p \in Nat /\ n > 0 /\ n - 1 \in Nat
  BY <1>3, <1>4, <1>5, EditorFacts
<1>7. /\ w \in Seq(Glyphs) /\ Len(w) = n - 1
      /\ \A k \in 1 .. (n - 1) : line[k] = w[k]
  <2>1. w = SubSeq(line, 1, n - 1)
    BY <1>1, <1>4 DEF Front
  <2> QED
    BY <2>1, <1>4, <1>5, <1>6
<1>8. Len(w) <= MAX_LINE
  BY <1>4, <1>6, <1>7, EditorFacts DEF EditOK
<1>9. Sound(s)
  BY <1>2, <1>5, PutBackspace
<1>10. ASSUME ~wrapped PROVE Shown(s, PROMPT \o w, p + (n - 1))
  <2>1. PICK v : v = PROMPT \o line
    OBVIOUS
  <2>2. Shown(screen, v, p + n)
    BY <2>1, <1>3, <1>4, <1>10 DEF EditOK
  <2>3. p + n > 0 /\ (p + n) - 1 = p + (n - 1) /\ p + (n - 1) \in Nat
    BY <1>6
  <2>4. Shown(s, v, p + (n - 1))
    BY <2>2, <2>3, <1>2, <1>5, PutBackspace
  <2>5. n - 1 <= Len(line) /\ n - 1 <= Len(w)
    BY <1>4, <1>6, <1>7
  <2>6. \A k \in 1 .. (p + (n - 1)) : v[k] = (PROMPT \o w)[k]
    BY <2>1, <2>5, <1>3, <1>5, <1>6, <1>7, CommonStart
  <2> QED
    BY <2>3, <2>4, <2>6, ShownPrefix
<1>11. Redraw(w, s)
  BY <1>1, <1>2
<1>12. (~wrapped /\ Len(PROMPT) + Len(w) < VGA_COLS)
          => Shown(s, PROMPT \o w, Len(PROMPT) + Len(w))
  BY <1>3, <1>7, <1>10
<1> QED
  BY ONLY EditOK, <1>7, <1>8, <1>9, <1>11, <1>12, RedrawOK

\* clear_line leaves the prompt.
LEMMA ClearLine ==
  ASSUME EditOK, NEW w \in Seq(Glyphs)
  PROVE  /\ Sound(clear_line)
         /\ ~wrapped => Shown(clear_line, PROMPT \o w, Len(PROMPT))
<1>1. PICK str : str = [k \in 1 .. Len(line) |-> BS]
  OBVIOUS
<1>2. PICK p : p = Len(PROMPT)
  OBVIOUS
<1>3. PICK n : n = Len(line)
  OBVIOUS
<1>4. line \in Seq(Glyphs) /\ Sound(screen)
  BY DEF EditOK
<1>5. n \in Nat /\ p \in Nat
  BY <1>2, <1>3, <1>4, EditorFacts
<1>6. Len(str) = n /\ \A k \in 1 .. n : str[k] = BS
  BY <1>1, <1>3, <1>5
<1>7. clear_line = vga_print(screen, str)
  BY <1>1 DEF clear_line
<1>8. PICK s : s = clear_line
  OBVIOUS
<1>9. Sound(s)
  BY <1>4, <1>5, <1>6, <1>7, <1>8, PrintSound
<1>10. ASSUME ~wrapped PROVE Shown(s, PROMPT \o w, p)
  <2>1. PICK v : v = PROMPT \o line
    OBVIOUS
  <2>2. Shown(screen, v, p + n)
    BY <2>1, <1>2, <1>3, <1>10 DEF EditOK
  <2>3. p + n \in Nat /\ n <= p + n /\ (p + n) - n = p /\ p + 0 = p
    BY <1>5
  <2>4. Shown(s, v, p)
    BY <2>2, <2>3, <1>4, <1>5, <1>6, <1>7, <1>8, PrintBackspaces
  <2>5. \A k \in 1 .. p : v[k] = (PROMPT \o w)[k]
    BY <2>1, <1>2, <1>4, PromptAndLine
  <2> QED
    BY <2>4, <2>5, <1>5, ShownPrefix
<1> QED
  BY <1>2, <1>8, <1>9, <1>10

\* Completion and the history replace the line.
LEMMA ReplaceOK ==
  ASSUME EditOK, NEW w \in Seq(Glyphs), Len(w) <= MAX_LINE, Replace(w)
  PROVE  EditOK'
<1>1. PICK b : b = clear_line
  OBVIOUS
<1>2. PICK s : s = vga_print(b, w)
  OBVIOUS
<1>3. PICK p : p = Len(PROMPT)
  OBVIOUS
<1>4. Redraw(w, s)
  BY <1>1, <1>2 DEF Replace
<1>5. Len(w) \in Nat /\ p \in Nat /\ \A k \in 1 .. Len(w) : w[k] \in Glyphs
  BY <1>3, EditorFacts, PromptAndLine
<1>6. Sound(b) /\ (~wrapped => Shown(b, PROMPT \o w, p))
  BY <1>1, <1>3, ClearLine
<1>7. Sound(s)
  BY <1>2, <1>5, <1>6, PrintSound
<1>8. \A k \in 1 .. Len(w) : w[k] \in Glyphs /\ (PROMPT \o w)[p + k] = w[k]
  BY <1>3, PromptAndLine
<1>9. (~wrapped /\ p + Len(w) < VGA_COLS) => Shown(s, PROMPT \o w, p + Len(w))
  BY <1>2, <1>5, <1>6, <1>8, PrintGlyphs
<1> QED
  BY ONLY EditOK, w \in Seq(Glyphs), Len(w) <= MAX_LINE, <1>3, <1>4, <1>7, <1>9, RedrawOK

\* Past the last entry of the history the line is empty.
LEMMA EmptyOK ==
  ASSUME EditOK, Redraw(<< >>, clear_line)
  PROVE  EditOK'
<1>1. PICK w : w = << >>
  OBVIOUS
<1>2. w \in Seq(Glyphs) /\ Len(w) = 0 /\ Len(w) <= MAX_LINE
  BY <1>1, EditorFacts
<1>3. PICK s : s = clear_line
  OBVIOUS
<1>4. Redraw(w, s)
  BY <1>1, <1>3
<1>5. Sound(s) /\ (~wrapped => Shown(s, PROMPT \o w, Len(PROMPT)))
  BY <1>2, <1>3, ClearLine
<1>6. Len(PROMPT) + Len(w) = Len(PROMPT)
  BY <1>2, EditorFacts
<1> QED
  BY ONLY EditOK, <1>2, <1>4, <1>5, <1>6, RedrawOK

\* Enter: an empty line behind a new prompt.
LEMMA PromptOK ==
  ASSUME NEW s, Sound(s), screen' = ShowPrompt(s), line' = << >>,
         wrapped' = FALSE
  PROVE  EditOK'
<1>1. Sound(screen') /\ Shown(screen', PROMPT, Len(PROMPT))
  BY PromptShown
<1>2. PROMPT \o << >> = PROMPT /\ Len(PROMPT) + Len(<< >>) = Len(PROMPT)
  BY EditorFacts
<1>3. << >> \in Seq(Glyphs) /\ Len(<< >>) <= MAX_LINE
  BY EditorFacts
<1> QED
  BY <1>1, <1>2, <1>3 DEF EditOK

-----------------------------------------------------------------------------
\* The history, entry by entry.
LEMMA RecentEntries ==
  ASSUME HistoryOK, NEW n, n = Len(submitted),
         NEW m, m = IF n > MAX_HISTORY THEN MAX_HISTORY ELSE n
  PROVE  /\ n \in Nat /\ m \in Nat /\ Len(history) = m
         /\ \A k \in 1 .. m : history[k] = submitted[n - m + k]
<1>1. PICK a : a = IF n > MAX_HISTORY THEN n - MAX_HISTORY + 1 ELSE 1
  OBVIOUS
<1>2. submitted \in Seq(Seq(Glyphs)) /\ history = SubSeq(submitted, a, n)
  BY <1>1 DEF HistoryOK, HistoryIsRecent
<1>3. /\ n \in Nat /\ m \in Nat /\ m <= n
      /\ a \in Nat /\ a >= 1 /\ a <= n + 1 /\ n - a + 1 = m
  BY <1>1, <1>2, EditorFacts
<1>4. Len(history) = n - a + 1
  BY <1>2, <1>3
<1>5. \A k \in 1 .. (n - a + 1) : history[k] = submitted[a + k - 1]
  BY <1>2, <1>3
<1>6. \A k \in 1 .. m : a + k - 1 = n - m + k
  BY ONLY <1>3
<1> QED
  BY <1>3, <1>4, <1>5, <1>6

\* add_to_history keeps the last MAX_HISTORY lines.
LEMMA AddRecent ==
  ASSUME HistoryOK, NEW w, Kept(w)
  PROVE  /\ add_to_history(w) \in Seq(Seq(Glyphs))
         /\ \A k \in 1 .. Len(add_to_history(w)) : Kept(add_to_history(w)[k])
         /\ add_to_history(w)
              = LET s == Append(submitted, w)
                    n == Len(s)
                IN  SubSeq(s, IF n > MAX_HISTORY THEN n - MAX_HISTORY + 1 ELSE 1, n)
<1>1. PICK n : n = Len(submitted)
  OBVIOUS
<1>2. PICK m : m = IF n > MAX_HISTORY THEN MAX_HISTORY ELSE n
  OBVIOUS
<1>3. /\ n \in Nat /\ m \in Nat /\ Len(history) = m
      /\ \A k \in 1 .. m : history[k] = submitted[n - m + k]
  BY <1>1, <1>2, RecentEntries
<1>4. PICK s : s = Append(submitted, w)
  OBVIOUS
<1>5. PICK h : h = add_to_history(w)
  OBVIOUS
<1>6. /\ history \in Seq(Seq(Glyphs)) /\ submitted \in Seq(Seq(Glyphs))
      /\ w \in Seq(Glyphs) /\ w # << >>
  BY DEF HistoryOK, Kept
<1>7. /\ s \in Seq(Seq(Glyphs)) /\ Len(s) = n + 1 /\ s[n + 1] = w
      /\ \A k \in 1 .. n : s[k] = submitted[k]
  BY <1>1, <1>4, <1>6
<1>8. PICK a : a = IF n + 1 > MAX_HISTORY THEN (n + 1) - MAX_HISTORY + 1 ELSE 1
  OBVIOUS
<1>9. PICK t : t = SubSeq(s, a, n + 1)
  OBVIOUS
<1>10. a \in Nat /\ a >= 1 /\ a <= n + 1
  BY <1>3, <1>8, EditorFacts
<1>11. /\ t \in Seq(Seq(Glyphs)) /\ Len(t) = n + 2 - a
       /\ \A k \in 1 .. (n + 2 - a) : t[k] = s[a + k - 1]
  BY <1>3, <1>7, <1>9, <1>10
<1>12. CASE m < MAX_HISTORY
  <2>1. h = Append(history, w) /\ m = n /\ a = 1
    BY <1>2, <1>3, <1>5, <1>6, <1>8, <1>12, EditorFacts DEF add_to_history
  <2>2. /\ h \in Seq(Seq(Glyphs)) /\ Len(h) = n + 1 /\ h[n + 1] = w
        /\ \A k \in 1 .. n : h[k] = history[k]
    BY <2>1, <1>3, <1>6
  <2>3. ASSUME NEW k \in 1 .. (n + 1) PROVE h[k] = t[k]
    <3>1. t[k] = s[k]
      BY <2>1, <1>3, <1>11
    <3>2. k # n + 1 => k \in 1 .. n
      BY <1>3
    <3>3. k \in 1 .. n => history[k] = submitted[k]
      BY <2>1, <1>3
    <3> QED
      BY <3>1, <3>2, <3>3, <2>2, <1>7
  <2>4. Len(t) = n + 1
    BY <2>1, <1>3, <1>11
  <2>5. h = t
    BY <2>2, <2>3, <2>4, <1>11, SeqEqual
  <2>6. \A k \in 1 .. Len(h) : Kept(h[k])
    <3>1. \A k \in 1 .. Len(h) : k = n + 1 \/ k \in 1 .. n
      BY <2>2, <1>3
    <3>2. \A k \in 1 .. n : Kept(history[k])
      BY <2>1, <1>3 DEF HistoryOK
    <3> QED
      BY <3>1, <3>2, <2>2
  <2> QED
    BY <2>2, <2>5, <2>6, <1>4, <1>5, <1>7, <1>8, <1>9
<1>13. CASE ~(m < MAX_HISTORY)
  <2>1. /\ h = Append(Tail(history), w)
        /\ m = MAX_HISTORY /\ m >= 1 /\ m <= n /\ a = n - m + 2
    BY <1>2, <1>3, <1>5, <1>6, <1>8, <1>13, EditorFacts DEF add_to_history
  <2>2. PICK r : r = Tail(history)
    OBVIOUS
  <2>3. /\ r \in Seq(Seq(Glyphs)) /\ Len(r) = m - 1
        /\ \A k \in 1 .. (m - 1) : r[k] = history[k + 1]
    BY <2>1, <2>2, <1>3, <1>6
  <2>4. h = Append(r, w)
    BY <2>1, <2>2
  <2>5. /\ h \in Seq(Seq(Glyphs)) /\ Len(h) = m /\ h[m] = w
        /\ \A k \in 1 .. (m - 1) : h[k] = r[k]
    BY <2>1, <2>3, <2>4, <1>3, <1>6
  <2>6. Len(t) = m
    BY <2>1, <1>3, <1>11
  <2>7. ASSUME NEW k \in 1 .. m PROVE h[k] = t[k]
    <3>1. t[k] = s[a + k - 1] /\ a + k - 1 = n - m + k + 1
      BY <2>1, <1>3, <1>11
    <3>2. CASE k = m
      <4>1. a + k - 1 = n + 1
        BY <3>1, <3>2, <1>3
      <4> QED
        BY <4>1, <3>1, <3>2, <2>5, <1>7
    <3>3. CASE k # m
      <4>1. k \in 1 .. (m - 1) /\ k + 1 \in 1 .. m
        BY <3>3, <1>3
      <4>2. h[k] = history[k + 1]
        BY <4>1, <2>3, <2>5
      <4>3. history[k + 1] = submitted[n - m + (k + 1)]
        BY <4>1, <1>3
      <4>4. n - m + (k + 1) = a + k - 1 /\ a + k - 1 \in 1 .. n
        BY <4>1, <3>1, <2>1, <1>3
      <4> QED
        BY <4>2, <4>3, <4>4, <3>1, <1>7
    <3> QED
      BY <3>2, <3>3
  <2>8. h = t
    BY <2>5, <2>6, <2>7, <1>11, SeqEqual
  <2>9. \A k \in 1 .. Len(h) : Kept(h[k])
    <3>1. \A k \in 1 .. Len(h) : k = m \/ (k \in 1 .. (m - 1) /\ k + 1 \in 1 .. m)
      BY <2>5, <1>3
    <3>2. \A k \in 1 .. m : Kept(history[k])
      BY <1>3 DEF HistoryOK
    <3> QED
      BY <3>1, <3>2, <2>3, <2>5, ZenonT(60)
  <2> QED
    BY <2>5, <2>8, <2>9, <1>4, <1>5, <1>7, <1>8, <1>9
<1> QED
  BY <1>12, <1>13

-----------------------------------------------------------------------------
\* Keys other than Enter leave the history alone.
LEMMA HistoryKept ==
  ASSUME HistoryOK, UNCHANGED <<history, submitted>>,
         history_pos' = -1 \/ history_pos' \in 0 .. (Len(history) - 1)
                           \/ history_pos' = history_pos
  PROVE  HistoryOK'
<1>1. history' = history /\ submitted' = submitted
  OBVIOUS
<1>2. history \in Seq(Seq(Glyphs)) /\ Len(history) \in Nat /\ history_pos \in Int
      /\ history_pos >= -1
  BY DEF HistoryOK
<1>3. HistoryIsRecent'
  BY <1>1 DEF HistoryOK, HistoryIsRecent
<1>4. history_pos' \in Int /\ history_pos' >= -1
  BY <1>2
<1>5. BrowsingEntry'
  <2>1. CASE history_pos' = -1
    BY <2>1 DEF BrowsingEntry
  <2>2. CASE history_pos' \in 0 .. (Len(history) - 1)
    <3>1. history_pos' + 1 \in 1 .. Len(history)
      <4>1. PICK i : i = history_pos'
        OBVIOUS
      <4>2. i \in 0 .. (Len(history) - 1) /\ Len(history) \in Nat
        BY <4>1, <2>2, <1>2
      <4>3. i \in Int /\ 0 <= i /\ i <= Len(history) - 1
        BY ONLY <4>2
      <4>4. i + 1 \in 1 .. Len(history)
        BY ONLY <4>2, <4>3
      <4> QED
        BY <4>1, <4>4
    <3>2. DOMAIN history = 1 .. Len(history)
      BY <1>2
    <3> QED
      BY <3>1, <3>2, <1>1 DEF BrowsingEntry
  <2>3. CASE history_pos' = history_pos
    BY <2>3, <1>1 DEF HistoryOK, BrowsingEntry
  <2> QED
    BY <2>1, <2>2, <2>3
<1> QED
  BY <1>1, <1>3, <1>4, <1>5 DEF HistoryOK

\* load_history shows an entry of the history.
LEMMA LoadOK ==
  ASSUME EditOK, HistoryOK, NEW i \in 0 .. (Len(history) - 1), load_history(i)
  PROVE  EditOK' /\ UNCHANGED <<history, submitted>>
<1>1. Len(history) \in Nat
  BY DEF HistoryOK
<1>2. i >= 0 /\ i < Len(history) /\ i + 1 \in 1 .. Len(history)
  BY <1>1
<1>3. PICK w : w = history[i + 1]
  OBVIOUS
<1>4. Kept(w)
  BY <1>2, <1>3 DEF HistoryOK
<1>5. Replace(w)
  BY <1>2, <1>3 DEF load_history
<1>6. w \in Seq(Glyphs) /\ Len(w) <= MAX_LINE
  BY <1>4, EditorFacts DEF Kept
<1> QED
  BY <1>5, <1>6, ReplaceOK DEF Replace, Redraw

LEMMA CharStep ==
  ASSUME IInv, NEW ch \in Typed, Char(ch)
  PROVE  IInv'
<1>1. EditOK /\ HistoryOK /\ keys \in 0 .. MAX_KEYS
  BY DEF IInv
<1>2. keys' \in 0 .. MAX_KEYS
  BY <1>1, EditorFacts DEF Char, Press
<1>3. ch \in Glyphs
  BY EditorAssumption
<1>4. EditOK'
  BY <1>1, <1>3, AppendOK, KeepOK DEF Char
<1>5. UNCHANGED <<history, submitted, history_pos>>
  BY DEF Char, Redraw
<1> QED
  BY <1>1, <1>2, <1>4, <1>5, HistoryKept DEF IInv

LEMMA EraseStep ==
  ASSUME IInv, Erase
  PROVE  IInv'
<1>1. EditOK /\ HistoryOK /\ keys \in 0 .. MAX_KEYS
  BY DEF IInv
<1>2. keys' \in 0 .. MAX_KEYS
  BY <1>1, EditorFacts DEF Erase, Press
<1>4. EditOK'
  BY <1>1, EraseOK, KeepOK DEF Erase
<1>5. UNCHANGED <<history, submitted, history_pos>>
  BY DEF Erase, Redraw
<1> QED
  BY <1>1, <1>2, <1>4, <1>5, HistoryKept DEF IInv

\* A command name fits the buffer.
LEMMA CompleteStep ==
  ASSUME IInv, tab_complete
  PROVE  IInv'
<1>1. EditOK /\ HistoryOK /\ keys \in 0 .. MAX_KEYS
  BY DEF IInv
<1>2. keys' \in 0 .. MAX_KEYS
  BY <1>1, EditorFacts DEF tab_complete, Press
<1>3. CASE Len(line) > 0 /\ \E w \in Matches : Matches = {w}
  <2>1. PICK w : w = CHOOSE v \in Matches : TRUE
    OBVIOUS
  <2>2. w \in Matches
    BY <2>1, <1>3
  <2>3. w \in CommandNames
    BY <2>2 DEF Matches
  <2>4. w \in Seq(Glyphs) /\ Len(w) <= MAX_LINE
    BY <2>3, EditorAssumption, EditorFacts
  <2>5. Replace(w)
    BY <2>1, <1>3 DEF tab_complete
  <2> QED
    BY <2>4, <2>5, <1>1, <1>2, ReplaceOK, HistoryKept
       DEF IInv, tab_complete, Replace, Redraw
<1>4. CASE ~(Len(line) > 0 /\ \E w \in Matches : Matches = {w})
  <2>1. Redraw(line, screen) /\ UNCHANGED history_pos
    BY <1>4 DEF tab_complete
  <2> QED
    BY <2>1, <1>1, <1>2, KeepOK, HistoryKept DEF IInv, Redraw
<1> QED
  BY <1>3, <1>4

LEMMA KeyUpStep ==
  ASSUME IInv, KeyUp
  PROVE  IInv'
<1>1. EditOK /\ HistoryOK /\ keys \in 0 .. MAX_KEYS
  BY DEF IInv
<1>2. keys' \in 0 .. MAX_KEYS
  BY <1>1, EditorFacts DEF KeyUp, Press
<1>3. CASE history # << >>
  <2>1. /\ history_pos' = IF history_pos = -1 THEN Len(history) - 1
                          ELSE IF history_pos > 0 THEN history_pos - 1
                          ELSE history_pos
        /\ load_history(history_pos')
    BY <1>3 DEF KeyUp
  <2>2. Len(history) \in Nat /\ Len(history) > 0
    BY <1>1, <1>3 DEF HistoryOK
  <2>3. history_pos \in Int /\ history_pos >= -1
        /\ (history_pos # -1 => history_pos + 1 \in 1 .. Len(history))
    BY <1>1 DEF HistoryOK, BrowsingEntry
  <2>4. history_pos' \in 0 .. (Len(history) - 1)
    BY <2>1, <2>2, <2>3
  <2> QED
    BY <2>1, <2>4, <1>1, <1>2, LoadOK, HistoryKept DEF IInv
<1>4. CASE history = << >>
  <2>1. Redraw(line, screen) /\ UNCHANGED history_pos
    BY <1>4 DEF KeyUp
  <2> QED
    BY <2>1, <1>1, <1>2, KeepOK, HistoryKept DEF IInv, Redraw
<1> QED
  BY <1>3, <1>4

LEMMA KeyDownStep ==
  ASSUME IInv, KeyDown
  PROVE  IInv'
<1>1. EditOK /\ HistoryOK /\ keys \in 0 .. MAX_KEYS
  BY DEF IInv
<1>2. keys' \in 0 .. MAX_KEYS
  BY <1>1, EditorFacts DEF KeyDown, Press
<1>3. CASE history_pos = -1
  <2>1. Redraw(line, screen) /\ UNCHANGED history_pos
    BY <1>3 DEF KeyDown
  <2> QED
    BY <2>1, <1>1, <1>2, KeepOK, HistoryKept DEF IInv, Redraw
<1>4. CASE history_pos # -1 /\ history_pos < Len(history) - 1
  <2>1. history_pos' = history_pos + 1 /\ load_history(history_pos')
    BY <1>4 DEF KeyDown
  <2>2. Len(history) \in Nat /\ history_pos \in Int /\ history_pos >= -1
    BY <1>1 DEF HistoryOK
  <2>3. history_pos' \in 0 .. (Len(history) - 1)
    BY <2>1, <2>2, <1>4
  <2> QED
    BY <2>1, <2>3, <1>1, <1>2, LoadOK, HistoryKept DEF IInv
<1>5. CASE history_pos # -1 /\ ~(history_pos < Len(history) - 1)
  <2>1. history_pos' = -1 /\ Redraw(<< >>, clear_line)
    BY <1>5 DEF KeyDown
  <2> QED
    BY <2>1, <1>1, <1>2, EmptyOK, HistoryKept DEF IInv, Redraw
<1> QED
  BY <1>3, <1>4, <1>5

\* Every text a command prints can be printed.
LEMMA OutputSound ==
  ASSUME NEW s, Sound(s), NEW text \in Outputs
  PROVE  Sound(vga_print(s, text))
<1>1. text \in Seq(Glyphs \cup {NL})
  BY EditorAssumption
<1>2. Len(text) \in Nat /\ \A k \in 1 .. Len(text) : text[k] \in Glyphs \cup {NL, BS}
  BY <1>1
<1> QED
  BY <1>2, PrintSound

LEMMA EnterStep ==
  ASSUME IInv, Enter
  PROVE  IInv'
<1>1. EditOK /\ HistoryOK /\ keys \in 0 .. MAX_KEYS
  BY DEF IInv
<1>2. keys' \in 0 .. MAX_KEYS
  BY <1>1, EditorFacts DEF Enter, Press
<1>3. \E s : Sound(s) /\ screen' = ShowPrompt(s)
  <2>1. CASE \E text \in Outputs : screen' = ShowPrompt(vga_print(screen, text))
    BY <2>1, <1>1, OutputSound DEF EditOK
  <2>2. CASE screen' = ShowPrompt(vga_print(draw_title_bar(vga_clear), <<NL>>))
    <3>1. Len(<<NL>>) \in Nat /\ \A k \in 1 .. Len(<<NL>>) : <<NL>>[k] \in Glyphs \cup {NL, BS}
      OBVIOUS
    <3> QED
      BY <3>1, <2>2, ClearSound, PrintSound
  <2> QED
    BY <2>1, <2>2 DEF Enter
<1>4. line' = << >> /\ wrapped' = FALSE /\ history_pos' = -1
  BY DEF Enter
<1>5. EditOK'
  BY <1>3, <1>4, PromptOK
<1>6. CASE line = << >>
  <2>1. UNCHANGED <<history, submitted>>
    BY <1>6 DEF Enter, add_to_history
  <2> QED
    BY <2>1, <1>1, <1>2, <1>4, <1>5, HistoryKept DEF IInv
<1>7. CASE line # << >>
  <2>1. history' = add_to_history(line) /\ submitted' = Append(submitted, line)
    BY <1>7 DEF Enter
  <2>2. line \in Seq(Glyphs) /\ Kept(line)
    BY <1>1, <1>7, EditorFacts DEF EditOK, Kept
  <2>3. /\ history' \in Seq(Seq(Glyphs))
        /\ \A k \in 1 .. Len(history') : Kept(history'[k])
        /\ HistoryIsRecent'
    BY <2>1, <2>2, <1>1, AddRecent DEF HistoryIsRecent
  <2>4. submitted' \in Seq(Seq(Glyphs))
    BY <2>1, <2>2, <1>1 DEF HistoryOK
  <2>5. history_pos' \in Int /\ history_pos' >= -1 /\ BrowsingEntry'
    BY <1>4 DEF BrowsingEntry
  <2> QED
    BY <2>3, <2>4, <2>5, <1>2, <1>5 DEF IInv, HistoryOK, Kept
<1> QED
  BY <1>6, <1>7

\* The inductive invariant of the line editor.
THEOREM Invariant == Spec => []IInv
<1>1. Init => IInv
  <2> SUFFICES ASSUME Init PROVE IInv
    OBVIOUS
  <2>1. PICK s : Sound(s) /\ screen = ShowPrompt(s)
    BY ClearSound, OutputSound DEF Init
  <2>2. line = << >> /\ wrapped = FALSE /\ history = << >> /\ submitted = << >>
        /\ history_pos = -1 /\ keys = 0
    BY DEF Init
  <2>3. EditOK
    <3>1. Sound(screen) /\ Shown(screen, PROMPT, Len(PROMPT))
      BY <2>1, PromptShown
    <3>2. PROMPT \o << >> = PROMPT /\ Len(PROMPT) + Len(<< >>) = Len(PROMPT)
      BY EditorFacts
    <3>3. << >> \in Seq(Glyphs) /\ Len(<< >>) <= MAX_LINE
      BY EditorFacts
    <3> QED
      BY <3>1, <3>2, <3>3, <2>2 DEF EditOK
  <2>4. HistoryIsRecent
    <3>1. ~(0 > MAX_HISTORY)
      BY EditorFacts
    <3>2. SubSeq(<< >>, 1, 0) = << >> /\ Len(<< >>) = 0
      OBVIOUS
    <3> QED
      BY <3>1, <3>2, <2>2 DEF HistoryIsRecent
  <2>5. HistoryOK
    BY <2>2, <2>4 DEF HistoryOK, BrowsingEntry
  <2> QED
    BY <2>2, <2>3, <2>5, EditorFacts DEF IInv
<1>2. IInv /\ [Next]_vars => IInv'
  <2> SUFFICES ASSUME IInv, [Next]_vars PROVE IInv'
    OBVIOUS
  <2>1. CASE UNCHANGED vars
    BY <2>1 DEF vars, IInv, EditOK, HistoryOK, HistoryIsRecent, BrowsingEntry
  <2> QED
    BY <2>1, CharStep, EraseStep, CompleteStep, KeyUpStep, KeyDownStep, EnterStep
       DEF Next
<1> QED
  BY <1>1, <1>2, PTL DEF Spec

\* No key sequence overruns cmd_buffer, leaves the screen or stores a line
\* in the history that load_history could not put back into the buffer.
THEOREM TypeCorrect == Spec => []TypeOK
<1>1. IInv => TypeOK
  <2> SUFFICES ASSUME IInv PROVE TypeOK
    OBVIOUS
  <2>1. screen \in Screen /\ line \in Seq(Glyphs) /\ Len(line) <= MAX_LINE
        /\ wrapped \in BOOLEAN /\ keys \in 0 .. MAX_KEYS
    BY DEF IInv, EditOK, Sound, Drawable
  <2>2. \A k \in DOMAIN history : Len(history[k]) \in 1 .. MAX_LINE
    BY DEF IInv, HistoryOK, Kept
  <2>3. history_pos \in -1 .. MAX_HISTORY
    <3>1. Len(history) \in Nat /\ Len(history) <= MAX_HISTORY
      <4>1. PICK n : n = Len(submitted)
        OBVIOUS
      <4>2. PICK m : m = IF n > MAX_HISTORY THEN MAX_HISTORY ELSE n
        OBVIOUS
      <4>3. n \in Nat /\ m \in Nat /\ Len(history) = m
        BY <4>1, <4>2, RecentEntries DEF IInv
      <4> QED
        BY <4>2, <4>3, EditorFacts
    <3>2. history_pos \in Int /\ history_pos >= -1
          /\ (history_pos # -1 => history_pos + 1 \in 1 .. Len(history))
      BY DEF IInv, HistoryOK, BrowsingEntry
    <3> QED
      BY <3>1, <3>2, EditorFacts
  <2> QED
    BY <2>1, <2>2, <2>3 DEF TypeOK
<1> QED
  BY <1>1, Invariant, PTL

\* What the user sees behind the prompt is the line that Enter will run, for
\* every prompt, screen and set of commands, until the line reaches the right
\* edge: vga_putchar's backspace, clear_line and the scrolling keep them equal.
THEOREM LineIsShown == Spec => []ScreenShowsLine
<1>1. IInv => ScreenShowsLine
  <2> SUFFICES ASSUME IInv, ~wrapped
               PROVE  /\ screen.col = Len(PROMPT) + Len(line)
                      /\ \A x \in Cols :
                           screen.cells[screen.row][x] =
                             IF x < Len(PROMPT) THEN PROMPT[x + 1]
                             ELSE IF x < Len(PROMPT) + Len(line)
                             THEN line[x - Len(PROMPT) + 1]
                             ELSE BLANK
    BY DEF ScreenShowsLine
  <2>1. PICK p : p = Len(PROMPT)
    OBVIOUS
  <2>2. PICK n : n = Len(line)
    OBVIOUS
  <2>3. PICK v : v = PROMPT \o line
    OBVIOUS
  <2>4. line \in Seq(Glyphs) /\ Shown(screen, v, p + n)
    BY <2>1, <2>2, <2>3 DEF IInv, EditOK
  <2>5. /\ p \in Nat /\ n \in Nat
        /\ \A k \in 1 .. p : v[k] = PROMPT[k]
        /\ \A k \in 1 .. n : v[p + k] = line[k]
    BY <2>1, <2>2, <2>3, <2>4, EditorFacts, PromptAndLine
  <2>6. ASSUME NEW x \in Cols
        PROVE  screen.cells[screen.row][x] =
                 IF x < p THEN PROMPT[x + 1]
                 ELSE IF x < p + n THEN line[x - p + 1] ELSE BLANK
    <3>1. x \in Nat
      BY DEF Cols
    <3>2. screen.cells[screen.row][x] = IF x < p + n THEN v[x + 1] ELSE BLANK
      BY <2>4 DEF Shown
    <3>3. x < p => x < p + n /\ v[x + 1] = PROMPT[x + 1]
      BY <3>1, <2>5
    <3>4. ~(x < p) /\ x < p + n => v[x + 1] = line[x - p + 1]
      <4> SUFFICES ASSUME ~(x < p), x < p + n PROVE v[x + 1] = line[x - p + 1]
        OBVIOUS
      <4>1. x - p + 1 \in 1 .. n /\ p + (x - p + 1) = x + 1
        BY <3>1, <2>5
      <4>2. v[p + (x - p + 1)] = line[x - p + 1]
        BY <4>1, <2>5
      <4> QED
        BY <4>1, <4>2
    <3> QED
      BY <3>2, <3>3, <3>4
  <2> QED
    BY <2>1, <2>2, <2>4, <2>6 DEF Shown
<1> QED
  BY <1>1, Invariant, PTL

\* add_to_history keeps exactly the last MAX_HISTORY non-empty lines.
THEOREM HistoryStaysRecent == Spec => []HistoryIsRecent
<1>1. IInv => HistoryIsRecent
  BY DEF IInv, HistoryOK
<1> QED
  BY <1>1, Invariant, PTL

\* The arrow keys never index the history outside its entries.
THEOREM BrowsingStaysInside == Spec => []BrowsingEntry
<1>1. IInv => BrowsingEntry
  BY DEF IInv, HistoryOK
<1> QED
  BY <1>1, Invariant, PTL

=============================================================================
