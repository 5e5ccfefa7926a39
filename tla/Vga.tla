-------------------------------- MODULE Vga ---------------------------------
(***************************************************************************)
(* The text console of kernel/kernel.cpp.  Row 0 of the screen is the      *)
(* title bar; the rows below it scroll.  The state is one record: the      *)
(* cells, by row and column, and the cursor.  Colours are left out.        *)
(*                                                                         *)
(* The drawing functions are operators from a screen to the screen they    *)
(* leave: module Console specifies the console as a whole, and module      *)
(* LineEditor draws the command line with them.                            *)
(***************************************************************************)
EXTENDS Integers, Sequences

CONSTANTS
  VGA_COLS, VGA_ROWS,  \* 80 and 25
  Glyphs,              \* the printable characters
  TitleRow             \* the row draw_title_bar composes from its texts

ASSUME VgaAssumption ==
  /\ VGA_COLS \in Nat \ {0}
  /\ VGA_ROWS \in Nat /\ VGA_ROWS >= 2
NL == "newline"
BS == "backspace"
BLANK == "blank"

ASSUME GlyphsAssumption == {NL, BS} \cap Glyphs = {} /\ BLANK \in Glyphs

Rows == 0 .. (VGA_ROWS - 1)
Cols == 0 .. (VGA_COLS - 1)

ASSUME TitleAssumption == TitleRow \in [Cols -> Glyphs]

BlankRow == [x \in Cols |-> BLANK]

Screen == [cells : [Rows -> [Cols -> Glyphs]], col : Int, row : Int]

-----------------------------------------------------------------------------
vga_write_cell(s, col, row, ch) == [s EXCEPT !.cells[row][col] = ch]

\* Mutant: the title row scrolls too.
vga_scroll_all(s) ==
  [cells |-> [y \in Rows |-> IF y = VGA_ROWS - 1 THEN BlankRow
                             ELSE s.cells[y + 1]],
   col |-> s.col,
   row |-> s.row - 1]

\* Mutant: the last row is not blanked.
vga_scroll_dirty(s) ==
  [cells |-> [y \in Rows |-> IF y \in {0, VGA_ROWS - 1} THEN s.cells[y]
                             ELSE s.cells[y + 1]],
   col |-> s.col,
   row |-> s.row - 1]

\* Rows 2 and up move up by one; the title row stays, the last one is blank.
vga_scroll(s) ==
  [cells |-> [y \in Rows |-> IF y = 0 THEN s.cells[0]
                             ELSE IF y = VGA_ROWS - 1 THEN BlankRow
                             ELSE s.cells[y + 1]],
   col |-> s.col,
   row |-> s.row - 1]

vga_clear == [cells |-> [y \in Rows |-> BlankRow], col |-> 0, row |-> 1]

\* Where the cursor goes and what is written, before any scrolling.
Newline(s) == [s EXCEPT !.col = 0, !.row = @ + 1]

Backspace(s) ==
  IF s.col > 0
  THEN [vga_write_cell(s, s.col - 1, s.row, BLANK) EXCEPT !.col = @ - 1]
  ELSE s

Advance(s) ==
  IF s.col + 1 >= VGA_COLS THEN Newline(s) ELSE [s EXCEPT !.col = @ + 1]

Emit(s, ch) ==
  IF ch = NL THEN Newline(s)
  ELSE IF ch = BS THEN Backspace(s)
  ELSE Advance(vga_write_cell(s, s.col, s.row, ch))

\* Mutant: only a newline scrolls.
vga_putchar_newline_only(s, ch) ==
  LET t == Emit(s, ch)
  IN  IF ch = NL /\ t.row >= VGA_ROWS THEN vga_scroll(t) ELSE t

vga_putchar(s, ch) ==
  LET t == Emit(s, ch)
  IN  IF t.row >= VGA_ROWS THEN vga_scroll(t) ELSE t

\* vga_print: the characters of a string one after the other.
vga_print(s, str) ==
  LET after[n \in 0 .. Len(str)] ==
        IF n = 0 THEN s ELSE vga_putchar(after[n - 1], str[n])
  IN  after[Len(str)]

\* The title bar is blanked and its two texts are written, clipped.
draw_title_bar(s) == [s EXCEPT !.cells[0] = TitleRow]

=============================================================================
