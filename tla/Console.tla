------------------------------ MODULE Console -------------------------------
(***************************************************************************)
(* The console driver of kernel/kernel.cpp under any sequence of calls its *)
(* callers make, against what a terminal promises: the rows below the      *)
(* title bar are the last rows of all the text since the screen was        *)
(* cleared.                                                                *)
(***************************************************************************)
EXTENDS Vga

CONSTANT MAX_LOG  \* bound on the rows of text between two clears

ASSUME MaxLogAssumption == MAX_LOG \in Nat \ {0}

VARIABLES
  screen,  \* the cells and the cursor
  log      \* the rows of text since the last clear (history variable)

vars == <<screen, log>>

\* kernel_main clears the screen and draws the title bar before it prints.
Init ==
  /\ screen = draw_title_bar(vga_clear)
  /\ log = <<BlankRow>>

\* What a character does to the text.
LogOf(ch) ==
  LET n == Len(log)
      col == screen.col
  IN  IF ch = NL THEN Append(log, BlankRow)
      ELSE IF ch = BS
      THEN IF col > 0 THEN [log EXCEPT ![n][col - 1] = BLANK] ELSE log
      ELSE IF col + 1 >= VGA_COLS
      THEN Append([log EXCEPT ![n][col] = ch], BlankRow)
      ELSE [log EXCEPT ![n][col] = ch]

Putchar(ch) ==
  /\ Len(LogOf(ch)) <= MAX_LOG
  /\ screen' = vga_putchar(screen, ch)
  /\ log' = LogOf(ch)

\* cmd_cls: vga_clear, then the title bar again.
Clear ==
  /\ screen' = draw_title_bar(vga_clear)
  /\ log' = <<BlankRow>>

\* draw_separator fills the cursor's row and goes to the next one without
\* the scroll check.  kernel_main calls it on rows 2, 4 and 21 only.
draw_separator(ch) ==
  /\ screen.row < VGA_ROWS - 1
  /\ Len(log) < MAX_LOG
  /\ screen' = [cells |-> [screen.cells EXCEPT ![screen.row]
                                               = [x \in Cols |-> ch]],
                col |-> 0, row |-> screen.row + 1]
  /\ log' = Append([log EXCEPT ![Len(log)] = [x \in Cols |-> ch]], BlankRow)

Next ==
  \/ \E ch \in Glyphs \cup {NL, BS} : Putchar(ch)
  \/ Clear
  \/ \E ch \in Glyphs : draw_separator(ch)

Spec == Init /\ [][Next]_vars

-----------------------------------------------------------------------------
(***************************************************************************)
(* Properties.                                                             *)
(***************************************************************************)

\* The values the variables range over.
TypeOK ==
  /\ screen \in Screen
  /\ log \in Seq([Cols -> Glyphs])

\* The cursor is on the screen and never on the title row, so no character
\* is written outside the video buffer or into the title bar.
CursorOnScreen ==
  /\ screen.col \in Cols
  /\ screen.row \in 1 .. (VGA_ROWS - 1)

\* The title bar survives everything that is printed, scrolled and cleared.
TitleKept == screen.cells[0] = TitleRow

\* The screen shows the end of the text: the cursor's row is its last row,
\* the rows above are the ones before it, as many as fit, and the rows below
\* the cursor are blank.
ShowsTail ==
  /\ screen.row <= Len(log)
  /\ screen.row < VGA_ROWS - 1 => screen.row = Len(log)
  /\ \A y \in 1 .. (VGA_ROWS - 1) :
       screen.cells[y] = IF y <= screen.row
                         THEN log[Len(log) - screen.row + y]
                         ELSE BlankRow

=============================================================================
