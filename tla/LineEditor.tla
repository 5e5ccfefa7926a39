----------------------------- MODULE LineEditor -----------------------------
(***************************************************************************)
(* The shell's command line, kernel/shell.cpp: shell_run's handling of one *)
(* key, the command history, tab completion, and the line as it is drawn   *)
(* on the console of module Vga.  What the commands do is module           *)
(* Commands; here a command prints some text, or clears the screen.        *)
(***************************************************************************)
EXTENDS Vga, SequencesExt

CONSTANTS
  MAX_LINE,     \* characters a line may have (255)
  MAX_HISTORY,  \* 10
  PREFIX_MAX,   \* characters tab_complete looks at (63)
  PROMPT,       \* "\n  KOS> " without the newline
  CommandNames, \* the names tab_complete knows
  Upper,        \* upper case of a glyph
  Typed,        \* the characters that are typed
  Outputs,      \* what commands print
  MAX_KEYS      \* bound on the keys pressed

ASSUME EditorAssumption ==
  /\ {MAX_LINE, MAX_HISTORY, PREFIX_MAX, MAX_KEYS} \subseteq Nat \ {0}
  /\ PROMPT \in Seq(Glyphs) /\ Len(PROMPT) < VGA_COLS
  /\ Typed \subseteq Glyphs
  /\ Upper \in [Glyphs -> Glyphs]
  /\ \A w \in CommandNames : w \in Seq(Glyphs) /\ Len(w) \in 1 .. MAX_LINE
  /\ \A w \in Outputs : w \in Seq(Glyphs \cup {NL})

VARIABLES
  screen,
  line,         \* cmd_buffer up to cmd_len
  history,
  history_pos,  \* index into history, -1 while the user is not browsing
  keys,         \* how many keys were pressed
  submitted,    \* the non-empty lines entered so far (history variable)
  wrapped       \* has this line reached the right edge? (history variable)

vars == <<screen, line, history, history_pos, keys, submitted, wrapped>>

ShowPrompt(s) == vga_print(s, <<NL>> \o PROMPT)

Init ==
  /\ \E text \in Outputs :
       screen = ShowPrompt(vga_print(
                  draw_title_bar(vga_clear), text))
  /\ line = << >>
  /\ history = << >>
  /\ history_pos = -1
  /\ keys = 0
  /\ submitted = << >>
  /\ wrapped = FALSE

-----------------------------------------------------------------------------
\* Every key: the line is now w, drawn as s.
Redraw(w, s) ==
  /\ line' = w
  /\ screen' = s
  /\ wrapped' = (wrapped \/ Len(PROMPT) + Len(w) >= VGA_COLS)
  /\ UNCHANGED <<history, submitted>>

Press ==
  /\ keys < MAX_KEYS
  /\ keys' = keys + 1

\* Mutant: the last character is not backed over.
clear_line_short == vga_print(screen, [k \in 1 .. (Len(line) - 1) |-> BS])

\* clear_line backs over the line; a backspace stops at the left edge.
clear_line == vga_print(screen, [k \in 1 .. Len(line) |-> BS])

\* Replace the line by w on the screen and in the buffer.
Replace(w) == Redraw(w, vga_print(clear_line, w))

\* load_history, with its bounds check.
load_history(index) ==
  IF index >= 0 /\ index < Len(history)
  THEN Replace(history[index + 1])
  ELSE Redraw(line, screen)

\* Mutant: off by one at the end of the buffer.
CharOverrun(ch) ==
  /\ Press
  /\ IF Len(line) <= MAX_LINE
     THEN Redraw(Append(line, ch), vga_putchar(screen, ch))
     ELSE Redraw(line, screen)
  /\ UNCHANGED history_pos

\* A printable key, arrows left and right included.
Char(ch) ==
  /\ Press
  /\ IF Len(line) < MAX_LINE
     THEN Redraw(Append(line, ch), vga_putchar(screen, ch))
     ELSE Redraw(line, screen)
  /\ UNCHANGED history_pos

Erase ==
  /\ Press
  /\ IF Len(line) > 0
     THEN Redraw(Front(line), vga_putchar(screen, BS))
     ELSE Redraw(line, screen)
  /\ UNCHANGED history_pos

\* The command names the line is a prefix of, in either case.
Matches ==
  LET n == IF Len(line) < PREFIX_MAX THEN Len(line) ELSE PREFIX_MAX
      prefix == [k \in 1 .. n |-> Upper[line[k]]]
  IN  {w \in CommandNames : IsPrefix(prefix, w)}

\* Completion happens only if exactly one name matches.
tab_complete ==
  /\ Press
  /\ IF Len(line) > 0 /\ \E w \in Matches : Matches = {w}
     THEN Replace(CHOOSE w \in Matches : TRUE)
     ELSE Redraw(line, screen)
  /\ UNCHANGED history_pos

KeyUp ==
  /\ Press
  /\ IF history # << >>
     THEN /\ history_pos' = IF history_pos = -1 THEN Len(history) - 1
                            ELSE IF history_pos > 0 THEN history_pos - 1
                            ELSE history_pos
          /\ load_history(history_pos')
     ELSE Redraw(line, screen) /\ UNCHANGED history_pos

\* Mutant: browsing goes one entry too far.
KeyDownPast ==
  /\ Press
  /\ IF history_pos = -1
     THEN Redraw(line, screen) /\ UNCHANGED history_pos
     ELSE IF history_pos < Len(history)
     THEN /\ history_pos' = history_pos + 1
          /\ load_history(history_pos')
     ELSE /\ history_pos' = -1
          /\ Redraw(<< >>, clear_line)

KeyDown ==
  /\ Press
  /\ IF history_pos = -1
     THEN Redraw(line, screen) /\ UNCHANGED history_pos
     ELSE IF history_pos < Len(history) - 1
     THEN /\ history_pos' = history_pos + 1
          /\ load_history(history_pos')
     ELSE /\ history_pos' = -1
          /\ Redraw(<< >>, clear_line)

\* Mutant: a full history keeps its oldest entries.
add_to_history_full(w) ==
  IF w = << >> THEN history
  ELSE IF Len(history) < MAX_HISTORY THEN Append(history, w)
  ELSE [history EXCEPT ![MAX_HISTORY] = w]

\* add_to_history: empty lines are not kept, the oldest one makes room.
add_to_history(w) ==
  IF w = << >> THEN history
  ELSE IF Len(history) < MAX_HISTORY THEN Append(history, w)
  ELSE Append(Tail(history), w)

\* Enter: remember the line, run it (it prints, or is CLS), show the prompt.
Enter ==
  /\ Press
  /\ history' = add_to_history(line)
  /\ submitted' = IF line = << >> THEN submitted ELSE Append(submitted, line)
  /\ \/ \E text \in Outputs : screen' = ShowPrompt(vga_print(screen, text))
     \/ screen' = ShowPrompt(vga_print(
                    draw_title_bar(vga_clear), <<NL>>))
  /\ line' = << >>
  /\ history_pos' = -1
  /\ wrapped' = FALSE

Next ==
  \/ \E ch \in Typed : Char(ch)
  \/ Erase \/ tab_complete \/ KeyUp \/ KeyDown \/ Enter

Spec == Init /\ [][Next]_vars

-----------------------------------------------------------------------------
(***************************************************************************)
(* Properties.                                                             *)
(***************************************************************************)

\* The values the variables range over; the line never outgrows cmd_buffer.
TypeOK ==
  /\ screen \in Screen
  /\ line \in Seq(Glyphs) /\ Len(line) <= MAX_LINE
  /\ \A k \in DOMAIN history : Len(history[k]) \in 1 .. MAX_LINE
  /\ history_pos \in -1 .. MAX_HISTORY
  /\ keys \in 0 .. MAX_KEYS
  /\ wrapped \in BOOLEAN

\* What the user sees is what Enter will run: behind the prompt the cursor's
\* row shows the line and nothing else, through typing, erasing, completion,
\* browsing the history and scrolling.  It is only promised while the line
\* has not reached the right edge: a backspace does not go back to the row
\* above.
ScreenShowsLine ==
  ~wrapped =>
    /\ screen.col = Len(PROMPT) + Len(line)
    /\ \A x \in Cols :
         screen.cells[screen.row][x] =
           IF x < Len(PROMPT) THEN PROMPT[x + 1]
           ELSE IF x < Len(PROMPT) + Len(line) THEN line[x - Len(PROMPT) + 1]
           ELSE BLANK

\* The history is the last MAX_HISTORY non-empty lines, in order.
HistoryIsRecent ==
  history = LET n == Len(submitted)
            IN  SubSeq(submitted, IF n > MAX_HISTORY THEN n - MAX_HISTORY + 1
                                  ELSE 1, n)

\* While browsing, the position names an entry of the history.
BrowsingEntry ==
  history_pos # -1 => history_pos + 1 \in DOMAIN history

=============================================================================
