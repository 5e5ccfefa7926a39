------------------------------ MODULE Commands ------------------------------
(***************************************************************************)
(* Running a command line, kernel/shell.cpp: execute_command splits it at  *)
(* the first "|", runs the first half with its output captured in          *)
(* pipe_buffer, prints the buffer, and runs the second half; a line        *)
(* without "|" is run as it is.  PAUSE waits for a key, REBOOT and         *)
(* SHUTDOWN stop the machine; captured, all three only print.              *)
(*                                                                         *)
(* A text is a sequence of items, one per piece of information a command   *)
(* prints; an item that is a number has its digits.  Most commands print   *)
(* with shell_print, which capturing diverts; some numbers go to the       *)
(* screen directly.                                                        *)
(***************************************************************************)
EXTENDS Format

CONSTANTS
  PIPE_BUFFER_SIZE,  \* 4096 characters; here, items
  Lines,             \* the command lines that are entered
  Readings           \* what the memory managers, the clock and cpuid answer

\* A command is a sequence: its name, and the text or the characters that
\* are its arguments.  "EMPTY" stands for spaces only, "BAD" for a name the
\* shell does not know.
Names ==
  {"EMPTY", "HELP", "CLS", "VER", "ECHO", "MEM", "CPU", "DATE", "TIME",
   "COLOR", "PAUSE", "REBOOT", "SHUTDOWN", "BAD"}
IsCommand(cmd) == cmd \in Seq(STRING) /\ cmd # << >> /\ cmd[1] \in Names

\* A line is one command, or the two halves of a pipe.
ASSUME LinesAssumption ==
  \A ln \in Lines :
    /\ ln \in Seq(Seq(STRING)) /\ Len(ln) \in {1, 2}
    /\ \A k \in DOMAIN ln : IsCommand(ln[k])
ASSUME CommandsAssumption ==
  /\ PIPE_BUFFER_SIZE \in Nat \ {0}
  /\ \A r \in Readings :
       /\ {r.total, r.free, r.heap_used, r.heap_free, r.day, r.month, r.year,
           r.hour, r.minute, r.second} \subseteq Nat
       /\ r.free <= r.total

VARIABLES
  at,                \* "prompt", "first", "flush", "second", "pause", "stopped"
  line,              \* the line that was entered last
  capturing_output, pipe_buffer,
  current_bg_color, current_text_color,
  chosen,            \* the colours as the user typed them last (history)
  out,               \* what the screen shows of this line's output
  machine            \* "on", "off", "reset" or "halted"

colours == <<current_bg_color, current_text_color, chosen>>
vars == <<at, line, capturing_output, pipe_buffer, colours, out, machine>>

Init ==
  /\ at = "prompt"
  /\ line = << >>
  /\ capturing_output = FALSE
  /\ pipe_buffer = << >>
  /\ current_bg_color = 0
  /\ current_text_color = 15
  /\ chosen = <<"0", "F">>
  /\ out = << >>
  /\ machine = "on"

-----------------------------------------------------------------------------
\* Items, printed by way of shell_print ("say") or directly ("put").
Say(x) == [by |-> "say", item |-> x]
Put(x) == [by |-> "put", item |-> x]
Text(what) == Say([what |-> what])

\* A number: its digits in a base, for a value in a unit.
Number(what, digits, base, unit, value) ==
  [what |-> what, digits |-> digits, base |-> base, unit |-> unit,
   value |-> value]
Decimal(what, n, width) == Put(Number(what, print_num(n, width), 10, "none", n))
Hex(what, n, unit) ==
  Put(Number(what, vga_print_hex(IF unit = "KB" THEN n \div 1024 ELSE n), 16,
             unit, n))
Size(what, n) ==
  Say(Number(what, format_size(n).digits, 10, format_size(n).unit, n))

\* MEM's figures: captured, in the unit that fits; else in hexadecimal.
cmd_mem(r) ==
  LET used == r.total - r.free
  IN  <<Text("Memory Statistics")>> \o
      IF capturing_output
      THEN <<Size("Total RAM", r.total), Size("Free RAM", r.free),
             Size("Used RAM", used), Size("Heap Used", r.heap_used),
             Size("Heap Free", r.heap_free)>>
      ELSE <<Hex("Total RAM", r.total, "KB"), Hex("Free RAM", r.free, "KB"),
             Hex("Used RAM", used, "KB"), Hex("Heap Used", r.heap_used, "none"),
             Hex("Heap Free", r.heap_free, "none")>>

\* The vendor, and the features the CPU has; every x86-64 CPU answers the
\* second cpuid.
cmd_cpu(r) ==
  <<Say([what |-> "CPU", vendor |-> r.vendor,
         features |-> {"FPU", "MMX", "SSE", "SSE2", "SSE3"} \cap r.features])>>

cmd_date(r) ==
  <<Text("date is"), Decimal("day", r.day, 2), Text("-"),
    Decimal("month", r.month, 2), Text("-"), Decimal("year", r.year, 4)>>

cmd_time(r) ==
  <<Text("time is"), Decimal("hour", r.hour, 2), Text(":"),
    Decimal("minute", r.minute, 2), Text(":"), Decimal("second", r.second, 2)>>

\* COLOR: the background and foreground that its arguments stand for.
Background(args) == hex_to_int(args[1])
Foreground(args) ==
  IF Len(args) >= 2 THEN hex_to_int(args[2]) ELSE current_text_color
Accepted(args) == Background(args) >= 0 /\ Foreground(args) >= 0

\* COLOR without arguments leaves the numbers out when it is captured.
cmd_color(args) ==
  IF args # << >>
  THEN <<Text(IF Accepted(args) THEN "Color changed" ELSE "Usage")>>
  ELSE IF capturing_output
  THEN <<Text("BG="), Text("FG=")>>
  ELSE <<Text("BG="), Hex("bg", current_bg_color, "none"),
         Text("FG="), Hex("fg", current_text_color, "none")>>

\* outb takes a uint8_t: the value is truncated.
outb(value) == value % 256

\* The ACPI control register powers the machine off when bit 13, sleep
\* enable, is written.
SleepEnable(value) == (value \div 8192) % 2 = 1

\* The three writes of cmd_shutdown: 0x2000, 0x2000 and 0x3400.
PoweredOff == \E v \in {8192, 13312} : SleepEnable(outb(v))

Repeat(what, n) == [k \in 1 .. n |-> Text(what)]

\* What a command prints, given the readings.
Script(cmd, r) ==
  CASE cmd[1] = "MEM"   -> cmd_mem(r)
    [] cmd[1] = "CPU"   -> cmd_cpu(r)
    [] cmd[1] = "DATE"  -> cmd_date(r)
    [] cmd[1] = "TIME"  -> cmd_time(r)
    [] cmd[1] = "COLOR" -> cmd_color(Tail(cmd))
    [] cmd[1] = "HELP"  -> Repeat("HELP", 8)
    [] cmd[1] = "ECHO"  -> <<Text(IF Len(cmd) = 1 THEN "ECHO is on" ELSE cmd[2])>>
    [] cmd[1] = "SHUTDOWN" /\ ~capturing_output /\ ~PoweredOff
         -> <<Text("SHUTDOWN"), Text("ACPI shutdown failed")>>
    [] cmd[1] \in {"EMPTY", "CLS"} -> << >>
    [] OTHER            -> <<Text(cmd[1])>>

\* The items of a script that are printed one way or another.
Items(script, kind) ==
  LET taken[n \in 0 .. Len(script)] ==
        IF n = 0 THEN << >>
        ELSE IF script[n].by \in kind THEN Append(taken[n - 1], script[n].item)
        ELSE taken[n - 1]
  IN  taken[Len(script)]

\* Mutant: the buffer's end is not checked.
CaptureAll(text) == pipe_buffer \o text

\* shell_print while capturing: as much as fits, one place kept for the end.
Capture(text) ==
  LET room == PIPE_BUFFER_SIZE - 1
      all == pipe_buffer \o text
  IN  IF Len(all) <= room THEN all ELSE SubSeq(all, 1, room)

\* The colour COLOR sets; a missing second character keeps the text's.
SetColour(cmd) ==
  LET args == Tail(cmd)
  IN  IF cmd[1] = "COLOR" /\ args # << >> /\ Accepted(args)
      THEN /\ current_bg_color' = Background(args)
           /\ current_text_color' = Foreground(args)
      ELSE UNCHANGED <<current_bg_color, current_text_color>>

\* What the user chose: hexadecimal characters in either case, or nothing.
Choose(cmd) ==
  LET args == SubSeq(Tail(cmd), 1, IF Len(cmd) > 3 THEN 2 ELSE Len(cmd) - 1)
      Upper(ch) == IF IsIn(ch, lower) THEN hex[Position(ch, lower) + 10] ELSE ch
  IN  chosen' = IF cmd[1] = "COLOR" /\ \A k \in DOMAIN args : IsIn(Upper(args[k]), hex)
                THEN [k \in 1 .. 2 |-> IF k \in DOMAIN args THEN Upper(args[k])
                                       ELSE chosen[k]]
                ELSE chosen

\* execute_single_command's output, and the colour COLOR sets.
Output(cmd) ==
  /\ \E r \in Readings :
       LET script == Script(cmd, r)
       IN  IF capturing_output
           THEN /\ pipe_buffer' = Capture(Items(script, {"say"}))
                /\ out' = out \o Items(script, {"put"})
           ELSE /\ out' = IF cmd[1] = "CLS" THEN << >>
                          ELSE out \o Items(script, {"say", "put"})
                /\ UNCHANGED pipe_buffer
  /\ SetColour(cmd)
  /\ Choose(cmd)

-----------------------------------------------------------------------------
\* cmd_shutdown halts when it gets past its writes.
cmd_shutdown == machine' = IF PoweredOff THEN "off" ELSE "halted"

\* The keyboard controller's reset command.
cmd_reboot == machine' = "reset"

\* Mutant: the text of the previous pipe is not dropped.
EnterStale(new) ==
  /\ at = "prompt"
  /\ line' = new
  /\ out' = << >>
  /\ at' = IF Len(new) = 1 THEN "second" ELSE "first"
  /\ capturing_output' = (Len(new) = 2)
  /\ UNCHANGED <<pipe_buffer, colours, machine>>

\* Enter: execute_command looks for a pipe.
Enter(new) ==
  /\ at = "prompt"
  /\ line' = new
  /\ out' = << >>
  /\ \/ /\ Len(new) = 1
        /\ at' = "second"
        /\ UNCHANGED <<capturing_output, pipe_buffer>>
     \/ /\ Len(new) = 2
        /\ at' = "first"
        /\ pipe_buffer' = << >>
        /\ capturing_output' = TRUE
  /\ UNCHANGED <<colours, machine>>

\* Mutant: PAUSE waits although it is captured.
RunPauseAlways(cmd, after) ==
  /\ Output(cmd)
  /\ at' = IF cmd[1] = "PAUSE" THEN "pause" ELSE after
  /\ UNCHANGED <<line, capturing_output, machine>>

\* execute_single_command: the output, then what PAUSE, REBOOT and SHUTDOWN
\* do unless they are captured, then on to the next step of the line.
Run(cmd, after) ==
  /\ Output(cmd)
  /\ \/ /\ cmd[1] = "PAUSE" /\ ~capturing_output
        /\ at' = "pause"
        /\ UNCHANGED machine
     \/ /\ cmd[1] = "REBOOT" /\ ~capturing_output
        /\ at' = "stopped"
        /\ cmd_reboot
     \/ /\ cmd[1] = "SHUTDOWN" /\ ~capturing_output
        /\ at' = "stopped"
        /\ cmd_shutdown
     \/ /\ cmd[1] \in {"PAUSE", "REBOOT", "SHUTDOWN"} => capturing_output
        /\ at' = after
        /\ UNCHANGED machine
  /\ UNCHANGED <<line, capturing_output>>

\* The first half of a pipe.
RunFirst == at = "first" /\ Run(line[1], "flush")

\* Capturing ends and the buffer goes to the screen.
Flush ==
  /\ at = "flush"
  /\ capturing_output' = FALSE
  /\ out' = out \o pipe_buffer
  /\ at' = "second"
  /\ UNCHANGED <<line, pipe_buffer, colours, machine>>

\* The second half, or a line without a pipe.
RunSecond == at = "second" /\ Run(line[Len(line)], "prompt")

\* A key ends PAUSE.
Key ==
  /\ at = "pause"
  /\ at' = "prompt"
  /\ UNCHANGED <<line, capturing_output, pipe_buffer, colours, out, machine>>

Next ==
  \/ \E new \in Lines : Enter(new)
  \/ RunFirst \/ Flush \/ RunSecond \/ Key

Spec == Init /\ [][Next]_vars

-----------------------------------------------------------------------------
(***************************************************************************)
(* Properties.                                                             *)
(***************************************************************************)

\* The values the variables range over; the captured text fits the buffer
\* with its terminator.
TypeOK ==
  /\ at \in {"prompt", "first", "flush", "second", "pause", "stopped"}
  /\ line = << >> \/ line \in Lines
  /\ capturing_output \in BOOLEAN
  /\ Len(pipe_buffer) < PIPE_BUFFER_SIZE
  /\ current_bg_color \in 0 .. 15 /\ current_text_color \in 0 .. 15
  /\ machine \in {"on", "off", "reset", "halted"}

\* Whenever the user can act or the machine has stopped, output is not being
\* captured: a command in the first half of a pipe neither waits for a key
\* nor stops the machine with its text still in the buffer.
CaptureScoped == at \in {"prompt", "pause", "stopped"} => ~capturing_output

\* What a command shows when it is run alone, without the figures.
MemShows == <<"Memory Statistics", "Total RAM", "Free RAM", "Used RAM",
              "Heap Used", "Heap Free">>
DateShows == <<"date is", "day", "-", "month", "-", "year">>
TimeShows == <<"time is", "hour", ":", "minute", ":", "second">>
ColourShows == <<"BG=", "bg", "FG=", "fg">>

\* COLOR looks at two characters.
ColourAnswer(cmd) ==
  IF \A k \in {2, 3} \cap DOMAIN cmd : hex_to_int(cmd[k]) >= 0
  THEN "Color changed" ELSE "Usage"

Alone(cmd) ==
  CASE cmd[1] = "MEM"   -> MemShows
    [] cmd[1] = "DATE"  -> DateShows
    [] cmd[1] = "TIME"  -> TimeShows
    [] cmd[1] = "COLOR" -> IF Len(cmd) = 1 THEN ColourShows
                           ELSE <<ColourAnswer(cmd)>>
    [] cmd[1] = "HELP"  -> [k \in 1 .. 8 |-> "HELP"]
    [] cmd[1] = "ECHO"  -> <<IF Len(cmd) = 1 THEN "ECHO is on" ELSE cmd[2]>>
    [] cmd[1] \in {"EMPTY", "CLS"} -> << >>
    [] OTHER            -> <<cmd[1]>>

Piped == at \in {"prompt", "pause"} /\ Len(line) = 2 /\ line[2][1] # "CLS"
PastCapture(cmd) ==
  cmd[1] \in {"DATE", "TIME"} \/ (cmd[1] = "COLOR" /\ Len(cmd) = 1)

\* A pipe shows what the two commands show, one after the other, as long as
\* the first one's text fits the buffer; DATE, TIME and COLOR are excepted,
\* because they print numbers past the capture or drop them.
PipeShowsBoth ==
  (Piped /\ ~PastCapture(line[1])
         /\ Len(Alone(line[1])) < PIPE_BUFFER_SIZE)
    => [k \in DOMAIN out |-> out[k].what] = Alone(line[1]) \o Alone(line[2])

\* The number that digits stand for.
Value(digits, base) ==
  LET read[n \in 0 .. Len(digits)] ==
        IF n = 0 THEN 0 ELSE read[n - 1] * base + digits[n]
  IN  read[Len(digits)]
UnitOf == [u \in {"none", "KB", "MB", "GB"} |->
             CASE u = "none" -> 1 [] u = "KB" -> 1024
               [] u = "MB" -> 1048576 [] u = "GB" -> 1073741824]

\* Every number on the screen, decimal or hexadecimal, padded or not, by way
\* of the pipe or not, reads back as the value it was printed for, in whole
\* units; a size has at least one of its unit unless that is the smallest.
NumbersReadBack ==
  \A k \in DOMAIN out : "digits" \in DOMAIN out[k] =>
    LET x == out[k]
        n == Value(x.digits, x.base)
    IN  /\ x.digits # << >>
        /\ n = x.value \div UnitOf[x.unit]
        /\ n = 0 => x.unit \in {"none", "KB"}
        /\ (x.base = 10 /\ x.unit \in {"KB", "MB"}) => n < 1024

\* The colours COLOR reports are the ones typed last, in either case, a
\* rejected COLOR changes nothing, and a colour left out is kept.
ColourShownAsTyped ==
  \A k \in DOMAIN out :
    "digits" \in DOMAIN out[k] =>
      /\ out[k].what = "bg" => hex[out[k].digits[16] + 1] = chosen[1]
      /\ out[k].what = "fg" => hex[out[k].digits[16] + 1] = chosen[2]

=============================================================================
