------------------------------- MODULE Input --------------------------------
(***************************************************************************)
(* How a key press reaches the program, from the start of kernel_main on:  *)
(* the keyboard controller raises IRQ1 through the two PICs, the CPU goes  *)
(* through the descriptor table to a stub, irq_handler runs                *)
(* keyboard_handler, which leaves the key in last_key, and the main loop   *)
(* of the shell (or of PAUSE) polls it with keyboard_getchar and then      *)
(* halts until the next interrupt.                                         *)
(*                                                                         *)
(* Handlers run with interrupts off and are not interleaved with the main  *)
(* loop; the devices are.  Between two instructions of the main loop any   *)
(* interrupt may be taken: keyboard_getchar reads last_key and clears it   *)
(* with two of them.  A non-maskable interrupt comes at any time, a fault  *)
(* where a command or the memory manager runs; isr_handler reports both    *)
(* and halts.                                                              *)
(***************************************************************************)
EXTENDS Interrupts, FiniteSets

CONSTANTS
  Codes,      \* the scan codes that are typed, a subset of AllCodes
  MAX_TYPED,  \* bound on the number of scan codes
  Devices,    \* the other IRQ lines in use; 0, the timer, is one of them
  Faults,     \* the exceptions the kernel's own code may raise
  NMI         \* can a non-maskable interrupt happen?

\* Classes of scan codes: letters, keys with no letter, Enter, arrows; keys
\* whose table entry is 0 (Esc, Ctrl, Alt, F1...); modifiers; key releases.
AllCodes == {"letter", "digit", "enter", "arrow", "dead", "shift",
             "unshift", "caps", "release"}

ASSUME CodesAssumption == Codes \subseteq AllCodes
ASSUME MaxTypedAssumption == MAX_TYPED \in Nat
ASSUME DevicesAssumption == Devices \subseteq (0 .. 15) \ {1, 2} /\ 0 \in Devices
\* Vectors above 20 belong to CPU features the kernel never turns on.
ASSUME FaultsAssumption == Faults \subseteq (0 .. 20) \ {2} /\ NMI \in BOOLEAN

VARIABLES
  wire,      \* scan codes the keyboard has yet to send, numbered as typed
  typed,     \* how many were typed
  obuf,      \* the controller's output buffer, port 0x60
  irr,       \* interrupt lines that were raised and not yet taken
  isr,       \* for each PIC, the lines in service
  imr,       \* the lines that are masked
  base,      \* the vector of each PIC's first line
  stuck,     \* a byte was in obuf when pic_init reset the PICs (history)
  idt,       \* is the descriptor table loaded?
  rip,       \* the CPU's next instruction, with the number it works on
  intr_on,   \* the CPU's interrupt flag
  regs,      \* the registers; keyboard_getchar's result is in rax
  stack,     \* the words handlers have on the stack
  mode,      \* "shell", or "pause" inside cmd_pause
  last_key, shift, caps,
  got,       \* the number of the last key the main loop acted on
  raised,    \* devices that raised their line since the main loop last ran
  before,    \* rip, flag and registers when an interrupt was taken (history)
  cause,     \* the exception the CPU delivered: vector, code, rip (history)
  report     \* what isr_handler prints

picVars == <<irr, isr, imr, base, stuck>>
devVars == <<wire, typed, obuf>>
cpuVars == <<rip, intr_on, regs, stack, before>>
keyVars == <<last_key, shift, caps>>
excVars == <<cause, report>>
vars == <<devVars, picVars, idt, cpuVars, mode, keyVars, got, raised, excVars>>

NoKey == [n |-> 0, ch |-> "none"]
NoCode == [n |-> 0, sc |-> "none"]

At(place) == [at |-> place, n |-> 0]
c == regs["rax"][2]

\* The steps of kernel_main and of the main loop, where no handler runs.
BootSteps == {"pic_init", "idt_init", "keyboard_init", "memory", "sti"}
MainSteps == {"shell_init", "read", "clear", "act", "hlt", "asleep"}
InHandler == rip.at \in {"irq", "irq_handler", "eoi", "iret"}
Stopped == rip.at \in {"halted", "reset"}

\* GRUB enters the kernel with interrupts off, the PICs as the BIOS set them
\* up, and perhaps the keyboard's line masked.
Init ==
  /\ wire = << >>
  /\ typed = 0
  /\ obuf = NoCode
  /\ irr = {}
  /\ isr = [pic \in {"master", "slave"} |-> {}]
  /\ imr \in {{}, {1}}
  /\ base = [master |-> 8, slave |-> 112]
  /\ stuck = FALSE
  /\ idt = FALSE
  /\ rip = At("pic_init")
  /\ intr_on = FALSE
  /\ regs = [r \in Registers |-> IF r = "rax" THEN <<"key", NoKey>>
                                  ELSE <<"main", r>>]
  /\ stack = << >>
  /\ before = << >>
  /\ mode = "shell"
  /\ last_key = NoKey
  /\ shift = FALSE
  /\ caps = FALSE
  /\ got = 0
  /\ raised = {}
  /\ cause = << >>
  /\ report = << >>

-----------------------------------------------------------------------------
\* The devices.  What they do after the CPU has stopped is left out: it
\* takes no interrupt any more.

Type(sc) ==
  /\ ~Stopped
  /\ typed < MAX_TYPED
  /\ typed' = typed + 1
  /\ wire' = Append(wire, [n |-> typed + 1, sc |-> sc])
  /\ UNCHANGED <<obuf, picVars, idt, cpuVars, mode, keyVars, got, raised,
                 excVars>>

\* The controller moves a code into its empty output buffer and raises IRQ1.
KbcLoad ==
  /\ ~Stopped
  /\ obuf = NoCode
  /\ wire # << >>
  /\ obuf' = Head(wire)
  /\ wire' = Tail(wire)
  /\ irr' = irr \cup {1}
  /\ UNCHANGED <<typed, isr, imr, base, stuck, idt, cpuVars, mode, keyVars,
                 got, raised, excVars>>

\* Another device raises its line, at most once per main-loop instruction:
\* timer periods are long compared to the handlers.
Raise(irq) ==
  /\ ~Stopped
  /\ irq \notin raised
  /\ raised' = raised \cup {irq}
  /\ irr' = irr \cup {irq}
  /\ UNCHANGED <<devVars, isr, imr, base, stuck, idt, cpuVars, mode, keyVars,
                 got, excVars>>

-----------------------------------------------------------------------------
\* The PICs: the slave is cascaded to the master's line 2.
MasterLine(irq) == IF irq >= 8 THEN 2 ELSE irq

\* The line is not masked, and neither it nor one of higher priority is in
\* service.
Deliverable(irq) ==
  /\ irq \notin imr
  /\ \A l \in isr["master"] : MasterLine(irq) < l
  /\ irq >= 8 => \A l \in isr["slave"] : irq < l

\* Of the raised lines the PIC offers the one with the highest priority.
Offered(irq) ==
  /\ irq \in irr
  /\ Deliverable(irq)
  /\ \A r \in irr : Deliverable(r) =>
       \/ MasterLine(irq) < MasterLine(r)
       \/ MasterLine(irq) = MasterLine(r) /\ irq <= r

Vector(irq) == IF irq >= 8 THEN base["slave"] + irq - 8 ELSE base["master"] + irq

\* Where an interrupted program goes on: hlt is over.
Resume == IF rip.at = "asleep" THEN At("read") ELSE rip

\* The CPU leaves the program for the stub of a vector; without a table it
\* resets.
Deliver(vector) ==
  /\ stack' = CpuFrame(vector, 0, Resume, intr_on) \o stack
  /\ before' = <<Resume, intr_on, regs>>
  /\ rip' = IF idt THEN [at |-> idt_init[vector].stub, n |-> vector]
            ELSE At("reset")
  /\ intr_on' = (intr_on /\ idt_init[vector].gate = "trap")
  /\ UNCHANGED <<regs, idt, mode, keyVars, got, devVars, imr, base, stuck,
                 raised, excVars>>

\* An interrupt the PIC offers is taken.
Accept(irq) ==
  /\ intr_on
  /\ Offered(irq)
  /\ irr' = irr \ {irq}
  /\ isr' = [isr EXCEPT
               !["master"] = @ \cup {MasterLine(irq)},
               !["slave"] = IF irq >= 8 THEN @ \cup {irq} ELSE @]
  /\ Deliver(Vector(irq))

\* A device's line drops just before it is acknowledged: the PIC answers
\* with its lowest line, which is not in service.
AcceptSpurious(irq) ==
  /\ intr_on
  /\ Offered(irq)
  /\ irr' = irr \ {irq}
  /\ isr' = IF irq >= 8 THEN [isr EXCEPT !["master"] = @ \cup {2}] ELSE isr
  /\ Deliver(Vector(IF irq >= 8 THEN 15 ELSE 7))

\* irq stub and irq_common_stub, up to the call of irq_handler.
IrqStub ==
  /\ rip.at = "irq"
  /\ stack' = Enter(stack, regs, rip.n)
  /\ rip' = [at |-> "irq_handler", n |-> IrqNumber(stack')]
  /\ intr_on' = FALSE
  /\ UNCHANGED <<devVars, picVars, idt, regs, before, mode, keyVars, got,
                 raised, excVars>>

\* Mutant: a key without a character is not recognised as one.
TranslateDead(sc) ==
  CASE sc = "letter" -> IF shift \/ caps THEN "A" ELSE "a"
    [] sc = "digit"  -> IF shift THEN "!" ELSE "1"
    [] OTHER         -> sc

\* The character a key stands for under the current modifiers; 0 for a key
\* that has none.
Translate(sc) ==
  CASE sc = "letter" -> IF shift \/ caps THEN "A" ELSE "a"
    [] sc = "digit"  -> IF shift THEN "!" ELSE "1"
    [] sc = "dead"   -> "none"
    [] OTHER         -> sc

\* keyboard_handler: read port 0x60 and record the key.
keyboard_handler ==
  LET sc == obuf.sc
      key == IF Translate(sc) = "none" THEN NoKey
             ELSE [n |-> obuf.n, ch |-> Translate(sc)]
  IN  /\ obuf' = NoCode
      /\ shift' = IF sc \in {"shift", "unshift"} THEN sc = "shift" ELSE shift
      /\ caps' = IF sc = "caps" THEN ~caps ELSE caps
      /\ last_key' = IF sc \in {"shift", "unshift", "caps", "release"}
                     THEN last_key ELSE key

\* Mutant: keyboard_handler runs for every interrupt.
HandlerBodyAnyIrq ==
  /\ rip.at = "irq_handler"
  /\ keyboard_handler
  /\ rip' = [rip EXCEPT !.at = "eoi"]
  /\ regs' = Clobber(regs)
  /\ UNCHANGED <<wire, typed, picVars, idt, intr_on, stack, before, mode, got,
                 raised, excVars>>

\* irq_handler, up to the EOI.
HandlerBody ==
  /\ rip.at = "irq_handler"
  /\ IF rip.n = 1
     THEN keyboard_handler
     ELSE UNCHANGED <<obuf, keyVars>>
  /\ rip' = [rip EXCEPT !.at = "eoi"]
  /\ regs' = Clobber(regs)
  /\ UNCHANGED <<wire, typed, picVars, idt, intr_on, stack, before, mode, got,
                 raised, excVars>>

\* A non-specific EOI ends the service of the line of highest priority.
EndOfInterrupt(lines) == {l \in lines : \E h \in lines : h < l}

\* The PICs in the set are sent an EOI.
EoiTo(pics) ==
  /\ rip.at = "eoi"
  /\ isr' = [pic \in DOMAIN isr |-> IF pic \in pics THEN EndOfInterrupt(isr[pic])
                                    ELSE isr[pic]]
  /\ rip' = At("iret")
  /\ UNCHANGED <<devVars, irr, imr, base, stuck, idt, intr_on, regs, stack,
                 before, mode, keyVars, got, raised, excVars>>

\* Mutant: the slave is not told.
SendEoiMasterOnly == EoiTo({"master"})

\* Mutant: irq_handler returns early after the keyboard's interrupt.
SendEoiNotForKeyboard ==
  EoiTo(IF rip.n = 1 THEN {}
        ELSE IF rip.n >= 8 THEN {"slave", "master"} ELSE {"master"})

\* irq_handler: EOI to the slave if it is concerned, and to the master.
SendEoi == EoiTo(IF rip.n >= 8 THEN {"slave", "master"} ELSE {"master"})

\* The rest of irq_common_stub: the registers are popped, and iretq resumes
\* the interrupted program.
Iret ==
  /\ rip.at = "iret"
  /\ regs' = Popped(stack)
  /\ LET frame == Leave(stack)
     IN  /\ rip' = IretRip(frame)
         /\ intr_on' = IretFlag(frame)
         /\ stack' = SubSeq(frame, 6, Len(frame))
  /\ before' = << >>
  /\ UNCHANGED <<devVars, picVars, idt, mode, keyVars, got, raised, excVars>>

-----------------------------------------------------------------------------
\* Exceptions.

\* The CPU delivers an exception, with some error code if it has one; the
\* isr stub, isr_common_stub and isr_handler run without being interrupted;
\* isr_handler prints its arguments and never returns.
Exception(vector) ==
  LET frame == CpuFrame(vector, 7, Resume, intr_on) \o stack
  IN  /\ cause' = <<<<"vector", vector>>,
                    <<"error", IF vector \in CpuPushesError THEN 7 ELSE 0>>,
                    <<"rip", Resume>>>>
      /\ IF idt
         THEN /\ stack' = Enter(frame, regs, vector)
              /\ report' = IsrArguments(stack')
              /\ rip' = At("halted")
         ELSE /\ stack' = frame
              /\ report' = report
              /\ rip' = At("reset")
      /\ intr_on' = FALSE
      /\ UNCHANGED <<devVars, picVars, idt, regs, before, mode, keyVars, got,
                     raised>>

\* A non-maskable interrupt, at any instruction.
NonMaskable == NMI /\ ~Stopped /\ Exception(2)

\* A fault in the memory manager or in a command.
Fault(vector) == rip.at \in {"memory", "act"} /\ Exception(vector)

\* cli; hlt, forever.
HaltLoop == Stopped /\ UNCHANGED vars

-----------------------------------------------------------------------------
\* kernel_main and the main loop, one instruction at a time; an interrupt
\* that is offered is taken before the next one.

Step(from, to) ==
  /\ rip = At(from)
  /\ intr_on => \A irq \in irr : ~Offered(irq)
  /\ rip' = At(to)
  /\ raised' = {}
  /\ UNCHANGED <<devVars, stack, before, shift, caps, excVars>>

\* Mutant: the PICs keep the vectors the BIOS gave them.
pic_initNoRemap ==
  /\ Step("pic_init", "idt_init")
  /\ irr' = {}
  /\ isr' = [pic \in {"master", "slave"} |-> {}]
  /\ imr' = {}
  /\ stuck' = (obuf # NoCode)
  /\ UNCHANGED <<base, idt, intr_on, regs, mode, last_key, got>>

\* pic_init: initialisation resets both PICs and the edge of every line, new
\* vectors are set, all lines unmasked.
pic_init ==
  /\ Step("pic_init", "idt_init")
  /\ irr' = {}
  /\ isr' = [pic \in {"master", "slave"} |-> {}]
  /\ imr' = {}
  /\ base' = [master |-> 32, slave |-> 40]
  /\ stuck' = (obuf # NoCode)
  /\ UNCHANGED <<idt, intr_on, regs, mode, last_key, got>>

BootIdt ==
  /\ Step("idt_init", "keyboard_init")
  /\ idt' = TRUE
  /\ UNCHANGED <<picVars, intr_on, regs, mode, last_key, got>>

\* keyboard_init unmasks IRQ1.
keyboard_init ==
  /\ Step("keyboard_init", "memory")
  /\ imr' = imr \ {1}
  /\ UNCHANGED <<irr, isr, base, stuck, idt, intr_on, regs, mode, last_key, got>>

\* pmm_init and heap_init.
BootMemory ==
  /\ Step("memory", "sti")
  /\ UNCHANGED <<picVars, idt, intr_on, regs, mode, last_key, got>>

\* sti, and the rest of kernel_main up to shell_run.
BootSti ==
  /\ Step("sti", "shell_init")
  /\ intr_on' = TRUE
  /\ UNCHANGED <<picVars, idt, regs, mode, last_key, got>>

BootShell ==
  /\ Step("shell_init", "read")
  /\ UNCHANGED <<picVars, idt, intr_on, regs, mode, last_key, got>>

\* keyboard_getchar, first half: c = last_key.
GetcharRead ==
  /\ Step("read", "clear")
  /\ regs' = [regs EXCEPT !["rax"] = <<"key", last_key>>]
  /\ UNCHANGED <<picVars, idt, intr_on, mode, last_key, got>>

\* Mutant: the key is not taken out.
GetcharKeep ==
  /\ Step("clear", "act")
  /\ UNCHANGED <<picVars, idt, intr_on, regs, mode, last_key, got>>

\* keyboard_getchar, second half: last_key = 0.
GetcharClear ==
  /\ Step("clear", "act")
  /\ last_key' = NoKey
  /\ UNCHANGED <<picVars, idt, intr_on, regs, mode, got>>

\* shell_run acts on the key, if there is one, and returns to the loop;
\* cmd_pause is ended by it.
Act ==
  /\ Step("act", "hlt")
  /\ got' = IF c # NoKey THEN c.n ELSE got
  /\ mode' = IF c # NoKey THEN "shell" ELSE mode
  /\ UNCHANGED <<picVars, idt, intr_on, regs, last_key>>

\* Enter may run PAUSE, which polls first and halts later.
EnterPause ==
  /\ mode = "shell"
  /\ Step("act", "read")
  /\ c.ch = "enter"
  /\ got' = c.n
  /\ mode' = "pause"
  /\ UNCHANGED <<picVars, idt, intr_on, regs, last_key>>

\* Enter may run REBOOT or SHUTDOWN, which end in cli; hlt if the machine
\* neither resets nor powers off before.
EnterHalt ==
  /\ mode = "shell"
  /\ Step("act", "halted")
  /\ c.ch = "enter"
  /\ got' = c.n
  /\ intr_on' = FALSE
  /\ UNCHANGED <<picVars, idt, regs, mode, last_key>>

\* Mutant: the loop halts with interrupts off.
CliHlt ==
  /\ Step("hlt", "asleep")
  /\ intr_on' = FALSE
  /\ UNCHANGED <<picVars, idt, regs, mode, last_key, got>>

Hlt ==
  /\ Step("hlt", "asleep")
  /\ UNCHANGED <<picVars, idt, intr_on, regs, mode, last_key, got>>

kernel_main ==
  pic_init \/ BootIdt \/ keyboard_init \/ BootMemory \/ BootSti \/ BootShell
MainStep == GetcharRead \/ GetcharClear \/ Act \/ EnterPause \/ EnterHalt \/ Hlt
HandlerStep == IrqStub \/ HandlerBody \/ SendEoi \/ Iret

TakeInterrupt ==
  \/ \E irq \in Devices \cup {1} : Accept(irq)
  \/ \E irq \in Devices : AcceptSpurious(irq)

Next ==
  \/ \E sc \in Codes : Type(sc)
  \/ KbcLoad
  \/ \E irq \in Devices : Raise(irq)
  \/ TakeInterrupt
  \/ NonMaskable
  \/ \E vector \in Faults : Fault(vector)
  \/ HandlerStep
  \/ kernel_main
  \/ MainStep
  \/ HaltLoop

(***************************************************************************)
(* Fairness.  The CPU executes: boot, the main loop and the handlers       *)
(* advance, an interrupt the PIC offers is taken.  The controller sends    *)
(* what was typed, and the timer, which the BIOS leaves running and the    *)
(* kernel never stops or masks, ticks forever.  Nobody has to type, and    *)
(* nothing has to fail.                                                    *)
(***************************************************************************)
Fairness ==
  /\ WF_vars(kernel_main \/ MainStep)
  /\ WF_vars(HandlerStep)
  /\ WF_vars(TakeInterrupt)
  /\ WF_vars(KbcLoad)
  /\ WF_vars(Raise(0))

Spec == Init /\ [][Next]_vars
FairSpec == Spec /\ Fairness

-----------------------------------------------------------------------------
(***************************************************************************)
(* Properties.                                                             *)
(***************************************************************************)

Glyphs == {"a", "A", "1", "!", "enter", "arrow"}
Keys == {NoKey} \cup [n : 1 .. MAX_TYPED, ch : Glyphs]

\* The values the variables range over; registers and stack are left to
\* ResumesExactly.
TypeOK ==
  /\ typed \in 0 .. MAX_TYPED
  /\ wire \in Seq([n : 1 .. MAX_TYPED, sc : Codes])
  /\ obuf \in {NoCode} \cup [n : 1 .. MAX_TYPED, sc : Codes]
  /\ irr \subseteq Devices \cup {1} /\ imr \subseteq {1}
  /\ isr["master"] \subseteq 0 .. 7 /\ isr["slave"] \subseteq 8 .. 15
  /\ intr_on \in BOOLEAN /\ shift \in BOOLEAN /\ caps \in BOOLEAN
  /\ rip.at \in BootSteps \cup MainSteps
               \cup {"irq", "irq_handler", "eoi", "iret", "halted", "reset"}
  /\ mode \in {"shell", "pause"}
  /\ last_key \in Keys
  /\ got \in 0 .. MAX_TYPED
  /\ raised \subseteq Devices

\* keyboard_handler never runs without a byte in port 0x60, so the key it
\* records is the one that raised the interrupt, never a stale byte.
ByteForEveryIrq == rip = [at |-> "irq_handler", n |-> 1] => obuf # NoCode

\* A key is acted on at most once, and keys are acted on in the order they
\* were typed, wherever between the two halves of keyboard_getchar the next
\* one arrives.
InOrderOnce ==
  [][(rip.at = "act" /\ rip'.at \in {"hlt", "read", "halted"} /\ c # NoKey)
       => c.n > got]_vars

\* While the main loop runs, no line is left in service and interrupts are
\* on: every handler, also one of a spurious interrupt, has told the right
\* PICs that it is done.
NothingLeftInService ==
  rip.at \in MainSteps => /\ intr_on
                         /\ isr["master"] = {}
                         /\ isr["slave"] = {}

\* Wherever an interrupt falls, the interrupted program goes on where it
\* was, with its flag, its registers and its stack: keyboard_getchar's
\* result is in a register while the next key's handler runs.
ResumesExactly ==
  [][(InHandler /\ rip'.at \in MainSteps)
       => <<rip', intr_on', regs'>> = before /\ stack' = << >>]_vars

\* isr_handler reports the exception that happened: its vector, its error
\* code and the instruction, although the CPU pushes a code for some
\* exceptions only.
ReportsCause == report # << >> => report = cause

\* No interrupt of a device is taken before it can be handled, and none is
\* mistaken for an exception: the PICs have their new vectors and the table
\* is loaded by the time interrupts are on.
IrqsReachStub == rip.at \in {"reset", "isr", "none"} => cause # << >>

\* The keyboard never goes dead: every byte the controller holds is read,
\* and the next one can raise IRQ1 again, unless a byte was already there
\* when pic_init took its edge away, or an exception, REBOOT or SHUTDOWN
\* stopped the machine.
KeyboardAlive == obuf # NoCode ~> (obuf = NoCode \/ stuck \/ Stopped)

\* A key that is waiting in last_key is eventually taken out, also when it
\* arrived after the poll and just before hlt: the timer wakes the loop,
\* unless the machine has stopped.
KeyPolled == last_key # NoKey ~> (last_key = NoKey \/ Stopped)

\* "Press any key to continue . . .": a key pressed during PAUSE ends it.
PauseEndsOnKey ==
  (mode = "pause" /\ obuf.sc \in {"letter", "digit", "enter", "arrow"})
    ~> mode = "shell"

=============================================================================
