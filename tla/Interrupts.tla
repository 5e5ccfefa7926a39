----------------------------- MODULE Interrupts -----------------------------
(***************************************************************************)
(* The way into and out of an interrupt handler: the descriptor table that *)
(* idt_init fills, what the CPU and the stubs of interrupts.asm put on the *)
(* stack, where the common stubs find their arguments, and how the         *)
(* registers are restored.  Operators only; module Input has the state.    *)
(*                                                                         *)
(* A stack is a sequence of words with the top first, so [rsp + 8 * k] is  *)
(* word k + 1.  A word is a pair of what it is and its value.              *)
(***************************************************************************)
EXTENDS Naturals, Sequences

Exceptions == 0 .. 31
IrqVectors == 32 .. 47

\* The stub a vector leads to, and the kind of its gate.
idt_set_entry(stub, gate) == [stub |-> stub, gate |-> gate]

\* idt_init: the 32 exceptions, breakpoint and overflow by trap gates; the
\* 16 lines of the PICs; the other entries are zero.
idt_init ==
  [v \in 0 .. 255 |->
     CASE v \in {3, 4}              -> idt_set_entry("isr", "trap")
       [] v \in Exceptions \ {3, 4} -> idt_set_entry("isr", "interrupt")
       [] v \in IrqVectors          -> idt_set_entry("irq", "interrupt")
       [] OTHER                     -> idt_set_entry("none", "none")]

\* Before an exception handler the CPU pushes an error code for these.
CpuPushesError == {8, 10, 11, 12, 13, 14, 17}

\* The CPU's frame for a program at rip: SS, RSP, RFLAGS, CS, RIP, and the
\* error code.
CpuFrame(vector, error, rip, flag) ==
  (IF vector \in CpuPushesError THEN <<<<"error", error>>>> ELSE << >>)
    \o <<<<"rip", rip>>, <<"cs", 0>>, <<"if", flag>>, <<"rsp", 0>>, <<"ss", 0>>>>

\* Mutant: page fault is declared without an error code.
StubPushes14(vector) ==
  IF vector \in {8, 10, 11, 12, 13, 17}
  THEN <<<<"vector", vector>>>>
  ELSE <<<<"vector", vector>>, <<"error", 0>>>>

\* ISR_ERRCODE pushes the vector; ISR_NOERRCODE and IRQ push 0 first.
StubPushes(vector) ==
  IF vector \in {8, 10, 11, 12, 13, 14, 17}
  THEN <<<<"vector", vector>>>>
  ELSE <<<<"vector", vector>>, <<"error", 0>>>>

\* The pushes and the pops of the common stubs, in the order of the code.
Saved == <<"rax", "rcx", "rdx", "rbx", "rbp", "rsi", "rdi", "r8", "r9",
           "r10", "r11", "r12", "r13", "r14", "r15">>

\* Mutant: two registers change places.
RestoredSwapped ==
  <<"r15", "r14", "r13", "r12", "r11", "r10", "r9", "r8", "rdi",
    "rsi", "rbp", "rbx", "rdx", "rax", "rcx">>

Restored == <<"r15", "r14", "r13", "r12", "r11", "r10", "r9", "r8", "rdi",
              "rsi", "rbp", "rbx", "rdx", "rcx", "rax">>

Registers == {Saved[k] : k \in DOMAIN Saved}

\* What a C++ function may leave changed.
CallerSaved == {"rax", "rcx", "rdx", "rsi", "rdi", "r8", "r9", "r10", "r11"}

Clobber(regs) ==
  [r \in Registers |-> IF r \in CallerSaved THEN <<"junk", 0>> ELSE regs[r]]

\* The stack when the common stub calls its handler.
Enter(stack, regs, vector) ==
  [k \in 1 .. Len(Saved) |-> regs[Saved[Len(Saved) + 1 - k]]]
    \o StubPushes(vector) \o stack

\* The arguments: [rsp + 120], [rsp + 128] and [rsp + 136].
IsrArguments(stack) == <<stack[16], stack[17], stack[18]>>
IrqNumber(stack) == stack[16][2] - 32

\* The registers after the pops, and the stack after add rsp, 16.
Popped(stack) ==
  [r \in Registers |->
     stack[CHOOSE k \in DOMAIN Restored : Restored[k] = r]]
Leave(stack) == SubSeq(stack, Len(Restored) + 3, Len(stack))

\* iretq pops RIP, CS, RFLAGS, RSP and SS.
IretRip(stack) == stack[1][2]
IretFlag(stack) == stack[3][2]

=============================================================================
