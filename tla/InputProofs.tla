---------------------------- MODULE InputProofs -----------------------------
(***************************************************************************)
(* Proofs about module Input, for every set of devices, scan codes and     *)
(* faults and any number of keys: the safety properties of the run on      *)
(* Input.  Everything follows from one inductive invariant, whose parts    *)
(* say how far boot has come, what a handler has on the stack, what the    *)
(* PICs have in service, and in which order the keys are under way.        *)
(***************************************************************************)
EXTENDS Input, Integers, TLAPS

HandlerSteps == {"irq", "irq_handler", "eoi", "iret"}
Running == BootSteps \cup MainSteps \cup HandlerSteps

\* The program a handler has interrupted, or the running one.
MainRip == IF InHandler THEN before[1] ELSE rip
MainRegs == IF InHandler THEN before[3] ELSE regs
MainKey == MainRegs["rax"][2]

\* The line whose handler runs, up to the EOI.
Line == IF rip.at = "irq" THEN rip.n - 32 ELSE rip.n

\* Where the CPU is, and the vectors it can be at.
RipOK ==
  /\ rip \in [at : Running \cup {"halted", "reset"}, n : 0 .. 47]
  /\ rip.at \in BootSteps \cup MainSteps => rip.n = 0
  /\ rip.at = "irq" => rip.n \in 32 .. 47
  /\ rip.at \in {"irq_handler", "eoi"} => rip.n \in 0 .. 15

\* Interrupts are on exactly while the main loop runs; the PICs have their
\* vectors and the table is loaded when boot is past those steps.
BootOK ==
  /\ intr_on \in BOOLEAN
  /\ intr_on <=> rip.at \in MainSteps
  /\ rip.at \in Running \ {"pic_init"} => base = [master |-> 32, slave |-> 40]
  /\ rip.at \in Running \ {"pic_init", "idt_init"} => idt = TRUE
  /\ rip.at = "reset" => cause # << >>
  /\ rip.at \in Running => report = << >>
  /\ report # << >> => report = cause

\* At most the line whose handler runs is in service; a spurious interrupt
\* leaves less.
ServiceOK ==
  /\ isr \in [{"master", "slave"} -> SUBSET (0 .. 15)]
  /\ isr["master"] \subseteq 0 .. 7 /\ isr["slave"] \subseteq 8 .. 15
  /\ rip.at \in BootSteps \cup MainSteps \cup {"iret"} =>
       isr["master"] = {} /\ isr["slave"] = {}
  /\ rip.at \in {"irq", "irq_handler", "eoi"} =>
       /\ isr["master"] \subseteq {MasterLine(Line)}
       /\ isr["slave"] \subseteq {Line}
       /\ Line < 8 => isr["slave"] = {}

\* IRQ1 is raised, or its handler has yet to read port 0x60, only while a
\* byte is there; never both.
ByteOK ==
  /\ 1 \in irr => obuf # NoCode
  /\ rip.at \in {"irq", "irq_handler"} /\ Line = 1 =>
       obuf # NoCode /\ 1 \notin irr

\* A value for each register.
RegisterFile(f) == f \in [Registers -> {f[r] : r \in Registers}]

\* A handler's stack: the interrupted program's frame, below it what the
\* stub has pushed.
StackOK ==
  /\ RegisterFile(regs)
  /\ rip.at \in BootSteps \cup MainSteps => stack = << >>
  /\ rip.at \in HandlerSteps =>
       /\ before \in {<<At(place), TRUE, before[3]>> : place \in MainSteps}
       /\ RegisterFile(before[3])
  /\ rip.at = "irq" =>
       /\ regs = before[3]
       /\ stack = CpuFrame(rip.n, 0, before[1], TRUE)
  /\ rip.at \in {"irq_handler", "eoi", "iret"} =>
       \E v \in IrqVectors :
         stack = Enter(CpuFrame(v, 0, before[1], TRUE), before[3], v)

\* How many scan codes keyboard_handler has read.
Taken == typed - Len(wire) - (IF obuf = NoCode THEN 0 ELSE 1)

\* Scan codes are numbered as typed, and the keyboard sends them in order.
WireOK ==
  /\ typed \in 0 .. MAX_TYPED
  /\ wire \in Seq([n : 1 .. MAX_TYPED, sc : Codes])
  /\ Len(wire) <= typed
  /\ \A k \in 1 .. Len(wire) : wire[k].n = typed - Len(wire) + k
  /\ obuf \in {NoCode} \cup [n : 1 .. MAX_TYPED, sc : Codes]
  /\ obuf # NoCode => obuf.n = typed - Len(wire)

\* Each place a key passes holds a later one than the places behind it: port
\* 0x60, last_key, the register of keyboard_getchar, the last key acted on.
OrderOK ==
  /\ last_key \in Keys /\ last_key.n <= Taken
  /\ got \in 0 .. MAX_TYPED /\ got <= Taken
  /\ last_key # NoKey => got < last_key.n
  /\ rip.at \in Running => MainKey \in Keys
  /\ rip.at \in Running /\ MainRip.at \in {"clear", "act"} /\ MainKey # NoKey =>
       /\ got < MainKey.n
       /\ MainKey.n <= Taken
       /\ MainRip.at = "act" /\ last_key # NoKey => MainKey.n < last_key.n

\* The rest of the types.
RestOK ==
  /\ irr \subseteq Devices \cup {1} /\ imr \subseteq {1}
  /\ shift \in BOOLEAN /\ caps \in BOOLEAN
  /\ mode \in {"shell", "pause"}
  /\ raised \subseteq Devices

IInv == /\ RipOK /\ BootOK /\ ServiceOK /\ ByteOK /\ StackOK /\ WireOK /\ OrderOK
        /\ RestOK

-----------------------------------------------------------------------------
(***************************************************************************)
(* The descriptor table and the stacks.                                    *)
(***************************************************************************)

\* The vectors of the PICs lead to the irq stubs, through interrupt gates.
LEMMA IrqGates ==
  ASSUME NEW v \in IrqVectors
  PROVE  idt_init[v].stub = "irq" /\ idt_init[v].gate = "interrupt"
<1>1. /\ v \in 0 .. 255
      /\ v \notin {3, 4}
      /\ v \notin Exceptions
  BY DEF IrqVectors, Exceptions
<1>2. idt_init[v] = idt_set_entry("irq", "interrupt")
  BY <1>1 DEF idt_init
<1> QED
  BY <1>2 DEF idt_set_entry

\* A stack of words of any kind.
IsStack(s) == \E W : s \in Seq(W)

\* Concatenation, word by word.
LEMMA ConcatWords ==
  ASSUME NEW a, IsStack(a), NEW b, IsStack(b)
  PROVE  /\ IsStack(a \o b)
         /\ Len(a) \in Nat /\ Len(b) \in Nat
         /\ Len(a \o b) = Len(a) + Len(b)
         /\ \A k \in 1 .. Len(a) : (a \o b)[k] = a[k]
         /\ \A k \in 1 .. Len(b) : (a \o b)[Len(a) + k] = b[k]
<1>1. PICK V, W : a \in Seq(V) /\ b \in Seq(W)
  BY DEF IsStack
<1>2. a \in Seq(V \cup W) /\ b \in Seq(V \cup W)
  BY <1>1
<1>3. /\ a \o b \in Seq(V \cup W)
      /\ Len(a) \in Nat /\ Len(b) \in Nat
      /\ Len(a \o b) = Len(a) + Len(b)
      /\ \A k \in 1 .. Len(a) : (a \o b)[k] = a[k]
      /\ \A k \in 1 .. Len(b) : (a \o b)[Len(a) + k] = b[k]
  BY <1>2
<1>4. IsStack(a \o b)
  BY <1>3 DEF IsStack
<1> QED
  BY <1>3, <1>4

\* A part of a stack, word by word.
LEMMA SubWords ==
  ASSUME NEW s, IsStack(s), NEW m \in 1 .. Len(s), NEW n \in m .. Len(s)
  PROVE  /\ IsStack(SubSeq(s, m, n))
         /\ Len(SubSeq(s, m, n)) = n - m + 1
         /\ \A k \in 1 .. (n - m + 1) : SubSeq(s, m, n)[k] = s[m + k - 1]
<1>1. PICK W : s \in Seq(W)
  BY DEF IsStack
<1>2. /\ SubSeq(s, m, n) \in Seq(W)
      /\ Len(SubSeq(s, m, n)) = n - m + 1
      /\ \A k \in 1 .. (n - m + 1) : SubSeq(s, m, n)[k] = s[m + k - 1]
  BY <1>1
<1>3. IsStack(SubSeq(s, m, n))
  BY <1>2 DEF IsStack
<1> QED
  BY <1>2, <1>3

\* The registers on the stack, the last one pushed on top.
PushedRegs(rg) == [k \in 1 .. 15 |-> rg[Saved[16 - k]]]

LEMMA PushedStack ==
  ASSUME NEW rg
  PROVE  IsStack(PushedRegs(rg)) /\ Len(PushedRegs(rg)) = 15
<1>1. PushedRegs(rg) \in Seq({rg[Saved[16 - k]] : k \in 1 .. 15})
  BY DEF PushedRegs
<1>2. Len(PushedRegs(rg)) = 15
  BY DEF PushedRegs
<1> QED
  BY <1>1, <1>2 DEF IsStack

\* The words the common stub has pushed, and what is below them.
LEMMA EnterWords ==
  ASSUME NEW s, IsStack(s), NEW rg, NEW v \in IrqVectors
  PROVE  /\ IsStack(Enter(s, rg, v))
         /\ Len(Enter(s, rg, v)) = 17 + Len(s)
         /\ \A k \in 1 .. 15 : Enter(s, rg, v)[k] = PushedRegs(rg)[k]
         /\ Enter(s, rg, v)[16] = <<"vector", v>>
         /\ \A k \in 1 .. Len(s) : Enter(s, rg, v)[17 + k] = s[k]
<1> DEFINE top == PushedRegs(rg)
           mid == <<<<"vector", v>>, <<"error", 0>>>>
           both == top \o mid
<1>1. Len(Saved) = 15
  BY DEF Saved
<1>2. StubPushes(v) = mid
  BY DEF StubPushes, IrqVectors
<1>3. Enter(s, rg, v) = both \o s
  BY <1>1, <1>2 DEF Enter, PushedRegs
<1>4. IsStack(top) /\ Len(top) = 15
  BY PushedStack
<1>5. IsStack(mid) /\ Len(mid) = 2 /\ mid[1] = <<"vector", v>>
  <2>1. mid \in Seq({<<"vector", v>>, <<"error", 0>>})
    OBVIOUS
  <2> QED
    BY <2>1 DEF IsStack
<1> HIDE DEF top, mid
<1>6. /\ IsStack(both) /\ Len(both) = 17
      /\ \A k \in 1 .. 15 : both[k] = top[k]
      /\ both[16] = mid[1]
  <2>1. /\ IsStack(both) /\ Len(both) = Len(top) + Len(mid)
        /\ \A k \in 1 .. Len(top) : both[k] = top[k]
        /\ \A k \in 1 .. Len(mid) : both[Len(top) + k] = mid[k]
    <3>1. IsStack(top) /\ IsStack(mid)
      BY <1>4, <1>5
    <3> QED
      BY ONLY <3>1, ConcatWords
  <2> HIDE DEF both
  <2> QED
    BY <2>1, <1>4, <1>5
<1> HIDE DEF both
<1>7. /\ IsStack(both \o s) /\ Len(both \o s) = 17 + Len(s)
      /\ \A k \in 1 .. 17 : (both \o s)[k] = both[k]
      /\ \A k \in 1 .. Len(s) : (both \o s)[17 + k] = s[k]
  <2> DEFINE all == both \o s
  <2>1. /\ IsStack(all) /\ Len(all) = Len(both) + Len(s)
        /\ \A k \in 1 .. Len(both) : all[k] = both[k]
        /\ \A k \in 1 .. Len(s) : all[Len(both) + k] = s[k]
    <3>1. IsStack(both) /\ IsStack(s)
      BY <1>6
    <3> QED
      BY ONLY <3>1, ConcatWords
  <2> HIDE DEF all
  <2>2. /\ IsStack(all) /\ Len(all) = 17 + Len(s)
        /\ \A k \in 1 .. 17 : all[k] = both[k]
        /\ \A k \in 1 .. Len(s) : all[17 + k] = s[k]
    BY <2>1, <1>6
  <2> QED
    BY <2>2 DEF all
<1>8. /\ \A k \in 1 .. 15 : (both \o s)[k] = top[k]
      /\ (both \o s)[16] = <<"vector", v>>
  BY <1>5, <1>6, <1>7, SMTT(30)
<1> QED
  BY <1>3, <1>7, <1>8 DEF top

\* The CPU's frame for an interrupt has no error code.
LEMMA IrqFrame ==
  ASSUME NEW v \in IrqVectors, NEW p, NEW b
  PROVE  /\ CpuFrame(v, 0, p, b) = <<<<"rip", p>>, <<"cs", 0>>, <<"if", b>>,
                                     <<"rsp", 0>>, <<"ss", 0>>>>
         /\ IsStack(CpuFrame(v, 0, p, b))
<1> DEFINE five == <<<<"rip", p>>, <<"cs", 0>>, <<"if", b>>, <<"rsp", 0>>,
                     <<"ss", 0>>>>
           W == {five[1], five[2], five[3], five[4], five[5]}
<1>1. v \notin CpuPushesError
  BY DEF IrqVectors, CpuPushesError
<1>2. five \in Seq(W)
  OBVIOUS
<1>3. << >> \o five = five
  BY <1>2
<1>4. CpuFrame(v, 0, p, b) = five
  BY <1>1, <1>3 DEF CpuFrame
<1> QED
  BY <1>2, <1>4 DEF IsStack

\* The pops are the pushes in reverse.
LEMMA RestoredReversesSaved ==
  /\ DOMAIN Restored = 1 .. 15 /\ Len(Restored) = 15
  /\ DOMAIN Saved = 1 .. 15
  /\ \A k \in 1 .. 15 : Restored[k] = Saved[16 - k]
<1>1. \A k \in 1 .. 15 : k \in {1, 2, 3, 4, 5, 6, 7, 8, 9, 10, 11, 12, 13, 14, 15}
  OBVIOUS
<1>2. \A k \in {1, 2, 3, 4, 5, 6, 7, 8, 9, 10, 11, 12, 13, 14, 15} :
        Restored[k] = Saved[16 - k]
  BY DEF Restored, Saved
<1> QED
  BY <1>1, <1>2 DEF Restored, Saved

\* What the end of the common stub and iretq make of the stack that the
\* start of the common stub left: everything is as it was.
LEMMA IretRestores ==
  ASSUME NEW v \in IrqVectors, NEW p, NEW rg, RegisterFile(rg)
  PROVE  LET st == Enter(CpuFrame(v, 0, p, TRUE), rg, v)
         IN  /\ Popped(st) = rg
             /\ IretRip(Leave(st)) = p
             /\ IretFlag(Leave(st)) = TRUE
             /\ SubSeq(Leave(st), 6, Len(Leave(st))) = << >>
<1> DEFINE frame == CpuFrame(v, 0, p, TRUE)
           st == Enter(frame, rg, v)
<1>1. frame = <<<<"rip", p>>, <<"cs", 0>>, <<"if", TRUE>>, <<"rsp", 0>>, <<"ss", 0>>>>
  BY IrqFrame
<1>2. IsStack(frame)
  BY IrqFrame
<1> HIDE DEF frame
<1>3. IsStack(st)
  BY <1>2, EnterWords
<1>4. /\ Len(st) = 17 + Len(frame)
      /\ \A k \in 1 .. 15 : st[k] = rg[Saved[16 - k]]
      /\ \A k \in 1 .. Len(frame) : st[17 + k] = frame[k]
  BY <1>2, EnterWords DEF PushedRegs
<1> HIDE DEF st
<1>5. Len(frame) = 5 /\ Len(st) = 22
  BY <1>1, <1>4
<1>6. Popped(st) = rg
  <2>1. \A r \in Registers : st[CHOOSE k \in DOMAIN Restored : Restored[k] = r] = rg[r]
    <3> TAKE r \in Registers
    <3>1. PICK j \in 1 .. 15 : Saved[j] = r
      BY RestoredReversesSaved DEF Registers
    <3>2. 16 - j \in DOMAIN Restored /\ Restored[16 - j] = r
      <4>1. 16 - j \in 1 .. 15 /\ 16 - (16 - j) = j
        OBVIOUS
      <4> QED
        BY <3>1, <4>1, RestoredReversesSaved
    <3> DEFINE j2 == CHOOSE k \in DOMAIN Restored : Restored[k] = r
    <3>3. j2 \in DOMAIN Restored /\ Restored[j2] = r
      BY <3>2
    <3> HIDE DEF j2
    <3>4. j2 \in 1 .. 15 /\ Saved[16 - j2] = r
      BY <3>3, RestoredReversesSaved
    <3>5. st[j2] = rg[r]
      BY <3>4, <1>4
    <3> QED
      BY <3>5 DEF j2
  <2>2. rg = [r \in Registers |-> rg[r]]
    BY DEF RegisterFile
  <2>3. Popped(st) = [r \in Registers |-> rg[r]]
    BY ONLY <2>1 DEF Popped
  <2> QED
    BY ONLY <2>2, <2>3
<1>7. Leave(st) = frame
  <2>1. Leave(st) = SubSeq(st, 18, 22)
    BY <1>5, RestoredReversesSaved DEF Leave
  <2>2. /\ IsStack(SubSeq(st, 18, 22)) /\ Len(SubSeq(st, 18, 22)) = 5
        /\ \A k \in 1 .. 5 : SubSeq(st, 18, 22)[k] = st[17 + k]
    <3>1. 18 \in 1 .. Len(st) /\ 22 \in 18 .. Len(st)
      BY <1>5
    <3> QED
      BY <1>3, <3>1, SubWords
  <2>3. \A k \in 1 .. 5 : SubSeq(st, 18, 22)[k] = frame[k]
    BY <2>2, <1>4, <1>5
  <2> QED
    BY <2>1, <2>2, <2>3, <1>2, <1>5 DEF IsStack
<1>8. SubSeq(frame, 6, Len(frame)) = << >>
  BY <1>2, <1>5 DEF IsStack
<1>9. IretRip(frame) = p /\ IretFlag(frame) = TRUE
  BY <1>1 DEF IretRip, IretFlag
<1>10. /\ Popped(st) = rg
       /\ IretRip(Leave(st)) = p
       /\ IretFlag(Leave(st)) = TRUE
       /\ SubSeq(Leave(st), 6, Len(Leave(st))) = << >>
  BY <1>6, <1>7, <1>8, <1>9
<1> QED
  BY <1>10 DEF st, frame

\* Three pieces one after the other.
LEMMA ThreePieces ==
  ASSUME NEW a, IsStack(a), NEW b, IsStack(b), NEW d, IsStack(d)
  PROVE  /\ \A k \in 1 .. Len(b) : (a \o b \o d)[Len(a) + k] = b[k]
         /\ \A k \in 1 .. Len(d) : (a \o b \o d)[Len(a) + Len(b) + k] = d[k]
<1> DEFINE ab == a \o b
           abd == ab \o d
<1>1. /\ IsStack(ab)
      /\ Len(a) \in Nat /\ Len(b) \in Nat
      /\ Len(ab) = Len(a) + Len(b)
      /\ \A k \in 1 .. Len(b) : ab[Len(a) + k] = b[k]
  BY ONLY IsStack(a), IsStack(b), ConcatWords
<1> HIDE DEF ab
<1>2. IsStack(ab)
  BY <1>1
<1>3. /\ \A k \in 1 .. Len(ab) : abd[k] = ab[k]
      /\ \A k \in 1 .. Len(d) : abd[Len(ab) + k] = d[k]
  BY ONLY <1>2, IsStack(d), ConcatWords
<1> HIDE DEF abd
<1>4. /\ \A k \in 1 .. Len(b) : abd[Len(a) + k] = b[k]
      /\ \A k \in 1 .. Len(d) : abd[Len(a) + Len(b) + k] = d[k]
  <2>1. ASSUME NEW k \in 1 .. Len(b)
        PROVE  abd[Len(a) + k] = b[k]
    <3>1. Len(a) + k \in 1 .. Len(ab)
      BY ONLY <1>1, k \in 1 .. Len(b)
    <3>2. abd[Len(a) + k] = ab[Len(a) + k]
      BY ONLY <3>1, <1>3
    <3>3. ab[Len(a) + k] = b[k]
      BY ONLY <1>1, k \in 1 .. Len(b)
    <3> QED
      BY ONLY <3>2, <3>3
  <2>2. \A k \in 1 .. Len(d) : abd[Len(a) + Len(b) + k] = d[k]
    BY ONLY <1>1, <1>3
  <2> QED
    BY <2>1, <2>2
<1> QED
  BY <1>4 DEF abd, ab

\* One more word on a frame of five.
LEMMA PushOnFive ==
  ASSUME NEW x, NEW a, NEW b, NEW d, NEW e, NEW f
  PROVE  <<x>> \o <<a, b, d, e, f>> = <<x, a, b, d, e, f>>
<1> DEFINE s == <<a, b, d, e, f>>
<1>1. <<x>> \o s = [k \in 1 .. 6 |-> IF k = 1 THEN x ELSE s[k - 1]]
  OBVIOUS
<1> DEFINE t == <<x, a, b, d, e, f>>
           u == <<x>> \o s
<1> HIDE DEF u
<1>2. u = [k \in 1 .. 6 |-> IF k = 1 THEN x ELSE s[k - 1]]
  BY <1>1 DEF u
<1>3. u[1] = x /\ u[2] = a /\ u[3] = b /\ u[4] = d /\ u[5] = e /\ u[6] = f
  BY <1>2
<1>4. u \in Seq({x, a, b, d, e, f}) /\ Len(u) = 6
  <2>1. \A k \in 1 .. 6 :
          (IF k = 1 THEN x ELSE s[k - 1]) \in {x, a, b, d, e, f}
    OBVIOUS
  <2> HIDE DEF s
  <2> QED
    BY <1>2, <2>1
<1>5. t \in Seq({x, a, b, d, e, f}) /\ Len(t) = 6
  OBVIOUS
<1>6. \A k \in 1 .. 6 : u[k] = t[k]
  BY <1>3
<1> HIDE DEF t
<1>7. u = t
  BY <1>4, <1>5, <1>6
<1> QED
  BY <1>7 DEF u, t

\* The arguments of isr_handler, whether the CPU pushed an error code or not.
LEMMA IsrArgumentsRight ==
  ASSUME NEW v \in 0 .. 31, NEW p, NEW b, NEW s, IsStack(s), NEW rg
  PROVE  IsrArguments(Enter(CpuFrame(v, 7, p, b) \o s, rg, v))
           = <<<<"vector", v>>,
               <<"error", IF v \in CpuPushesError THEN 7 ELSE 0>>,
               <<"rip", p>>>>
<1> DEFINE top == PushedRegs(rg)
           mid == StubPushes(v)
           frame == CpuFrame(v, 7, p, b)
           low == frame \o s
           st == top \o mid \o low
           five == <<<<"rip", p>>, <<"cs", 0>>, <<"if", b>>, <<"rsp", 0>>,
                     <<"ss", 0>>>>
           six == <<<<"error", 7>>, <<"rip", p>>, <<"cs", 0>>, <<"if", b>>,
                    <<"rsp", 0>>, <<"ss", 0>>>>
<1> HIDE DEF low
<1>1. Enter(low, rg, v) = st
  <2>1. Len(Saved) = 15
    BY DEF Saved
  <2> QED
    BY <2>1, SMTT(30) DEF Enter, PushedRegs
<1> USE DEF low
<1>2. IsStack(top) /\ Len(top) = 15
  BY PushedStack
<1>3. CASE v \in CpuPushesError
  <2>1. mid = <<<<"vector", v>>>>
    BY <1>3 DEF StubPushes, CpuPushesError
  <2>2. IsStack(mid) /\ Len(mid) = 1 /\ mid[1] = <<"vector", v>>
    <3>1. mid \in Seq({<<"vector", v>>})
      BY <2>1
    <3>2. IsStack(mid)
      BY <2>1, <3>1 DEF IsStack
    <3> QED
      BY <2>1, <3>2
  <2>3. frame = six
    <3>1. <<<<"error", 7>>>> \o five = six
      BY PushOnFive
    <3> QED
      BY <1>3, <3>1 DEF CpuFrame
  <2>4. IsStack(frame) /\ Len(frame) = 6 /\ frame[1] = <<"error", 7>>
        /\ frame[2] = <<"rip", p>>
    <3>1. six \in Seq({<<"rip", p>>, <<"cs", 0>>, <<"if", b>>, <<"rsp", 0>>,
                       <<"ss", 0>>, <<"error", 7>>})
      OBVIOUS
    <3>2. IsStack(frame)
      BY <2>3, <3>1 DEF IsStack
    <3> QED
      BY <2>3, <3>2
  <2> HIDE DEF mid, frame, top
  <2>5. IsStack(mid) /\ IsStack(frame) /\ IsStack(top)
    BY <2>2, <2>4, <1>2
  <2>6. IsStack(low) /\ Len(low) = Len(frame) + Len(s) /\ Len(s) \in Nat
        /\ \A k \in 1 .. Len(frame) : low[k] = frame[k]
    BY ONLY <2>5, IsStack(s), ConcatWords
  <2> HIDE DEF low
  <2>7. IsStack(low)
    BY <2>6
  <2>8. /\ \A k \in 1 .. Len(mid) : st[Len(top) + k] = mid[k]
        /\ \A k \in 1 .. Len(low) : st[Len(top) + Len(mid) + k] = low[k]
    BY ONLY <2>5, <2>7, ThreePieces
  <2> HIDE DEF st
  <2>9. st[16] = mid[1] /\ st[17] = frame[1] /\ st[18] = frame[2]
    BY <1>2, <2>2, <2>4, <2>6, <2>8, SMTT(30)
  <2> QED
    BY <1>1, <1>3, <2>2, <2>4, <2>9 DEF IsrArguments, low, frame
<1>4. CASE v \notin CpuPushesError
  <2>1. mid = <<<<"vector", v>>, <<"error", 0>>>>
    BY <1>4 DEF StubPushes, CpuPushesError
  <2>2. IsStack(mid) /\ Len(mid) = 2 /\ mid[1] = <<"vector", v>>
        /\ mid[2] = <<"error", 0>>
    <3>1. mid \in Seq({<<"vector", v>>, <<"error", 0>>})
      BY <2>1
    <3>2. IsStack(mid)
      BY <2>1, <3>1 DEF IsStack
    <3> QED
      BY <2>1, <3>2
  <2>3. frame = five
    BY <1>4 DEF CpuFrame
  <2>4. IsStack(frame) /\ Len(frame) = 5 /\ frame[1] = <<"rip", p>>
    <3>1. five \in Seq({<<"rip", p>>, <<"cs", 0>>, <<"if", b>>, <<"rsp", 0>>,
                        <<"ss", 0>>})
      OBVIOUS
    <3>2. IsStack(frame)
      BY <2>3, <3>1 DEF IsStack
    <3> QED
      BY <2>3, <3>2
  <2> HIDE DEF mid, frame, top
  <2>5. IsStack(mid) /\ IsStack(frame) /\ IsStack(top)
    BY <2>2, <2>4, <1>2
  <2>6. IsStack(low) /\ Len(low) = Len(frame) + Len(s) /\ Len(s) \in Nat
        /\ \A k \in 1 .. Len(frame) : low[k] = frame[k]
    BY ONLY <2>5, IsStack(s), ConcatWords
  <2> HIDE DEF low
  <2>7. IsStack(low)
    BY <2>6
  <2>8. /\ \A k \in 1 .. Len(mid) : st[Len(top) + k] = mid[k]
        /\ \A k \in 1 .. Len(low) : st[Len(top) + Len(mid) + k] = low[k]
    BY ONLY <2>5, <2>7, ThreePieces
  <2> HIDE DEF st
  <2>9. st[16] = mid[1] /\ st[17] = mid[2] /\ st[18] = frame[1]
    BY <1>2, <2>2, <2>4, <2>6, <2>8
  <2> QED
    BY <1>1, <1>4, <2>2, <2>4, <2>9 DEF IsrArguments, low, frame
<1> QED
  BY <1>3, <1>4

-----------------------------------------------------------------------------
(***************************************************************************)
(* The invariant holds at first, and the devices keep it.                  *)
(***************************************************************************)

LEMMA InitInv == Init => IInv
<1> SUFFICES ASSUME Init PROVE IInv
  OBVIOUS
<1> USE DEF Init, At
<1>1. RipOK
  BY DEF RipOK, Running, BootSteps, MainSteps
<1>2. BootOK
  BY DEF BootOK, Running, BootSteps, MainSteps, HandlerSteps
<1>3. ServiceOK
  BY DEF ServiceOK, BootSteps, MainSteps
<1>4. ByteOK
  BY DEF ByteOK
<1>5. StackOK
  <2>1. RegisterFile(regs)
    BY DEF RegisterFile
  <2> QED
    BY <2>1 DEF StackOK, BootSteps, MainSteps, HandlerSteps
<1>6. OrderOK
  <2>1. ~InHandler /\ MainRip = rip /\ MainRegs = regs
    BY DEF InHandler, MainRip, MainRegs
  <2>2. "rax" \in Registers
    <3>1. 1 \in DOMAIN Saved /\ Saved[1] = "rax"
      BY DEF Saved
    <3> QED
      BY <3>1 DEF Registers
  <2>3. MainKey = NoKey
    BY <2>1, <2>2 DEF MainKey
  <2> QED
    BY <2>1, <2>3, MaxTypedAssumption DEF OrderOK, Taken, NoCode, NoKey, Keys
<1>7. WireOK
  BY MaxTypedAssumption DEF WireOK
<1>8. RestOK
  BY DEF RestOK
<1> QED
  BY <1>1, <1>2, <1>3, <1>4, <1>5, <1>6, <1>7, <1>8 DEF IInv

\* The number of codes taken and the order of the keys do not depend on what
\* is still on its way.
LEMMA SameKeys ==
  ASSUME OrderOK, Taken' = Taken, UNCHANGED <<keyVars, got, rip, before, regs>>
  PROVE  OrderOK'
BY DEF OrderOK, keyVars, MainRip, MainRegs, MainKey, InHandler

LEMMA TypeStep ==
  ASSUME IInv, NEW sc \in Codes, Type(sc)
  PROVE  IInv'
<1> USE DEF Type, picVars, cpuVars, keyVars, excVars
<1>1. RipOK'
  BY DEF IInv, RipOK
<1>2. BootOK'
  BY DEF IInv, BootOK
<1>3. ServiceOK'
  BY DEF IInv, ServiceOK, MasterLine, Line
<1>4. ByteOK'
  BY DEF IInv, ByteOK, Line
<1>5. StackOK'
  BY DEF IInv, StackOK
<1>6. WireOK' /\ Taken' = Taken
  <2> DEFINE new == [n |-> typed + 1, sc |-> sc]
  <2>1. new \in [n : 1 .. MAX_TYPED, sc : Codes]
    BY MaxTypedAssumption DEF IInv, WireOK
  <2>2. /\ wire' = Append(wire, new)
        /\ wire \in Seq([n : 1 .. MAX_TYPED, sc : Codes])
    BY DEF IInv, WireOK
  <2>3. new.n = typed + 1
    OBVIOUS
  <2> HIDE DEF new
  <2>4. /\ wire' \in Seq([n : 1 .. MAX_TYPED, sc : Codes])
        /\ Len(wire') = Len(wire) + 1
        /\ wire'[Len(wire) + 1] = new
        /\ \A k \in 1 .. Len(wire) : wire'[k] = wire[k]
    BY <2>1, <2>2
  <2>5. /\ typed \in Nat /\ Len(wire) \in Nat /\ Len(wire) <= typed
        /\ typed' = typed + 1 /\ obuf' = obuf /\ typed < MAX_TYPED
        /\ \A k \in 1 .. Len(wire) : wire[k].n = typed - Len(wire) + k
        /\ obuf \in {NoCode} \cup [n : 1 .. MAX_TYPED, sc : Codes]
        /\ obuf # NoCode => obuf.n = typed - Len(wire)
    BY MaxTypedAssumption DEF IInv, WireOK
  <2>6. typed' - Len(wire') = typed - Len(wire)
    BY ONLY <2>4, <2>5
  <2>7. ASSUME NEW k \in 1 .. Len(wire')
        PROVE  wire'[k].n = typed' - Len(wire') + k
    <3>1. CASE k = Len(wire) + 1
      <4>1. wire'[k].n = typed + 1
        BY ONLY <3>1, <2>3, <2>4
      <4>2. typed' - Len(wire') + k = typed + 1
        BY ONLY <3>1, <2>5, <2>6
      <4> QED
        BY ONLY <4>1, <4>2
    <3>2. CASE k # Len(wire) + 1
      <4>1. k \in 1 .. Len(wire)
        BY ONLY <3>2, <2>4, <2>5, k \in 1 .. Len(wire')
      <4>2. wire'[k] = wire[k] /\ wire[k].n = typed - Len(wire) + k
        BY ONLY <4>1, <2>4, <2>5
      <4> QED
        BY ONLY <4>2, <2>6
    <3> QED
      BY ONLY <3>1, <3>2
  <2>8. typed' \in 0 .. MAX_TYPED /\ Len(wire') <= typed'
    BY ONLY <2>4, <2>5, MaxTypedAssumption
  <2>9. WireOK'
    BY ONLY <2>4, <2>5, <2>6, <2>7, <2>8 DEF WireOK
  <2>10. Taken' = Taken
    BY ONLY <2>5, <2>6 DEF Taken
  <2> QED
    BY ONLY <2>9, <2>10
<1>7. OrderOK'
  BY <1>6, SameKeys DEF IInv
<1>8. RestOK'
  BY DEF IInv, RestOK
<1> QED
  BY <1>1, <1>2, <1>3, <1>4, <1>5, <1>6, <1>7, <1>8 DEF IInv

\* The head and the rest of a queue.
LEMMA HeadTail ==
  ASSUME NEW S, NEW s \in Seq(S), s # << >>
  PROVE  /\ Tail(s) \in Seq(S) /\ Head(s) \in S
         /\ Len(s) \in Nat /\ Len(s) > 0
         /\ Len(Tail(s)) = Len(s) - 1
         /\ \A k \in 1 .. Len(Tail(s)) : Tail(s)[k] = s[k + 1]
         /\ Head(s) = s[1]
OBVIOUS

LEMMA KbcLoadStep ==
  ASSUME IInv, KbcLoad
  PROVE  IInv'
<1> USE DEF KbcLoad, cpuVars, keyVars, excVars
<1>1. RipOK'
  BY DEF IInv, RipOK
<1>2. BootOK'
  BY DEF IInv, BootOK
<1>3. ServiceOK'
  BY DEF IInv, ServiceOK, MasterLine, Line
<1>5. StackOK'
  BY DEF IInv, StackOK
<1>6. WireOK' /\ Taken' = Taken /\ obuf' # NoCode
  <2>1. wire \in Seq([n : 1 .. MAX_TYPED, sc : Codes]) /\ wire # << >>
    BY DEF IInv, WireOK
  <2>a. /\ Tail(wire) \in Seq([n : 1 .. MAX_TYPED, sc : Codes])
        /\ Head(wire) \in [n : 1 .. MAX_TYPED, sc : Codes]
        /\ Len(wire) \in Nat /\ Len(wire) > 0
        /\ Len(Tail(wire)) = Len(wire) - 1
        /\ \A k \in 1 .. Len(Tail(wire)) : Tail(wire)[k] = wire[k + 1]
        /\ Head(wire) = wire[1]
    BY ONLY <2>1, HeadTail
  <2>2. /\ wire' \in Seq([n : 1 .. MAX_TYPED, sc : Codes])
        /\ Len(wire) > 0
        /\ Len(wire') = Len(wire) - 1
        /\ \A k \in 1 .. Len(wire') : wire'[k] = wire[k + 1]
        /\ obuf' = wire[1]
        /\ obuf' \in [n : 1 .. MAX_TYPED, sc : Codes]
    BY <2>a
  <2>3. obuf' # NoCode
    BY <2>2 DEF NoCode
  <2> HIDE DEF KbcLoad
  <2>4. UNCHANGED typed /\ obuf = NoCode
    BY DEF KbcLoad
  <2>5. /\ Len(wire) \in Nat /\ Len(wire') \in Nat
        /\ Len(wire) <= typed /\ typed \in 0 .. MAX_TYPED
        /\ \A k \in 1 .. Len(wire) : wire[k].n = typed - Len(wire) + k
    BY <2>1, <2>2 DEF IInv, WireOK
  <2>6. obuf'.n = typed' - Len(wire')
    <3>1. wire[1].n = typed - Len(wire) + 1
      BY <2>2, <2>5
    <3> QED
      BY <3>1, <2>2, <2>4, <2>5, MaxTypedAssumption
  <2>7. ASSUME NEW k \in 1 .. Len(wire')
        PROVE  wire'[k].n = typed' - Len(wire') + k
    <3>1. k + 1 \in 1 .. Len(wire) /\ wire'[k] = wire[k + 1]
      BY <2>2, <2>5
    <3>2. wire[k + 1].n = typed - Len(wire) + (k + 1)
      BY <3>1, <2>5
    <3> QED
      BY <3>1, <3>2, <2>2, <2>4, <2>5
  <2>8. WireOK'
    BY <2>2, <2>4, <2>5, <2>6, <2>7, MaxTypedAssumption DEF WireOK
  <2>9. Taken' = Taken
    BY <2>2, <2>3, <2>4, <2>5, MaxTypedAssumption DEF Taken
  <2> QED
    BY <2>3, <2>8, <2>9
<1>4. ByteOK'
  <2>1. ~(rip.at \in {"irq", "irq_handler"} /\ Line = 1)
    BY DEF IInv, ByteOK
  <2> QED
    BY <1>6, <2>1 DEF ByteOK, Line
<1>7. OrderOK'
  BY <1>6, SameKeys DEF IInv
<1>8. RestOK'
  BY DEF IInv, RestOK
<1> QED
  BY <1>1, <1>2, <1>3, <1>4, <1>5, <1>6, <1>7, <1>8 DEF IInv

LEMMA RaiseStep ==
  ASSUME IInv, NEW irq \in Devices, Raise(irq)
  PROVE  IInv'
<1> USE DEF Raise, devVars, cpuVars, keyVars, excVars
<1>1. RipOK'
  BY DEF IInv, RipOK
<1>2. BootOK'
  BY DEF IInv, BootOK
<1>3. ServiceOK'
  BY DEF IInv, ServiceOK, MasterLine, Line
<1>4. ByteOK'
  BY DevicesAssumption DEF IInv, ByteOK, Line
<1>5. StackOK'
  BY DEF IInv, StackOK
<1>6. WireOK' /\ Taken' = Taken
  BY DEF IInv, WireOK, Taken
<1>7. OrderOK'
  BY <1>6, SameKeys DEF IInv
<1>8. RestOK'
  BY DEF IInv, RestOK
<1> QED
  BY <1>1, <1>2, <1>3, <1>4, <1>5, <1>6, <1>7, <1>8 DEF IInv

-----------------------------------------------------------------------------
(***************************************************************************)
(* An interrupt is taken, and its handler runs.                            *)
(***************************************************************************)

\* In the main loop the PICs have their vectors, nothing is in service and
\* nothing is on the stack.
LEMMA InMainLoop ==
  ASSUME IInv, intr_on
  PROVE  /\ rip.at \in MainSteps /\ rip = At(rip.at) /\ rip.at \in Running
         /\ ~InHandler
         /\ \A irq \in 0 .. 15 : Vector(irq) = 32 + irq
         /\ idt = TRUE
         /\ stack = << >>
         /\ isr["master"] = {} /\ isr["slave"] = {}
         /\ Resume \in {At(place) : place \in MainSteps}
         /\ Resume.at \in {"clear", "act"} => Resume = rip
<1>1. rip.at \in MainSteps
  BY DEF IInv, BootOK
<1>2. /\ rip.at \in Running \ {"pic_init", "idt_init"}
      /\ rip.at \notin HandlerSteps
  BY <1>1 DEF Running, MainSteps, HandlerSteps
<1>3. rip = At(rip.at)
  BY <1>1 DEF IInv, RipOK, At
<1>4. base = [master |-> 32, slave |-> 40] /\ idt = TRUE
  BY <1>2 DEF IInv, BootOK
<1>5. base["master"] = 32 /\ base["slave"] = 40
  BY <1>4
<1>6. \A irq \in 0 .. 15 : Vector(irq) = 32 + irq
  BY <1>5 DEF Vector
<1>7. stack = << >> /\ isr["master"] = {} /\ isr["slave"] = {}
  BY <1>1 DEF IInv, StackOK, ServiceOK
<1>8. /\ Resume \in {At(place) : place \in MainSteps}
      /\ Resume.at \in {"clear", "act"} => Resume = rip
  BY <1>1, <1>3 DEF Resume, MainSteps, At
<1> QED
  BY <1>1, <1>2, <1>3, <1>4, <1>6, <1>7, <1>8 DEF InHandler, HandlerSteps

\* Whatever line it is, the CPU arrives at an irq stub with the interrupted
\* program's frame on the stack, and the keys stay in order.
LEMMA DeliverStep ==
  ASSUME IInv, intr_on, NEW n \in 0 .. 15, Deliver(32 + n)
  PROVE  /\ RipOK' /\ BootOK' /\ StackOK' /\ WireOK' /\ OrderOK'
         /\ rip' = [at |-> "irq", n |-> 32 + n]
         /\ Line' = n
         /\ UNCHANGED obuf
<1> DEFINE v == 32 + n
<1>1. v \in IrqVectors /\ v \in 32 .. 47
  BY DEF IrqVectors
<1> HIDE DEF v
<1>2. idt_init[v].stub = "irq" /\ idt_init[v].gate = "interrupt"
  BY <1>1, IrqGates
<1>3. /\ rip' = [at |-> "irq", n |-> v]
      /\ intr_on' = FALSE
      /\ before' = <<Resume, TRUE, regs>>
      /\ UNCHANGED <<regs, idt, keyVars, got, devVars, base, cause, report>>
  <2>1. intr_on = TRUE
    BY DEF IInv, BootOK
  <2> QED
    BY <1>2, <2>1, InMainLoop DEF Deliver, v, excVars
<1>4. stack' = CpuFrame(v, 0, Resume, TRUE)
  <2>1. intr_on = TRUE
    BY DEF IInv, BootOK
  <2> DEFINE frame == CpuFrame(v, 0, Resume, TRUE)
  <2>2. PICK W : frame \in Seq(W)
    BY <1>1, IrqFrame DEF IsStack
  <2>3. stack' = frame \o << >>
    BY <2>1, InMainLoop DEF Deliver, v
  <2> HIDE DEF frame
  <2>4. frame \o << >> = frame
    BY <2>2
  <2> QED
    BY <2>3, <2>4 DEF frame
<1>5. RipOK'
  BY <1>1, <1>3 DEF RipOK, Running, BootSteps, MainSteps, HandlerSteps
<1>6. BootOK'
  BY <1>3, InMainLoop DEF IInv, BootOK, Running, BootSteps, MainSteps, HandlerSteps
<1>7. StackOK'
  <2>1. RegisterFile(regs)
    BY DEF IInv, StackOK
  <2>2. /\ before'[1] = Resume /\ before'[2] = TRUE /\ before'[3] = regs
    BY <1>3
  <2>3. rip'.at = "irq" /\ rip'.n = v
    BY <1>3
  <2>4. RegisterFile(regs)' /\ RegisterFile(before[3])'
    BY <1>3, <2>1, <2>2 DEF RegisterFile
  <2> QED
    BY <1>3, <1>4, <2>2, <2>3, <2>4, InMainLoop
    DEF StackOK, BootSteps, MainSteps, HandlerSteps
<1>8. WireOK' /\ Taken' = Taken
  BY <1>3 DEF devVars, IInv, WireOK, Taken
<1>9. OrderOK'
  <2>1. InHandler' /\ MainRip' = Resume /\ MainRegs' = regs
    BY <1>3 DEF InHandler, MainRip, MainRegs
  <2>2. MainRip = rip /\ MainRegs = regs
    BY InMainLoop DEF MainRip, MainRegs
  <2>3. MainKey' = MainKey
    BY <2>1, <2>2 DEF MainKey
  <2>4. MainRip'.at \in {"clear", "act"} => MainRip' = MainRip
    BY <2>1, <2>2, InMainLoop
  <2> QED
    BY <1>3, <1>8, <2>3, <2>4, InMainLoop DEF IInv, OrderOK, keyVars
<1>10. Line' = n
  BY <1>3 DEF Line, v
<1> QED
  BY <1>3, <1>5, <1>6, <1>7, <1>8, <1>9, <1>10 DEF v, devVars

LEMMA AcceptStep ==
  ASSUME IInv, NEW irq \in Devices \cup {1}, Accept(irq)
  PROVE  IInv'
<1>1. irq \in 0 .. 15 /\ intr_on /\ irq # 2
  BY DevicesAssumption DEF Accept
<1>2. Deliver(32 + irq)
  BY <1>1, InMainLoop DEF Accept
<1>3. /\ RipOK' /\ BootOK' /\ StackOK' /\ WireOK' /\ OrderOK'
      /\ rip' = [at |-> "irq", n |-> 32 + irq]
      /\ Line' = irq
      /\ UNCHANGED obuf
  BY <1>1, <1>2, DeliverStep
<1>4. ServiceOK'
  <2>1. /\ isr["master"] = {} /\ isr["slave"] = {}
        /\ isr \in [{"master", "slave"} -> SUBSET (0 .. 15)]
    BY <1>1, InMainLoop DEF IInv, ServiceOK
  <2>2. /\ isr' \in [{"master", "slave"} -> SUBSET (0 .. 15)]
        /\ isr'["master"] = {MasterLine(irq)}
        /\ isr'["slave"] = IF irq >= 8 THEN {irq} ELSE {}
    BY <1>1, <2>1 DEF Accept, MasterLine
  <2>3. MasterLine(Line)' = MasterLine(irq)
    BY <1>3 DEF MasterLine
  <2> QED
    BY <1>1, <1>3, <2>2, <2>3 DEF ServiceOK, BootSteps, MainSteps, MasterLine
<1>5. ByteOK'
  BY <1>3 DEF IInv, ByteOK, Accept, Offered
<1>6. RestOK'
  BY DEF IInv, RestOK, Accept, Deliver, keyVars
<1> QED
  BY <1>3, <1>4, <1>5, <1>6 DEF IInv

LEMMA AcceptSpuriousStep ==
  ASSUME IInv, NEW irq \in Devices, AcceptSpurious(irq)
  PROVE  IInv'
<1> DEFINE n == IF irq >= 8 THEN 15 ELSE 7
<1>1. irq \in 0 .. 15 /\ intr_on /\ irq # 1 /\ n \in 0 .. 15
  BY DevicesAssumption DEF AcceptSpurious
<1>2. Deliver(32 + n)
  <2>1. Deliver(Vector(n))
    BY DEF AcceptSpurious
  <2> QED
    BY <1>1, <2>1, InMainLoop
<1>3. /\ RipOK' /\ BootOK' /\ StackOK' /\ WireOK' /\ OrderOK'
      /\ rip' = [at |-> "irq", n |-> 32 + n]
      /\ Line' = n
      /\ UNCHANGED obuf
  BY <1>1, <1>2, DeliverStep
<1>4. ServiceOK'
  <2>1. /\ isr["master"] = {} /\ isr["slave"] = {}
        /\ isr \in [{"master", "slave"} -> SUBSET (0 .. 15)]
    BY <1>1, InMainLoop DEF IInv, ServiceOK
  <2>2. /\ isr' \in [{"master", "slave"} -> SUBSET (0 .. 15)]
        /\ isr'["master"] = IF irq >= 8 THEN {2} ELSE {}
        /\ isr'["slave"] = {}
    BY <1>1, <2>1 DEF AcceptSpurious
  <2>3. MasterLine(Line)' = MasterLine(n)
    BY <1>3 DEF MasterLine
  <2> QED
    BY <1>1, <1>3, <2>2, <2>3 DEF ServiceOK, BootSteps, MainSteps, MasterLine
<1>5. ByteOK'
  BY <1>1, <1>3 DEF IInv, ByteOK, AcceptSpurious
<1>6. RestOK'
  BY DEF IInv, RestOK, AcceptSpurious, Deliver, keyVars
<1> QED
  BY <1>3, <1>4, <1>5, <1>6 DEF IInv

\* A handler's step keeps the interrupted program's key, and the rest of the
\* order.
LEMMA HandlerKeepsOrder ==
  ASSUME OrderOK, InHandler, InHandler', UNCHANGED before,
         Taken' = Taken, UNCHANGED <<keyVars, got>>
  PROVE  OrderOK'
<1>1. rip.at \in Running /\ rip'.at \in Running
  BY DEF InHandler, Running, HandlerSteps
<1>2. MainRip' = MainRip /\ MainKey' = MainKey
  BY DEF MainRip, MainRegs, MainKey
<1> QED
  BY <1>1, <1>2 DEF OrderOK, keyVars

LEMMA IrqStubStep ==
  ASSUME IInv, IrqStub
  PROVE  IInv'
<1> DEFINE v == rip.n
<1>1. rip.at = "irq" /\ v \in IrqVectors /\ v \in 32 .. 47
  BY DEF IInv, RipOK, IrqStub, IrqVectors
<1>2. /\ stack = CpuFrame(v, 0, before[1], TRUE)
      /\ regs = before[3]
      /\ RegisterFile(before[3])
      /\ before \in {<<At(place), TRUE, before[3]>> : place \in MainSteps}
  BY <1>1 DEF IInv, StackOK, HandlerSteps
<1>3. /\ stack' = Enter(CpuFrame(v, 0, before[1], TRUE), before[3], v)
      /\ UNCHANGED <<before, regs>>
  BY <1>2 DEF IrqStub
<1>4. stack'[16] = <<"vector", v>>
  <2> DEFINE frame == CpuFrame(v, 0, before[1], TRUE)
  <2>1. IsStack(frame)
    BY <1>1, IrqFrame
  <2> HIDE DEF frame, v
  <2>2. Enter(frame, before[3], v)[16] = <<"vector", v>>
    BY ONLY <1>1, <2>1, EnterWords
  <2> QED
    BY <1>3, <2>2 DEF frame
<1>5. rip' = [at |-> "irq_handler", n |-> v - 32]
  BY <1>4 DEF IrqStub, IrqNumber
<1>6. RipOK'
  BY <1>1, <1>5 DEF RipOK, Running, BootSteps, MainSteps, HandlerSteps
<1>7. BootOK'
  <2>1. rip'.at = "irq_handler" /\ intr_on' = FALSE
    BY <1>5 DEF IrqStub
  <2> QED
    BY <1>1, <2>1 DEF IInv, BootOK, IrqStub, picVars, excVars, Running, BootSteps,
                      MainSteps, HandlerSteps
<1>8. Line' = Line /\ Line' = v - 32
  BY <1>1, <1>5 DEF Line
<1>9. ServiceOK'
  BY <1>1, <1>5, <1>8 DEF IInv, ServiceOK, IrqStub, picVars, MasterLine,
                          BootSteps, MainSteps
<1>10. ByteOK'
  BY <1>1, <1>5, <1>8 DEF IInv, ByteOK, IrqStub, picVars, devVars
<1>11. StackOK'
  <2>1. RegisterFile(regs)' /\ RegisterFile(before[3])'
    BY <1>2, <1>3 DEF RegisterFile
  <2> QED
    BY <1>1, <1>2, <1>3, <1>5, <2>1 DEF StackOK, BootSteps, MainSteps, HandlerSteps
<1>12. WireOK' /\ Taken' = Taken
  BY DEF IInv, WireOK, Taken, IrqStub, devVars
<1>13. OrderOK'
  BY <1>1, <1>5, <1>12, HandlerKeepsOrder DEF IInv, InHandler, IrqStub
<1>14. RestOK'
  BY DEF IInv, RestOK, IrqStub, picVars, keyVars
<1> QED
  BY <1>6, <1>7, <1>9, <1>10, <1>11, <1>12, <1>13, <1>14 DEF IInv

\* keyboard_handler takes the byte; the key it records is a later one than
\* every key before.
LEMMA KeyboardHandlerOrder ==
  ASSUME WireOK, OrderOK, obuf # NoCode, InHandler, InHandler',
         keyboard_handler, UNCHANGED <<before, wire, typed, got>>
  PROVE  WireOK' /\ OrderOK'
<1>1. /\ obuf \in [n : 1 .. MAX_TYPED, sc : Codes]
      /\ obuf' = NoCode
      /\ obuf.sc \in AllCodes
  BY CodesAssumption DEF WireOK, keyboard_handler
<1>2. WireOK'
  BY <1>1 DEF WireOK
<1>3. Taken' = Taken + 1 /\ obuf.n = Taken + 1 /\ Taken \in Int
  BY <1>1 DEF Taken, WireOK
<1>4. /\ last_key' \in Keys
      /\ last_key' = last_key \/ last_key' = NoKey \/ last_key'.n = obuf.n
  BY <1>1 DEF keyboard_handler, Translate, Keys, Glyphs, OrderOK, AllCodes
<1>5. rip.at \in Running /\ rip'.at \in Running
  BY DEF InHandler, Running, HandlerSteps
<1>6. MainRip' = MainRip /\ MainKey' = MainKey
  BY DEF MainRip, MainRegs, MainKey
<1>7. NoKey.n = 0
  BY DEF NoKey
<1> HIDE DEF NoKey
<1>8. \A key \in Keys : key.n \in Nat
  BY <1>7, MaxTypedAssumption DEF Keys
<1>9. /\ last_key.n \in Nat /\ last_key.n <= Taken
      /\ got \in Nat /\ got <= Taken
      /\ MainKey \in Keys /\ MainKey.n \in Nat
  BY <1>5, <1>8, MaxTypedAssumption DEF OrderOK
<1>10. last_key'.n \in Nat /\ last_key'.n <= Taken' /\ got <= Taken'
  BY <1>3, <1>4, <1>7, <1>9
<1>11. last_key' # NoKey => got < last_key'.n
  BY <1>3, <1>4, <1>9 DEF OrderOK
<1>12. ASSUME MainRip.at \in {"clear", "act"}, MainKey # NoKey
       PROVE  /\ got < MainKey.n
              /\ MainKey.n <= Taken'
              /\ MainRip.at = "act" /\ last_key' # NoKey => MainKey.n < last_key'.n
  <2>1. /\ got < MainKey.n
        /\ MainKey.n <= Taken
        /\ MainRip.at = "act" /\ last_key # NoKey => MainKey.n < last_key.n
    BY <1>5, <1>12 DEF OrderOK
  <2> QED
    BY <2>1, <1>3, <1>4, <1>9
<1>13. OrderOK'
  BY <1>4, <1>6, <1>9, <1>10, <1>11, <1>12 DEF OrderOK
<1> QED
  BY <1>2, <1>13

LEMMA HandlerBodyStep ==
  ASSUME IInv, HandlerBody
  PROVE  IInv'
<1>1. rip.at = "irq_handler" /\ rip' = [at |-> "eoi", n |-> rip.n]
  BY DEF IInv, RipOK, HandlerBody
<1>2. Line' = Line /\ Line = rip.n /\ InHandler /\ InHandler'
  BY <1>1 DEF Line, InHandler
<1>3. RipOK'
  BY <1>1 DEF IInv, RipOK, Running, BootSteps, MainSteps, HandlerSteps
<1>4. BootOK'
  BY <1>1 DEF IInv, BootOK, HandlerBody, picVars, excVars, Running, BootSteps,
              MainSteps, HandlerSteps
<1>5. ServiceOK'
  BY <1>1, <1>2 DEF IInv, ServiceOK, HandlerBody, picVars, MasterLine, BootSteps,
                    MainSteps
<1>6. ByteOK'
  BY <1>1, <1>2 DEF IInv, ByteOK, HandlerBody, picVars
<1>7. StackOK'
  <2>1. RegisterFile(regs)'
    BY DEF RegisterFile, HandlerBody, Clobber
  <2>2. RegisterFile(before[3])'
    BY <1>1 DEF IInv, StackOK, HandlerBody, RegisterFile, HandlerSteps
  <2> QED
    BY <1>1, <2>1, <2>2 DEF IInv, StackOK, HandlerBody, BootSteps, MainSteps,
                            HandlerSteps
<1>8. WireOK' /\ OrderOK'
  <2>1. CASE rip.n = 1
    <3>1. obuf # NoCode
      BY <1>1, <1>2, <2>1 DEF IInv, ByteOK
    <3> QED
      BY <1>2, <2>1, <3>1, KeyboardHandlerOrder DEF IInv, HandlerBody
  <2>2. CASE rip.n # 1
    <3>1. UNCHANGED <<obuf, keyVars, wire, typed, before, got>>
      BY <2>2 DEF HandlerBody
    <3>2. WireOK' /\ Taken' = Taken
      BY <3>1 DEF IInv, WireOK, Taken
    <3> QED
      BY <1>2, <3>1, <3>2, HandlerKeepsOrder DEF IInv
  <2> QED
    BY <2>1, <2>2
<1>9. RestOK'
  <2>1. shift' \in BOOLEAN /\ caps' \in BOOLEAN
    BY DEF IInv, RestOK, HandlerBody, keyboard_handler, keyVars
  <2> QED
    BY <2>1 DEF IInv, RestOK, HandlerBody, picVars
<1> QED
  BY <1>3, <1>4, <1>5, <1>6, <1>7, <1>8, <1>9 DEF IInv

LEMMA SendEoiStep ==
  ASSUME IInv, SendEoi
  PROVE  IInv'
<1> DEFINE pics == IF rip.n >= 8 THEN {"slave", "master"} ELSE {"master"}
<1>1. EoiTo(pics)
  BY DEF SendEoi
<1>2. rip.at = "eoi" /\ rip' = [at |-> "iret", n |-> 0]
  BY <1>1 DEF EoiTo, At
<1>3. /\ Line = rip.n /\ rip.n \in 0 .. 15
      /\ InHandler /\ InHandler'
  BY <1>2 DEF IInv, RipOK, Line, InHandler
<1>4. RipOK'
  BY <1>2 DEF RipOK, Running, BootSteps, MainSteps, HandlerSteps
<1>5. BootOK'
  BY <1>1, <1>2 DEF IInv, BootOK, EoiTo, excVars, Running, BootSteps, MainSteps,
                    HandlerSteps
<1>6. ServiceOK'
  <2>1. \A x : EndOfInterrupt({}) = {} /\ EndOfInterrupt({x}) \subseteq {x}
    BY DEF EndOfInterrupt
  <2>2. \A x \in Int : EndOfInterrupt({x}) = {}
    BY DEF EndOfInterrupt
  <2>3. /\ isr \in [{"master", "slave"} -> SUBSET (0 .. 15)]
        /\ isr["master"] \subseteq {MasterLine(Line)}
        /\ isr["slave"] \subseteq {Line}
        /\ Line < 8 => isr["slave"] = {}
    BY <1>2 DEF IInv, ServiceOK
  <2>4. MasterLine(Line) \in Int /\ Line \in Int
    BY <1>3 DEF MasterLine
  <2>5. isr["master"] \in {{}, {MasterLine(Line)}} /\ isr["slave"] \in {{}, {Line}}
    BY <2>3
  <2>6. EndOfInterrupt(isr["master"]) = {} /\ EndOfInterrupt(isr["slave"]) = {}
    BY <2>1, <2>2, <2>4, <2>5
  <2>7. /\ isr' = [pic \in {"master", "slave"} |->
                     IF pic \in pics THEN EndOfInterrupt(isr[pic]) ELSE isr[pic]]
    BY <1>1, <2>3 DEF EoiTo
  <2>8. isr' = [pic \in {"master", "slave"} |-> {}]
    BY <1>3, <2>3, <2>6, <2>7
  <2> QED
    BY <1>2, <2>8 DEF ServiceOK, BootSteps, MainSteps
<1>7. ByteOK'
  BY <1>1, <1>2 DEF IInv, ByteOK, EoiTo, devVars
<1>8. StackOK'
  <2>1. RegisterFile(regs)' /\ RegisterFile(before[3])'
    BY <1>1, <1>2 DEF IInv, StackOK, EoiTo, RegisterFile, HandlerSteps
  <2> QED
    <3>1. rip.at = "eoi" /\ rip'.at = "iret" /\ UNCHANGED <<stack, before>>
      BY <1>1, <1>2 DEF EoiTo
    <3> QED
      BY <2>1, <3>1 DEF IInv, StackOK, BootSteps, MainSteps, HandlerSteps
<1>9. WireOK' /\ Taken' = Taken
  BY <1>1 DEF IInv, WireOK, Taken, EoiTo, devVars
<1>10. OrderOK'
  BY <1>1, <1>3, <1>9, HandlerKeepsOrder DEF IInv, EoiTo
<1>11. RestOK'
  BY <1>1 DEF IInv, RestOK, EoiTo, keyVars
<1> QED
  BY <1>4, <1>5, <1>6, <1>7, <1>8, <1>9, <1>10, <1>11 DEF IInv

\* iretq: the interrupted program is back, exactly as it was.
LEMMA IretBack ==
  ASSUME IInv, Iret
  PROVE  /\ regs' = before[3] /\ rip' = before[1] /\ intr_on' = TRUE
         /\ before = <<before[1], TRUE, before[3]>>
         /\ stack' = << >>
         /\ before[1] \in {At(place) : place \in MainSteps}
         /\ RegisterFile(before[3])
<1>1. PICK v \in IrqVectors :
        stack = Enter(CpuFrame(v, 0, before[1], TRUE), before[3], v)
  BY DEF IInv, StackOK, Iret
<1>2. /\ RegisterFile(before[3])
      /\ before \in {<<At(place), TRUE, before[3]>> : place \in MainSteps}
  BY DEF IInv, StackOK, Iret, HandlerSteps
<1>3. /\ before = <<before[1], TRUE, before[3]>>
      /\ before[1] \in {At(place) : place \in MainSteps}
  <2>1. PICK place \in MainSteps : before = <<At(place), TRUE, before[3]>>
    BY <1>2
  <2>2. before[1] = At(place)
    BY <2>1
  <2> QED
    BY <2>1, <2>2
<1>4. /\ Popped(stack) = before[3]
      /\ IretRip(Leave(stack)) = before[1]
      /\ IretFlag(Leave(stack)) = TRUE
      /\ SubSeq(Leave(stack), 6, Len(Leave(stack))) = << >>
  <2>1. RegisterFile(before[3])
    BY <1>2
  <2> QED
    BY <1>1, <2>1, IretRestores
<1> QED
  BY <1>2, <1>3, <1>4 DEF Iret

LEMMA IretStep ==
  ASSUME IInv, Iret
  PROVE  IInv'
<1>1. rip.at = "iret" /\ InHandler
  BY DEF Iret, InHandler
<1>2. /\ regs' = before[3] /\ rip' = before[1] /\ intr_on' = TRUE
      /\ stack' = << >>
      /\ before[1] \in {At(place) : place \in MainSteps}
      /\ RegisterFile(before[3])
  BY IretBack
<1>3. rip' \in [at : MainSteps, n : {0}]
  BY <1>2 DEF At
<1>4. RipOK'
  BY <1>3 DEF RipOK, Running, MainSteps
<1>5. BootOK'
  BY <1>1, <1>2, <1>3 DEF IInv, BootOK, Iret, picVars, excVars, Running, BootSteps,
                          MainSteps, HandlerSteps
<1>6. ServiceOK'
  BY <1>1, <1>3 DEF IInv, ServiceOK, Iret, picVars, MainSteps
<1>7. ByteOK'
  BY <1>1, <1>3 DEF IInv, ByteOK, Iret, picVars, devVars, MainSteps
<1>8. StackOK'
  <2>1. RegisterFile(regs)'
    BY <1>2 DEF RegisterFile
  <2> QED
    BY <1>2, <1>3, <2>1 DEF StackOK, MainSteps, HandlerSteps
<1>9. WireOK' /\ Taken' = Taken
  BY DEF IInv, WireOK, Taken, Iret, devVars
<1>10. OrderOK'
  <2>1. ~InHandler' /\ rip.at \in Running
    BY <1>1, <1>3 DEF InHandler, MainSteps, Running, HandlerSteps
  <2>2. MainRip' = MainRip /\ MainKey' = MainKey
    BY <1>1, <1>2, <2>1 DEF MainRip, MainRegs, MainKey
  <2> QED
    BY <1>9, <2>1, <2>2 DEF IInv, OrderOK, Iret, keyVars
<1>11. RestOK'
  BY DEF IInv, RestOK, Iret, picVars, keyVars
<1> QED
  BY <1>4, <1>5, <1>6, <1>7, <1>8, <1>9, <1>10, <1>11 DEF IInv

-----------------------------------------------------------------------------
(***************************************************************************)
(* Exceptions.                                                             *)
(***************************************************************************)

LEMMA RunningOrStopped ==
  ASSUME IInv
  PROVE  rip.at \in Running <=> ~Stopped
BY DEF IInv, RipOK, Running, Stopped, BootSteps, MainSteps, HandlerSteps

LEMMA StackIsStack ==
  ASSUME IInv, rip.at \in Running
  PROVE  IsStack(stack)
<1>1. CASE rip.at \in BootSteps \cup MainSteps
  <2>1. stack = << >>
    BY <1>1 DEF IInv, StackOK
  <2>2. << >> \in Seq({})
    OBVIOUS
  <2> QED
    BY <2>1, <2>2 DEF IsStack
<1>2. CASE rip.at = "irq"
  <2>1. stack = CpuFrame(rip.n, 0, before[1], TRUE) /\ rip.n \in IrqVectors
    BY <1>2 DEF IInv, StackOK, RipOK, IrqVectors
  <2> QED
    BY <2>1, IrqFrame
<1>3. CASE rip.at \in {"irq_handler", "eoi", "iret"}
  <2>1. PICK v \in IrqVectors :
          stack = Enter(CpuFrame(v, 0, before[1], TRUE), before[3], v)
    BY <1>3 DEF IInv, StackOK
  <2>2. IsStack(CpuFrame(v, 0, before[1], TRUE))
    BY IrqFrame
  <2> QED
    BY <2>1, <2>2, EnterWords
<1> QED
  BY <1>1, <1>2, <1>3 DEF Running, HandlerSteps

\* Wherever an exception comes, isr_handler reports it and the machine stops.
LEMMA ExceptionStep ==
  ASSUME IInv, ~Stopped, NEW vector \in 0 .. 31, Exception(vector)
  PROVE  IInv'
<1>1. rip.at \in Running /\ report = << >>
  BY RunningOrStopped DEF IInv, BootOK
<1>2. /\ rip' = [at |-> rip'.at, n |-> 0]
      /\ rip'.at \in {"halted", "reset"}
      /\ intr_on' = FALSE
      /\ UNCHANGED <<devVars, picVars, idt, regs, before, mode, keyVars, got,
                     raised>>
  BY DEF Exception, At
<1>3. cause' # << >>
  BY DEF Exception
<1>4. report' # << >> => report' = cause'
  <2>1. CASE idt
    <3>1. report' = IsrArguments(Enter(CpuFrame(vector, 7, Resume, intr_on) \o stack,
                                       regs, vector))
      BY <2>1 DEF Exception
    <3>2. report' = <<<<"vector", vector>>,
                      <<"error", IF vector \in CpuPushesError THEN 7 ELSE 0>>,
                      <<"rip", Resume>>>>
      BY <1>1, <3>1, StackIsStack, IsrArgumentsRight
    <3> QED
      BY <3>2 DEF Exception
  <2>2. CASE ~idt
    BY <1>1, <2>2 DEF Exception
  <2> QED
    BY <2>1, <2>2
<1>5. RipOK'
  BY <1>2 DEF RipOK, Running, BootSteps, MainSteps, HandlerSteps
<1>6. rip'.at \notin Running
  BY <1>2 DEF Running, BootSteps, MainSteps, HandlerSteps
<1>7. BootOK'
  BY <1>2, <1>3, <1>4, <1>6 DEF BootOK, Running
<1>8. ServiceOK'
  BY <1>2 DEF IInv, ServiceOK, picVars, BootSteps, MainSteps
<1>9. ByteOK'
  BY <1>2 DEF IInv, ByteOK, picVars, devVars
<1>10. StackOK'
  <2>1. RegisterFile(regs)'
    BY <1>2 DEF IInv, StackOK, RegisterFile
  <2> QED
    BY <1>2, <2>1 DEF StackOK, BootSteps, MainSteps, HandlerSteps
<1>11. WireOK' /\ Taken' = Taken
  BY <1>2 DEF IInv, WireOK, Taken, devVars
<1>12. OrderOK'
  BY <1>2, <1>6, <1>11 DEF IInv, OrderOK, keyVars
<1>13. RestOK'
  BY <1>2 DEF IInv, RestOK, picVars, keyVars
<1> QED
  BY <1>5, <1>7, <1>8, <1>9, <1>10, <1>11, <1>12, <1>13 DEF IInv

LEMMA UnchangedStep ==
  ASSUME IInv, UNCHANGED vars
  PROVE  IInv'
<1> USE DEF vars, devVars, picVars, cpuVars, keyVars, excVars
<1>1. RipOK' /\ BootOK' /\ RestOK'
  BY DEF IInv, RipOK, BootOK, RestOK
<1>2. ServiceOK' /\ ByteOK'
  BY DEF IInv, ServiceOK, ByteOK, Line, MasterLine
<1>3. StackOK'
  BY DEF IInv, StackOK, RegisterFile
<1>4. WireOK' /\ Taken' = Taken
  BY DEF IInv, WireOK, Taken
<1>5. OrderOK'
  BY <1>4, SameKeys DEF IInv
<1> QED
  BY <1>1, <1>2, <1>3, <1>4, <1>5 DEF IInv

-----------------------------------------------------------------------------
(***************************************************************************)
(* kernel_main and the main loop.                                          *)
(***************************************************************************)

\* What every instruction keeps.
LEMMA StepKeeps ==
  ASSUME IInv, NEW from \in BootSteps \cup MainSteps,
         NEW to \in BootSteps \cup MainSteps, Step(from, to)
  PROVE  /\ RipOK'
         /\ WireOK' /\ Taken' = Taken
         /\ rip.at = from /\ rip'.at = to
         /\ rip.at \in Running /\ rip'.at \in Running
         /\ ~InHandler /\ ~InHandler'
         /\ MainRip = rip /\ MainRip' = rip'
         /\ MainRegs = regs /\ MainRegs' = regs'
         /\ stack = << >> /\ stack' = << >>
         /\ isr["master"] = {} /\ isr["slave"] = {}
         /\ isr \in [{"master", "slave"} -> SUBSET (0 .. 15)]
         /\ report = << >> /\ UNCHANGED <<cause, report, obuf, shift, caps, before>>
         /\ raised' = {}
<1>1. rip.at = from /\ rip'.at = to /\ rip' = At(to)
  BY DEF Step, At
<1>2. from \notin HandlerSteps /\ to \notin HandlerSteps
  BY DEF BootSteps, MainSteps, HandlerSteps
<1>3. rip.at \in Running /\ rip'.at \in Running
  BY <1>1 DEF Running
<1>4. ~InHandler /\ ~InHandler'
  BY <1>1, <1>2 DEF InHandler, HandlerSteps
<1>5. RipOK'
  BY <1>1, <1>2, <1>3 DEF RipOK, At, HandlerSteps
<1>6. WireOK' /\ Taken' = Taken
  BY DEF IInv, WireOK, Taken, Step, devVars
<1>7. stack = << >> /\ stack' = << >>
  BY <1>1 DEF IInv, StackOK, Step
<1>8. /\ isr["master"] = {} /\ isr["slave"] = {}
      /\ isr \in [{"master", "slave"} -> SUBSET (0 .. 15)]
  BY <1>1 DEF IInv, ServiceOK
<1>9. report = << >>
  BY <1>3 DEF IInv, BootOK
<1> QED
  BY <1>1, <1>3, <1>4, <1>5, <1>6, <1>7, <1>8, <1>9
  DEF MainRip, MainRegs, Step, devVars, excVars

\* A boot step, and in fact every step that leaves the keys alone.
LEMMA BootKeepsKeys ==
  ASSUME IInv, NEW from \in (BootSteps \cup MainSteps) \ {"clear", "act"},
         NEW to \in (BootSteps \cup MainSteps) \ {"clear", "act"}, Step(from, to),
         UNCHANGED <<regs, last_key, got>>
  PROVE  OrderOK' /\ StackOK'
<1>1. OrderOK'
  <2>1. MainKey' = MainKey
    BY StepKeeps DEF MainKey
  <2> QED
    BY <2>1, StepKeeps DEF IInv, OrderOK
<1>2. StackOK'
  <2>1. RegisterFile(regs)'
    BY DEF IInv, StackOK, RegisterFile
  <2>2. to \notin HandlerSteps
    BY DEF BootSteps, MainSteps, HandlerSteps
  <2> QED
    BY <2>1, <2>2, StepKeeps DEF StackOK, HandlerSteps
<1> QED
  BY <1>1, <1>2

\* What boot has set up so far.
LEMMA BootProgress ==
  ASSUME IInv, NEW from \in BootSteps \cup MainSteps,
         NEW to \in (BootSteps \cup MainSteps) \ {"pic_init"}, Step(from, to),
         to \in MainSteps => intr_on' = TRUE,
         to \notin MainSteps => intr_on' = FALSE,
         base' = [master |-> 32, slave |-> 40],
         to # "idt_init" => idt' = TRUE
  PROVE  BootOK'
<1>1. /\ rip'.at = to /\ report' = << >>
      /\ to # "reset"
  <2>1. to # "reset"
    BY DEF BootSteps, MainSteps
  <2> QED
    BY <2>1, StepKeeps
<1>2. rip'.at \in Running \ {"pic_init", "idt_init"} => idt' = TRUE
  BY <1>1
<1>3. intr_on' \in BOOLEAN /\ (intr_on' <=> rip'.at \in MainSteps)
  BY <1>1
<1> QED
  BY <1>1, <1>2, <1>3 DEF BootOK

LEMMA BootStep ==
  ASSUME IInv, kernel_main
  PROVE  IInv'
<1> USE DEF picVars, BootSteps, MainSteps
<1>1. CASE pic_init
  <2>1. Step("pic_init", "idt_init") /\ UNCHANGED <<regs, last_key, got>>
    BY <1>1 DEF pic_init
  <2>2. BootOK'
    <3>1. rip.at = "pic_init"
      BY <2>1 DEF Step, At
    <3>2. base' = [master |-> 32, slave |-> 40]
      BY <1>1, <3>1 DEF pic_init, IInv, BootOK, Running
    <3>3. intr_on' = FALSE
      BY <1>1, <3>1 DEF pic_init, IInv, BootOK
    <3> QED
      BY <2>1, <3>2, <3>3, BootProgress
  <2>3. ServiceOK'
    BY <1>1, <2>1, StepKeeps DEF pic_init, ServiceOK
  <2>4. ByteOK'
    BY <1>1, <2>1, StepKeeps DEF pic_init, ByteOK
  <2>5. RestOK'
    BY <1>1, <2>1, StepKeeps DEF pic_init, IInv, RestOK
  <2> QED
    BY <2>1, <2>2, <2>3, <2>4, <2>5, StepKeeps, BootKeepsKeys DEF IInv
<1>2. CASE BootIdt
  <2>1. Step("idt_init", "keyboard_init") /\ UNCHANGED <<regs, last_key, got>>
    BY <1>2 DEF BootIdt
  <2>2. BootOK'
    <3>1. rip.at = "idt_init"
      BY <2>1 DEF Step, At
    <3>2. base' = [master |-> 32, slave |-> 40]
      BY <1>2, <3>1 DEF BootIdt, IInv, BootOK, Running
    <3>3. intr_on' = FALSE
      BY <1>2, <3>1 DEF BootIdt, IInv, BootOK
    <3>4. idt' = TRUE
      BY <1>2, <3>1 DEF BootIdt, IInv, BootOK, Running
    <3> QED
      BY <2>1, <3>2, <3>3, <3>4, BootProgress
  <2>3. ServiceOK'
    BY <1>2, <2>1, StepKeeps DEF BootIdt, ServiceOK
  <2>4. ByteOK'
    BY <1>2, <2>1, StepKeeps DEF BootIdt, IInv, ByteOK
  <2>5. RestOK'
    BY <1>2, <2>1, StepKeeps DEF BootIdt, IInv, RestOK
  <2> QED
    BY <2>1, <2>2, <2>3, <2>4, <2>5, StepKeeps, BootKeepsKeys DEF IInv
<1>3. CASE keyboard_init
  <2>1. Step("keyboard_init", "memory") /\ UNCHANGED <<regs, last_key, got>>
    BY <1>3 DEF keyboard_init
  <2>2. BootOK'
    <3>1. rip.at = "keyboard_init"
      BY <2>1 DEF Step, At
    <3>2. base' = [master |-> 32, slave |-> 40]
      BY <1>3, <3>1 DEF keyboard_init, IInv, BootOK, Running
    <3>3. intr_on' = FALSE
      BY <1>3, <3>1 DEF keyboard_init, IInv, BootOK
    <3>4. idt' = TRUE
      BY <1>3, <3>1 DEF keyboard_init, IInv, BootOK, Running
    <3> QED
      BY <2>1, <3>2, <3>3, <3>4, BootProgress
  <2>3. ServiceOK'
    BY <1>3, <2>1, StepKeeps DEF keyboard_init, ServiceOK
  <2>4. ByteOK'
    BY <1>3, <2>1, StepKeeps DEF keyboard_init, IInv, ByteOK
  <2>5. RestOK'
    BY <1>3, <2>1, StepKeeps DEF keyboard_init, IInv, RestOK
  <2> QED
    BY <2>1, <2>2, <2>3, <2>4, <2>5, StepKeeps, BootKeepsKeys DEF IInv
<1>4. CASE BootMemory
  <2>1. Step("memory", "sti") /\ UNCHANGED <<regs, last_key, got>>
    BY <1>4 DEF BootMemory
  <2>2. BootOK'
    <3>1. rip.at = "memory"
      BY <2>1 DEF Step, At
    <3>2. base' = [master |-> 32, slave |-> 40]
      BY <1>4, <3>1 DEF BootMemory, IInv, BootOK, Running
    <3>3. intr_on' = FALSE
      BY <1>4, <3>1 DEF BootMemory, IInv, BootOK
    <3>4. idt' = TRUE
      BY <1>4, <3>1 DEF BootMemory, IInv, BootOK, Running
    <3> QED
      BY <2>1, <3>2, <3>3, <3>4, BootProgress
  <2>3. ServiceOK'
    BY <1>4, <2>1, StepKeeps DEF BootMemory, ServiceOK
  <2>4. ByteOK'
    BY <1>4, <2>1, StepKeeps DEF BootMemory, IInv, ByteOK
  <2>5. RestOK'
    BY <1>4, <2>1, StepKeeps DEF BootMemory, IInv, RestOK
  <2> QED
    BY <2>1, <2>2, <2>3, <2>4, <2>5, StepKeeps, BootKeepsKeys DEF IInv
<1>5. CASE BootSti
  <2>1. Step("sti", "shell_init") /\ UNCHANGED <<regs, last_key, got>>
    BY <1>5 DEF BootSti
  <2>2. BootOK'
    <3>1. rip.at = "sti"
      BY <2>1 DEF Step, At
    <3>2. base' = [master |-> 32, slave |-> 40]
      BY <1>5, <3>1 DEF BootSti, IInv, BootOK, Running
    <3>3. intr_on' = TRUE
      BY <1>5, <3>1 DEF BootSti, IInv, BootOK
    <3>4. idt' = TRUE
      BY <1>5, <3>1 DEF BootSti, IInv, BootOK, Running
    <3> QED
      BY <2>1, <3>2, <3>3, <3>4, BootProgress
  <2>3. ServiceOK'
    BY <1>5, <2>1, StepKeeps DEF BootSti, ServiceOK
  <2>4. ByteOK'
    BY <1>5, <2>1, StepKeeps DEF BootSti, IInv, ByteOK
  <2>5. RestOK'
    BY <1>5, <2>1, StepKeeps DEF BootSti, IInv, RestOK
  <2> QED
    BY <2>1, <2>2, <2>3, <2>4, <2>5, StepKeeps, BootKeepsKeys DEF IInv
<1>6. CASE BootShell
  <2>1. Step("shell_init", "read") /\ UNCHANGED <<regs, last_key, got>>
    BY <1>6 DEF BootShell
  <2>2. BootOK'
    <3>1. rip.at = "shell_init"
      BY <2>1 DEF Step, At
    <3>2. base' = [master |-> 32, slave |-> 40]
      BY <1>6, <3>1 DEF BootShell, IInv, BootOK, Running
    <3>3. intr_on' = TRUE
      BY <1>6, <3>1 DEF BootShell, IInv, BootOK
    <3>4. idt' = TRUE
      BY <1>6, <3>1 DEF BootShell, IInv, BootOK, Running
    <3> QED
      BY <2>1, <3>2, <3>3, <3>4, BootProgress
  <2>3. ServiceOK'
    BY <1>6, <2>1, StepKeeps DEF BootShell, ServiceOK
  <2>4. ByteOK'
    BY <1>6, <2>1, StepKeeps DEF BootShell, IInv, ByteOK
  <2>5. RestOK'
    BY <1>6, <2>1, StepKeeps DEF BootShell, IInv, RestOK
  <2> QED
    BY <2>1, <2>2, <2>3, <2>4, <2>5, StepKeeps, BootKeepsKeys DEF IInv
<1> QED
  BY <1>1, <1>2, <1>3, <1>4, <1>5, <1>6 DEF kernel_main

\* Steps of the main loop keep the flag, the PICs and the byte.
LEMMA MainKeeps ==
  ASSUME IInv, NEW from \in MainSteps, NEW to \in MainSteps, Step(from, to),
         UNCHANGED <<picVars, idt, intr_on>>, mode' \in {"shell", "pause"},
         RegisterFile(regs)'
  PROVE  RipOK' /\ BootOK' /\ ServiceOK' /\ ByteOK' /\ StackOK' /\ WireOK' /\ RestOK'
<1>0. from \notin HandlerSteps /\ to \notin HandlerSteps
      /\ from \in Running \ {"pic_init", "idt_init"}
      /\ to \in Running \ {"pic_init", "idt_init"}
      /\ to # "reset" /\ from # "reset"
  BY DEF MainSteps, HandlerSteps, Running
<1>1. RipOK' /\ WireOK'
  BY StepKeeps
<1>2. BootOK'
  BY <1>0, StepKeeps DEF IInv, BootOK, picVars
<1>3. ServiceOK'
  BY <1>0, StepKeeps DEF ServiceOK, picVars, HandlerSteps
<1>4. ByteOK'
  BY <1>0, StepKeeps DEF IInv, ByteOK, picVars, HandlerSteps
<1>5. StackOK'
  BY <1>0, StepKeeps DEF StackOK, HandlerSteps
<1>6. RestOK'
  BY StepKeeps DEF IInv, RestOK, picVars
<1> QED
  BY <1>1, <1>2, <1>3, <1>4, <1>5, <1>6

\* REBOOT and SHUTDOWN: the key is the last one acted on.
LEMMA EnterHaltStep ==
  ASSUME IInv, EnterHalt
  PROVE  IInv'
<1>1. /\ rip.at = "act" /\ rip' = [at |-> "halted", n |-> 0]
      /\ intr_on' = FALSE /\ raised' = {} /\ got' = c.n /\ c.ch = "enter"
      /\ UNCHANGED <<devVars, stack, before, shift, caps, excVars, picVars, idt, regs,
                     mode, last_key>>
  BY DEF EnterHalt, Step, At
<1>2. rip.at \in Running /\ ~InHandler /\ rip'.at \notin Running
  BY <1>1 DEF Running, BootSteps, MainSteps, HandlerSteps, InHandler
<1>3. report = << >> /\ report' = report
  BY <1>1, <1>2 DEF IInv, BootOK, excVars
<1>4. RipOK'
  BY <1>1 DEF RipOK, Running, BootSteps, MainSteps, HandlerSteps
<1>5. BootOK'
  BY <1>1, <1>2, <1>3 DEF BootOK, Running
<1>6. ServiceOK'
  BY <1>1 DEF IInv, ServiceOK, picVars, BootSteps, MainSteps
<1>7. ByteOK'
  BY <1>1 DEF IInv, ByteOK, picVars, devVars
<1>8. StackOK'
  <2>1. RegisterFile(regs)'
    BY <1>1 DEF IInv, StackOK, RegisterFile
  <2> QED
    BY <1>1, <2>1 DEF StackOK, BootSteps, MainSteps, HandlerSteps
<1>9. WireOK' /\ Taken' = Taken
  BY <1>1 DEF IInv, WireOK, Taken, devVars
<1>10. OrderOK'
  <2>1. MainRip = rip /\ MainKey = c
    BY <1>2 DEF MainRip, MainKey, MainRegs, c
  <2>2. c # NoKey /\ c \in Keys
    BY <1>1, <1>2, <2>1 DEF IInv, OrderOK, NoKey
  <2>3. c.n \in 1 .. MAX_TYPED
    BY <2>2 DEF Keys
  <2>4. c.n <= Taken /\ (last_key # NoKey => c.n < last_key.n)
        /\ last_key \in Keys /\ last_key.n <= Taken
    BY <1>1, <1>2, <2>1, <2>2 DEF IInv, OrderOK
  <2> HIDE DEF c
  <2>5. got' \in 0 .. MAX_TYPED /\ got' <= Taken'
    BY <1>1, <1>9, <2>3, <2>4, MaxTypedAssumption
  <2> QED
    BY <1>1, <1>2, <1>9, <2>4, <2>5 DEF OrderOK
<1>11. RestOK'
  BY <1>1 DEF IInv, RestOK, picVars
<1> QED
  BY <1>4, <1>5, <1>6, <1>7, <1>8, <1>9, <1>10, <1>11 DEF IInv

\* keyboard_getchar and the action on its result keep the order of the keys,
\* wherever the last interrupt fell.
LEMMA MainLoopStep ==
  ASSUME IInv, MainStep
  PROVE  IInv'
<1> USE DEF MainSteps
<1>0. /\ "rax" \in Registers
      /\ RegisterFile(regs)
  <2>1. 1 \in DOMAIN Saved /\ Saved[1] = "rax"
    BY DEF Saved
  <2> QED
    BY <2>1 DEF Registers, IInv, StackOK
<1>k. NoKey.n = 0 /\ \A key \in Keys : key.n \in Nat
  BY MaxTypedAssumption DEF Keys, NoKey
<1>1. CASE GetcharRead
  <2>1. /\ Step("read", "clear") /\ UNCHANGED <<picVars, idt, intr_on, mode>>
        /\ regs' = [regs EXCEPT !["rax"] = <<"key", last_key>>]
        /\ UNCHANGED <<last_key, got>>
    BY <1>1 DEF GetcharRead
  <2>2. RegisterFile(regs)' /\ regs'["rax"] = <<"key", last_key>>
    BY <1>0, <2>1 DEF RegisterFile
  <2>3. mode' \in {"shell", "pause"}
    BY <2>1 DEF IInv, RestOK
  <2>4. MainKey' = last_key /\ MainRip'.at = "clear"
    <3>1. MainRegs' = regs' /\ MainRip' = rip' /\ rip'.at = "clear"
      BY <2>1, StepKeeps
    <3> QED
      BY <2>2, <3>1 DEF MainKey
  <2>5. OrderOK'
    BY <2>1, <2>4, StepKeeps DEF IInv, OrderOK
  <2> QED
    BY <2>1, <2>2, <2>3, <2>5, MainKeeps DEF IInv
<1>2. CASE GetcharClear
  <2>1. /\ Step("clear", "act") /\ UNCHANGED <<picVars, idt, intr_on, mode>>
        /\ last_key' = NoKey
        /\ UNCHANGED <<regs, got>>
    BY <1>2 DEF GetcharClear
  <2>2. RegisterFile(regs)'
    BY <1>0, <2>1 DEF RegisterFile
  <2>3. mode' \in {"shell", "pause"}
    BY <2>1 DEF IInv, RestOK
  <2>4. MainKey' = MainKey /\ MainRip'.at = "act" /\ MainRip.at = "clear"
    BY <2>1, StepKeeps DEF MainKey
  <2>5. NoKey \in Keys /\ NoKey.n <= Taken
    <3>1. got \in Nat /\ got <= Taken /\ Taken \in Int
      BY MaxTypedAssumption DEF IInv, OrderOK, WireOK, Taken
    <3>2. NoKey \in Keys
      BY DEF Keys
    <3> QED
      BY ONLY <3>1, <3>2, <1>k
  <2>6. OrderOK'
    BY <2>1, <2>4, <2>5, StepKeeps DEF IInv, OrderOK
  <2> QED
    BY <2>1, <2>2, <2>3, <2>6, MainKeeps DEF IInv
<1>3. CASE Act \/ EnterPause
  <2>1. PICK to \in {"hlt", "read"} :
          /\ Step("act", to) /\ UNCHANGED <<picVars, idt, intr_on, regs, last_key>>
          /\ got' = IF c # NoKey THEN c.n ELSE got
          /\ mode' \in {"shell", "pause"}
    <3>1. c.ch = "enter" => c # NoKey
      BY DEF NoKey
    <3> HIDE DEF c
    <3>2. CASE Act
      BY <3>2 DEF Act, IInv, RestOK
    <3>3. CASE EnterPause
      BY <3>1, <3>3 DEF EnterPause
    <3> QED
      BY <1>3, <3>2, <3>3
  <2>2. RegisterFile(regs)'
    BY <1>0, <2>1 DEF RegisterFile
  <2>3. /\ MainKey' = MainKey /\ MainRip'.at = to /\ MainRip.at = "act"
        /\ MainKey = c
    <3>1. /\ MainRegs' = regs' /\ MainRegs = regs /\ regs' = regs
          /\ MainRip' = rip' /\ MainRip = rip /\ rip'.at = to /\ rip.at = "act"
      BY <2>1, StepKeeps
    <3> QED
      BY <3>1 DEF MainKey, c
  <2>4. c \in Keys
    BY <2>1, <2>3, StepKeeps DEF IInv, OrderOK
  <2>5. OrderOK'
    <3>1. CASE c = NoKey
      BY <2>1, <2>3, <3>1, StepKeeps DEF IInv, OrderOK
    <3>2. CASE c # NoKey
      <4>1. c.n \in 1 .. MAX_TYPED
        BY <2>4, <3>2 DEF Keys
      <4>2. c.n <= Taken /\ (last_key # NoKey => c.n < last_key.n)
        BY <2>1, <2>3, <3>2, StepKeeps DEF IInv, OrderOK
      <4>3. /\ got' = c.n /\ last_key' = last_key /\ MainKey' = c
            /\ MainRip'.at \notin {"clear", "act"} /\ Taken' = Taken
        BY <2>1, <2>3, <3>2, StepKeeps
      <4> HIDE DEF c
      <4>4. got' \in 0 .. MAX_TYPED /\ got' <= Taken'
        BY <4>1, <4>2, <4>3, MaxTypedAssumption
      <4>5. /\ last_key' \in Keys /\ last_key'.n <= Taken'
            /\ last_key' # NoKey => got' < last_key'.n
        BY <4>2, <4>3 DEF IInv, OrderOK
      <4> QED
        BY <2>4, <4>3, <4>4, <4>5 DEF OrderOK
    <3> QED
      BY <3>1, <3>2
  <2> QED
    BY <2>1, <2>2, <2>5, MainKeeps DEF IInv
<1>4. CASE Hlt
  <2>1. /\ Step("hlt", "asleep")
        /\ UNCHANGED <<picVars, idt, intr_on, regs, mode, last_key, got>>
    BY <1>4 DEF Hlt
  <2>2. RegisterFile(regs)' /\ mode' \in {"shell", "pause"}
    BY <1>0, <2>1 DEF RegisterFile, IInv, RestOK
  <2> QED
    BY <2>1, <2>2, MainKeeps, BootKeepsKeys DEF IInv
<1>5. CASE EnterHalt
  BY <1>5, EnterHaltStep
<1> QED
  BY <1>1, <1>2, <1>3, <1>4, <1>5 DEF MainStep

-----------------------------------------------------------------------------
(***************************************************************************)
(* The theorems.                                                           *)
(***************************************************************************)

LEMMA NextInv == IInv /\ [Next]_vars => IInv'
<1> SUFFICES ASSUME IInv, [Next]_vars PROVE IInv'
  OBVIOUS
<1>1. ASSUME NEW sc \in Codes, Type(sc) PROVE IInv'
  BY <1>1, TypeStep
<1>2. CASE KbcLoad
  BY <1>2, KbcLoadStep
<1>3. ASSUME NEW irq \in Devices, Raise(irq) PROVE IInv'
  BY <1>3, RaiseStep
<1>4. CASE TakeInterrupt
  BY <1>4, AcceptStep, AcceptSpuriousStep DEF TakeInterrupt
<1>5. CASE NonMaskable
  BY <1>5, ExceptionStep DEF NonMaskable
<1>6. ASSUME NEW vector \in Faults, Fault(vector) PROVE IInv'
  <2>1. vector \in 0 .. 31
    BY FaultsAssumption
  <2>2. ~Stopped /\ Exception(vector)
    BY <1>6 DEF Fault, Stopped
  <2> QED
    BY <2>1, <2>2, ExceptionStep
<1>7. CASE HandlerStep
  BY <1>7, IrqStubStep, HandlerBodyStep, SendEoiStep, IretStep DEF HandlerStep
<1>8. CASE kernel_main
  BY <1>8, BootStep
<1>9. CASE MainStep
  BY <1>9, MainLoopStep
<1>10. CASE HaltLoop \/ UNCHANGED vars
  BY <1>10, UnchangedStep DEF HaltLoop
<1> QED
  BY <1>1, <1>2, <1>3, <1>4, <1>5, <1>6, <1>7, <1>8, <1>9, <1>10 DEF Next

\* The inductive invariant holds in every reachable state.
THEOREM Invariant == Spec => []IInv
BY InitInv, NextInv, PTL DEF Spec

\* The types of the devices, the PICs, the CPU and the driver's variables.
THEOREM TypeCorrect == Spec => []TypeOK
<1>1. IInv => TypeOK
  BY DEF IInv, TypeOK, RipOK, BootOK, ServiceOK, WireOK, OrderOK, RestOK,
         Running, HandlerSteps
<1> QED
  BY <1>1, Invariant, PTL

\* keyboard_handler reads port 0x60 only when a byte is there, whatever other
\* interrupts, spurious ones included, come before it.
THEOREM NeverAStaleByte == Spec => []ByteForEveryIrq
<1>1. IInv => ByteForEveryIrq
  BY DEF IInv, ByteOK, Line, ByteForEveryIrq
<1> QED
  BY <1>1, Invariant, PTL

\* Every handler has told the right PICs that it is done, and interrupts are
\* on again, before the main loop goes on.
THEOREM ServiceEnds == Spec => []NothingLeftInService
<1>1. IInv => NothingLeftInService
  BY DEF IInv, BootOK, ServiceOK, NothingLeftInService
<1> QED
  BY <1>1, Invariant, PTL

\* isr_handler finds the vector, the error code and the instruction where it
\* looks for them on the stack, for every exception, wherever it happens: in
\* boot, in the main loop or in an interrupt handler.
THEOREM ReportIsTrue == Spec => []ReportsCause
<1>1. IInv => ReportsCause
  BY DEF IInv, BootOK, ReportsCause
<1> QED
  BY <1>1, Invariant, PTL

\* Interrupts are on only when every line of the PICs leads to its stub: no
\* interrupt resets the machine or is taken for an exception.
THEOREM NoIrqBeforeItsStub == Spec => []IrqsReachStub
<1>1. IInv => IrqsReachStub
  BY DEF IInv, RipOK, BootOK, IrqsReachStub, Running, BootSteps, MainSteps,
         HandlerSteps
<1> QED
  BY <1>1, Invariant, PTL

\* Keys are acted on once and in the order they were typed, wherever the
\* interrupts fall between the two instructions of keyboard_getchar.
THEOREM KeysInOrder == Spec => InOrderOnce
<1>1. IInv => (rip.at = "act" /\ rip'.at \in {"hlt", "read", "halted"} /\ c # NoKey
                => c.n > got)
  <2> SUFFICES ASSUME IInv, rip.at = "act", c # NoKey PROVE c.n > got
    OBVIOUS
  <2>1. rip.at \in Running /\ MainRip = rip /\ MainKey = c
    BY DEF Running, MainSteps, MainRip, MainKey, MainRegs, InHandler, c
  <2>2. got < MainKey.n
    BY <2>1 DEF IInv, OrderOK
  <2> QED
    BY <2>1, <2>2
<1> QED
  BY <1>1, Invariant, PTL DEF InOrderOnce

\* A handler gives the interrupted program back its place, its flag, its
\* registers and its stack.
THEOREM HandlersAreTransparent == Spec => ResumesExactly
<1> DEFINE Good == (InHandler /\ rip'.at \in MainSteps)
                     => <<rip', intr_on', regs'>> = before /\ stack' = << >>
<1>1. ASSUME IInv, [Next]_vars PROVE Good
  <2> SUFFICES ASSUME InHandler, rip'.at \in MainSteps
               PROVE  <<rip', intr_on', regs'>> = before /\ stack' = << >>
    OBVIOUS
  <2>1. rip' # rip
    BY DEF InHandler, MainSteps
  <2>2. ~UNCHANGED cpuVars
    BY <2>1 DEF cpuVars
  <2>3. ~KbcLoad /\ \A sc \in Codes : ~Type(sc)
    BY <2>2 DEF KbcLoad, Type
  <2>4. \A irq \in Devices : ~Raise(irq)
    BY <2>2 DEF Raise
  <2>5. ~TakeInterrupt
    <3>1. ~intr_on
      BY <1>1 DEF IInv, BootOK, InHandler, MainSteps
    <3> QED
      BY <3>1 DEF TakeInterrupt, Accept, AcceptSpurious
  <2>6. ~NonMaskable /\ \A vector \in Faults : ~Fault(vector)
    BY DEF NonMaskable, Fault, Exception, At, MainSteps
  <2>7. ~IrqStub /\ ~HandlerBody /\ ~SendEoi
    <3>1. ~HandlerBody
      BY <1>1 DEF HandlerBody, MainSteps, IInv, RipOK
    <3> QED
      BY <3>1 DEF IrqStub, SendEoi, EoiTo, At, MainSteps
  <2>8. ~kernel_main /\ ~MainStep
    BY DEF kernel_main, MainStep, Step, At, InHandler, pic_init, BootIdt,
           keyboard_init, BootMemory, BootSti, BootShell, GetcharRead,
           GetcharClear, Act, EnterPause, EnterHalt, Hlt
  <2>9. ~UNCHANGED vars
    BY <2>2 DEF vars
  <2>10. Iret
    BY <1>1, <2>3, <2>4, <2>5, <2>6, <2>7, <2>8, <2>9 DEF Next, HandlerStep, HaltLoop
  <2> QED
    BY <1>1, <2>10, IretBack
<1> QED
  BY <1>1, Invariant, PTL DEF Spec, ResumesExactly

=============================================================================
