# KOS: TLA+ models, checks and proofs

KOS is a small x86_64 kernel: Multiboot2 boot, interrupts through two 8259
PICs, a PS/2 keyboard, a VGA text console, a bitmap page allocator, a
first-fit heap, the CMOS clock, and a shell that runs as the kernel's only
thread. This directory models what the kernel does from `kernel_main` on (and
`vmm.cpp`, which is in the tree but not linked), checks it with TLC on small
instances, and proves the safety properties of all parts with TLAPS for all
instances. `PROJECT.json` maps every definition to its source lines.

## The system and its parts

| Part | Source (`src/kernel/`) | State | Operations | Talks to |
|---|---|---|---|---|
| Page allocator | `pmm.cpp` | bitmap, `bitmap_size`, `total_pages`, `free_pages`, `max_memory` | `pmm_init`, `pmm_alloc_page`, `pmm_free_page`, statistics | Multiboot2 map; called by the heap and MEM |
| Heap | `heap.cpp` | list of headers, `total_allocated`, `total_freed` | `heap_init`, `kmalloc`, `expand_heap`, `kfree`, statistics | page allocator |
| Interrupts | `interrupts.cpp/.asm`, `pic.cpp`, `idt.cpp` | PIC registers, descriptor table, interrupt flag, saved registers on the stack | `pic_init`, `idt_init`, stubs, `irq_handler`, EOI; `isr_handler` reports and halts | keyboard driver; interrupts everything |
| Keyboard | `keyboard.cpp` | `last_key`, `shift`, `caps` | `keyboard_handler` (interrupt), `keyboard_getchar` (main loop) | port 0x60; shared `last_key` |
| Console | `kernel.cpp` | 80x25 cells, cursor | `vga_putchar`, scroll, clear, title, separator | everybody prints |
| Shell | `shell.cpp` | line, history, colours, pipe buffer, capture flag | one key at a time; 12 commands; one pipe | keyboard, console, clock, statistics |
| Clock | `rtc.cpp` | none; the chip's registers | `rtc_read_datetime` | CMOS ports |
| Boot | `kernel.cpp`, `boot.asm` | page tables for 16 MB | init calls in order, `sti`, shell | all |
| VMM | `vmm.cpp` | page tables, `kernel_pml4`, CR3 | `vmm_init`, `vmm_map_page` | page allocator; not linked, never called |

What is hard here. The shell and the interrupt handlers share `last_key`
without a lock, and the main loop sleeps in `hlt` after it has polled. The PICs
block lines until they are told the right thing; interrupts, spurious ones too,
fall between any two instructions and must leave no trace in the interrupted
code; a stub that disagrees with the CPU about the error code reports the wrong
exception. Boot must have the PICs and the table ready before `sti`. The clock runs while its
registers are read. `pmm_init` must make its counter and its bitmap agree for
any memory map, at any alignment, above the capacity of its static bitmap. The
heap grows by frames that need not be adjacent, retries, and can fail half
way; so can the mapping of a page, which allocates up to three tables. The
editor redraws by counting characters. Nothing persists, so there is
no crash recovery to speak of, and there is one processor. `PROJECT.json` lists
these hazards at their lines, with the properties that look at them.

What makes each part correct:

- page allocator: the counter is the number of clear bits; the pool is the
  usable RAM, nothing more or less; a frame has one holder; 0 means empty;
- heap: blocks are disjoint and inside frames the heap owns; bytes are
  conserved; null only when there is no room; `kmalloc` returns;
- input: a keyboard interrupt has its byte; every service is ended; keys are
  acted on in order and at most once; a waiting key is always polled;
- interrupts: the interrupted program resumes exactly; an exception is
  reported as it happened; no interrupt comes before it can be handled;
- VMM: every page translates to what was asked for it and nothing else
  changes, also when a call fails half way; no table is lost;
- console: the cursor stays on the screen below the title; the screen is the
  tail of the text;
- shell: the screen shows the line Enter runs; history; capture ends with the
  first half of the pipe; numbers read back as their values;
- clock: the result is one time the clock showed.

## Modules

| Module | Models | Notes |
|---|---|---|
| `PagePool` | what `pmm.cpp` promises | abstract: free and held frames |
| `Pmm` | `pmm.cpp` | `pc` names the loop of `pmm_init`, a step is an iteration; the bitmap is the set of 1 bits; `allocated` is a history variable |
| `Allocator` | what `heap.h` promises | abstract: the heap's memory and the pointers clients hold |
| `Heap` | `heap.cpp` | implements `Allocator`; extends `PagePool`, so it uses the specification `Pmm` implements; `hpc` is the place in `kmalloc`/`expand_heap` |
| `Interrupts` | `idt.cpp`, stubs of `interrupts.asm` | operators: the descriptor table, what is pushed, saved, passed and restored |
| `Input` | `kernel_main`, `keyboard.cpp`, `interrupts.cpp`, `pic.cpp`, loops of `shell_run`, `cmd_pause` | boot and main loop one step at a time, with `Interrupts`; devices, PICs and CPU are external |
| `Vmm` | `vmm.cpp` | extends `PagePool`; an allocation is a step; the CPU's translation is `Walk` |
| `Vga` | drawing functions of `kernel.cpp` | operators from screen to screen, no variables |
| `Console` | the console under any calls | `log` is the whole text (history variable) |
| `LineEditor` | `shell_run`'s keys, history, completion | draws with `Vga` |
| `Format` | `print_num`, `format_size`, `vga_print_hex`, `hex_to_int` | operators on digits |
| `Commands` | `execute_command` and the commands | texts are sequences of items; numbers carry their digits, made with `Format`, and the value they were made from |
| `Rtc` | `rtc.cpp` | clock chip external; time counts register accesses |
| `PmmProofs`, `HeapProofs`, `InputProofs`, `VmmProofs`, `ConsoleProofs`, `LineEditorProofs`, `CommandsProofs`, `RtcProofs` | | TLAPS proofs about the module each is named after |

`MC*` modules hold the constants for TLC. Definitions that begin with a
comment `Mutant:` are faulty variants of the definition that follows; they are
used by nothing and serve to show that each property can fail.

### Correspondence worth knowing

- **Pmm.** Entries of all memory-map tags form one sequence; walking the tags
  is abstracted. Usable entries do not overlap (`MemoryMapsAssumption`), as
  Multiboot2 guarantees. `pmm_free_page` is called for a held frame, a frame
  that is free already, or out of range; freeing what somebody else holds
  breaks the interface, and the code cannot notice.
- **Heap.** A header is in `blocks` while it is in the list. `WORD` is where
  unsigned arithmetic wraps. A header written into a frame at or above
  `MAPPED` is a page fault, after which `isr_handler` halts ("halted"). If
  `heap_init` gets no frame, `heap_start` stays null and the first `kmalloc`
  walks from the null pointer ("wild"; nothing is claimed beyond that).
  `ClientStore` is a client that fills the whole block it was given.
- **Input.** `rip` is the next instruction of `kernel_main`, of the main loop or
  of a handler. `keyboard_getchar` is two instructions; `last_key` is not
  volatile but the function is in another translation unit, so each call reads
  and writes memory, and its result stays in `rax` until the loop acts on it. A
  pending interrupt is taken before the next instruction. Handlers run with
  interrupts off (interrupt gates and `cli`), so they are not nested, but
  devices go on, and a non-maskable interrupt may come inside one. Registers
  hold symbolic values: what the main loop put there, or junk after a C++
  function that need not keep them. A device whose line drops before it is
  acknowledged causes a spurious interrupt, line 7 of the PIC concerned.
  `pic_init` resets the edge of every line: a byte already in the keyboard
  controller then blocks it for good, and `stuck` remembers that.
  A line that is entered may start PAUSE, or end in the halt of REBOOT and
  SHUTDOWN (`EnterHalt`); all other commands return to the loop.
- **Exceptions.** The stub, `isr_common_stub` and `isr_handler` are one step,
  since they end in a halt and nothing interrupts them. Before `lidt` an
  exception resets the machine. Faults happen in the memory managers at boot
  and in commands; which instruction is at fault is not modelled. Vectors above
  20 are raised only by features the kernel does not turn on.
- **Vmm.** A page is its four table indices, an address a frame number.
  `vmm_init` runs on the 16 MB that `boot.asm` maps; a table in a frame beyond
  them faults in `alloc_page_table` ("halted"). After a failed `vmm_init` the
  root may be null ("wild"). `vmm_map_page` does not look at the huge bit: for a
  page inside the first 16 MB it descends into the huge page and stores the new
  entry there (`smashed`); if one of its own tables lies there, the store hits
  it. `TranslationExact` is about the calls outside.
- **Console.** `draw_separator` lacks the scroll check of `vga_putchar`;
  `kernel_main` calls it on rows 2, 4 and 21 only, which is its guard here.
- **LineEditor.** A command's effect on the screen is some output, or CLS.
- **Commands.** Sleep enable is bit 13 of the ACPI control register; `outb`
  in `shell.cpp` takes a `uint8_t`. `Readings` are what the memory managers, the
  clock and `cpuid` answer; free memory never exceeds the total, which follows
  from `FreeCount`. Sizes are real bytes and units real powers of
  1024. `chosen` remembers the colours as they were typed.
- **Rtc.** The chip announces an update at least 244 microseconds ahead; the
  model has `LEAD` accesses, the call needs six of them after the poll and may
  lose `STEAL` to interrupts. `TimingAssumption` says that this fits. It is an
  assumption about the hardware: a port access takes about one microsecond.

## Runs

Passing:

| Run | Instance | Shows |
|---|---|---|
| `pmm` | frames of 4 bytes, a 1-byte bitmap, 2 reserved frames, all maps of up to two entries from `MCPmm` | counter exact, pool conserved, one holder, 0 means empty, refinement of `PagePool` |
| `heap` | pages of 10 bytes, headers of 3, alignment 2, three pools: empty, all mapped, last frame unmapped; sizes that fit in a page block, one that does not, and three near the end of the word | blocks disjoint and owned, bytes conserved, no false corruption alarms, null only without room, termination, refinement of `Allocator` |
| `input` | boot and main loop; three scan codes of three classes, timer, one slave device, spurious interrupts, NMI, a fault with and one without error code | exact resumption, causes reported, interrupts only when they can be handled, order, service ended, keyboard alive, keys polled |
| `console` | 4 rows, 2 columns, 5 rows of text between clears | cursor, title, tail of the text |
| `editor` | 3 rows, 6 columns, 9 keys, lines of 6, history of 2 | screen shows the line, history, browsing |
| `commands` | all commands and all pairs, COLOR with good, bad, one and no argument, two sets of readings, a buffer smaller than HELP's output (the kernel's 4096 bytes are never filled) | capture scoped, both halves shown, numbers read back, colours shown as typed |
| `vmm` | tables of 4 entries, 2 huge pages, six pools (dry at each allocation of `vmm_init`, in `vmm_map_page`, unmapped frames, enough), five pages that share all, some or no tables | translation exact, tables form a tree |
| `rtc` | four dates at the turn of year, month, noon and hour; BCD and binary | no torn reads, real time returned |

Where a run says `CHECK_DEADLOCK FALSE` the system may stop: the heap after a
fault, the VMM after a fault or a null root, the commands after REBOOT or
SHUTDOWN, and the editor and the clock when the bound on keys or seconds is used
up.

Violations, each a statement of the repository that the code does not keep:

| Run | Statement | What happens |
|---|---|---|
| `heap_hole` | `heap.cpp:14`, size is usable memory | `kfree` joins blocks on both sides of a hole in physical memory |
| `heap_large` | `heap.cpp:118,123`, expand and try again | pages are added as separate blocks; a request above 4064 bytes fits none and drains the pool |
| `input_pause` | `shell.cpp:367`, "Press any key" | a key between the read and the clear of `last_key` is lost |
| `rtc_twelve` | `rtc.cpp:55`, 12 to 24 hours | the PM bit is destroyed by the BCD conversion; 12 o'clock is wrong |

More disagreements, modelled but without a run of their own:

- SHUTDOWN (`shell.cpp:198`, "Power off (ACPI)"): 0x2000 and 0x3400 pass through
  an `outb` that takes a `uint8_t`, so sleep enable is never written and the
  machine halts powered on, after "ACPI shutdown failed" (`cmd_shutdown` in
  `Commands`).
- `pmm_get_total_memory` and `pmm_get_free_memory` return bytes where
  `pmm.h:18` says KB (the caller divides).
- The seven largest sizes are aligned to 0 by `align_size` (`heap.cpp:54` wraps).
  `kmalloc` answers them with a block without bytes; where no block is free it
  expands the heap by a page and then returns null, since the call it makes with
  the aligned size stops at the test for 0 (`heap.cpp:84`). Run `heap` makes such
  calls; `HeldBlocks` and `ImplementsAllocator` except their pointers and
  `NullMeansNoRoom` their failure, and no other pointer is disturbed. Slightly
  smaller sizes
  wrap in the argument of `expand_heap` only: each retry adds one page until no
  frame is left, and `kmalloc` returns null (run `heap`). Below those is a range
  of about a page (aligned size + 25 above 2^64 - 4096) whose number of pages
  wraps to 0 at `heap.cpp:59`: `expand_heap` adds nothing and reports success,
  and `kmalloc` calls itself without end. `KmallocReturns` excepts them, in its
  statement; run `heap` makes such a call too.
- In `DATE | ...` and `TIME | ...` the digits are printed by `print_num`
  (`shell.cpp:89`), which ignores the capture, before the text around them;
  `PipeShowsBoth` excepts them.
- `vmm_map_page` (`vmm.h:16`, "Map a virtual address to a physical address")
  returns true for a page inside the first 16 MB without mapping it.
  `PAGE_USER` never takes effect, since the entries above the page's own lack
  it. `vmm_init` reports a failure on the screen only; `vmm_get_physical`
  returns 0 for every page (`vmm.h:22`).
- `keyboard_init` does not read a byte that is waiting in the controller, and
  the keyboard stays silent then; `KeyboardAlive` excepts that case.

### Bounds and why they are enough

The properties depend on relations between sizes, and the instances keep them:
in `heap` a page block is not a multiple of the alignment (as 4096 - 25), some
remainders are too small to split, one request is larger than a page, and three
are so large that a step of the arithmetic wraps around: the rounding, the bytes
to add, or the number of pages. Three frames allow expansion in the middle of a
fragmented list. In `pmm` maps exceed the bitmap, entries start or end inside
frames, and the reserved range lies inside and outside the bitmap. In `input`
two keys suffice for the race and a third for what comes after it; one device
outranks the keyboard and one is on the slave, so that both PICs, their cascade
and both kinds of spurious interrupts are met; the three classes of codes are
those that differ for `last_key` (a key, one that erases it, one that leaves
it). Non-maskable interrupts and faults stop the machine, so one is enough. In
`vmm` four table levels are kept and each has room for a second table; the pools
end at every allocation. In `commands` sizes lie on both sides of each unit. In
`console` and `editor` text scrolls several times and lines meet the right edge
and the end of the buffer. Bounds on counters are constants: `MAX_TYPED`,
`MAX_LOG`, `MAX_KEYS`, `MAX_UPDATES`.

### Fairness

`Heap`: weak fairness of the steps inside a call; a loop of straight-line code
goes on until it returns. Clients need not call. `Input`: the processor
executes, the PIC delivers, the keyboard controller sends what it holds, and
the timer ticks: the BIOS leaves it running, `pic_init` unmasks every line
and nothing stops it. Nobody has to type.

## Proofs

`PmmProofs` proves, for every page size, bitmap size, reserved range (not
empty) and every set of memory maps whose usable entries are disjoint:

- `TypeCorrect`, `FreeCountExact`, `HeldFramesExclusive`, `FramesConserved`:
  the invariants of run `pmm`;
- `ZeroIsOutOfMemory`: the action property;
- `Refinement`: `Spec` implements `PagePool`.

The argument rests on one inductive invariant, `IInv` (theorem `Invariant`).
`FreeCount` alone is not inductive: when `ClearPage` increments the counter one
must know that the bit was set, that is, that no earlier entry and no earlier
iteration cleared it. So `IInv` says which bits are clear at each point of
`pmm_init`: those of the frames of the entries passed, and of the current
entry below `p`, less the reserved frames below `p` in the last loop. That two
entries do not claim one frame although both ends are rounded is arithmetic on
`StartPage` and `PageCount`, proved in lemmas of its own from
`DisjointUsable`. Cardinality steps use `FiniteSetTheorems`.

`RtcProofs` proves `RegistersBelongTogether` (`NoTornRead`, in every format)
and, if every format is a 24-hour one, `TimeIsReal` (`DateTimeIsReal`). The
invariant counts time: from the end of the poll, time to the next update plus
registers read plus time stolen is at least `LEAD`; with `TimingAssumption` no
update can come before the sixth register is read. That `bcd_to_binary` inverts
the chip's encoding for 0 to 99 is a lemma.

`ConsoleProofs` proves `CursorStays`, `TitleStays` and `ScreenShowsTail` for
every screen size. `vga_putchar` first writes and moves, then scrolls, so the
invariant (`Good`) is stated for the moment in between, when the cursor may be
one row below the screen and the last row of the text is blank. Lemmas say what
writing into a row, going to the next one, moving and scrolling do to it; each
branch of `vga_putchar`, `draw_separator` and CLS is a combination of them.

`HeapProofs` proves, for every page, header, block and alignment size and every
pool: `TypeCorrect`, `BlocksDisjoint`, `AlarmsAreReal` (`NoFalseAlarm`),
`NullIsHonest` (`NullMeansNoRoom`), `OneExpansionSuffices` (`ExpandSuffices`),
`BlocksHeld` (`HeldBlocks`) and `EveryByteCounted` (`BytesConserved`) without
further hypotheses, for every set of requests. `MemoryUsable` (`UsableMemory`)
and `HeapRefinesAllocator` (`ImplementsAllocator`) are proved for pools that have
no hole (`NoHoles`): run `heap_hole` shows that the code needs it. Where the
sizes that `align_size` rounds up to 0 are different, the properties say so
(`Alignable`, `want # 0`).

The disjointness of blocks is not inductive, because `kfree` joins a block with
its successor in the list: the invariant says that the list is in the order of
the addresses, each block ending before the next begins, that `heap_start` is
its first block, and that every block lies between frames of the heap.
`PagePool` hands out the lowest free frame, so a new page goes behind the last
block. For `kmalloc` it says that the blocks before `current` do not suit, and
what `expand_heap` has added so far. `WordAssumption` (mapped memory is far
below 2^64) makes the sums of `CanSplit` exact wherever they matter.

The statistics are a second invariant (`BytesOK`) on top of this one: there are
functions `F` and `U` that give the free and the used bytes from each block to
the end of the list, `U` at `heap_start` is `total_allocated - total_freed`, and
`F`, `U` and the headers add up to the frames. Taking, splitting, freeing,
joining and appending a block change these sums only in front of it, by a fixed
amount, so each step shifts them there. The sums decrease along the list, hence
a block in use is never larger than `used`, nor a free one than what is left of
the frames, and the count of used bytes wraps around neither in `kmalloc` nor in
`kfree`. `heap_get_free`, a recursive walk, returns `F` at `heap_start`, since
the first place counted from the end of the list where the two differ would
contradict the recursion.

`InputProofs` proves the seven safety properties of run `input` for every set of
devices, scan codes and faults and any number of keys. The invariant ties the
place of the CPU to the rest of the machine: interrupts are on exactly in the
main loop; at most the line whose handler runs is in service; the stack is the
interrupted program's frame and what the stub pushed; a raised IRQ1 has its
byte. For the order of keys it is a chain: the byte in port 0x60, `last_key`,
the result in `rax` (saved on the stack during a handler) and the last key
acted on were typed in decreasing order.

`VmmProofs` proves `PagesTranslateAsAsked` (`TranslationExact`) and
`TablesStayATree` (`TablesFormTree`) for tables of any size, any number of huge
pages, any pool and any calls. The invariant gives each table a place, its level
and the indices that lead to it from the root: no two tables have the same
place, a present entry leads to the table in the place below, each table but
the root is led to, tables of the last level hold what was asked, and the walk
of a running call is at the place its page leads to. That `vmm_map_page`
disturbs no other page then follows, since another page's way to the same entry
is the same page. The number of links is counted by a bijection with the
tables other than the root.

`LineEditorProofs` proves the four properties of run `editor` for every screen,
prompt, history and buffer size. The invariant describes the screen as the
drawing functions of `Vga` leave it: the row of the cursor is the prompt and
the line, the rows below are blank; `vga_putchar`, its backspace, `clear_line`
and the redrawing of a history entry keep it.

`CommandsProofs` proves the five properties of run `commands` for every buffer
size, all command lines and all readings. The invariant says where
`execute_command` is and what the flag, the buffer and the screen then hold of
each half, that every number of the screen and the buffer reads back, and that
the colours are those typed. Behind it are lemmas about `Format`: the digits
`print_num` makes stand for the number it was given, padding keeps the value,
and `format_size` picks the largest unit the size reaches.

What recursive functions compute (`Items`, `Digits`, `Value`, `vga_print`,
`heap_get_free`) is
proved by induction in the form of a least counterexample (`NatMin`, from the
well-foundedness of the naturals): the induction rules of the library take an
operator, which the provers cannot instantiate.

Only model-checked: liveness (`KmallocReturns`, `KeyboardAlive`, `KeyPolled`),
since the prover has no fairness.

## Not modelled

- `boot.asm` before `kernel_main`: straight-line code that checks for long mode
  and sets it up. What it leaves, 16 MB mapped and interrupts off, is where the
  modules start.
- Walking the Multiboot2 tags; the fields of a descriptor-table entry; colours
  of cells on the screen; the wording of texts.
- `pic_send_eoi`, `vmm_unmap_page`, `vmm_get_physical`: no caller, the last two
  without a body. `pic_mask_irq`, `pic_unmask_irq` and `interrupts_init` are
  declared only.
- The screen while an exception interrupts a drawing function: `isr_handler`
  prints with the cursor it finds.

## Plan

Done: the modules above, their runs, and the proofs of all invariants and
action properties. Left to the runs are the liveness properties.
