-------------------------------- MODULE Heap --------------------------------
(***************************************************************************)
(* The kernel heap, kernel/heap.cpp: a first-fit allocator over one linked *)
(* list of blocks, each a header followed by its bytes, grown one page     *)
(* frame at a time.  The frames come from module PagePool, the             *)
(* specification module Pmm implements.                                    *)
(*                                                                         *)
(* kmalloc is a loop inside a loop (search the list; expand; search        *)
(* again), so it is several steps; hpc says where it is.  Interrupt        *)
(* handlers do not use the heap, so no other call begins before it         *)
(* returns.  The headers are a function from addresses; a header that      *)
(* coalescing removed from the list is no longer in its domain.            *)
(***************************************************************************)
EXTENDS PagePool, Integers

CONSTANTS
  PAGE_SIZE,       \* 4096
  HDR,             \* sizeof(HeapBlock): 25, the struct is packed
  MIN_BLOCK_SIZE,  \* 32
  ALIGN,           \* kmalloc rounds sizes up to a multiple of 8
  WORD,            \* 2^64, where unsigned arithmetic wraps
  MAPPED,          \* frames from here on are not mapped (4096: 16 MB)
  Pools,           \* the sets of frames pmm_init may leave free
  Requests         \* the sizes clients ask for

ASSUME HeapAssumption ==
  /\ HDR \in Nat \ {0}
  /\ PAGE_SIZE \in Nat /\ PAGE_SIZE > HDR
  /\ MIN_BLOCK_SIZE \in Nat
  /\ ALIGN \in Nat \ {0}
  /\ WORD \in Nat
  /\ MAPPED \in Nat
\* The mapped memory is far below 2^64.
ASSUME WordAssumption ==
  /\ MAPPED * PAGE_SIZE + HDR + MIN_BLOCK_SIZE < WORD
  /\ 2 * PAGE_SIZE < WORD
  /\ WORD % ALIGN = 0
ASSUME PoolsAssumption == Pools \subseteq SUBSET (Nat \ {0})
ASSUME RequestsAssumption == Requests \subseteq 0 .. (WORD - 1)

VARIABLES
  hpc,         \* "boot", "idle", "search", "expand", "halted" or "wild"
  heap_start,  \* address of the first header, 0 if there is none
  blocks,      \* the headers of the list, by address
  current,     \* the header kmalloc's search is at
  asked, want, \* the size kmalloc was called with, and the aligned one
  left,        \* pages expand_heap has still to add
  used,        \* total_allocated - total_freed
  live         \* the pointers clients hold, with the sizes they asked for

heapVars == <<hpc, heap_start, blocks, current, asked, want, left, used, live>>
vars == <<poolVars, heapVars>>

-----------------------------------------------------------------------------
Add(x, y) == (x + y) % WORD

\* Mutant: sizes are rounded down.
align_down(n) == (n \div ALIGN) * ALIGN

align_size(n) == (Add(n, ALIGN - 1) \div ALIGN) * ALIGN

\* Mutant: the number of pages is rounded down.
pages_floor(n) == n \div PAGE_SIZE

pages_needed(n) == Add(n, PAGE_SIZE - 1) \div PAGE_SIZE

\* A page frame as one free block.
PageBlock ==
  [size |-> PAGE_SIZE - HDR, free |-> TRUE, next |-> 0, magic |-> TRUE]

\* The byte after the block at a; a block's bytes are a + HDR .. EndOf(a) - 1.
EndOf(a) == a + HDR + blocks[a].size

Last == CHOOSE a \in DOMAIN blocks : blocks[a].next = 0

Init ==
  /\ up = TRUE
  /\ free \in Pools
  /\ held = {}
  /\ hpc = "boot"
  /\ heap_start = 0
  /\ blocks = << >>
  /\ current = 0
  /\ asked = 0
  /\ want = 0
  /\ left = 0
  /\ used = 0
  /\ live = << >>

\* Writing a header into a frame that is not mapped is a page fault, and
\* isr_handler halts the machine.
PageFault(q) ==
  /\ q >= MAPPED
  /\ hpc' = "halted"
  /\ UNCHANGED <<heap_start, blocks, current, asked, want, left, used, live>>

\* heap_init: the first frame becomes the first block.  Without a frame it
\* returns with heap_start null, and boot goes on.
heap_init ==
  /\ hpc = "boot"
  /\ \/ \E q \in free :
          /\ Take(q)
          /\ \/ PageFault(q)
             \/ /\ q < MAPPED
                /\ heap_start' = q * PAGE_SIZE
                /\ blocks' = [a \in {q * PAGE_SIZE} |-> PageBlock]
                /\ hpc' = "idle"
                /\ UNCHANGED <<current, asked, want, left, used, live>>
     \/ /\ free = {}
        /\ hpc' = "idle"
        /\ UNCHANGED <<poolVars, heap_start, blocks, current, asked, want,
                       left, used, live>>

-----------------------------------------------------------------------------
\* kmalloc(n), up to the start of its search.
kmalloc(n) ==
  /\ hpc = "idle"
  /\ \/ /\ n = 0
        /\ UNCHANGED <<hpc, current, asked, want>>
     \/ /\ n # 0
        /\ asked' = n
        /\ want' = align_size(n)
        /\ current' = heap_start
        /\ hpc' = "search"
  /\ UNCHANGED <<poolVars, heap_start, blocks, left, used, live>>

\* kmalloc returns and its locals are gone.  A pointer it returns is in live
\* from now on; it returns null if live stays as it is.
Return ==
  /\ hpc' = "idle"
  /\ current' = 0
  /\ asked' = 0
  /\ want' = 0
  /\ left' = 0

\* Mutant: a block in use is taken.
SuitsUsed(b) == b.size >= want

Suits(b) == b.free /\ b.size >= want

CanSplit(b) == b.size >= Add(Add(want, HDR), MIN_BLOCK_SIZE)

\* The block at a keeps want bytes; the rest becomes a free block behind it.
Split(a, rest) ==
  LET new == a + HDR + want
  IN  [x \in DOMAIN blocks \cup {new} |->
         IF x = new
         THEN [size |-> rest, free |-> TRUE, next |-> blocks[a].next,
               magic |-> TRUE]
         ELSE IF x = a
         THEN [blocks[a] EXCEPT !.size = want, !.free = FALSE, !.next = new]
         ELSE blocks[x]]

\* Mutant: the remainder of a split is not reduced by its header.
TakeBlockNoHeader(a) ==
  IF CanSplit(blocks[a]) THEN Split(a, blocks[a].size - want)
  ELSE [blocks EXCEPT ![a].free = FALSE]

\* The list after kmalloc has taken the block at a, split if it is worth it.
TakeBlock(a) ==
  IF CanSplit(blocks[a]) THEN Split(a, blocks[a].size - want - HDR)
  ELSE [blocks EXCEPT ![a].free = FALSE]

\* One iteration of the search: "CORRUPTION DETECTED!", or the block suits,
\* or on to the next one.
Search ==
  /\ hpc = "search"
  /\ current # 0
  /\ LET b == blocks[current]
         ptr == current + HDR
     IN  IF ~b.magic
         THEN /\ Return
              /\ UNCHANGED <<blocks, used, live>>
         ELSE IF Suits(b)
         THEN /\ blocks' = TakeBlock(current)
              /\ used' = Add(used, blocks'[current].size)
              /\ live' = [x \in DOMAIN live \cup {ptr} |->
                            IF x = ptr THEN asked ELSE live[x]]
              /\ Return
         ELSE /\ current' = b.next
              /\ UNCHANGED <<hpc, blocks, asked, want, left, used, live>>
  /\ UNCHANGED <<poolVars, heap_start>>

\* Mutant: kmalloc gives up without expanding the heap.
SearchGivesUp ==
  /\ hpc = "search"
  /\ current = 0
  /\ Return
  /\ UNCHANGED <<poolVars, heap_start, blocks, used, live>>

\* No block suits: enter expand_heap.  With no heap at all its walk to the
\* last block starts at the null pointer.
SearchFailed ==
  /\ hpc = "search"
  /\ current = 0
  /\ hpc' = IF heap_start = 0 THEN "wild" ELSE "expand"
  /\ left' = pages_needed(Add(want, HDR))
  /\ UNCHANGED <<poolVars, heap_start, blocks, current, asked, want, used, live>>

\* One iteration of expand_heap: a frame is appended as a block of its own.
ExpandPage ==
  /\ hpc = "expand"
  /\ left > 0
  /\ \E q \in free :
       /\ Take(q)
       /\ \/ PageFault(q)
          \/ /\ q < MAPPED
             /\ blocks' = [x \in DOMAIN blocks \cup {q * PAGE_SIZE} |->
                             IF x = q * PAGE_SIZE THEN PageBlock
                             ELSE IF x = Last
                             THEN [blocks[x] EXCEPT !.next = q * PAGE_SIZE]
                             ELSE blocks[x]]
             /\ left' = left - 1
             /\ UNCHANGED <<hpc, heap_start, current, asked, want, used, live>>

\* expand_heap runs out of frames: kmalloc returns null.  The frames it has
\* added stay in the list.
ExpandFailed ==
  /\ hpc = "expand"
  /\ left > 0
  /\ free = {}
  /\ Return
  /\ UNCHANGED <<poolVars, heap_start, blocks, used, live>>

\* expand_heap succeeds: kmalloc calls itself with the aligned size.  That
\* call returns null at once if the size was rounded up to 0.
ExpandDone ==
  /\ hpc = "expand"
  /\ left = 0
  /\ \/ /\ want = 0
        /\ Return
     \/ /\ want # 0
        /\ want' = align_size(want)
        /\ current' = heap_start
        /\ hpc' = "search"
        /\ UNCHANGED <<asked, left>>
  /\ UNCHANGED <<poolVars, heap_start, blocks, used, live>>

-----------------------------------------------------------------------------
\* The block at a is free and has absorbed the one behind it.
Join(a, size, next) ==
  [x \in DOMAIN blocks \ {blocks[a].next} |->
     IF x = a
     THEN [blocks[a] EXCEPT !.size = size, !.free = TRUE, !.next = next]
     ELSE blocks[x]]

CanJoin(b) == b.next # 0 /\ blocks[b.next].free

\* Mutant: the absorbed block stays linked.
FreeBlockKeepsNext(a) ==
  LET b == blocks[a]
  IN  IF CanJoin(b)
      THEN Join(a, b.size + HDR + blocks[b.next].size, b.next)
      ELSE [blocks EXCEPT ![a].free = TRUE]

\* Mutant: coalescing loses the absorbed header's bytes.
FreeBlockLosesHeader(a) ==
  LET b == blocks[a]
  IN  IF CanJoin(b)
      THEN Join(a, b.size + blocks[b.next].size, blocks[b.next].next)
      ELSE [blocks EXCEPT ![a].free = TRUE]

\* The list after the block at a is free, joined with the next one if that
\* is free too.
FreeBlock(a) ==
  LET b == blocks[a]
  IN  IF CanJoin(b)
      THEN Join(a, b.size + HDR + blocks[b.next].size, blocks[b.next].next)
      ELSE [blocks EXCEPT ![a].free = TRUE]

\* kfree of the null pointer, of a live pointer, and of one whose header
\* lost its magic.
kfree(ptr) ==
  /\ hpc = "idle"
  /\ IF ptr # 0 /\ blocks[ptr - HDR].magic
     THEN /\ blocks' = FreeBlock(ptr - HDR)
          /\ used' = (used + WORD - blocks[ptr - HDR].size) % WORD
     ELSE UNCHANGED <<blocks, used>>
  /\ live' = [x \in DOMAIN live \ {ptr} |-> live[x]]
  /\ UNCHANGED <<poolVars, hpc, heap_start, current, asked, want, left>>

\* The holder of ptr fills the size bytes its block has; a header that lies
\* in them is overwritten.
ClientStore(ptr) ==
  /\ hpc = "idle"
  /\ blocks' = [x \in DOMAIN blocks |->
                  IF x < EndOf(ptr - HDR) /\ ptr < x + HDR
                  THEN [blocks[x] EXCEPT !.magic = FALSE]
                  ELSE blocks[x]]
  /\ UNCHANGED <<poolVars, hpc, heap_start, current, asked, want, left, used,
                 live>>

HeapStep ==
  \/ heap_init \/ Search \/ SearchFailed \/ ExpandPage \/ ExpandFailed
  \/ ExpandDone

Next ==
  \/ HeapStep
  \/ \E n \in Requests : kmalloc(n)
  \/ \E ptr \in DOMAIN live \cup {0} : kfree(ptr)
  \/ \E ptr \in DOMAIN live : ClientStore(ptr)

Spec == Init /\ [][Next]_vars

\* kmalloc's loops run until they return; clients need not call it.
FairSpec == Spec /\ WF_vars(HeapStep)

-----------------------------------------------------------------------------
\* The statistics MEM prints.
heap_get_used == used

\* A walk along the list from heap_start.
heap_get_free ==
  LET From[a \in DOMAIN blocks \cup {0}] ==
        IF a = 0 THEN 0
        ELSE (IF blocks[a].free THEN blocks[a].size ELSE 0) + From[blocks[a].next]
  IN  From[heap_start]

-----------------------------------------------------------------------------
(***************************************************************************)
(* Properties.                                                             *)
(***************************************************************************)

\* The values the variables range over.
TypeOK ==
  /\ PoolTypeOK
  /\ hpc \in {"boot", "idle", "search", "expand", "halted", "wild"}
  /\ DOMAIN blocks \subseteq Nat \ {0}
  /\ \A a \in DOMAIN blocks :
       blocks[a] \in [size : Nat, free : BOOLEAN, next : Nat, magic : BOOLEAN]
  /\ heap_start \in DOMAIN blocks \cup {0}
  /\ current \in DOMAIN blocks \cup {0}
  /\ \A a \in DOMAIN blocks : blocks[a].next \in DOMAIN blocks \cup {0}
  /\ asked \in Nat /\ want \in Nat /\ left \in Nat
  /\ used \in Nat

\* The bytes of the block at a, header included, as a set of frames.
FramesOf(a) == (a \div PAGE_SIZE) .. ((EndOf(a) - 1) \div PAGE_SIZE)

\* A block's size is memory its holder may use: all of it lies in frames the
\* heap got from the page allocator, and it shares no byte with another
\* block, through every split, expansion and coalescing.
UsableMemory ==
  \A a \in DOMAIN blocks :
    /\ FramesOf(a) \subseteq held
    /\ \A b \in DOMAIN blocks : a # b => EndOf(a) <= b \/ EndOf(b) <= a

\* Rounding n up does not wrap around; align_size returns 0 for the ALIGN - 1
\* sizes for which it does.
Alignable(n) == n + ALIGN <= WORD

\* The blocks in use are exactly the ones clients hold: none is handed out
\* twice, none leaks.  Each is at least as large as what was asked for,
\* unless rounding that up wraps around.
HeldBlocks ==
  /\ {a \in DOMAIN blocks : ~blocks[a].free} = {ptr - HDR : ptr \in DOMAIN live}
  /\ \A ptr \in DOMAIN live :
       Alignable(live[ptr]) => live[ptr] <= blocks[ptr - HDR].size

\* Every byte of every frame is accounted for: it is in a free block, in a
\* block heap_get_used counts, or in a header.
BytesConserved ==
  hpc \in {"idle", "search", "expand"} =>
    heap_get_free + heap_get_used + HDR * Cardinality(DOMAIN blocks)
      = PAGE_SIZE * Cardinality(held)

HeapMemory == UNION {(q * PAGE_SIZE) .. (q * PAGE_SIZE + PAGE_SIZE - 1) : q \in held}

\* The pointers the contract is about: rounding their size up does not wrap
\* around.
Granted ==
  [ptr \in {p \in DOMAIN live : Alignable(live[p])} |-> live[ptr]]

Promise == INSTANCE Allocator WITH arena <- HeapMemory, owned <- Granted

\* Through every search, split, expansion, failure and coalescing, kmalloc
\* and kfree keep what heap.h lets their callers rely on: the bytes of a
\* pointer are the heap's, and its holder's alone.  Sizes that wrap around
\* when they are rounded up are excepted; calls with them disturb no other
\* pointer.
ImplementsAllocator == Promise!AllocatorSpec

\* Clients that write only the bytes they were given never destroy a header,
\* so "CORRUPTION DETECTED!" and "Invalid free()!" are never false alarms.
NoFalseAlarm == \A a \in DOMAIN blocks : blocks[a].magic

\* kmalloc fails only when no block suits and no frame is left, unless the
\* size was rounded up to 0: the call it makes after an expansion then fails
\* whatever the expansion has added.
NullMeansNoRoom ==
  [][(hpc \in {"search", "expand"} /\ want # 0 /\ hpc' = "idle" /\ live' = live)
       => free = {} /\ ~\E a \in DOMAIN blocks : Suits(blocks[a])]_vars

\* One expansion is enough for a request that fits in a page block: the
\* search kmalloc tries again finds a block.
ExpandSuffices ==
  [][ExpandDone /\ want <= PAGE_SIZE - HDR
       => \E a \in DOMAIN blocks : Suits(blocks[a])]_vars

\* "No suitable block - expand heap ... Try again", for every request: the
\* pages expand_heap was asked to add for needed_size bytes hold them.
RetryFinds ==
  [][ExpandDone => \E a \in DOMAIN blocks : Suits(blocks[a])]_vars

\* Every kmalloc returns, or the machine stops on a fault.  Excepted are the
\* sizes for which the number of pages wraps around to 0: kmalloc then calls
\* itself for ever, as no expansion adds anything.
KmallocReturns ==
  (hpc \in {"search", "expand"} /\ Add(want, HDR) + PAGE_SIZE - 1 < WORD)
    ~> hpc \in {"idle", "halted", "wild"}

=============================================================================
