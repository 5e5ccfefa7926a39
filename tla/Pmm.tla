-------------------------------- MODULE Pmm ---------------------------------
(***************************************************************************)
(* The physical memory manager, kernel/pmm.cpp: a bitmap with one bit per  *)
(* page frame (1 = not available), filled from the Multiboot2 memory map   *)
(* by pmm_init and then served by pmm_alloc_page and pmm_free_page.        *)
(*                                                                         *)
(* pmm_init runs once, with interrupts off, as a sequence of loops; pc     *)
(* names the loop and each step is one iteration.  The bitmap is the set   *)
(* of the bits that are 1.                                                 *)
(***************************************************************************)
EXTENDS Naturals, Sequences, FiniteSets

CONSTANTS
  PAGE_SIZE,      \* bytes per frame (4096)
  STATIC_BITMAP,  \* sizeof(static_bitmap), in bytes (32768)
  RESERVED,       \* frames that are never given out (512, the first 2 MB)
  MemoryMaps      \* the memory maps the boot loader may pass

\* An entry of a memory map; type 1 is usable RAM.
Entry == [addr : Nat, len : Nat, type : Nat]

Usable(m) == {k \in DOMAIN m : m[k].type = 1}

End(e) == e.addr + e.len

\* Two usable regions never share a byte (the boot loader's guarantee).
DisjointUsable(m) ==
  \A j, k \in Usable(m) :
    j # k => End(m[j]) <= m[k].addr \/ End(m[k]) <= m[j].addr

ASSUME PageSizeAssumption == PAGE_SIZE \in Nat \ {0}
ASSUME StaticBitmapAssumption == STATIC_BITMAP \in Nat \ {0}
ASSUME ReservedAssumption == RESERVED \in Nat \ {0}
ASSUME MemoryMapsAssumption ==
  \A m \in MemoryMaps : m \in Seq(Entry) /\ DisjointUsable(m)

VARIABLES
  pc,           \* the loop pmm_init is in, then "ready"
  mmap,         \* the entries of the map, in the order they are listed
  i,            \* the entry the loop is at
  p,            \* the frame the loop is at
  max_memory, bitmap, bitmap_size, total_pages, free_pages,
  allocated,    \* the frames callers hold (history, not kernel state)
  ret           \* what the last pmm_alloc_page returned

vars == <<pc, mmap, i, p, max_memory, bitmap, bitmap_size, total_pages,
          free_pages, allocated, ret>>

-----------------------------------------------------------------------------
\* The bitmap operations; page_num \div 8 is the byte the bit is in.

InBitmap(q) == q \div 8 < bitmap_size

\* Mutant: setting a bit is forgotten.
bitmap_set_lost(q) == bitmap

bitmap_set(q) == IF InBitmap(q) THEN bitmap \cup {q} ELSE bitmap

bitmap_clear(q) == IF InBitmap(q) THEN bitmap \ {q} ELSE bitmap

\* Mutant: a bit outside the bitmap reads as clear.
bitmap_test_unbounded(q) == q \in bitmap

bitmap_test(q) == InBitmap(q) => q \in bitmap

-----------------------------------------------------------------------------
\* The frames of an entry: its start and its length are rounded down.
StartPage(e) == e.addr \div PAGE_SIZE
\* Mutant: the length is rounded up.
PageCountUp(e) == (e.len + PAGE_SIZE - 1) \div PAGE_SIZE

PageCount(e) == e.len \div PAGE_SIZE

Init ==
  /\ pc = "scan"
  /\ mmap \in MemoryMaps
  /\ i = 1
  /\ p = 0
  /\ max_memory = 0
  /\ bitmap = {}
  /\ bitmap_size = 0
  /\ total_pages = 0
  /\ free_pages = 0
  /\ allocated = {}
  /\ ret = 0

\* First pass: find the end of the highest usable entry.
ScanEntry ==
  /\ pc = "scan"
  /\ i <= Len(mmap)
  /\ max_memory' = IF mmap[i].type = 1 /\ End(mmap[i]) > max_memory
                   THEN End(mmap[i])
                   ELSE max_memory
  /\ i' = i + 1
  /\ UNCHANGED <<pc, mmap, p, bitmap, bitmap_size, total_pages, free_pages,
                 allocated, ret>>

\* Size the bitmap, capped by the static buffer, and set every bit.
SizeBitmap ==
  /\ pc = "scan"
  /\ i > Len(mmap)
  /\ LET pages == max_memory \div PAGE_SIZE
         bytes == (pages + 7) \div 8
         capped == bytes > STATIC_BITMAP
     IN  /\ bitmap_size' = IF capped THEN STATIC_BITMAP ELSE bytes
         /\ total_pages' = IF capped THEN STATIC_BITMAP * 8 ELSE pages
         /\ bitmap' = 0 .. (bitmap_size' * 8 - 1)
  /\ pc' = "entry"
  /\ i' = 1
  /\ UNCHANGED <<mmap, p, max_memory, free_pages, allocated, ret>>

\* Second pass, once per entry: enter its page loop, or skip it.
NextEntry ==
  /\ pc = "entry"
  /\ i <= Len(mmap)
  /\ \/ /\ mmap[i].type = 1
        /\ p' = StartPage(mmap[i])
        /\ pc' = "pages"
        /\ UNCHANGED i
     \/ /\ mmap[i].type # 1
        /\ i' = i + 1
        /\ UNCHANGED <<p, pc>>
  /\ UNCHANGED <<mmap, max_memory, bitmap, bitmap_size, total_pages,
                 free_pages, allocated, ret>>

\* Mutant: the loop does not stop at the end of the bitmap.
InPageLoopUncapped == p < StartPage(mmap[i]) + PageCount(mmap[i])

InPageLoop ==
  /\ p < StartPage(mmap[i]) + PageCount(mmap[i])
  /\ p < total_pages

ClearPage ==
  /\ pc = "pages"
  /\ InPageLoop
  /\ bitmap' = bitmap_clear(p)
  /\ free_pages' = free_pages + 1
  /\ p' = p + 1
  /\ UNCHANGED <<pc, mmap, i, max_memory, bitmap_size, total_pages,
                 allocated, ret>>

EntryDone ==
  /\ pc = "pages"
  /\ ~InPageLoop
  /\ pc' = "entry"
  /\ i' = i + 1
  /\ UNCHANGED <<mmap, p, max_memory, bitmap, bitmap_size, total_pages,
                 free_pages, allocated, ret>>

\* Mutant: reserving starts at frame 1.
EntriesDoneFromOne ==
  /\ pc = "entry"
  /\ i > Len(mmap)
  /\ pc' = "reserve"
  /\ p' = 1
  /\ UNCHANGED <<mmap, i, max_memory, bitmap, bitmap_size, total_pages,
                 free_pages, allocated, ret>>

EntriesDone ==
  /\ pc = "entry"
  /\ i > Len(mmap)
  /\ pc' = "reserve"
  /\ p' = 0
  /\ UNCHANGED <<mmap, i, max_memory, bitmap, bitmap_size, total_pages,
                 free_pages, allocated, ret>>

\* Take the low frames (BIOS, VGA, kernel image) out of the pool.
ReservePage ==
  /\ pc = "reserve"
  /\ p < RESERVED
  /\ free_pages' = IF bitmap_test(p) THEN free_pages ELSE free_pages - 1
  /\ bitmap' = bitmap_set(p)
  /\ p' = p + 1
  /\ UNCHANGED <<pc, mmap, i, max_memory, bitmap_size, total_pages,
                 allocated, ret>>

\* Mutant: the reserve loop may stop one frame early.
InitDoneEarly ==
  /\ pc = "reserve"
  /\ p \in {RESERVED - 1, RESERVED}
  /\ pc' = "ready"
  /\ UNCHANGED <<mmap, i, p, max_memory, bitmap, bitmap_size, total_pages,
                 free_pages, allocated, ret>>

InitDone ==
  /\ pc = "reserve"
  /\ p = RESERVED
  /\ pc' = "ready"
  /\ UNCHANGED <<mmap, i, p, max_memory, bitmap, bitmap_size, total_pages,
                 free_pages, allocated, ret>>

-----------------------------------------------------------------------------
\* The frames whose bit is clear.
FreePages == {q \in 0 .. (total_pages - 1) : ~bitmap_test(q)}

\* pmm_alloc_page: the lowest clear bit, or 0 when there is none.
pmm_alloc_page ==
  /\ pc = "ready"
  /\ \/ \E q \in FreePages :
          /\ \A r \in FreePages : q <= r
          /\ bitmap' = bitmap_set(q)
          /\ free_pages' = free_pages - 1
          /\ ret' = q * PAGE_SIZE
          /\ allocated' = allocated \cup {q}
     \/ /\ FreePages = {}
        /\ ret' = 0
        /\ UNCHANGED <<bitmap, free_pages, allocated>>
  /\ UNCHANGED <<pc, mmap, i, p, max_memory, bitmap_size, total_pages>>

\* pmm_free_page: frees of unknown and of already free frames do nothing.
pmm_free_page(phys_addr) ==
  LET page == phys_addr \div PAGE_SIZE
  IN  /\ pc = "ready"
      /\ IF page < total_pages /\ bitmap_test(page)
         THEN /\ bitmap' = bitmap_clear(page)
              /\ free_pages' = free_pages + 1
         ELSE UNCHANGED <<bitmap, free_pages>>
      /\ allocated' = allocated \ {page}
      /\ UNCHANGED <<pc, mmap, i, p, max_memory, bitmap_size, total_pages,
                     ret>>

\* The addresses a caller that keeps the interface's contract may free: of
\* a frame it holds, again of one that is free already, or out of range.
Freeable == allocated \cup FreePages \cup {total_pages}

pmm_init ==
  \/ ScanEntry \/ SizeBitmap \/ NextEntry \/ ClearPage \/ EntryDone
  \/ EntriesDone \/ ReservePage \/ InitDone

Next ==
  \/ pmm_init
  \/ pmm_alloc_page
  \/ \E q \in Freeable : pmm_free_page(q * PAGE_SIZE)

Spec == Init /\ [][Next]_vars

-----------------------------------------------------------------------------
\* Frame q belongs to entry e as pmm_init counts frames.
PageOf(q, e) == StartPage(e) <= q /\ q < StartPage(e) + PageCount(e)

\* The usable frames the bitmap covers.
UsablePages ==
  {q \in 0 .. (total_pages - 1) : \E k \in Usable(mmap) : PageOf(q, mmap[k])}

-----------------------------------------------------------------------------
(***************************************************************************)
(* Properties.                                                             *)
(***************************************************************************)

\* The values the variables range over.
TypeOK ==
  /\ pc \in {"scan", "entry", "pages", "reserve", "ready"}
  /\ mmap \in MemoryMaps
  /\ i \in 1 .. (Len(mmap) + 1)
  /\ p \in Nat
  /\ max_memory \in Nat
  /\ bitmap \in SUBSET Nat
  /\ bitmap_size \in 0 .. STATIC_BITMAP
  /\ total_pages \in Nat
  /\ free_pages \in Nat
  /\ allocated \in SUBSET Nat
  /\ ret \in Nat

\* The counter pmm_get_free_memory reports is the number of clear bits, at
\* every step of pmm_init and of the service: no frame is counted twice, by
\* two entries, by the reserved range or by a repeated free, and the counter
\* never wraps below zero.
FreeCount == free_pages = Cardinality(FreePages)

\* A frame a caller holds is marked used, lies in the bitmap's range and is
\* not one of the reserved low frames: pmm_alloc_page never hands out the
\* frames of the kernel, nor one frame to two callers.
HeldExclusive ==
  \A q \in allocated :
    /\ q \notin FreePages
    /\ RESERVED <= q /\ q < total_pages

\* The frames above the reserved range that lie wholly inside usable RAM.
WholeUsableFrames ==
  {q \in RESERVED .. (total_pages - 1) :
     \E k \in Usable(mmap) :
       mmap[k].addr <= q * PAGE_SIZE /\ (q + 1) * PAGE_SIZE <= End(mmap[k])}

AlignedStarts == \A k \in Usable(mmap) : mmap[k].addr % PAGE_SIZE = 0

\* No frame leaks and none is invented: once pmm_init is done every whole
\* frame of usable RAM is either free or held, and nothing else is.  An entry
\* that starts inside a frame would have that frame counted, because
\* pmm_init rounds the start down.
PagesConserved ==
  (pc = "ready" /\ AlignedStarts)
    => FreePages \cup allocated = WholeUsableFrames

\* pmm_alloc_page answers 0 exactly when it is out of memory: frame 0, whose
\* address is also 0, never gets into the pool.
ZeroMeansOutOfMemory ==
  [][pmm_alloc_page => (ret' = 0 <=> FreePages = {})]_vars

\* The bitmap allocator implements the page pool.
Pool == INSTANCE PagePool WITH
          up   <- pc = "ready",
          free <- IF pc = "ready" THEN FreePages ELSE {},
          held <- allocated

ImplementsPagePool == Pool!PoolSpec

=============================================================================
