------------------------------ MODULE PagePool ------------------------------
(***************************************************************************)
(* What the physical memory manager promises its callers: once the machine *)
(* is up there is a pool of page frames, an allocation takes the lowest    *)
(* free frame and hands it to one caller, and a frame comes back to the    *)
(* pool only when its holder frees it.  Bitmaps, counters and the          *)
(* Multiboot2 memory map do not appear here: module Pmm implements this    *)
(* specification, and module Heap is built on it.                          *)
(***************************************************************************)
EXTENDS Naturals, FiniteSets

VARIABLES
  up,    \* has pmm_init returned?
  free,  \* the frames an allocation may return
  held   \* the frames handed out and not freed

poolVars == <<up, free, held>>

PoolTypeOK ==
  /\ up \in BOOLEAN
  /\ free \in SUBSET Nat
  /\ held \in SUBSET Nat

PoolInit ==
  /\ up = FALSE
  /\ free = {}
  /\ held = {}

\* pmm_init: some set of frames becomes available, once.
Boot ==
  /\ ~up
  /\ up' = TRUE
  /\ free' \in SUBSET Nat
  /\ held' = {}

\* pmm_alloc_page: frame q, the lowest free one, is given to the caller.
Take(q) ==
  /\ up
  /\ q \in free
  /\ \A r \in free : q <= r
  /\ free' = free \ {q}
  /\ held' = held \cup {q}
  /\ UNCHANGED up

\* pmm_free_page: the holder of frame q gives it back.
GiveBack(q) ==
  /\ up
  /\ q \in held
  /\ free' = free \cup {q}
  /\ held' = held \ {q}
  /\ UNCHANGED up

PoolNext ==
  \/ Boot
  \/ \E q \in free : Take(q)
  \/ \E q \in held : GiveBack(q)

PoolSpec == PoolInit /\ [][PoolNext]_poolVars

=============================================================================
