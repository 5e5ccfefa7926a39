----------------------------- MODULE Allocator ------------------------------
(***************************************************************************)
(* What the heap promises its clients, kernel/heap.h: a pointer that       *)
(* kmalloc returns stands for as many bytes as were asked for, in memory   *)
(* that belongs to the heap and that no other client holds, until it is    *)
(* given to kfree.  Where the bytes lie, how large a block really is, and  *)
(* when the heap grows are left open.                                      *)
(***************************************************************************)
EXTENDS Naturals

VARIABLES
  arena,  \* the addresses of the heap's memory
  owned   \* the pointers clients hold, with the sizes they asked for

allocatorVars == <<arena, owned>>

Bytes(ptr, size) == ptr .. (ptr + size - 1)

AllocatorInit ==
  /\ arena = {}
  /\ owned = << >>

\* The heap takes memory; it never gives any back.
Grow ==
  /\ arena \subseteq arena'
  /\ UNCHANGED owned

\* A client gets a pointer to bytes nobody holds.
Alloc ==
  \E ptr \in DOMAIN owned' \ DOMAIN owned :
    /\ owned' = [x \in DOMAIN owned \cup {ptr} |->
                   IF x = ptr THEN owned'[ptr] ELSE owned[x]]
    /\ owned'[ptr] > 0
    /\ Bytes(ptr, owned'[ptr]) \subseteq arena
    /\ \A x \in DOMAIN owned :
         Bytes(ptr, owned'[ptr]) \cap Bytes(x, owned[x]) = {}
    /\ UNCHANGED arena

\* A client gives a pointer back; the others keep theirs.
Free ==
  \E ptr \in DOMAIN owned :
    /\ owned' = [x \in DOMAIN owned \ {ptr} |-> owned[x]]
    /\ UNCHANGED arena

AllocatorNext == Grow \/ Alloc \/ Free
AllocatorSpec == AllocatorInit /\ [][AllocatorNext]_allocatorVars

=============================================================================
