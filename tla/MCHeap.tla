------------------------------- MODULE MCHeap -------------------------------
(***************************************************************************)
(* Small heaps: pages of 10 bytes, headers of 3, sizes aligned to 2 and    *)
(* remainders below 5 not split off.  As in the kernel (4096 - 25), a page *)
(* block's size is not a multiple of the alignment.                        *)
(***************************************************************************)
EXTENDS Heap

MCPageSize == 10
MCHdr == 3
MCMinBlock == 5
MCAlign == 2
MCWord == 256

\* Free frames without a hole; the last one is not mapped in some pools.
MCContiguous == {{}, 2 .. 4, 4 .. 5}
MCMapped == 5

\* A hole in the memory map: frame 3 is not RAM.
MCHole == {{2, 4}}

\* Two sizes a page block holds, one of them rounded up to the largest; one
\* that needs merged page blocks; one for which the number of pages wraps
\* around to 0 (250), one for which the bytes to add do (254), and one that
\* is rounded up to 0 (255).
MCMixed == {0, 4, 5, 12, 250, 254, 255}
MCLarge == {12}

=============================================================================
