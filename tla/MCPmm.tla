------------------------------- MODULE MCPmm --------------------------------
(***************************************************************************)
(* A small machine for module Pmm: frames of 4 bytes, a one-byte bitmap    *)
(* (8 frames), 2 reserved frames, and every list of up to two entries with *)
(* usable or reserved regions of the sizes below, aligned or not, in any   *)
(* order.                                                                  *)
(***************************************************************************)
EXTENDS Pmm

MCPageSize == 4
MCStaticBitmap == 1
MCReserved == 2

\* Entries that begin on a frame, inside one, and past the bitmap's end.
MCEntries ==
  [addr : {0, 4, 10, 16, 24}, len : {3, 8, 17}, type : {1, 2}]

MCMemoryMaps ==
  {m \in UNION {[1 .. n -> MCEntries] : n \in 0 .. 2} : DisjointUsable(m)}

=============================================================================
