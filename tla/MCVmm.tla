------------------------------- MODULE MCVmm --------------------------------
(***************************************************************************)
(* Tables of four entries and two huge pages, so that frames 0 to 7 are    *)
(* mapped: pools that end inside vmm_init, inside vmm_map_page, beyond the *)
(* mapped frames, or not at all; pages that share all, some and none of    *)
(* their tables, and one page inside a huge one.                           *)
(***************************************************************************)
EXTENDS Vmm

MCPools == {{}, {1}, 1 .. 2, 1 .. 4, 1 .. 7, {1, 2, 3, 6, 9}}
MCPages == {<<0, 0, 2, 0>>, <<0, 0, 2, 3>>, <<0, 1, 2, 3>>, <<3, 0, 2, 1>>,
            <<0, 0, 1, 1>>}
MCFrames == {1, 9}
MCFlagSets == {{"PRESENT", "WRITABLE"}, {}}

=============================================================================
