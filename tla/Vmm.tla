-------------------------------- MODULE Vmm ---------------------------------
(***************************************************************************)
(* The virtual memory manager, kernel/vmm.cpp: vmm_init builds page tables *)
(* that map the first 16 MB to themselves with huge pages and loads them,  *)
(* and vmm_map_page adds one page at a time, allocating the tables on the  *)
(* way.  Tables are frames of module PagePool and are reached by their     *)
(* physical address, so they must lie in the identity map.                 *)
(*                                                                         *)
(* A page is the tuple of its four indices; an address is a frame number.  *)
(* Both functions allocate in the middle and may stop there, so each       *)
(* allocation is a step; vpc names the next one.  The CPU's translation is *)
(* Walk.                                                                   *)
(***************************************************************************)
EXTENDS PagePool, Sequences

CONSTANTS
  ENTRIES,  \* entries of a table, and frames of a huge page: 512
  HUGE,     \* huge pages vmm_init maps: 8
  Pools,    \* the sets of frames pmm_init may leave free
  Pages,    \* the pages callers map
  Frames,   \* the frames they map them to
  FlagSets  \* the flags they pass

Index == 0 .. (ENTRIES - 1)
Page == Index \X Index \X Index \X Index
Flags == {"PRESENT", "WRITABLE", "USER", "HUGE"}

ASSUME VmmAssumption ==
  /\ ENTRIES \in Nat \ {0}
  /\ HUGE \in 1 .. ENTRIES
  /\ Pools \subseteq SUBSET (Nat \ {0})
  /\ Pages \subseteq Page
  /\ Frames \subseteq Nat
  /\ FlagSets \subseteq SUBSET (Flags \ {"HUGE"})

\* boot.asm maps the same frames before vmm_init does.
MAPPED == HUGE * ENTRIES

VARIABLES
  vpc,          \* the next table of vmm_init, "walk", "idle", "halted", "wild"
  level,        \* how far vmm_map_page has got: 1 to 4, PML4 to PT
  kernel_pml4,  \* the root table, 0 if there is none
  cr3,          \* the root the CPU uses, 0 while it is the one of boot.asm
  tables,       \* the contents of the frames alloc_page_table has cleared
  at,           \* the table the call has got to
  call,         \* the arguments of vmm_map_page
  ret,          \* what the last vmm_map_page returned
  asked,        \* the last successful request for each page (history)
  smashed       \* a store went into a huge page's memory (history)

vmmVars == <<vpc, level, kernel_pml4, cr3, tables, at, call, ret, asked,
             smashed>>
vars == <<poolVars, vmmVars>>

\* No call is being made.
NoCall == [virt |-> <<0, 0, 0, 0>>, phys |-> 0, flags |-> {}]

Init ==
  /\ up = TRUE
  /\ free \in Pools
  /\ held = {}
  /\ vpc = "pml4"
  /\ level = 0
  /\ kernel_pml4 = 0
  /\ cr3 = 0
  /\ tables = << >>
  /\ at = 0
  /\ call = NoCall
  /\ ret = FALSE
  /\ asked = << >>
  /\ smashed = FALSE

-----------------------------------------------------------------------------
pte_create(phys, flags) == [frame |-> phys, flags |-> flags]
pte_is_present(e) == "PRESENT" \in e.flags
pte_get_address(e) == e.frame

TableFlags == {"PRESENT", "WRITABLE"}
EmptyTable == [i \in Index |-> pte_create(0, {})]

\* tables with entry i of table t set.
Store(t, i, e) == [tables EXCEPT ![t][i] = e]

\* tables with table q linked as entry i of table t; t = 0 stands for none.
LinkAt(t, i, q) == IF t = 0 THEN tables ELSE Store(t, i, pte_create(q, TableFlags))

\* alloc_page_table clears frame q; a frame outside the identity map faults
\* there, and isr_handler halts.  The caller links the new table and goes on
\* with it.
AllocTable(t, i, next) ==
  \E q \in free :
    /\ Take(q)
    /\ \/ /\ q >= MAPPED
          /\ vpc' = "halted"
          /\ UNCHANGED <<tables, at>>
       \/ /\ q < MAPPED
          /\ tables' = [x \in DOMAIN tables \cup {q} |->
                          IF x = q THEN EmptyTable ELSE LinkAt(t, i, q)[x]]
          /\ at' = q
          /\ vpc' = next

\* The caller's locals are gone.
Return == vpc' = "idle" /\ level' = 0 /\ at' = 0 /\ call' = NoCall

-----------------------------------------------------------------------------
\* vmm_init, table by table.  Without a frame it prints an error and
\* returns: kernel_pml4 stays as it is and CR3 is not loaded.
InitFails ==
  /\ vpc \in {"pml4", "pdpt", "pd"}
  /\ free = {}
  /\ Return
  /\ UNCHANGED <<poolVars, kernel_pml4, cr3, tables, ret, asked, smashed>>

InitPml4 ==
  /\ vpc = "pml4"
  /\ AllocTable(0, 0, "pdpt")
  /\ kernel_pml4' = at'
  /\ UNCHANGED <<level, cr3, call, ret, asked, smashed>>

\* The PDPT is linked at entry 0 of the PML4, the PD at entry 0 of the PDPT.
InitNext(this, next) ==
  /\ vpc = this
  /\ AllocTable(at, 0, next)
  /\ UNCHANGED <<level, kernel_pml4, cr3, call, ret, asked, smashed>>

InitPdpt == InitNext("pdpt", "pd")
InitPd == InitNext("pd", "huge")

\* Entry i of the PD as the loop of vmm_init leaves it.
HugeEntry(i) ==
  IF i < HUGE THEN pte_create(i * ENTRIES, TableFlags \cup {"HUGE"})
  ELSE pte_create(0, {})

\* The loop that fills the PD, and the load of CR3.
InitHuge ==
  /\ vpc = "huge"
  /\ tables' = [tables EXCEPT ![at] = [i \in Index |-> HugeEntry(i)]]
  /\ cr3' = kernel_pml4
  /\ Return
  /\ UNCHANGED <<poolVars, kernel_pml4, ret, asked, smashed>>

-----------------------------------------------------------------------------
\* vmm_map_page begins at the root.
vmm_map_page(virt, phys, flags) ==
  /\ vpc = "idle"
  /\ call' = [virt |-> virt, phys |-> phys, flags |-> flags]
  /\ at' = kernel_pml4
  /\ level' = 1
  /\ vpc' = "walk"
  /\ UNCHANGED <<poolVars, kernel_pml4, cr3, tables, ret, asked, smashed>>

\* at is no table: the null pointer after vmm_init failed, or memory that a
\* smashed entry points to.  What is read there decides what follows.
ReadGarbage ==
  /\ vpc = "walk"
  /\ level < 4
  /\ at \notin DOMAIN tables
  /\ vpc' = "wild"
  /\ UNCHANGED <<poolVars, level, kernel_pml4, cr3, tables, at, call, ret,
                 asked, smashed>>

Walking == vpc = "walk" /\ level < 4 /\ at \in DOMAIN tables

Entry == tables[at][call.virt[level]]

\* The entry is present: follow it.  The huge bit is not looked at.
Descend ==
  /\ Walking
  /\ pte_is_present(Entry)
  /\ at' = pte_get_address(Entry)
  /\ level' = level + 1
  /\ smashed' = (smashed \/ "HUGE" \in Entry.flags)
  /\ UNCHANGED <<poolVars, vpc, kernel_pml4, cr3, tables, call, ret, asked>>

\* A new table becomes entry i of table t.
LinkTable(t, i) ==
  /\ Walking
  /\ ~pte_is_present(Entry)
  /\ AllocTable(t, i, "walk")
  /\ level' = level + 1
  /\ UNCHANGED <<kernel_pml4, cr3, call, ret, asked, smashed>>

\* Mutants: the entry is written at the index of the level below, or never.
AddTableBelow == LinkTable(at, call.virt[level + 1])
AddTableUnlinked == LinkTable(0, 0)

\* The entry is not present: a new table is linked there.
AddTable == LinkTable(at, call.virt[level])

\* No frame is left: the call returns false, the tables it has added stay.
MapFails ==
  /\ Walking
  /\ ~pte_is_present(Entry)
  /\ free = {}
  /\ ret' = FALSE
  /\ Return
  /\ UNCHANGED <<poolVars, kernel_pml4, cr3, tables, asked, smashed>>

\* The entry of the page is written, wherever at is, and the call returns
\* true.
MapStore ==
  /\ vpc = "walk"
  /\ level = 4
  /\ tables' = IF at \in DOMAIN tables
               THEN Store(at, call.virt[4], pte_create(call.phys, call.flags))
               ELSE tables
  /\ asked' = [v \in DOMAIN asked \cup {call.virt} |->
                 IF v = call.virt THEN call ELSE asked[v]]
  /\ ret' = TRUE
  /\ Return
  /\ UNCHANGED <<poolVars, kernel_pml4, cr3, smashed>>

VmmStep ==
  \/ InitFails \/ InitPml4 \/ InitPdpt \/ InitPd \/ InitHuge
  \/ ReadGarbage \/ Descend \/ AddTable \/ MapFails \/ MapStore

Next ==
  \/ VmmStep
  \/ \E virt \in Pages, phys \in Frames, flags \in FlagSets :
       vmm_map_page(virt, phys, flags)

Spec == Init /\ [][Next]_vars

-----------------------------------------------------------------------------
(***************************************************************************)
(* Properties.                                                             *)
(***************************************************************************)

Entries == [frame : Nat, flags : SUBSET Flags]

\* The values the variables range over.
TypeOK ==
  /\ PoolTypeOK
  /\ vpc \in {"pml4", "pdpt", "pd", "huge", "idle", "walk", "halted", "wild"}
  /\ level \in 0 .. 4
  /\ DOMAIN tables \subseteq held
  /\ \A t \in DOMAIN tables : tables[t] \in [Index -> Entries]
  /\ kernel_pml4 \in DOMAIN tables \cup {0}
  /\ cr3 \in {0, kernel_pml4}
  /\ at \in Nat
  /\ call \in [virt : Page, phys : Nat, flags : SUBSET Flags]
  /\ ret \in BOOLEAN /\ smashed \in BOOLEAN
  /\ DOMAIN asked \subseteq Page

\* The CPU's translation of a page from CR3: a fault at the first entry that
\* is not present, else the frame, writable if every entry says so.
Fault == [frame |-> 0, writable |-> FALSE, present |-> FALSE]

Walk(v) ==
  LET e1 == tables[cr3][v[1]]
      e2 == tables[e1.frame][v[2]]
      e3 == tables[e2.frame][v[3]]
      e4 == tables[e3.frame][v[4]]
      Hit(f, path) == [frame |-> f, present |-> TRUE,
                       writable |-> \A e \in path : "WRITABLE" \in e.flags]
  IN  IF ~pte_is_present(e1) THEN Fault
      ELSE IF ~pte_is_present(e2) THEN Fault
      ELSE IF ~pte_is_present(e3) THEN Fault
      ELSE IF "HUGE" \in e3.flags THEN Hit(e3.frame + v[4], {e1, e2, e3})
      ELSE IF ~pte_is_present(e4) THEN Fault
      ELSE Hit(e4.frame, {e1, e2, e3, e4})

Low(v) == v[1] = 0 /\ v[2] = 0 /\ v[3] < HUGE

\* What a page should translate to: the first 16 MB to themselves, a page
\* vmm_map_page returned true for to what was asked last, others to nothing.
Promised(v) ==
  IF Low(v)
  THEN [frame |-> v[3] * ENTRIES + v[4], present |-> TRUE, writable |-> TRUE]
  ELSE IF v \in DOMAIN asked /\ "PRESENT" \in asked[v].flags
  THEN [frame |-> asked[v].phys, present |-> TRUE,
        writable |-> "WRITABLE" \in asked[v].flags]
  ELSE Fault

\* Once vmm_init has loaded CR3, every page translates to what was promised:
\* a mapping, a new table or a call that fails half way disturbs no other
\* page, and the kernel stays mapped.  Calls for a page inside a huge one
\* are excepted: they store into that page's memory.
TranslationExact ==
  (cr3 # 0 /\ ~smashed) => \A v \in Page : Walk(v) = Promised(v)

\* The tables that the ones in the set ts point to.
LinksOf(ts) ==
  {l \in ts \X Index : /\ pte_is_present(tables[l[1]][l[2]])
                       /\ "HUGE" \notin tables[l[1]][l[2]].flags}
Children(ts) == {tables[l[1]][l[2]].frame : l \in LinksOf(ts)}

\* No frame is lost or shared: also after failures, the frames the VMM has
\* taken are the tables reachable from kernel_pml4, each by one entry only.
TablesFormTree ==
  (kernel_pml4 # 0 /\ ~smashed /\ vpc # "halted") =>
    LET pdpts == Children({kernel_pml4})
        pds == Children(pdpts)
        upper == {kernel_pml4} \cup pdpts \cup pds
    IN  /\ held = upper \cup Children(pds)
        /\ Cardinality(LinksOf(upper)) = Cardinality(held) - 1

=============================================================================
