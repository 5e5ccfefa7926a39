------------------------------ MODULE VmmProofs ------------------------------
(***************************************************************************)
(* Proofs about module Vmm, for tables of any size, any number of huge     *)
(* pages, any pool of frames and any requests.                             *)
(*                                                                         *)
(* The inductive invariant says that the tables form a tree by giving      *)
(* every table its place: lv[t] is the level, 1 for the PML4 to 4 for a    *)
(* PT, and ix[t][k], for k below the level, the index by which the path    *)
(* from the root leaves level k.  No two tables have the same place, an    *)
(* entry that is present leads to the table in the place below, every      *)
(* table but the root is led to, and the last level holds what was asked.  *)
(***************************************************************************)
EXTENDS Vmm, FiniteSetTheorems, TLAPS

Place == [1 .. 3 -> Index]

\* Tables t and u, or table t and page v, go the same way down to level n.
SameWay(ix, t, u, n) == \A k \in 1 .. 3 : k < n => ix[t][k] = ix[u][k]
OnWay(ix, t, v, n) == \A k \in 1 .. 3 : k < n => ix[t][k] = v[k]

\* Table c is in the place below entry i of table t.
Below(lv, ix, c, t, i) ==
  /\ lv[c] = lv[t] + 1
  /\ SameWay(ix, c, t, lv[t])
  /\ ix[c][lv[t]] = i

\* Entry i of table t is one of vmm_init's huge pages.
IsHuge(lv, ix, t, i) ==
  /\ lv[t] = 3 /\ ix[t][1] = 0 /\ ix[t][2] = 0 /\ i < HUGE
  /\ tables[t][i] = HugeEntry(i)

\* Entry i of table t leads to table c.
Leads(lv, t, i, c) ==
  lv[t] < 4 /\ tables[t][i] = pte_create(c, TableFlags)

\* What the last level has for page v.
Wanted(v) ==
  IF v \in DOMAIN asked THEN pte_create(asked[v].phys, asked[v].flags)
  ELSE pte_create(0, {})

Placed(lv, ix) ==
  /\ lv \in [DOMAIN tables -> 1 .. 4]
  /\ ix \in [DOMAIN tables -> Place]
  /\ \A t \in DOMAIN tables : lv[t] = 1 <=> t = kernel_pml4
  /\ \A t, u \in DOMAIN tables : lv[t] = lv[u] /\ SameWay(ix, t, u, lv[t]) => t = u

Linked(lv, ix) ==
  /\ \A t \in DOMAIN tables, i \in Index :
       lv[t] < 4 /\ pte_is_present(tables[t][i]) =>
         \/ cr3 # 0 /\ IsHuge(lv, ix, t, i)
         \/ \E c \in DOMAIN tables : Leads(lv, t, i, c) /\ Below(lv, ix, c, t, i)
  /\ \A c \in DOMAIN tables : c # kernel_pml4 =>
       \E t \in DOMAIN tables, i \in Index : Leads(lv, t, i, c)

Leaves(lv, ix) ==
  /\ \A t \in DOMAIN tables, v \in Page :
       lv[t] = 4 /\ OnWay(ix, t, v, 4) => tables[t][v[4]] = Wanted(v)
  /\ \A v \in DOMAIN asked :
       v \in Page /\ \E t \in DOMAIN tables : lv[t] = 4 /\ OnWay(ix, t, v, 4)

\* vmm_init's huge pages are all there once CR3 is loaded.
LowMapped(lv, ix) ==
  cr3 # 0 => \E t \in DOMAIN tables :
               \A i \in Index : i < HUGE => IsHuge(lv, ix, t, i)

Tree(lv, ix) ==
  Placed(lv, ix) /\ Linked(lv, ix) /\ Leaves(lv, ix) /\ LowMapped(lv, ix)

\* Where vmm_init and vmm_map_page are in the tree.
InitLevel == CASE vpc = "pdpt" -> 1 [] vpc = "pd" -> 2 [] vpc = "huge" -> 3 [] OTHER -> 0
Located(lv, ix) ==
  /\ vpc \in {"pdpt", "pd", "huge"} =>
       /\ at \in DOMAIN tables /\ tables[at] = EmptyTable
       /\ lv[at] = InitLevel /\ \A k \in 1 .. 3 : k < lv[at] => ix[at][k] = 0
       /\ cr3 = 0
  /\ vpc = "walk" =>
       IF kernel_pml4 = 0 THEN at = 0 /\ level = 1
       ELSE at \in DOMAIN tables /\ lv[at] = level /\ OnWay(ix, at, call.virt, level)

PoolOK ==
  /\ up = TRUE
  /\ free \subseteq Nat \ {0} /\ held \subseteq Nat \ {0}
  /\ free \cap held = {}
  /\ IsFiniteSet(held)
  /\ vpc # "halted" => held = DOMAIN tables

ControlOK ==
  /\ kernel_pml4 = 0 => DOMAIN tables = {}
  /\ vpc = "pml4" => kernel_pml4 = 0 /\ at = 0
  /\ vpc \in {"pdpt", "pd", "huge"} => kernel_pml4 # 0
  /\ vpc \in {"pml4", "pdpt", "pd", "huge"} => ~smashed
  /\ vpc = "walk" => level \in 1 .. 4
  /\ "HUGE" \notin call.flags

IInv ==
  /\ TypeOK /\ PoolOK /\ ControlOK
  /\ ~smashed => \E lv, ix : Tree(lv, ix) /\ Located(lv, ix)

-----------------------------------------------------------------------------
(***************************************************************************)
(* Entries and places.                                                     *)
(***************************************************************************)
LEMMA EntryFacts ==
  ASSUME NEW c, NEW f
  PROVE  /\ pte_create(c, f).frame = c /\ pte_create(c, f).flags = f
         /\ pte_is_present(pte_create(c, f)) <=> "PRESENT" \in f
         /\ c \in Nat /\ f \in SUBSET Flags => pte_create(c, f) \in Entries
BY DEF pte_create, pte_is_present, Entries

LEMMA TableEntry ==
  ASSUME NEW c
  PROVE  LET e == pte_create(c, TableFlags)
         IN  /\ pte_is_present(e) /\ "HUGE" \notin e.flags /\ "WRITABLE" \in e.flags
             /\ e.frame = c /\ (c \in Nat => e \in Entries)
BY EntryFacts DEF TableFlags, Flags

LEMMA NoEntry ==
  /\ ~pte_is_present(pte_create(0, {})) /\ pte_create(0, {}) \in Entries
  /\ EmptyTable \in [Index -> Entries]
  /\ \A i \in Index : EmptyTable[i] = pte_create(0, {})
BY EntryFacts DEF EmptyTable

LEMMA HugeFacts ==
  ASSUME NEW i \in Index
  PROVE  /\ HugeEntry(i) \in Entries
         /\ i < HUGE => /\ pte_is_present(HugeEntry(i)) /\ "HUGE" \in HugeEntry(i).flags
                        /\ "WRITABLE" \in HugeEntry(i).flags
                        /\ HugeEntry(i).frame = i * ENTRIES
         /\ ~(i < HUGE) => HugeEntry(i) = pte_create(0, {})
<1>1. i \in Nat /\ ENTRIES \in Nat /\ HUGE \in Nat
  BY VmmAssumption DEF Index
<1>2. i * ENTRIES \in Nat
  BY <1>1
<1>3. TableFlags \cup {"HUGE"} \in SUBSET Flags
  BY DEF TableFlags, Flags
<1>4. CASE i < HUGE
  <2>1. HugeEntry(i) = pte_create(i * ENTRIES, TableFlags \cup {"HUGE"})
    BY <1>4 DEF HugeEntry
  <2> QED
    BY <2>1, <1>2, <1>3, <1>4, EntryFacts DEF TableFlags
<1>5. CASE ~(i < HUGE)
  BY <1>5, NoEntry DEF HugeEntry
<1> QED
  BY <1>4, <1>5

LEMMA TreeTypes ==
  ASSUME NEW lv, NEW ix, Placed(lv, ix), NEW t \in DOMAIN tables
  PROVE  /\ lv[t] \in 1 .. 4 /\ ix[t] \in [1 .. 3 -> Index]
         /\ \A k \in 1 .. 3 : ix[t][k] \in Index
BY DEF Placed, Place

\* A table other than the root is in the place below the entry that leads
\* to it.
LEMMA ParentBelow ==
  ASSUME NEW lv, NEW ix, Placed(lv, ix), Linked(lv, ix),
         NEW c \in DOMAIN tables, c # kernel_pml4
  PROVE  \E t \in DOMAIN tables, i \in Index :
           Leads(lv, t, i, c) /\ Below(lv, ix, c, t, i)
<1>1. PICK t \in DOMAIN tables, i \in Index : Leads(lv, t, i, c)
  BY DEF Linked
<1>2. lv[t] < 4 /\ tables[t][i] = pte_create(c, TableFlags)
  BY <1>1 DEF Leads
<1>3. pte_is_present(tables[t][i]) /\ "HUGE" \notin tables[t][i].flags
      /\ tables[t][i].frame = c
  BY <1>2, TableEntry
<1>4. \/ IsHuge(lv, ix, t, i)
      \/ \E d \in DOMAIN tables : Leads(lv, t, i, d) /\ Below(lv, ix, d, t, i)
  BY <1>2, <1>3 DEF Linked
<1>5. ~IsHuge(lv, ix, t, i)
  BY <1>3, HugeFacts DEF IsHuge
<1>6. PICK d \in DOMAIN tables : Leads(lv, t, i, d) /\ Below(lv, ix, d, t, i)
  BY <1>4, <1>5
<1>7. d = c
  BY <1>3, <1>6, TableEntry DEF Leads
<1> QED
  BY <1>6, <1>7

\* The table in the place below an entry is the one the entry leads to.
LEMMA EntryTo ==
  ASSUME NEW lv, NEW ix, Placed(lv, ix), Linked(lv, ix),
         NEW c \in DOMAIN tables, NEW t \in DOMAIN tables, NEW i \in Index,
         Below(lv, ix, c, t, i)
  PROVE  Leads(lv, t, i, c)
<1>1. lv[c] \in 1 .. 4 /\ lv[t] \in 1 .. 4
  BY TreeTypes
<1>2. lv[c] = lv[t] + 1 /\ SameWay(ix, c, t, lv[t]) /\ ix[c][lv[t]] = i
  BY DEF Below
<1>3. c # kernel_pml4
  BY <1>1, <1>2 DEF Placed
<1>4. PICK u \in DOMAIN tables, j \in Index :
        Leads(lv, u, j, c) /\ Below(lv, ix, c, u, j)
  BY <1>3, ParentBelow
<1>5. lv[c] = lv[u] + 1 /\ SameWay(ix, c, u, lv[u]) /\ ix[c][lv[u]] = j /\ lv[u] \in 1 .. 4
  BY <1>4, TreeTypes DEF Below
<1>6. lv[u] = lv[t]
  BY <1>1, <1>2, <1>5
<1>7. SameWay(ix, t, u, lv[t])
  BY <1>2, <1>5, <1>6 DEF SameWay
<1>8. t = u /\ i = j
  BY <1>2, <1>5, <1>6, <1>7 DEF Placed
<1> QED
  BY <1>4, <1>8

-----------------------------------------------------------------------------
(***************************************************************************)
(* alloc_page_table and the store that links the new table.                *)
(***************************************************************************)

\* Table q is new, and entry i of table t leads to it.
Grown(t, i, q) ==
  /\ DOMAIN tables' = DOMAIN tables \cup {q}
  /\ tables'[q] = EmptyTable
  /\ \A x \in DOMAIN tables, j \in Index :
       tables'[x][j] = IF x = t /\ j = i THEN pte_create(q, TableFlags)
                       ELSE tables[x][j]
  /\ \A x \in DOMAIN tables : tables'[x] \in [Index -> Entries]

LEMMA Growing ==
  ASSUME TypeOK, NEW t \in DOMAIN tables, t # 0, NEW i \in Index, NEW q \in Nat,
         q \notin DOMAIN tables,
         tables' = [x \in DOMAIN tables \cup {q} |->
                      IF x = q THEN EmptyTable ELSE LinkAt(t, i, q)[x]]
  PROVE  Grown(t, i, q)
<1>1. \A x \in DOMAIN tables : tables[x] \in [Index -> Entries]
  BY DEF TypeOK
<1>2. PICK e : e = pte_create(q, TableFlags)
  OBVIOUS
<1>3. e \in Entries
  BY <1>2, TableEntry
<1>4. PICK n : n = LinkAt(t, i, q)
  OBVIOUS
<1>5. n = [tables EXCEPT ![t][i] = e]
  BY <1>2, <1>4 DEF LinkAt, Store
<1>6. ASSUME NEW x \in DOMAIN tables
      PROVE  /\ n[x] \in [Index -> Entries]
             /\ \A j \in Index : n[x][j] = IF x = t /\ j = i THEN e ELSE tables[x][j]
  <2>1. CASE x = t
    <3>1. n[x] = [tables[x] EXCEPT ![i] = e]
      BY <2>1, <1>5
    <3> QED
      BY <3>1, <2>1, <1>1, <1>3
  <2>2. CASE x # t
    <3>1. n[x] = tables[x]
      BY <2>2, <1>5
    <3> QED
      BY <3>1, <2>2, <1>1
  <2> QED
    BY <2>1, <2>2
<1>7. \A x \in DOMAIN tables : tables'[x] = n[x]
  BY <1>4
<1>8. DOMAIN tables' = DOMAIN tables \cup {q} /\ tables'[q] = EmptyTable
  OBVIOUS
<1> QED
  BY <1>2, <1>6, <1>7, <1>8 DEF Grown

\* The places of the tables, with the new one in the place below.
NewLevels(lv, t, q) ==
  [x \in DOMAIN tables \cup {q} |-> IF x = q THEN lv[t] + 1 ELSE lv[x]]
NewPlaces(lv, ix, t, i, q) ==
  [x \in DOMAIN tables \cup {q} |->
     IF x = q THEN [ix[t] EXCEPT ![lv[t]] = i] ELSE ix[x]]

NewPlaced(lv, ix, t, i, q, l, x) ==
  /\ l \in [DOMAIN tables \cup {q} -> 1 .. 4]
  /\ x \in [DOMAIN tables \cup {q} -> Place]
  /\ \A y \in DOMAIN tables : l[y] = lv[y] /\ x[y] = ix[y]
  /\ Below(l, x, q, t, i)

LEMMA NewFacts ==
  ASSUME NEW lv, NEW ix, Placed(lv, ix), NEW t \in DOMAIN tables, lv[t] < 4,
         NEW i \in Index, NEW q, q \notin DOMAIN tables
  PROVE  \E l, x : NewPlaced(lv, ix, t, i, q, l, x)
<1>1. PICK l : l = NewLevels(lv, t, q)
  OBVIOUS
<1>2. PICK x : x = NewPlaces(lv, ix, t, i, q)
  OBVIOUS
<1>3. lv[t] \in 1 .. 3 /\ ix[t] \in [1 .. 3 -> Index]
  BY TreeTypes
<1>4. \A y \in DOMAIN tables : lv[y] \in 1 .. 4 /\ ix[y] \in [1 .. 3 -> Index]
  BY TreeTypes
<1>5. l[q] = lv[t] + 1 /\ x[q] = [ix[t] EXCEPT ![lv[t]] = i]
  BY <1>1, <1>2 DEF NewLevels, NewPlaces
<1>6. lv[t] + 1 \in 1 .. 4
  BY <1>3
<1>7. x[q] \in [1 .. 3 -> Index]
  BY <1>3, <1>5
<1>8. \A y \in DOMAIN tables : l[y] = lv[y] /\ x[y] = ix[y]
  BY <1>1, <1>2 DEF NewLevels, NewPlaces
<1>9. Below(l, x, q, t, i)
  <2>1. \A k \in 1 .. 3 : k < lv[t] => x[q][k] = ix[t][k]
    BY <1>3, <1>5
  <2>2. x[q][lv[t]] = i
    BY <1>3, <1>5
  <2> QED
    BY <2>1, <2>2, <1>5, <1>8 DEF Below, SameWay
<1>10. l \in [DOMAIN tables \cup {q} -> 1 .. 4]
  BY <1>4, <1>6, <1>1 DEF NewLevels
<1>11. x \in [DOMAIN tables \cup {q} -> [1 .. 3 -> Index]]
  BY <1>4, <1>5, <1>7, <1>8, <1>2 DEF NewPlaces
<1> QED
  BY <1>8, <1>9, <1>10, <1>11 DEF Place, NewPlaced

\* The tree stays one: the new table is alone in its place, because the
\* entry above it led nowhere, and it changes no other entry.
LEMMA GrowTree ==
  ASSUME NEW lv, NEW ix, Tree(lv, ix), NEW t \in DOMAIN tables, lv[t] < 4,
         NEW i \in Index, ~pte_is_present(tables[t][i]),
         NEW q, q \notin DOMAIN tables, kernel_pml4 \in DOMAIN tables,
         Grown(t, i, q), UNCHANGED <<kernel_pml4, cr3, asked>>
  PROVE  \E l, x : /\ Tree(l, x)'
                   /\ \A y \in DOMAIN tables : l[y] = lv[y] /\ x[y] = ix[y]
                   /\ Below(l, x, q, t, i)
<1> DEFINE D == DOMAIN tables
<1>1. Placed(lv, ix) /\ Linked(lv, ix) /\ Leaves(lv, ix) /\ LowMapped(lv, ix)
  BY DEF Tree
<1>2. PICK l, x : NewPlaced(lv, ix, t, i, q, l, x)
  BY <1>1, NewFacts
<1>3. /\ l \in [D \cup {q} -> 1 .. 4] /\ x \in [D \cup {q} -> Place]
      /\ \A y \in D : l[y] = lv[y] /\ x[y] = ix[y]
      /\ Below(l, x, q, t, i)
  BY <1>2 DEF NewPlaced
<1>4. lv[t] \in 1 .. 3 /\ l[q] = lv[t] + 1 /\ x[q][lv[t]] = i
      /\ \A k \in 1 .. 3 : k < lv[t] => x[q][k] = ix[t][k]
  BY <1>1, <1>3, TreeTypes DEF Below, SameWay
<1>5. /\ DOMAIN tables' = D \cup {q} /\ tables'[q] = EmptyTable
      /\ \A y \in D, j \in Index :
           tables'[y][j] = IF y = t /\ j = i THEN pte_create(q, TableFlags)
                           ELSE tables[y][j]
  BY DEF Grown
<1>6. \A y \in D, j \in Index :
        pte_is_present(tables[y][j]) => tables'[y][j] = tables[y][j]
  BY <1>5
<1>7. ASSUME NEW y \in D, lv[y] = lv[t] + 1,
             \A k \in 1 .. 3 : k < lv[t] + 1 => ix[y][k] = x[q][k]
      PROVE  FALSE
  <2>1. Below(lv, ix, y, t, i)
    <3>1. \A k \in 1 .. 3 : k < lv[t] => ix[y][k] = ix[t][k]
      BY <1>4, <1>7
    <3>2. ix[y][lv[t]] = i
      BY <1>4, <1>7
    <3> QED
      BY <3>1, <3>2, <1>7 DEF Below, SameWay
  <2>2. Leads(lv, t, i, y)
    BY <2>1, <1>1, EntryTo
  <2> QED
    BY <2>2, TableEntry DEF Leads
<1>8. ASSUME NEW y \in D \cup {q}, NEW z \in D \cup {q}, l[y] = l[z],
             SameWay(x, y, z, l[y])
      PROVE  y = z
  <2>1. CASE y \in D /\ z \in D
    <3>1. lv[y] = lv[z] /\ SameWay(ix, y, z, lv[y])
      BY <2>1, <1>3, <1>8 DEF SameWay
    <3> QED
      BY <3>1, <2>1, <1>1 DEF Placed
  <2>2. CASE y = q /\ z \in D
    BY <2>2, <1>3, <1>4, <1>7, <1>8 DEF SameWay
  <2>3. CASE y \in D /\ z = q
    BY <2>3, <1>3, <1>4, <1>7, <1>8 DEF SameWay
  <2> QED
    BY <2>1, <2>2, <2>3
<1>9. Placed(l, x)'
  <2>1. \A y \in D \cup {q} : l[y] = 1 <=> y = kernel_pml4
    BY <1>1, <1>3, <1>4 DEF Placed
  <2> QED
    BY <2>1, <1>3, <1>5, <1>8 DEF Placed
<1>10. \A y \in D, j \in Index : \A c : Leads(lv, y, j, c) => Leads(l, y, j, c)'
  BY <1>3, <1>6, TableEntry DEF Leads
<1>11. Leads(l, t, i, q)'
  BY <1>3, <1>5 DEF Leads
<1>12. \A y \in D, j \in Index : IsHuge(lv, ix, y, j) => IsHuge(l, x, y, j)'
  BY <1>3, <1>6, HugeFacts DEF IsHuge
<1>13. \A y \in D, c \in D, j \in Index : Below(lv, ix, c, y, j) => Below(l, x, c, y, j)
  BY <1>3 DEF Below, SameWay
<1>14. Linked(l, x)'
  <2>1. ASSUME NEW y \in D \cup {q}, NEW j \in Index, l[y] < 4,
               pte_is_present(tables'[y][j])
        PROVE  \/ cr3' # 0 /\ IsHuge(l, x, y, j)'
               \/ \E c \in D \cup {q} : Leads(l, y, j, c)' /\ Below(l, x, c, y, j)
    <3>1. y # q
      BY <2>1, <1>5, NoEntry
    <3>2. y \in D /\ lv[y] < 4
      BY <3>1, <2>1, <1>3
    <3>3. CASE y = t /\ j = i
      BY <3>3, <1>3, <1>11
    <3>4. CASE ~(y = t /\ j = i)
      <4>1. pte_is_present(tables[y][j])
        BY <3>2, <3>4, <2>1, <1>5
      <4>2. \/ cr3 # 0 /\ IsHuge(lv, ix, y, j)
            \/ \E c \in D : Leads(lv, y, j, c) /\ Below(lv, ix, c, y, j)
        BY <4>1, <3>2, <1>1 DEF Linked
      <4> QED
        BY <4>2, <3>2, <1>10, <1>12, <1>13
    <3> QED
      BY <3>3, <3>4
  <2>2. ASSUME NEW c \in D \cup {q}, c # kernel_pml4'
        PROVE  \E y \in D \cup {q}, j \in Index : Leads(l, y, j, c)'
    <3>1. CASE c = q
      BY <3>1, <1>11
    <3>2. CASE c \in D
      <4>1. PICK y \in D, j \in Index : Leads(lv, y, j, c)
        BY <3>2, <2>2, <1>1 DEF Linked
      <4> QED
        BY <4>1, <1>10
    <3> QED
      BY <3>1, <3>2
  <2> QED
    BY <2>1, <2>2, <1>5 DEF Linked
<1>15. \A y \in D, v \in Page : \A n : OnWay(x, y, v, n) <=> OnWay(ix, y, v, n)
  BY <1>3 DEF OnWay
<1>16. \A v : Wanted(v)' = Wanted(v)
  BY DEF Wanted
<1>17. Leaves(l, x)'
  <2>1. ASSUME NEW v \in DOMAIN asked
        PROVE  v \in Page /\ \E y \in D : lv[y] = 4 /\ l[y] = 4 /\ OnWay(ix, y, v, 4)
                                          /\ OnWay(x, y, v, 4)
    <3>1. v \in Page /\ \E y \in D : lv[y] = 4 /\ OnWay(ix, y, v, 4)
      BY <1>1 DEF Leaves
    <3> QED
      BY <3>1, <1>3, <1>15
  <2>2. ASSUME NEW y \in D \cup {q}, NEW v \in Page, l[y] = 4, OnWay(x, y, v, 4)
        PROVE  tables'[y][v[4]] = Wanted(v)
    <3>1. v[4] \in Index
      BY DEF Page
    <3>2. CASE y = q
      <4>1. v \notin DOMAIN asked
        <5>1. SUFFICES ASSUME v \in DOMAIN asked PROVE FALSE
          OBVIOUS
        <5>2. PICK z \in D : lv[z] = 4 /\ OnWay(ix, z, v, 4)
          BY <5>1, <2>1
        <5> QED
          BY <5>2, <3>2, <2>2, <1>4, <1>7 DEF OnWay
      <4> QED
        BY <4>1, <3>1, <3>2, <1>5, NoEntry DEF Wanted
    <3>3. CASE y \in D
      <4>1. lv[y] = 4 /\ OnWay(ix, y, v, 4) /\ y # t
        BY <3>3, <2>2, <1>3, <1>4, <1>15
      <4>2. tables[y][v[4]] = Wanted(v)
        BY <4>1, <3>3, <1>1 DEF Leaves
      <4> QED
        BY <4>1, <4>2, <3>1, <3>3, <1>5
    <3> QED
      BY <3>2, <3>3
  <2> QED
    BY <2>1, <2>2, <1>5, <1>16 DEF Leaves
<1>18. LowMapped(l, x)'
  <2>1. SUFFICES ASSUME cr3 # 0
                 PROVE  \E y \in D : \A j \in Index : j < HUGE => IsHuge(l, x, y, j)'
    BY <1>5 DEF LowMapped
  <2>2. PICK y \in D : \A j \in Index : j < HUGE => IsHuge(lv, ix, y, j)
    BY <2>1, <1>1 DEF LowMapped
  <2> QED
    BY <2>2, <1>12
<1> QED
  BY <1>3, <1>9, <1>14, <1>17, <1>18 DEF Tree

-----------------------------------------------------------------------------
(***************************************************************************)
(* The other stores: an entry of the last level, and the huge pages.       *)
(***************************************************************************)
LEMMA PageFacts ==
  ASSUME NEW v \in Page
  PROVE  /\ \A k \in 1 .. 4 : v[k] \in Index
         /\ v[1] \in Index /\ v[2] \in Index /\ v[3] \in Index /\ v[4] \in Index
         /\ \A w \in Page : (\A k \in 1 .. 4 : v[k] = w[k]) => v = w
<1>1. \A k \in 1 .. 4 : k = 1 \/ k = 2 \/ k = 3 \/ k = 4
  OBVIOUS
<1>2. v[1] \in Index /\ v[2] \in Index /\ v[3] \in Index /\ v[4] \in Index
  BY DEF Page
<1>3. ASSUME NEW w \in Page, \A k \in 1 .. 4 : v[k] = w[k] PROVE v = w
  BY <1>3 DEF Page
<1> QED
  BY <1>1, <1>2, <1>3

\* vmm_map_page's last store changes one page.
LEMMA StoreTree ==
  ASSUME TypeOK, NEW lv, NEW ix, Tree(lv, ix), at \in DOMAIN tables, lv[at] = 4,
         OnWay(ix, at, call.virt, 4),
         tables' = Store(at, call.virt[4], pte_create(call.phys, call.flags)),
         asked' = [v \in DOMAIN asked \cup {call.virt} |->
                     IF v = call.virt THEN call ELSE asked[v]],
         UNCHANGED <<kernel_pml4, cr3>>
  PROVE  Tree(lv, ix)'
<1> DEFINE D == DOMAIN tables
<1>1. PICK w : w = call.virt
  OBVIOUS
<1>2. PICK e : e = pte_create(call.phys, call.flags)
  OBVIOUS
<1>3. w \in Page /\ w[4] \in Index /\ \A k \in 1 .. 3 : ix[at][k] = w[k]
  <2>1. w \in Page
    BY <1>1 DEF TypeOK
  <2> QED
    BY <2>1, <1>1, PageFacts DEF OnWay
<1>4. /\ DOMAIN tables' = D
      /\ \A y \in D, j \in Index :
           tables'[y][j] = IF y = at /\ j = w[4] THEN e ELSE tables[y][j]
  <2>1. tables' = [tables EXCEPT ![at][w[4]] = e]
    BY <1>1, <1>2 DEF Store
  <2>2. tables[at] \in [Index -> Entries]
    BY DEF TypeOK
  <2> QED
    BY <2>1, <2>2, <1>3
<1>5. Placed(lv, ix) /\ Linked(lv, ix) /\ Leaves(lv, ix) /\ LowMapped(lv, ix)
  BY DEF Tree
<1>6. \A y \in D : lv[y] < 4 => \A j \in Index : tables'[y][j] = tables[y][j]
  BY <1>4
<1>7. Placed(lv, ix)'
  BY <1>4, <1>5 DEF Placed
<1>8. \A y \in D, j \in Index : \A c : Leads(lv, y, j, c)' <=> Leads(lv, y, j, c)
  BY <1>6 DEF Leads
<1>9. \A y \in D, j \in Index : IsHuge(lv, ix, y, j)' <=> IsHuge(lv, ix, y, j)
  BY <1>6 DEF IsHuge
<1>10. Linked(lv, ix)'
  <2>1. ASSUME NEW y \in D, NEW j \in Index, lv[y] < 4, pte_is_present(tables'[y][j])
        PROVE  \/ cr3' # 0 /\ IsHuge(lv, ix, y, j)'
               \/ \E c \in D : Leads(lv, y, j, c)' /\ Below(lv, ix, c, y, j)
    <3>1. pte_is_present(tables[y][j])
      BY <2>1, <1>6
    <3>2. \/ cr3 # 0 /\ IsHuge(lv, ix, y, j)
          \/ \E c \in D : Leads(lv, y, j, c) /\ Below(lv, ix, c, y, j)
      BY <3>1, <2>1, <1>5 DEF Linked
    <3> QED
      BY <3>2, <1>8, <1>9
  <2>2. ASSUME NEW c \in D, c # kernel_pml4'
        PROVE  \E y \in D, j \in Index : Leads(lv, y, j, c)'
    <3>1. PICK y \in D, j \in Index : Leads(lv, y, j, c)
      BY <2>2, <1>5 DEF Linked
    <3> QED
      BY <3>1, <1>8
  <2> QED
    BY <2>1, <2>2, <1>4 DEF Linked
<1>11. DOMAIN asked' = DOMAIN asked \cup {w}
  BY <1>1
<1>12. Wanted(w)' = e /\ \A v : v # w => Wanted(v)' = Wanted(v)
  BY <1>1, <1>2, <1>11 DEF Wanted
<1>13. Leaves(lv, ix)'
  <2>1. ASSUME NEW y \in D, NEW v \in Page, lv[y] = 4, OnWay(ix, y, v, 4)
        PROVE  tables'[y][v[4]] = Wanted(v)'
    <3>1. v[4] \in Index /\ \A k \in 1 .. 3 : ix[y][k] = v[k]
      BY <2>1, PageFacts DEF OnWay
    <3>2. CASE v = w
      <4>1. SameWay(ix, y, at, 4)
        BY <3>1, <3>2, <1>3 DEF SameWay
      <4>2. y = at
        BY <4>1, <2>1, <1>5 DEF Placed
      <4> QED
        BY <4>2, <3>2, <1>3, <1>4, <1>12
    <3>3. CASE v # w
      <4>1. ~(y = at /\ v[4] = w[4])
        <5>1. SUFFICES ASSUME y = at, v[4] = w[4] PROVE FALSE
          OBVIOUS
        <5>2. \A k \in 1 .. 3 : v[k] = w[k]
          BY <5>1, <3>1, <1>3
        <5>3. \A k \in 1 .. 4 : v[k] = w[k]
          BY <5>1, <5>2
        <5> QED
          BY <5>3, <3>3, <1>3, PageFacts
      <4>2. tables'[y][v[4]] = tables[y][v[4]]
        BY <4>1, <3>1, <1>4
      <4>3. tables[y][v[4]] = Wanted(v)
        BY <2>1, <1>5 DEF Leaves
      <4> QED
        BY <4>2, <4>3, <3>3, <1>12
    <3> QED
      BY <3>2, <3>3
  <2>2. ASSUME NEW v \in DOMAIN asked'
        PROVE  v \in Page /\ \E y \in D : lv[y] = 4 /\ OnWay(ix, y, v, 4)
    <3>1. CASE v = w
      BY <3>1, <1>1, <1>3
    <3>2. CASE v # w
      BY <3>2, <2>2, <1>5, <1>11 DEF Leaves
    <3> QED
      BY <3>1, <3>2
  <2> QED
    BY <2>1, <2>2, <1>4 DEF Leaves
<1>14. LowMapped(lv, ix)'
  <2>1. SUFFICES ASSUME cr3 # 0
                 PROVE  \E y \in D : \A j \in Index : j < HUGE => IsHuge(lv, ix, y, j)'
    BY <1>4 DEF LowMapped
  <2>2. PICK y \in D : \A j \in Index : j < HUGE => IsHuge(lv, ix, y, j)
    BY <2>1, <1>5 DEF LowMapped
  <2> QED
    BY <2>2, <1>9
<1> QED
  BY <1>7, <1>10, <1>13, <1>14 DEF Tree

\* vmm_init's loop fills a PD that was empty.
LEMMA HugeTree ==
  ASSUME TypeOK, NEW lv, NEW ix, Tree(lv, ix), at \in DOMAIN tables,
         tables[at] = EmptyTable, lv[at] = 3, ix[at][1] = 0, ix[at][2] = 0, cr3 = 0,
         tables' = [tables EXCEPT ![at] = [i \in Index |-> HugeEntry(i)]],
         cr3' = kernel_pml4, kernel_pml4 # 0, UNCHANGED <<kernel_pml4, asked>>
  PROVE  Tree(lv, ix)'
<1> DEFINE D == DOMAIN tables
<1>0. PICK a \in D : a = at
  OBVIOUS
<1>1. /\ DOMAIN tables' = D /\ \A j \in Index : tables'[a][j] = HugeEntry(j)
      /\ \A y \in D : y # a => tables'[y] = tables[y]
  BY <1>0
<1>2. Placed(lv, ix) /\ Linked(lv, ix) /\ Leaves(lv, ix)
  BY DEF Tree
<1>3. \A j \in Index : ~pte_is_present(tables[a][j])
  BY <1>0, NoEntry
<1>4. Placed(lv, ix)'
  BY <1>1, <1>2 DEF Placed
<1>5. \A j \in Index : j < HUGE => IsHuge(lv, ix, a, j)'
  BY <1>0, <1>1 DEF IsHuge
<1>6. \A y \in D, j \in Index : \A c : Leads(lv, y, j, c) => y # a /\ Leads(lv, y, j, c)'
  BY <1>1, <1>3, TableEntry DEF Leads
<1>7. Linked(lv, ix)'
  <2>1. ASSUME NEW y \in D, NEW j \in Index, lv[y] < 4, pte_is_present(tables'[y][j])
        PROVE  \/ cr3' # 0 /\ IsHuge(lv, ix, y, j)'
               \/ \E c \in D : Leads(lv, y, j, c)' /\ Below(lv, ix, c, y, j)
    <3>1. CASE y = a
      <4>1. j < HUGE
        BY <3>1, <2>1, <1>1, HugeFacts, NoEntry
      <4> QED
        BY <4>1, <3>1, <1>5
    <3>2. CASE y # a
      <4>1. PICK c \in D : Leads(lv, y, j, c) /\ Below(lv, ix, c, y, j)
        BY <3>2, <2>1, <1>1, <1>2 DEF Linked
      <4> QED
        BY <4>1, <1>6
    <3> QED
      BY <3>1, <3>2
  <2>2. ASSUME NEW c \in D, c # kernel_pml4'
        PROVE  \E y \in D, j \in Index : Leads(lv, y, j, c)'
    <3>1. PICK y \in D, j \in Index : Leads(lv, y, j, c)
      BY <2>2, <1>2 DEF Linked
    <3> QED
      BY <3>1, <1>6
  <2> QED
    BY <2>1, <2>2, <1>1 DEF Linked
<1>8. \A v : Wanted(v)' = Wanted(v)
  BY DEF Wanted
<1>9. Leaves(lv, ix)'
  BY <1>0, <1>1, <1>2, <1>8 DEF Leaves
<1>10. LowMapped(lv, ix)'
  BY <1>1, <1>5 DEF LowMapped
<1> QED
  BY <1>4, <1>7, <1>9, <1>10 DEF Tree

-----------------------------------------------------------------------------
(***************************************************************************)
(* Every step keeps the invariant.                                         *)
(***************************************************************************)
LEMMA TreeSame ==
  ASSUME NEW lv, NEW ix, Tree(lv, ix), UNCHANGED <<tables, kernel_pml4, cr3, asked>>
  PROVE  Tree(lv, ix)'
<1>1. Placed(lv, ix)'
  BY DEF Tree, Placed
<1>2. Linked(lv, ix)'
  BY DEF Tree, Linked, Leads, IsHuge
<1>3. Leaves(lv, ix)'
  BY DEF Tree, Leaves, Wanted
<1>4. LowMapped(lv, ix)'
  BY DEF Tree, LowMapped, IsHuge
<1> QED
  BY <1>1, <1>2, <1>3, <1>4 DEF Tree

LEMMA NoCallType ==
  /\ NoCall \in [virt : Page, phys : Nat, flags : SUBSET Flags]
  /\ NoCall.flags = {}
<1>1. 0 \in Index
  BY VmmAssumption DEF Index
<1>2. <<0, 0, 0, 0>> \in Page
  BY <1>1 DEF Page
<1> QED
  BY <1>2 DEF NoCall

\* Frame q has become a table, entry i of table t leads to it.
Allocated(t, i, next, q) ==
  /\ q \in Nat \ {0} /\ q \notin DOMAIN tables /\ vpc' = next /\ at' = q
  /\ tables' = [x \in DOMAIN tables \cup {q} |->
                  IF x = q THEN EmptyTable ELSE LinkAt(t, i, q)[x]]
Faulted == vpc' = "halted" /\ UNCHANGED <<tables, at>>

LEMMA AllocFacts ==
  ASSUME TypeOK, PoolOK, NEW t, NEW i, NEW next, AllocTable(t, i, next),
         vpc # "halted", next # "halted"
  PROVE  /\ PoolOK' /\ PoolTypeOK' /\ DOMAIN tables' \subseteq held'
         /\ Faulted \/ \E q : Allocated(t, i, next, q)
<1>1. PICK q \in free :
        /\ Take(q)
        /\ \/ vpc' = "halted" /\ UNCHANGED <<tables, at>>
           \/ /\ vpc' = next /\ at' = q
              /\ tables' = [x \in DOMAIN tables \cup {q} |->
                              IF x = q THEN EmptyTable ELSE LinkAt(t, i, q)[x]]
  BY DEF AllocTable
<1>2. /\ up = TRUE /\ free \subseteq Nat \ {0} /\ held \subseteq Nat \ {0}
      /\ free \cap held = {} /\ IsFiniteSet(held) /\ held = DOMAIN tables
  BY DEF PoolOK
<1>3. q \in Nat \ {0} /\ q \notin DOMAIN tables
  BY <1>2
<1>4. up' = up /\ free' = free \ {q} /\ held' = held \cup {q}
  BY <1>1 DEF Take
<1>5. IsFiniteSet(held')
  BY <1>2, <1>4, FS_AddElement
<1>6. PoolTypeOK'
  BY <1>2, <1>3, <1>4 DEF PoolTypeOK
<1>7. CASE vpc' = "halted" /\ UNCHANGED <<tables, at>>
  <2>1. PoolOK'
    BY <1>2, <1>3, <1>4, <1>5, <1>7 DEF PoolOK
  <2> QED
    BY <2>1, <1>2, <1>4, <1>6, <1>7 DEF Faulted
<1>8. CASE /\ vpc' = next /\ at' = q
           /\ tables' = [x \in DOMAIN tables \cup {q} |->
                           IF x = q THEN EmptyTable ELSE LinkAt(t, i, q)[x]]
  <2>1. DOMAIN tables' = held'
    BY <1>2, <1>4, <1>8
  <2>2. PoolOK'
    BY <2>1, <1>2, <1>3, <1>4, <1>5 DEF PoolOK
  <2> QED
    BY <2>1, <2>2, <1>3, <1>6, <1>8 DEF Allocated
<1> QED
  BY <1>1, <1>7, <1>8

LEMMA InitPml4Step ==
  ASSUME IInv, InitPml4
  PROVE  IInv'
<1>1. /\ vpc = "pml4" /\ AllocTable(0, 0, "pdpt") /\ kernel_pml4' = at'
      /\ UNCHANGED <<level, cr3, call, ret, asked, smashed>>
  BY DEF InitPml4
<1>2. TypeOK /\ PoolOK /\ ControlOK
  BY DEF IInv
<1>3. kernel_pml4 = 0 /\ at = 0 /\ DOMAIN tables = {} /\ ~smashed /\ cr3 = 0
  BY <1>1, <1>2 DEF ControlOK, TypeOK
<1>4. PICK lv, ix : Tree(lv, ix) /\ Located(lv, ix)
  BY <1>3 DEF IInv
<1>5. DOMAIN asked = {}
  BY <1>3, <1>4 DEF Tree, Leaves
<1>6. /\ PoolOK' /\ PoolTypeOK' /\ DOMAIN tables' \subseteq held'
      /\ Faulted \/ \E q : Allocated(0, 0, "pdpt", q)
  BY <1>1, <1>2, AllocFacts
<1>7. CASE Faulted
  <2>1. /\ kernel_pml4' = 0 /\ UNCHANGED <<tables, kernel_pml4, cr3, asked, at>>
        /\ vpc' = "halted"
    BY <1>1, <1>3, <1>7 DEF Faulted
  <2>2. Tree(lv, ix)'
    BY <2>1, <1>4, TreeSame
  <2>3. Located(lv, ix)'
    BY <2>1 DEF Located
  <2>4. TypeOK'
    BY <2>1, <1>1, <1>2, <1>3, <1>6 DEF TypeOK
  <2>5. ControlOK'
    BY <2>1, <1>1, <1>2, <1>3 DEF ControlOK
  <2> QED
    BY <2>2, <2>3, <2>4, <2>5, <1>6 DEF IInv
<1>8. CASE \E q : Allocated(0, 0, "pdpt", q)
  <2>1. PICK q :
          /\ q \in Nat \ {0} /\ q \notin DOMAIN tables /\ vpc' = "pdpt" /\ at' = q
          /\ tables' = [x \in DOMAIN tables \cup {q} |->
                          IF x = q THEN EmptyTable ELSE LinkAt(0, 0, q)[x]]
    BY <1>8 DEF Allocated
  <2>2. DOMAIN tables' = {q} /\ tables'[q] = EmptyTable /\ kernel_pml4' = q
    BY <2>1, <1>1, <1>3
  <2>3. TypeOK'
    BY <2>1, <2>2, <1>1, <1>2, <1>3, <1>6, NoEntry DEF TypeOK
  <2>4. ControlOK'
    BY <2>1, <2>2, <1>1, <1>2, <1>3 DEF ControlOK
  <2>5. PICK l : l = [x \in {q} |-> 1]
    OBVIOUS
  <2>6. PICK p : p = [k \in 1 .. 3 |-> 0]
    OBVIOUS
  <2>7. PICK y : y = [x \in {q} |-> p]
    OBVIOUS
  <2>8. p \in Place
    BY <2>6, VmmAssumption DEF Place, Index
  <2>9. \A x \in {q} : x = q /\ l[x] = 1 /\ y[x] = p
    BY <2>5, <2>7
  <2>10. Placed(l, y)'
    <3>1. l \in [{q} -> 1 .. 4] /\ y \in [{q} -> Place]
      BY <2>5, <2>7, <2>8
    <3> QED
      BY <3>1, <2>2, <2>9 DEF Placed
  <2>11. Linked(l, y)'
    BY <2>2, <2>9, NoEntry DEF Linked
  <2>12. Leaves(l, y)'
    BY <2>2, <2>9, <1>1, <1>5 DEF Leaves
  <2>13. LowMapped(l, y)'
    BY <1>1, <1>3 DEF LowMapped
  <2>14. Located(l, y)'
    <3>1. at' \in DOMAIN tables' /\ tables'[at'] = EmptyTable /\ l[at'] = 1
      BY <2>1, <2>2, <2>9
    <3>2. InitLevel' = 1
      BY <2>1 DEF InitLevel
    <3> QED
      BY <3>1, <3>2, <2>1, <1>1, <1>3 DEF Located
  <2> QED
    BY <2>3, <2>4, <2>10, <2>11, <2>12, <2>13, <2>14, <1>6 DEF IInv, Tree
<1> QED
  BY <1>6, <1>7, <1>8

LEMMA AllocatedGrown ==
  ASSUME TypeOK, PoolOK, NEW t \in DOMAIN tables, NEW i \in Index, NEW next, NEW q,
         Allocated(t, i, next, q)
  PROVE  /\ Grown(t, i, q) /\ q \notin DOMAIN tables /\ q \in Nat \ {0}
         /\ \A x \in DOMAIN tables' : tables'[x] \in [Index -> Entries]
<1>1. /\ q \in Nat \ {0} /\ q \notin DOMAIN tables
      /\ tables' = [x \in DOMAIN tables \cup {q} |->
                      IF x = q THEN EmptyTable ELSE LinkAt(t, i, q)[x]]
  BY DEF Allocated
<1>2. t # 0
  BY DEF TypeOK, PoolOK
<1>3. Grown(t, i, q)
  BY <1>1, <1>2, Growing
<1>4. \A x \in DOMAIN tables' : tables'[x] \in [Index -> Entries]
  BY <1>3, NoEntry DEF Grown
<1> QED
  BY <1>1, <1>3, <1>4

LEMMA InitNextStep ==
  ASSUME IInv, NEW this, NEW next, InitNext(this, next),
         <<this, next>> \in {<<"pdpt", "pd">>, <<"pd", "huge">>}
  PROVE  IInv'
<1>1. /\ vpc = this /\ AllocTable(at, 0, next)
      /\ UNCHANGED <<level, kernel_pml4, cr3, call, ret, asked, smashed>>
  BY DEF InitNext
<1>2. TypeOK /\ PoolOK /\ ControlOK
  BY DEF IInv
<1>3. \/ vpc = "pdpt" /\ next = "pd"
      \/ vpc = "pd" /\ next = "huge"
  BY <1>1
<1>4. ~smashed /\ kernel_pml4 # 0
  BY <1>2, <1>3 DEF ControlOK
<1>5. PICK lv, ix : Tree(lv, ix) /\ Located(lv, ix)
  BY <1>4 DEF IInv
<1>6. PICK t : t = at
  OBVIOUS
<1>7. /\ t \in DOMAIN tables /\ tables[t] = EmptyTable /\ cr3 = 0
      /\ lv[t] = InitLevel /\ \A k \in 1 .. 3 : k < lv[t] => ix[t][k] = 0
  BY <1>3, <1>5, <1>6 DEF Located
<1>8. \/ lv[t] = 1 /\ next = "pd"
      \/ lv[t] = 2 /\ next = "huge"
  BY <1>3, <1>7 DEF InitLevel
<1>9. 0 \in Index /\ ~pte_is_present(tables[t][0])
  <2>1. 0 \in Index
    BY VmmAssumption DEF Index
  <2> QED
    BY <2>1, <1>7, NoEntry
<1>10. /\ PoolOK' /\ PoolTypeOK' /\ DOMAIN tables' \subseteq held'
       /\ Faulted \/ \E q : Allocated(t, 0, next, q)
  <2>1. vpc # "halted" /\ next # "halted" /\ AllocTable(t, 0, next)
    BY <1>1, <1>3, <1>6
  <2> QED
    BY <2>1, <1>2, AllocFacts
<1>11. CASE Faulted
  <2>1. vpc' = "halted" /\ UNCHANGED <<tables, at, kernel_pml4, cr3, asked>>
    BY <1>1, <1>11 DEF Faulted
  <2>2. Tree(lv, ix)'
    BY <2>1, <1>5, TreeSame
  <2>3. Located(lv, ix)'
    BY <2>1 DEF Located
  <2>4. TypeOK'
    BY <2>1, <1>1, <1>2, <1>10 DEF TypeOK
  <2>5. ControlOK'
    BY <2>1, <1>1, <1>2, <1>4 DEF ControlOK
  <2> QED
    BY <2>2, <2>3, <2>4, <2>5, <1>10 DEF IInv
<1>12. CASE \E q : Allocated(t, 0, next, q)
  <2>1. PICK q : Allocated(t, 0, next, q)
    BY <1>12
  <2>2. vpc' = next /\ at' = q
    BY <2>1 DEF Allocated
  <2>3. /\ Grown(t, 0, q) /\ q \notin DOMAIN tables /\ q \in Nat \ {0}
        /\ \A x \in DOMAIN tables' : tables'[x] \in [Index -> Entries]
    BY <2>1, <1>2, <1>7, <1>9, AllocatedGrown
  <2>4. kernel_pml4 \in DOMAIN tables
    BY <1>2, <1>4 DEF TypeOK
  <2>5. PICK l, x : /\ Tree(l, x)'
                    /\ \A y \in DOMAIN tables : l[y] = lv[y] /\ x[y] = ix[y]
                    /\ Below(l, x, q, t, 0)
    <3>1. lv[t] < 4
      BY <1>8
    <3> QED
      BY <3>1, <2>3, <2>4, <1>1, <1>5, <1>7, <1>9, GrowTree
  <2>6. /\ DOMAIN tables' = DOMAIN tables \cup {q} /\ tables'[q] = EmptyTable
    BY <2>3 DEF Grown
  <2>7. TypeOK'
    BY <2>2, <2>3, <2>4, <2>6, <1>1, <1>2, <1>3, <1>10 DEF TypeOK
  <2>8. ControlOK'
    BY <2>2, <2>4, <1>1, <1>2, <1>3, <1>4 DEF ControlOK
  <2>9. Located(l, x)'
    <3>1. l[q] = lv[t] + 1 /\ x[q][lv[t]] = 0
          /\ \A k \in 1 .. 3 : k < lv[t] => x[q][k] = ix[t][k]
      BY <2>5, <1>7 DEF Below, SameWay
    <3>2. l[q] = InitLevel'
      BY <3>1, <2>2, <1>8 DEF InitLevel
    <3>3. \A k \in 1 .. 3 : k < l[q] => x[q][k] = 0
      BY <3>1, <1>7, <1>8
    <3> QED
      BY <3>2, <3>3, <2>2, <2>6, <1>1, <1>3, <1>7 DEF Located
  <2> QED
    BY <2>5, <2>7, <2>8, <2>9, <1>10 DEF IInv
<1> QED
  BY <1>10, <1>11, <1>12

LEMMA AddTableStep ==
  ASSUME IInv, AddTable
  PROVE  IInv'
<1>1. /\ vpc = "walk" /\ level < 4 /\ at \in DOMAIN tables /\ ~pte_is_present(Entry)
      /\ AllocTable(at, call.virt[level], "walk") /\ level' = level + 1
      /\ UNCHANGED <<kernel_pml4, cr3, call, ret, asked, smashed>>
  BY DEF AddTable, LinkTable, Walking
<1>2. TypeOK /\ PoolOK /\ ControlOK
  BY DEF IInv
<1>3. PICK t \in DOMAIN tables : t = at
  BY <1>1
<1>4. level \in 1 .. 3 /\ call.virt \in Page
  BY <1>1, <1>2 DEF ControlOK, TypeOK
<1>5. PICK i \in Index : i = call.virt[level]
  <2>1. level \in 1 .. 4
    BY <1>4
  <2> QED
    BY <2>1, <1>4, PageFacts
<1>6. ~pte_is_present(tables[t][i])
  BY <1>1, <1>3, <1>5 DEF Entry
<1>7. /\ PoolOK' /\ PoolTypeOK' /\ DOMAIN tables' \subseteq held'
      /\ Faulted \/ \E q : Allocated(t, i, "walk", q)
  <2>1. vpc # "halted" /\ "walk" # "halted" /\ AllocTable(t, i, "walk")
    BY <1>1, <1>3, <1>5
  <2> QED
    BY <2>1, <1>2, AllocFacts
<1>8. kernel_pml4 # 0 /\ kernel_pml4 \in DOMAIN tables
  BY <1>2, <1>3 DEF ControlOK, TypeOK
<1>9. level' \in 0 .. 4 /\ level' \in 1 .. 4
  BY <1>1, <1>4
<1>10. CASE Faulted
  <2>1. vpc' = "halted" /\ UNCHANGED <<tables, at, kernel_pml4, cr3, asked, smashed>>
    BY <1>1, <1>10 DEF Faulted
  <2>2. ASSUME NEW lv, NEW ix, Tree(lv, ix) PROVE Tree(lv, ix)' /\ Located(lv, ix)'
    BY <2>1, <2>2, TreeSame DEF Located
  <2>3. TypeOK'
    BY <2>1, <1>1, <1>2, <1>7, <1>9 DEF TypeOK
  <2>4. ControlOK'
    BY <2>1, <1>1, <1>2, <1>9 DEF ControlOK
  <2> QED
    BY <2>1, <2>2, <2>3, <2>4, <1>7 DEF IInv
<1>11. CASE \E q : Allocated(t, i, "walk", q)
  <2>1. PICK q : Allocated(t, i, "walk", q)
    BY <1>11
  <2>2. vpc' = "walk" /\ at' = q
    BY <2>1 DEF Allocated
  <2>3. /\ Grown(t, i, q) /\ q \notin DOMAIN tables /\ q \in Nat \ {0}
        /\ \A x \in DOMAIN tables' : tables'[x] \in [Index -> Entries]
    BY <2>1, <1>2, AllocatedGrown
  <2>4. DOMAIN tables' = DOMAIN tables \cup {q}
    BY <2>3 DEF Grown
  <2>5. TypeOK'
    BY <2>2, <2>3, <2>4, <1>1, <1>2, <1>7, <1>8, <1>9 DEF TypeOK
  <2>6. ControlOK'
    BY <2>2, <1>1, <1>2, <1>8, <1>9 DEF ControlOK
  <2>7. ASSUME ~smashed PROVE \E l, x : Tree(l, x)' /\ Located(l, x)'
    <3>1. PICK lv, ix : Tree(lv, ix) /\ Located(lv, ix)
      BY <2>7 DEF IInv
    <3>2. lv[t] = level /\ OnWay(ix, t, call.virt, level)
      BY <3>1, <1>1, <1>3, <1>8 DEF Located
    <3>3. PICK l, x : /\ Tree(l, x)'
                      /\ \A y \in DOMAIN tables : l[y] = lv[y] /\ x[y] = ix[y]
                      /\ Below(l, x, q, t, i)
      <4>1. lv[t] < 4
        BY <3>2, <1>1
      <4> QED
        BY <4>1, <3>1, <2>3, <1>1, <1>6, <1>8, GrowTree
    <3>4. l[q] = level + 1 /\ x[q][level] = i
          /\ \A k \in 1 .. 3 : k < level => x[q][k] = ix[t][k]
      BY <3>2, <3>3 DEF Below, SameWay
    <3>5. \A k \in 1 .. 3 : k < level + 1 => x[q][k] = call.virt[k]
      BY <3>2, <3>4, <1>4, <1>5 DEF OnWay
    <3>6. OnWay(x, q, call.virt, level + 1)
      BY <3>5 DEF OnWay
    <3>7. Located(l, x)'
      BY <3>4, <3>6, <2>2, <2>4, <1>1, <1>8 DEF Located, OnWay
    <3> QED
      BY <3>3, <3>7
  <2> QED
    BY <2>5, <2>6, <2>7, <1>1, <1>7 DEF IInv
<1> QED
  BY <1>7, <1>10, <1>11

LEMMA DescendStep ==
  ASSUME IInv, Descend
  PROVE  IInv'
<1>1. /\ vpc = "walk" /\ level < 4 /\ at \in DOMAIN tables /\ pte_is_present(Entry)
      /\ at' = Entry.frame /\ level' = level + 1
      /\ smashed' = (smashed \/ "HUGE" \in Entry.flags)
      /\ UNCHANGED <<up, free, held, vpc, kernel_pml4, cr3, tables, call, ret, asked>>
  BY DEF Descend, Walking, pte_get_address, poolVars
<1>2. TypeOK /\ PoolOK /\ ControlOK
  BY DEF IInv
<1>3. PICK t \in DOMAIN tables : t = at
  BY <1>1
<1>4. level \in 1 .. 3 /\ call.virt \in Page
  BY <1>1, <1>2 DEF ControlOK, TypeOK
<1>5. PICK i \in Index : i = call.virt[level]
  <2>1. level \in 1 .. 4
    BY <1>4
  <2> QED
    BY <2>1, <1>4, PageFacts
<1>6. PICK e \in Entries : e = tables[t][i] /\ e = Entry
  <2>1. tables[t] \in [Index -> Entries]
    BY <1>2 DEF TypeOK
  <2> QED
    BY <2>1, <1>3, <1>5 DEF Entry
<1>7. kernel_pml4 # 0
  BY <1>2, <1>3 DEF ControlOK
<1>8. level' \in 0 .. 4 /\ level' \in 1 .. 4
  BY <1>1, <1>4
<1>9. TypeOK'
  <2>1. at' \in Nat
    BY <1>1, <1>6 DEF Entries
  <2>2. smashed' \in BOOLEAN
    BY <1>1, <1>2 DEF TypeOK
  <2> QED
    BY <2>1, <2>2, <1>1, <1>2, <1>8 DEF TypeOK, PoolTypeOK
<1>10. PoolOK'
  BY <1>1, <1>2 DEF PoolOK
<1>11. ControlOK'
  BY <1>1, <1>2, <1>7, <1>8 DEF ControlOK
<1>12. ASSUME ~smashed' PROVE \E lv, ix : Tree(lv, ix)' /\ Located(lv, ix)'
  <2>1. ~smashed /\ "HUGE" \notin e.flags
    BY <1>1, <1>2, <1>6, <1>12 DEF TypeOK
  <2>2. PICK lv, ix : Tree(lv, ix) /\ Located(lv, ix)
    BY <2>1 DEF IInv
  <2>3. Tree(lv, ix)'
    BY <2>2, <1>1, TreeSame
  <2>4. lv[t] = level /\ OnWay(ix, t, call.virt, level)
    BY <2>2, <1>1, <1>3, <1>7 DEF Located
  <2>5. ~IsHuge(lv, ix, t, i)
    BY <2>1, <1>6, HugeFacts DEF IsHuge
  <2>6. PICK c \in DOMAIN tables : Leads(lv, t, i, c) /\ Below(lv, ix, c, t, i)
    <3>1. lv[t] < 4 /\ pte_is_present(tables[t][i])
      BY <2>4, <1>1, <1>6
    <3> QED
      BY <3>1, <2>2, <2>5 DEF Tree, Linked
  <2>7. at' = c
    BY <2>6, <1>1, <1>6, TableEntry DEF Leads
  <2>8. lv[c] = level + 1 /\ ix[c][level] = i
        /\ \A k \in 1 .. 3 : k < level => ix[c][k] = ix[t][k]
    BY <2>4, <2>6 DEF Below, SameWay
  <2>9. \A k \in 1 .. 3 : k < level + 1 => ix[c][k] = call.virt[k]
    BY <2>4, <2>8, <1>4, <1>5 DEF OnWay
  <2>10. OnWay(ix, c, call.virt, level + 1)
    BY <2>9 DEF OnWay
  <2>11. Located(lv, ix)'
    BY <2>6, <2>7, <2>8, <2>10, <1>1, <1>7 DEF Located, OnWay
  <2> QED
    BY <2>3, <2>11
<1> QED
  BY <1>9, <1>10, <1>11, <1>12 DEF IInv

\* A call that returns without a store: no frame was left.
LEMMA FailStep ==
  ASSUME IInv, InitFails \/ MapFails
  PROVE  IInv'
<1>1. /\ vpc' = "idle" /\ level' = 0 /\ at' = 0 /\ call' = NoCall
      /\ ret' \in BOOLEAN
      /\ UNCHANGED <<up, free, held, kernel_pml4, cr3, tables, asked, smashed>>
      /\ vpc # "halted"
  BY DEF InitFails, MapFails, Walking, Return, poolVars, IInv, TypeOK
<1>2. TypeOK /\ PoolOK /\ ControlOK
  BY DEF IInv
<1>3. TypeOK'
  BY <1>1, <1>2, NoCallType DEF TypeOK, PoolTypeOK
<1>4. PoolOK'
  BY <1>1, <1>2 DEF PoolOK
<1>5. ControlOK'
  BY <1>1, <1>2, NoCallType DEF ControlOK
<1>6. ASSUME NEW lv, NEW ix, Tree(lv, ix) PROVE Tree(lv, ix)' /\ Located(lv, ix)'
  BY <1>1, <1>6, TreeSame DEF Located
<1> QED
  BY <1>1, <1>3, <1>4, <1>5, <1>6 DEF IInv

LEMMA InitHugeStep ==
  ASSUME IInv, InitHuge
  PROVE  IInv'
<1>1. /\ vpc = "huge" /\ cr3' = kernel_pml4
      /\ tables' = [tables EXCEPT ![at] = [i \in Index |-> HugeEntry(i)]]
      /\ vpc' = "idle" /\ level' = 0 /\ at' = 0 /\ call' = NoCall
      /\ UNCHANGED <<up, free, held, kernel_pml4, ret, asked, smashed>>
  BY DEF InitHuge, Return, poolVars
<1>2. TypeOK /\ PoolOK /\ ControlOK
  BY DEF IInv
<1>3. ~smashed /\ kernel_pml4 # 0
  BY <1>1, <1>2 DEF ControlOK
<1>4. PICK lv, ix : Tree(lv, ix) /\ Located(lv, ix)
  BY <1>3 DEF IInv
<1>5. /\ at \in DOMAIN tables /\ tables[at] = EmptyTable /\ cr3 = 0
      /\ lv[at] = 3 /\ \A k \in 1 .. 3 : k < 3 => ix[at][k] = 0
  BY <1>1, <1>4 DEF Located, InitLevel
<1>6. ix[at][1] = 0 /\ ix[at][2] = 0
  BY <1>5
<1>7. Tree(lv, ix)'
  BY <1>1, <1>2, <1>3, <1>4, <1>5, <1>6, HugeTree
<1>8. Located(lv, ix)'
  BY <1>1 DEF Located
<1>9. /\ DOMAIN tables' = DOMAIN tables
      /\ \A t \in DOMAIN tables : tables'[t] \in [Index -> Entries]
  <2>1. [i \in Index |-> HugeEntry(i)] \in [Index -> Entries]
    BY HugeFacts
  <2> QED
    BY <2>1, <1>1, <1>2, <1>5 DEF TypeOK
<1>10. TypeOK'
  BY <1>1, <1>2, <1>9, NoCallType DEF TypeOK, PoolTypeOK
<1>11. PoolOK'
  BY <1>1, <1>2, <1>9 DEF PoolOK
<1>12. ControlOK'
  BY <1>1, <1>2, <1>3, NoCallType DEF ControlOK
<1> QED
  BY <1>7, <1>8, <1>10, <1>11, <1>12 DEF IInv

LEMMA MapStoreStep ==
  ASSUME IInv, MapStore
  PROVE  IInv'
<1>1. /\ vpc = "walk" /\ level = 4
      /\ tables' = IF at \in DOMAIN tables
                   THEN Store(at, call.virt[4], pte_create(call.phys, call.flags))
                   ELSE tables
      /\ asked' = [v \in DOMAIN asked \cup {call.virt} |->
                     IF v = call.virt THEN call ELSE asked[v]]
      /\ ret' = TRUE
      /\ vpc' = "idle" /\ level' = 0 /\ at' = 0 /\ call' = NoCall
      /\ UNCHANGED <<up, free, held, kernel_pml4, cr3, smashed>>
  BY DEF MapStore, Return, poolVars
<1>2. TypeOK /\ PoolOK /\ ControlOK
  BY DEF IInv
<1>3. call.virt \in Page /\ call.phys \in Nat /\ call.flags \in SUBSET Flags
  BY <1>2 DEF TypeOK
<1>4. PICK e \in Entries : e = pte_create(call.phys, call.flags)
  BY <1>3, EntryFacts
<1>5. PICK j \in Index : j = call.virt[4]
  BY <1>3, PageFacts
<1>6. /\ DOMAIN tables' = DOMAIN tables
      /\ \A t \in DOMAIN tables : tables'[t] \in [Index -> Entries]
  <2>1. \A t \in DOMAIN tables : tables[t] \in [Index -> Entries]
    BY <1>2 DEF TypeOK
  <2>2. CASE at \in DOMAIN tables
    <3>1. tables' = [tables EXCEPT ![at][j] = e]
      BY <2>2, <1>1, <1>4, <1>5 DEF Store
    <3> QED
      BY <3>1, <2>1, <2>2
  <2>3. CASE at \notin DOMAIN tables
    BY <2>1, <2>3, <1>1
  <2> QED
    BY <2>2, <2>3
<1>7. DOMAIN asked' \subseteq Page
  BY <1>1, <1>2, <1>3 DEF TypeOK
<1>8. TypeOK'
  BY <1>1, <1>2, <1>6, <1>7, NoCallType DEF TypeOK, PoolTypeOK
<1>9. PoolOK'
  BY <1>1, <1>2, <1>6 DEF PoolOK
<1>10. ControlOK'
  BY <1>1, <1>2, <1>6, NoCallType DEF ControlOK
<1>11. ASSUME ~smashed PROVE \E lv, ix : Tree(lv, ix)' /\ Located(lv, ix)'
  <2>1. PICK lv, ix : Tree(lv, ix) /\ Located(lv, ix)
    BY <1>11 DEF IInv
  <2>2. /\ at \in DOMAIN tables /\ lv[at] = 4 /\ OnWay(ix, at, call.virt, 4)
    BY <2>1, <1>1 DEF Located
  <2>3. tables' = Store(at, call.virt[4], pte_create(call.phys, call.flags))
    BY <2>2, <1>1
  <2>4. Tree(lv, ix)'
    BY <2>1, <2>2, <2>3, <1>1, <1>2, StoreTree
  <2> QED
    BY <2>4, <1>1 DEF Located
<1> QED
  BY <1>1, <1>8, <1>9, <1>10, <1>11 DEF IInv

LEMMA CallStep ==
  ASSUME IInv, NEW virt \in Pages, NEW phys \in Frames, NEW flags \in FlagSets,
         vmm_map_page(virt, phys, flags)
  PROVE  IInv'
<1>1. /\ vpc = "idle" /\ vpc' = "walk" /\ level' = 1 /\ at' = kernel_pml4
      /\ call' = [virt |-> virt, phys |-> phys, flags |-> flags]
      /\ UNCHANGED <<up, free, held, kernel_pml4, cr3, tables, ret, asked, smashed>>
  BY DEF vmm_map_page, poolVars
<1>2. TypeOK /\ PoolOK /\ ControlOK
  BY DEF IInv
<1>3. virt \in Page /\ phys \in Nat /\ flags \in SUBSET Flags /\ "HUGE" \notin flags
  BY VmmAssumption
<1>4. TypeOK'
  <2>1. at' \in Nat
    <3>1. kernel_pml4 = 0 \/ kernel_pml4 \in held
      BY <1>2 DEF TypeOK
    <3>2. held \subseteq Nat
      BY <1>2 DEF PoolOK
    <3>3. CASE kernel_pml4 = 0
      BY <3>3, <1>1
    <3>4. CASE kernel_pml4 \in held
      BY <3>2, <3>4, <1>1
    <3> QED
      BY <3>1, <3>3, <3>4
  <2>2. call' \in [virt : Page, phys : Nat, flags : SUBSET Flags]
    BY <1>1, <1>3
  <2> QED
    BY <2>1, <2>2, <1>1, <1>2 DEF TypeOK, PoolTypeOK
<1>5. PoolOK'
  BY <1>1, <1>2 DEF PoolOK
<1>6. ControlOK'
  BY <1>1, <1>2, <1>3 DEF ControlOK
<1>7. ASSUME NEW lv, NEW ix, Tree(lv, ix) PROVE Tree(lv, ix)' /\ Located(lv, ix)'
  <2>1. Tree(lv, ix)'
    BY <1>1, <1>7, TreeSame
  <2>2. kernel_pml4 # 0 => kernel_pml4 \in DOMAIN tables
    BY <1>2 DEF TypeOK
  <2>3. kernel_pml4 # 0 => lv[kernel_pml4] = 1
    BY <2>2, <1>7 DEF Tree, Placed
  <2>4. \A v : OnWay(ix, kernel_pml4, v, 1)
    BY DEF OnWay
  <2>5. Located(lv, ix)'
    BY <2>2, <2>3, <2>4, <1>1 DEF Located, OnWay
  <2> QED
    BY <2>1, <2>5
<1> QED
  BY <1>1, <1>4, <1>5, <1>6, <1>7 DEF IInv

LEMMA ReadGarbageStep ==
  ASSUME IInv, ReadGarbage
  PROVE  IInv'
<1>1. /\ vpc = "walk" /\ vpc' = "wild"
      /\ UNCHANGED <<up, free, held, level, kernel_pml4, cr3, tables, at, call, ret,
                     asked, smashed>>
  BY DEF ReadGarbage, poolVars
<1>2. TypeOK /\ PoolOK /\ ControlOK
  BY DEF IInv
<1>3. TypeOK'
  BY <1>1, <1>2 DEF TypeOK, PoolTypeOK
<1>4. PoolOK' /\ ControlOK'
  BY <1>1, <1>2 DEF PoolOK, ControlOK
<1>5. ASSUME NEW lv, NEW ix, Tree(lv, ix) PROVE Tree(lv, ix)' /\ Located(lv, ix)'
  BY <1>1, <1>5, TreeSame DEF Located
<1> QED
  BY <1>1, <1>3, <1>4, <1>5 DEF IInv

-----------------------------------------------------------------------------
(***************************************************************************)
(* Theorems.                                                               *)
(***************************************************************************)

\* The tables that vmm_init and vmm_map_page build form a tree in every
\* state, also half way through a call and after one that failed.
THEOREM Invariant == Spec => []IInv
<1>1. Init => IInv
  <2>1. SUFFICES ASSUME Init PROVE IInv
    OBVIOUS
  <2>2. PICK e : e = << >>
    OBVIOUS
  <2>3. DOMAIN e = {}
    BY <2>2
  <2>4. /\ up = TRUE /\ free \in Pools /\ held = {} /\ vpc = "pml4" /\ level = 0
        /\ kernel_pml4 = 0 /\ cr3 = 0 /\ tables = e /\ at = 0 /\ call = NoCall
        /\ ret = FALSE /\ asked = e /\ smashed = FALSE
    BY <2>1, <2>2 DEF Init
  <2>5. free \subseteq Nat \ {0}
    BY <2>4, VmmAssumption
  <2>6. TypeOK
    <3>1. PoolTypeOK
      BY <2>4, <2>5 DEF PoolTypeOK
    <3>2. /\ DOMAIN tables \subseteq held /\ DOMAIN asked \subseteq Page
          /\ \A t \in DOMAIN tables : tables[t] \in [Index -> Entries]
      BY <2>3, <2>4
    <3>3. call \in [virt : Page, phys : Nat, flags : SUBSET Flags]
      BY <2>4, NoCallType
    <3>4. /\ vpc = "pml4" /\ level \in 0 .. 4 /\ kernel_pml4 \in DOMAIN tables \cup {0}
          /\ cr3 \in {0, kernel_pml4} /\ at \in Nat
      BY <2>4
    <3>5. ret \in BOOLEAN /\ smashed \in BOOLEAN
      BY <2>4
    <3> QED
      BY <3>1, <3>2, <3>3, <3>4, <3>5 DEF TypeOK
  <2>7. PoolOK
    BY <2>3, <2>4, <2>5, FS_EmptySet DEF PoolOK
  <2>8. ControlOK
    BY <2>3, <2>4, NoCallType DEF ControlOK
  <2>9. PICK n : n = [x \in {} |-> 0]
    OBVIOUS
  <2>10. Placed(n, n)
    BY <2>3, <2>4, <2>9 DEF Placed
  <2>11. Linked(n, n) /\ Leaves(n, n) /\ LowMapped(n, n) /\ Located(n, n)
    BY <2>3, <2>4 DEF Linked, Leaves, LowMapped, Located
  <2> QED
    BY <2>6, <2>7, <2>8, <2>10, <2>11 DEF IInv, Tree
<1>2. IInv /\ [Next]_vars => IInv'
  <2>1. SUFFICES ASSUME IInv, [Next]_vars PROVE IInv'
    OBVIOUS
  <2>2. CASE InitFails \/ MapFails
    BY <2>1, <2>2, FailStep
  <2>3. CASE InitPml4
    BY <2>1, <2>3, InitPml4Step
  <2>4. CASE InitPdpt
    <3>1. InitNext("pdpt", "pd")
      BY <2>4 DEF InitPdpt
    <3> QED
      BY <3>1, <2>1, InitNextStep
  <2>5. CASE InitPd
    <3>1. InitNext("pd", "huge")
      BY <2>5 DEF InitPd
    <3> QED
      BY <3>1, <2>1, InitNextStep
  <2>6. CASE InitHuge
    BY <2>1, <2>6, InitHugeStep
  <2>7. CASE ReadGarbage
    BY <2>1, <2>7, ReadGarbageStep
  <2>8. CASE Descend
    BY <2>1, <2>8, DescendStep
  <2>9. CASE AddTable
    BY <2>1, <2>9, AddTableStep
  <2>10. CASE MapStore
    BY <2>1, <2>10, MapStoreStep
  <2>11. CASE \E virt \in Pages, phys \in Frames, flags \in FlagSets :
                vmm_map_page(virt, phys, flags)
    BY <2>1, <2>11, CallStep
  <2>12. CASE UNCHANGED vars
    <3>1. UNCHANGED <<up, free, held, vpc, level, kernel_pml4, cr3, tables, at, call,
                      ret, asked, smashed>>
      BY <2>12 DEF vars, poolVars, vmmVars
    <3>2. TypeOK' /\ PoolOK' /\ ControlOK'
      BY <2>1, <3>1 DEF IInv, TypeOK, PoolTypeOK, PoolOK, ControlOK
    <3>3. ASSUME NEW lv, NEW ix, Tree(lv, ix), Located(lv, ix)
          PROVE  Tree(lv, ix)' /\ Located(lv, ix)'
      <4>1. Tree(lv, ix)'
        BY <3>1, <3>3, TreeSame
      <4>2. Located(lv, ix)'
        BY <3>1, <3>3 DEF Located, InitLevel, OnWay
      <4> QED
        BY <4>1, <4>2
    <3> QED
      BY <2>1, <3>1, <3>2, <3>3 DEF IInv
  <2> QED
    BY <2>1, <2>2, <2>3, <2>4, <2>5, <2>6, <2>7, <2>8, <2>9, <2>10, <2>11, <2>12
       DEF Next, VmmStep
<1> QED
  BY <1>1, <1>2, PTL DEF Spec

\* The values of the variables: whatever happens, the frames that are tables
\* are frames the VMM holds, and the root is one of them or null.
THEOREM TypeCorrect == Spec => []TypeOK
<1>1. IInv => TypeOK
  BY DEF IInv
<1> QED
  BY <1>1, Invariant, PTL

-----------------------------------------------------------------------------
(***************************************************************************)
(* The CPU's walk through the tree.                                        *)
(***************************************************************************)
LEMMA PageIndex ==
  ASSUME NEW v \in Page
  PROVE  /\ \A k \in 1 .. 3 : v[k] \in Index
         /\ v[4] \in Index
<1>1. v[1] \in Index /\ v[2] \in Index /\ v[3] \in Index /\ v[4] \in Index
  BY DEF Page
<1>2. \A k \in 1 .. 3 : k = 1 \/ k = 2 \/ k = 3
  OBVIOUS
<1> QED
  BY <1>1, <1>2

\* Two tables on the way of a page, one below the other, are linked.
LEMMA WayLinked ==
  ASSUME NEW lv, NEW ix, Placed(lv, ix), Linked(lv, ix),
         NEW t \in DOMAIN tables, NEW c \in DOMAIN tables, NEW n \in 1 .. 3,
         NEW v \in Page, lv[t] = n, lv[c] = n + 1,
         OnWay(ix, t, v, n), OnWay(ix, c, v, n + 1)
  PROVE  tables[t][v[n]] = pte_create(c, TableFlags)
<1>1. v[n] \in Index
  BY PageIndex
<1>2. ix[c][n] = v[n]
  BY DEF OnWay
<1>3. SameWay(ix, c, t, n)
  BY DEF OnWay, SameWay
<1>4. Below(lv, ix, c, t, v[n])
  BY <1>2, <1>3 DEF Below
<1> QED
  BY <1>1, <1>4, EntryTo DEF Leads

\* The way of a page to a table comes from a table one level up.
LEMMA WayUp ==
  ASSUME NEW lv, NEW ix, Placed(lv, ix), Linked(lv, ix),
         NEW c \in DOMAIN tables, NEW n \in 1 .. 3, NEW v \in Page,
         lv[c] = n + 1, OnWay(ix, c, v, n + 1)
  PROVE  \E t \in DOMAIN tables :
           /\ lv[t] = n /\ OnWay(ix, t, v, n)
           /\ tables[t][v[n]] = pte_create(c, TableFlags)
<1>1. c # kernel_pml4
  BY DEF Placed
<1>2. PICK t \in DOMAIN tables, i \in Index :
        Leads(lv, t, i, c) /\ Below(lv, ix, c, t, i)
  BY <1>1, ParentBelow
<1>3. lv[t] \in 1 .. 4 /\ lv[c] = lv[t] + 1 /\ SameWay(ix, c, t, lv[t])
  BY <1>2, TreeTypes DEF Below
<1>4. lv[t] = n
  BY <1>3
<1>5. OnWay(ix, t, v, n)
  BY <1>3, <1>4 DEF OnWay, SameWay
<1> QED
  BY <1>4, <1>5, WayLinked

\* A present entry above the last level maps a huge page or goes on to the
\* next table on the way.
LEMMA WayDown ==
  ASSUME NEW lv, NEW ix, Placed(lv, ix), Linked(lv, ix),
         NEW t \in DOMAIN tables, NEW n \in 1 .. 3, NEW v \in Page,
         lv[t] = n, OnWay(ix, t, v, n), pte_is_present(tables[t][v[n]])
  PROVE  \/ IsHuge(lv, ix, t, v[n])
         \/ \E c \in DOMAIN tables :
              /\ tables[t][v[n]] = pte_create(c, TableFlags)
              /\ lv[c] = n + 1 /\ OnWay(ix, c, v, n + 1)
<1>1. v[n] \in Index
  BY PageIndex
<1>2. SUFFICES ASSUME NEW c \in DOMAIN tables,
                      Leads(lv, t, v[n], c), Below(lv, ix, c, t, v[n])
               PROVE  /\ tables[t][v[n]] = pte_create(c, TableFlags)
                      /\ lv[c] = n + 1 /\ OnWay(ix, c, v, n + 1)
  BY <1>1 DEF Linked
<1>3. lv[c] = n + 1 /\ SameWay(ix, c, t, n) /\ ix[c][n] = v[n]
  BY <1>2 DEF Below
<1>4. \A k \in 1 .. 3 : k < n + 1 => k < n \/ k = n
  OBVIOUS
<1>5. OnWay(ix, c, v, n + 1)
  BY <1>3, <1>4 DEF OnWay, SameWay
<1> QED
  BY <1>2, <1>3, <1>5 DEF Leads

\* What the CPU makes of the entries it meets.
LEMMA WalkHuge ==
  ASSUME NEW v, NEW p, NEW d, NEW e,
         tables[cr3][v[1]] = pte_create(p, TableFlags),
         tables[p][v[2]] = pte_create(d, TableFlags),
         tables[d][v[3]] = e,
         pte_is_present(e), "HUGE" \in e.flags, "WRITABLE" \in e.flags
  PROVE  Walk(v) = [frame |-> e.frame + v[4], present |-> TRUE, writable |-> TRUE]
<1>1. PICK a : a = pte_create(p, TableFlags)
  OBVIOUS
<1>2. PICK b : b = pte_create(d, TableFlags)
  OBVIOUS
<1>3. /\ pte_is_present(a) /\ "HUGE" \notin a.flags /\ "WRITABLE" \in a.flags /\ a.frame = p
      /\ pte_is_present(b) /\ "HUGE" \notin b.flags /\ "WRITABLE" \in b.flags /\ b.frame = d
  BY <1>1, <1>2, TableEntry
<1>4. tables[cr3][v[1]] = a /\ tables[a.frame][v[2]] = b /\ tables[b.frame][v[3]] = e
  BY <1>1, <1>2, <1>3
<1>5. \A x \in {a, b, e} : "WRITABLE" \in x.flags
  BY <1>3
<1>6. Walk(v) = [frame |-> e.frame + v[4], present |-> TRUE,
                 writable |-> \A x \in {a, b, e} : "WRITABLE" \in x.flags]
  BY <1>3, <1>4 DEF Walk
<1>7. (\A x \in {a, b, e} : "WRITABLE" \in x.flags) = TRUE
  BY <1>5
<1> QED
  BY <1>6, <1>7

LEMMA WalkPage ==
  ASSUME NEW v, NEW p, NEW d, NEW t, NEW e,
         tables[cr3][v[1]] = pte_create(p, TableFlags),
         tables[p][v[2]] = pte_create(d, TableFlags),
         tables[d][v[3]] = pte_create(t, TableFlags),
         tables[t][v[4]] = e
  PROVE  Walk(v) = IF pte_is_present(e)
                   THEN [frame |-> e.frame, present |-> TRUE,
                         writable |-> "WRITABLE" \in e.flags]
                   ELSE Fault
<1>1. PICK a : a = pte_create(p, TableFlags)
  OBVIOUS
<1>2. PICK b : b = pte_create(d, TableFlags)
  OBVIOUS
<1>3. PICK c : c = pte_create(t, TableFlags)
  OBVIOUS
<1>4. /\ pte_is_present(a) /\ "WRITABLE" \in a.flags /\ a.frame = p
      /\ pte_is_present(b) /\ "WRITABLE" \in b.flags /\ b.frame = d
      /\ pte_is_present(c) /\ "WRITABLE" \in c.flags /\ c.frame = t
      /\ "HUGE" \notin c.flags
  BY <1>1, <1>2, <1>3, TableEntry
<1>5. tables[cr3][v[1]] = a /\ tables[a.frame][v[2]] = b /\ tables[b.frame][v[3]] = c
      /\ tables[c.frame][v[4]] = e
  BY <1>1, <1>2, <1>3, <1>4
<1>6. Walk(v) = IF pte_is_present(e)
                THEN [frame |-> e.frame, present |-> TRUE,
                      writable |-> \A x \in {a, b, c, e} : "WRITABLE" \in x.flags]
                ELSE Fault
  BY <1>4, <1>5 DEF Walk
<1>7. CASE "WRITABLE" \in e.flags
  <2>1. (\A x \in {a, b, c, e} : "WRITABLE" \in x.flags) = TRUE
    BY <1>4, <1>7
  <2>2. ("WRITABLE" \in e.flags) = TRUE
    BY <1>7
  <2> QED
    BY <2>1, <2>2, <1>6
<1>8. CASE "WRITABLE" \notin e.flags
  <2>1. (\A x \in {a, b, c, e} : "WRITABLE" \in x.flags) = FALSE
    BY <1>4, <1>8
  <2>2. ("WRITABLE" \in e.flags) = FALSE
    BY <1>8
  <2> QED
    BY <2>1, <2>2, <1>6
<1> QED
  BY <1>7, <1>8

LEMMA WalkFaults ==
  ASSUME NEW v,
         LET e1 == tables[cr3][v[1]]
             e2 == tables[e1.frame][v[2]]
             e3 == tables[e2.frame][v[3]]
         IN  ~pte_is_present(e1) \/ ~pte_is_present(e2) \/ ~pte_is_present(e3)
  PROVE  Walk(v) = Fault
BY DEF Walk

\* The tree translates every page as promised.
LEMMA TreeTranslates ==
  ASSUME TypeOK, cr3 # 0, NEW lv, NEW ix, Tree(lv, ix), NEW v \in Page
  PROVE  Walk(v) = Promised(v)
<1>1. Placed(lv, ix) /\ Linked(lv, ix) /\ Leaves(lv, ix) /\ LowMapped(lv, ix)
  BY DEF Tree
<1>2. cr3 = kernel_pml4 /\ cr3 \in DOMAIN tables
  BY DEF TypeOK
<1>3. \A t \in DOMAIN tables : lv[t] = 1 <=> t = cr3
  BY <1>1, <1>2 DEF Placed
<1>4. /\ 1 \in 1 .. 3 /\ 2 \in 1 .. 3 /\ 3 \in 1 .. 3
      /\ 1 + 1 = 2 /\ 2 + 1 = 3 /\ 3 + 1 = 4
  OBVIOUS
<1>5. v[1] \in Index /\ v[2] \in Index /\ v[3] \in Index /\ v[4] \in Index
  BY PageIndex
\* The tables above the last one on the way are linked from CR3.
<1>6. ASSUME NEW d \in DOMAIN tables, lv[d] = 3, OnWay(ix, d, v, 3)
      PROVE  \E p \in DOMAIN tables : /\ tables[cr3][v[1]] = pte_create(p, TableFlags)
                                      /\ tables[p][v[2]] = pte_create(d, TableFlags)
  <2>1. PICK p \in DOMAIN tables :
          /\ lv[p] = 2 /\ OnWay(ix, p, v, 2)
          /\ tables[p][v[2]] = pte_create(d, TableFlags)
    BY <1>1, <1>4, <1>6, WayUp
  <2>2. PICK r \in DOMAIN tables :
          lv[r] = 1 /\ tables[r][v[1]] = pte_create(p, TableFlags)
    BY <1>1, <1>4, <2>1, WayUp
  <2> QED
    BY <2>1, <2>2, <1>3
<1>7. CASE Low(v)
  <2>1. v[1] = 0 /\ v[2] = 0 /\ v[3] < HUGE
    BY <1>7 DEF Low
  <2>2. PICK d \in DOMAIN tables : \A i \in Index : i < HUGE => IsHuge(lv, ix, d, i)
    BY <1>1 DEF LowMapped
  <2>3. /\ lv[d] = 3 /\ ix[d][1] = 0 /\ ix[d][2] = 0
        /\ tables[d][v[3]] = HugeEntry(v[3])
    BY <2>1, <2>2, <1>5 DEF IsHuge
  <2>4. OnWay(ix, d, v, 3)
    BY <2>1, <2>3 DEF OnWay
  <2>5. PICK p \in DOMAIN tables : /\ tables[cr3][v[1]] = pte_create(p, TableFlags)
                                   /\ tables[p][v[2]] = pte_create(d, TableFlags)
    BY <2>3, <2>4, <1>6
  <2>6. PICK e : e = HugeEntry(v[3])
    OBVIOUS
  <2>7. /\ pte_is_present(e) /\ "HUGE" \in e.flags /\ "WRITABLE" \in e.flags
        /\ e.frame = v[3] * ENTRIES
    BY <2>1, <2>6, <1>5, HugeFacts
  <2>8. Walk(v) = [frame |-> e.frame + v[4], present |-> TRUE, writable |-> TRUE]
    BY <2>3, <2>5, <2>6, <2>7, WalkHuge
  <2> QED
    BY <2>7, <2>8, <1>7 DEF Promised
<1>8. CASE ~Low(v) /\ v \in DOMAIN asked
  <2>1. PICK t \in DOMAIN tables : lv[t] = 4 /\ OnWay(ix, t, v, 4)
    BY <1>1, <1>8 DEF Leaves
  <2>2. PICK d \in DOMAIN tables :
          /\ lv[d] = 3 /\ OnWay(ix, d, v, 3)
          /\ tables[d][v[3]] = pte_create(t, TableFlags)
    BY <1>1, <1>4, <2>1, WayUp
  <2>3. PICK p \in DOMAIN tables : /\ tables[cr3][v[1]] = pte_create(p, TableFlags)
                                   /\ tables[p][v[2]] = pte_create(d, TableFlags)
    BY <2>2, <1>6
  <2>4. PICK e : e = tables[t][v[4]]
    OBVIOUS
  <2>5. e = Wanted(v)
    BY <2>1, <2>4, <1>1 DEF Leaves
  <2>6. e = pte_create(asked[v].phys, asked[v].flags)
    BY <2>5, <1>8 DEF Wanted
  <2>7. /\ pte_is_present(e) <=> "PRESENT" \in asked[v].flags
        /\ e.frame = asked[v].phys /\ e.flags = asked[v].flags
    BY <2>6, EntryFacts
  <2>8. Walk(v) = IF pte_is_present(e)
                  THEN [frame |-> e.frame, present |-> TRUE,
                        writable |-> "WRITABLE" \in e.flags]
                  ELSE Fault
    BY <2>2, <2>3, <2>4, WalkPage
  <2> QED
    BY <2>7, <2>8, <1>8 DEF Promised
<1>9. CASE ~Low(v) /\ v \notin DOMAIN asked
  <2>1. Promised(v) = Fault
    BY <1>9 DEF Promised
  <2>2. SUFFICES ASSUME Walk(v) # Fault PROVE FALSE
    BY <2>1
  <2>3. PICK e1 : e1 = tables[cr3][v[1]]
    OBVIOUS
  <2>4. PICK e2 : e2 = tables[e1.frame][v[2]]
    OBVIOUS
  <2>5. PICK e3 : e3 = tables[e2.frame][v[3]]
    OBVIOUS
  <2>6. pte_is_present(e1) /\ pte_is_present(e2) /\ pte_is_present(e3)
    BY <2>2, <2>3, <2>4, <2>5, WalkFaults
  <2>7. PICK p \in DOMAIN tables :
          e1 = pte_create(p, TableFlags) /\ lv[p] = 2 /\ OnWay(ix, p, v, 2)
    <3>1. lv[cr3] = 1 /\ OnWay(ix, cr3, v, 1)
      BY <1>2, <1>3 DEF OnWay
    <3>2. ~IsHuge(lv, ix, cr3, v[1])
      BY <3>1 DEF IsHuge
    <3> QED
      BY <3>1, <3>2, <2>3, <2>6, <1>1, <1>2, <1>4, WayDown
  <2>8. PICK d \in DOMAIN tables :
          e2 = pte_create(d, TableFlags) /\ lv[d] = 3 /\ OnWay(ix, d, v, 3)
    <3>1. e2 = tables[p][v[2]]
      BY <2>4, <2>7, TableEntry
    <3>2. ~IsHuge(lv, ix, p, v[2])
      BY <2>7 DEF IsHuge
    <3> QED
      BY <3>1, <3>2, <2>6, <2>7, <1>1, <1>4, WayDown
  <2>9. PICK t \in DOMAIN tables :
          e3 = pte_create(t, TableFlags) /\ lv[t] = 4 /\ OnWay(ix, t, v, 4)
    <3>1. e3 = tables[d][v[3]]
      BY <2>5, <2>8, TableEntry
    <3>2. ix[d][1] = v[1] /\ ix[d][2] = v[2]
      BY <2>8 DEF OnWay
    <3>3. ~IsHuge(lv, ix, d, v[3])
      BY <3>2, <1>9 DEF IsHuge, Low
    <3> QED
      BY <3>1, <3>3, <2>6, <2>8, <1>1, <1>4, WayDown
  <2>10. /\ tables[cr3][v[1]] = pte_create(p, TableFlags)
         /\ tables[p][v[2]] = pte_create(d, TableFlags)
         /\ tables[d][v[3]] = pte_create(t, TableFlags)
    BY <2>3, <2>4, <2>5, <2>7, <2>8, <2>9, TableEntry
  <2>11. PICK e : e = tables[t][v[4]]
    OBVIOUS
  <2>12. e = pte_create(0, {})
    BY <2>9, <2>11, <1>1, <1>9 DEF Leaves, Wanted
  <2>13. ~pte_is_present(e)
    BY <2>12, NoEntry
  <2>14. Walk(v) = Fault
    BY <2>10, <2>11, <2>13, WalkPage
  <2> QED
    BY <2>2, <2>14
<1> QED
  BY <1>7, <1>8, <1>9

\* Whatever vmm_map_page was called for and however it ended, the CPU finds
\* the first 16 MB where they are, each mapped page where it was last asked
\* for, and faults on every other page.
THEOREM PagesTranslateAsAsked == Spec => []TranslationExact
<1>1. IInv => TranslationExact
  <2>1. SUFFICES ASSUME IInv, cr3 # 0, ~smashed, NEW v \in Page
                 PROVE  Walk(v) = Promised(v)
    BY DEF TranslationExact
  <2>2. PICK lv, ix : Tree(lv, ix)
    BY <2>1 DEF IInv
  <2> QED
    BY <2>1, <2>2, TreeTranslates DEF IInv
<1> QED
  BY <1>1, Invariant, PTL

-----------------------------------------------------------------------------
(***************************************************************************)
(* The links of the tree.                                                  *)
(***************************************************************************)

\* A link above the last level leads to the table in the place below.
LEMMA LinkBelow ==
  ASSUME NEW lv, NEW ix, Placed(lv, ix), Linked(lv, ix),
         NEW t \in DOMAIN tables, NEW i \in Index, lv[t] < 4,
         pte_is_present(tables[t][i]), "HUGE" \notin tables[t][i].flags
  PROVE  /\ tables[t][i].frame \in DOMAIN tables
         /\ Below(lv, ix, tables[t][i].frame, t, i)
<1>1. ~IsHuge(lv, ix, t, i)
  BY HugeFacts DEF IsHuge
<1>2. PICK c \in DOMAIN tables : Leads(lv, t, i, c) /\ Below(lv, ix, c, t, i)
  BY <1>1 DEF Linked
<1>3. tables[t][i].frame = c
  BY <1>2, TableEntry DEF Leads
<1> QED
  BY <1>2, <1>3

\* A table is in the place below one entry only.
LEMMA OneParent ==
  ASSUME NEW lv, NEW ix, Placed(lv, ix), NEW c \in DOMAIN tables,
         NEW t \in DOMAIN tables, NEW i, Below(lv, ix, c, t, i),
         NEW u \in DOMAIN tables, NEW j, Below(lv, ix, c, u, j)
  PROVE  t = u /\ i = j
<1>1. lv[t] \in 1 .. 4 /\ lv[u] \in 1 .. 4
  BY TreeTypes
<1>2. lv[c] = lv[t] + 1 /\ SameWay(ix, c, t, lv[t]) /\ ix[c][lv[t]] = i
  BY DEF Below
<1>3. lv[c] = lv[u] + 1 /\ SameWay(ix, c, u, lv[u]) /\ ix[c][lv[u]] = j
  BY DEF Below
<1>4. lv[t] = lv[u]
  BY <1>1, <1>2, <1>3
<1>5. SameWay(ix, t, u, lv[t])
  BY <1>2, <1>3, <1>4 DEF SameWay
<1> QED
  BY <1>2, <1>3, <1>4, <1>5 DEF Placed

Level(lv, n) == {t \in DOMAIN tables : lv[t] = n}

\* The tables that a level points to are the next level.
LEMMA ChildrenOfLevel ==
  ASSUME NEW lv, NEW ix, Placed(lv, ix), Linked(lv, ix), NEW n \in 1 .. 3
  PROVE  Children(Level(lv, n)) = Level(lv, n + 1)
<1>1. ASSUME NEW c \in Children(Level(lv, n)) PROVE c \in Level(lv, n + 1)
  <2>1. PICK l \in LinksOf(Level(lv, n)) : c = tables[l[1]][l[2]].frame
    BY <1>1 DEF Children
  <2>2. PICK t, i : t = l[1] /\ i = l[2]
    OBVIOUS
  <2>3. /\ t \in Level(lv, n) /\ i \in Index
        /\ pte_is_present(tables[t][i]) /\ "HUGE" \notin tables[t][i].flags
    BY <2>1, <2>2 DEF LinksOf
  <2>4. t \in DOMAIN tables /\ lv[t] = n /\ lv[t] < 4
    BY <2>3 DEF Level
  <2>5. c \in DOMAIN tables /\ Below(lv, ix, c, t, i)
    BY <2>1, <2>2, <2>3, <2>4, LinkBelow
  <2> QED
    BY <2>4, <2>5 DEF Below, Level
<1>2. ASSUME NEW c \in Level(lv, n + 1) PROVE c \in Children(Level(lv, n))
  <2>1. c \in DOMAIN tables /\ lv[c] = n + 1
    BY <1>2 DEF Level
  <2>2. c # kernel_pml4
    BY <2>1 DEF Placed
  <2>3. PICK t \in DOMAIN tables, i \in Index :
          Leads(lv, t, i, c) /\ Below(lv, ix, c, t, i)
    BY <2>1, <2>2, ParentBelow
  <2>4. lv[t] = n
    BY <2>1, <2>3, TreeTypes DEF Below
  <2>5. t \in Level(lv, n)
    BY <2>4 DEF Level
  <2>6. /\ pte_is_present(tables[t][i]) /\ "HUGE" \notin tables[t][i].flags
        /\ tables[t][i].frame = c
    BY <2>3, TableEntry DEF Leads
  <2>7. PICK l : l = <<t, i>>
    OBVIOUS
  <2>8. l \in Level(lv, n) \X Index /\ l[1] = t /\ l[2] = i
    BY <2>5, <2>7
  <2>9. l \in LinksOf(Level(lv, n))
    BY <2>6, <2>8 DEF LinksOf
  <2> QED
    BY <2>6, <2>8, <2>9 DEF Children
<1> QED
  BY <1>1, <1>2

\* The links above the last level are as many as the tables but the root.
LEMMA LinksCounted ==
  ASSUME NEW lv, NEW ix, Placed(lv, ix), Linked(lv, ix),
         IsFiniteSet(DOMAIN tables), kernel_pml4 \in DOMAIN tables,
         NEW U, U = {t \in DOMAIN tables : lv[t] < 4}
  PROVE  Cardinality(LinksOf(U)) = Cardinality(DOMAIN tables) - 1
<1> DEFINE S == DOMAIN tables \ {kernel_pml4}
           L == LinksOf(U)
           P(c, l) == /\ l \in L /\ tables[l[1]][l[2]].frame = c
                      /\ l[1] \in DOMAIN tables /\ Below(lv, ix, c, l[1], l[2])
           f == [c \in S |-> CHOOSE l : P(c, l)]
<1>1. ASSUME NEW l \in L
      PROVE  /\ l[1] \in DOMAIN tables /\ l[2] \in Index /\ l = <<l[1], l[2]>>
             /\ tables[l[1]][l[2]].frame \in S
             /\ P(tables[l[1]][l[2]].frame, l)
  <2>1. /\ l[1] \in U /\ l[2] \in Index /\ l = <<l[1], l[2]>>
        /\ pte_is_present(tables[l[1]][l[2]]) /\ "HUGE" \notin tables[l[1]][l[2]].flags
    BY <1>1 DEF LinksOf
  <2>2. PICK t, i : t = l[1] /\ i = l[2]
    OBVIOUS
  <2>3. t \in DOMAIN tables /\ lv[t] < 4
    BY <2>1, <2>2
  <2>4. tables[t][i].frame \in DOMAIN tables /\ Below(lv, ix, tables[t][i].frame, t, i)
    BY <2>1, <2>2, <2>3, LinkBelow
  <2>5. tables[t][i].frame # kernel_pml4
    <3>1. lv[tables[t][i].frame] = lv[t] + 1 /\ lv[t] \in 1 .. 4
      BY <2>3, <2>4, TreeTypes DEF Below
    <3> QED
      BY <2>4, <3>1 DEF Placed
  <2> QED
    BY <1>1, <2>1, <2>2, <2>3, <2>4, <2>5
<1>2. ASSUME NEW c \in S PROVE \E l : P(c, l)
  <2>1. PICK t \in DOMAIN tables, i \in Index :
          Leads(lv, t, i, c) /\ Below(lv, ix, c, t, i)
    BY ParentBelow
  <2>2. /\ pte_is_present(tables[t][i]) /\ "HUGE" \notin tables[t][i].flags
        /\ tables[t][i].frame = c /\ lv[t] < 4
    BY <2>1, TableEntry DEF Leads
  <2>3. PICK l : l = <<t, i>>
    OBVIOUS
  <2>4. t \in U
    BY <2>2
  <2>5. l \in U \X Index /\ l[1] = t /\ l[2] = i
    BY <2>3, <2>4
  <2>6. l \in L
    BY <2>2, <2>5 DEF LinksOf
  <2> QED
    BY <2>1, <2>2, <2>5, <2>6
<1>3. ASSUME NEW c \in S PROVE f[c] \in L /\ P(c, f[c])
  BY <1>2, <1>3
<1>4. f \in [S -> L]
  BY <1>3
<1>5. ASSUME NEW c \in S, NEW d \in S, f[c] = f[d] PROVE c = d
  BY <1>3, <1>5
<1>6. ASSUME NEW l \in L PROVE \E c \in S : f[c] = l
  <2>1. PICK c : c = tables[l[1]][l[2]].frame
    OBVIOUS
  <2>2. c \in S /\ P(c, l)
    BY <1>1, <1>6, <2>1
  <2>3. P(c, f[c])
    BY <1>3, <2>2
  <2>4. PICK m : m = f[c]
    OBVIOUS
  <2>5. m \in L /\ m[1] \in DOMAIN tables /\ Below(lv, ix, c, m[1], m[2])
        /\ l[1] \in DOMAIN tables /\ Below(lv, ix, c, l[1], l[2])
    BY <2>2, <2>3, <2>4
  <2>6. m[1] = l[1] /\ m[2] = l[2]
    BY <2>2, <2>5, OneParent
  <2>7. m = l
    BY <2>5, <2>6, <1>1, <1>6
  <2> QED
    BY <2>2, <2>4, <2>7
<1>7. f \in Bijection(S, L)
  <2> HIDE DEF f, P, S, L
  <2>1. f \in Injection(S, L)
    BY <1>4, <1>5 DEF Injection, IsInjective
  <2>2. f \in Surjection(S, L)
    BY <1>4, <1>6 DEF Surjection
  <2> QED
    BY <2>1, <2>2 DEF Bijection
<1>8. ExistsBijection(S, L)
  BY <1>7 DEF ExistsBijection
<1>9. IsFiniteSet(S) /\ Cardinality(S) = Cardinality(DOMAIN tables) - 1
  BY FS_RemoveElement
<1> QED
  BY <1>8, <1>9, FS_Bijection

\* No failure and no order of calls loses a frame or links one twice: the
\* frames the VMM has taken are the tables reachable from its root, each by
\* one entry.
THEOREM TablesStayATree == Spec => []TablesFormTree
<1>1. IInv => TablesFormTree
  <2>1. SUFFICES ASSUME IInv, kernel_pml4 # 0, ~smashed, vpc # "halted"
                 PROVE  LET pdpts == Children({kernel_pml4})
                            pds == Children(pdpts)
                            upper == {kernel_pml4} \cup pdpts \cup pds
                        IN  /\ held = upper \cup Children(pds)
                            /\ Cardinality(LinksOf(upper)) = Cardinality(held) - 1
    BY DEF TablesFormTree
  <2>2. PICK lv, ix : Tree(lv, ix)
    BY <2>1 DEF IInv
  <2>3. Placed(lv, ix) /\ Linked(lv, ix)
    BY <2>2 DEF Tree
  <2>4. held = DOMAIN tables /\ IsFiniteSet(held) /\ kernel_pml4 \in DOMAIN tables
    BY <2>1 DEF IInv, PoolOK, TypeOK
  <2>5. {kernel_pml4} = Level(lv, 1)
    BY <2>3, <2>4 DEF Placed, Level
  <2>6. Children({kernel_pml4}) = Level(lv, 2)
    <3>1. Children(Level(lv, 1)) = Level(lv, 1 + 1)
      BY <2>3, ChildrenOfLevel
    <3> QED
      BY <3>1, <2>5
  <2>7. Children(Level(lv, 2)) = Level(lv, 3)
    <3>1. Children(Level(lv, 2)) = Level(lv, 2 + 1)
      BY <2>3, ChildrenOfLevel
    <3> QED
      BY <3>1
  <2>8. Children(Level(lv, 3)) = Level(lv, 4)
    <3>1. Children(Level(lv, 3)) = Level(lv, 3 + 1)
      BY <2>3, ChildrenOfLevel
    <3> QED
      BY <3>1
  <2>9. PICK U : U = Level(lv, 1) \cup Level(lv, 2) \cup Level(lv, 3)
    OBVIOUS
  <2>10. \A t \in DOMAIN tables : lv[t] = 1 \/ lv[t] = 2 \/ lv[t] = 3 \/ lv[t] = 4
    <3>1. \A t \in DOMAIN tables : lv[t] \in 1 .. 4
      BY <2>3 DEF Placed
    <3> QED
      BY <3>1
  <2>11. U = {t \in DOMAIN tables : lv[t] < 4}
    BY <2>9, <2>10 DEF Level
  <2>12. held = U \cup Level(lv, 4)
    BY <2>4, <2>9, <2>10 DEF Level
  <2>13. Cardinality(LinksOf(U)) = Cardinality(held) - 1
    BY <2>3, <2>4, <2>11, LinksCounted
  <2> QED
    BY <2>5, <2>6, <2>7, <2>8, <2>9, <2>12, <2>13
<1> QED
  BY <1>1, Invariant, PTL

=============================================================================
