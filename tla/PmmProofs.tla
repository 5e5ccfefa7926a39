----------------------------- MODULE PmmProofs ------------------------------
(***************************************************************************)
(* Proofs about module Pmm, for every frame size, bitmap size, reserved    *)
(* range and memory map.  The inductive invariant says which bits are      *)
(* clear at each point of pmm_init, exactly; everything else follows.      *)
(***************************************************************************)
EXTENDS Pmm, FiniteSetTheorems, TLAPS

\* The frames pmm_init has cleared when it is at entry i and frame p.
ClearedSoFar ==
  {q \in 0 .. (total_pages - 1) :
     \E k \in Usable(mmap) :
       /\ PageOf(q, mmap[k])
       /\ k < i \/ (pc = "pages" /\ k = i /\ q < p)}

\* Every frame below total_pages has a bit, and none exists before sizing.
Sized ==
  /\ total_pages <= bitmap_size * 8
  /\ pc = "scan" => total_pages = 0 /\ bitmap_size = 0

\* The bits of the last byte that stand for no frame stay set.
Padding == \A q \in Nat : InBitmap(q) /\ total_pages <= q => q \in bitmap

\* Where the loops of pmm_init stand.
Loops ==
  /\ pc = "pages" => /\ i \in Usable(mmap)
                     /\ StartPage(mmap[i]) <= p
  /\ pc = "reserve" => p <= RESERVED
  /\ pc \in {"reserve", "ready"} => i = Len(mmap) + 1

\* Which frames are free, exactly.
FreeExact ==
  /\ pc \in {"entry", "pages"} => FreePages = ClearedSoFar
  /\ pc = "reserve" => FreePages = {q \in UsablePages : p <= q}
  /\ pc = "ready" => FreePages \cup allocated
                       = {q \in UsablePages : RESERVED <= q}
  /\ pc # "ready" => allocated = {}
  /\ FreePages \cap allocated = {}

IInv == TypeOK /\ Sized /\ Padding /\ Loops /\ FreeExact /\ FreeCount

-----------------------------------------------------------------------------
(***************************************************************************)
(* Arithmetic of frames.                                                   *)
(***************************************************************************)

\* Division is what the frame computations need of it.
LEMMA DivFacts ==
  ASSUME NEW a \in Nat, NEW P \in Nat \ {0}
  PROVE  /\ a \div P \in Nat
         /\ a % P \in 0 .. (P - 1)
         /\ a = P * (a \div P) + (a % P)
  OBVIOUS

\* The same facts as bounds on the quotient's product.
LEMMA DivBounds ==
  ASSUME NEW a \in Nat, NEW P \in Nat \ {0}
  PROVE  /\ a \div P \in Nat
         /\ P * (a \div P) <= a
         /\ a < P * (a \div P) + P
         /\ a % P = 0 => a = P * (a \div P)
  <1> DEFINE d == a \div P
             r == a % P
  <1>1. d \in Nat /\ r \in 0 .. (P - 1) /\ a = P * d + r
    BY DivFacts
  <1> HIDE DEF d, r
  <1>2. P * d \in Nat
    BY <1>1
  <1>3. d \in Nat /\ P * d <= a /\ a < P * d + P /\ (r = 0 => a = P * d)
    BY <1>1, <1>2
  <1> QED BY <1>3 DEF d, r

\* A product is monotone, stated in the form the next lemmas use.
LEMMA MulMono ==
  ASSUME NEW x \in Nat, NEW y \in Nat, NEW P \in Nat \ {0}, x < y
  PROVE  P * x + P <= P * y
  <1>1. PICK d \in Nat : y = x + 1 + d
    <2>1. y - x - 1 \in Nat /\ y = x + 1 + (y - x - 1)
      OBVIOUS
    <2>2. QED BY <2>1
  <1>2. P * y = P * x + P + P * d
    BY <1>1
  <1>3. P * d >= 0
    OBVIOUS
  <1>4. QED BY <1>2, <1>3

\* Rounding down start and length separately never passes the rounded end.
LEMMA DivAdd ==
  ASSUME NEW a \in Nat, NEW b \in Nat, NEW c \in Nat, NEW P \in Nat \ {0},
         a + b <= c
  PROVE  a \div P + b \div P <= c \div P
  <1> DEFINE x == a \div P + b \div P
             y == c \div P
  <1>1. /\ a \div P \in Nat /\ b \div P \in Nat /\ c \div P \in Nat
        /\ P * (a \div P) <= a /\ P * (b \div P) <= b
        /\ c < P * (c \div P) + P
    BY DivFacts
  <1>2. x \in Nat /\ y \in Nat
    BY <1>1
  <1>3. P * x = P * (a \div P) + P * (b \div P)
    BY <1>1
  <1>4. P * x <= c
    BY <1>1, <1>3, P * (a \div P) \in Nat, P * (b \div P) \in Nat
  <1>5. c < P * y + P
    BY <1>1
  <1> HIDE DEF x, y
  <1>6. ~(y < x)
    <2> SUFFICES ASSUME y < x PROVE FALSE
      OBVIOUS
    <2>1. P * y + P <= P * x
      BY <1>2, MulMono
    <2>2. P * y \in Nat /\ P * x \in Nat
      BY <1>2
    <2> QED BY <2>1, <2>2, <1>4, <1>5
  <1>7. x <= y
    BY <1>2, <1>6
  <1> QED BY <1>7 DEF x, y

\* The frames of two regions that share no byte are different frames.
LEMMA PagesApart ==
  ASSUME NEW e \in Entry, NEW f \in Entry, End(e) <= f.addr,
         NEW q \in Nat, PageOf(q, e)
  PROVE  ~PageOf(q, f)
  <1>1. e.addr \in Nat /\ e.len \in Nat /\ f.addr \in Nat
    BY DEF Entry
  <1>2. StartPage(e) + PageCount(e) <= StartPage(f)
    BY <1>1, DivAdd, PageSizeAssumption DEF StartPage, PageCount, End
  <1>3. StartPage(e) \in Nat /\ PageCount(e) \in Nat /\ StartPage(f) \in Nat
    BY <1>1, DivFacts, PageSizeAssumption DEF StartPage, PageCount
  <1> QED BY <1>2, <1>3 DEF PageOf

\* So no frame belongs to two usable entries of a memory map.
LEMMA PagesDisjoint ==
  ASSUME NEW m \in MemoryMaps, NEW j \in Usable(m), NEW k \in Usable(m),
         j # k, NEW q \in Nat, PageOf(q, m[j])
  PROVE  ~PageOf(q, m[k])
  <1>1. m \in Seq(Entry) /\ DisjointUsable(m)
    BY MemoryMapsAssumption
  <1>2. m[j] \in Entry /\ m[k] \in Entry
    BY <1>1 DEF Usable
  <1>3. End(m[j]) <= m[k].addr \/ End(m[k]) <= m[j].addr
    BY <1>1 DEF DisjointUsable
  <1> QED BY <1>2, <1>3, PagesApart

\* A usable entry's frame numbers are natural numbers.
LEMMA EntryType ==
  ASSUME NEW m \in MemoryMaps, NEW k \in 1 .. Len(m)
  PROVE  /\ m \in Seq(Entry)
         /\ m[k] \in Entry
         /\ StartPage(m[k]) \in Nat
         /\ PageCount(m[k]) \in Nat
         /\ End(m[k]) \in Nat
  <1>1. m \in Seq(Entry)
    BY MemoryMapsAssumption
  <1>2. m[k] \in Entry
    BY <1>1
  <1>3. m[k].addr \in Nat /\ m[k].len \in Nat
    BY <1>2 DEF Entry
  <1>4. StartPage(m[k]) \in Nat /\ PageCount(m[k]) \in Nat
    BY <1>3, DivFacts, PageSizeAssumption DEF StartPage, PageCount
  <1>5. End(m[k]) \in Nat
    BY <1>3 DEF End
  <1> QED BY <1>1, <1>2, <1>4, <1>5

\* The usable entries are entries of the list.
LEMMA UsableType ==
  ASSUME NEW m \in MemoryMaps
  PROVE  Usable(m) = {k \in 1 .. Len(m) : m[k].type = 1}
  <1>1. m \in Seq(Entry)
    BY MemoryMapsAssumption
  <1> QED BY <1>1 DEF Usable

\* A frame below total_pages has a bit, so its bit decides whether it is free.
LEMMA FreeBits ==
  ASSUME NEW t \in Nat, NEW s \in Nat, t <= s * 8, NEW q \in 0 .. (t - 1)
  PROVE  q \div 8 < s
  OBVIOUS

\* A bit that lies in one of the bitmap's s bytes is one of its 8s bits.
LEMMA ByteBits ==
  ASSUME NEW s \in Nat, NEW q \in Nat, q \div 8 < s
  PROVE  q \in 0 .. (s * 8 - 1)
  OBVIOUS

-----------------------------------------------------------------------------
(***************************************************************************)
(* The invariant.                                                          *)
(***************************************************************************)

\* The state pmm_init starts in satisfies the invariant.
LEMMA InitInv == Init => IInv
  <1> SUFFICES ASSUME Init PROVE IInv
    OBVIOUS
  <1>1. FreePages = {}
    BY DEF Init, FreePages
  <1>2. Cardinality(FreePages) = 0
    BY <1>1, FS_EmptySet
  <1>3. TypeOK
    <2>1. Len(mmap) \in Nat
      BY MemoryMapsAssumption DEF Init
    <2> QED BY <2>1, StaticBitmapAssumption DEF Init, TypeOK
  <1>4. Padding
    <2>1. ASSUME NEW q \in Nat PROVE ~(q \div 8 < 0)
      OBVIOUS
    <2> QED BY <2>1 DEF Init, Padding, InBitmap
  <1> QED
    BY <1>1, <1>2, <1>3, <1>4
    DEF Init, IInv, Sized, Loops, FreeExact, FreeCount

\* The frames a bitmap of the given size calls free.
LEMMA FreeMeans ==
  ASSUME TypeOK, Sized
  PROVE  FreePages = {q \in 0 .. (total_pages - 1) : q \notin bitmap}
  <1>1. ASSUME NEW q \in 0 .. (total_pages - 1) PROVE InBitmap(q)
    BY FreeBits DEF TypeOK, Sized, InBitmap
  <1> QED BY <1>1 DEF FreePages, bitmap_test

\* A step that leaves the bitmap and its size alone leaves the pool alone.
LEMMA FreeSame ==
  ASSUME UNCHANGED <<bitmap, bitmap_size, total_pages>>
  PROVE  FreePages' = FreePages /\ (Padding => Padding')
  BY DEF FreePages, bitmap_test, InBitmap, Padding

\* The pool is finite at every point.
LEMMA FreeFinite ==
  ASSUME TypeOK
  PROVE  IsFiniteSet(FreePages) /\ FreePages \subseteq 0 .. (total_pages - 1)
  <1>1. FreePages \subseteq 0 .. (total_pages - 1)
    BY DEF FreePages
  <1>2. IsFiniteSet(0 .. (total_pages - 1))
    BY FS_Interval DEF TypeOK
  <1> QED BY <1>1, <1>2, FS_Subset

\* The first pass: max_memory grows, the pool stays empty.
LEMMA ScanEntryInv == IInv /\ ScanEntry => IInv'
  <1> SUFFICES ASSUME IInv, ScanEntry PROVE IInv'
    OBVIOUS
  <1>1. FreePages' = FreePages /\ Padding'
    BY FreeSame DEF ScanEntry, IInv
  <1>2. End(mmap[i]) \in Nat /\ Len(mmap) \in Nat
    BY EntryType, MemoryMapsAssumption DEF IInv, TypeOK, ScanEntry
  <1>3. TypeOK'
    BY <1>2 DEF IInv, TypeOK, ScanEntry
  <1> QED
    BY <1>1, <1>3
    DEF IInv, ScanEntry, Sized, Loops, FreeExact, FreeCount

\* Sizing: every bit is set and every frame below total_pages has one.
LEMMA SizeBitmapInv == IInv /\ SizeBitmap => IInv'
  <1> SUFFICES ASSUME IInv, SizeBitmap PROVE IInv'
    OBVIOUS
  <1> DEFINE pages == max_memory \div PAGE_SIZE
             bytes == (pages + 7) \div 8
  <1>1. pages \in Nat
    BY DivFacts, PageSizeAssumption DEF IInv, TypeOK
  <1>2. /\ bitmap_size' = IF bytes > STATIC_BITMAP THEN STATIC_BITMAP ELSE bytes
        /\ total_pages' = IF bytes > STATIC_BITMAP THEN STATIC_BITMAP * 8
                                                   ELSE pages
        /\ bitmap' = 0 .. (bitmap_size' * 8 - 1)
        /\ pc' = "entry" /\ i' = 1
    BY DEF SizeBitmap
  <1> HIDE DEF pages
  <1>3. bytes \in Nat /\ pages <= bytes * 8
    BY <1>1
  <1> HIDE DEF bytes
  <1>4. /\ bitmap_size' \in 0 .. STATIC_BITMAP
        /\ total_pages' \in Nat
        /\ total_pages' <= bitmap_size' * 8
    BY <1>1, <1>2, <1>3, StaticBitmapAssumption
  <1>5. Len(mmap) \in Nat /\ mmap' = mmap
    BY MemoryMapsAssumption DEF IInv, TypeOK, SizeBitmap
  <1>6. bitmap' \in SUBSET Nat
    BY <1>2, <1>4, StaticBitmapAssumption
  <1>7. TypeOK'
    BY <1>2, <1>4, <1>5, <1>6 DEF IInv, TypeOK, SizeBitmap
  <1>8. Sized'
    BY <1>2, <1>4 DEF Sized
  <1>9. FreePages' = {}
    <2>1. ASSUME NEW q \in 0 .. (total_pages' - 1)
          PROVE  q \in bitmap'
      BY <1>2, <1>4, StaticBitmapAssumption
    <2> QED BY <2>1 DEF FreePages, bitmap_test
  <1>10. ClearedSoFar' = {}
    BY <1>2, <1>5, UsableType DEF ClearedSoFar, IInv, TypeOK
  <1>11. free_pages' = 0 /\ allocated' = {}
    <2>1. FreePages = {}
      BY DEF FreePages, IInv, Sized, SizeBitmap
    <2> QED
      BY <2>1, FS_EmptySet DEF IInv, FreeCount, FreeExact, SizeBitmap
  <1>12. FreeCount'
    BY <1>9, <1>11, FS_EmptySet DEF FreeCount
  <1>13. Loops' /\ FreeExact'
    BY <1>2, <1>9, <1>10, <1>11 DEF Loops, FreeExact
  <1>14. Padding'
    <2>1. ASSUME NEW q \in Nat, q \div 8 < bitmap_size'
          PROVE  q \in 0 .. (bitmap_size' * 8 - 1)
      <3>1. bitmap_size' \in Nat
        BY <1>4, StaticBitmapAssumption
      <3> QED BY <2>1, <3>1, ByteBits
    <2> QED BY <1>2, <2>1 DEF Padding, InBitmap
  <1> QED BY <1>7, <1>8, <1>12, <1>13, <1>14 DEF IInv

\* The second pass reaches an entry: nothing is cleared yet for it.
LEMMA NextEntryInv == IInv /\ NextEntry => IInv'
  <1> SUFFICES ASSUME IInv, NextEntry PROVE IInv'
    OBVIOUS
  <1> USE DEF IInv
  <1>1. FreePages' = FreePages /\ Padding'
    BY FreeSame DEF NextEntry, IInv
  <1>2. /\ Len(mmap) \in Nat /\ i \in 1 .. Len(mmap)
        /\ StartPage(mmap[i]) \in Nat /\ PageCount(mmap[i]) \in Nat
        /\ mmap' = mmap
    <2>1. mmap \in MemoryMaps /\ Len(mmap) \in Nat
      BY MemoryMapsAssumption DEF TypeOK
    <2>2. i \in 1 .. Len(mmap)
      BY <2>1 DEF TypeOK, NextEntry
    <2>3. StartPage(mmap[i]) \in Nat /\ PageCount(mmap[i]) \in Nat
      BY <2>1, <2>2, EntryType
    <2> QED
      BY <2>1, <2>2, <2>3 DEF NextEntry
  <1>3. Usable(mmap) = {k \in 1 .. Len(mmap) : mmap[k].type = 1}
    BY UsableType DEF TypeOK
  <1>4. TypeOK'
    BY <1>2 DEF TypeOK, NextEntry
  <1>5. Sized'
    BY DEF Sized, NextEntry
  <1>6. Loops'
    BY <1>2, <1>3 DEF Loops, NextEntry
  <1>7. ClearedSoFar' = ClearedSoFar
    <2>1. CASE mmap[i].type = 1
      <3>1. pc = "entry" /\ pc' = "pages" /\ i' = i /\ p' = StartPage(mmap[i])
        BY <2>1 DEF NextEntry
      <3>2. total_pages \in Nat /\ total_pages' = total_pages
        BY DEF NextEntry, TypeOK
      <3>3. ASSUME NEW q \in 0 .. (total_pages - 1), PageOf(q, mmap[i])
            PROVE  ~(q < p')
        BY <1>2, <3>1, <3>2, <3>3 DEF PageOf
      <3> QED
        BY <1>2, <1>3, <3>1, <3>2, <3>3
        DEF ClearedSoFar, PageOf, StartPage, PageCount
    <2>2. CASE mmap[i].type # 1
      <3>1. pc = "entry" /\ pc' = "entry" /\ i' = i + 1
        BY <2>2 DEF NextEntry
      <3>2. ASSUME NEW k \in Usable(mmap) PROVE k < i' <=> k < i
        BY <1>2, <1>3, <2>2, <3>1
      <3> QED
        BY <1>2, <3>1, <3>2
        DEF ClearedSoFar, NextEntry, PageOf, StartPage, PageCount
    <2> QED BY <2>1, <2>2
  <1>8. pc = "entry" /\ pc' \in {"entry", "pages"} /\ allocated' = allocated
        /\ free_pages' = free_pages
    BY DEF NextEntry
  <1>9. FreeExact' /\ FreeCount'
    BY <1>1, <1>7, <1>8 DEF FreeExact, FreeCount
  <1> QED BY <1>1, <1>4, <1>5, <1>6, <1>9

\* One frame is cleared: it was not free before, so the count stays exact.
LEMMA ClearPageInv == IInv /\ ClearPage => IInv'
  <1> SUFFICES ASSUME IInv, ClearPage PROVE IInv'
    OBVIOUS
  <1> USE DEF IInv
  <1>1. /\ pc = "pages" /\ pc' = "pages" /\ i' = i /\ p' = p + 1
        /\ mmap' = mmap /\ total_pages' = total_pages
        /\ bitmap_size' = bitmap_size /\ allocated' = allocated
        /\ free_pages' = free_pages + 1
        /\ p < StartPage(mmap[i]) + PageCount(mmap[i]) /\ p < total_pages
    BY DEF ClearPage, InPageLoop
  <1>2. /\ total_pages \in Nat /\ bitmap_size \in Nat /\ p \in Nat
        /\ total_pages <= bitmap_size * 8 /\ mmap \in MemoryMaps
        /\ i \in Usable(mmap) /\ StartPage(mmap[i]) <= p
    BY <1>1, StaticBitmapAssumption DEF TypeOK, Sized, Loops
  <1>3. p \in 0 .. (total_pages - 1) /\ PageOf(p, mmap[i])
    BY <1>1, <1>2 DEF PageOf
  <1>4. bitmap' = bitmap \ {p}
    BY <1>2, <1>3, FreeBits DEF ClearPage, bitmap_clear, InBitmap
  <1>5. FreePages' = FreePages \cup {p}
    <2>1. ASSUME NEW q \in 0 .. (total_pages - 1) PROVE InBitmap(q)
      BY <1>2, FreeBits DEF InBitmap
    <2> QED BY <1>1, <1>3, <1>4, <2>1 DEF FreePages, bitmap_test, InBitmap
  <1>6. FreePages = ClearedSoFar
    BY <1>1 DEF FreeExact
  <1>7. p \notin FreePages
    <2> SUFFICES ASSUME p \in ClearedSoFar PROVE FALSE
      BY <1>6
    <2>1. PICK k \in Usable(mmap) :
             PageOf(p, mmap[k]) /\ (k < i \/ (k = i /\ p < p))
      BY DEF ClearedSoFar
    <2>2. i \in Nat
      BY DEF TypeOK
    <2>3. k # i
      BY <1>2, <2>1, <2>2
    <2> QED BY <1>2, <1>3, <2>1, <2>3, PagesDisjoint
  <1>8. ClearedSoFar' = ClearedSoFar \cup {p}
    <2>1. ASSUME NEW q \in 0 .. (total_pages - 1)
          PROVE  q < p + 1 <=> (q < p \/ q = p)
      BY <1>2
    <2> QED
      BY <1>1, <1>2, <1>3, <2>1
      DEF ClearedSoFar, PageOf, StartPage, PageCount
  <1>9. Cardinality(FreePages') = Cardinality(FreePages) + 1
    BY <1>5, <1>7, FreeFinite, FS_AddElement
  <1>10. TypeOK'
    BY <1>1, <1>4 DEF TypeOK, ClearPage
  <1>11. Sized' /\ Loops'
    <2>1. StartPage(mmap[i]) \in Nat
      BY <1>2, UsableType, EntryType
    <2>2. StartPage(mmap[i])' = StartPage(mmap[i])
      BY <1>1 DEF StartPage
    <2>3. Sized'
      BY <1>1, <1>2 DEF Sized
    <2>4. Loops'
      BY <1>1, <1>2, <2>1, <2>2 DEF Loops
    <2> QED BY <2>3, <2>4
  <1>12. FreeExact'
    BY <1>1, <1>5, <1>6, <1>8 DEF FreeExact
  <1>13. FreeCount'
    BY <1>1, <1>9 DEF FreeCount
  <1>14. Padding'
    BY <1>1, <1>2, <1>4 DEF Padding, InBitmap
  <1> QED BY <1>10, <1>11, <1>12, <1>13, <1>14

\* The page loop ends: all of the entry's frames below total_pages are clear.
LEMMA EntryDoneInv == IInv /\ EntryDone => IInv'
  <1> SUFFICES ASSUME IInv, EntryDone PROVE IInv'
    OBVIOUS
  <1> USE DEF IInv
  <1>1. FreePages' = FreePages /\ Padding'
    BY FreeSame DEF EntryDone, IInv
  <1>2. /\ pc = "pages" /\ pc' = "entry" /\ i' = i + 1 /\ mmap' = mmap
        /\ total_pages' = total_pages /\ allocated' = allocated
        /\ free_pages' = free_pages
    BY DEF EntryDone
  <1>3. Usable(mmap) = {k \in 1 .. Len(mmap) : mmap[k].type = 1}
    BY UsableType DEF TypeOK
  <1>4. /\ Len(mmap) \in Nat /\ i \in 1 .. Len(mmap) /\ i \in Usable(mmap)
        /\ p \in Nat /\ total_pages \in Nat
    BY <1>2, <1>3, MemoryMapsAssumption DEF TypeOK, Loops
  <1>5. StartPage(mmap[i]) \in Nat /\ PageCount(mmap[i]) \in Nat
    BY <1>4, EntryType DEF TypeOK
  <1>6. TypeOK'
    BY <1>2, <1>4 DEF TypeOK, EntryDone
  <1>7. Sized' /\ Loops'
    BY <1>2 DEF Sized, Loops, EntryDone
  <1>8. ClearedSoFar' = ClearedSoFar
    <2>1. ASSUME NEW q \in 0 .. (total_pages - 1), PageOf(q, mmap[i])
          PROVE  q < p
      BY <1>4, <1>5, <2>1 DEF PageOf, EntryDone, InPageLoop
    <2>2. ASSUME NEW k \in Usable(mmap) PROVE k < i' <=> (k < i \/ k = i)
      BY <1>2, <1>3, <1>4
    <2> QED
      BY <1>2, <1>4, <2>1, <2>2
      DEF ClearedSoFar, PageOf, StartPage, PageCount
  <1>9. FreeExact' /\ FreeCount'
    BY <1>1, <1>2, <1>8 DEF FreeExact, FreeCount
  <1> QED BY <1>1, <1>6, <1>7, <1>9

\* The second pass ends: exactly the usable frames are free.
LEMMA EntriesDoneInv == IInv /\ EntriesDone => IInv'
  <1> SUFFICES ASSUME IInv, EntriesDone PROVE IInv'
    OBVIOUS
  <1> USE DEF IInv
  <1>1. FreePages' = FreePages /\ Padding'
    BY FreeSame DEF EntriesDone, IInv
  <1>2. /\ pc = "entry" /\ pc' = "reserve" /\ p' = 0 /\ i' = i /\ mmap' = mmap
        /\ total_pages' = total_pages /\ allocated' = allocated
        /\ free_pages' = free_pages /\ i > Len(mmap)
    BY DEF EntriesDone
  <1>3. Usable(mmap) = {k \in 1 .. Len(mmap) : mmap[k].type = 1}
    BY UsableType DEF TypeOK
  <1>4. Len(mmap) \in Nat /\ i = Len(mmap) + 1 /\ total_pages \in Nat
    BY <1>2, MemoryMapsAssumption DEF TypeOK
  <1>5. TypeOK' /\ Sized'
    BY <1>2 DEF TypeOK, Sized, EntriesDone
  <1>6. Loops'
    BY <1>2, <1>4, ReservedAssumption DEF Loops
  <1>7. UsablePages' = UsablePages
    BY <1>2 DEF UsablePages, PageOf, StartPage, PageCount
  <1>8. FreePages' = {q \in UsablePages' : p' <= q}
    <2>1. ASSUME NEW k \in Usable(mmap) PROVE k < i
      BY <1>3, <1>4
    <2>2. FreePages = ClearedSoFar
      BY <1>2 DEF FreeExact
    <2>3. ClearedSoFar = UsablePages
      BY <2>1 DEF ClearedSoFar, UsablePages
    <2>4. ASSUME NEW q \in UsablePages PROVE p' <= q
      BY <1>2, <1>4 DEF UsablePages
    <2> QED BY <1>1, <1>7, <2>2, <2>3, <2>4
  <1>9. FreeExact'
    BY <1>1, <1>2, <1>8 DEF FreeExact
  <1>10. FreeCount'
    BY <1>1, <1>2 DEF FreeCount
  <1> QED BY <1>1, <1>5, <1>6, <1>9, <1>10

\* A low frame is taken out of the pool, and out of the count if it was in.
LEMMA ReservePageInv == IInv /\ ReservePage => IInv'
  <1> SUFFICES ASSUME IInv, ReservePage PROVE IInv'
    OBVIOUS
  <1> USE DEF IInv
  <1>1. /\ pc = "reserve" /\ pc' = "reserve" /\ i' = i /\ p' = p + 1
        /\ mmap' = mmap /\ total_pages' = total_pages
        /\ bitmap_size' = bitmap_size /\ allocated' = allocated
        /\ p < RESERVED
    BY DEF ReservePage
  <1>2. /\ total_pages \in Nat /\ bitmap_size \in Nat /\ p \in Nat
        /\ total_pages <= bitmap_size * 8
    BY StaticBitmapAssumption DEF TypeOK, Sized
  <1>3. ASSUME NEW q \in 0 .. (total_pages - 1) PROVE InBitmap(q)
    BY <1>2, FreeBits DEF InBitmap
  <1>4. FreePages' = FreePages \ {p}
    <2>1. ASSUME NEW q \in 0 .. (total_pages - 1)
          PROVE  q \in bitmap' <=> (q \in bitmap \/ q = p)
      BY <1>3, <2>1 DEF ReservePage, bitmap_set
    <2> QED BY <1>1, <1>3, <2>1 DEF FreePages, bitmap_test, InBitmap
  <1>5. FreePages = {q \in UsablePages : p <= q}
    BY <1>1 DEF FreeExact
  <1>6. UsablePages' = UsablePages
    BY <1>1 DEF UsablePages, PageOf, StartPage, PageCount
  <1>7. FreePages' = {q \in UsablePages' : p' <= q}
    <2>1. ASSUME NEW q \in UsablePages
          PROVE  p + 1 <= q <=> (p <= q /\ q # p)
      BY <1>2 DEF UsablePages
    <2> QED BY <1>1, <1>4, <1>5, <1>6, <2>1
  <1>8. free_pages' = Cardinality(FreePages')
    <2>1. CASE p \in FreePages
      <3>1. ~bitmap_test(p)
        BY <2>1 DEF FreePages
      <3>2. Cardinality(FreePages') = Cardinality(FreePages) - 1
        BY <1>4, <2>1, FreeFinite, FS_RemoveElement
      <3> QED BY <3>1, <3>2 DEF ReservePage, FreeCount
    <2>2. CASE p \notin FreePages
      <3>1. bitmap_test(p)
        <4>1. CASE p < total_pages
          BY <1>2, <2>2, <4>1 DEF FreePages
        <4>2. CASE ~(p < total_pages)
          BY <1>2, <4>2 DEF Padding, bitmap_test
        <4> QED BY <4>1, <4>2
      <3>2. FreePages' = FreePages
        BY <1>4, <2>2
      <3> QED BY <3>1, <3>2 DEF ReservePage, FreeCount
    <2> QED BY <2>1, <2>2
  <1>9. Cardinality(FreePages') \in Nat
    BY <1>4, FreeFinite, FS_RemoveElement, FS_CardinalityType
  <1>10. TypeOK'
    <2>1. bitmap' \in SUBSET Nat
      BY <1>2 DEF TypeOK, ReservePage, bitmap_set
    <2> QED BY <1>1, <1>2, <1>8, <1>9, <2>1 DEF TypeOK, ReservePage
  <1>11. Padding'
    BY <1>1 DEF Padding, InBitmap, ReservePage, bitmap_set
  <1>12. Sized' /\ Loops'
    BY <1>1, <1>2, ReservedAssumption DEF Sized, Loops
  <1>13. FreeExact' /\ FreeCount'
    BY <1>1, <1>7, <1>8 DEF FreeExact, FreeCount
  <1> QED BY <1>10, <1>11, <1>12, <1>13

\* pmm_init returns: what is free is what is usable above the reserved range.
LEMMA InitDoneInv == IInv /\ InitDone => IInv'
  <1> SUFFICES ASSUME IInv, InitDone PROVE IInv'
    OBVIOUS
  <1> USE DEF IInv
  <1>1. FreePages' = FreePages /\ Padding'
    BY FreeSame DEF InitDone
  <1>2. UsablePages' = UsablePages
    BY DEF InitDone, UsablePages, PageOf, StartPage, PageCount
  <1>3. TypeOK' /\ Sized' /\ Loops'
    BY DEF InitDone, TypeOK, Sized, Loops
  <1>4. FreeExact' /\ FreeCount'
    BY <1>1, <1>2 DEF InitDone, FreeExact, FreeCount
  <1> QED BY <1>1, <1>3, <1>4

\* An allocation moves the lowest free frame from the pool to its caller.
LEMMA AllocEffect ==
  ASSUME IInv, NEW q \in FreePages, bitmap' = bitmap_set(q),
         UNCHANGED <<bitmap_size, total_pages>>
  PROVE  /\ FreePages' = FreePages \ {q}
         /\ Cardinality(FreePages') = Cardinality(FreePages) - 1
         /\ Cardinality(FreePages') \in Nat
         /\ Padding' /\ bitmap' \in SUBSET Nat
  <1> USE DEF IInv
  <1>1. /\ total_pages \in Nat /\ bitmap_size \in Nat
        /\ total_pages <= bitmap_size * 8
        /\ q \in 0 .. (total_pages - 1)
    BY StaticBitmapAssumption DEF TypeOK, Sized, FreePages
  <1>2. ASSUME NEW r \in 0 .. (total_pages - 1) PROVE InBitmap(r)
    BY <1>1, FreeBits DEF InBitmap
  <1>3. bitmap' = bitmap \cup {q}
    BY <1>1, <1>2 DEF bitmap_set
  <1>4. FreePages' = FreePages \ {q}
    BY <1>1, <1>2, <1>3 DEF FreePages, bitmap_test, InBitmap
  <1>5. Cardinality(FreePages') = Cardinality(FreePages) - 1
    BY <1>4, FreeFinite, FS_RemoveElement
  <1>6. Cardinality(FreePages') \in Nat
    BY <1>4, FreeFinite, FS_RemoveElement, FS_CardinalityType
  <1>7. Padding' /\ bitmap' \in SUBSET Nat
    BY <1>1, <1>3 DEF Padding, InBitmap, TypeOK
  <1> QED BY <1>4, <1>5, <1>6, <1>7

\* pmm_alloc_page keeps the invariant.
LEMMA AllocInv == IInv /\ pmm_alloc_page => IInv'
  <1> SUFFICES ASSUME IInv, pmm_alloc_page PROVE IInv'
    OBVIOUS
  <1> USE DEF IInv
  <1>1. /\ pc = "ready" /\ pc' = "ready" /\ mmap' = mmap /\ i' = i /\ p' = p
        /\ max_memory' = max_memory
        /\ bitmap_size' = bitmap_size /\ total_pages' = total_pages
    BY DEF pmm_alloc_page
  <1>2. UsablePages' = UsablePages
    BY <1>1 DEF UsablePages, PageOf, StartPage, PageCount
  <1>3. Sized' /\ Loops'
    BY <1>1 DEF Sized, Loops
  <1>4. CASE FreePages = {}
    <2>1. UNCHANGED <<bitmap, free_pages, allocated>> /\ ret' = 0
      BY <1>4 DEF pmm_alloc_page
    <2>2. FreePages' = FreePages /\ Padding'
      BY <1>1, <2>1, FreeSame
    <2>3. TypeOK'
      BY <1>1, <2>1 DEF TypeOK
    <2> QED BY <1>1, <1>2, <1>3, <2>1, <2>2, <2>3 DEF FreeExact, FreeCount
  <1>5. ASSUME NEW q \in FreePages, bitmap' = bitmap_set(q),
               free_pages' = free_pages - 1, ret' = q * PAGE_SIZE,
               allocated' = allocated \cup {q}
        PROVE  IInv'
    <2>1. /\ FreePages' = FreePages \ {q}
          /\ Cardinality(FreePages') = Cardinality(FreePages) - 1
          /\ Cardinality(FreePages') \in Nat
          /\ Padding' /\ bitmap' \in SUBSET Nat
      BY <1>1, <1>5, AllocEffect
    <2>2. FreeCount'
      BY <1>5, <2>1 DEF FreeCount
    <2>3. q \in Nat /\ ret' \in Nat
      BY <1>5, PageSizeAssumption DEF FreePages, TypeOK
    <2>4. TypeOK'
      BY <1>1, <1>5, <2>1, <2>2, <2>3 DEF TypeOK, FreeCount
    <2>5. FreeExact'
      BY <1>1, <1>2, <1>5, <2>1 DEF FreeExact
    <2> QED BY <1>3, <2>1, <2>2, <2>4, <2>5
  <1> QED BY <1>4, <1>5 DEF pmm_alloc_page

\* The address of a frame names the frame.
LEMMA PageOfAddress ==
  ASSUME NEW q \in Nat
  PROVE  (q * PAGE_SIZE) \div PAGE_SIZE = q
  <1> DEFINE P == PAGE_SIZE
             d == (q * P) \div P
  <1>1. P \in Nat \ {0} /\ q * P \in Nat
    BY PageSizeAssumption
  <1>2. d \in Nat /\ P * d <= q * P /\ q * P < P * d + P
    BY <1>1, DivFacts
  <1>3. q * P = P * q
    BY <1>1
  <1> HIDE DEF d, P
  <1>4. ~(d < q)
    <2> SUFFICES ASSUME d < q PROVE FALSE
      OBVIOUS
    <2>1. P * d + P <= P * q
      BY <1>1, <1>2, MulMono
    <2> QED BY <1>1, <1>2, <1>3, <2>1, P * d \in Nat, P * q \in Nat
  <1>5. ~(q < d)
    <2> SUFFICES ASSUME q < d PROVE FALSE
      OBVIOUS
    <2>1. P * q + P <= P * d
      BY <1>1, <1>2, MulMono
    <2> QED BY <1>1, <1>2, <1>3, <2>1, P * d \in Nat, P * q \in Nat
  <1>6. d = q
    BY <1>2, <1>4, <1>5
  <1> QED BY <1>6 DEF d, P

\* A held frame is a usable frame above the reserved range.
LEMMA HeldUsable ==
  ASSUME IInv, NEW q \in allocated
  PROVE  /\ pc = "ready" /\ q \in UsablePages /\ RESERVED <= q
         /\ q \in 0 .. (total_pages - 1) /\ q \notin FreePages
  BY DEF IInv, FreeExact, UsablePages

\* pmm_free_page puts a held frame back and does nothing else: not when the
\* frame is free already, nor when it is out of range.
LEMMA FreeEffect ==
  ASSUME IInv, NEW q \in Freeable, pmm_free_page(q * PAGE_SIZE)
  PROVE  /\ UNCHANGED <<pc, mmap, i, p, max_memory, bitmap_size, total_pages,
                        ret>>
         /\ pc = "ready" /\ pc' = "ready"
         /\ allocated' = allocated \ {q}
         /\ FreePages' = IF q \in allocated THEN FreePages \cup {q}
                                            ELSE FreePages
         /\ FreeCount' /\ TypeOK' /\ Padding'
  <1> USE DEF IInv
  <1>1. /\ total_pages \in Nat /\ bitmap_size \in Nat
        /\ total_pages <= bitmap_size * 8
    BY StaticBitmapAssumption DEF TypeOK, Sized
  <1>2. q \in Nat
    BY <1>1 DEF Freeable, FreePages, TypeOK
  <1>3. /\ pc = "ready" /\ pc' = "ready" /\ mmap' = mmap /\ i' = i /\ p' = p
        /\ max_memory' = max_memory /\ ret' = ret
        /\ bitmap_size' = bitmap_size /\ total_pages' = total_pages
        /\ allocated' = allocated \ {q}
        /\ IF q < total_pages /\ bitmap_test(q)
           THEN bitmap' = bitmap_clear(q) /\ free_pages' = free_pages + 1
           ELSE UNCHANGED <<bitmap, free_pages>>
    BY <1>2, PageOfAddress DEF pmm_free_page
  <1>4. CASE q \in allocated
    <2>1. q \in 0 .. (total_pages - 1) /\ q \notin FreePages
      BY <1>4, HeldUsable
    <2>2. bitmap_test(q)
      BY <2>1 DEF FreePages
    <2>3. ASSUME NEW r \in 0 .. (total_pages - 1) PROVE InBitmap(r)
      BY <1>1, FreeBits DEF InBitmap
    <2>4. bitmap' = bitmap \ {q} /\ free_pages' = free_pages + 1
      BY <1>1, <1>3, <2>1, <2>2, <2>3 DEF bitmap_clear
    <2>5. FreePages' = FreePages \cup {q}
      BY <1>3, <2>1, <2>3, <2>4 DEF FreePages, bitmap_test, InBitmap
    <2>6. Cardinality(FreePages') = Cardinality(FreePages) + 1
      BY <2>1, <2>5, FreeFinite, FS_AddElement
    <2>7. FreeCount'
      BY <2>4, <2>6 DEF FreeCount
    <2>8. TypeOK'
      <3>1. /\ bitmap \in SUBSET Nat /\ free_pages \in Nat
            /\ allocated \in SUBSET Nat
        BY DEF TypeOK
      <3>2. allocated' = allocated \ {q}
        BY <1>3
      <3>3. bitmap' \in SUBSET Nat /\ allocated' \in SUBSET Nat
        BY <2>4, <3>1, <3>2
      <3>4. free_pages' \in Nat
        BY <2>4, <3>1
      <3> QED BY <1>3, <3>3, <3>4 DEF TypeOK
    <2>9. Padding'
      BY <1>1, <1>3, <2>1, <2>4 DEF Padding, InBitmap
    <2> QED BY <1>3, <1>4, <2>5, <2>7, <2>8, <2>9
  <1>5. CASE q \notin allocated
    <2>1. ~(q < total_pages /\ bitmap_test(q))
      BY <1>1, <1>5 DEF Freeable, FreePages
    <2>2. UNCHANGED <<bitmap, free_pages>> /\ allocated' = allocated
      BY <1>3, <1>5, <2>1
    <2>3. FreePages' = FreePages /\ Padding'
      BY <1>3, <2>2, FreeSame
    <2>4. TypeOK'
      BY <1>3, <2>2 DEF TypeOK
    <2>5. FreeCount'
      BY <2>2, <2>3 DEF FreeCount
    <2> QED BY <1>3, <1>5, <2>3, <2>4, <2>5
  <1> QED BY <1>4, <1>5

\* pmm_free_page keeps the invariant.
LEMMA FreeInv ==
  ASSUME IInv, NEW q \in Freeable, pmm_free_page(q * PAGE_SIZE)
  PROVE  IInv'
  <1> USE DEF IInv
  <1>1. /\ UNCHANGED <<pc, mmap, i, p, max_memory, bitmap_size, total_pages,
                       ret>>
        /\ pc = "ready" /\ pc' = "ready"
        /\ allocated' = allocated \ {q}
        /\ FreePages' = IF q \in allocated THEN FreePages \cup {q}
                                           ELSE FreePages
        /\ FreeCount' /\ TypeOK' /\ Padding'
    BY FreeEffect
  <1>2. UsablePages' = UsablePages
    BY <1>1 DEF UsablePages, PageOf, StartPage, PageCount
  <1>3. Sized' /\ Loops'
    BY <1>1 DEF Sized, Loops
  <1>4. FreePages' \cup allocated' = FreePages \cup allocated
    BY <1>1
  <1>5. FreePages' \cap allocated' = {}
    BY <1>1 DEF FreeExact
  <1>6. FreeExact'
    BY <1>1, <1>2, <1>4, <1>5 DEF FreeExact
  <1> QED BY <1>1, <1>3, <1>6

\* Every step of pmm_init and of the service keeps the invariant.
LEMMA StepInv == IInv /\ [Next]_vars => IInv'
  <1> SUFFICES ASSUME IInv, [Next]_vars PROVE IInv'
    OBVIOUS
  <1>1. CASE pmm_init
    BY <1>1, ScanEntryInv, SizeBitmapInv, NextEntryInv, ClearPageInv,
       EntryDoneInv, EntriesDoneInv, ReservePageInv, InitDoneInv
    DEF pmm_init
  <1>2. CASE pmm_alloc_page
    BY <1>2, AllocInv
  <1>3. CASE \E q \in Freeable : pmm_free_page(q * PAGE_SIZE)
    BY <1>3, FreeInv
  <1>4. CASE UNCHANGED vars
    <2> USE DEF IInv
    <2>1. UNCHANGED <<pc, mmap, i, p, max_memory, bitmap, bitmap_size,
                      total_pages, free_pages, allocated, ret>>
      BY <1>4 DEF vars
    <2>2. FreePages' = FreePages /\ Padding'
      BY <2>1, FreeSame
    <2>3. UsablePages' = UsablePages /\ ClearedSoFar' = ClearedSoFar
      BY <2>1 DEF UsablePages, ClearedSoFar, PageOf, StartPage, PageCount
    <2>4. TypeOK' /\ Sized' /\ Loops'
      BY <2>1 DEF TypeOK, Sized, Loops, StartPage
    <2> QED BY <2>1, <2>2, <2>3, <2>4 DEF FreeExact, FreeCount
  <1> QED BY <1>1, <1>2, <1>3, <1>4 DEF Next

\* The inductive invariant holds in every reachable state.
THEOREM Invariant == Spec => []IInv
  BY InitInv, StepInv, PTL DEF Spec

-----------------------------------------------------------------------------
(***************************************************************************)
(* What the invariant gives.                                               *)
(***************************************************************************)

\* The variables keep their types; in particular free_pages, an unsigned
\* counter that is decremented in two places, never goes below zero.
THEOREM TypeCorrect == Spec => []TypeOK
  <1>1. IInv => TypeOK
    BY DEF IInv
  <1> QED BY <1>1, Invariant, PTL

\* The counter is the number of clear bits at every step, for any memory map
\* whose usable entries are disjoint, also when the bitmap is capped.
THEOREM FreeCountExact == Spec => []FreeCount
  <1>1. IInv => FreeCount
    BY DEF IInv
  <1> QED BY <1>1, Invariant, PTL

\* A frame a caller holds is marked used and lies above the reserved range.
THEOREM HeldFramesExclusive == Spec => []HeldExclusive
  <1>1. IInv => HeldExclusive
    <2> SUFFICES ASSUME IInv, NEW q \in allocated
                 PROVE  q \notin FreePages /\ RESERVED <= q /\ q < total_pages
      BY DEF HeldExclusive
    <2>1. total_pages \in Nat
      BY DEF IInv, TypeOK
    <2> QED BY <2>1, HeldUsable
  <1> QED BY <1>1, Invariant, PTL

\* For an entry that starts on a frame boundary, the frames pmm_init counts
\* are the ones that lie wholly inside it.
LEMMA AlignedFrames ==
  ASSUME NEW e \in Entry, e.addr % PAGE_SIZE = 0, NEW q \in Nat
  PROVE  PageOf(q, e) <=> /\ e.addr <= q * PAGE_SIZE
                          /\ (q + 1) * PAGE_SIZE <= End(e)
  <1> DEFINE P == PAGE_SIZE
             s == StartPage(e)
             n == s + PageCount(e)
  <1>1. P \in Nat \ {0} /\ e.addr \in Nat /\ e.len \in Nat
    BY PageSizeAssumption DEF Entry
  <1>2. /\ s \in Nat /\ PageCount(e) \in Nat /\ n \in Nat
        /\ e.addr = P * s
        /\ P * PageCount(e) <= e.len /\ e.len < P * PageCount(e) + P
    <2>1. /\ e.addr \div P \in Nat /\ e.addr = P * (e.addr \div P)
      BY <1>1, DivBounds
    <2>2. /\ e.len \div P \in Nat /\ P * (e.len \div P) <= e.len
          /\ e.len < P * (e.len \div P) + P
      BY <1>1, DivBounds
    <2> QED BY <2>1, <2>2 DEF StartPage, PageCount
  <1>3. P * n = P * s + P * PageCount(e)
    BY <1>1, <1>2
  <1>4. P * n <= End(e) /\ End(e) < P * n + P
    BY <1>1, <1>2, <1>3, P * s \in Nat, P * PageCount(e) \in Nat DEF End
  <1>5. q * P = P * q /\ (q + 1) * P = P * (q + 1) /\ P * (q + 1) = P * q + P
    BY <1>1
  <1>6. End(e) \in Nat /\ P * s \in Nat /\ P * n \in Nat /\ P * q \in Nat
        /\ P * (q + 1) \in Nat
    BY <1>1, <1>2 DEF End
  <1>7. PageOf(q, e) <=> (s <= q /\ q < n)
    BY DEF PageOf
  <1> HIDE DEF P, s, n
  <1>8. s <= q <=> P * s <= P * q
    <2>1. q < s => P * q + P <= P * s
      BY <1>1, <1>2, MulMono
    <2>2. s < q => P * s + P <= P * q
      BY <1>1, <1>2, MulMono
    <2> QED BY <1>1, <1>2, <1>6, <2>1, <2>2
  <1>9. q < n <=> P * (q + 1) <= End(e)
    <2>1. q < n => P * q + P <= P * n
      BY <1>1, <1>2, MulMono
    <2>2. n < q + 1 => P * n + P <= P * (q + 1)
      BY <1>1, <1>2, MulMono
    <2> QED BY <1>1, <1>2, <1>4, <1>5, <1>6, <2>1, <2>2
  <1> QED BY <1>2, <1>5, <1>7, <1>8, <1>9 DEF P

\* No whole frame of usable RAM above the reserved range is ever lost, and
\* no other frame enters the pool.
THEOREM FramesConserved == Spec => []PagesConserved
  <1>1. IInv => PagesConserved
    <2> SUFFICES ASSUME IInv, pc = "ready", AlignedStarts
                 PROVE  FreePages \cup allocated = WholeUsableFrames
      BY DEF PagesConserved
    <2>1. FreePages \cup allocated = {q \in UsablePages : RESERVED <= q}
      BY DEF IInv, FreeExact
    <2>2. total_pages \in Nat /\ mmap \in MemoryMaps
      BY DEF IInv, TypeOK
    <2>3. ASSUME NEW q \in 0 .. (total_pages - 1), NEW k \in Usable(mmap)
          PROVE  PageOf(q, mmap[k])
                   <=> /\ mmap[k].addr <= q * PAGE_SIZE
                       /\ (q + 1) * PAGE_SIZE <= End(mmap[k])
      <3>1. mmap[k] \in Entry
        BY <2>2, UsableType, EntryType
      <3>2. q \in Nat /\ mmap[k].addr % PAGE_SIZE = 0
        BY <2>2 DEF AlignedStarts
      <3> QED BY <3>1, <3>2, AlignedFrames
    <2>4. \A q : q \in RESERVED .. (total_pages - 1)
                   <=> q \in 0 .. (total_pages - 1) /\ RESERVED <= q
      BY <2>2, ReservedAssumption
    <2> QED BY <2>1, <2>3, <2>4 DEF UsablePages, WholeUsableFrames
  <1> QED BY <1>1, Invariant, PTL

\* pmm_alloc_page returns 0 exactly when no frame is free.
THEOREM ZeroIsOutOfMemory == Spec => ZeroMeansOutOfMemory
  <1>1. IInv /\ [Next]_vars
          => [pmm_alloc_page => (ret' = 0 <=> FreePages = {})]_vars
    <2> SUFFICES ASSUME IInv, pmm_alloc_page
                 PROVE  ret' = 0 <=> FreePages = {}
      OBVIOUS
    <2>1. CASE FreePages = {}
      BY <2>1 DEF pmm_alloc_page
    <2>2. CASE FreePages # {}
      <3>1. PICK q \in FreePages : ret' = q * PAGE_SIZE
        BY <2>2 DEF pmm_alloc_page
      <3>2. RESERVED <= q /\ q \in Nat
        BY DEF pmm_alloc_page, IInv, FreeExact, FreePages, TypeOK
      <3>3. q \in Nat \ {0}
        BY <3>2, ReservedAssumption
      <3>4. q * PAGE_SIZE # 0
        BY <3>3, PageSizeAssumption
      <3> QED BY <2>2, <3>1, <3>4
    <2> QED BY <2>1, <2>2
  <1> QED BY <1>1, Invariant, PTL DEF Spec, ZeroMeansOutOfMemory

\* The bitmap allocator implements the page pool: the end of pmm_init is the
\* pool's boot, an allocation takes the lowest free frame or leaves the pool
\* alone, a free gives a held frame back or leaves the pool alone.
THEOREM Refinement == Spec => ImplementsPagePool
  <1>1. Init => Pool!PoolInit
    BY DEF Init, Pool!PoolInit
  <1>2. IInv /\ [Next]_vars => [Pool!PoolNext]_(Pool!poolVars)
    <2> SUFFICES ASSUME IInv, [Next]_vars
                 PROVE  Pool!PoolNext \/ UNCHANGED Pool!poolVars
      OBVIOUS
    <2>1. FreePages \in SUBSET Nat
      BY DEF FreePages, IInv, TypeOK
    <2>2. CASE pmm_init /\ ~InitDone
      <3>1. pc # "ready" /\ pc' # "ready" /\ allocated' = allocated
        BY <2>2 DEF pmm_init, ScanEntry, SizeBitmap, NextEntry, ClearPage,
                    EntryDone, EntriesDone, ReservePage
      <3> QED BY <3>1 DEF Pool!poolVars
    <2>3. CASE InitDone
      <3>1. FreePages' = FreePages
        BY <2>3, FreeSame DEF InitDone
      <3>2. Pool!Boot
        BY <2>1, <2>3, <3>1 DEF Pool!Boot, InitDone, IInv, FreeExact
      <3> QED BY <3>2 DEF Pool!PoolNext
    <2>4. CASE pmm_alloc_page
      <3>1. /\ pc = "ready" /\ pc' = "ready"
            /\ UNCHANGED <<bitmap_size, total_pages>>
        BY <2>4 DEF pmm_alloc_page
      <3>2. CASE FreePages = {}
        <4>1. UNCHANGED <<bitmap, allocated>>
          BY <2>4, <3>2 DEF pmm_alloc_page
        <4>2. FreePages' = FreePages
          BY <3>1, <4>1, FreeSame
        <4> QED BY <3>1, <4>1, <4>2 DEF Pool!poolVars
      <3>3. CASE FreePages # {}
        <4>1. PICK q \in FreePages :
                /\ \A r \in FreePages : q <= r
                /\ bitmap' = bitmap_set(q)
                /\ allocated' = allocated \cup {q}
          BY <2>4, <3>3 DEF pmm_alloc_page
        <4>2. FreePages' = FreePages \ {q}
          BY <3>1, <4>1, AllocEffect
        <4>3. Pool!Take(q)
          BY <3>1, <4>1, <4>2 DEF Pool!Take
        <4> QED BY <3>1, <4>1, <4>3 DEF Pool!PoolNext
      <3> QED BY <3>2, <3>3
    <2>5. ASSUME NEW q \in Freeable, pmm_free_page(q * PAGE_SIZE)
          PROVE  Pool!PoolNext \/ UNCHANGED Pool!poolVars
      <3>1. /\ pc = "ready" /\ pc' = "ready" /\ allocated' = allocated \ {q}
            /\ FreePages' = IF q \in allocated THEN FreePages \cup {q}
                                               ELSE FreePages
        BY <2>5, FreeEffect
      <3>2. CASE q \in allocated
        BY <3>1, <3>2 DEF Pool!PoolNext, Pool!GiveBack
      <3>3. CASE q \notin allocated
        BY <3>1, <3>3 DEF Pool!poolVars
      <3> QED BY <3>2, <3>3
    <2>6. CASE UNCHANGED vars
      BY <2>6 DEF vars, Pool!poolVars, FreePages, bitmap_test, InBitmap
    <2> QED BY <2>2, <2>3, <2>4, <2>5, <2>6 DEF Next
  <1> QED BY <1>1, <1>2, Invariant, PTL DEF Spec, Pool!PoolSpec, ImplementsPagePool

=============================================================================
