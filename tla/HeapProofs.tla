----------------------------- MODULE HeapProofs -----------------------------
(***************************************************************************)
(* Proofs about module Heap, for every page size, header size, alignment,  *)
(* pool of frames and set of requests.  The inductive invariant says that  *)
(* the list visits the blocks in the order of their addresses, that none   *)
(* reaches the next one, and what kmalloc's search has ruled out so far;   *)
(* a second one says what the sizes of the blocks add up to.               *)
(*                                                                         *)
(* NoHoles, that the memory between two frames of the pool is the pool's,  *)
(* is a hypothesis of the theorems that need it, and of those only.        *)
(***************************************************************************)
EXTENDS Heap, FiniteSetTheorems, WellFoundedInduction, TLAPS

\* The free frames have no hole between them.
NoHoles == \A P \in Pools : \A q, r \in P : \A s \in Nat : q <= s /\ s <= r => s \in P

-----------------------------------------------------------------------------
(***************************************************************************)
(* The inductive invariant.                                                *)
(***************************************************************************)

\* The heap has the lowest frames of a pool.
PoolOK ==
  /\ up = TRUE
  /\ held \subseteq Nat \ {0} /\ free \subseteq Nat \ {0}
  /\ held \cup free \in Pools
  /\ \A q \in held, r \in free : q < r

Header == [size : Nat, free : BOOLEAN, next : Nat, magic : {TRUE}]

\* The list is in the order of the addresses: the successor of a block is
\* the next block in memory, and the block ends before it.
ListOK ==
  /\ DOMAIN blocks \subseteq Nat \ {0}
  /\ blocks \in [DOMAIN blocks -> Header]
  /\ \A a \in DOMAIN blocks :
       blocks[a].next # 0 => /\ blocks[a].next \in DOMAIN blocks
                             /\ EndOf(a) <= blocks[a].next
  /\ \A a, b \in DOMAIN blocks :
       a < b => blocks[a].next # 0 /\ blocks[a].next <= b
  /\ DOMAIN blocks # {} => \E a \in DOMAIN blocks : blocks[a].next = 0

\* heap_start is the first block of the list.
StartOK ==
  /\ heap_start = 0 => DOMAIN blocks = {}
  /\ heap_start # 0 => /\ heap_start \in DOMAIN blocks
                       /\ \A a \in DOMAIN blocks : heap_start <= a

\* No block begins before the heap's first frame or ends behind its last.
SpanOK ==
  \A a \in DOMAIN blocks :
    /\ \E q \in held : q * PAGE_SIZE <= a
    /\ \E q \in held : q < MAPPED /\ EndOf(a) <= (q + 1) * PAGE_SIZE

\* Clients hold the blocks in use.
LiveOK ==
  /\ live \in [DOMAIN live -> Nat \ {0}]
  /\ DOMAIN live \subseteq Nat
  /\ \A ptr \in DOMAIN live : ptr - HDR \in DOMAIN blocks /\ ~blocks[ptr - HDR].free
  /\ \A a \in DOMAIN blocks : ~blocks[a].free => a + HDR \in DOMAIN live
  /\ \A ptr \in DOMAIN live :
       Alignable(live[ptr]) => live[ptr] <= blocks[ptr - HDR].size

\* kmalloc's variables.
KmallocOK ==
  /\ hpc \in {"boot", "idle", "search", "expand", "halted", "wild"}
  /\ hpc = "boot" => blocks = << >> /\ held = {} /\ heap_start = 0
  /\ hpc \in {"boot", "idle"} => current = 0
  /\ current \in DOMAIN blocks \cup {0}
  /\ asked \in Nat /\ want \in Nat /\ left \in Nat /\ used \in Nat
  /\ hpc \in {"search", "expand"} =>
       /\ asked > 0
       /\ want < WORD /\ want % ALIGN = 0
       /\ Alignable(asked) => asked <= want
  /\ hpc = "expand" => heap_start # 0

\* The search has passed no block that suits.
SearchOK ==
  hpc = "search" =>
    \A a \in DOMAIN blocks : current = 0 \/ a < current => ~Suits(blocks[a])

\* The expansion adds one page for a size that fits in one, and no page it
\* adds for a larger size suits.
ExpandOK ==
  hpc = "expand" =>
    /\ want <= PAGE_SIZE - HDR => left \in {0, 1}
    /\ want <= PAGE_SIZE - HDR /\ left = 0 =>
         \E a \in DOMAIN blocks : Suits(blocks[a])
    /\ want > PAGE_SIZE - HDR \/ left > 0 =>
         \A a \in DOMAIN blocks : ~Suits(blocks[a])

IInv == /\ PoolOK /\ ListOK /\ StartOK /\ SpanOK /\ LiveOK /\ KmallocOK
        /\ SearchOK /\ ExpandOK

-----------------------------------------------------------------------------
(***************************************************************************)
(* Arithmetic.                                                             *)
(***************************************************************************)

LEMMA QuotientBounds ==
  ASSUME NEW x \in Nat, NEW d \in Nat \ {0}, NEW k \in Nat,
         NEW r \in 0 .. (d - 1), x = d * k + r
  PROVE  d * k \in Nat /\ d * k <= x /\ x < d * k + d
<1>1. d * k \in Nat
  OBVIOUS
<1> QED
  BY <1>1

LEMMA Quotient ==
  ASSUME NEW x \in Nat, NEW d \in Nat \ {0}
  PROVE  /\ x \div d \in Nat /\ x % d \in 0 .. (d - 1)
         /\ d * (x \div d) \in Nat
         /\ d * (x \div d) <= x /\ x < d * (x \div d) + d
         /\ x = d * (x \div d) + (x % d)
<1>1. /\ x \div d \in Nat
      /\ x % d \in 0 .. (d - 1)
      /\ x = d * (x \div d) + (x % d)
  OBVIOUS
<1>2. /\ d * (x \div d) \in Nat
      /\ d * (x \div d) <= x /\ x < d * (x \div d) + d
  BY <1>1, QuotientBounds
<1> QED
  BY <1>1, <1>2

LEMMA Products ==
  ASSUME NEW x \in Nat, NEW y \in Nat, NEW d \in Nat \ {0}
  PROVE  /\ d * x \in Nat /\ d * y \in Nat /\ d * x = x * d
         /\ x < y => d * x + d <= d * y
         /\ x <= y => d * x <= d * y
<1>0. d * x \in Nat /\ d * y \in Nat /\ d * x = x * d
  OBVIOUS
<1>1. ASSUME x < y PROVE d * x + d <= d * y
  <2>1. PICK e \in Nat : y = x + 1 + e
    <3>1. y - x - 1 \in Nat /\ y = x + 1 + (y - x - 1)
      BY <1>1
    <3> QED
      BY <3>1
  <2>2. d * y = d * x + d + d * e
    BY <2>1
  <2>3. d * e \in Nat
    OBVIOUS
  <2> QED
    BY <1>0, <2>2, <2>3
<1>2. ASSUME x <= y PROVE d * x <= d * y
  <2>1. CASE x = y
    BY <1>0, <2>1
  <2>2. CASE x < y
    BY <1>0, <1>1, <2>2
  <2> QED
    BY <1>2, <2>1, <2>2
<1> QED
  BY <1>0, <1>1, <1>2

\* Two multiples of d that differ do so by d at least.
LEMMA Multiples ==
  ASSUME NEW d \in Nat \ {0}, NEW x \in Nat, NEW y \in Nat,
         x % d = 0, y % d = 0, x < y
  PROVE  x + d <= y
<1> DEFINE j == x \div d
           k == y \div d
<1>1. /\ j \in Nat /\ k \in Nat /\ x = d * j /\ y = d * k
      /\ d * j \in Nat /\ d * k \in Nat
  <2>1. /\ j \in Nat /\ k \in Nat /\ d * j \in Nat /\ d * k \in Nat
        /\ x = d * j + (x % d) /\ y = d * k + (y % d)
    BY Quotient
  <2> HIDE DEF j, k
  <2> QED
    BY <2>1
<1> HIDE DEF j, k
<1>2. j < k
  <2> SUFFICES ASSUME k <= j PROVE FALSE
    BY <1>1
  <2>1. d * k <= d * j
    BY <1>1, Products
  <2> QED
    BY <1>1, <2>1
<1>3. d * j + d <= d * k
  BY <1>1, <1>2, Products
<1> QED
  BY <1>1, <1>3

LEMMA ProductRemainder ==
  ASSUME NEW d \in Nat \ {0}, NEW k \in Nat, NEW j \in Nat, NEW r \in 0 .. (d - 1),
         d * k = d * j + r
  PROVE  r = 0
<1>1. d * k \in Nat /\ d * j \in Nat
  OBVIOUS
<1>2. ~(k < j)
  <2> SUFFICES ASSUME k < j PROVE FALSE
    OBVIOUS
  <2>1. d * k + d <= d * j
    BY Products
  <2> QED
    BY <1>1, <2>1
<1>3. ~(j < k)
  <2> SUFFICES ASSUME j < k PROVE FALSE
    OBVIOUS
  <2>1. d * j + d <= d * k
    BY Products
  <2> QED
    BY <1>1, <2>1
<1>4. j = k
  BY <1>2, <1>3
<1> QED
  BY <1>1, <1>4

\* Rounding up.
LEMMA AlignFacts ==
  ASSUME NEW n \in Nat
  PROVE  /\ align_size(n) \in Nat /\ align_size(n) < WORD
         /\ align_size(n) % ALIGN = 0
         /\ n + ALIGN <= WORD => n <= align_size(n)
<1> DEFINE x == (n + (ALIGN - 1)) % WORD
           k == x \div ALIGN
<1>1. ALIGN \in Nat \ {0} /\ WORD \in Nat \ {0}
  BY HeapAssumption, WordAssumption
<1>2. x \in Nat /\ x < WORD /\ (n + ALIGN <= WORD => x = n + (ALIGN - 1))
  <2>1. n + (ALIGN - 1) \in Nat
    BY <1>1
  <2> DEFINE m == n + (ALIGN - 1)
  <2>2. m % WORD \in 0 .. (WORD - 1) /\ (m < WORD => m % WORD = m)
    <3> HIDE DEF m
    <3> QED
      BY <1>1, <2>1 DEF m
  <2> QED
    BY <1>1, <2>2
<1>3. align_size(n) = k * ALIGN
  BY DEF align_size, Add
<1> HIDE DEF x
<1>4. k \in Nat /\ ALIGN * k \in Nat /\ ALIGN * k <= x /\ x < ALIGN * k + ALIGN
  BY <1>1, <1>2, Quotient
<1> HIDE DEF k
<1>5. align_size(n) = ALIGN * k
  BY <1>1, <1>3, <1>4
<1>6. (ALIGN * k) % ALIGN = 0
  <2>1. /\ (ALIGN * k) \div ALIGN \in Nat
        /\ (ALIGN * k) % ALIGN \in 0 .. (ALIGN - 1)
        /\ ALIGN * k = ALIGN * ((ALIGN * k) \div ALIGN) + ((ALIGN * k) % ALIGN)
    BY <1>1, <1>4, Quotient
  <2> QED
    BY <1>1, <1>4, <2>1, ProductRemainder
<1> QED
  BY <1>1, <1>2, <1>4, <1>5, <1>6

\* A multiple of the alignment can be rounded up again.
LEMMA AlignAgain ==
  ASSUME NEW n \in Nat, n < WORD, n % ALIGN = 0
  PROVE  n <= align_size(n)
<1>1. n + ALIGN <= WORD
  BY Multiples, HeapAssumption, WordAssumption
<1> QED
  BY <1>1, AlignFacts

\* A size that fits in a page block needs one page.
LEMMA OnePage ==
  ASSUME NEW n \in Nat, n < WORD
  PROVE  /\ pages_needed(Add(n, HDR)) \in Nat
         /\ n <= PAGE_SIZE - HDR => pages_needed(Add(n, HDR)) = 1
<1> DEFINE y == (n + HDR) % WORD
           z == (y + (PAGE_SIZE - 1)) % WORD
           k == z \div PAGE_SIZE
<1>1. /\ PAGE_SIZE \in Nat \ {0} /\ WORD \in Nat \ {0} /\ HDR \in Nat \ {0}
      /\ HDR < PAGE_SIZE /\ 2 * PAGE_SIZE < WORD
  BY HeapAssumption, WordAssumption
<1>2. y \in 0 .. (WORD - 1) /\ (n <= PAGE_SIZE - HDR => y = n + HDR)
  BY <1>1
<1> HIDE DEF y
<1>3. z \in 0 .. (WORD - 1)
      /\ (n <= PAGE_SIZE - HDR => z = n + HDR + (PAGE_SIZE - 1))
  BY <1>1, <1>2
<1> HIDE DEF z
<1>4. /\ k \in Nat /\ PAGE_SIZE * k \in Nat /\ PAGE_SIZE * k <= z
      /\ z < PAGE_SIZE * k + PAGE_SIZE
  BY <1>1, <1>3, Quotient
<1>5. pages_needed(Add(n, HDR)) = k
  BY DEF pages_needed, Add, k, y, z
<1> HIDE DEF k
<1>6. ASSUME n <= PAGE_SIZE - HDR PROVE k = 1
  <2>1. PAGE_SIZE <= z /\ z < 2 * PAGE_SIZE
    BY <1>1, <1>3, <1>6
  <2>2. k # 0
    <3> SUFFICES ASSUME k = 0 PROVE FALSE
      OBVIOUS
    <3>1. PAGE_SIZE * k = 0
      BY <1>1
    <3> QED
      BY <1>1, <1>3, <1>4, <2>1, <3>1
  <2>3. ~(1 < k)
    <3> SUFFICES ASSUME 1 < k PROVE FALSE
      OBVIOUS
    <3>1. PAGE_SIZE * 1 + PAGE_SIZE <= PAGE_SIZE * k
      BY <1>1, <1>4, Products
    <3>2. PAGE_SIZE * 1 = PAGE_SIZE
      BY <1>1
    <3> QED
      BY <1>1, <1>3, <1>4, <2>1, <3>1, <3>2
  <2> QED
    BY <1>4, <2>2, <2>3
<1> QED
  BY <1>4, <1>5, <1>6

\* Frames do not overlap.
LEMMA FrameOrder ==
  ASSUME NEW q \in Nat, NEW r \in Nat, q < r
  PROVE  /\ q * PAGE_SIZE \in Nat /\ r * PAGE_SIZE \in Nat
         /\ (q + 1) * PAGE_SIZE = q * PAGE_SIZE + PAGE_SIZE
         /\ (q + 1) * PAGE_SIZE <= r * PAGE_SIZE
<1>1. PAGE_SIZE \in Nat \ {0}
  BY HeapAssumption
<1>2. /\ PAGE_SIZE * q + PAGE_SIZE <= PAGE_SIZE * r
      /\ PAGE_SIZE * q = q * PAGE_SIZE /\ PAGE_SIZE * r = r * PAGE_SIZE
      /\ PAGE_SIZE * q \in Nat /\ PAGE_SIZE * r \in Nat
  BY <1>1, Products
<1>3. (q + 1) * PAGE_SIZE = q * PAGE_SIZE + PAGE_SIZE
  BY <1>1
<1> QED
  BY <1>2, <1>3

-----------------------------------------------------------------------------
(***************************************************************************)
(* The steps of the pool and of the list.                                  *)
(***************************************************************************)

LEMMA HeaderFields ==
  ASSUME ListOK, NEW a \in DOMAIN blocks
  PROVE  /\ a \in Nat \ {0}
         /\ blocks[a] \in Header
         /\ blocks[a].size \in Nat /\ blocks[a].next \in Nat
         /\ blocks[a].free \in BOOLEAN /\ blocks[a].magic = TRUE
         /\ EndOf(a) \in Nat /\ a + HDR <= EndOf(a) /\ HDR \in Nat \ {0}
<1>1. a \in Nat \ {0} /\ blocks[a] \in Header
  BY DEF ListOK
<1>2. /\ blocks[a].size \in Nat /\ blocks[a].next \in Nat
      /\ blocks[a].free \in BOOLEAN /\ blocks[a].magic = TRUE
  BY <1>1 DEF Header
<1> QED
  BY <1>1, <1>2, HeapAssumption DEF EndOf

\* The headers the code writes: whole, or some of their fields.
IsNewHeader(h, size, next) == h = [size |-> size, free |-> TRUE, next |-> next, magic |-> TRUE]
IsSplitHeader(h, b, size, next) == h = [b EXCEPT !.size = size, !.free = FALSE, !.next = next]
IsJoinHeader(h, b, size, next) == h = [b EXCEPT !.size = size, !.free = TRUE, !.next = next]
IsUseHeader(h, b) == h = [b EXCEPT !.free = FALSE]
IsFreeHeader(h, b) == h = [b EXCEPT !.free = TRUE]
IsLinkHeader(h, b, next) == h = [b EXCEPT !.next = next]

LEMMA NewHeader ==
  ASSUME NEW h, NEW size \in Nat, NEW next \in Nat, IsNewHeader(h, size, next)
  PROVE  /\ h \in Header /\ h.size = size /\ h.next = next /\ h.free = TRUE
         /\ h.free
<1> USE DEF Header, IsNewHeader
<1>1. h \in Header
  OBVIOUS
<1>2. h.size = size /\ h.next = next
  OBVIOUS
<1>3. h.free = TRUE
  OBVIOUS
<1> QED
  BY ONLY <1>1, <1>2, <1>3

LEMMA SplitHeader ==
  ASSUME NEW h, NEW b \in Header, NEW size \in Nat, NEW next \in Nat, IsSplitHeader(h, b, size, next)
  PROVE  /\ h \in Header /\ h.size = size /\ h.next = next /\ h.free = FALSE
         /\ ~h.free
<1> USE DEF Header, IsSplitHeader
<1>1. h \in Header
  OBVIOUS
<1>2. h.size = size /\ h.next = next
  OBVIOUS
<1>3. h.free = FALSE
  OBVIOUS
<1> QED
  BY ONLY <1>1, <1>2, <1>3

LEMMA JoinHeader ==
  ASSUME NEW h, NEW b \in Header, NEW size \in Nat, NEW next \in Nat, IsJoinHeader(h, b, size, next)
  PROVE  /\ h \in Header /\ h.size = size /\ h.next = next /\ h.free = TRUE
         /\ h.free
<1> USE DEF Header, IsJoinHeader
<1>1. h \in Header
  OBVIOUS
<1>2. h.size = size /\ h.next = next
  OBVIOUS
<1>3. h.free = TRUE
  OBVIOUS
<1> QED
  BY ONLY <1>1, <1>2, <1>3

LEMMA UseHeader ==
  ASSUME NEW h, NEW b \in Header, IsUseHeader(h, b)
  PROVE  /\ h \in Header /\ h.size = b.size /\ h.next = b.next /\ h.free = FALSE
         /\ ~h.free
<1> USE DEF Header, IsUseHeader
<1>1. h \in Header
  OBVIOUS
<1>2. h.size = b.size /\ h.next = b.next
  OBVIOUS
<1>3. h.free = FALSE
  OBVIOUS
<1> QED
  BY ONLY <1>1, <1>2, <1>3

LEMMA FreeHeader ==
  ASSUME NEW h, NEW b \in Header, IsFreeHeader(h, b)
  PROVE  /\ h \in Header /\ h.size = b.size /\ h.next = b.next /\ h.free = TRUE
         /\ h.free
<1> USE DEF Header, IsFreeHeader
<1>1. h \in Header
  OBVIOUS
<1>2. h.size = b.size /\ h.next = b.next
  OBVIOUS
<1>3. h.free = TRUE
  OBVIOUS
<1> QED
  BY ONLY <1>1, <1>2, <1>3

LEMMA LinkHeader ==
  ASSUME NEW h, NEW b \in Header, NEW next \in Nat, IsLinkHeader(h, b, next)
  PROVE  /\ h \in Header /\ h.size = b.size /\ h.next = next /\ h.free = b.free
<1> USE DEF Header, IsLinkHeader
<1>1. h \in Header
  OBVIOUS
<1>2. h.size = b.size /\ h.next = next
  OBVIOUS
<1>3. h.free = b.free
  OBVIOUS
<1> QED
  BY ONLY <1>1, <1>2, <1>3

LEMMA InitInv == Init => IInv
<1> SUFFICES ASSUME Init PROVE IInv
  OBVIOUS
<1>1. DOMAIN blocks = {} /\ DOMAIN live = {}
  BY DEF Init
<1>2. PoolOK
  <2>1. free \in Pools /\ held = {} /\ up = TRUE
    BY DEF Init
  <2>2. free \subseteq Nat \ {0} /\ held \cup free = free
    BY <2>1, PoolsAssumption
  <2> QED
    BY <2>1, <2>2 DEF PoolOK
<1>3. ListOK
  <2>1. blocks \in [{} -> Header]
    BY DEF Init
  <2> QED
    BY <1>1, <2>1 DEF ListOK
<1>4. StartOK /\ SpanOK
  BY <1>1 DEF Init, StartOK, SpanOK
<1>5. LiveOK
  <2>1. live \in [{} -> Nat \ {0}]
    BY DEF Init
  <2> QED
    BY <1>1, <2>1 DEF LiveOK
<1>6. KmallocOK /\ SearchOK /\ ExpandOK
  BY <1>1 DEF Init, KmallocOK, SearchOK, ExpandOK
<1> QED
  BY <1>2, <1>3, <1>4, <1>5, <1>6 DEF IInv

\* The lowest free frame is above all that the heap has.
LEMMA TakeStep ==
  ASSUME PoolOK, NEW q \in free, Take(q)
  PROVE  /\ PoolOK' /\ PoolOK
         /\ q \in Nat \ {0} /\ q \in held' /\ held \subseteq held'
         /\ \A r \in held : r \in Nat /\ r < q
<1>1. q \in Nat \ {0} /\ free' = free \ {q} /\ held' = held \cup {q} /\ up' = up
  BY DEF PoolOK, Take
<1>2. held' \cup free' = held \cup free
  BY <1>1
<1>3. \A h \in held', r \in free' : h < r
  <2>1. \A r \in free' : r \in Nat /\ q <= r /\ r # q
    BY <1>1 DEF PoolOK, Take
  <2> QED
    BY <1>1, <2>1 DEF PoolOK
<1>4. PoolOK'
  BY <1>1, <1>2, <1>3 DEF PoolOK
<1> QED
  BY <1>1, <1>4 DEF PoolOK

\* The list, when only the heap's memory changes.
LEMMA SameList ==
  ASSUME ListOK, StartOK, SpanOK, LiveOK, held \subseteq held',
         UNCHANGED <<blocks, heap_start, live>>
  PROVE  ListOK' /\ StartOK' /\ SpanOK' /\ LiveOK'
<1>1. ListOK' /\ StartOK' /\ LiveOK'
  BY DEF ListOK, StartOK, LiveOK, EndOf
<1>2. SpanOK'
  BY DEF SpanOK, EndOf
<1> QED
  BY <1>1, <1>2

\* The first frame becomes the first block.
LEMMA HeapInitStep ==
  ASSUME IInv, heap_init
  PROVE  IInv'
<1>0. hpc = "boot" /\ DOMAIN blocks = {} /\ held = {} /\ heap_start = 0
  <2>1. hpc = "boot" /\ blocks = << >> /\ held = {} /\ heap_start = 0
    BY DEF heap_init, IInv, KmallocOK
  <2> QED
    BY <2>1
<1>1. CASE free = {} /\ hpc' = "idle"
           /\ UNCHANGED <<poolVars, heap_start, blocks, current, asked, want, left,
                          used, live>>
  <2>1. PoolOK' /\ ListOK' /\ StartOK' /\ SpanOK' /\ LiveOK'
    BY <1>1, SameList DEF IInv, PoolOK, poolVars
  <2>2. KmallocOK' /\ SearchOK' /\ ExpandOK'
    BY <1>0, <1>1 DEF IInv, KmallocOK, SearchOK, ExpandOK
  <2> QED
    BY <2>1, <2>2 DEF IInv
<1>2. ASSUME NEW q \in free, Take(q), PageFault(q) PROVE IInv'
  <2>1. PoolOK' /\ held \subseteq held'
    BY <1>2, TakeStep DEF IInv
  <2>2. ListOK' /\ StartOK' /\ SpanOK' /\ LiveOK'
    BY <1>2, <2>1, SameList DEF IInv, PageFault
  <2>3. KmallocOK' /\ SearchOK' /\ ExpandOK'
    BY <1>2 DEF IInv, KmallocOK, SearchOK, ExpandOK, PageFault
  <2> QED
    BY <2>1, <2>2, <2>3 DEF IInv
<1>3. ASSUME NEW q \in free, Take(q), q < MAPPED,
             heap_start' = q * PAGE_SIZE,
             blocks' = [a \in {q * PAGE_SIZE} |-> PageBlock],
             hpc' = "idle", UNCHANGED <<current, asked, want, left, used, live>>
      PROVE  IInv'
  <2>1. PoolOK' /\ q \in held' /\ q \in Nat \ {0}
    BY <1>3, TakeStep DEF IInv
  <2> DEFINE f == q * PAGE_SIZE
  <2>2. /\ f \in Nat \ {0} /\ (q + 1) * PAGE_SIZE = f + PAGE_SIZE
        /\ HDR \in Nat \ {0} /\ PAGE_SIZE \in Nat /\ PAGE_SIZE > HDR
    <3>1. 0 < q /\ 0 \in Nat
      BY <2>1
    <3>2. PAGE_SIZE \in Nat \ {0} /\ HDR \in Nat \ {0} /\ PAGE_SIZE > HDR
      BY HeapAssumption
    <3>3. PAGE_SIZE * 0 + PAGE_SIZE <= PAGE_SIZE * q /\ PAGE_SIZE * q = f /\ f \in Nat
      BY <2>1, <3>1, <3>2, Products
    <3>4. q < q + 1 /\ q + 1 \in Nat
      BY <2>1
    <3>5. (q + 1) * PAGE_SIZE = f + PAGE_SIZE
      BY <2>1, <3>4, FrameOrder
    <3> QED
      BY <3>2, <3>3, <3>5
  <2> HIDE DEF f
  <2>3. /\ DOMAIN blocks' = {f} /\ blocks'[f] = PageBlock
        /\ blocks' = [a \in {f} |-> PageBlock] /\ heap_start' = f
    BY <1>3 DEF f
  <2>4. PageBlock \in Header /\ PageBlock.next = 0 /\ PageBlock.free = TRUE
        /\ PageBlock.size = PAGE_SIZE - HDR
    BY <2>2 DEF PageBlock, Header
  <2>5. ListOK'
    BY <2>2, <2>3, <2>4 DEF ListOK
  <2>6. StartOK'
    BY <2>2, <2>3 DEF StartOK
  <2>7. SpanOK'
    <3>1. q * PAGE_SIZE <= f
      BY <2>2 DEF f
    <3>2. EndOf(f)' <= (q + 1) * PAGE_SIZE
      BY <2>2, <2>3, <2>4 DEF EndOf
    <3> QED
      BY <1>3, <2>1, <2>3, <3>1, <3>2 DEF SpanOK
  <2>8. LiveOK'
    <3>1. DOMAIN live = {} /\ live' = live
      BY <1>0, <1>3 DEF IInv, LiveOK
    <3> QED
      BY <2>3, <2>4, <3>1 DEF IInv, LiveOK
  <2>9. KmallocOK' /\ SearchOK' /\ ExpandOK'
    BY <1>0, <1>3, <2>3 DEF IInv, KmallocOK, SearchOK, ExpandOK
  <2> QED
    BY <2>1, <2>5, <2>6, <2>7, <2>8, <2>9 DEF IInv
<1> QED
  BY <1>1, <1>2, <1>3 DEF heap_init

\* kmalloc starts a search.
LEMMA KmallocStep ==
  ASSUME IInv, NEW n \in Requests, kmalloc(n)
  PROVE  IInv'
<1>1. PoolOK' /\ ListOK' /\ StartOK' /\ SpanOK' /\ LiveOK'
  BY SameList DEF kmalloc, IInv, PoolOK, poolVars
<1>2. n \in Nat
  BY RequestsAssumption
<1>3. heap_start \in DOMAIN blocks \cup {0}
      /\ \A a \in DOMAIN blocks : a \in Nat \ {0} /\ heap_start \in Nat
                                  /\ heap_start # 0 /\ heap_start <= a
  BY DEF IInv, StartOK, ListOK
<1>4. CASE n = 0
  BY <1>1, <1>4 DEF kmalloc, IInv, KmallocOK, SearchOK, ExpandOK, Suits
<1>5. CASE n # 0
  <2>1. /\ hpc = "idle" /\ hpc' = "search" /\ asked' = n /\ want' = align_size(n)
        /\ current' = heap_start /\ UNCHANGED <<heap_start, blocks, left, used>>
    BY <1>5 DEF kmalloc
  <2>2. /\ align_size(n) \in Nat /\ align_size(n) < WORD
        /\ align_size(n) % ALIGN = 0
        /\ Alignable(n) => n <= align_size(n)
    BY <1>2, AlignFacts DEF Alignable
  <2>3. KmallocOK'
    <3>1. n > 0
      BY <1>2, <1>5
    <3> HIDE DEF align_size
    <3> QED
      BY <1>2, <1>3, <2>1, <2>2, <3>1 DEF IInv, KmallocOK
  <2>4. SearchOK'
    BY <1>3, <2>1 DEF SearchOK
  <2>5. ExpandOK'
    BY <2>1 DEF ExpandOK
  <2> QED
    BY <1>1, <2>3, <2>4, <2>5 DEF IInv
<1> QED
  BY <1>4, <1>5

\* The block at a is long enough that no arithmetic on want wraps.
LEMMA SuitsNoWrap ==
  ASSUME IInv, NEW a \in DOMAIN blocks, want <= blocks[a].size
  PROVE  Add(Add(want, HDR), MIN_BLOCK_SIZE) = want + HDR + MIN_BLOCK_SIZE
<1>1. PICK q \in held : q < MAPPED /\ EndOf(a) <= (q + 1) * PAGE_SIZE
  BY DEF IInv, SpanOK
<1>2. q \in Nat /\ MAPPED \in Nat
  BY HeapAssumption DEF IInv, PoolOK
<1>3. (q + 1) * PAGE_SIZE <= MAPPED * PAGE_SIZE
      /\ (q + 1) * PAGE_SIZE \in Nat /\ MAPPED * PAGE_SIZE \in Nat
  <2>1. (q + 1) * PAGE_SIZE <= MAPPED * PAGE_SIZE /\ MAPPED * PAGE_SIZE \in Nat
    BY <1>1, <1>2, FrameOrder
  <2>2. (q + 1) * PAGE_SIZE \in Nat
    BY <1>2, HeapAssumption
  <2> QED
    BY <2>1, <2>2
<1> DEFINE top == (q + 1) * PAGE_SIZE
           end == MAPPED * PAGE_SIZE
<1>4. /\ top \in Nat /\ end \in Nat /\ top <= end
      /\ end + HDR + MIN_BLOCK_SIZE < WORD
      /\ a + HDR + blocks[a].size <= top
      /\ HDR \in Nat \ {0} /\ MIN_BLOCK_SIZE \in Nat /\ WORD \in Nat
  BY <1>1, <1>3, HeapAssumption, WordAssumption DEF EndOf
<1> HIDE DEF top, end
<1>5. a \in Nat /\ blocks[a].size \in Nat /\ want \in Nat
  BY HeaderFields DEF IInv, KmallocOK
<1>6. want + HDR + MIN_BLOCK_SIZE < WORD
  BY <1>4, <1>5
<1>7. (want + HDR) % WORD = want + HDR
  BY <1>4, <1>5, <1>6
<1>8. (want + HDR + MIN_BLOCK_SIZE) % WORD = want + HDR + MIN_BLOCK_SIZE
  BY <1>4, <1>5, <1>6
<1> QED
  BY <1>7, <1>8 DEF Add

\* What taking the block at a leaves.
Taken(a) ==
  /\ ListOK' /\ StartOK' /\ SpanOK'
  /\ a \in DOMAIN blocks' /\ DOMAIN blocks \subseteq DOMAIN blocks'
  /\ ~blocks'[a].free /\ want <= blocks'[a].size
  /\ \A x \in DOMAIN blocks \ {a} : blocks'[x] = blocks[x]
  /\ \A x \in DOMAIN blocks' \ DOMAIN blocks : blocks'[x].free

\* The rest of a block that is split is a block between it and the next one.
LEMMA SplitStep ==
  ASSUME IInv, NEW a \in DOMAIN blocks, Suits(blocks[a]), CanSplit(blocks[a]),
         blocks' = Split(a, blocks[a].size - want - HDR),
         UNCHANGED <<held, heap_start>>
  PROVE  Taken(a)
<1>0. PICK new, rest : new = a + HDR + want /\ rest = blocks[a].size - want - HDR
  OBVIOUS
<1>1. /\ a \in Nat \ {0} /\ blocks[a] \in Header
      /\ blocks[a].size \in Nat /\ blocks[a].next \in Nat /\ blocks[a].magic = TRUE
      /\ HDR \in Nat \ {0} /\ want \in Nat /\ MIN_BLOCK_SIZE \in Nat
  BY HeaderFields, HeapAssumption DEF IInv, KmallocOK
<1>2. blocks[a].size >= want + HDR
  <2>1. want <= blocks[a].size
    BY <1>1 DEF Suits
  <2>2. blocks[a].size >= want + HDR + MIN_BLOCK_SIZE
    BY <2>1, SuitsNoWrap DEF CanSplit
  <2> QED
    BY <1>1, <2>2
<1>3. /\ rest \in Nat /\ new \in Nat \ {0} /\ a < new /\ new + HDR + rest = EndOf(a)
      /\ new < EndOf(a)
  BY <1>0, <1>1, <1>2 DEF EndOf
<1>4. /\ DOMAIN blocks' = DOMAIN blocks \cup {new}
      /\ blocks'[new] = [size |-> rest, free |-> TRUE, next |-> blocks[a].next,
                         magic |-> TRUE]
      /\ blocks'[a] = [blocks[a] EXCEPT !.size = want, !.free = FALSE, !.next = new]
      /\ \A x \in DOMAIN blocks \ {a, new} : blocks'[x] = blocks[x]
      /\ blocks' = [x \in DOMAIN blocks' |-> blocks'[x]]
  <2>1. a # new
    BY <1>1, <1>3
  <2>2. blocks' = [x \in DOMAIN blocks \cup {new} |->
         IF x = new
         THEN [size |-> rest, free |-> TRUE, next |-> blocks[a].next,
               magic |-> TRUE]
         ELSE IF x = a
         THEN [blocks[a] EXCEPT !.size = want, !.free = FALSE, !.next = new]
         ELSE blocks[x]]
    BY <1>0 DEF Split
  <2> QED
    BY <2>1, <2>2
<1>5. new \notin DOMAIN blocks
  <2> SUFFICES ASSUME new \in DOMAIN blocks PROVE FALSE
    OBVIOUS
  <2>1. blocks[a].next # 0 /\ blocks[a].next <= new /\ EndOf(a) <= blocks[a].next
    BY <1>3 DEF IInv, ListOK
  <2>2. EndOf(a) \in Nat
    BY HeaderFields DEF IInv
  <2> QED
    BY <1>1, <1>3, <2>1, <2>2
<1>6. /\ blocks'[new].size = rest /\ blocks'[new].free = TRUE
      /\ blocks'[new].next = blocks[a].next /\ blocks'[new] \in Header
  <2>1. IsNewHeader(blocks'[new], rest, blocks[a].next)
    BY <1>4 DEF IsNewHeader
  <2>2. rest \in Nat /\ blocks[a].next \in Nat
    BY <1>1, <1>3
  <2> QED
    BY ONLY <2>1, <2>2, NewHeader
<1>7. /\ blocks'[a].size = want /\ blocks'[a].free = FALSE
      /\ blocks'[a].next = new /\ blocks'[a] \in Header
  <2>1. IsSplitHeader(blocks'[a], blocks[a], want, new)
    BY <1>4 DEF IsSplitHeader
  <2>2. blocks[a] \in Header /\ want \in Nat /\ new \in Nat
    BY <1>1, <1>3
  <2> QED
    BY ONLY <2>1, <2>2, SplitHeader
<1>8. \A x \in DOMAIN blocks \ {a} : blocks'[x] = blocks[x]
  BY <1>4, <1>5
<1>9. /\ EndOf(new)' = EndOf(a) /\ EndOf(a)' = new
      /\ \A x \in DOMAIN blocks \ {a} : EndOf(x)' = EndOf(x)
  BY <1>0, <1>3, <1>6, <1>7, <1>8 DEF EndOf
<1>10. ListOK'
  <2>1. DOMAIN blocks' \subseteq Nat \ {0}
    BY <1>3, <1>4 DEF IInv, ListOK
  <2>2. blocks' \in [DOMAIN blocks' -> Header]
    <3>1. \A x \in DOMAIN blocks' : blocks'[x] \in Header
      BY <1>4, <1>6, <1>7, <1>8 DEF IInv, ListOK
    <3> QED
      BY <1>4, <3>1
  <2>3. \A x \in DOMAIN blocks' :
          blocks'[x].next # 0 => /\ blocks'[x].next \in DOMAIN blocks'
                                 /\ EndOf(x)' <= blocks'[x].next
    <3> TAKE x \in DOMAIN blocks'
    <3>1. CASE x = new
      <4>1. EndOf(x)' = EndOf(a)
        BY <1>9, <3>1
      <4>2. blocks[a].next # 0 => /\ blocks[a].next \in DOMAIN blocks
                                  /\ EndOf(a) <= blocks[a].next
        BY DEF IInv, ListOK
      <4> QED
        BY <1>4, <1>6, <3>1, <4>1, <4>2
    <3>2. CASE x = a
      BY <1>3, <1>4, <1>7, <1>9, <3>2
    <3>3. CASE x \in DOMAIN blocks \ {a}
      BY <1>4, <1>8, <1>9, <3>3 DEF IInv, ListOK
    <3> QED
      BY <1>4, <3>1, <3>2, <3>3
  <2>4. \A x, y \in DOMAIN blocks' :
          x < y => blocks'[x].next # 0 /\ blocks'[x].next <= y
    <3> SUFFICES ASSUME NEW x \in DOMAIN blocks', NEW y \in DOMAIN blocks', x < y
                 PROVE  blocks'[x].next # 0 /\ blocks'[x].next <= y
      OBVIOUS
    <3>0. /\ \A z \in DOMAIN blocks : z > a => z > new
          /\ \A z \in DOMAIN blocks : z > a => blocks[a].next # 0 /\ blocks[a].next <= z
          /\ \A z \in DOMAIN blocks : z \in Nat /\ blocks[z].next \in Nat
      <4>1. \A z \in DOMAIN blocks : z > a => blocks[a].next # 0 /\ blocks[a].next <= z
        BY <1>1 DEF IInv, ListOK
      <4>2. \A z \in DOMAIN blocks : z \in Nat /\ blocks[z].next \in Nat
        BY HeaderFields DEF IInv
      <4>3. blocks[a].next # 0 => EndOf(a) <= blocks[a].next
        BY DEF IInv, ListOK
      <4>4. EndOf(a) \in Nat
        BY HeaderFields DEF IInv
      <4> QED
        BY <1>1, <1>3, <4>1, <4>2, <4>3, <4>4
    <3>1. CASE x = new
      BY <1>1, <1>3, <1>4, <1>6, <3>0, <3>1
    <3>2. CASE x = a
      BY <1>1, <1>3, <1>4, <1>7, <3>0, <3>2
    <3>3. CASE x \in DOMAIN blocks \ {a}
      <4>1. CASE y = new
        <5>1. x < a
          BY <1>1, <1>3, <3>0, <3>3, <4>1
        <5>2. blocks[x].next # 0 /\ blocks[x].next <= a
          BY <3>3, <5>1 DEF IInv, ListOK
        <5> QED
          BY <1>1, <1>3, <1>8, <3>0, <3>3, <4>1, <5>2
      <4>2. CASE y \in DOMAIN blocks
        BY <1>8, <3>3, <4>2 DEF IInv, ListOK
      <4> QED
        BY <1>4, <4>1, <4>2
    <3> QED
      BY <1>4, <3>1, <3>2, <3>3
  <2>5. \E x \in DOMAIN blocks' : blocks'[x].next = 0
    <3>1. PICK x \in DOMAIN blocks : blocks[x].next = 0
      BY DEF IInv, ListOK
    <3>2. CASE x = a
      BY <1>4, <1>6, <3>1, <3>2
    <3>3. CASE x # a
      BY <1>4, <1>8, <3>1, <3>3
    <3> QED
      BY <3>2, <3>3
  <2> QED
    BY <2>1, <2>2, <2>3, <2>4, <2>5 DEF ListOK
<1>11. StartOK'
  <2>1. /\ heap_start \in DOMAIN blocks /\ heap_start # 0 /\ heap_start <= a
        /\ \A x \in DOMAIN blocks : heap_start <= x
    BY DEF IInv, StartOK
  <2>2. heap_start \in Nat
    BY <2>1, HeaderFields DEF IInv
  <2> QED
    BY <1>1, <1>3, <1>4, <2>1, <2>2 DEF StartOK
<1>12. SpanOK'
  <2>1. \A x \in DOMAIN blocks :
          /\ \E q \in held : q * PAGE_SIZE <= x
          /\ \E q \in held : q < MAPPED /\ EndOf(x) <= (q + 1) * PAGE_SIZE
    BY DEF IInv, SpanOK
  <2>2. \E q \in held : q * PAGE_SIZE <= new
    <3>1. PICK q \in held : q * PAGE_SIZE <= a
      BY <2>1
    <3>2. q * PAGE_SIZE \in Nat
      BY HeapAssumption DEF IInv, PoolOK
    <3> QED
      BY <1>1, <1>3, <3>1, <3>2
  <2>3. \E q \in held : q < MAPPED /\ new <= (q + 1) * PAGE_SIZE
    <3>1. PICK q \in held : q < MAPPED /\ EndOf(a) <= (q + 1) * PAGE_SIZE
      BY <2>1
    <3>2. (q + 1) * PAGE_SIZE \in Nat
      BY HeapAssumption DEF IInv, PoolOK
    <3>3. EndOf(a) \in Nat
      BY HeaderFields DEF IInv
    <3> QED
      BY <1>3, <3>1, <3>2, <3>3
  <2>4. /\ EndOf(a)' = new /\ EndOf(new)' = EndOf(a)
        /\ \A x \in DOMAIN blocks \ {a} : EndOf(x)' = EndOf(x)
    BY <1>9
  <2>5. \A x \in DOMAIN blocks' :
          /\ \E q \in held : q * PAGE_SIZE <= x
          /\ \E q \in held : q < MAPPED /\ EndOf(x)' <= (q + 1) * PAGE_SIZE
    <3> TAKE x \in DOMAIN blocks'
    <3>1. x = new \/ x = a \/ x \in DOMAIN blocks \ {a}
      BY <1>4
    <3>2. \E q \in held : q * PAGE_SIZE <= x
      BY <2>1, <2>2, <3>1
    <3>3. EndOf(x)' = new \/ \E z \in DOMAIN blocks : EndOf(x)' = EndOf(z)
      BY <2>4, <3>1
    <3>4. \E q \in held : q < MAPPED /\ EndOf(x)' <= (q + 1) * PAGE_SIZE
      BY <2>1, <2>3, <3>3
    <3> QED
      BY <3>2, <3>4
  <2> QED
    BY <2>5 DEF SpanOK
<1> QED
  BY <1>1, <1>4, <1>6, <1>7, <1>8, <1>10, <1>11, <1>12 DEF Taken

\* A block that changes only its free flag keeps the list as it is.
LEMMA SameShape ==
  ASSUME ListOK, StartOK, SpanOK,
         DOMAIN blocks' = DOMAIN blocks, blocks' \in [DOMAIN blocks -> Header],
         \A x \in DOMAIN blocks : /\ blocks'[x].size = blocks[x].size
                                  /\ blocks'[x].next = blocks[x].next,
         UNCHANGED <<held, heap_start>>
  PROVE  ListOK' /\ StartOK' /\ SpanOK'
<1>1. \A x \in DOMAIN blocks : EndOf(x)' = EndOf(x)
  BY DEF EndOf
<1>2. ListOK'
  BY <1>1 DEF ListOK
<1>3. StartOK'
  BY DEF StartOK
<1>4. SpanOK'
  BY <1>1 DEF SpanOK
<1> QED
  BY <1>2, <1>3, <1>4

LEMMA UseStep ==
  ASSUME IInv, NEW a \in DOMAIN blocks, Suits(blocks[a]),
         blocks' = [blocks EXCEPT ![a].free = FALSE],
         UNCHANGED <<held, heap_start>>
  PROVE  Taken(a)
<1>1. blocks \in [DOMAIN blocks -> Header] /\ want \in Nat
  BY DEF IInv, ListOK, KmallocOK
<1>2. /\ DOMAIN blocks' = DOMAIN blocks
      /\ \A x \in DOMAIN blocks \ {a} : blocks'[x] = blocks[x]
      /\ IsUseHeader(blocks'[a], blocks[a])
      /\ blocks' = [x \in DOMAIN blocks |-> blocks'[x]]
  BY <1>1 DEF IsUseHeader
<1>3. blocks[a] \in Header
  BY <1>1
<1>4. /\ blocks'[a] \in Header /\ blocks'[a].size = blocks[a].size
      /\ blocks'[a].next = blocks[a].next /\ ~blocks'[a].free
  BY ONLY <1>2, <1>3, UseHeader
<1>5. blocks' \in [DOMAIN blocks -> Header]
  <2>1. \A x \in DOMAIN blocks : blocks'[x] \in Header
    BY <1>1, <1>2, <1>4
  <2> QED
    BY <1>2, <2>1
<1>6. ListOK' /\ StartOK' /\ SpanOK'
  BY <1>2, <1>4, <1>5, SameShape DEF IInv
<1>7. want <= blocks'[a].size
  BY <1>1, <1>3, <1>4 DEF Suits, Header
<1> QED
  BY <1>2, <1>4, <1>6, <1>7 DEF Taken

\* A block that suits is taken, with or without a rest.
LEMMA TakenBlock ==
  ASSUME IInv, NEW a \in DOMAIN blocks, Suits(blocks[a]), blocks' = TakeBlock(a),
         UNCHANGED <<held, heap_start>>
  PROVE  Taken(a)
<1>1. CASE CanSplit(blocks[a])
  BY <1>1, SplitStep DEF TakeBlock
<1>2. CASE ~CanSplit(blocks[a])
  BY <1>2, UseStep DEF TakeBlock
<1> QED
  BY <1>1, <1>2

\* kmalloc's search: the block it is at is taken, or ruled out.
LEMMA SearchStep ==
  ASSUME IInv, Search
  PROVE  IInv'
<1>1. /\ hpc = "search" /\ current \in DOMAIN blocks /\ current # 0
      /\ UNCHANGED <<poolVars, heap_start>>
  BY DEF Search, IInv, KmallocOK
<1>2. PoolOK' /\ UNCHANGED <<held, heap_start>>
  BY <1>1 DEF IInv, PoolOK, poolVars
<1>3. /\ current \in Nat \ {0} /\ blocks[current].size \in Nat
      /\ blocks[current].next \in Nat /\ blocks[current].magic = TRUE
      /\ HDR \in Nat \ {0}
  BY <1>1, HeaderFields DEF IInv
<1>4. CASE Suits(blocks[current])
  <2> DEFINE ptr == current + HDR
  <2>1. /\ blocks' = TakeBlock(current)
        /\ used' = Add(used, blocks'[current].size)
        /\ live' = [x \in DOMAIN live \cup {ptr} |-> IF x = ptr THEN asked ELSE live[x]]
        /\ hpc' = "idle" /\ current' = 0 /\ asked' = 0 /\ want' = 0 /\ left' = 0
    BY <1>3, <1>4 DEF Search, Return
  <2>2. Taken(current)
    BY <1>1, <1>2, <1>4, <2>1, TakenBlock
  <2>3. ListOK' /\ StartOK' /\ SpanOK'
    BY <2>2 DEF Taken
  <2>4. blocks'[current].size \in Nat
    <3>1. current \in DOMAIN blocks'
      BY <2>2 DEF Taken
    <3>2. blocks'[current] \in Header
      BY <2>3, <3>1 DEF ListOK
    <3> QED
      BY <3>2 DEF Header
  <2>5. used' \in Nat
    <3>1. used + blocks'[current].size \in Nat /\ WORD \in Nat \ {0}
      BY <2>4, HeapAssumption, WordAssumption DEF IInv, KmallocOK
    <3>2. (used + blocks'[current].size) % WORD \in Nat
      BY <3>1
    <3> QED
      BY <2>1, <3>2 DEF Add
  <2>6. KmallocOK'
    BY <1>3, <2>1, <2>5 DEF KmallocOK
  <2>7. SearchOK' /\ ExpandOK'
    BY <2>1 DEF SearchOK, ExpandOK
  <2>8. LiveOK'
    <3>1. /\ asked \in Nat \ {0} /\ want \in Nat /\ (Alignable(asked) => asked <= want)
          /\ live \in [DOMAIN live -> Nat \ {0}]
      BY <1>1 DEF IInv, KmallocOK, LiveOK
    <3>2. /\ DOMAIN live' = DOMAIN live \cup {ptr}
          /\ live'[ptr] = asked
          /\ \A x \in DOMAIN live \ {ptr} : live'[x] = live[x]
          /\ live' \in [DOMAIN live' -> Nat \ {0}]
      BY <2>1, <3>1
    <3>3. /\ current \in DOMAIN blocks' /\ DOMAIN blocks \subseteq DOMAIN blocks'
          /\ ~blocks'[current].free /\ want <= blocks'[current].size
          /\ \A x \in DOMAIN blocks \ {current} : blocks'[x] = blocks[x]
          /\ \A x \in DOMAIN blocks' \ DOMAIN blocks : blocks'[x].free
      BY <2>2 DEF Taken
    <3>4. blocks[current].free
      BY <1>4 DEF Suits
    <3>5. ptr \in Nat /\ ptr - HDR = current
      BY <1>3
    <3> HIDE DEF ptr
    <3>6. \A x \in DOMAIN live : /\ x \in Nat /\ x - HDR \in DOMAIN blocks
                                 /\ ~blocks[x - HDR].free
                                 /\ Alignable(live[x]) => live[x] <= blocks[x - HDR].size
      BY DEF IInv, LiveOK
    <3>7. \A x \in DOMAIN live : x # ptr /\ x - HDR # current
                                 /\ blocks'[x - HDR] = blocks[x - HDR]
      BY <3>3, <3>4, <3>5, <3>6
    <3>8. DOMAIN live' \subseteq Nat
      BY <3>2, <3>5, <3>6
    <3>9. \A x \in DOMAIN live' : x - HDR \in DOMAIN blocks' /\ ~blocks'[x - HDR].free
      BY <3>2, <3>3, <3>5, <3>6, <3>7
    <3>10. \A x \in DOMAIN blocks' : ~blocks'[x].free => x + HDR \in DOMAIN live'
      <4> SUFFICES ASSUME NEW x \in DOMAIN blocks', ~blocks'[x].free
                   PROVE  x + HDR \in DOMAIN live'
        OBVIOUS
      <4>1. CASE x = current
        BY <3>2, <4>1 DEF ptr
      <4>2. CASE x # current
        <5>1. x \in DOMAIN blocks /\ ~blocks[x].free
          BY <3>3, <4>2
        <5> QED
          BY <3>2, <5>1 DEF IInv, LiveOK
      <4> QED
        BY <4>1, <4>2
    <3>11. \A x \in DOMAIN live' : Alignable(live'[x]) => live'[x] <= blocks'[x - HDR].size
      BY <2>4, <3>1, <3>2, <3>3, <3>5, <3>6, <3>7
    <3> QED
      BY <3>2, <3>8, <3>9, <3>10, <3>11 DEF LiveOK
  <2> QED
    BY <1>2, <2>3, <2>6, <2>7, <2>8 DEF IInv
<1>5. CASE ~Suits(blocks[current])
  <2>1. /\ current' = blocks[current].next
        /\ UNCHANGED <<hpc, blocks, asked, want, left, used, live>>
    BY <1>3, <1>5 DEF Search
  <2>2. ListOK' /\ StartOK' /\ SpanOK' /\ LiveOK'
    BY <1>2, <2>1, SameList DEF IInv
  <2>3. KmallocOK'
    BY <1>1, <2>1, <1>2 DEF IInv, KmallocOK, ListOK
  <2>4. SearchOK'
    <3> SUFFICES ASSUME NEW a \in DOMAIN blocks, current' = 0 \/ a < current'
                 PROVE  ~Suits(blocks[a])
      BY <2>1 DEF SearchOK, Suits
    <3>1. a \in Nat
      BY HeaderFields DEF IInv
    <3>2. CASE a < current
      BY <1>1, <3>2 DEF IInv, SearchOK
    <3>3. CASE a = current
      BY <1>5, <3>3
    <3>4. CASE a > current
      <4>1. blocks[current].next # 0 /\ blocks[current].next <= a
        BY <1>1, <3>4 DEF IInv, ListOK
      <4> QED
        BY <1>3, <2>1, <3>1, <4>1
    <3> QED
      BY <1>3, <3>1, <3>2, <3>3, <3>4
  <2>5. ExpandOK'
    BY <1>1, <2>1 DEF ExpandOK
  <2> QED
    BY <1>2, <2>2, <2>3, <2>4, <2>5 DEF IInv
<1> QED
  BY <1>4, <1>5

\* The search has seen every block: none suits.
LEMMA SearchFailedStep ==
  ASSUME IInv, SearchFailed
  PROVE  IInv'
<1>1. /\ hpc = "search" /\ current = 0 /\ left' = pages_needed(Add(want, HDR))
      /\ hpc' = IF heap_start = 0 THEN "wild" ELSE "expand"
      /\ UNCHANGED <<poolVars, heap_start, blocks, current, asked, want, used, live>>
  BY DEF SearchFailed
<1>2. PoolOK' /\ ListOK' /\ StartOK' /\ SpanOK' /\ LiveOK'
  BY <1>1, SameList DEF IInv, PoolOK, poolVars
<1>3. /\ left' \in Nat /\ (want <= PAGE_SIZE - HDR => left' = 1)
  BY <1>1, OnePage DEF IInv, KmallocOK
<1>4. KmallocOK'
  BY <1>1, <1>3 DEF IInv, KmallocOK
<1>5. SearchOK'
  BY <1>1 DEF SearchOK
<1>6. ExpandOK'
  <2>1. \A a \in DOMAIN blocks : ~Suits(blocks[a])
    BY <1>1 DEF IInv, SearchOK
  <2> QED
    BY <1>1, <1>3, <2>1 DEF ExpandOK, Suits
<1> QED
  BY <1>2, <1>4, <1>5, <1>6 DEF IInv

\* The last block of the list is the last one in memory.
LEMMA LastBlock ==
  ASSUME ListOK, DOMAIN blocks # {}
  PROVE  /\ Last \in DOMAIN blocks /\ blocks[Last].next = 0
         /\ \A a \in DOMAIN blocks : a <= Last
<1>1. Last \in DOMAIN blocks /\ blocks[Last].next = 0
  BY DEF ListOK, Last
<1>2. \A a \in DOMAIN blocks : ~(Last < a)
  BY <1>1 DEF ListOK
<1>3. \A a \in DOMAIN blocks : a \in Nat
  BY DEF ListOK
<1> QED
  BY <1>1, <1>2, <1>3

\* expand_heap appends a frame.
LEMMA AppendStep ==
  ASSUME IInv, heap_start # 0, NEW q \in free, Take(q), q < MAPPED,
         blocks' = [x \in DOMAIN blocks \cup {q * PAGE_SIZE} |->
                      IF x = q * PAGE_SIZE THEN PageBlock
                      ELSE IF x = Last THEN [blocks[x] EXCEPT !.next = q * PAGE_SIZE]
                      ELSE blocks[x]],
         UNCHANGED <<heap_start, live>>
  PROVE  /\ PoolOK' /\ ListOK' /\ StartOK' /\ SpanOK' /\ LiveOK'
         /\ DOMAIN blocks \subseteq DOMAIN blocks'
         /\ \A x \in DOMAIN blocks : /\ blocks'[x].size = blocks[x].size
                                     /\ blocks'[x].free = blocks[x].free
         /\ \A x \in DOMAIN blocks' \ DOMAIN blocks :
              blocks'[x].size = PAGE_SIZE - HDR /\ blocks'[x].free
         /\ DOMAIN blocks' \ DOMAIN blocks = {q * PAGE_SIZE}
<1>1. /\ PoolOK' /\ q \in Nat \ {0} /\ q \in held' /\ held \subseteq held'
      /\ \A r \in held : r \in Nat /\ r < q
  BY TakeStep DEF IInv
<1>2. PICK f : f = q * PAGE_SIZE
  OBVIOUS
<1>3. /\ f \in Nat \ {0} /\ (q + 1) * PAGE_SIZE = f + PAGE_SIZE
      /\ \A r \in held : (r + 1) * PAGE_SIZE <= f /\ (r + 1) * PAGE_SIZE \in Nat
      /\ PAGE_SIZE \in Nat \ {0} /\ HDR \in Nat \ {0} /\ PAGE_SIZE > HDR
  <2>1. PAGE_SIZE \in Nat \ {0} /\ HDR \in Nat \ {0} /\ PAGE_SIZE > HDR
    BY HeapAssumption
  <2>2. 0 < q /\ 0 \in Nat /\ q < q + 1 /\ q + 1 \in Nat
    BY <1>1
  <2>3. PAGE_SIZE * 0 + PAGE_SIZE <= PAGE_SIZE * q /\ PAGE_SIZE * q = f /\ f \in Nat
    BY <1>1, <1>2, <2>1, <2>2, Products
  <2>4. (q + 1) * PAGE_SIZE = f + PAGE_SIZE
    BY <1>1, <1>2, <2>2, FrameOrder
  <2>5. \A r \in held : (r + 1) * PAGE_SIZE <= f
    BY <1>1, <1>2, FrameOrder
  <2>6. \A r \in held : (r + 1) * PAGE_SIZE \in Nat
    BY <1>1, <2>1
  <2> QED
    BY <2>1, <2>3, <2>4, <2>5, <2>6
<1>4. \A a \in DOMAIN blocks : a \in Nat \ {0} /\ a < f /\ EndOf(a) <= f /\ EndOf(a) \in Nat
  <2> TAKE a \in DOMAIN blocks
  <2>1. PICK r \in held : EndOf(a) <= (r + 1) * PAGE_SIZE
    BY DEF IInv, SpanOK
  <2>2. a \in Nat \ {0} /\ EndOf(a) \in Nat /\ a + HDR <= EndOf(a)
    BY HeaderFields DEF IInv
  <2>3. (r + 1) * PAGE_SIZE <= f /\ (r + 1) * PAGE_SIZE \in Nat
    BY <1>3
  <2> QED
    BY <1>3, <2>1, <2>2, <2>3
<1>5. PICK last : last = Last
  OBVIOUS
<1>6. /\ last \in DOMAIN blocks /\ blocks[last].next = 0
      /\ \A a \in DOMAIN blocks : a <= last
  BY <1>5, LastBlock DEF IInv, StartOK
<1>7. f \notin DOMAIN blocks /\ last # f
  BY <1>3, <1>4, <1>6
<1>8. /\ DOMAIN blocks' = DOMAIN blocks \cup {f}
      /\ blocks'[f] = PageBlock
      /\ IsLinkHeader(blocks'[last], blocks[last], f)
      /\ \A x \in DOMAIN blocks \ {last} : blocks'[x] = blocks[x]
      /\ blocks' = [x \in DOMAIN blocks' |-> blocks'[x]]
  <2>1. blocks' = [x \in DOMAIN blocks \cup {f} |->
                      IF x = f THEN PageBlock
                      ELSE IF x = last THEN [blocks[x] EXCEPT !.next = f]
                      ELSE blocks[x]]
    BY <1>2, <1>5
  <2> QED
    BY <1>6, <1>7, <2>1 DEF IsLinkHeader
<1>9. /\ blocks'[last] \in Header /\ blocks'[last].size = blocks[last].size
      /\ blocks'[last].next = f /\ blocks'[last].free = blocks[last].free
  <2>1. blocks[last] \in Header
    BY <1>6, HeaderFields DEF IInv
  <2>2. f \in Nat
    BY <1>3
  <2>3. IsLinkHeader(blocks'[last], blocks[last], f)
    BY <1>8
  <2> QED
    BY ONLY <2>1, <2>2, <2>3, LinkHeader
<1>10. /\ blocks'[f] \in Header /\ blocks'[f].size = PAGE_SIZE - HDR
       /\ blocks'[f].next = 0 /\ blocks'[f].free
  <2>1. PAGE_SIZE - HDR \in Nat /\ 0 \in Nat
    BY <1>3
  <2>2. IsNewHeader(blocks'[f], PAGE_SIZE - HDR, 0)
    BY <1>8 DEF IsNewHeader, PageBlock
  <2> QED
    BY ONLY <2>1, <2>2, NewHeader
<1>11. \A x \in DOMAIN blocks : blocks'[x].size = blocks[x].size /\ EndOf(x)' = EndOf(x)
  <2>1. \A x \in DOMAIN blocks : blocks'[x].size = blocks[x].size
    BY <1>8, <1>9
  <2> QED
    BY <2>1 DEF EndOf
<1>12. \A x \in DOMAIN blocks : blocks'[x].free = blocks[x].free
  <2> TAKE x \in DOMAIN blocks
  <2>1. CASE x = last
    BY <1>9, <2>1
  <2>2. CASE x # last
    BY <1>8, <2>2
  <2> QED
    BY <2>1, <2>2
<1>13. EndOf(f)' = f + PAGE_SIZE
  BY <1>3, <1>10 DEF EndOf
<1>14. ListOK'
  <2>1. DOMAIN blocks' \subseteq Nat \ {0}
    BY <1>3, <1>4, <1>8
  <2>2. blocks' \in [DOMAIN blocks' -> Header]
    <3>1. \A x \in DOMAIN blocks' : blocks'[x] \in Header
      BY <1>8, <1>9, <1>10 DEF IInv, ListOK
    <3> QED
      BY <1>8, <3>1
  <2>3. \A x \in DOMAIN blocks' :
          blocks'[x].next # 0 => /\ blocks'[x].next \in DOMAIN blocks'
                                 /\ EndOf(x)' <= blocks'[x].next
    <3> TAKE x \in DOMAIN blocks'
    <3>1. CASE x = f
      BY <1>10, <3>1
    <3>2. CASE x = last
      BY <1>4, <1>6, <1>8, <1>9, <1>11, <3>2
    <3>3. CASE x \in DOMAIN blocks \ {last}
      <4>1. blocks'[x] = blocks[x] /\ EndOf(x)' = EndOf(x)
        BY ONLY <1>8, <1>11, <3>3
      <4>2. blocks[x].next # 0 => /\ blocks[x].next \in DOMAIN blocks
                                  /\ EndOf(x) <= blocks[x].next
        BY <3>3 DEF IInv, ListOK
      <4> QED
        BY ONLY <1>8, <4>1, <4>2
    <3> QED
      BY <1>8, <3>1, <3>2, <3>3
  <2>4. \A x, y \in DOMAIN blocks' :
          x < y => blocks'[x].next # 0 /\ blocks'[x].next <= y
    <3> SUFFICES ASSUME NEW x \in DOMAIN blocks', NEW y \in DOMAIN blocks', x < y
                 PROVE  blocks'[x].next # 0 /\ blocks'[x].next <= y
      OBVIOUS
    <3>1. CASE x = f
      BY <1>3, <1>4, <1>8, <3>1
    <3>2. CASE x = last
      BY <1>3, <1>4, <1>6, <1>8, <1>9, <3>2
    <3>3. CASE x \in DOMAIN blocks \ {last}
      <4>1. x < last
        BY <1>4, <1>6, <3>3
      <4>2. blocks[x].next # 0 /\ blocks[x].next <= last
        BY <1>6, <3>3, <4>1 DEF IInv, ListOK
      <4>3. blocks[x].next \in Nat
        BY <3>3, HeaderFields DEF IInv
      <4>4. CASE y = f
        BY <1>3, <1>4, <1>6, <1>8, <3>3, <4>2, <4>3, <4>4
      <4>5. CASE y \in DOMAIN blocks
        BY <1>8, <3>3, <4>5 DEF IInv, ListOK
      <4> QED
        BY <1>8, <4>4, <4>5
    <3> QED
      BY <1>8, <3>1, <3>2, <3>3
  <2>5. \E x \in DOMAIN blocks' : blocks'[x].next = 0
    BY <1>8, <1>10
  <2> QED
    BY <2>1, <2>2, <2>3, <2>4, <2>5 DEF ListOK
<1>15. StartOK'
  <2>1. heap_start \in DOMAIN blocks /\ \A x \in DOMAIN blocks : heap_start <= x
    BY DEF IInv, StartOK
  <2> QED
    BY <1>3, <1>4, <1>8, <2>1 DEF StartOK
<1>16. SpanOK'
  <2>1. \A x \in DOMAIN blocks :
          /\ \E r \in held' : r * PAGE_SIZE <= x
          /\ \E r \in held' : r < MAPPED /\ EndOf(x)' <= (r + 1) * PAGE_SIZE
    <3> TAKE x \in DOMAIN blocks
    <3>1. EndOf(x)' = EndOf(x)
      BY <1>11
    <3>2. \E r \in held : r * PAGE_SIZE <= x
      BY DEF IInv, SpanOK
    <3>3. \E r \in held : r < MAPPED /\ EndOf(x) <= (r + 1) * PAGE_SIZE
      BY DEF IInv, SpanOK
    <3> QED
      BY <1>1, <3>1, <3>2, <3>3
  <2>2. q * PAGE_SIZE <= f
    BY <1>2, <1>3
  <2>3. EndOf(f)' <= (q + 1) * PAGE_SIZE
    BY <1>3, <1>13
  <2> QED
    BY <1>1, <1>8, <2>1, <2>2, <2>3 DEF SpanOK
<1>17. LiveOK'
  <2>1. \A x \in DOMAIN blocks' : ~blocks'[x].free => x \in DOMAIN blocks /\ ~blocks[x].free
    BY <1>8, <1>10, <1>12
  <2>2. \A x \in DOMAIN blocks : ~blocks[x].free => ~blocks'[x].free
    BY <1>12
  <2>3. \A ptr \in DOMAIN live : ptr - HDR \in DOMAIN blocks
    BY DEF IInv, LiveOK
  <2> QED
    BY <1>8, <1>11, <2>1, <2>2, <2>3 DEF IInv, LiveOK
<1>18. DOMAIN blocks' \ DOMAIN blocks = {f}
  BY <1>7, <1>8
<1> QED
  BY <1>1, <1>2, <1>8, <1>10, <1>11, <1>12, <1>14, <1>15, <1>16, <1>17, <1>18

LEMMA ExpandPageStep ==
  ASSUME IInv, ExpandPage
  PROVE  IInv'
<1>0. hpc = "expand" /\ left > 0 /\ left \in Nat /\ want \in Nat /\ heap_start # 0
  BY DEF ExpandPage, IInv, KmallocOK
<1>1. ASSUME NEW q \in free, Take(q), PageFault(q) PROVE IInv'
  <2>1. PoolOK' /\ held \subseteq held'
    BY <1>1, TakeStep DEF IInv
  <2>2. ListOK' /\ StartOK' /\ SpanOK' /\ LiveOK'
    BY <1>1, <2>1, SameList DEF IInv, PageFault
  <2>3. KmallocOK' /\ SearchOK' /\ ExpandOK'
    BY <1>1 DEF IInv, KmallocOK, SearchOK, ExpandOK, PageFault
  <2> QED
    BY <2>1, <2>2, <2>3 DEF IInv
<1>2. ASSUME NEW q \in free, Take(q), q < MAPPED,
             blocks' = [x \in DOMAIN blocks \cup {q * PAGE_SIZE} |->
                          IF x = q * PAGE_SIZE THEN PageBlock
                          ELSE IF x = Last THEN [blocks[x] EXCEPT !.next = q * PAGE_SIZE]
                          ELSE blocks[x]],
             left' = left - 1,
             UNCHANGED <<hpc, heap_start, current, asked, want, used, live>>
      PROVE  IInv'
  <2>1. /\ PoolOK' /\ ListOK' /\ StartOK' /\ SpanOK' /\ LiveOK'
        /\ DOMAIN blocks \subseteq DOMAIN blocks'
        /\ \A x \in DOMAIN blocks : /\ blocks'[x].size = blocks[x].size
                                    /\ blocks'[x].free = blocks[x].free
        /\ \A x \in DOMAIN blocks' \ DOMAIN blocks :
             blocks'[x].size = PAGE_SIZE - HDR /\ blocks'[x].free
        /\ DOMAIN blocks' \ DOMAIN blocks = {q * PAGE_SIZE}
    BY <1>0, <1>2, AppendStep
  <2>2. KmallocOK'
    <3>1. left' \in Nat
      BY <1>0, <1>2
    <3> QED
      BY <1>0, <1>2, <2>1, <3>1 DEF IInv, KmallocOK
  <2>3. SearchOK'
    BY <1>0, <1>2 DEF SearchOK
  <2>4. ExpandOK'
    <3>1. \A a \in DOMAIN blocks : ~Suits(blocks[a])
      BY <1>0 DEF IInv, ExpandOK
    <3>2. \A x \in DOMAIN blocks : ~Suits(blocks'[x])
      BY <2>1, <3>1 DEF Suits
    <3>3. CASE want <= PAGE_SIZE - HDR
      <4>1. left' = 0
        BY <1>0, <1>2, <3>3 DEF IInv, ExpandOK
      <4>2. Suits(blocks'[q * PAGE_SIZE])
        <5>1. PAGE_SIZE \in Nat /\ HDR \in Nat
          BY HeapAssumption
        <5>2. blocks'[q * PAGE_SIZE].size = PAGE_SIZE - HDR /\ blocks'[q * PAGE_SIZE].free
          BY <2>1
        <5> QED
          BY <1>0, <3>3, <5>1, <5>2 DEF Suits
      <4>3. \E a \in DOMAIN blocks' : Suits(blocks'[a])
        <5>1. q * PAGE_SIZE \in DOMAIN blocks'
          BY <2>1
        <5> QED
          BY <1>2, <4>2, <5>1 DEF Suits
      <4> QED
        BY <1>0, <1>2, <3>3, <4>1, <4>3, HeapAssumption DEF ExpandOK, Suits
    <3>4. CASE ~(want <= PAGE_SIZE - HDR)
      <4>1. \A x \in DOMAIN blocks' : ~Suits(blocks'[x])
        <5> TAKE x \in DOMAIN blocks'
        <5>1. CASE x \in DOMAIN blocks
          BY <3>2, <5>1
        <5>2. CASE x \notin DOMAIN blocks
          <6>1. blocks'[x].size = PAGE_SIZE - HDR
            BY <2>1, <5>2
          <6> QED
            BY <1>0, <3>4, <6>1, HeapAssumption DEF Suits
        <5> QED
          BY <5>1, <5>2
      <4> QED
        BY <1>0, <1>2, <3>4, <4>1 DEF ExpandOK, Suits
    <3> QED
      BY <3>3, <3>4
  <2> QED
    BY <2>1, <2>2, <2>3, <2>4 DEF IInv
<1> QED
  BY <1>1, <1>2 DEF ExpandPage

\* kmalloc returns null, or tries again.
LEMMA ExpandEndStep ==
  ASSUME IInv, ExpandFailed \/ ExpandDone
  PROVE  IInv'
<1>1. PoolOK' /\ ListOK' /\ StartOK' /\ SpanOK' /\ LiveOK'
  BY SameList DEF ExpandFailed, ExpandDone, IInv, PoolOK, poolVars
<1>2. CASE ExpandFailed
  <2>1. /\ hpc' = "idle" /\ current' = 0 /\ asked' = 0 /\ want' = 0
        /\ left' = 0 /\ UNCHANGED <<heap_start, blocks, used>>
    BY <1>2 DEF ExpandFailed, Return
  <2>2. KmallocOK' /\ SearchOK' /\ ExpandOK'
    BY <2>1 DEF IInv, KmallocOK, SearchOK, ExpandOK
  <2> QED
    BY <1>1, <2>2 DEF IInv
<1>4. CASE ExpandDone /\ want = 0
  <2>1. /\ hpc' = "idle" /\ current' = 0 /\ asked' = 0 /\ want' = 0
        /\ left' = 0 /\ UNCHANGED <<heap_start, blocks, used>>
    BY <1>4 DEF ExpandDone, Return
  <2>2. KmallocOK' /\ SearchOK' /\ ExpandOK'
    BY <2>1 DEF IInv, KmallocOK, SearchOK, ExpandOK
  <2> QED
    BY <1>1, <2>2 DEF IInv
<1>3. CASE ExpandDone /\ want # 0
  <2>1. /\ hpc = "expand" /\ hpc' = "search" /\ want' = align_size(want)
        /\ current' = heap_start
        /\ UNCHANGED <<heap_start, blocks, asked, left, used>>
    BY <1>3 DEF ExpandDone
  <2>2. /\ want' \in Nat /\ want' < WORD /\ want' % ALIGN = 0 /\ want <= want'
        /\ want \in Nat /\ asked \in Nat /\ asked > 0 /\ (Alignable(asked) => asked <= want)
    BY <2>1, AlignFacts, AlignAgain DEF IInv, KmallocOK
  <2>3. heap_start \in DOMAIN blocks \cup {0}
    BY DEF IInv, StartOK
  <2>4. KmallocOK'
    <3>1. Alignable(asked') => asked' <= want'
      BY <2>1, <2>2
    <3> QED
      BY <2>1, <2>2, <2>3, <3>1 DEF IInv, KmallocOK
  <2>5. SearchOK'
    <3>1. \A a \in DOMAIN blocks : a \in Nat /\ heap_start \in Nat /\ heap_start # 0
                                   /\ heap_start <= a
      BY DEF IInv, StartOK, ListOK
    <3> QED
      BY <2>1, <3>1 DEF SearchOK
  <2>6. ExpandOK'
    BY <2>1 DEF ExpandOK
  <2> QED
    BY <1>1, <2>4, <2>5, <2>6 DEF IInv
<1> QED
  BY <1>2, <1>3, <1>4

\* What freeing the block at a leaves: it is free, and may have absorbed a
\* free block.
Freed(a) ==
  /\ ListOK' /\ StartOK' /\ SpanOK'
  /\ a \in DOMAIN blocks' /\ DOMAIN blocks' \subseteq DOMAIN blocks
  /\ blocks'[a].free
  /\ \A x \in DOMAIN blocks' \ {a} : blocks'[x] = blocks[x]
  /\ \A x \in DOMAIN blocks \ DOMAIN blocks' : blocks[x].free /\ x # a

LEMMA UnuseStep ==
  ASSUME IInv, NEW a \in DOMAIN blocks,
         blocks' = [blocks EXCEPT ![a].free = TRUE],
         UNCHANGED <<held, heap_start>>
  PROVE  Freed(a)
<1>1. blocks \in [DOMAIN blocks -> Header]
  BY DEF IInv, ListOK
<1>2. /\ DOMAIN blocks' = DOMAIN blocks
      /\ \A x \in DOMAIN blocks \ {a} : blocks'[x] = blocks[x]
      /\ IsFreeHeader(blocks'[a], blocks[a])
      /\ blocks' = [x \in DOMAIN blocks |-> blocks'[x]]
  BY <1>1 DEF IsFreeHeader
<1>3. blocks[a] \in Header
  BY <1>1
<1>4. /\ blocks'[a] \in Header /\ blocks'[a].size = blocks[a].size
      /\ blocks'[a].next = blocks[a].next /\ blocks'[a].free
  BY ONLY <1>2, <1>3, FreeHeader
<1>5. blocks' \in [DOMAIN blocks -> Header]
  <2>1. \A x \in DOMAIN blocks : blocks'[x] \in Header
    BY <1>1, <1>2, <1>4
  <2> QED
    BY <1>2, <2>1
<1>6. ListOK' /\ StartOK' /\ SpanOK'
  BY <1>2, <1>4, <1>5, SameShape DEF IInv
<1> QED
  BY <1>2, <1>4, <1>6 DEF Freed

\* Coalescing: the block reaches at most as far as the one it absorbs did.
LEMMA JoinStep ==
  ASSUME IInv, NEW a \in DOMAIN blocks, CanJoin(blocks[a]),
         blocks' = Join(a, blocks[a].size + HDR + blocks[blocks[a].next].size,
                        blocks[blocks[a].next].next),
         UNCHANGED <<held, heap_start>>
  PROVE  Freed(a)
<1>1. PICK b, size, next : /\ b = blocks[a].next
                           /\ next = blocks[b].next
                           /\ size = blocks[a].size + HDR + blocks[b].size
  OBVIOUS
<1>2. /\ a \in Nat \ {0} /\ blocks[a] \in Header /\ blocks[a].size \in Nat
      /\ EndOf(a) \in Nat /\ a + HDR <= EndOf(a) /\ HDR \in Nat \ {0}
  BY HeaderFields DEF IInv
<1>3. /\ b \in DOMAIN blocks /\ EndOf(a) <= b /\ blocks[b].free
  BY <1>1 DEF CanJoin, IInv, ListOK
<1>4. /\ b \in Nat \ {0} /\ blocks[b].size \in Nat /\ next \in Nat
      /\ EndOf(b) \in Nat /\ b + HDR <= EndOf(b)
  BY <1>1, <1>3, HeaderFields DEF IInv
<1>5. a < b /\ a # b
  BY <1>2, <1>3, <1>4
<1>6. size \in Nat /\ a + HDR + size <= EndOf(b) /\ a + HDR + size \in Nat
  BY <1>1, <1>2, <1>3, <1>4 DEF EndOf
<1>7. next # 0 => /\ next \in DOMAIN blocks /\ EndOf(b) <= next
                  /\ next # b
  <2>1. next # 0 => next \in DOMAIN blocks /\ EndOf(b) <= next
    BY <1>1, <1>3 DEF IInv, ListOK
  <2> QED
    BY <1>2, <1>4, <2>1
<1>8. /\ DOMAIN blocks' = DOMAIN blocks \ {b}
      /\ IsJoinHeader(blocks'[a], blocks[a], size, next)
      /\ \A x \in DOMAIN blocks \ {a, b} : blocks'[x] = blocks[x]
      /\ blocks' = [x \in DOMAIN blocks' |-> blocks'[x]]
  <2>1. blocks' = [x \in DOMAIN blocks \ {b} |->
          IF x = a
          THEN [blocks[a] EXCEPT !.size = size, !.free = TRUE, !.next = next]
          ELSE blocks[x]]
    BY <1>1 DEF Join
  <2> QED
    BY <1>5, <2>1 DEF IsJoinHeader
<1>9. /\ blocks'[a] \in Header /\ blocks'[a].size = size
      /\ blocks'[a].next = next /\ blocks'[a].free
  <2>1. blocks[a] \in Header /\ size \in Nat /\ next \in Nat
    BY <1>2, <1>4, <1>6
  <2>2. IsJoinHeader(blocks'[a], blocks[a], size, next)
    BY <1>8
  <2> DEFINE h == blocks'[a]
             b0 == blocks[a]
             n0 == next
             s0 == size
  <2>3. b0 \in Header /\ s0 \in Nat /\ n0 \in Nat /\ IsJoinHeader(h, b0, s0, n0)
    BY ONLY <2>1, <2>2
  <2> HIDE DEF h, b0, n0, s0
  <2>4. h \in Header /\ h.size = s0 /\ h.next = n0 /\ h.free
    BY ONLY <2>3, JoinHeader
  <2> QED
    BY <2>4 DEF h, n0, s0
<1>10. /\ EndOf(a)' = a + HDR + size
       /\ \A x \in DOMAIN blocks \ {a, b} : EndOf(x)' = EndOf(x)
  BY <1>8, <1>9 DEF EndOf
<1>11. ListOK'
  <2>1. DOMAIN blocks' \subseteq Nat \ {0}
    BY <1>8 DEF IInv, ListOK
  <2>2. blocks' \in [DOMAIN blocks' -> Header]
    <3>1. \A x \in DOMAIN blocks' : blocks'[x] \in Header
      BY <1>8, <1>9 DEF IInv, ListOK
    <3> QED
      BY <1>8, <3>1
  <2>3. \A x \in DOMAIN blocks' :
          blocks'[x].next # 0 => /\ blocks'[x].next \in DOMAIN blocks'
                                 /\ EndOf(x)' <= blocks'[x].next
    <3> SUFFICES ASSUME NEW x \in DOMAIN blocks', blocks'[x].next # 0
                 PROVE  blocks'[x].next \in DOMAIN blocks' /\ EndOf(x)' <= blocks'[x].next
      OBVIOUS
    <3>1. CASE x = a
      <4>1. next \in DOMAIN blocks' /\ EndOf(b) <= next
        BY <1>7, <1>8, <1>9, <3>1
      <4> QED
        BY <1>4, <1>6, <1>9, <1>10, <3>1, <4>1
    <3>2. CASE x # a
      <4>1. x \in DOMAIN blocks \ {a, b} /\ blocks'[x] = blocks[x] /\ EndOf(x)' = EndOf(x)
        BY <1>8, <1>10, <3>2
      <4>2. blocks[x].next \in DOMAIN blocks /\ EndOf(x) <= blocks[x].next
        BY <4>1 DEF IInv, ListOK
      <4>3. /\ x \in Nat /\ blocks[x].next \in Nat /\ EndOf(x) \in Nat
            /\ x + HDR <= EndOf(x)
        BY <4>1, HeaderFields DEF IInv
      <4>4. blocks[x].next # b
        <5>1. CASE x < a
          <6>1. blocks[x].next <= a
            BY <4>1, <5>1 DEF IInv, ListOK
          <6> QED
            BY <1>2, <1>4, <1>5, <4>3, <6>1
        <5>2. CASE a < x
          <6>1. b <= x
            BY <1>1, <4>1, <5>2 DEF IInv, ListOK
          <6> QED
            BY <1>2, <1>4, <4>2, <4>3, <6>1
        <5> QED
          BY <1>2, <3>2, <4>3, <5>1, <5>2
      <4> QED
        BY <1>8, <4>1, <4>2, <4>4
    <3> QED
      BY <3>1, <3>2
  <2>4. \A x, y \in DOMAIN blocks' :
          x < y => blocks'[x].next # 0 /\ blocks'[x].next <= y
    <3> SUFFICES ASSUME NEW x \in DOMAIN blocks', NEW y \in DOMAIN blocks', x < y
                 PROVE  blocks'[x].next # 0 /\ blocks'[x].next <= y
      OBVIOUS
    <3>1. CASE x = a
      <4>1. y \in DOMAIN blocks /\ y # b
        BY <1>8
      <4>2. y \in Nat
        BY <4>1, HeaderFields DEF IInv
      <4>3. b <= y
        BY <1>1, <3>1, <4>1 DEF IInv, ListOK
      <4>4. b < y
        BY <1>4, <4>1, <4>2, <4>3
      <4>5. next # 0 /\ next <= y
        BY <1>1, <1>3, <4>1, <4>4 DEF IInv, ListOK
      <4> QED
        BY <1>9, <3>1, <4>5
    <3>2. CASE x # a
      BY <1>8, <3>2 DEF IInv, ListOK
    <3> QED
      BY <3>1, <3>2
  <2>5. \E x \in DOMAIN blocks' : blocks'[x].next = 0
    <3>1. PICK x \in DOMAIN blocks : blocks[x].next = 0
      BY DEF IInv, ListOK
    <3>2. CASE x = b
      BY <1>1, <1>5, <1>8, <1>9, <3>1, <3>2
    <3>3. CASE x # b
      <4>1. x # a
        BY <1>1, <1>4, <3>1
      <4> QED
        BY <1>8, <3>1, <3>3, <4>1
    <3> QED
      BY <3>2, <3>3
  <2> QED
    BY <2>1, <2>2, <2>3, <2>4, <2>5 DEF ListOK
<1>12. StartOK'
  <2>1. /\ heap_start \in DOMAIN blocks /\ heap_start # 0
        /\ \A x \in DOMAIN blocks : heap_start <= x
    BY DEF IInv, StartOK
  <2>2. heap_start # b
    BY <1>2, <1>4, <1>5, <2>1
  <2> QED
    BY <1>8, <2>1, <2>2 DEF StartOK
<1>13. SpanOK'
  <2>1. \A x \in DOMAIN blocks' : \E q \in held : q * PAGE_SIZE <= x
    BY <1>8 DEF IInv, SpanOK
  <2>2. \E q \in held : q < MAPPED /\ EndOf(a)' <= (q + 1) * PAGE_SIZE
    <3>1. PICK q \in held : q < MAPPED /\ EndOf(b) <= (q + 1) * PAGE_SIZE
      BY <1>3 DEF IInv, SpanOK
    <3>2. (q + 1) * PAGE_SIZE \in Nat
      BY HeapAssumption DEF IInv, PoolOK
    <3> QED
      BY <1>4, <1>6, <1>10, <3>1, <3>2
  <2>3. \A x \in DOMAIN blocks \ {a, b} :
          \E q \in held : q < MAPPED /\ EndOf(x)' <= (q + 1) * PAGE_SIZE
    <3> TAKE x \in DOMAIN blocks \ {a, b}
    <3>1. EndOf(x)' = EndOf(x)
      BY <1>10
    <3>2. \E q \in held : q < MAPPED /\ EndOf(x) <= (q + 1) * PAGE_SIZE
      BY DEF IInv, SpanOK
    <3> QED
      BY <3>1, <3>2
  <2>4. \A x \in DOMAIN blocks' :
          \E q \in held : q < MAPPED /\ EndOf(x)' <= (q + 1) * PAGE_SIZE
    BY <1>8, <2>2, <2>3
  <2> QED
    BY <2>1, <2>4 DEF SpanOK
<1>14. \A x \in DOMAIN blocks \ DOMAIN blocks' : x = b
  BY <1>8
<1> QED
  BY <1>3, <1>5, <1>8, <1>9, <1>11, <1>12, <1>13, <1>14 DEF Freed

LEMMA KfreeStep ==
  ASSUME IInv, NEW ptr \in DOMAIN live \cup {0}, kfree(ptr)
  PROVE  IInv'
<1>1. /\ hpc = "idle" /\ UNCHANGED <<poolVars, hpc, heap_start, current, asked, want,
                                     left>>
      /\ live' = [x \in DOMAIN live \ {ptr} |-> live[x]]
  BY DEF kfree
<1>2. PoolOK' /\ UNCHANGED <<held, heap_start>>
  BY <1>1 DEF IInv, PoolOK, poolVars
<1>3. /\ live \in [DOMAIN live -> Nat \ {0}] /\ HDR \in Nat \ {0}
      /\ \A x \in DOMAIN live : /\ x \in Nat /\ x - HDR \in DOMAIN blocks
                                /\ ~blocks[x - HDR].free
                                /\ Alignable(live[x]) => live[x] <= blocks[x - HDR].size
      /\ \A x \in DOMAIN blocks : ~blocks[x].free => x + HDR \in DOMAIN live
      /\ \A x \in DOMAIN blocks : x \in Nat \ {0}
  BY HeapAssumption DEF IInv, LiveOK, ListOK
<1>4. 0 \notin DOMAIN live
  <2> SUFFICES ASSUME 0 \in DOMAIN live PROVE FALSE
    OBVIOUS
  <2>1. 0 - HDR \in Nat \ {0}
    BY <1>3
  <2> QED
    BY <1>3, <2>1
<1>5. current = 0 /\ used \in Nat
  BY <1>1 DEF IInv, KmallocOK
<1>6. CASE ptr = 0
  <2>1. UNCHANGED <<blocks, used>>
    BY <1>6 DEF kfree
  <2>2. live' = live
    BY <1>1, <1>3, <1>4, <1>6
  <2>3. ListOK' /\ StartOK' /\ SpanOK' /\ LiveOK'
    BY <1>2, <2>1, <2>2, SameList DEF IInv
  <2>4. KmallocOK' /\ SearchOK' /\ ExpandOK'
    BY <1>1, <1>2, <2>1 DEF IInv, KmallocOK, SearchOK, ExpandOK
  <2> QED
    BY <1>2, <2>3, <2>4 DEF IInv
<1>7. CASE ptr # 0
  <2>1. PICK a \in DOMAIN blocks : a = ptr - HDR
    BY <1>3, <1>7
  <2>2. ptr \in DOMAIN live /\ ptr = a + HDR /\ a \in Nat \ {0}
    BY <1>3, <1>7, <2>1
  <2>3. blocks[a].magic = TRUE /\ blocks[a].size \in Nat
    BY HeaderFields DEF IInv
  <2>4. /\ blocks' = FreeBlock(a)
        /\ used' = (used + WORD - blocks[a].size) % WORD
    BY <1>7, <2>1, <2>3 DEF kfree
  <2>5. Freed(a)
    <3>1. CASE CanJoin(blocks[a])
      BY <1>2, <2>4, <3>1, JoinStep DEF FreeBlock
    <3>2. CASE ~CanJoin(blocks[a])
      BY <1>2, <2>4, <3>2, UnuseStep DEF FreeBlock
    <3> QED
      BY <3>1, <3>2
  <2>6. ListOK' /\ StartOK' /\ SpanOK'
    BY <2>5 DEF Freed
  <2>7. used' \in Nat
    <3>1. used + WORD - blocks[a].size \in Int /\ WORD \in Nat \ {0}
      BY <1>5, <2>3, HeapAssumption, WordAssumption
    <3>2. (used + WORD - blocks[a].size) % WORD \in Nat
      BY <3>1
    <3> QED
      BY <2>4, <3>2
  <2>8. KmallocOK' /\ SearchOK' /\ ExpandOK'
    BY <1>1, <1>2, <1>5, <2>7 DEF IInv, KmallocOK, SearchOK, ExpandOK
  <2>9. LiveOK'
    <3>1. /\ DOMAIN live' = DOMAIN live \ {ptr}
          /\ \A x \in DOMAIN live' : live'[x] = live[x]
          /\ live' \in [DOMAIN live' -> Nat \ {0}]
      BY <1>1, <1>3
    <3>2. /\ DOMAIN blocks' \subseteq DOMAIN blocks
          /\ \A x \in DOMAIN blocks' \ {a} : blocks'[x] = blocks[x]
          /\ \A x \in DOMAIN blocks \ DOMAIN blocks' : blocks[x].free
          /\ blocks'[a].free
      BY <2>5 DEF Freed
    <3>3. \A x \in DOMAIN live' : /\ x - HDR \in DOMAIN blocks' /\ x - HDR # a
                                  /\ blocks'[x - HDR] = blocks[x - HDR]
      BY <1>3, <2>2, <3>1, <3>2
    <3>4. \A x \in DOMAIN blocks' : ~blocks'[x].free => x + HDR \in DOMAIN live'
      <4> SUFFICES ASSUME NEW x \in DOMAIN blocks', ~blocks'[x].free
                   PROVE  x + HDR \in DOMAIN live'
        OBVIOUS
      <4>1. x # a /\ x \in DOMAIN blocks /\ ~blocks[x].free
        BY <3>2
      <4>2. x + HDR \in DOMAIN live /\ x + HDR # ptr
        BY <1>3, <2>2, <4>1
      <4> QED
        BY <3>1, <4>2
    <3>5. \A x \in DOMAIN live' : ~blocks'[x - HDR].free
      BY <1>3, <3>1, <3>3
    <3>6. \A x \in DOMAIN live' : Alignable(live'[x]) => live'[x] <= blocks'[x - HDR].size
      BY <1>3, <3>1, <3>3
    <3> QED
      BY <1>3, <3>1, <3>3, <3>4, <3>5, <3>6 DEF LiveOK
  <2> QED
    BY <1>2, <2>6, <2>8, <2>9 DEF IInv
<1> QED
  BY <1>6, <1>7

\* A client's bytes hold no header.
LEMMA ClientStoreKeeps ==
  ASSUME IInv, NEW ptr \in DOMAIN live, ClientStore(ptr)
  PROVE  blocks' = blocks
<1>1. PICK a \in DOMAIN blocks : a = ptr - HDR
  BY DEF IInv, LiveOK
<1>2. /\ a \in Nat \ {0} /\ EndOf(a) \in Nat /\ HDR \in Nat \ {0} /\ ptr = a + HDR
  <2>1. a \in Nat \ {0} /\ EndOf(a) \in Nat /\ HDR \in Nat \ {0}
    BY HeaderFields DEF IInv
  <2>2. ptr \in Nat
    BY DEF IInv, LiveOK
  <2> QED
    BY <1>1, <2>1, <2>2
<1>3. \A x \in DOMAIN blocks : ~(x < EndOf(a) /\ ptr < x + HDR)
  <2> SUFFICES ASSUME NEW x \in DOMAIN blocks, x < EndOf(a), ptr < x + HDR PROVE FALSE
    OBVIOUS
  <2>1. x \in Nat
    BY HeaderFields DEF IInv
  <2>2. a < x
    BY <1>2, <2>1
  <2>3. blocks[a].next # 0 /\ blocks[a].next <= x /\ EndOf(a) <= blocks[a].next
    BY <2>2 DEF IInv, ListOK
  <2>4. blocks[a].next \in Nat
    BY HeaderFields DEF IInv
  <2> QED
    BY <1>2, <2>1, <2>3, <2>4
<1>4. blocks' = [x \in DOMAIN blocks |-> blocks[x]]
  BY <1>1, <1>3 DEF ClientStore
<1>5. blocks = [x \in DOMAIN blocks |-> blocks[x]]
  BY DEF IInv, ListOK
<1> QED
  BY <1>4, <1>5

LEMMA NextInv == IInv /\ [Next]_vars => IInv'
<1> SUFFICES ASSUME IInv, [Next]_vars PROVE IInv'
  OBVIOUS
<1>1. CASE HeapStep
  BY <1>1, HeapInitStep, SearchStep, SearchFailedStep, ExpandPageStep, ExpandEndStep
  DEF HeapStep
<1>2. ASSUME NEW n \in Requests, kmalloc(n) PROVE IInv'
  BY <1>2, KmallocStep
<1>3. ASSUME NEW ptr \in DOMAIN live \cup {0}, kfree(ptr) PROVE IInv'
  BY <1>3, KfreeStep
<1>4. CASE UNCHANGED vars
  <2>1. UNCHANGED <<up, free, held, heapVars>>
    BY <1>4 DEF vars, poolVars
  <2>2. PoolOK' /\ ListOK' /\ StartOK' /\ SpanOK' /\ LiveOK'
    BY <2>1, SameList DEF IInv, PoolOK, heapVars
  <2>3. KmallocOK' /\ SearchOK' /\ ExpandOK'
    BY <2>1 DEF IInv, KmallocOK, SearchOK, ExpandOK, heapVars, Suits
  <2> QED
    BY <2>2, <2>3 DEF IInv
<1>5. ASSUME NEW ptr \in DOMAIN live, ClientStore(ptr) PROVE IInv'
  <2>1. UNCHANGED vars
    BY <1>5, ClientStoreKeeps DEF ClientStore, vars, heapVars
  <2> QED
    BY <1>4, <2>1
<1> QED
  BY <1>1, <1>2, <1>3, <1>4, <1>5 DEF Next

-----------------------------------------------------------------------------
(***************************************************************************)
(* The theorems.                                                           *)
(***************************************************************************)

\* The inductive invariant holds in every reachable state.
THEOREM Invariant == Spec => []IInv
BY InitInv, NextInv, PTL DEF Spec

\* The heap's types: every link of the list leads to a header of the list.
THEOREM TypeCorrect == Spec => []TypeOK
<1>1. IInv => TypeOK
  <2> SUFFICES ASSUME IInv PROVE TypeOK
    OBVIOUS
  <2>1. PoolTypeOK
    BY DEF IInv, PoolOK, PoolTypeOK
  <2>2. \A a \in DOMAIN blocks :
          blocks[a] \in [size : Nat, free : BOOLEAN, next : Nat, magic : BOOLEAN]
    <3> TAKE a \in DOMAIN blocks
    <3>1. blocks[a] \in Header
      BY HeaderFields DEF IInv
    <3> QED
      BY <3>1 DEF Header
  <2>3. /\ DOMAIN blocks \subseteq Nat \ {0}
        /\ \A a \in DOMAIN blocks : blocks[a].next \in DOMAIN blocks \cup {0}
    BY DEF IInv, ListOK
  <2>4. heap_start \in DOMAIN blocks \cup {0}
    BY DEF IInv, StartOK
  <2> QED
    BY <2>1, <2>2, <2>3, <2>4 DEF TypeOK, IInv, KmallocOK
<1> QED
  BY <1>1, Invariant, PTL

\* Blocks never overlap, with holes in the memory or without.
Disjoint ==
  \A a, b \in DOMAIN blocks : a # b => EndOf(a) <= b \/ EndOf(b) <= a

LEMMA InvDisjoint == IInv => Disjoint
<1> SUFFICES ASSUME IInv PROVE Disjoint
  OBVIOUS
<1>1. ASSUME NEW a \in DOMAIN blocks, NEW b \in DOMAIN blocks, a < b
      PROVE  EndOf(a) <= b
  <2>1. /\ blocks[a].next # 0 /\ blocks[a].next <= b /\ EndOf(a) <= blocks[a].next
    BY <1>1 DEF IInv, ListOK
  <2>2. EndOf(a) \in Nat /\ blocks[a].next \in Nat /\ b \in Nat
    BY HeaderFields DEF IInv
  <2> QED
    BY <2>1, <2>2
<1>2. \A x \in DOMAIN blocks : x \in Nat
  BY DEF IInv, ListOK
<1> QED
  BY <1>1, <1>2 DEF Disjoint

\* Through every split, expansion and coalescing no byte belongs to two
\* blocks: this needs nothing of the memory map.
THEOREM BlocksDisjoint == Spec => []Disjoint
BY InvDisjoint, Invariant, PTL

\* Where the pool has no hole, all that lies between two of the heap's frames
\* is the heap's.
LEMMA HeldConvex ==
  ASSUME NoHoles, PoolOK, NEW q \in held, NEW r \in held, NEW s \in Nat, q <= s, s <= r
  PROVE  s \in held
<1>1. s \in held \cup free
  BY DEF NoHoles, PoolOK
<1>2. s \notin free
  BY DEF PoolOK
<1> QED
  BY <1>1, <1>2

\* The frame of each byte of a block is one of the heap's.
LEMMA ByteInHeld ==
  ASSUME NoHoles, IInv, NEW a \in DOMAIN blocks, NEW s \in Nat,
         a \div PAGE_SIZE <= s, s <= (EndOf(a) - 1) \div PAGE_SIZE
  PROVE  s \in held
<1>1. /\ a \in Nat \ {0} /\ EndOf(a) \in Nat /\ a + HDR <= EndOf(a)
      /\ HDR \in Nat \ {0} /\ PAGE_SIZE \in Nat \ {0}
  <2>1. PAGE_SIZE \in Nat \ {0}
    BY HeapAssumption
  <2> QED
    BY <2>1, HeaderFields DEF IInv
<1>2. PICK q \in held : q * PAGE_SIZE <= a
  BY DEF IInv, SpanOK
<1>3. PICK r \in held : EndOf(a) <= (r + 1) * PAGE_SIZE
  BY DEF IInv, SpanOK
<1>4. q \in Nat /\ r \in Nat
  BY DEF IInv, PoolOK
<1>5. PICK x, y : x = a \div PAGE_SIZE /\ y = (EndOf(a) - 1) \div PAGE_SIZE
  OBVIOUS
<1>6. /\ x \in Nat /\ PAGE_SIZE * x \in Nat /\ PAGE_SIZE * x <= a
      /\ a < PAGE_SIZE * x + PAGE_SIZE
  BY <1>1, <1>5, Quotient
<1>7. y \in Nat /\ PAGE_SIZE * y \in Nat /\ PAGE_SIZE * y <= EndOf(a) - 1
  <2>1. EndOf(a) - 1 \in Nat
    BY <1>1
  <2> QED
    BY <1>1, <1>5, <2>1, Quotient
<1>8. q <= x
  <2> SUFFICES ASSUME x < q PROVE FALSE
    BY <1>4, <1>6
  <2>1. PAGE_SIZE * x + PAGE_SIZE <= PAGE_SIZE * q /\ PAGE_SIZE * q = q * PAGE_SIZE
        /\ PAGE_SIZE * q \in Nat
    BY <1>1, <1>4, <1>6, Products
  <2> QED
    BY <1>1, <1>2, <1>6, <2>1
<1>9. y <= r
  <2> SUFFICES ASSUME r < y PROVE FALSE
    BY <1>4, <1>7
  <2>1. /\ PAGE_SIZE * r + PAGE_SIZE <= PAGE_SIZE * y /\ PAGE_SIZE * r = r * PAGE_SIZE
        /\ PAGE_SIZE * r \in Nat
    BY <1>1, <1>4, <1>7, Products
  <2>2. (r + 1) * PAGE_SIZE = r * PAGE_SIZE + PAGE_SIZE
    BY <1>4, <1>7, FrameOrder
  <2> QED
    BY <1>1, <1>3, <1>7, <2>1, <2>2
<1>10. q <= s /\ s <= r
  BY <1>4, <1>5, <1>6, <1>7, <1>8, <1>9
<1> QED
  BY <1>10, HeldConvex DEF IInv

\* The size of a block is memory its holder may use, if the free frames have
\* no hole: coalescing trusts the list for adjacency.
THEOREM MemoryUsable ==
  ASSUME NoHoles
  PROVE  Spec => []UsableMemory
<1>1. IInv => UsableMemory
  <2> SUFFICES ASSUME IInv PROVE UsableMemory
    OBVIOUS
  <2>1. \A a \in DOMAIN blocks : FramesOf(a) \subseteq held
    <3> SUFFICES ASSUME NEW a \in DOMAIN blocks, NEW s \in FramesOf(a) PROVE s \in held
      OBVIOUS
    <3>0. PAGE_SIZE \in Nat \ {0}
      BY HeapAssumption
    <3>1. a \in Nat \ {0} /\ PAGE_SIZE \in Nat \ {0}
      BY <3>0, HeaderFields DEF IInv
    <3>2. a \div PAGE_SIZE \in Nat
      BY <3>1, Quotient
    <3>3. s \in Nat /\ a \div PAGE_SIZE <= s /\ s <= (EndOf(a) - 1) \div PAGE_SIZE
      BY <3>2 DEF FramesOf
    <3> QED
      BY <3>3, ByteInHeld
  <2> QED
    BY <2>1, InvDisjoint DEF UsableMemory, Disjoint
<1> QED
  BY <1>1, Invariant, PTL

\* Clients hold exactly the blocks in use, and each is as large as what was
\* asked for, unless rounding that up wraps around.
THEOREM BlocksHeld == Spec => []HeldBlocks
<1>1. IInv => HeldBlocks
  <2> SUFFICES ASSUME IInv PROVE HeldBlocks
    OBVIOUS
  <2>1. HDR \in Nat /\ \A a \in DOMAIN blocks : a \in Nat
    BY HeapAssumption DEF IInv, ListOK
  <2>2. {a \in DOMAIN blocks : ~blocks[a].free} \subseteq {ptr - HDR : ptr \in DOMAIN live}
    <3> SUFFICES ASSUME NEW a \in DOMAIN blocks, ~blocks[a].free
                 PROVE  \E ptr \in DOMAIN live : a = ptr - HDR
      OBVIOUS
    <3>1. a + HDR \in DOMAIN live
      BY DEF IInv, LiveOK
    <3>2. a = (a + HDR) - HDR
      BY <2>1
    <3> QED
      BY <3>1, <3>2
  <2>3. {ptr - HDR : ptr \in DOMAIN live} \subseteq {a \in DOMAIN blocks : ~blocks[a].free}
    BY DEF IInv, LiveOK
  <2> QED
    BY <2>2, <2>3 DEF HeldBlocks, IInv, LiveOK
<1> QED
  BY <1>1, Invariant, PTL

\* "CORRUPTION DETECTED!" and "Invalid free()!" are never false alarms.
THEOREM AlarmsAreReal == Spec => []NoFalseAlarm
<1>1. IInv => NoFalseAlarm
  BY HeaderFields DEF IInv, NoFalseAlarm
<1> QED
  BY <1>1, Invariant, PTL

\* kmalloc returns null only when no frame is left and no block suits, or
\* for a size that was rounded up to 0.
THEOREM NullIsHonest == Spec => NullMeansNoRoom
<1> DEFINE Honest ==
             (hpc \in {"search", "expand"} /\ want # 0 /\ hpc' = "idle" /\ live' = live)
               => free = {} /\ ~\E a \in DOMAIN blocks : Suits(blocks[a])
<1>1. ASSUME IInv, [Next]_vars PROVE Honest
  <2> SUFFICES ASSUME hpc \in {"search", "expand"}, want # 0, hpc' = "idle", live' = live
               PROVE  free = {} /\ ~\E a \in DOMAIN blocks : Suits(blocks[a])
    OBVIOUS
  <2>1. ~Search
    <3> SUFFICES ASSUME Search PROVE FALSE
      OBVIOUS
    <3>0. current \in DOMAIN blocks
      BY <1>1 DEF Search, IInv, KmallocOK
    <3>1. /\ current \in DOMAIN blocks
          /\ current \in Nat \ {0} /\ blocks[current].magic = TRUE /\ HDR \in Nat
      BY <1>1, <3>0, HeaderFields DEF IInv
    <3>2. Suits(blocks[current])
      <4> SUFFICES ASSUME ~Suits(blocks[current]) PROVE FALSE
        OBVIOUS
      <4>1. hpc' = hpc /\ hpc = "search"
        BY <3>1 DEF Search
      <4> QED
        BY <4>1
    <3>3. current + HDR \in DOMAIN live'
      BY <3>1, <3>2 DEF Search
    <3>4. (current + HDR) - HDR = current
      BY <3>1
    <3>5. ~blocks[current].free
      BY <1>1, <3>3, <3>4 DEF IInv, LiveOK
    <3> QED
      BY <3>2, <3>5 DEF Suits
  <2>2. ~SearchFailed /\ ~ExpandPage /\ ~ExpandDone /\ ~heap_init
    BY DEF SearchFailed, ExpandPage, ExpandDone, heap_init, PageFault
  <2>3. /\ \A n \in Requests : ~kmalloc(n)
        /\ \A ptr \in DOMAIN live \cup {0} : ~kfree(ptr)
        /\ \A ptr \in DOMAIN live : ~ClientStore(ptr)
    BY DEF kmalloc, kfree, ClientStore
  <2>4. ~UNCHANGED vars
    BY DEF vars, heapVars
  <2>5. ExpandFailed
    BY <1>1, <2>1, <2>2, <2>3, <2>4 DEF Next, HeapStep
  <2> QED
    BY <1>1, <2>5 DEF ExpandFailed, IInv, ExpandOK
<1> QED
  BY <1>1, Invariant, PTL DEF Spec, NullMeansNoRoom

\* One expansion is enough for a request that fits in a page block.
THEOREM OneExpansionSuffices == Spec => ExpandSuffices
<1>1. IInv => (ExpandDone /\ want <= PAGE_SIZE - HDR
                => \E a \in DOMAIN blocks : Suits(blocks[a]))
  BY DEF IInv, ExpandOK, ExpandDone
<1> QED
  BY <1>1, Invariant, PTL DEF ExpandSuffices

-----------------------------------------------------------------------------
(***************************************************************************)
(* The heap implements the specification of heap.h.                        *)
(***************************************************************************)

LEMMA QuotientMonotone ==
  ASSUME NEW x \in Nat, NEW y \in Nat, x <= y, NEW d \in Nat \ {0}
  PROVE  x \div d <= y \div d
<1>1. PICK j, k : j = x \div d /\ k = y \div d
  OBVIOUS
<1>2. /\ j \in Nat /\ k \in Nat /\ d * j \in Nat /\ d * k \in Nat
      /\ d * j <= x /\ y < d * k + d
  BY <1>1, Quotient
<1>3. ~(k < j)
  <2> SUFFICES ASSUME k < j PROVE FALSE
    OBVIOUS
  <2>1. d * k + d <= d * j
    BY <1>2, Products
  <2> QED
    BY <1>2, <2>1
<1> QED
  BY <1>1, <1>2, <1>3

\* The bytes of a block are the heap's.
LEMMA BlockInHeap ==
  ASSUME NoHoles, IInv, NEW a \in DOMAIN blocks, NEW x \in Nat, a <= x, x < EndOf(a)
  PROVE  x \in HeapMemory
<1>1. PAGE_SIZE \in Nat \ {0}
  BY HeapAssumption
<1>2. a \in Nat \ {0} /\ EndOf(a) \in Nat
  BY HeaderFields DEF IInv
<1>3. PICK s : s = x \div PAGE_SIZE
  OBVIOUS
<1>4. /\ s \in Nat /\ PAGE_SIZE * s \in Nat /\ PAGE_SIZE * s <= x
      /\ x < PAGE_SIZE * s + PAGE_SIZE
  BY <1>1, <1>3, Quotient
<1>5. a \div PAGE_SIZE <= s
  BY <1>1, <1>2, <1>3, QuotientMonotone
<1>6. s <= (EndOf(a) - 1) \div PAGE_SIZE
  <2>1. EndOf(a) - 1 \in Nat /\ x <= EndOf(a) - 1
    BY <1>2
  <2> QED
    BY <1>1, <1>3, <2>1, QuotientMonotone
<1>7. s \in held
  BY <1>4, <1>5, <1>6, ByteInHeld
<1>8. PAGE_SIZE * s = s * PAGE_SIZE
  BY <1>1, <1>4
<1>9. x \in (s * PAGE_SIZE) .. (s * PAGE_SIZE + PAGE_SIZE - 1)
  BY <1>1, <1>4, <1>8
<1> QED
  BY <1>7, <1>9 DEF HeapMemory

LEMMA GrantedFacts ==
  /\ DOMAIN Granted \subseteq DOMAIN live
  /\ \A x \in DOMAIN live : x \in DOMAIN Granted <=> Alignable(live[x])
  /\ \A x \in DOMAIN Granted : Granted[x] = live[x]
  /\ Granted = [x \in DOMAIN Granted |-> Granted[x]]
BY DEF Granted

\* A new pointer the contract is about joins the others; any other one leaves
\* them as they are.
LEMMA GrantedAlloc ==
  ASSUME NEW ptr, ptr \notin DOMAIN live,
         live' = [x \in DOMAIN live \cup {ptr} |-> IF x = ptr THEN asked ELSE live[x]]
  PROVE  /\ Alignable(asked) =>
              /\ ptr \in DOMAIN Granted' \ DOMAIN Granted /\ Granted'[ptr] = asked
              /\ Granted' = [x \in DOMAIN Granted \cup {ptr} |->
                               IF x = ptr THEN Granted'[ptr] ELSE Granted[x]]
         /\ ~Alignable(asked) => Granted' = Granted
<1>1. /\ DOMAIN live' = DOMAIN live \cup {ptr} /\ live'[ptr] = asked
      /\ \A x \in DOMAIN live : x # ptr /\ live'[x] = live[x]
  OBVIOUS
<1> DEFINE L == live'
           G == Granted'
<1>2. G = [x \in {p \in DOMAIN L : Alignable(L[p])} |-> L[x]]
  BY DEF Granted, Alignable
<1> HIDE DEF L, G
<1>3. DOMAIN G = {p \in DOMAIN L : Alignable(L[p])} /\ \A x \in DOMAIN G : G[x] = L[x]
  BY <1>2
<1>7. G = [x \in DOMAIN G |-> G[x]]
  BY <1>2
<1>4. DOMAIN L = DOMAIN live \cup {ptr} /\ L[ptr] = asked
      /\ \A x \in DOMAIN live : x # ptr /\ L[x] = live[x]
  BY <1>1 DEF L
<1>5. CASE Alignable(asked)
  <2>1. ptr \in DOMAIN G /\ ptr \notin DOMAIN Granted /\ G[ptr] = asked
    BY <1>3, <1>4, <1>5, GrantedFacts
  <2>2. DOMAIN G = DOMAIN Granted \cup {ptr}
    BY <1>3, <1>4, <1>5, GrantedFacts
  <2>3. \A x \in DOMAIN Granted : x # ptr /\ G[x] = Granted[x]
    BY <1>3, <1>4, <2>2, GrantedFacts
  <2>5. G = [x \in DOMAIN Granted \cup {ptr} |-> IF x = ptr THEN G[ptr] ELSE Granted[x]]
    BY <1>7, <2>2, <2>3
  <2> QED
    BY <1>5, <2>1, <2>5 DEF G
<1>6. CASE ~Alignable(asked)
  <2>1. DOMAIN G = DOMAIN Granted
    BY <1>3, <1>4, <1>6, GrantedFacts
  <2>2. \A x \in DOMAIN Granted : G[x] = Granted[x]
    BY <1>3, <1>4, <2>1, GrantedFacts
  <2>4. G = Granted
    <3>1. Granted = [x \in DOMAIN Granted |-> Granted[x]]
      BY GrantedFacts
    <3>2. G = [x \in DOMAIN Granted |-> G[x]]
      BY <1>7, <2>1
    <3> QED
      BY ONLY <2>2, <3>1, <3>2
  <2> QED
    BY <1>6, <2>4 DEF G
<1> QED
  BY <1>5, <1>6

LEMMA GrantedFree ==
  ASSUME NEW ptr, live' = [x \in DOMAIN live \ {ptr} |-> live[x]]
  PROVE  Granted' = [x \in DOMAIN Granted \ {ptr} |-> Granted[x]]
<1> DEFINE L == live'
           G == Granted'
<1>1. DOMAIN L = DOMAIN live \ {ptr} /\ \A x \in DOMAIN L : L[x] = live[x]
  OBVIOUS
<1>2. G = [x \in {p \in DOMAIN L : Alignable(L[p])} |-> L[x]]
  BY DEF Granted, Alignable
<1> HIDE DEF L, G
<1>3. DOMAIN G = {p \in DOMAIN L : Alignable(L[p])} /\ \A x \in DOMAIN G : G[x] = L[x]
  BY <1>2
<1>7. G = [x \in DOMAIN G |-> G[x]]
  BY <1>2
<1>4. DOMAIN G = DOMAIN Granted \ {ptr}
  BY <1>1, <1>3, GrantedFacts
<1>5. \A x \in DOMAIN G : G[x] = Granted[x]
  BY <1>1, <1>3, <1>4, GrantedFacts
<1>6. G = [x \in DOMAIN Granted \ {ptr} |-> Granted[x]]
  <2>1. PICK S : S = DOMAIN Granted \ {ptr}
    OBVIOUS
  <2>2. G = [x \in S |-> G[x]] /\ \A x \in S : G[x] = Granted[x]
    BY <1>4, <1>5, <1>7, <2>1
  <2>3. G = [x \in S |-> Granted[x]]
    BY ONLY <2>2
  <2> QED
    BY <2>1, <2>3
<1> QED
  BY <1>6 DEF G

LEMMA GrantedKept == UNCHANGED live => UNCHANGED Granted
BY DEF Granted, Alignable

\* A successful search is an allocation, if the size is one the contract is
\* about.
LEMMA AllocStep ==
  ASSUME NoHoles, IInv, Search, Suits(blocks[current])
  PROVE  Promise!Alloc \/ UNCHANGED <<HeapMemory, Granted>>
<1>1. current \in DOMAIN blocks /\ hpc = "search"
  BY DEF Search, IInv, KmallocOK
<1>2. /\ current \in Nat \ {0} /\ blocks[current].size \in Nat /\ HDR \in Nat \ {0}
      /\ EndOf(current) \in Nat /\ blocks[current].magic = TRUE
  BY <1>1, HeaderFields DEF IInv
<1>3. /\ asked \in Nat \ {0} /\ (Alignable(asked) => asked <= want)
      /\ want \in Nat /\ want <= blocks[current].size
  BY <1>1, <1>2 DEF IInv, KmallocOK, Suits
<1>4. PICK ptr : ptr = current + HDR
  OBVIOUS
<1>5. /\ live' = [x \in DOMAIN live \cup {ptr} |-> IF x = ptr THEN asked ELSE live[x]]
      /\ UNCHANGED poolVars
  BY <1>2, <1>4 DEF Search
<1>6. \A x \in DOMAIN live : /\ x \in Nat /\ live[x] \in Nat
                             /\ x - HDR \in DOMAIN blocks /\ ~blocks[x - HDR].free
                             /\ Alignable(live[x]) => live[x] <= blocks[x - HDR].size
  BY DEF IInv, LiveOK
<1>7. \A x \in DOMAIN live : x - HDR # current
  BY <1>6 DEF Suits
<1>8. ptr \notin DOMAIN live
  BY <1>2, <1>4, <1>7
<1>12. HeapMemory' = HeapMemory
  BY <1>5 DEF HeapMemory, poolVars
<1>13. CASE ~Alignable(asked)
  BY <1>5, <1>8, <1>12, <1>13, GrantedAlloc
<1>14. CASE Alignable(asked)
  <2>0. asked > 0 /\ asked <= want
    BY <1>3, <1>14
  <2>1. /\ ptr \in DOMAIN Granted' \ DOMAIN Granted /\ Granted'[ptr] = asked
        /\ Granted' = [x \in DOMAIN Granted \cup {ptr} |->
                         IF x = ptr THEN Granted'[ptr] ELSE Granted[x]]
    BY <1>5, <1>8, <1>14, GrantedAlloc
  <2>2. Promise!Bytes(ptr, asked) \subseteq HeapMemory
    <3> SUFFICES ASSUME NEW x \in ptr .. (ptr + asked - 1) PROVE x \in HeapMemory
      BY DEF Promise!Bytes
    <3>1. x \in Nat /\ current <= x /\ x < EndOf(current)
      BY <1>2, <1>3, <1>4, <2>0 DEF EndOf
    <3> QED
      BY <1>1, <3>1, BlockInHeap
  <2>3. \A x \in DOMAIN Granted :
          Promise!Bytes(ptr, asked) \cap Promise!Bytes(x, Granted[x]) = {}
    <3> SUFFICES ASSUME NEW x \in DOMAIN Granted, NEW y \in ptr .. (ptr + asked - 1),
                        y \in x .. (x + Granted[x] - 1)
                 PROVE  FALSE
      BY DEF Promise!Bytes
    <3>0. /\ x \in DOMAIN live /\ Granted[x] = live[x] /\ Alignable(live[x])
      BY GrantedFacts
    <3>1. PICK b \in DOMAIN blocks : b = x - HDR
      BY <1>6, <3>0
    <3>2. b # current /\ x \in Nat /\ live[x] \in Nat /\ live[x] <= blocks[b].size
      BY <1>6, <1>7, <3>0, <3>1
    <3>3. b \in Nat /\ blocks[b].size \in Nat
      BY HeaderFields DEF IInv
    <3>4. x = b + HDR
      BY <1>2, <3>1, <3>2, <3>3
    <3>5. EndOf(b) <= current \/ EndOf(current) <= b
      BY <1>1, <3>2, InvDisjoint DEF Disjoint
    <3>6. y \in Nat /\ current < y /\ y < EndOf(current)
      BY <1>2, <1>3, <1>4, <2>0 DEF EndOf
    <3>7. y \in x .. (x + live[x] - 1)
      BY <3>0
    <3>8. b < y /\ y < EndOf(b) /\ EndOf(b) \in Nat
      BY <1>2, <3>2, <3>3, <3>4, <3>6, <3>7 DEF EndOf
    <3> QED
      BY <1>2, <3>3, <3>5, <3>6, <3>8
  <2> QED
    BY <1>12, <2>0, <2>1, <2>2, <2>3 DEF Promise!Alloc
<1> QED
  BY <1>13, <1>14

LEMMA FreeStep ==
  ASSUME IInv, NEW ptr \in DOMAIN live \cup {0}, kfree(ptr)
  PROVE  Promise!Free \/ UNCHANGED <<HeapMemory, Granted>>
<1>1. HeapMemory' = HeapMemory /\ live' = [x \in DOMAIN live \ {ptr} |-> live[x]]
  BY DEF kfree, HeapMemory, poolVars
<1>2. Granted' = [x \in DOMAIN Granted \ {ptr} |-> Granted[x]]
  BY <1>1, GrantedFree
<1>3. CASE ptr \in DOMAIN Granted
  BY <1>1, <1>2, <1>3 DEF Promise!Free
<1>4. CASE ptr \notin DOMAIN Granted
  <2>1. DOMAIN Granted \ {ptr} = DOMAIN Granted
    BY <1>4
  <2>2. Granted' = Granted
    BY <1>2, <2>1, GrantedFacts
  <2> QED
    BY <1>1, <2>2
<1> QED
  BY <1>3, <1>4

LEMMA GrowStep ==
  ASSUME NEW q \in free, Take(q), UNCHANGED live
  PROVE  Promise!Grow
<1>1. held \subseteq held'
  BY DEF Take
<1>2. HeapMemory \subseteq HeapMemory'
  BY <1>1 DEF HeapMemory
<1> QED
  BY <1>2, GrantedKept DEF Promise!Grow

\* Through every search, split, expansion, failure and coalescing the heap
\* keeps what heap.h lets callers rely on, where the memory has no hole.
THEOREM HeapRefinesAllocator ==
  ASSUME NoHoles
  PROVE  Spec => ImplementsAllocator
<1>1. Init => Promise!AllocatorInit
  <2> SUFFICES ASSUME Init PROVE Promise!AllocatorInit
    OBVIOUS
  <2>1. held = {} /\ live = << >>
    BY DEF Init
  <2>2. Granted = << >>
    BY <2>1 DEF Granted
  <2> QED
    BY <2>1, <2>2 DEF Promise!AllocatorInit, HeapMemory
<1>2. IInv /\ [Next]_vars => [Promise!AllocatorNext]_(Promise!allocatorVars)
  <2> SUFFICES ASSUME IInv, [Next]_vars
               PROVE  Promise!AllocatorNext \/ UNCHANGED <<HeapMemory, Granted>>
    BY DEF Promise!allocatorVars
  <2>0. ASSUME UNCHANGED <<held, live>> PROVE UNCHANGED <<HeapMemory, Granted>>
    BY <2>0, GrantedKept DEF HeapMemory
  <2>1. CASE heap_init
    <3>1. ASSUME NEW q \in free, Take(q), UNCHANGED live PROVE Promise!AllocatorNext
      BY <3>1, GrowStep DEF Promise!AllocatorNext
    <3>2. CASE UNCHANGED <<poolVars, live>>
      BY <2>0, <3>2 DEF poolVars
    <3> QED
      BY <2>1, <3>1, <3>2 DEF heap_init, PageFault
  <2>2. CASE Search
    <3>1. CASE Suits(blocks[current])
      BY <2>2, <3>1, AllocStep DEF Promise!AllocatorNext
    <3>2. CASE ~Suits(blocks[current])
      BY <2>0, <2>2, <3>2 DEF Search, poolVars
    <3> QED
      BY <3>1, <3>2
  <2>3. CASE SearchFailed \/ ExpandFailed \/ ExpandDone
    BY <2>0, <2>3 DEF SearchFailed, ExpandFailed, ExpandDone, poolVars
  <2>4. CASE ExpandPage
    BY <2>4, GrowStep DEF ExpandPage, PageFault, Promise!AllocatorNext
  <2>5. ASSUME NEW n \in Requests, kmalloc(n) PROVE UNCHANGED <<HeapMemory, Granted>>
    BY <2>0, <2>5 DEF kmalloc, poolVars
  <2>6. ASSUME NEW ptr \in DOMAIN live \cup {0}, kfree(ptr)
        PROVE  Promise!AllocatorNext \/ UNCHANGED <<HeapMemory, Granted>>
    BY <2>6, FreeStep DEF Promise!AllocatorNext
  <2>7. ASSUME NEW ptr \in DOMAIN live, ClientStore(ptr)
        PROVE  UNCHANGED <<HeapMemory, Granted>>
    BY <2>0, <2>7 DEF ClientStore, poolVars
  <2>8. CASE UNCHANGED vars
    BY <2>0, <2>8 DEF vars, heapVars, poolVars
  <2> QED
    BY <2>1, <2>2, <2>3, <2>4, <2>5, <2>6, <2>7, <2>8 DEF Next, HeapStep
<1> QED
  BY <1>1, <1>2, Invariant, PTL
  DEF Spec, ImplementsAllocator, Promise!AllocatorSpec

-----------------------------------------------------------------------------
(***************************************************************************)
(* The bytes.  heap_get_free walks the list, and used is kept by           *)
(* additions and subtractions that wrap around; both are sums over the     *)
(* blocks, taken here from each block to the end of the list.              *)
(***************************************************************************)

FreeSize(a) == IF blocks[a].free THEN blocks[a].size ELSE 0
UsedSize(a) == IF blocks[a].free THEN 0 ELSE blocks[a].size

\* F[a] and U[a] are the free and the used bytes from block a on.
Sums(F, U) ==
  /\ F \in [DOMAIN blocks \cup {0} -> Int] /\ U \in [DOMAIN blocks \cup {0} -> Int]
  /\ F[0] = 0 /\ U[0] = 0
  /\ \A a \in DOMAIN blocks : /\ F[a] = FreeSize(a) + F[blocks[a].next]
                              /\ U[a] = UsedSize(a) + U[blocks[a].next]

Balanced(F, U) ==
  /\ U[heap_start] = used
  /\ F[heap_start] + used + HDR * Cardinality(DOMAIN blocks)
       = PAGE_SIZE * Cardinality(held)

Bytes ==
  /\ IsFiniteSet(DOMAIN blocks) /\ IsFiniteSet(held)
  /\ \A q \in held : q < MAPPED
  /\ \E F, U : Sums(F, U) /\ Balanced(F, U)

\* The machine halts with a frame taken that is not yet a block.
BytesOK == hpc # "halted" => Bytes

\* A set of natural numbers that is not empty has a least element.
LEMMA NatMin ==
  ASSUME NEW T \in SUBSET Nat, T # {}
  PROVE  \E m \in T : \A k \in T : m <= k
<1>1. IsWellFoundedOn(OpToRel(<, Nat), Nat)
  BY NatLessThanWellFounded
<1>2. PICK m \in T : \A y \in T : ~(<<y, m>> \in OpToRel(<, Nat))
  BY <1>1, WFMin
<1>3. \A y \in T : ~(y < m)
  BY <1>2 DEF OpToRel
<1> QED
  BY <1>3

LEMMA SizeFacts ==
  ASSUME ListOK, NEW a \in DOMAIN blocks
  PROVE  /\ a \in Nat \ {0} /\ FreeSize(a) \in Nat /\ UsedSize(a) \in Nat
         /\ blocks[a].free => FreeSize(a) = blocks[a].size /\ UsedSize(a) = 0
         /\ ~blocks[a].free => FreeSize(a) = 0 /\ UsedSize(a) = blocks[a].size
BY HeaderFields DEF FreeSize, UsedSize

LEMMA SumFacts ==
  ASSUME ListOK, NEW F, NEW U, Sums(F, U), NEW a \in DOMAIN blocks
  PROVE  /\ F[a] \in Int /\ U[a] \in Int
         /\ F[a] = FreeSize(a) + F[blocks[a].next]
         /\ U[a] = UsedSize(a) + U[blocks[a].next]
         /\ blocks[a].next \in DOMAIN blocks \cup {0}
         /\ F[blocks[a].next] \in Int /\ U[blocks[a].next] \in Int
<1>1. blocks[a].next \in DOMAIN blocks \cup {0}
  BY DEF ListOK
<1> QED
  BY <1>1 DEF Sums

\* The successors on both sides of a block.
LEMMA NextOrder ==
  ASSUME ListOK, NEW a \in DOMAIN blocks, NEW x \in DOMAIN blocks
  PROVE  /\ blocks[x].next \in DOMAIN blocks \cup {0}
         /\ x < a => blocks[x].next # 0 /\ blocks[x].next <= a
         /\ ~(x < a) => blocks[x].next = 0 \/ blocks[x].next > a
<1>1. /\ x \in Nat \ {0} /\ a \in Nat \ {0} /\ blocks[x].next \in Nat
      /\ EndOf(x) \in Nat /\ x + HDR <= EndOf(x) /\ HDR \in Nat \ {0}
  BY HeaderFields
<1>2. /\ blocks[x].next # 0 => blocks[x].next \in DOMAIN blocks
                               /\ EndOf(x) <= blocks[x].next
      /\ x < a => blocks[x].next # 0 /\ blocks[x].next <= a
  BY DEF ListOK
<1> QED
  BY <1>1, <1>2

\* The sums decrease along the list.
LEMMA SumsDecrease ==
  ASSUME ListOK, NEW F, NEW U, Sums(F, U), NEW b \in DOMAIN blocks,
         NEW a \in DOMAIN blocks, a <= b
  PROVE  F[b] <= F[a] /\ U[b] <= U[a]
<1>1. b \in Nat /\ F[b] \in Int /\ U[b] \in Int
  BY SizeFacts, SumFacts
<1> DEFINE Good(x) == F[b] <= F[x] /\ U[b] <= U[x]
           T == {n \in Nat : \E x \in DOMAIN blocks : x <= b /\ n = b - x /\ ~Good(x)}
<1>2. SUFFICES ASSUME ~Good(a) PROVE FALSE
  OBVIOUS
<1>3. T \in SUBSET Nat
  OBVIOUS
<1>4. T # {}
  <2>1. a \in Nat
    BY SizeFacts
  <2>2. b - a \in Nat
    BY <2>1, <1>1
  <2>3. b - a \in T
    BY <2>2, <1>2
  <2> QED
    BY <2>3
<1>5. PICK n \in T : \A k \in T : n <= k
  <2> HIDE DEF T
  <2> QED
    BY <1>3, <1>4, NatMin
<1>6. PICK x \in DOMAIN blocks : x <= b /\ n = b - x /\ ~Good(x)
  BY <1>5
<1>7. /\ x \in Nat \ {0} /\ FreeSize(x) \in Nat /\ UsedSize(x) \in Nat
      /\ F[x] \in Int /\ U[x] \in Int
  BY SizeFacts, SumFacts
<1>8. x < b
  <2>1. x # b
    BY <1>1, <1>6
  <2> QED
    BY <2>1, <1>1, <1>6, <1>7
<1>9. PICK y : y = blocks[x].next
  OBVIOUS
<1>10. y \in DOMAIN blocks /\ y <= b /\ y > x /\ y \in Nat
  <2>1. y \in DOMAIN blocks /\ y <= b
    BY <1>8, <1>9, NextOrder
  <2>2. y > x
    <3>1. ~(x < x) /\ y # 0
      BY <2>1, <1>7, SizeFacts
    <3> QED
      BY <3>1, <1>9, NextOrder
  <2> QED
    BY <2>1, <2>2, SizeFacts
<1>11. Good(y)
  <2>1. b - y \in Nat /\ ~(n <= b - y)
    BY <1>1, <1>6, <1>7, <1>10
  <2>2. b - y \notin T
    BY <2>1, <1>5
  <2> QED
    BY <2>1, <2>2, <1>10
<1>12. F[x] = FreeSize(x) + F[y] /\ U[x] = UsedSize(x) + U[y]
       /\ F[y] \in Int /\ U[y] \in Int
  BY <1>9, SumFacts
<1> QED
  BY <1>1, <1>6, <1>7, <1>11, <1>12

\* No block has more bytes than the whole list.
LEMMA SumsBound ==
  ASSUME ListOK, StartOK, NEW F, NEW U, Sums(F, U), NEW a \in DOMAIN blocks
  PROVE  /\ heap_start \in DOMAIN blocks /\ heap_start <= a
         /\ F[heap_start] \in Nat /\ FreeSize(a) <= F[heap_start]
         /\ U[heap_start] \in Nat /\ UsedSize(a) <= U[heap_start]
<1>1. Last \in DOMAIN blocks /\ blocks[Last].next = 0 /\ \A x \in DOMAIN blocks : x <= Last
  BY LastBlock
<1>2. PICK z : z = Last
  OBVIOUS
<1>3. F[z] >= 0 /\ U[z] >= 0 /\ z \in DOMAIN blocks /\ F[z] \in Int /\ U[z] \in Int
  <2>1. F[z] = FreeSize(z) + F[0] /\ U[z] = UsedSize(z) + U[0]
    BY <1>1, <1>2, SumFacts
  <2>2. F[0] = 0 /\ U[0] = 0
    BY DEF Sums
  <2> QED
    BY <2>1, <2>2, <1>1, <1>2, SizeFacts
<1>4. ASSUME NEW x \in DOMAIN blocks \cup {0} PROVE F[x] \in Nat /\ U[x] \in Nat
  <2>1. CASE x = 0
    BY <2>1 DEF Sums
  <2>2. CASE x # 0
    <3>1. x \in DOMAIN blocks /\ x <= z
      BY <2>2, <1>1, <1>2
    <3>2. F[z] <= F[x] /\ U[z] <= U[x] /\ F[x] \in Int /\ U[x] \in Int
      BY <3>1, <1>3, SumsDecrease, SumFacts
    <3> QED
      BY <3>2, <1>3
  <2> QED
    BY <2>1, <2>2
<1>5. FreeSize(a) <= F[a] /\ UsedSize(a) <= U[a]
  <2>1. blocks[a].next \in DOMAIN blocks \cup {0} /\ FreeSize(a) \in Nat /\ UsedSize(a) \in Nat
        /\ F[a] = FreeSize(a) + F[blocks[a].next] /\ U[a] = UsedSize(a) + U[blocks[a].next]
    BY SizeFacts, SumFacts
  <2>2. F[blocks[a].next] \in Nat /\ U[blocks[a].next] \in Nat
    BY <2>1, <1>4
  <2> QED
    BY <2>1, <2>2
<1>6. heap_start \in DOMAIN blocks /\ heap_start <= a
  BY DEF StartOK
<1>7. F[a] <= F[heap_start] /\ U[a] <= U[heap_start]
  BY <1>6, SumsDecrease
<1>8. F[heap_start] \in Nat /\ U[heap_start] \in Nat /\ F[a] \in Nat /\ U[a] \in Nat
      /\ FreeSize(a) \in Nat /\ UsedSize(a) \in Nat
  BY <1>4, <1>6, SizeFacts
<1> QED
  BY <1>5, <1>6, <1>7, <1>8

\* The recursion of heap_get_free.
Totals(g) ==
  g = [a \in DOMAIN blocks \cup {0} |->
         IF a = 0 THEN 0
         ELSE (IF blocks[a].free THEN blocks[a].size ELSE 0) + g[blocks[a].next]]

\* heap_get_free returns the sum.
LEMMA FreeTotal ==
  ASSUME ListOK, StartOK, NEW F, NEW U, Sums(F, U)
  PROVE  heap_get_free = F[heap_start]
<1>1. Totals(F)
  <2>1. F = [a \in DOMAIN blocks \cup {0} |-> F[a]]
    BY DEF Sums
  <2>2. ASSUME NEW a \in DOMAIN blocks \cup {0}
        PROVE  F[a] = IF a = 0 THEN 0
                      ELSE (IF blocks[a].free THEN blocks[a].size ELSE 0)
                           + F[blocks[a].next]
    BY DEF Sums, FreeSize
  <2> QED
    BY <2>1, <2>2 DEF Totals
<1>2. PICK g : g = CHOOSE h : Totals(h)
  OBVIOUS
<1>3. Totals(g)
  BY <1>1, <1>2
<1>4. heap_get_free = g[heap_start]
  BY <1>2 DEF heap_get_free, Totals
<1>5. ASSUME NEW a \in DOMAIN blocks PROVE g[a] = FreeSize(a) + g[blocks[a].next]
  BY <1>3, SizeFacts DEF Totals, FreeSize
<1>6. g[0] = 0
  BY <1>3 DEF Totals
<1>7. CASE heap_start = 0
  BY <1>4, <1>6, <1>7 DEF Sums
<1>8. CASE heap_start # 0
  <2>1. PICK z \in DOMAIN blocks : \A x \in DOMAIN blocks : x <= z
    BY <1>8, LastBlock DEF StartOK
  <2>2. z \in Nat
    BY SizeFacts
  <2> DEFINE T == {n \in Nat : \E x \in DOMAIN blocks : n = z - x /\ g[x] # F[x]}
  <2>3. SUFFICES ASSUME g[heap_start] # F[heap_start] PROVE FALSE
    BY <1>4
  <2>4. T \in SUBSET Nat
    OBVIOUS
  <2>5. T # {}
    <3>1. heap_start \in DOMAIN blocks /\ heap_start <= z /\ heap_start \in Nat
      BY <1>8, <2>1, SizeFacts DEF StartOK
    <3>2. z - heap_start \in Nat
      BY <3>1, <2>2
    <3>3. z - heap_start \in T
      BY <3>1, <3>2, <2>3
    <3> QED
      BY <3>3
  <2>6. PICK n \in T : \A k \in T : n <= k
    <3> HIDE DEF T
    <3> QED
      BY <2>4, <2>5, NatMin
  <2>7. PICK x \in DOMAIN blocks : n = z - x /\ g[x] # F[x]
    BY <2>6
  <2>8. PICK y : y = blocks[x].next
    OBVIOUS
  <2>9. y \in DOMAIN blocks \cup {0} /\ (y # 0 => y > x) /\ x \in Nat
    <3>1. x \in Nat /\ ~(x < x)
      BY SizeFacts
    <3> QED
      BY <3>1, <2>8, NextOrder
  <2>10. g[y] = F[y]
    <3>1. CASE y = 0
      BY <3>1, <1>6 DEF Sums
    <3>2. CASE y # 0
      <4>1. y \in DOMAIN blocks /\ y \in Nat /\ y > x /\ y <= z
        BY <3>2, <2>1, <2>9, SizeFacts
      <4>2. z - y \in Nat /\ ~(n <= z - y)
        BY <4>1, <2>2, <2>7, <2>9
      <4>3. z - y \notin T
        BY <4>2, <2>6
      <4> QED
        BY <4>1, <4>2, <4>3
    <3> QED
      BY <3>1, <3>2
  <2>11. F[x] = FreeSize(x) + F[y] /\ g[x] = FreeSize(x) + g[y]
    BY <1>5, <2>8, SumFacts
  <2> QED
    BY <2>7, <2>10, <2>11
<1> QED
  BY <1>7, <1>8


\* A block is taken or given back as it is: the sums up to it change by its
\* size.
LEMMA FlagSums ==
  ASSUME ListOK, NEW F, NEW U, Sums(F, U), NEW a \in DOMAIN blocks, NEW d \in Int,
         DOMAIN blocks' = DOMAIN blocks,
         \A x \in DOMAIN blocks \ {a} : blocks'[x] = blocks[x],
         blocks'[a].next = blocks[a].next,
         FreeSize(a)' = FreeSize(a) + d, UsedSize(a)' = UsedSize(a) - d
  PROVE  \E f, u : /\ Sums(f, u)'
                   /\ \A x \in DOMAIN blocks :
                        x <= a => f[x] = F[x] + d /\ u[x] = U[x] - d
<1>1. /\ F \in [DOMAIN blocks \cup {0} -> Int] /\ U \in [DOMAIN blocks \cup {0} -> Int]
      /\ F[0] = 0 /\ U[0] = 0
  BY DEF Sums
<1>2. PICK f : f = [x \in DOMAIN blocks \cup {0} |->
                      IF x # 0 /\ x <= a THEN F[x] + d ELSE F[x]]
  OBVIOUS
<1>3. PICK u : u = [x \in DOMAIN blocks \cup {0} |->
                      IF x # 0 /\ x <= a THEN U[x] - d ELSE U[x]]
  OBVIOUS
<1>4. f \in [DOMAIN blocks \cup {0} -> Int] /\ u \in [DOMAIN blocks \cup {0} -> Int]
  BY <1>1, <1>2, <1>3
<1>5. f[0] = 0 /\ u[0] = 0
  BY <1>1, <1>2, <1>3
<1>6. \A x \in DOMAIN blocks : x \in Nat \ {0}
  BY SizeFacts
<1>7. /\ \A x \in DOMAIN blocks : x <= a => f[x] = F[x] + d /\ u[x] = U[x] - d
      /\ \A x \in DOMAIN blocks \cup {0} :
           (x = 0 \/ x > a) => f[x] = F[x] /\ u[x] = U[x]
  BY <1>2, <1>3, <1>6
<1>8. ASSUME NEW x \in DOMAIN blocks
      PROVE  /\ f[x] = FreeSize(x)' + f[blocks'[x].next]
             /\ u[x] = UsedSize(x)' + u[blocks'[x].next]
  <2>1. PICK y : y = blocks[x].next
    OBVIOUS
  <2>2. blocks'[x].next = y
    BY <2>1
  <2>3. /\ F[x] = FreeSize(x) + F[y] /\ U[x] = UsedSize(x) + U[y]
        /\ F[x] \in Int /\ U[x] \in Int /\ F[y] \in Int /\ U[y] \in Int
        /\ FreeSize(x) \in Nat /\ UsedSize(x) \in Nat /\ x \in Nat /\ a \in Nat
        /\ FreeSize(a) \in Nat /\ UsedSize(a) \in Nat
    BY <2>1, SumFacts, SizeFacts
  <2>4. CASE x < a
    <3>1. y \in DOMAIN blocks /\ y <= a
      BY <2>1, <2>4, NextOrder
    <3>2. FreeSize(x)' = FreeSize(x) /\ UsedSize(x)' = UsedSize(x)
      BY <2>3, <2>4 DEF FreeSize, UsedSize
    <3>3. f[x] = F[x] + d /\ u[x] = U[x] - d /\ f[y] = F[y] + d /\ u[y] = U[y] - d
      BY <2>3, <2>4, <3>1, <1>7
    <3> QED
      BY <2>2, <2>3, <3>2, <3>3
  <2>5. CASE ~(x < a)
    <3>1. y \in DOMAIN blocks \cup {0} /\ (y = 0 \/ y > a)
      BY <2>1, <2>5, NextOrder
    <3>2. f[y] = F[y] /\ u[y] = U[y]
      BY <3>1, <1>7
    <3>3. CASE x = a
      <4>1. f[x] = F[x] + d /\ u[x] = U[x] - d
        BY <3>3, <2>3, <1>7
      <4> QED
        BY <4>1, <2>2, <2>3, <3>2, <3>3
    <3>4. CASE x # a
      <4>1. FreeSize(x)' = FreeSize(x) /\ UsedSize(x)' = UsedSize(x)
        BY <3>4 DEF FreeSize, UsedSize
      <4>2. f[x] = F[x] /\ u[x] = U[x]
        BY <3>4, <2>3, <2>5, <1>7
      <4> QED
        BY <4>1, <4>2, <2>2, <2>3, <3>2
    <3> QED
      BY <3>3, <3>4
  <2> QED
    BY <2>4, <2>5
<1>9. Sums(f, u)'
  BY <1>4, <1>5, <1>8 DEF Sums
<1> QED
  BY <1>7, <1>9

\* A free block is split: want bytes are used, and the rest gets a header.
LEMMA SplitSums ==
  ASSUME ListOK, NEW F, NEW U, Sums(F, U), NEW a \in DOMAIN blocks,
         NEW w \in Nat, NEW r \in Nat, NEW h \in Nat, blocks[a].free,
         blocks[a].size = w + h + r,
         NEW n \in Nat, n > a, n \notin DOMAIN blocks,
         DOMAIN blocks' = DOMAIN blocks \cup {n},
         \A x \in DOMAIN blocks \ {a} : blocks'[x] = blocks[x],
         blocks'[a].next = n, blocks'[n].next = blocks[a].next,
         FreeSize(a)' = 0, UsedSize(a)' = w, FreeSize(n)' = r, UsedSize(n)' = 0
  PROVE  \E f, u : /\ Sums(f, u)'
                   /\ \A x \in DOMAIN blocks :
                        x <= a => f[x] = F[x] - w - h /\ u[x] = U[x] + w
<1>1. /\ F \in [DOMAIN blocks \cup {0} -> Int] /\ U \in [DOMAIN blocks \cup {0} -> Int]
      /\ F[0] = 0 /\ U[0] = 0
  BY DEF Sums
<1>2. PICK z : z = blocks[a].next
  OBVIOUS
<1>3. /\ F[a] = FreeSize(a) + F[z] /\ U[a] = UsedSize(a) + U[z]
      /\ F[z] \in Int /\ U[z] \in Int /\ F[a] \in Int /\ U[a] \in Int
      /\ FreeSize(a) = w + h + r /\ UsedSize(a) = 0
      /\ z \in DOMAIN blocks \cup {0} /\ (z = 0 \/ z > a) /\ a \in Nat \ {0}
  <2>1. a \in Nat \ {0} /\ ~(a < a)
    BY SizeFacts
  <2> QED
    BY <2>1, <1>2, SumFacts, SizeFacts, NextOrder
<1>4. PICK f : f = [x \in DOMAIN blocks \cup {n} \cup {0} |->
                      IF x = n THEN r + F[z]
                      ELSE IF x # 0 /\ x <= a THEN F[x] - w - h ELSE F[x]]
  OBVIOUS
<1>5. PICK u : u = [x \in DOMAIN blocks \cup {n} \cup {0} |->
                      IF x = n THEN U[z]
                      ELSE IF x # 0 /\ x <= a THEN U[x] + w ELSE U[x]]
  OBVIOUS
<1>6. /\ f \in [DOMAIN blocks \cup {n} \cup {0} -> Int]
      /\ u \in [DOMAIN blocks \cup {n} \cup {0} -> Int]
  BY <1>1, <1>3, <1>4, <1>5
<1>7. f[0] = 0 /\ u[0] = 0 /\ f[n] = r + F[z] /\ u[n] = U[z]
  BY <1>1, <1>3, <1>4, <1>5
<1>8. \A x \in DOMAIN blocks : x \in Nat \ {0}
  BY SizeFacts
<1>9. /\ \A x \in DOMAIN blocks : x <= a => f[x] = F[x] - w - h /\ u[x] = U[x] + w
      /\ \A x \in DOMAIN blocks \cup {0} :
           (x = 0 \/ x > a) => f[x] = F[x] /\ u[x] = U[x]
  BY <1>3, <1>4, <1>5, <1>8
<1>10. f[z] = F[z] /\ u[z] = U[z]
  BY <1>3, <1>9
<1>11. ASSUME NEW x \in DOMAIN blocks'
       PROVE  /\ f[x] = FreeSize(x)' + f[blocks'[x].next]
              /\ u[x] = UsedSize(x)' + u[blocks'[x].next]
  <2>1. CASE x = n
    BY <2>1, <1>2, <1>3, <1>7, <1>10
  <2>2. CASE x = a
    <3>1. f[a] = F[a] - w - h /\ u[a] = U[a] + w
      BY <1>3, <1>9
    <3> QED
      BY <3>1, <2>2, <1>3, <1>7
  <2>3. CASE x # n /\ x # a
    <3>1. x \in DOMAIN blocks /\ blocks'[x] = blocks[x]
      BY <2>3
    <3>2. PICK y : y = blocks[x].next
      OBVIOUS
    <3>3. FreeSize(x)' = FreeSize(x) /\ UsedSize(x)' = UsedSize(x)
      BY <3>1 DEF FreeSize, UsedSize
    <3>4. /\ F[x] = FreeSize(x) + F[y] /\ U[x] = UsedSize(x) + U[y]
          /\ F[x] \in Int /\ U[x] \in Int /\ F[y] \in Int /\ U[y] \in Int
          /\ FreeSize(x) \in Nat /\ UsedSize(x) \in Nat /\ x \in Nat \ {0}
      BY <3>1, <3>2, SumFacts, SizeFacts
    <3>5. CASE x < a
      <4>1. y \in DOMAIN blocks /\ y <= a
        BY <3>1, <3>2, <3>5, NextOrder
      <4>2. /\ f[x] = F[x] - w - h /\ u[x] = U[x] + w
            /\ f[y] = F[y] - w - h /\ u[y] = U[y] + w
        BY <4>1, <3>1, <3>4, <3>5, <1>3, <1>9
      <4> QED
        BY <4>2, <3>1, <3>2, <3>3, <3>4
    <3>6. CASE ~(x < a)
      <4>1. y \in DOMAIN blocks \cup {0} /\ (y = 0 \/ y > a)
        BY <3>1, <3>2, <3>6, NextOrder
      <4>2. f[x] = F[x] /\ u[x] = U[x] /\ f[y] = F[y] /\ u[y] = U[y]
        <5>1. x > a
          BY <3>4, <3>6, <2>3, <1>3
        <5> QED
          BY <5>1, <4>1, <3>1, <1>9
      <4> QED
        BY <4>2, <3>1, <3>2, <3>3, <3>4
    <3> QED
      BY <3>5, <3>6
  <2> QED
    BY <2>1, <2>2, <2>3
<1>12. Sums(f, u)'
  BY <1>6, <1>7, <1>11 DEF Sums
<1> QED
  BY <1>9, <1>12

\* A used block is freed and absorbs the free block behind it, header
\* included.
LEMMA JoinSums ==
  ASSUME ListOK, NEW F, NEW U, Sums(F, U), NEW a \in DOMAIN blocks,
         NEW b \in DOMAIN blocks, b = blocks[a].next, NEW h \in Nat,
         ~blocks[a].free, blocks[b].free,
         DOMAIN blocks' = DOMAIN blocks \ {b},
         \A x \in DOMAIN blocks \ {a, b} : blocks'[x] = blocks[x],
         blocks'[a].next = blocks[b].next,
         FreeSize(a)' = blocks[a].size + h + blocks[b].size, UsedSize(a)' = 0
  PROVE  \E f, u : /\ Sums(f, u)'
                   /\ \A x \in DOMAIN blocks :
                        x <= a => /\ f[x] = F[x] + blocks[a].size + h
                                  /\ u[x] = U[x] - blocks[a].size
<1>1. /\ F \in [DOMAIN blocks \cup {0} -> Int] /\ U \in [DOMAIN blocks \cup {0} -> Int]
      /\ F[0] = 0 /\ U[0] = 0
  BY DEF Sums
<1>2. PICK z, s, t : z = blocks[b].next /\ s = blocks[a].size /\ t = blocks[b].size
  OBVIOUS
<1>3. /\ F[a] = FreeSize(a) + F[b] /\ U[a] = UsedSize(a) + U[b]
      /\ F[b] = FreeSize(b) + F[z] /\ U[b] = UsedSize(b) + U[z]
      /\ F[z] \in Int /\ U[z] \in Int /\ F[a] \in Int /\ U[a] \in Int
      /\ F[b] \in Int /\ U[b] \in Int
      /\ z \in DOMAIN blocks \cup {0}
  BY <1>2, SumFacts
<1>4. /\ FreeSize(a) = 0 /\ UsedSize(a) = s /\ FreeSize(b) = t /\ UsedSize(b) = 0
      /\ s \in Nat /\ t \in Nat
  BY <1>2, SizeFacts, HeaderFields
<1>5. a \in Nat \ {0} /\ b \in Nat \ {0} /\ b > a
  <2>1. a \in Nat \ {0} /\ b \in Nat \ {0} /\ ~(a < a)
    BY SizeFacts
  <2> QED
    BY <2>1, NextOrder
<1>6. z = 0 \/ z > b
  <2>1. ~(b < b)
    BY <1>5
  <2> QED
    BY <2>1, <1>2, NextOrder
<1>7. \A x \in DOMAIN blocks : x \in Nat \ {0}
  BY SizeFacts
<1>8. PICK f : f = [x \in (DOMAIN blocks \ {b}) \cup {0} |->
                      IF x # 0 /\ x <= a THEN F[x] + s + h ELSE F[x]]
  OBVIOUS
<1>9. PICK u : u = [x \in (DOMAIN blocks \ {b}) \cup {0} |->
                      IF x # 0 /\ x <= a THEN U[x] - s ELSE U[x]]
  OBVIOUS
<1>10. /\ f \in [(DOMAIN blocks \ {b}) \cup {0} -> Int]
       /\ u \in [(DOMAIN blocks \ {b}) \cup {0} -> Int]
  BY <1>1, <1>4, <1>8, <1>9
<1>11. f[0] = 0 /\ u[0] = 0
  BY <1>1, <1>8, <1>9
<1>12. /\ \A x \in DOMAIN blocks : x <= a => f[x] = F[x] + s + h /\ u[x] = U[x] - s
       /\ \A x \in (DOMAIN blocks \ {b}) \cup {0} :
            (x = 0 \/ x > a) => f[x] = F[x] /\ u[x] = U[x]
  BY <1>5, <1>7, <1>8, <1>9
<1>13. f[z] = F[z] /\ u[z] = U[z]
  <2>1. z \in (DOMAIN blocks \ {b}) \cup {0} /\ (z = 0 \/ z > a)
    BY <1>3, <1>5, <1>6, <1>7
  <2> QED
    BY <2>1, <1>12
<1>14. ASSUME NEW x \in DOMAIN blocks'
       PROVE  /\ f[x] = FreeSize(x)' + f[blocks'[x].next]
              /\ u[x] = UsedSize(x)' + u[blocks'[x].next]
  <2>1. CASE x = a
    <3>1. f[a] = F[a] + s + h /\ u[a] = U[a] - s
      BY <1>5, <1>12
    <3>2. FreeSize(a)' = s + h + t
      BY <1>2
    <3> QED
      BY <3>1, <3>2, <2>1, <1>2, <1>3, <1>4, <1>13
  <2>2. CASE x # a
    <3>1. x \in DOMAIN blocks /\ x # b /\ blocks'[x] = blocks[x]
      BY <2>2
    <3>2. PICK y : y = blocks[x].next
      OBVIOUS
    <3>3. FreeSize(x)' = FreeSize(x) /\ UsedSize(x)' = UsedSize(x)
      BY <3>1 DEF FreeSize, UsedSize
    <3>4. /\ F[x] = FreeSize(x) + F[y] /\ U[x] = UsedSize(x) + U[y]
          /\ F[x] \in Int /\ U[x] \in Int /\ F[y] \in Int /\ U[y] \in Int
          /\ FreeSize(x) \in Nat /\ UsedSize(x) \in Nat /\ x \in Nat \ {0}
      BY <3>1, <3>2, SumFacts, SizeFacts
    <3>5. CASE x < a
      <4>1. y \in DOMAIN blocks /\ y <= a
        BY <3>1, <3>2, <3>5, NextOrder
      <4>2. /\ f[x] = F[x] + s + h /\ u[x] = U[x] - s
            /\ f[y] = F[y] + s + h /\ u[y] = U[y] - s
        BY <4>1, <3>1, <3>4, <3>5, <1>5, <1>12
      <4> QED
        BY <4>2, <3>1, <3>2, <3>3, <3>4, <1>4
    <3>6. CASE ~(x < a)
      <4>1. x > a
        BY <3>4, <3>6, <2>2, <1>5
      <4>2. b <= x
        BY <4>1, <3>1, <1>5 DEF ListOK
      <4>3. y \in DOMAIN blocks \cup {0} /\ (y = 0 \/ y > b)
        <5>1. ~(x < b)
          BY <4>2, <3>4, <1>5
        <5> QED
          BY <5>1, <3>1, <3>2, NextOrder
      <4>4. y \in (DOMAIN blocks \ {b}) \cup {0} /\ (y = 0 \/ y > a)
        BY <4>3, <1>5, <1>7
      <4>5. f[x] = F[x] /\ u[x] = U[x] /\ f[y] = F[y] /\ u[y] = U[y]
        BY <4>1, <4>4, <3>1, <1>12
      <4> QED
        BY <4>5, <3>1, <3>2, <3>3, <3>4
    <3> QED
      BY <3>5, <3>6
  <2> QED
    BY <2>1, <2>2
<1>15. Sums(f, u)'
  BY <1>10, <1>11, <1>14 DEF Sums
<1> QED
  BY <1>2, <1>12, <1>15

\* A free block of s bytes is appended: every sum of free bytes grows by s.
LEMMA AppendSums ==
  ASSUME ListOK, NEW F, NEW U, Sums(F, U), NEW z \in DOMAIN blocks,
         blocks[z].next = 0, NEW n \in Nat \ {0}, NEW s \in Nat,
         \A x \in DOMAIN blocks : x < n,
         DOMAIN blocks' = DOMAIN blocks \cup {n},
         \A x \in DOMAIN blocks \ {z} : blocks'[x] = blocks[x],
         blocks'[z].next = n, blocks'[n].next = 0,
         FreeSize(z)' = FreeSize(z), UsedSize(z)' = UsedSize(z),
         FreeSize(n)' = s, UsedSize(n)' = 0
  PROVE  \E f, u : /\ Sums(f, u)'
                   /\ \A x \in DOMAIN blocks : f[x] = F[x] + s /\ u[x] = U[x]
<1>1. /\ F \in [DOMAIN blocks \cup {0} -> Int] /\ U \in [DOMAIN blocks \cup {0} -> Int]
      /\ F[0] = 0 /\ U[0] = 0
  BY DEF Sums
<1>2. PICK f : f = [x \in DOMAIN blocks \cup {n} \cup {0} |->
                      IF x = 0 THEN 0 ELSE IF x = n THEN s ELSE F[x] + s]
  OBVIOUS
<1>3. PICK u : u = [x \in DOMAIN blocks \cup {n} \cup {0} |->
                      IF x = 0 \/ x = n THEN 0 ELSE U[x]]
  OBVIOUS
<1>4. \A x \in DOMAIN blocks : x \in Nat \ {0} /\ x # n
  BY SizeFacts
<1>5. /\ f \in [DOMAIN blocks \cup {n} \cup {0} -> Int]
      /\ u \in [DOMAIN blocks \cup {n} \cup {0} -> Int]
  BY <1>1, <1>2, <1>3
<1>6. f[0] = 0 /\ u[0] = 0 /\ f[n] = s /\ u[n] = 0
  BY <1>2, <1>3
<1>7. \A x \in DOMAIN blocks : f[x] = F[x] + s /\ u[x] = U[x]
  BY <1>2, <1>3, <1>4
<1>8. ASSUME NEW x \in DOMAIN blocks'
      PROVE  /\ f[x] = FreeSize(x)' + f[blocks'[x].next]
             /\ u[x] = UsedSize(x)' + u[blocks'[x].next]
  <2>1. CASE x = n
    BY <2>1, <1>6
  <2>2. CASE x = z
    <3>1. /\ F[z] = FreeSize(z) + F[0] /\ U[z] = UsedSize(z) + U[0]
          /\ FreeSize(z) \in Nat /\ UsedSize(z) \in Nat
      BY SumFacts, SizeFacts
    <3> QED
      BY <3>1, <2>2, <1>1, <1>6, <1>7
  <2>3. CASE x # n /\ x # z
    <3>1. x \in DOMAIN blocks /\ blocks'[x] = blocks[x]
      BY <2>3
    <3>2. PICK y : y = blocks[x].next
      OBVIOUS
    <3>3. FreeSize(x)' = FreeSize(x) /\ UsedSize(x)' = UsedSize(x)
      BY <3>1 DEF FreeSize, UsedSize
    <3>4. /\ F[x] = FreeSize(x) + F[y] /\ U[x] = UsedSize(x) + U[y]
          /\ F[y] \in Int /\ U[y] \in Int
          /\ FreeSize(x) \in Nat /\ UsedSize(x) \in Nat
      BY <3>1, <3>2, SumFacts, SizeFacts
    <3>5. y \in DOMAIN blocks
      <4>1. x \in Nat /\ z \in Nat
        BY <3>1, <1>4
      <4>2. ~(z < x)
        BY <3>1 DEF ListOK
      <4>3. x < z
        BY <4>1, <4>2, <2>3
      <4> QED
        BY <4>3, <3>1, <3>2, NextOrder
    <3> QED
      BY <3>1, <3>2, <3>3, <3>4, <3>5, <1>7
  <2> QED
    BY <2>1, <2>2, <2>3
<1>9. Sums(f, u)'
  BY <1>5, <1>6, <1>8 DEF Sums
<1> QED
  BY <1>7, <1>9

LEMMA OneMore ==
  ASSUME NEW d \in Nat, NEW c \in Nat
  PROVE  d * c \in Nat /\ d * (c + 1) = d * c + d
OBVIOUS

\* The bytes of the frames can be counted without wrapping around.
LEMMA WordBound ==
  ASSUME PoolOK, Bytes
  PROVE  /\ Cardinality(held) \in Nat /\ Cardinality(DOMAIN blocks) \in Nat
         /\ PAGE_SIZE * Cardinality(held) \in Nat
         /\ PAGE_SIZE * Cardinality(held) < WORD
<1>1. /\ IsFiniteSet(held) /\ IsFiniteSet(DOMAIN blocks)
      /\ held \subseteq Nat \ {0} /\ \A q \in held : q < MAPPED
  BY DEF Bytes, PoolOK
<1>2. Cardinality(held) \in Nat /\ Cardinality(DOMAIN blocks) \in Nat
  BY <1>1, FS_CardinalityType
<1>3. /\ PAGE_SIZE \in Nat \ {0} /\ HDR \in Nat /\ MIN_BLOCK_SIZE \in Nat
      /\ MAPPED \in Nat /\ WORD \in Nat
  BY HeapAssumption
<1>4. Cardinality(held) <= MAPPED
  <2>1. held \in SUBSET (1 .. MAPPED)
    BY <1>1, <1>3
  <2>2. IsFiniteSet(1 .. MAPPED) /\ Cardinality(1 .. MAPPED) <= MAPPED
    BY <1>3, FS_Interval
  <2>3. Cardinality(held) <= Cardinality(1 .. MAPPED)
    BY <2>1, <2>2, FS_Subset
  <2>4. Cardinality(1 .. MAPPED) \in Nat
    BY <2>2, FS_CardinalityType
  <2> QED
    BY <1>2, <1>3, <2>2, <2>3, <2>4
<1> DEFINE n == PAGE_SIZE * Cardinality(held)
           m == PAGE_SIZE * MAPPED
<1>5. n \in Nat /\ m \in Nat /\ n <= m /\ m = MAPPED * PAGE_SIZE
  BY <1>2, <1>3, <1>4, Products
<1>6. m + HDR + MIN_BLOCK_SIZE < WORD
  BY <1>5, WordAssumption
<1> HIDE DEF n, m
<1>7. n < WORD
  BY <1>3, <1>5, <1>6
<1> QED
  BY <1>2, <1>5, <1>7 DEF n

\* The count of used bytes does not wrap around: a free block is never larger
\* than what is left below 2^64, nor a block in use than what is counted.
LEMMA Room ==
  ASSUME IInv, Bytes, NEW F, NEW U, Sums(F, U), Balanced(F, U), NEW a \in DOMAIN blocks
  PROVE  /\ used \in Nat /\ FreeSize(a) + used < WORD /\ UsedSize(a) <= used
         /\ used < WORD /\ FreeSize(a) \in Nat /\ UsedSize(a) \in Nat
         /\ heap_start \in DOMAIN blocks /\ heap_start <= a
         /\ F[heap_start] \in Nat /\ U[heap_start] = used
<1>1. /\ heap_start \in DOMAIN blocks /\ heap_start <= a
      /\ F[heap_start] \in Nat /\ FreeSize(a) <= F[heap_start]
      /\ U[heap_start] \in Nat /\ UsedSize(a) <= U[heap_start]
  BY SumsBound DEF IInv
<1>2. FreeSize(a) \in Nat /\ UsedSize(a) \in Nat
  BY SizeFacts DEF IInv
<1>3. /\ U[heap_start] = used
      /\ F[heap_start] + used + HDR * Cardinality(DOMAIN blocks)
           = PAGE_SIZE * Cardinality(held)
  BY DEF Balanced
<1> DEFINE n == PAGE_SIZE * Cardinality(held)
           m == HDR * Cardinality(DOMAIN blocks)
<1>4. n \in Nat /\ n < WORD /\ m \in Nat
  <2>1. Cardinality(DOMAIN blocks) \in Nat /\ HDR \in Nat
    BY WordBound, HeapAssumption DEF IInv
  <2> QED
    BY <2>1, WordBound, OneMore DEF IInv
<1>5. F[heap_start] + used + m = n
  BY <1>3
<1> HIDE DEF n, m
<1>6. WORD \in Nat
  BY HeapAssumption
<1>7. FreeSize(a) + used < WORD /\ used < WORD
  BY <1>1, <1>2, <1>3, <1>4, <1>5, <1>6
<1> QED
  BY <1>1, <1>2, <1>3, <1>7

\* kmalloc takes the block at a.
LEMMA TakenBytes ==
  ASSUME IInv, Bytes, NEW a \in DOMAIN blocks, Suits(blocks[a]), blocks' = TakeBlock(a),
         used' = Add(used, blocks'[a].size), UNCHANGED <<held, heap_start>>
  PROVE  Bytes'
<1>1. PICK F, U : Sums(F, U) /\ Balanced(F, U)
  BY DEF Bytes
<1>2. /\ used \in Nat /\ FreeSize(a) + used < WORD
      /\ FreeSize(a) \in Nat /\ heap_start \in DOMAIN blocks /\ heap_start <= a
      /\ F[heap_start] \in Nat /\ U[heap_start] = used
  BY <1>1, Room
<1>3. /\ a \in Nat \ {0} /\ blocks[a] \in Header /\ blocks[a].size \in Nat
      /\ blocks[a].next \in Nat
      /\ HDR \in Nat \ {0} /\ want \in Nat /\ MIN_BLOCK_SIZE \in Nat /\ WORD \in Nat
      /\ FreeSize(a) = blocks[a].size /\ UsedSize(a) = 0
  BY HeaderFields, SizeFacts, HeapAssumption DEF IInv, KmallocOK, Suits
<1>4. /\ IsFiniteSet(DOMAIN blocks) /\ IsFiniteSet(held) /\ \A q \in held' : q < MAPPED
      /\ IsFiniteSet(held')
  BY DEF Bytes
<1>5. PICK c, p : c = Cardinality(DOMAIN blocks) /\ p = PAGE_SIZE * Cardinality(held)
  OBVIOUS
<1>6. c \in Nat /\ p \in Nat /\ HDR * c \in Nat /\ HDR * (c + 1) = HDR * c + HDR
  <2>1. c \in Nat /\ p \in Nat
    BY <1>5, WordBound DEF IInv
  <2> QED
    BY <2>1, <1>3, OneMore
<1>7. F[heap_start] + used + HDR * c = p
  BY <1>1, <1>5 DEF Balanced
<1>8. CASE CanSplit(blocks[a])
  <2>0. PICK n, r : n = a + HDR + want /\ r = blocks[a].size - want - HDR
    OBVIOUS
  <2>1. want <= blocks[a].size
    BY <1>3 DEF Suits
  <2>2. blocks[a].size >= want + HDR + MIN_BLOCK_SIZE
    BY <1>8, <2>1, SuitsNoWrap DEF CanSplit
  <2>3. /\ r \in Nat /\ n \in Nat \ {0} /\ n > a /\ blocks[a].size = want + HDR + r
        /\ n < EndOf(a) /\ EndOf(a) \in Nat
    BY <1>3, <2>0, <2>2 DEF EndOf
  <2>4. n \notin DOMAIN blocks
    <3> SUFFICES ASSUME n \in DOMAIN blocks PROVE FALSE
      OBVIOUS
    <3>1. blocks[a].next # 0 /\ blocks[a].next <= n /\ EndOf(a) <= blocks[a].next
      BY <2>3 DEF IInv, ListOK
    <3> QED
      BY <1>3, <2>3, <3>1
  <2>5. /\ DOMAIN blocks' = DOMAIN blocks \cup {n}
        /\ IsNewHeader(blocks'[n], r, blocks[a].next)
        /\ IsSplitHeader(blocks'[a], blocks[a], want, n)
        /\ \A x \in DOMAIN blocks \ {a} : blocks'[x] = blocks[x]
    <3>1. blocks' = [x \in DOMAIN blocks \cup {n} |->
           IF x = n
           THEN [size |-> r, free |-> TRUE, next |-> blocks[a].next, magic |-> TRUE]
           ELSE IF x = a
           THEN [blocks[a] EXCEPT !.size = want, !.free = FALSE, !.next = n]
           ELSE blocks[x]]
      BY <1>8, <2>0 DEF TakeBlock, Split
    <3>2. a # n
      BY <1>3, <2>3
    <3> QED
      BY <2>4, <3>1, <3>2 DEF IsNewHeader, IsSplitHeader
  <2>6. /\ blocks'[n].size = r /\ blocks'[n].next = blocks[a].next /\ blocks'[n].free
    <3> DEFINE k == blocks'[n]
               y == blocks[a].next
    <3>1. r \in Nat /\ y \in Nat /\ IsNewHeader(k, r, y)
      BY <1>3, <2>3, <2>5
    <3> HIDE DEF k, y
    <3>2. k.size = r /\ k.next = y /\ k.free
      BY ONLY <3>1, NewHeader
    <3> QED
      BY <3>2 DEF k, y
  <2>7. /\ blocks'[a].size = want /\ blocks'[a].next = n /\ ~blocks'[a].free
    <3> DEFINE k == blocks'[a]
               b == blocks[a]
               w == want
    <3>1. b \in Header /\ w \in Nat /\ n \in Nat /\ IsSplitHeader(k, b, w, n)
      BY <1>3, <2>3, <2>5
    <3> HIDE DEF k, b, w
    <3>2. k.size = w /\ k.next = n /\ ~k.free
      BY ONLY <3>1, SplitHeader
    <3> QED
      BY <3>2 DEF k, w
  <2>8. FreeSize(a)' = 0 /\ UsedSize(a)' = want /\ FreeSize(n)' = r /\ UsedSize(n)' = 0
    BY <2>6, <2>7 DEF FreeSize, UsedSize
  <2>9. PICK f, u : /\ Sums(f, u)'
                    /\ \A x \in DOMAIN blocks :
                         x <= a => f[x] = F[x] - want - HDR /\ u[x] = U[x] + want
    <3>1. PICK w, h : w = want /\ h = HDR
      OBVIOUS
    <3>2. /\ ListOK /\ Sums(F, U) /\ a \in DOMAIN blocks
          /\ w \in Nat /\ r \in Nat /\ h \in Nat /\ blocks[a].free
          /\ blocks[a].size = w + h + r
          /\ n \in Nat /\ n > a /\ n \notin DOMAIN blocks
      BY <3>1, <1>1, <1>3, <2>3, <2>4 DEF IInv, Suits
    <3>3. /\ DOMAIN blocks' = DOMAIN blocks \cup {n}
          /\ \A x \in DOMAIN blocks \ {a} : blocks'[x] = blocks[x]
          /\ blocks'[a].next = n /\ blocks'[n].next = blocks[a].next
          /\ FreeSize(a)' = 0 /\ UsedSize(a)' = w /\ FreeSize(n)' = r /\ UsedSize(n)' = 0
      BY <3>1, <2>5, <2>6, <2>7, <2>8
    <3>4. \E f, u : /\ Sums(f, u)'
                    /\ \A x \in DOMAIN blocks :
                         x <= a => f[x] = F[x] - w - h /\ u[x] = U[x] + w
      BY ONLY <3>2, <3>3, SplitSums
    <3> QED
      BY <3>1, <3>4
  <2>10. f[heap_start] = F[heap_start] - want - HDR /\ u[heap_start] = used + want
    BY <1>2, <2>9
  <2>11. used' = used + want
    <3>1. used + want < WORD
      BY <1>2, <1>3, <2>1
    <3>2. (used + want) % WORD = used + want
      BY <1>2, <1>3, <3>1
    <3> QED
      BY <2>7, <3>2 DEF Add
  <2>12. IsFiniteSet(DOMAIN blocks') /\ Cardinality(DOMAIN blocks') = c + 1
    BY <1>4, <1>5, <2>4, <2>5, FS_AddElement
  <2>13. f[heap_start] + used' + HDR * (c + 1) = p
    BY <1>2, <1>3, <1>6, <1>7, <2>10, <2>11
  <2>14. Balanced(f, u)'
    BY <1>5, <2>10, <2>11, <2>12, <2>13 DEF Balanced
  <2> QED
    BY <1>4, <2>9, <2>12, <2>14 DEF Bytes
<1>9. CASE ~CanSplit(blocks[a])
  <2>1. PICK s \in Nat : s = blocks[a].size
    BY <1>3
  <2>2. /\ DOMAIN blocks' = DOMAIN blocks
        /\ \A x \in DOMAIN blocks \ {a} : blocks'[x] = blocks[x]
        /\ IsUseHeader(blocks'[a], blocks[a])
    <3>1. blocks' = [blocks EXCEPT ![a].free = FALSE]
      BY <1>9 DEF TakeBlock
    <3> QED
      BY <3>1 DEF IsUseHeader
  <2>3. /\ blocks'[a].size = s /\ blocks'[a].next = blocks[a].next /\ ~blocks'[a].free
    BY <1>3, <2>1, <2>2, UseHeader
  <2>4. /\ -s \in Int /\ FreeSize(a)' = FreeSize(a) + (-s)
        /\ UsedSize(a)' = UsedSize(a) - (-s)
    <3>1. FreeSize(a)' = 0 /\ UsedSize(a)' = s
      BY <2>3 DEF FreeSize, UsedSize
    <3> QED
      BY <1>3, <2>1, <3>1
  <2>5. PICK f, u : /\ Sums(f, u)'
                    /\ \A x \in DOMAIN blocks :
                         x <= a => f[x] = F[x] + (-s) /\ u[x] = U[x] - (-s)
    <3>1. ListOK
      BY DEF IInv
    <3> DEFINE d == -s
    <3>2. d \in Int /\ FreeSize(a)' = FreeSize(a) + d /\ UsedSize(a)' = UsedSize(a) - d
      BY <2>4
    <3> HIDE DEF d
    <3>3. \E f, u : /\ Sums(f, u)'
                    /\ \A x \in DOMAIN blocks :
                         x <= a => f[x] = F[x] + d /\ u[x] = U[x] - d
      BY <3>1, <3>2, <1>1, <2>2, <2>3, FlagSums
    <3> QED
      BY <3>3 DEF d
  <2>6. f[heap_start] = F[heap_start] - s /\ u[heap_start] = used + s
    BY <1>2, <2>1, <2>5
  <2>7. used' = used + s
    <3>1. used + s < WORD
      BY <1>2, <1>3, <2>1
    <3>2. (used + s) % WORD = used + s
      BY <1>2, <1>3, <3>1
    <3> QED
      BY <2>3, <3>2 DEF Add
  <2>8. f[heap_start] + used' + HDR * c = p
    BY <1>2, <1>6, <1>7, <2>6, <2>7
  <2>9. Balanced(f, u)'
    BY <1>5, <2>2, <2>6, <2>7, <2>8 DEF Balanced
  <2> QED
    BY <1>4, <2>2, <2>5, <2>9 DEF Bytes
<1> QED
  BY <1>8, <1>9

\* kfree gives the block at a back.
LEMMA FreedBytes ==
  ASSUME IInv, Bytes, NEW a \in DOMAIN blocks, ~blocks[a].free, blocks' = FreeBlock(a),
         used' = (used + WORD - blocks[a].size) % WORD, UNCHANGED <<held, heap_start>>
  PROVE  Bytes'
<1>1. PICK F, U : Sums(F, U) /\ Balanced(F, U)
  BY DEF Bytes
<1>2. /\ used \in Nat /\ UsedSize(a) <= used /\ used < WORD
      /\ heap_start \in DOMAIN blocks /\ heap_start <= a
      /\ F[heap_start] \in Nat /\ U[heap_start] = used
  BY <1>1, Room
<1>3. PICK s \in Nat : s = blocks[a].size
  BY HeaderFields DEF IInv
<1>4. /\ a \in Nat \ {0} /\ blocks[a] \in Header /\ blocks[a].next \in Nat
      /\ HDR \in Nat \ {0} /\ WORD \in Nat
      /\ FreeSize(a) = 0 /\ UsedSize(a) = s
  BY <1>3, HeaderFields, SizeFacts, HeapAssumption DEF IInv
<1>5. /\ IsFiniteSet(DOMAIN blocks) /\ IsFiniteSet(held) /\ \A q \in held' : q < MAPPED
      /\ IsFiniteSet(held')
  BY DEF Bytes
<1>6. PICK c, p : c = Cardinality(DOMAIN blocks) /\ p = PAGE_SIZE * Cardinality(held)
  OBVIOUS
<1>7. c \in Nat /\ p \in Nat /\ HDR * c \in Nat
  <2>1. c \in Nat /\ p \in Nat
    BY <1>6, WordBound DEF IInv
  <2> QED
    BY <2>1, <1>4, OneMore
<1>8. F[heap_start] + used + HDR * c = p
  BY <1>1, <1>6 DEF Balanced
<1>9. used' = used - s
  <2>1. PICK v : v = used - s
    OBVIOUS
  <2>2. v \in Nat /\ v < WORD
    BY <2>1, <1>2, <1>3, <1>4
  <2>3. used + WORD - s = v + WORD
    BY <2>1, <1>2, <1>3, <1>4
  <2>4. (v + WORD) % WORD = v
    BY <2>2, <1>4
  <2>5. used' = (used + WORD - s) % WORD
    BY <1>3
  <2> QED
    BY <2>1, <2>3, <2>4, <2>5
<1>10. CASE CanJoin(blocks[a])
  <2>1. PICK b, z, t : b = blocks[a].next /\ z = blocks[b].next /\ t = blocks[b].size
    OBVIOUS
  <2>2. b \in DOMAIN blocks /\ blocks[b].free /\ b # 0
    BY <1>10, <2>1 DEF CanJoin, IInv, ListOK
  <2>3. b \in Nat \ {0} /\ t \in Nat /\ z \in Nat /\ EndOf(a) \in Nat /\ a < b
    <3>1. /\ b \in Nat \ {0} /\ t \in Nat /\ z \in Nat /\ EndOf(a) \in Nat
          /\ a + HDR <= EndOf(a)
      BY <2>1, <2>2, HeaderFields DEF IInv
    <3>2. EndOf(a) <= b
      BY <2>1, <2>2 DEF IInv, ListOK
    <3> QED
      BY <3>1, <3>2, <1>4
  <2>4. PICK m \in Nat : m = s + HDR + t
    BY <1>3, <1>4, <2>3
  <2>5. /\ DOMAIN blocks' = DOMAIN blocks \ {b}
        /\ IsJoinHeader(blocks'[a], blocks[a], m, z)
        /\ \A x \in DOMAIN blocks \ {a, b} : blocks'[x] = blocks[x]
    <3>1. blocks' = [x \in DOMAIN blocks \ {b} |->
            IF x = a THEN [blocks[a] EXCEPT !.size = m, !.free = TRUE, !.next = z]
            ELSE blocks[x]]
      BY <1>3, <1>10, <2>1, <2>4 DEF FreeBlock, Join
    <3>2. a # b
      BY <1>4, <2>3
    <3> QED
      BY <3>1, <3>2 DEF IsJoinHeader
  <2>6. blocks'[a].size = m /\ blocks'[a].next = z /\ blocks'[a].free
    <3> DEFINE k == blocks'[a]
               o == blocks[a]
    <3>1. o \in Header /\ m \in Nat /\ z \in Nat /\ IsJoinHeader(k, o, m, z)
      BY <1>4, <2>3, <2>5
    <3> HIDE DEF k, o
    <3>2. k.size = m /\ k.next = z /\ k.free
      BY ONLY <3>1, JoinHeader
    <3> QED
      BY <3>2 DEF k
  <2>7. FreeSize(a)' = m /\ UsedSize(a)' = 0
    BY <2>6 DEF FreeSize, UsedSize
  <2>8. PICK f, u : /\ Sums(f, u)'
                    /\ \A x \in DOMAIN blocks :
                         x <= a => f[x] = F[x] + s + HDR /\ u[x] = U[x] - s
    <3>1. PICK h : h = HDR
      OBVIOUS
    <3>2. /\ ListOK /\ Sums(F, U) /\ a \in DOMAIN blocks /\ b \in DOMAIN blocks
          /\ b = blocks[a].next /\ h \in Nat /\ ~blocks[a].free /\ blocks[b].free
      BY <3>1, <1>1, <1>4, <2>1, <2>2 DEF IInv
    <3>3. /\ DOMAIN blocks' = DOMAIN blocks \ {b}
          /\ \A x \in DOMAIN blocks \ {a, b} : blocks'[x] = blocks[x]
          /\ blocks'[a].next = blocks[b].next
          /\ FreeSize(a)' = blocks[a].size + h + blocks[b].size /\ UsedSize(a)' = 0
      BY <3>1, <1>3, <2>1, <2>4, <2>5, <2>6, <2>7
    <3>4. \E f, u : /\ Sums(f, u)'
                    /\ \A x \in DOMAIN blocks :
                         x <= a => /\ f[x] = F[x] + blocks[a].size + h
                                   /\ u[x] = U[x] - blocks[a].size
      BY ONLY <3>2, <3>3, JoinSums
    <3> QED
      BY <3>1, <3>4, <1>3
  <2>9. f[heap_start] = F[heap_start] + s + HDR /\ u[heap_start] = used - s
    BY <1>2, <2>8
  <2>10. IsFiniteSet(DOMAIN blocks') /\ Cardinality(DOMAIN blocks') = c - 1
    BY <1>5, <1>6, <2>2, <2>5, FS_RemoveElement
  <2>11. HDR * (c - 1) = HDR * c - HDR
    BY <1>4, <1>7
  <2>12. f[heap_start] + used' + HDR * (c - 1) = p
    BY <1>2, <1>3, <1>4, <1>7, <1>8, <1>9, <2>9, <2>11
  <2>13. Balanced(f, u)'
    BY <1>6, <1>9, <2>9, <2>10, <2>12 DEF Balanced
  <2> QED
    BY <1>5, <2>8, <2>10, <2>13 DEF Bytes
<1>11. CASE ~CanJoin(blocks[a])
  <2>1. /\ DOMAIN blocks' = DOMAIN blocks
        /\ \A x \in DOMAIN blocks \ {a} : blocks'[x] = blocks[x]
        /\ IsFreeHeader(blocks'[a], blocks[a])
    <3>1. blocks' = [blocks EXCEPT ![a].free = TRUE]
      BY <1>11 DEF FreeBlock
    <3> QED
      BY <3>1 DEF IsFreeHeader
  <2>2. blocks'[a].size = s /\ blocks'[a].next = blocks[a].next /\ blocks'[a].free
    <3> DEFINE k == blocks'[a]
               o == blocks[a]
    <3>1. o \in Header /\ IsFreeHeader(k, o)
      BY <1>4, <2>1
    <3> HIDE DEF k, o
    <3>2. k.size = o.size /\ k.next = o.next /\ k.free
      BY ONLY <3>1, FreeHeader
    <3> QED
      BY <3>2, <1>3 DEF k, o
  <2>3. s \in Int /\ FreeSize(a)' = FreeSize(a) + s /\ UsedSize(a)' = UsedSize(a) - s
    <3>1. FreeSize(a)' = s /\ UsedSize(a)' = 0
      BY <2>2 DEF FreeSize, UsedSize
    <3> QED
      BY <1>3, <1>4, <3>1
  <2>4. PICK f, u : /\ Sums(f, u)'
                    /\ \A x \in DOMAIN blocks :
                         x <= a => f[x] = F[x] + s /\ u[x] = U[x] - s
    <3>1. ListOK /\ Sums(F, U) /\ a \in DOMAIN blocks
      BY <1>1 DEF IInv
    <3> QED
      BY ONLY <3>1, <2>1, <2>2, <2>3, FlagSums
  <2>5. f[heap_start] = F[heap_start] + s /\ u[heap_start] = used - s
    BY <1>2, <2>4
  <2>6. f[heap_start] + used' + HDR * c = p
    BY <1>2, <1>3, <1>7, <1>8, <1>9, <2>5
  <2>7. Balanced(f, u)'
    BY <1>6, <1>9, <2>1, <2>5, <2>6 DEF Balanced
  <2> QED
    BY <1>5, <2>1, <2>4, <2>7 DEF Bytes
<1> QED
  BY <1>10, <1>11

\* expand_heap appends the frame q.
LEMMA ExpandBytes ==
  ASSUME IInv, Bytes, heap_start # 0, NEW q \in free, Take(q), q < MAPPED,
         blocks' = [x \in DOMAIN blocks \cup {q * PAGE_SIZE} |->
                      IF x = q * PAGE_SIZE THEN PageBlock
                      ELSE IF x = Last THEN [blocks[x] EXCEPT !.next = q * PAGE_SIZE]
                      ELSE blocks[x]],
         UNCHANGED <<heap_start, live, used>>
  PROVE  Bytes'
<1>1. PICK F, U : Sums(F, U) /\ Balanced(F, U)
  BY DEF Bytes
<1>2. /\ DOMAIN blocks \subseteq DOMAIN blocks'
      /\ \A x \in DOMAIN blocks : /\ blocks'[x].size = blocks[x].size
                                  /\ blocks'[x].free = blocks[x].free
      /\ \A x \in DOMAIN blocks' \ DOMAIN blocks :
           blocks'[x].size = PAGE_SIZE - HDR /\ blocks'[x].free
      /\ DOMAIN blocks' \ DOMAIN blocks = {q * PAGE_SIZE}
      /\ ListOK'
  BY AppendStep
<1>3. PICK n, z, s : n = q * PAGE_SIZE /\ z = Last /\ s = PAGE_SIZE - HDR
  OBVIOUS
<1>4. /\ PAGE_SIZE \in Nat \ {0} /\ HDR \in Nat \ {0} /\ HDR < PAGE_SIZE /\ s \in Nat
      /\ s + HDR = PAGE_SIZE
  BY <1>3, HeapAssumption
<1>5. /\ heap_start \in DOMAIN blocks /\ z \in DOMAIN blocks /\ blocks[z].next = 0
      /\ \A x \in DOMAIN blocks : x <= z
  BY <1>3, LastBlock DEF IInv, StartOK
<1>6. DOMAIN blocks' = DOMAIN blocks \cup {n} /\ n \notin DOMAIN blocks
  BY <1>2, <1>3
<1>7. n # z
  BY <1>5, <1>6
<1>8. /\ n \in Nat \ {0} /\ n \in DOMAIN blocks'
      /\ blocks'[n] = PageBlock
      /\ IsLinkHeader(blocks'[z], blocks[z], n)
      /\ \A x \in DOMAIN blocks \ {z} : blocks'[x] = blocks[x]
  <2>1. blocks' = [x \in DOMAIN blocks \cup {n} |->
                      IF x = n THEN PageBlock
                      ELSE IF x = z THEN [blocks[x] EXCEPT !.next = n]
                      ELSE blocks[x]]
    BY <1>3
  <2>2. n \in Nat \ {0}
    BY <1>2, <1>6 DEF ListOK
  <2> QED
    BY <1>5, <1>6, <1>7, <2>1, <2>2 DEF IsLinkHeader
<1>9. blocks'[n].next = 0
  BY <1>8 DEF PageBlock
<1>10. blocks'[z].next = n
  <2> DEFINE k == blocks'[z]
             o == blocks[z]
  <2>1. o \in Header /\ n \in Nat /\ IsLinkHeader(k, o, n)
    BY <1>5, <1>8, HeaderFields DEF IInv
  <2> HIDE DEF k, o
  <2>2. k.next = n
    BY ONLY <2>1, LinkHeader
  <2> QED
    BY <2>2 DEF k
<1>11. blocks'[n].size = s /\ blocks'[n].free
  BY <1>2, <1>3, <1>6
<1>12. /\ FreeSize(z)' = FreeSize(z) /\ UsedSize(z)' = UsedSize(z)
  BY <1>2, <1>5 DEF FreeSize, UsedSize
<1>13. FreeSize(n)' = s /\ UsedSize(n)' = 0
  BY <1>11 DEF FreeSize, UsedSize
<1>14. \A x \in DOMAIN blocks : x < n
  <2> TAKE x \in DOMAIN blocks
  <2>1. x \in Nat /\ z \in Nat /\ x <= z
    BY <1>5, HeaderFields DEF IInv
  <2>2. EndOf(z)' <= n /\ EndOf(z)' \in Nat /\ z + HDR <= EndOf(z)'
    <3>1. z \in DOMAIN blocks' /\ EndOf(z)' <= n
      BY <1>5, <1>6, <1>8, <1>10, <1>2 DEF ListOK
    <3>2. EndOf(z)' = z + HDR + blocks[z].size
      BY <1>2, <1>5 DEF EndOf
    <3>3. blocks[z].size \in Nat
      BY <1>5, HeaderFields DEF IInv
    <3> QED
      BY <3>1, <3>2, <3>3, <2>1, <1>4
  <2> QED
    BY <2>1, <2>2, <1>4, <1>8
<1>15. PICK f, u : /\ Sums(f, u)'
                   /\ \A x \in DOMAIN blocks : f[x] = F[x] + s /\ u[x] = U[x]
  <2>1. ListOK /\ Sums(F, U)
    BY <1>1 DEF IInv
  <2>2. /\ z \in DOMAIN blocks /\ blocks[z].next = 0 /\ n \in Nat \ {0} /\ s \in Nat
        /\ DOMAIN blocks' = DOMAIN blocks \cup {n}
        /\ \A x \in DOMAIN blocks \ {z} : blocks'[x] = blocks[x]
    BY <1>4, <1>5, <1>6, <1>8
  <2> QED
    BY ONLY <2>1, <2>2, <1>9, <1>10, <1>12, <1>13, <1>14, AppendSums
<1>16. /\ f[heap_start] = F[heap_start] + s /\ u[heap_start] = U[heap_start]
       /\ F[heap_start] \in Int /\ U[heap_start] = used /\ used \in Nat
  BY <1>1, <1>5, <1>15, Room
<1>17. /\ IsFiniteSet(DOMAIN blocks) /\ IsFiniteSet(held) /\ \A r \in held : r < MAPPED
  BY DEF Bytes
<1>18. held' = held \cup {q} /\ q \notin held
  <2>1. \A r \in held : r \in Nat /\ r < q
    BY TakeStep DEF IInv
  <2>2. held' = held \cup {q}
    BY DEF Take
  <2> QED
    BY <2>1, <2>2
<1>19. PICK c, e : c = Cardinality(DOMAIN blocks) /\ e = Cardinality(held)
  OBVIOUS
<1>20. /\ c \in Nat /\ e \in Nat
       /\ HDR * c \in Nat /\ HDR * (c + 1) = HDR * c + HDR
       /\ PAGE_SIZE * e \in Nat /\ PAGE_SIZE * (e + 1) = PAGE_SIZE * e + PAGE_SIZE
  <2>1. c \in Nat /\ e \in Nat
    BY <1>19, WordBound DEF IInv
  <2> QED
    BY <2>1, <1>4, OneMore
<1>21. IsFiniteSet(DOMAIN blocks') /\ Cardinality(DOMAIN blocks') = c + 1
  BY <1>6, <1>17, <1>19, FS_AddElement
<1>22. IsFiniteSet(held') /\ Cardinality(held') = e + 1
  BY <1>17, <1>18, <1>19, FS_AddElement
<1>23. F[heap_start] + used + HDR * c = PAGE_SIZE * e
  BY <1>1, <1>19 DEF Balanced
<1>24. f[heap_start] + used + HDR * (c + 1) = PAGE_SIZE * (e + 1)
  BY <1>4, <1>16, <1>20, <1>23
<1>25. Balanced(f, u)'
  BY <1>16, <1>21, <1>22, <1>24 DEF Balanced
<1> QED
  BY <1>15, <1>17, <1>18, <1>21, <1>22, <1>25 DEF Bytes

\* A heap without blocks.
LEMMA EmptyBytes ==
  ASSUME blocks = << >>, held = {}, heap_start = 0, used = 0
  PROVE  Bytes
<1>1. DOMAIN blocks = {}
  OBVIOUS
<1>2. /\ IsFiniteSet(DOMAIN blocks) /\ IsFiniteSet(held)
      /\ Cardinality(DOMAIN blocks) = 0 /\ Cardinality(held) = 0
  BY <1>1, FS_EmptySet
<1>3. PICK F : F = [x \in {0} |-> 0]
  OBVIOUS
<1>4. Sums(F, F)
  BY <1>1, <1>3 DEF Sums
<1>5. Balanced(F, F)
  <2>1. F[0] = 0
    BY <1>3
  <2>2. HDR * 0 = 0 /\ PAGE_SIZE * 0 = 0
    BY HeapAssumption
  <2> QED
    BY <1>2, <2>1, <2>2 DEF Balanced
<1> QED
  BY <1>2, <1>4, <1>5 DEF Bytes

\* heap_init makes the frame q the first block.
LEMMA FirstBytes ==
  ASSUME IInv, hpc = "boot", used = 0, NEW q \in free, Take(q), q < MAPPED,
         heap_start' = q * PAGE_SIZE, blocks' = [a \in {q * PAGE_SIZE} |-> PageBlock],
         used' = used
  PROVE  Bytes'
<1>1. held = {} /\ held' = {q}
  BY DEF IInv, KmallocOK, Take
<1>2. PICK n, s : n = q * PAGE_SIZE /\ s = PAGE_SIZE - HDR
  OBVIOUS
<1>3. PAGE_SIZE \in Nat \ {0} /\ HDR \in Nat \ {0} /\ s \in Nat /\ s + HDR = PAGE_SIZE
  BY <1>2, HeapAssumption
<1>4. n \in Nat \ {0}
  <2>1. q \in Nat \ {0}
    BY DEF IInv, PoolOK
  <2>2. PAGE_SIZE * 0 + PAGE_SIZE <= PAGE_SIZE * q /\ PAGE_SIZE * q = n /\ n \in Nat
    BY <2>1, <1>2, <1>3, Products
  <2> QED
    BY <2>2, <1>3
<1>5. DOMAIN blocks' = {n} /\ blocks'[n] = PageBlock /\ heap_start' = n
  BY <1>2
<1>6. blocks'[n].size = s /\ blocks'[n].next = 0 /\ blocks'[n].free
  BY <1>2, <1>5 DEF PageBlock
<1>7. FreeSize(n)' = s /\ UsedSize(n)' = 0
  BY <1>6 DEF FreeSize, UsedSize
<1>8. /\ IsFiniteSet(DOMAIN blocks') /\ IsFiniteSet(held')
      /\ Cardinality(DOMAIN blocks') = 1 /\ Cardinality(held') = 1
  BY <1>1, <1>5, FS_Singleton
<1>9. PICK F, U : /\ F = [x \in {n} \cup {0} |-> IF x = 0 THEN 0 ELSE s]
                  /\ U = [x \in {n} \cup {0} |-> 0]
  OBVIOUS
<1>10. /\ F[0] = 0 /\ U[0] = 0 /\ F[n] = s /\ U[n] = 0
       /\ F \in [{n} \cup {0} -> Int] /\ U \in [{n} \cup {0} -> Int]
  BY <1>3, <1>4, <1>9
<1>11. Sums(F, U)'
  BY <1>3, <1>5, <1>6, <1>7, <1>10 DEF Sums
<1>12. Balanced(F, U)'
  <2>1. HDR * 1 = HDR /\ PAGE_SIZE * 1 = PAGE_SIZE
    BY <1>3
  <2> QED
    BY <1>3, <1>5, <1>8, <1>10, <2>1 DEF Balanced
<1> QED
  BY <1>1, <1>8, <1>11, <1>12 DEF Bytes

\* A step that leaves the list, the frames and the counter alone.
LEMMA SameBytes ==
  ASSUME Bytes, UNCHANGED <<blocks, heap_start, used, held>>
  PROVE  Bytes'
BY DEF Bytes, Sums, Balanced, FreeSize, UsedSize

LEMMA BytesStep == IInv /\ BytesOK /\ [Next]_vars => BytesOK'
<1> SUFFICES ASSUME IInv, BytesOK, [Next]_vars, hpc' # "halted" PROVE Bytes'
  BY DEF BytesOK
<1>1. ASSUME hpc # "halted", UNCHANGED <<blocks, heap_start, used, held>> PROVE Bytes'
  BY <1>1, SameBytes DEF BytesOK
<1>2. CASE heap_init
  <2>1. hpc = "boot" /\ Bytes
    BY <1>2 DEF heap_init, BytesOK
  <2>2. used = 0
    <3>1. PICK F, U : Sums(F, U) /\ Balanced(F, U)
      BY <2>1 DEF Bytes
    <3>2. heap_start = 0
      BY <2>1 DEF IInv, KmallocOK
    <3> QED
      BY <3>1, <3>2 DEF Sums, Balanced
  <2>3. CASE free = {} /\ UNCHANGED <<poolVars, heap_start, blocks, used>>
    BY <1>1, <2>1, <2>3 DEF poolVars
  <2>4. CASE \E q \in free : /\ Take(q) /\ q < MAPPED /\ heap_start' = q * PAGE_SIZE
                             /\ blocks' = [a \in {q * PAGE_SIZE} |-> PageBlock]
                             /\ used' = used
    BY <2>1, <2>2, <2>4, FirstBytes
  <2> QED
    BY <1>2, <2>3, <2>4 DEF heap_init, PageFault
<1>3. CASE Search
  <2>1. /\ hpc = "search" /\ Bytes /\ current \in DOMAIN blocks
        /\ UNCHANGED <<held, heap_start>>
    BY <1>3 DEF Search, BytesOK, IInv, KmallocOK, poolVars
  <2>2. blocks[current].magic = TRUE
    BY <2>1, HeaderFields DEF IInv
  <2>3. CASE Suits(blocks[current])
    <3>1. PICK a \in DOMAIN blocks : a = current
      BY <2>1
    <3>2. blocks' = TakeBlock(a) /\ used' = Add(used, blocks'[a].size)
      BY <1>3, <2>2, <2>3, <3>1 DEF Search
    <3>3. Suits(blocks[a])
      BY <2>3, <3>1
    <3> QED
      BY <2>1, <3>2, <3>3, TakenBytes
  <2>4. CASE ~Suits(blocks[current])
    BY <1>1, <1>3, <2>1, <2>2, <2>4 DEF Search
  <2> QED
    BY <2>3, <2>4
<1>4. CASE ExpandPage
  <2>1. hpc = "expand" /\ heap_start # 0 /\ Bytes
    BY <1>4 DEF ExpandPage, BytesOK, IInv, KmallocOK
  <2>2. PICK q \in free :
          /\ Take(q) /\ q < MAPPED
          /\ blocks' = [x \in DOMAIN blocks \cup {q * PAGE_SIZE} |->
                          IF x = q * PAGE_SIZE THEN PageBlock
                          ELSE IF x = Last THEN [blocks[x] EXCEPT !.next = q * PAGE_SIZE]
                          ELSE blocks[x]]
          /\ UNCHANGED <<heap_start, live, used>>
    BY <1>4 DEF ExpandPage, PageFault
  <2> QED
    BY <2>1, <2>2, ExpandBytes
<1>5. ASSUME NEW ptr \in DOMAIN live \cup {0}, kfree(ptr) PROVE Bytes'
  <2>1. hpc = "idle" /\ Bytes /\ UNCHANGED <<held, heap_start>>
    BY <1>5 DEF kfree, BytesOK, poolVars
  <2>2. CASE UNCHANGED <<blocks, used>>
    BY <1>1, <2>1, <2>2
  <2>3. CASE /\ ptr # 0
             /\ blocks' = FreeBlock(ptr - HDR)
             /\ used' = (used + WORD - blocks[ptr - HDR].size) % WORD
    <3>1. PICK a \in DOMAIN blocks : a = ptr - HDR /\ ~blocks[a].free
      BY <2>3 DEF IInv, LiveOK
    <3> QED
      BY <2>1, <2>3, <3>1, FreedBytes
  <2> QED
    BY <1>5, <2>2, <2>3 DEF kfree
<1>6. CASE SearchFailed \/ ExpandFailed \/ ExpandDone
  BY <1>1, <1>6 DEF SearchFailed, ExpandFailed, ExpandDone, poolVars
<1>7. ASSUME NEW n \in Requests, kmalloc(n) PROVE Bytes'
  BY <1>1, <1>7 DEF kmalloc, poolVars
<1>8. ASSUME NEW ptr \in DOMAIN live, ClientStore(ptr) PROVE Bytes'
  BY <1>1, <1>8, ClientStoreKeeps DEF ClientStore, poolVars
<1>9. CASE UNCHANGED vars
  BY <1>1, <1>9 DEF vars, poolVars, heapVars
<1> QED
  BY <1>2, <1>3, <1>4, <1>5, <1>6, <1>7, <1>8, <1>9 DEF Next, HeapStep

\* Every byte is accounted for: what heap_get_free adds up along the list,
\* what heap_get_used has counted and the headers are together the frames
\* the heap has taken, through splits, coalescing and failed expansions: the
\* count of used bytes never wraps around.
THEOREM EveryByteCounted == Spec => []BytesConserved
<1>1. Init => BytesOK
  BY EmptyBytes DEF Init, BytesOK
<1>2. IInv /\ BytesOK => BytesConserved
  <2> SUFFICES ASSUME IInv, BytesOK, hpc \in {"idle", "search", "expand"}
               PROVE  heap_get_free + heap_get_used + HDR * Cardinality(DOMAIN blocks)
                        = PAGE_SIZE * Cardinality(held)
    BY DEF BytesConserved
  <2>1. PICK F, U : Sums(F, U) /\ Balanced(F, U)
    BY DEF BytesOK, Bytes
  <2>2. heap_get_free = F[heap_start]
    BY <2>1, FreeTotal DEF IInv
  <2> QED
    BY <2>1, <2>2 DEF Balanced, heap_get_used
<1> QED
  BY <1>1, <1>2, BytesStep, Invariant, PTL DEF Spec

=============================================================================
