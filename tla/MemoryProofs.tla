---------------------------- MODULE MemoryProofs ----------------------------
(***************************************************************************)
(* The shadow memory follows the input, for every layout of the address    *)
(* space, every page size and every sequence of system calls and moves:    *)
(* each mapped page has a shadow page of its own, a cell never names a     *)
(* byte of the input that is not there, and none is lost, except in the    *)
(* cases that the code leaves open (doubts).                               *)
(***************************************************************************)
EXTENDS Memory, FiniteSetTheorems, WellFoundedInduction, TLAPS

(* Nothing keeps a shadow page but the page table and the heap. *)
Lean(s, heap) == \A x \in DOMAIN s.cells : x[1] = heap[1] \/ \E p \in Page : s.table[p] = x

(* Pages of one block are as far apart as their shadow pages: freeing n      *)
(* shadow pages from the first on frees those of the n pages and no other.   *)
Aligned(s) ==
    \A p, q \in Page : s.table[p][1] # 0 /\ s.table[p][1] = s.table[q][1] =>
        s.table[p][2] - s.table[q][2] = p - q

Backed(s, pages) == \A p \in pages \ {VdsoPage} : s.table[p] \in DOMAIN s.cells

(* The heap's block is its pages' and no other's, and ends where it ends. *)
HeapInv(s, heap, end) ==
    /\ end \in HeapStart..(HeapStart + HeapPages)
    /\ heap[1] = 0 <=> end = HeapStart
    /\ \A p \in HeapStart..(end - 1) : s.table[p] = <<heap[1], p - HeapStart>>
    /\ \A p \in Page : heap[1] # 0 /\ s.table[p][1] = heap[1] => p \in HeapStart..(end - 1)
    /\ \A x \in DOMAIN s.cells : x[1] = heap[1] => x[2] < end - HeapStart

Sound(s, heap, end, pages) ==
    /\ Backed(s, pages) /\ Aligned(s) /\ HeapInv(s, heap, end)
    /\ pages \cap HeapPage = HeapStart..(end - 1)

PageInv == doubts \cap PageDoubts = {} => running /\ Sound(shadow, brkPage, brkEnd, mapped)

(* The tracked descriptors are those of one description, the offset of which *)
(* is off_.                                                                  *)
OffsetInv ==
    doubts \cap OffsetDoubts = {} =>
        /\ \A f \in fdSet : files[f] \in Description /\ pos[files[f]] = off
        /\ \A f, g \in fdSet : files[f] = files[g]
        /\ \A f \in Fd, g \in fdSet : files[f] = files[g] => f \in fdSet
        /\ fdSet = {} => off = 0

(* Every descriptor of the input is tracked. *)
TrackedInv == doubts = {} => \A f \in Fd : files[f] \in Description => f \in fdSet

IInv ==
    /\ TypeOK /\ Lean(shadow, brkPage)
    /\ PageInv /\ OffsetInv /\ TrackedInv
    /\ ShadowIsInput /\ InputIsTracked

-----------------------------------------------------------------------------
(* Addresses, and least and greatest elements *)

(* An address is its page and its offset. *)
LEMMA PageFacts ==
    ASSUME NEW a \in Int
    PROVE  /\ PageOf(a) \in Int /\ OffsetOf(a) \in Offset
           /\ a = PageOf(a) * PageSize + OffsetOf(a)
BY SizeAssumption DEF PageOf, OffsetOf, Offset

(* A page and an offset are those of the address they make. *)
LEMMA PageOfSum ==
    ASSUME NEW q \in Int, NEW r \in Offset
    PROVE  PageOf(q * PageSize + r) = q /\ OffsetOf(q * PageSize + r) = r
BY SizeAssumption DEF PageOf, OffsetOf, Offset

(* The first address of a page is at offset 0. *)
LEMMA PageOfStart == ASSUME NEW q \in Int PROVE PageOf(q * PageSize) = q /\ OffsetOf(q * PageSize) = 0
<1>1. 0 \in Offset /\ q * PageSize = q * PageSize + 0
  BY SizeAssumption DEF Offset
<1> QED BY <1>1, PageOfSum

(* Page and offset determine the address. *)
LEMMA SameAddress ==
    ASSUME NEW a \in Int, NEW c \in Int, PageOf(a) = PageOf(c), OffsetOf(a) = OffsetOf(c)
    PROVE  a = c
BY PageFacts

(* A later address is on no earlier page. *)
LEMMA PageMonotone ==
    ASSUME NEW a \in Int, NEW c \in Int, a <= c
    PROVE  PageOf(a) <= PageOf(c)
<1> SUFFICES ASSUME PageOf(a) >= PageOf(c) + 1 PROVE FALSE
  BY PageFacts
<1>1. PageOf(a) * PageSize >= PageOf(c) * PageSize + PageSize
  <2>1. \A x, y, z \in Int : x >= y + 1 /\ z > 0 => x * z >= y * z + z
    OBVIOUS
  <2> QED BY <2>1, PageFacts, SizeAssumption
<1>2. OffsetOf(c) < PageSize /\ OffsetOf(a) >= 0
  BY PageFacts, SizeAssumption DEF Offset
<1> QED BY <1>1, <1>2, PageFacts, SizeAssumption DEF Offset

(* An address of the program is on a page of the address space. *)
LEMMA AddrFacts == \A a \in Addr : a \in Nat /\ PageOf(a) \in Page /\ OffsetOf(a) \in Offset
<1> SUFFICES ASSUME NEW p \in Page, NEW o \in Offset
             PROVE  LET a == p * PageSize + o
                    IN  a \in Nat /\ PageOf(a) \in Page /\ OffsetOf(a) \in Offset
  BY DEF Addr
<1>1. p \in Nat /\ o \in Nat /\ PageSize \in Nat
  BY SpaceAssumption, SizeAssumption DEF Offset
<1>2. p * PageSize + o \in Nat
  BY <1>1
<1> QED BY <1>1, <1>2, PageOfSum

(* Every byte of a page is an address. *)
LEMMA InAddr == ASSUME NEW a \in Int, PageOf(a) \in Page PROVE a \in Addr
BY PageFacts DEF Addr

(* Bytes(pages) are the addresses on those pages. *)
LEMMA BytesFacts ==
    ASSUME NEW pages, NEW a
    PROVE  a \in Bytes(pages) <=> a \in Addr /\ PageOf(a) \in pages
BY DEF Bytes

(* The pages of a mapping of size bytes at the start of page p *)
LEMMA PageUpFacts ==
    ASSUME NEW p \in Int, NEW size \in Nat \ {0}
    PROVE  /\ PageUp(size) \in Nat \ {0}
           /\ PageOf(p * PageSize + size - 1) = p + PageUp(size) - 1
           /\ size <= PageUp(size) * PageSize
<1> DEFINE k == PageOf(size - 1)
<1> DEFINE r == OffsetOf(size - 1)
<1>1. k \in Int /\ r \in Offset /\ size - 1 = k * PageSize + r
  BY PageFacts
<1>2. size + PageSize - 1 = (k + 1) * PageSize + r
  BY <1>1, SizeAssumption DEF Offset
<1>3. PageUp(size) = k + 1
  BY <1>1, <1>2, PageOfSum DEF PageUp
<1>4. p * PageSize + size - 1 = (p + k) * PageSize + r
  BY <1>1, SizeAssumption DEF Offset
<1>5. PageOf(p * PageSize + size - 1) = p + k
  BY <1>1, <1>4, PageOfSum
<1>6. k >= 0
  <2>1. PageOf(0) = 0
    BY PageOfStart, SizeAssumption
  <2> QED BY <2>1, PageMonotone
<1>7. size <= (k + 1) * PageSize
  BY <1>1, SizeAssumption DEF Offset
<1> HIDE DEF k, r
<1> QED BY <1>1, <1>3, <1>5, <1>6, <1>7

(* A set of naturals has a least element. *)
LEMMA LeastNat ==
    ASSUME NEW S, S \subseteq Nat, S # {}
    PROVE  \E m \in S : \A k \in S : m <= k
<1>1. \E m \in S : \A k \in S : ~(<<k, m>> \in OpToRel(<, Nat))
  BY WFMin, NatLessThanWellFounded
<1>2. PICK m \in S : \A k \in S : ~(<<k, m>> \in OpToRel(<, Nat))
  BY <1>1
<1>3. \A k \in S : ~(k < m)
  BY <1>2 DEF OpToRel
<1> QED BY <1>3

(* Min is an element. *)
LEMMA MinInSet == ASSUME NEW S, S \subseteq Nat, S # {} PROVE Min(S) \in S
BY LeastNat DEF Min

(* Max is an element, and no element is above it. *)
LEMMA MaxInSet ==
    ASSUME NEW S, S \subseteq Nat, S # {}, NEW top \in Nat, \A x \in S : x <= top
    PROVE  Max(S) \in S
<1> DEFINE T == {t \in Nat : top - t \in S}
<1>1. T # {}
  <2>1. PICK x \in S : TRUE
    OBVIOUS
  <2>2. top - x \in Nat /\ top - (top - x) = x
    BY <2>1
  <2> QED BY <2>2
<1>2. PICK t \in T : \A k \in T : t <= k
  BY <1>1, LeastNat
<1>3. \A x \in S : top - x \in T /\ top - x \in Nat
  <2> TAKE x \in S
  <2>1. top - x \in Nat /\ top - (top - x) = x
    OBVIOUS
  <2> QED BY <2>1
<1>4. top - t \in S /\ \A x \in S : top - t >= x
  BY <1>2, <1>3
<1> QED BY <1>4 DEF Max

(* The greatest of one. *)
LEMMA MaxOfOne == ASSUME NEW a \in Int PROVE Max({a}) = a
BY DEF Max

-----------------------------------------------------------------------------
(* Shadow pages *)

(* What the type of a shadow says of its entries. *)
LEMMA ShadowFacts ==
    ASSUME NEW s, IsShadow(s)
    PROVE  /\ \A p \in Page : s.table[p] \in Nat \X Nat /\ s.table[p][1] \in Nat /\ s.table[p][2] \in Nat
           /\ \A x \in DOMAIN s.cells : x \in Nat \X Nat /\ x[1] \in Nat \ {0} /\ x[2] \in Nat
BY DEF IsShadow

(* A page that keeps its pointer and its shadow page keeps its cells. *)
LEMMA SameCell ==
    ASSUME NEW s, NEW t, NEW a \in Addr,
           t.table[PageOf(a)] = s.table[PageOf(a)],
           s.table[PageOf(a)] \in DOMAIN t.cells <=> s.table[PageOf(a)] \in DOMAIN s.cells,
           s.table[PageOf(a)] \in DOMAIN s.cells =>
               t.cells[s.table[PageOf(a)]] = s.cells[s.table[PageOf(a)]]
    PROVE  Cell(t, a) = Cell(s, a)
BY DEF Cell

(* There is a block for each allocation, as only those in use are kept. *)
LEMMA FreshBlock ==
    ASSUME NEW s, IsShadow(s), NEW heap, Lean(s, heap)
    PROVE  /\ Fresh(s) \in Nat \ {0}
           /\ \A p \in Page : s.table[p][1] # Fresh(s)
           /\ \A x \in DOMAIN s.cells : x[1] # Fresh(s)
<1> DEFINE F == [p \in Page |-> s.table[p][1]]
<1> DEFINE T == {s.table[p][1] : p \in Page}
<1> DEFINE N == Cardinality(Page)
<1>1. IsFiniteSet(T) /\ Cardinality(T) <= N
  <2>1. F \in Surjection(Page, T)
    BY DEF Surjection
  <2> QED BY <2>1, FS_Surjection, SpaceAssumption
<1>2. N \in Nat /\ Cardinality(T) \in Nat
  BY <1>1, FS_CardinalityType, SpaceAssumption
<1>3. IsFiniteSet(T \cup {heap[1]}) /\ Cardinality(T \cup {heap[1]}) <= N + 1
  <2> HIDE DEF T, N
  <2>1. /\ IsFiniteSet(T \cup {heap[1]})
        /\ Cardinality(T \cup {heap[1]}) = IF heap[1] \in T THEN Cardinality(T) ELSE Cardinality(T) + 1
    BY <1>1, FS_AddElement
  <2> QED BY <1>1, <1>2, <2>1
<1>4. \E b \in 1..(N + 2) : b \notin T \cup {heap[1]}
  <2> SUFFICES ASSUME 1..(N + 2) \subseteq T \cup {heap[1]} PROVE FALSE
    OBVIOUS
  <2> HIDE DEF T, N
  <2>1. Cardinality(1..(N + 2)) <= Cardinality(T \cup {heap[1]})
    BY <1>3, FS_Subset
  <2>2. Cardinality(1..(N + 2)) = N + 2
    BY <1>2, FS_Interval
  <2>3. Cardinality(T \cup {heap[1]}) \in Nat
    BY <1>3, FS_CardinalityType
  <2> QED BY <1>2, <1>3, <2>1, <2>2, <2>3
<1>5. {x[1] : x \in DOMAIN s.cells} \subseteq T \cup {heap[1]}
  BY DEF Lean
<1>6. Fresh(s) \in 1..(N + 2) /\ Fresh(s) \notin T \cup {x[1] : x \in DOMAIN s.cells}
  BY <1>4, <1>5 DEF Fresh
<1>7. Fresh(s) \in Nat \ {0}
  BY <1>2, <1>6
<1> QED BY <1>6, <1>7

(* Dropping the shadow pages that nothing points to changes no cell. *)
LEMMA InUseFacts ==
    ASSUME NEW s, IsShadow(s), NEW heap
    PROVE  /\ IsShadow(InUse(s, heap)) /\ Lean(InUse(s, heap), heap)
           /\ \A end, pages : pages \subseteq Page /\ Sound(s, heap, end, pages) =>
                  Sound(InUse(s, heap), heap, end, pages)
           /\ \A a \in Addr : Cell(InUse(s, heap), a) = Cell(s, a)
<1> DEFINE t == InUse(s, heap)
<1>1. /\ t.table = s.table
      /\ DOMAIN t.cells = {x \in DOMAIN s.cells : x[1] = heap[1] \/ \E p \in Page : s.table[p] = x}
      /\ \A x \in DOMAIN t.cells : t.cells[x] = s.cells[x]
  BY DEF InUse
<1>2. \A p \in Page : s.table[p] \in DOMAIN t.cells <=> s.table[p] \in DOMAIN s.cells
  BY <1>1
<1> HIDE DEF t
<1>3. IsShadow(t)
  BY <1>1 DEF IsShadow
<1>4. Lean(t, heap)
  BY <1>1 DEF Lean
<1>5. ASSUME NEW end, NEW pages, pages \subseteq Page, Sound(s, heap, end, pages)
      PROVE  Sound(t, heap, end, pages)
  <2>1. Backed(t, pages)
    BY <1>1, <1>2, <1>5 DEF Sound, Backed
  <2>2. Aligned(t)
    BY <1>1, <1>5 DEF Sound, Aligned
  <2>3. HeapInv(t, heap, end)
    BY <1>1, <1>5 DEF Sound, HeapInv
  <2> QED BY <1>5, <2>1, <2>2, <2>3 DEF Sound
<1>6. ASSUME NEW a \in Addr PROVE Cell(t, a) = Cell(s, a)
  BY <1>1, <1>2, AddrFacts, SameCell
<1> QED BY <1>3, <1>4, <1>5, <1>6 DEF t

(* Memory::mmap: the pages of the range get an empty shadow page each, the others keep theirs. *)
LEMMA MmapFacts ==
    ASSUME NEW s, IsShadow(s), NEW heap, Lean(s, heap), NEW start \in Int, NEW end \in Int
    PROVE  LET t == Mmap(s, start, end)
               range == PageOf(start)..PageOf(end)
           IN  /\ IsShadow(t)
               /\ \A p \in Page \cap range : t.table[p] \in DOMAIN t.cells
               /\ \A a \in Addr : Cell(t, a) = IF PageOf(a) \in range THEN None ELSE Cell(s, a)
               /\ \A e, pages, new :
                    /\ Sound(s, heap, e, pages) /\ range \cap HeapPage = {}
                    /\ new \subseteq Page /\ new \subseteq pages \cup range
                    /\ new \cap HeapPage = pages \cap HeapPage
                    => Sound(t, heap, e, new)
<1> DEFINE t == Mmap(s, start, end)
<1> DEFINE b == Fresh(s)
<1> DEFINE first == PageOf(start)
<1> DEFINE last == PageOf(end)
<1>1. /\ b \in Nat \ {0}
      /\ \A p \in Page : s.table[p][1] # b
      /\ \A x \in DOMAIN s.cells : x[1] # b
  BY FreshBlock
<1>2. first \in Int /\ last \in Int
  BY PageFacts
<1>3. /\ t.table = [p \in Page |-> IF p \in first..last THEN <<b, p - first>> ELSE s.table[p]]
      /\ DOMAIN t.cells = DOMAIN s.cells \cup {<<b, j>> : j \in 0..(last - first)}
      /\ \A x \in DOMAIN s.cells : t.cells[x] = s.cells[x]
      /\ \A x \in DOMAIN t.cells \ DOMAIN s.cells : t.cells[x] = Blank
  <2> DEFINE n == last - first + 1
  <2>1. /\ t.table = [p \in Page |-> IF p \in first..last THEN <<b, p - first>> ELSE s.table[p]]
        /\ t.cells = Joined(s.cells, BlockOf(b, n, Blank))
    BY DEF Mmap
  <2> HIDE DEF t, b, first, last
  <2>2. n - 1 = last - first
    BY <1>2
  <2> HIDE DEF n
  <2>3. BlockOf(b, n, Blank) = [x \in {<<b, j>> : j \in 0..(last - first)} |-> Blank]
    BY <2>2 DEF BlockOf
  <2> QED BY <2>1, <2>3 DEF Joined
<1> HIDE DEF t, b, first, last
<1>4. \A p \in Page \cap (first..last) : p \in Int /\ t.table[p] = <<b, p - first>> /\ p - first \in 0..(last - first)
  BY <1>2, <1>3, SpaceAssumption
<1>5. \A p \in Page \ (first..last) : t.table[p] = s.table[p]
  BY <1>3
<1>6. \A p \in Page \cap (first..last) : t.table[p] \in DOMAIN t.cells /\ t.table[p] \notin DOMAIN s.cells
  BY <1>1, <1>3, <1>4
<1>7. \A p \in Page \ (first..last) : s.table[p] \in DOMAIN t.cells <=> s.table[p] \in DOMAIN s.cells
  BY <1>1, <1>3
<1>8. IsShadow(t)
  <2>1. t.table \in [Page -> Nat \X Nat]
    <3>1. \A p \in Page : t.table[p] \in Nat \X Nat
      BY <1>1, <1>4, <1>5, ShadowFacts
    <3> QED BY <1>3, <3>1
  <2>2. DOMAIN t.cells \subseteq (Nat \ {0}) \X Nat
    BY <1>1, <1>2, <1>3 DEF IsShadow
  <2>3. Blank \in [Offset -> Int]
    BY DEF Blank, None
  <2> QED BY <1>3, <2>1, <2>2, <2>3 DEF IsShadow
<1>9. ASSUME NEW a \in Addr
      PROVE  Cell(t, a) = IF PageOf(a) \in first..last THEN None ELSE Cell(s, a)
  <2>1. CASE PageOf(a) \in first..last
    BY <1>3, <1>6, <2>1, AddrFacts DEF Cell, Blank
  <2>2. CASE PageOf(a) \notin first..last
    BY <1>3, <1>5, <1>7, <2>2, AddrFacts, SameCell
  <2> QED BY <2>1, <2>2
<1>10. ASSUME NEW e, NEW pages, NEW new, Sound(s, heap, e, pages), (first..last) \cap HeapPage = {},
              new \subseteq Page, new \subseteq pages \cup first..last,
              new \cap HeapPage = pages \cap HeapPage
       PROVE  Sound(t, heap, e, new)
  <2>1. Backed(t, new)
    BY <1>5, <1>6, <1>7, <1>10 DEF Sound, Backed
  <2>2. Aligned(t)
    <3> SUFFICES ASSUME NEW p \in Page, NEW q \in Page, t.table[p][1] # 0, t.table[p][1] = t.table[q][1]
                 PROVE  t.table[p][2] - t.table[q][2] = p - q
      BY DEF Aligned
    <3>1. CASE p \in first..last /\ q \in first..last
      BY <1>2, <1>4, <3>1
    <3>2. CASE p \notin first..last /\ q \notin first..last
      BY <1>5, <1>10, <3>2 DEF Sound, Aligned
    <3>3. CASE (p \in first..last) # (q \in first..last)
      BY <1>1, <1>4, <1>5, <3>3
    <3> QED BY <3>1, <3>2, <3>3
  <2>3. HeapInv(t, heap, e)
    <3>1. HeapInv(s, heap, e)
      BY <1>10 DEF Sound
    <3>2. e \in Int /\ HeapStart \in Int /\ HeapStart..(e - 1) \subseteq HeapPage
      BY <3>1, SpaceAssumption DEF HeapInv, HeapPage
    <3>3. \A p \in HeapStart..(e - 1) : p \in Page \ (first..last)
      BY <1>10, <3>2, SpaceAssumption
    <3>4. heap[1] # 0 => heap[1] # b
      <4>1. heap[1] # 0 => HeapStart \in HeapStart..(e - 1)
        BY <3>1, <3>2 DEF HeapInv
      <4>2. heap[1] # 0 => HeapStart \in Page /\ s.table[HeapStart][1] = heap[1]
        BY <3>1, <3>3, <4>1 DEF HeapInv
      <4> QED BY <1>1, <4>2
    <3>5. b # heap[1]
      BY <1>1, <3>4
    <3>6. \A p \in HeapStart..(e - 1) : t.table[p] = <<heap[1], p - HeapStart>>
      BY <1>5, <3>1, <3>3 DEF HeapInv
    <3>7. \A p \in Page : heap[1] # 0 /\ t.table[p][1] = heap[1] => p \in HeapStart..(e - 1)
      BY <1>4, <1>5, <3>1, <3>5 DEF HeapInv
    <3>8. \A x \in DOMAIN t.cells : x[1] = heap[1] => x \in DOMAIN s.cells
      BY <1>3, <3>5
    <3>9. \A x \in DOMAIN t.cells : x[1] = heap[1] => x[2] < e - HeapStart
      BY <3>1, <3>8 DEF HeapInv
    <3> QED BY <3>1, <3>6, <3>7, <3>9 DEF HeapInv
  <2> QED BY <1>10, <2>1, <2>2, <2>3 DEF Sound
<1> QED BY <1>6, <1>8, <1>9, <1>10 DEF t, first, last

(* setExprToMem stores the cells given and no other. *)
LEMMA StoredFacts ==
    ASSUME NEW s, IsShadow(s), NEW vals, DOMAIN vals \subseteq Addr,
           NEW top \in Nat, \A a \in DOMAIN vals : a <= top /\ vals[a] \in Int
    PROVE  LET t == Stored(s, vals)
           IN  /\ IsShadow(t)
               /\ \A heap, end, pages : Sound(s, heap, end, pages) => Sound(t, heap, end, pages)
               /\ /\ Aligned(s)
                  /\ \A a \in DOMAIN vals : s.table[PageOf(a)] \in DOMAIN s.cells
                  => \A a \in Addr : Cell(t, a) = IF a \in DOMAIN vals THEN vals[a] ELSE Cell(s, a)
<1> DEFINE t == Stored(s, vals)
<1> DEFINE Hit(page, o) == {a \in DOMAIN vals : s.table[PageOf(a)] = page /\ OffsetOf(a) = o}
<1>1. /\ t.table = s.table
      /\ DOMAIN t.cells = DOMAIN s.cells
      /\ \A page \in DOMAIN s.cells : t.cells[page] =
            [o \in Offset |-> IF Hit(page, o) = {} THEN s.cells[page][o] ELSE vals[Max(Hit(page, o))]]
  BY DEF Stored
<1>2. \A page, o : Hit(page, o) # {} => Max(Hit(page, o)) \in DOMAIN vals
  <2> SUFFICES ASSUME NEW page, NEW o, Hit(page, o) # {} PROVE Max(Hit(page, o)) \in DOMAIN vals
    OBVIOUS
  <2>1. Hit(page, o) \subseteq Nat /\ \A x \in Hit(page, o) : x <= top
    BY AddrFacts
  <2> HIDE DEF Hit
  <2>2. Max(Hit(page, o)) \in Hit(page, o)
    BY <2>1, MaxInSet
  <2> QED BY <2>2 DEF Hit
<1> HIDE DEF t
<1>3. IsShadow(t)
  <2>1. ASSUME NEW page \in DOMAIN s.cells PROVE t.cells[page] \in [Offset -> Int]
    <3>1. s.cells[page] \in [Offset -> Int]
      BY DEF IsShadow
    <3> HIDE DEF Hit
    <3>2. \A o \in Offset : (IF Hit(page, o) = {} THEN s.cells[page][o] ELSE vals[Max(Hit(page, o))]) \in Int
      BY <1>2, <3>1
    <3>3. t.cells[page] =
            [o \in Offset |-> IF Hit(page, o) = {} THEN s.cells[page][o] ELSE vals[Max(Hit(page, o))]]
      BY <1>1
    <3> QED BY <3>2, <3>3
  <2> QED BY <1>1, <2>1 DEF IsShadow
<1>4. ASSUME NEW heap, NEW end, NEW pages, Sound(s, heap, end, pages) PROVE Sound(t, heap, end, pages)
  BY <1>1, <1>4 DEF Sound, Backed, Aligned, HeapInv
<1>5. ASSUME Aligned(s), \A a \in DOMAIN vals : s.table[PageOf(a)] \in DOMAIN s.cells, NEW a \in Addr
      PROVE  Cell(t, a) = IF a \in DOMAIN vals THEN vals[a] ELSE Cell(s, a)
  <2> DEFINE page == s.table[PageOf(a)]
  <2>1. CASE page \notin DOMAIN s.cells
    BY <1>1, <1>5, <2>1 DEF Cell
  <2>2. CASE page \in DOMAIN s.cells
    <3>1. \A c \in Hit(page, OffsetOf(a)) : c = a
      <4> SUFFICES ASSUME NEW c \in DOMAIN vals, s.table[PageOf(c)] = page, OffsetOf(c) = OffsetOf(a)
                   PROVE  c = a
        OBVIOUS
      <4>1. PageOf(a) \in Page /\ PageOf(c) \in Page /\ a \in Int /\ c \in Int
        BY AddrFacts
      <4>2. page[1] # 0 /\ page[2] \in Int
        BY <2>2, ShadowFacts
      <4>3. page[2] - page[2] = PageOf(a) - PageOf(c)
        BY <1>5, <4>1, <4>2 DEF Aligned
      <4>4. PageOf(a) = PageOf(c)
        <5>1. PageOf(a) \in Int /\ PageOf(c) \in Int
          BY <4>1, PageFacts
        <5>2. \A x, y, z \in Int : x - x = y - z => y = z
          OBVIOUS
        <5> QED BY <4>2, <4>3, <5>1, <5>2
      <4> QED BY <4>1, <4>4, SameAddress
    <3>2. Cell(t, a) = t.cells[page][OffsetOf(a)] /\ Cell(s, a) = s.cells[page][OffsetOf(a)]
      BY <1>1, <2>2 DEF Cell
    <3>3. OffsetOf(a) \in Offset /\ a \in Int
      BY AddrFacts
    <3>4. CASE a \in DOMAIN vals
      <4>1. Hit(page, OffsetOf(a)) = {a}
        BY <3>1, <3>4
      <4>2. Max(Hit(page, OffsetOf(a))) = a
        BY <3>3, <4>1, MaxOfOne
      <4> HIDE DEF Hit, page
      <4>3. t.cells[page] =
              [o \in Offset |-> IF Hit(page, o) = {} THEN s.cells[page][o] ELSE vals[Max(Hit(page, o))]]
        BY <1>1, <2>2
      <4>4. t.cells[page][OffsetOf(a)] = vals[Max(Hit(page, OffsetOf(a)))]
        BY <3>3, <4>1, <4>3
      <4> QED BY <3>2, <3>4, <4>2, <4>4
    <3>5. CASE a \notin DOMAIN vals
      <4>1. Hit(page, OffsetOf(a)) = {}
        BY <3>1, <3>5
      <4> HIDE DEF Hit, page
      <4> QED BY <1>1, <2>2, <3>2, <3>3, <3>5, <4>1
    <3> QED BY <3>4, <3>5
  <2> QED BY <2>1, <2>2
<1> QED BY <1>3, <1>4, <1>5 DEF t

(* Where the pages are backed, each address gets its value and no other does. *)
LEMMA AssignFacts ==
    ASSUME NEW s, IsShadow(s), NEW vals, DOMAIN vals \subseteq Addr,
           NEW top \in Nat, \A a \in DOMAIN vals : a <= top /\ vals[a] \in Int,
           Assign(s, vals), running \in BOOLEAN
    PROVE  /\ IsShadow(shadow') /\ Lean(shadow', brkPage) /\ running' \in BOOLEAN
           /\ \A end, pages :
                /\ pages \subseteq Page /\ Sound(s, brkPage, end, pages)
                /\ \A a \in DOMAIN vals : PageOf(a) \in pages \ {VdsoPage}
                => /\ running' = running
                   /\ Sound(shadow', brkPage, end, pages)
                   /\ \A a \in Addr : Cell(shadow', a) = IF a \in DOMAIN vals THEN vals[a] ELSE Cell(s, a)
<1>1. IsShadow(Stored(s, vals))
  BY StoredFacts
<1>2. IsShadow(shadow') /\ Lean(shadow', brkPage) /\ running' \in BOOLEAN
  <2>1. CASE Faults(s, vals)
    BY <2>1, InUseFacts DEF Assign
  <2>2. CASE ~Faults(s, vals)
    BY <1>1, <2>2, InUseFacts DEF Assign
  <2> QED BY <2>1, <2>2
<1>3. ASSUME NEW end, NEW pages, pages \subseteq Page, Sound(s, brkPage, end, pages),
             \A a \in DOMAIN vals : PageOf(a) \in pages \ {VdsoPage}
      PROVE  /\ running' = running
             /\ Sound(shadow', brkPage, end, pages)
             /\ \A a \in Addr : Cell(shadow', a) = IF a \in DOMAIN vals THEN vals[a] ELSE Cell(s, a)
  <2>1. \A a \in DOMAIN vals : s.table[PageOf(a)] \in DOMAIN s.cells
    BY <1>3 DEF Sound, Backed
  <2>2. running' = running /\ shadow' = InUse(Stored(s, vals), brkPage)
    BY <2>1 DEF Assign, Faults
  <2>3. Sound(Stored(s, vals), brkPage, end, pages) /\ Aligned(s)
    BY <1>3, StoredFacts DEF Sound
  <2>4. \A a \in Addr : Cell(Stored(s, vals), a) = IF a \in DOMAIN vals THEN vals[a] ELSE Cell(s, a)
    BY <2>1, <2>3, StoredFacts
  <2> QED BY <1>1, <1>3, <2>2, <2>3, <2>4, InUseFacts
<1> QED BY <1>2, <1>3

(* Memory::munmap: the pages outside the range keep their shadow pages. *)
LEMMA MunmapFacts ==
    ASSUME NEW s, IsShadow(s), NEW first \in Page, NEW n \in Nat \ {0}
    PROVE  LET t == Munmap(s, first, n)
               range == first..(first + n - 1)
           IN  /\ IsShadow(t)
               /\ Aligned(s) => \A a \in Addr : Cell(t, a) = IF PageOf(a) \in range THEN None ELSE Cell(s, a)
               /\ \A heap, e, pages :
                    /\ pages \subseteq Page /\ Sound(s, heap, e, pages) /\ range \cap HeapPage = {}
                    => Sound(t, heap, e, pages \ range)
<1> DEFINE t == Munmap(s, first, n)
<1> DEFINE range == first..(first + n - 1)
<1> DEFINE ptr == s.table[first]
<1> DEFINE gone == {<<ptr[1], ptr[2] + i>> : i \in 0..(n - 1)}
<1>1. /\ t.table = [p \in Page |-> IF p \in range THEN Unmapped ELSE s.table[p]]
      /\ DOMAIN t.cells = DOMAIN s.cells \ gone
      /\ \A x \in DOMAIN t.cells : t.cells[x] = s.cells[x]
  BY DEF Munmap, Freed, Host
<1>2. first \in Int /\ ptr[1] \in Nat /\ ptr[2] \in Nat
  BY ShadowFacts, SpaceAssumption
<1>3. Unmapped \in Nat \X Nat /\ Unmapped[1] = 0
  BY DEF Unmapped
<1> HIDE DEF t
<1>4. IsShadow(t)
  <2>1. t.table \in [Page -> Nat \X Nat]
    BY <1>1, <1>3 DEF IsShadow
  <2> QED BY <1>1, <2>1 DEF IsShadow
<1>5. ASSUME Aligned(s), NEW q \in Page \ range, s.table[q] \in DOMAIN s.cells PROVE s.table[q] \notin gone
  <2> SUFFICES ASSUME NEW i \in 0..(n - 1), s.table[q] = <<ptr[1], ptr[2] + i>> PROVE FALSE
    OBVIOUS
  <2>1. s.table[q][1] = ptr[1] /\ s.table[q][2] = ptr[2] + i
    OBVIOUS
  <2>2. ptr[1] # 0
    BY <1>5, <2>1, ShadowFacts
  <2>3. s.table[q][2] - ptr[2] = q - first
    BY <1>5, <2>1, <2>2 DEF Aligned
  <2>4. q \in Int /\ i \in Int
    BY SpaceAssumption
  <2> HIDE DEF ptr
  <2>5. q = first + i
    BY <1>2, <2>1, <2>3, <2>4
  <2> QED BY <1>2, <2>4, <2>5
<1>6. ASSUME Aligned(s), NEW a \in Addr
      PROVE  Cell(t, a) = IF PageOf(a) \in range THEN None ELSE Cell(s, a)
  <2>1. PageOf(a) \in Page
    BY AddrFacts
  <2>2. CASE PageOf(a) \in range
    <3>1. Unmapped \notin DOMAIN t.cells
      BY <1>3, <1>4, ShadowFacts
    <3> QED BY <1>1, <2>1, <2>2, <3>1 DEF Cell
  <2>3. CASE PageOf(a) \notin range
    <3>1. s.table[PageOf(a)] \in DOMAIN s.cells => s.table[PageOf(a)] \notin gone
      BY <1>5, <1>6, <2>1, <2>3
    <3> HIDE DEF range, gone
    <3>2. t.table[PageOf(a)] = s.table[PageOf(a)]
      BY <1>1, <2>1, <2>3
    <3> QED BY <1>1, <2>3, <3>1, <3>2, SameCell
  <2> QED BY <2>2, <2>3
<1>7. ASSUME NEW heap, NEW e, NEW pages, pages \subseteq Page, Sound(s, heap, e, pages), range \cap HeapPage = {}
      PROVE  Sound(t, heap, e, pages \ range)
  <2>1. Aligned(s) /\ Backed(s, pages) /\ HeapInv(s, heap, e) /\ pages \cap HeapPage = HeapStart..(e - 1)
    BY <1>7 DEF Sound
  <2>2. Backed(t, pages \ range)
    <3> SUFFICES ASSUME NEW p \in pages \ range, p # VdsoPage PROVE t.table[p] \in DOMAIN t.cells
      BY DEF Backed
    <3>1. s.table[p] \in DOMAIN s.cells /\ p \in Page
      BY <1>7, <2>1 DEF Backed
    <3>2. s.table[p] \notin gone
      BY <1>5, <2>1, <3>1
    <3> HIDE DEF range, gone
    <3> QED BY <1>1, <3>1, <3>2
  <2> HIDE DEF range, gone
  <2>3. Aligned(t)
    BY <1>1, <1>3, <2>1 DEF Aligned
  <2>4. HeapInv(t, heap, e)
    <3>1. \A p \in HeapStart..(e - 1) : t.table[p] = s.table[p]
      BY <1>1, <1>7, <2>1
    <3>2. \A p \in Page : heap[1] # 0 /\ t.table[p][1] = heap[1] => s.table[p][1] = heap[1]
      BY <1>1, <1>3
    <3> QED BY <1>1, <2>1, <3>1, <3>2 DEF HeapInv
  <2>5. (pages \ range) \cap HeapPage = HeapStart..(e - 1)
    BY <1>7, <2>1
  <2> QED BY <2>2, <2>3, <2>4, <2>5 DEF Sound
<1> QED BY <1>4, <1>6, <1>7 DEF t

(* Losing shadow pages leaves a shadow, and losing none changes nothing. *)
LEMMA WithoutFacts ==
    ASSUME NEW s, IsShadow(s), NEW lost
    PROVE  /\ IsShadow(Without(s, lost))
           /\ lost = {} =>
                 /\ \A a \in Addr : Cell(Without(s, lost), a) = Cell(s, a)
                 /\ \A heap, e, pages : Sound(s, heap, e, pages) => Sound(Without(s, lost), heap, e, pages)
<1> DEFINE t == Without(s, lost)
<1>1. /\ t.table = s.table /\ DOMAIN t.cells = DOMAIN s.cells \ lost
      /\ \A x \in DOMAIN t.cells : t.cells[x] = s.cells[x]
  BY DEF Without
<1> HIDE DEF t
<1>2. IsShadow(t)
  BY <1>1 DEF IsShadow
<1>3. ASSUME lost = {}, NEW a \in Addr PROVE Cell(t, a) = Cell(s, a)
  BY <1>1, <1>3, SameCell
<1>4. ASSUME lost = {}, NEW heap, NEW e, NEW pages, Sound(s, heap, e, pages) PROVE Sound(t, heap, e, pages)
  <2>1. Backed(t, pages) /\ Aligned(t)
    BY <1>1, <1>4 DEF Sound, Backed, Aligned
  <2>2. HeapInv(t, heap, e)
    BY <1>1, <1>4 DEF Sound, HeapInv
  <2> QED BY <1>4, <2>1, <2>2 DEF Sound
<1> QED BY <1>2, <1>3, <1>4 DEF t

(* Within a block deallocPages frees nothing else. *)
LEMMA NothingBehind ==
    ASSUME NEW s, NEW first, NEW n, NEW lost \in Behind(s, first, n), ~ Overrun(s, first, n)
    PROVE  lost = {}
BY DEF Behind

(* Memory::mremap yields a shadow. *)
LEMMA MremapType ==
    ASSUME NEW s, IsShadow(s), NEW heap, Lean(s, heap),
           NEW old \in Page, NEW n \in Nat, NEW new \in Page, NEW m \in Nat
    PROVE  IsShadow(Mremap(s, old, n, new, m))
<1> DEFINE t == Mremap(s, old, n, new, m)
<1> DEFINE b == Fresh(s)
<1> DEFINE from == s.table[old]
<1> DEFINE copied(j) == IF j >= n THEN Blank
                        ELSE IF <<from[1], from[2] + j>> \in DOMAIN s.cells
                        THEN s.cells[<<from[1], from[2] + j>>] ELSE [o \in Offset |-> Junk]
<1> DEFINE kept == Freed(s.cells, from, n)
<1>1. b \in Nat \ {0}
  BY FreshBlock
<1>2. \A j : copied(j) \in [Offset -> Int]
  BY DEF IsShadow, Blank, None, Junk
<1>3. DOMAIN kept \subseteq DOMAIN s.cells /\ \A x \in DOMAIN kept : kept[x] = s.cells[x]
  BY DEF Freed
<1>4. /\ t.table = [p \in Page |-> IF p \in new..(new + m - 1) THEN <<b, 0>>
                                   ELSE IF p \in old..(old + n - 1) THEN Unmapped ELSE s.table[p]]
      /\ t.cells = Joined(kept, [x \in {<<b, j>> : j \in 0..(m - 1)} |-> copied(x[2])])
  BY DEF Mremap
<1> HIDE DEF t, b, copied, kept
<1>5. /\ DOMAIN t.cells = DOMAIN kept \cup {<<b, j>> : j \in 0..(m - 1)}
      /\ \A x \in DOMAIN t.cells : t.cells[x] = IF x \in DOMAIN kept THEN kept[x] ELSE copied(x[2])
  BY <1>4 DEF Joined
<1>6. t.table \in [Page -> Nat \X Nat]
  <2>1. \A p \in Page : t.table[p] \in Nat \X Nat
    BY <1>1, <1>4, ShadowFacts DEF Unmapped
  <2> QED BY <1>4, <2>1
<1>7. DOMAIN t.cells \subseteq (Nat \ {0}) \X Nat
  BY <1>1, <1>3, <1>5 DEF IsShadow
<1>8. \A x \in DOMAIN t.cells : t.cells[x] \in [Offset -> Int]
  BY <1>2, <1>3, <1>5 DEF IsShadow
<1> QED BY <1>6, <1>7, <1>8 DEF IsShadow, t

(* A mapping of one page that stays so keeps its cells where it goes. *)
LEMMA MremapOne ==
    ASSUME NEW s, IsShadow(s), NEW heap, Lean(s, heap), NEW p \in Page, NEW q \in Page,
           NEW e, NEW pages, pages \subseteq Page, Sound(s, heap, e, pages), p \in pages \ {VdsoPage},
           p \notin HeapPage, q \notin HeapPage
    PROVE  LET t == Mremap(s, p, 1, q, 1)
           IN  /\ Sound(t, heap, e, (pages \ {p}) \cup {q})
               /\ \A a \in Addr : Cell(t, a) =
                    IF PageOf(a) = q THEN s.cells[s.table[p]][OffsetOf(a)]
                    ELSE IF PageOf(a) = p THEN None ELSE Cell(s, a)
<1> DEFINE t == Mremap(s, p, 1, q, 1)
<1> DEFINE b == Fresh(s)
<1> DEFINE from == s.table[p]
<1> DEFINE copied(j) == IF j >= 1 THEN Blank
                        ELSE IF <<from[1], from[2] + j>> \in DOMAIN s.cells
                        THEN s.cells[<<from[1], from[2] + j>>] ELSE [o \in Offset |-> Junk]
<1> DEFINE kept == Freed(s.cells, from, 1)
<1>1. /\ b \in Nat \ {0}
      /\ \A r \in Page : s.table[r][1] # b
      /\ \A x \in DOMAIN s.cells : x[1] # b
  BY FreshBlock
<1>2. Aligned(s) /\ Backed(s, pages) /\ HeapInv(s, heap, e) /\ pages \cap HeapPage = HeapStart..(e - 1)
  BY DEF Sound
<1>3. from \in DOMAIN s.cells /\ from \in Nat \X Nat /\ from[1] # 0
  BY <1>2, ShadowFacts DEF Backed
<1>4. <<from[1], from[2] + 0>> = from
  BY <1>3
<1>5. DOMAIN kept = DOMAIN s.cells \ {from} /\ \A x \in DOMAIN kept : kept[x] = s.cells[x]
  <2>1. {<<from[1], from[2] + i>> : i \in 0..(1 - 1)} = {from}
    BY <1>4
  <2> QED BY <2>1 DEF Freed, Host
<1>6. copied(0) = s.cells[from]
  BY <1>3, <1>4
<1>7. /\ \A r \in Page : t.table[r] = IF r \in q..(q + 1 - 1) THEN <<b, 0>>
                                      ELSE IF r \in p..(p + 1 - 1) THEN Unmapped ELSE s.table[r]
      /\ t.cells = Joined(kept, [x \in {<<b, j>> : j \in 0..(1 - 1)} |-> copied(x[2])])
  BY DEF Mremap
<1> HIDE DEF t, b, copied, kept
<1>8. /\ t.table[q] = <<b, 0>>
      /\ p # q => t.table[p] = Unmapped
      /\ \A r \in Page \ {p, q} : t.table[r] = s.table[r]
  <2>1. q..(q + 1 - 1) = {q} /\ p..(p + 1 - 1) = {p}
    BY SpaceAssumption
  <2> QED BY <1>7, <2>1
<1>9. /\ DOMAIN t.cells = DOMAIN kept \cup {<<b, 0>>}
      /\ \A x \in DOMAIN kept : t.cells[x] = kept[x]
      /\ t.cells[<<b, 0>>] = s.cells[from]
  <2>1. {<<b, j>> : j \in 0..(1 - 1)} = {<<b, 0>>}
    OBVIOUS
  <2>2. <<b, 0>> \notin DOMAIN kept
    BY <1>1, <1>5
  <2>3. t.cells = Joined(kept, [x \in {<<b, 0>>} |-> copied(x[2])])
    BY <1>7, <2>1
  <2> QED BY <1>6, <2>2, <2>3 DEF Joined
<1>10. Unmapped[1] = 0
  BY DEF Unmapped
<1>11. \A r \in Page \ {p} : s.table[r] # from
  <2> SUFFICES ASSUME NEW r \in Page \ {p}, s.table[r] = from PROVE FALSE
    OBVIOUS
  <2>1. from[2] - from[2] = r - p
    BY <1>2, <1>3 DEF Aligned
  <2>2. from[2] \in Int /\ r \in Int /\ p \in Int
    BY <1>3, SpaceAssumption
  <2>3. \A x, y, z \in Int : x - x = y - z => y = z
    OBVIOUS
  <2> HIDE DEF from
  <2> QED BY <2>1, <2>2, <2>3
<1>12. ASSUME NEW a \in Addr
       PROVE  Cell(t, a) = IF PageOf(a) = q THEN s.cells[from][OffsetOf(a)]
                           ELSE IF PageOf(a) = p THEN None ELSE Cell(s, a)
  <2>1. PageOf(a) \in Page
    BY AddrFacts
  <2>2. CASE PageOf(a) = q
    BY <1>8, <1>9, <2>2 DEF Cell
  <2>3. CASE PageOf(a) = p /\ p # q
    <3>1. Unmapped \notin DOMAIN t.cells
      BY <1>1, <1>5, <1>9, <1>10, ShadowFacts
    <3> QED BY <1>8, <2>3, <3>1 DEF Cell
  <2>4. CASE PageOf(a) # p /\ PageOf(a) # q
    <3>1. s.table[PageOf(a)] # <<b, 0>>
      BY <1>1, <2>1
    <3>2. t.table[PageOf(a)] = s.table[PageOf(a)] /\ s.table[PageOf(a)] # from
      BY <1>8, <1>11, <2>1, <2>4
    <3> HIDE DEF from
    <3> QED BY <1>5, <1>9, <2>4, <3>1, <3>2, SameCell
  <2> QED BY <2>2, <2>3, <2>4
<1>13. Backed(t, (pages \ {p}) \cup {q})
  <2> SUFFICES ASSUME NEW r \in (pages \ {p}) \cup {q}, r # VdsoPage PROVE t.table[r] \in DOMAIN t.cells
    BY DEF Backed
  <2>1. CASE r = q
    BY <1>8, <1>9, <2>1
  <2>2. CASE r # q
    <3>1. r \in Page \ {p, q} /\ s.table[r] \in DOMAIN s.cells
      BY <1>2, <2>2 DEF Backed
    <3>2. s.table[r] # from /\ t.table[r] = s.table[r]
      BY <1>8, <1>11, <3>1
    <3> HIDE DEF from
    <3> QED BY <1>5, <1>9, <3>1, <3>2
  <2> QED BY <2>1, <2>2
<1>14. Aligned(t)
  <2> SUFFICES ASSUME NEW r \in Page, NEW u \in Page, t.table[r][1] # 0, t.table[r][1] = t.table[u][1]
               PROVE  t.table[r][2] - t.table[u][2] = r - u
    BY DEF Aligned
  <2>1. \A v \in Page \ {q} : t.table[v][1] = 0 \/ (t.table[v] = s.table[v] /\ s.table[v][1] # b)
    BY <1>1, <1>8, <1>10
  <2>2. CASE r = q /\ u = q
    BY <1>8, <2>2, SpaceAssumption
  <2>3. CASE r # q /\ u # q
    BY <1>2, <2>1, <2>3 DEF Aligned
  <2>4. CASE (r = q) # (u = q)
    BY <1>1, <1>8, <2>1, <2>4
  <2> QED BY <2>2, <2>3, <2>4
<1>15. HeapInv(t, heap, e)
  <2>1. e \in Int /\ HeapStart \in Int /\ HeapStart..(e - 1) \subseteq HeapPage
    BY <1>2, SpaceAssumption DEF HeapInv, HeapPage
  <2>2. \A r \in HeapStart..(e - 1) : r \in Page \ {p, q} /\ t.table[r] = s.table[r]
    BY <1>8, <2>1, SpaceAssumption
  <2>3. heap[1] # b
    <3>1. heap[1] # 0 => HeapStart \in HeapStart..(e - 1)
      BY <1>2, <2>1 DEF HeapInv
    <3>2. heap[1] # 0 => HeapStart \in Page /\ s.table[HeapStart][1] = heap[1]
      BY <1>2, <2>2, <3>1 DEF HeapInv
    <3> QED BY <1>1, <3>2
  <2>4. \A r \in Page : heap[1] # 0 /\ t.table[r][1] = heap[1] => s.table[r][1] = heap[1] /\ r \in Page
    BY <1>8, <1>10, <2>3
  <2>5. \A x \in DOMAIN t.cells : x[1] = heap[1] => x \in DOMAIN s.cells
    BY <1>5, <1>9, <2>3
  <2>6. \A r \in HeapStart..(e - 1) : t.table[r] = <<heap[1], r - HeapStart>>
    BY <1>2, <2>2 DEF HeapInv
  <2>7. \A r \in Page : heap[1] # 0 /\ t.table[r][1] = heap[1] => r \in HeapStart..(e - 1)
    BY <1>2, <2>4 DEF HeapInv
  <2>8. \A x \in DOMAIN t.cells : x[1] = heap[1] => x[2] < e - HeapStart
    BY <1>2, <2>5 DEF HeapInv
  <2> QED BY <1>2, <2>6, <2>7, <2>8 DEF HeapInv
<1>16. ((pages \ {p}) \cup {q}) \cap HeapPage = HeapStart..(e - 1)
  BY <1>2
<1> QED BY <1>12, <1>13, <1>14, <1>15, <1>16 DEF Sound, t

(* Memory::brk yields a shadow. *)
LEMMA BrkType ==
    ASSUME NEW s, IsShadow(s), NEW b \in Nat \ {0}, NEW n \in Int, NEW added \in [Offset -> Int]
    PROVE  IsShadow(Brk(s, b, n, added))
<1> DEFINE t == Brk(s, b, n, added)
<1> DEFINE kept == [x \in {y \in DOMAIN s.cells : y[1] # b \/ y[2] < n} |-> s.cells[x]]
<1>1. /\ t.table = [p \in Page |-> IF p \in HeapStart..(HeapStart + n - 1) THEN <<b, p - HeapStart>>
                                   ELSE IF p \in (HeapStart + n)..brkEnd THEN Unmapped ELSE s.table[p]]
      /\ t.cells = Joined(kept, BlockOf(b, n, added))
  BY DEF Brk
<1>2. DOMAIN kept \subseteq DOMAIN s.cells /\ \A x \in DOMAIN kept : kept[x] = s.cells[x]
  OBVIOUS
<1> HIDE DEF t, kept
<1>3. /\ DOMAIN t.cells = DOMAIN kept \cup {<<b, j>> : j \in 0..(n - 1)}
      /\ \A x \in DOMAIN t.cells : t.cells[x] = IF x \in DOMAIN kept THEN kept[x] ELSE added
  BY <1>1 DEF Joined, BlockOf
<1>4. t.table \in [Page -> Nat \X Nat]
  <2>1. \A p \in HeapStart..(HeapStart + n - 1) : p - HeapStart \in Nat
    BY SpaceAssumption
  <2>2. \A p \in Page : t.table[p] \in Nat \X Nat
    BY <1>1, <2>1, ShadowFacts DEF Unmapped
  <2> QED BY <1>1, <2>2
<1>5. DOMAIN t.cells \subseteq (Nat \ {0}) \X Nat
  BY <1>2, <1>3 DEF IsShadow
<1>6. \A x \in DOMAIN t.cells : t.cells[x] \in [Offset -> Int]
  BY <1>2, <1>3 DEF IsShadow
<1> QED BY <1>4, <1>5, <1>6 DEF IsShadow, t

(* Block b holds the pages of the heap up to page end, in order, and no other *)
HeapIsBlock(s, b, end) ==
    /\ \A p \in HeapStart..(end - 1) : s.table[p] = <<b, p - HeapStart>>
    /\ \A p \in Page : s.table[p][1] = b => p \in HeapStart..(end - 1)
    /\ \A x \in DOMAIN s.cells : x[1] = b => x[2] < end - HeapStart

(* No page of pages but the heap's is in the range that Brk unmaps *)
NoneBeyond(pages, first, last) == (pages \ HeapPage) \cap first..last = {}

(* What Brk leaves: a sound shadow in which the pages outside the heap, and    *)
(* those of it that stay, have the cells they had, and the pages it gained     *)
(* have the cells of added                                                     *)
Resized(s, b, n, added, pages) ==
    LET t == Brk(s, b, n, added)
        now == HeapStart..(HeapStart + n - 1)
    IN  /\ Sound(t, <<b, 0>>, HeapStart + n, (pages \ HeapPage) \cup now)
        /\ \A a \in Addr : PageOf(a) \in (pages \ HeapPage) \cup (now \cap pages) => Cell(t, a) = Cell(s, a)
        /\ \A a \in Addr : PageOf(a) \in now \ pages => Cell(t, a) = added[OffsetOf(a)]

(* The heap of n pages at block b, when b is the heap's block or was nobody's, *)
(* and no page beyond the heap is lost                                         *)
LEMMA BrkFacts ==
    ASSUME NEW s, IsShadow(s), NEW heap, NEW pages, pages \subseteq Page,
           brkEnd \in Int, Sound(s, heap, brkEnd, pages),
           NEW b \in Nat \ {0}, NEW n \in 1..HeapPages, NEW added, HeapIsBlock(s, b, brkEnd),
           NoneBeyond(pages, HeapStart + n, brkEnd)
    PROVE  Resized(s, b, n, added, pages)
<1> USE DEF HeapIsBlock, NoneBeyond
<1> DEFINE t == Brk(s, b, n, added)
<1> DEFINE now == HeapStart..(HeapStart + n - 1)
<1> DEFINE kept == [x \in {y \in DOMAIN s.cells : y[1] # b \/ y[2] < n} |-> s.cells[x]]
<1>1. /\ \A p \in Page : t.table[p] = IF p \in now THEN <<b, p - HeapStart>>
                                      ELSE IF p \in (HeapStart + n)..brkEnd THEN Unmapped ELSE s.table[p]
      /\ t.cells = Joined(kept, BlockOf(b, n, added))
  BY DEF Brk
<1>2. /\ DOMAIN kept = {y \in DOMAIN s.cells : y[1] # b \/ y[2] < n}
      /\ \A x \in DOMAIN kept : kept[x] = s.cells[x]
  OBVIOUS
<1> HIDE DEF t, kept
<1>3. /\ DOMAIN t.cells = DOMAIN kept \cup {<<b, j>> : j \in 0..(n - 1)}
      /\ \A x \in DOMAIN t.cells : t.cells[x] = IF x \in DOMAIN kept THEN kept[x] ELSE added
  BY <1>1 DEF Joined, BlockOf
<1>4. /\ HeapStart \in Int /\ n \in Int /\ n > 0 /\ HeapPages \in Int /\ n <= HeapPages
      /\ brkEnd >= HeapStart /\ brkEnd <= HeapStart + HeapPages
  BY SpaceAssumption DEF Sound, HeapInv
<1>5. now \subseteq HeapPage /\ HeapPage \subseteq Page /\ HeapPage \subseteq Int /\ VdsoPage \notin HeapPage
  BY <1>4, SpaceAssumption DEF HeapPage
<1>6. Aligned(s) /\ Backed(s, pages) /\ pages \cap HeapPage = HeapStart..(brkEnd - 1)
  BY DEF Sound
<1>7. \A p \in now : t.table[p] = <<b, p - HeapStart>> /\ t.table[p] \in DOMAIN t.cells
  <2>1. \A p \in now : p - HeapStart \in 0..(n - 1)
    BY <1>4
  <2> QED BY <1>1, <1>3, <1>5, <2>1
<1>8. \A p \in pages \ HeapPage : /\ p \in Page /\ t.table[p] = s.table[p] /\ s.table[p][1] # b
  <2> SUFFICES ASSUME NEW p \in pages \ HeapPage
               PROVE  /\ p \in Page /\ t.table[p] = s.table[p] /\ s.table[p][1] # b
    OBVIOUS
  <2>1. p \in Page /\ p \notin now /\ p \notin (HeapStart + n)..brkEnd
    BY <1>5
  <2>2. p \notin HeapStart..(brkEnd - 1)
    BY <1>6
  <2> HIDE DEF now
  <2> QED BY <1>1, <2>1, <2>2
<1>9. \A p \in Page \ now : t.table[p][1] # b
  <2> SUFFICES ASSUME NEW p \in Page \ now, t.table[p][1] = b PROVE FALSE
    OBVIOUS
  <2>1. Unmapped[1] = 0
    BY DEF Unmapped
  <2>2. p \notin (HeapStart + n)..brkEnd /\ s.table[p][1] = b
    BY <1>1, <2>1
  <2>3. p \in HeapStart..(brkEnd - 1)
    BY <2>2
  <2> QED BY <1>4, <2>2, <2>3
<1>10. \A p \in now \cap pages : s.table[p] = t.table[p] /\ s.table[p] \in DOMAIN kept
  <2> SUFFICES ASSUME NEW p \in now, p \in pages PROVE s.table[p] = t.table[p] /\ s.table[p] \in DOMAIN kept
    OBVIOUS
  <2>1. p \in HeapStart..(brkEnd - 1)
    BY <1>5, <1>6
  <2>2. s.table[p] = <<b, p - HeapStart>> /\ s.table[p] \in DOMAIN s.cells
    BY <1>5, <1>6, <2>1 DEF Backed
  <2>3. p - HeapStart < n
    BY <1>4
  <2> QED BY <1>2, <1>7, <2>2, <2>3
<1>11. \A p \in now \ pages : t.table[p] \notin DOMAIN kept
  <2> SUFFICES ASSUME NEW p \in now, p \notin pages, t.table[p] \in DOMAIN kept PROVE FALSE
    OBVIOUS
  <2>1. p \notin HeapStart..(brkEnd - 1)
    BY <1>6
  <2>2. t.table[p] = <<b, p - HeapStart>> /\ t.table[p] \in DOMAIN s.cells
    BY <1>2, <1>7
  <2>3. p - HeapStart < brkEnd - HeapStart
    BY <2>2
  <2> QED BY <1>4, <2>1, <2>3
<1>12. ASSUME NEW a \in Addr, PageOf(a) \in (pages \ HeapPage) \cup (now \cap pages) PROVE Cell(t, a) = Cell(s, a)
  <2>1. CASE PageOf(a) \in pages \ HeapPage
    <3>1. t.table[PageOf(a)] = s.table[PageOf(a)] /\ s.table[PageOf(a)][1] # b
      BY <1>8, <2>1
    <3>2. s.table[PageOf(a)] \in DOMAIN t.cells <=> s.table[PageOf(a)] \in DOMAIN kept
      BY <1>3, <3>1
    <3> QED BY <1>2, <1>3, <3>1, <3>2, SameCell
  <2>2. CASE PageOf(a) \in now \cap pages
    <3>1. s.table[PageOf(a)] = t.table[PageOf(a)] /\ s.table[PageOf(a)] \in DOMAIN kept
      BY <1>10, <2>2
    <3> QED BY <1>2, <1>3, <3>1, SameCell
  <2> QED BY <1>12, <2>1, <2>2
<1>13. ASSUME NEW a \in Addr, PageOf(a) \in now \ pages PROVE Cell(t, a) = added[OffsetOf(a)]
  <2> HIDE DEF now
  <2> QED BY <1>3, <1>7, <1>11, <1>13 DEF Cell
<1>14. Backed(t, (pages \ HeapPage) \cup now)
  <2>1. \A p \in pages \ HeapPage : p # VdsoPage => t.table[p] \in DOMAIN t.cells
    BY <1>2, <1>3, <1>6, <1>8 DEF Backed
  <2> HIDE DEF now
  <2> QED BY <1>7, <2>1 DEF Backed
<1>15. Aligned(t)
  <2> SUFFICES ASSUME NEW p \in Page, NEW q \in Page, t.table[p][1] # 0, t.table[p][1] = t.table[q][1]
               PROVE  t.table[p][2] - t.table[q][2] = p - q
    BY DEF Aligned
  <2>1. CASE p \in now /\ q \in now
    <3>1. t.table[p][2] = p - HeapStart /\ t.table[q][2] = q - HeapStart /\ p \in Int /\ q \in Int
      BY <1>5, <1>7, <2>1
    <3> QED BY <1>4, <3>1
  <2>2. CASE p \notin now /\ q \notin now
    <3>1. Unmapped[1] = 0
      BY DEF Unmapped
    <3>2. t.table[p] = s.table[p] /\ t.table[q] = s.table[q]
      BY <1>1, <2>2, <3>1
    <3> QED BY <1>6, <3>2 DEF Aligned
  <2>3. CASE (p \in now) # (q \in now)
    <3> HIDE DEF now
    <3> QED BY <1>7, <1>9, <2>3
  <2> QED BY <2>1, <2>2, <2>3
<1>16. HeapInv(t, <<b, 0>>, HeapStart + n)
  <2> DEFINE end == HeapStart + n
  <2>1. end \in HeapStart..(HeapStart + HeapPages) /\ end # HeapStart
    BY <1>4
  <2>2. \A p \in Page : t.table[p][1] = b => p \in now
    BY <1>9
  <2>3. \A x \in DOMAIN t.cells : x[1] = b => x[2] < end - HeapStart
    <3>1. \A x \in DOMAIN kept : x[1] = b => x[2] < n
      BY <1>2
    <3>2. \A x \in DOMAIN t.cells : x[1] = b => x[2] < n
      BY <1>3, <1>4, <3>1
    <3>3. end - HeapStart = n
      BY <1>4
    <3> QED BY <3>2, <3>3
  <2>4. b # 0 /\ <<b, 0>>[1] = b
    OBVIOUS
  <2>5. now = HeapStart..(end - 1)
    BY <1>4
  <2> HIDE DEF now, end
  <2>6. HeapInv(t, <<b, 0>>, end)
    BY <1>7, <2>1, <2>2, <2>3, <2>4, <2>5 DEF HeapInv
  <2> QED BY <2>6 DEF end
<1>17. ((pages \ HeapPage) \cup now) \cap HeapPage = now
  BY <1>5
<1>18. now = HeapStart..((HeapStart + n) - 1)
  BY <1>4
<1>19. Sound(t, <<b, 0>>, HeapStart + n, (pages \ HeapPage) \cup now)
  <2> HIDE DEF now
  <2> QED BY <1>14, <1>15, <1>16, <1>17, <1>18 DEF Sound
<1>20. \A a \in Addr : PageOf(a) \in (pages \ HeapPage) \cup (now \cap pages) => Cell(t, a) = Cell(s, a)
  BY <1>12
<1>21. \A a \in Addr : PageOf(a) \in now \ pages => Cell(t, a) = added[OffsetOf(a)]
  BY <1>13
<1> QED BY <1>19, <1>20, <1>21 DEF t, Resized

-----------------------------------------------------------------------------
(* Steps *)

(* What every call does besides its own. *)
LEMMA StepFacts ==
    ASSUME TypeOK, NEW doubt, Step(doubt)
    PROVE  running /\ calls' \in Nat /\ hookFs' \in BOOLEAN /\ hookFs' = hookFs /\ doubts' = doubts \cup doubt
BY DEF TypeOK, Step

(* A case that was met is a doubt. *)
LEMMA WhenFacts == ASSUME NEW c, NEW name PROVE c => name \in When(c, name)
BY DEF When

(* A description is neither a closed descriptor nor another file. *)
LEMMA FileKinds ==
    /\ Closed \notin Description /\ Other \notin Description /\ Closed # Other
    /\ \A d \in Description : d \in Nat /\ d # Closed /\ d # Other
BY DEF Closed, Other, Description

(* A call that leaves the memory and its shadow alone *)
LEMMA MemorySame ==
    ASSUME IInv, doubts \subseteq doubts', UNCHANGED <<shadow, brkPage, brkEnd, running, mapped, mem>>
    PROVE  Lean(shadow, brkPage)' /\ PageInv' /\ ShadowIsInput' /\ InputIsTracked'
<1>1. Lean(shadow, brkPage)'
  BY DEF IInv, Lean
<1>2. PageInv'
  BY DEF IInv, PageInv, Sound, Backed, Aligned, HeapInv
<1>3. ShadowIsInput'
  BY DEF IInv, ShadowIsInput, Cell, Bytes
<1>4. InputIsTracked'
  BY DEF IInv, InputIsTracked, Cell, Bytes
<1> QED BY <1>1, <1>2, <1>3, <1>4

(* A call that leaves the descriptors and their offsets alone *)
LEMMA FilesSame ==
    ASSUME IInv, doubts \subseteq doubts', UNCHANGED <<off, fdSet, files, pos>>
    PROVE  OffsetInv' /\ TrackedInv'
BY DEF IInv, OffsetInv, TrackedInv

-----------------------------------------------------------------------------
(* Descriptors *)

(* The kernel takes a free descriptor. *)
LEMMA NextFdFree == ASSUME FreeFd PROVE NextFd \in Fd /\ files[NextFd] = Closed
<1> DEFINE free == {f \in Fd : files[f] = Closed}
<1>1. free # {} /\ free \subseteq Nat
  BY ArgumentAssumption DEF FreeFd
<1>2. Min(free) \in free
  BY <1>1, MinInSet
<1> QED BY <1>2 DEF NextFd

(* What is tracked is open, so a descriptor that is free is not tracked. *)
LEMMA OpenInputKeeps == ASSUME IInv, OpenInput PROVE IInv'
<1>1. PICK hooked \in BOOLEAN, d \in Description :
        /\ Step(When(~hooked, "openat") \cup When(hooked /\ fdSet # {}, "several"))
        /\ hookFs /\ FreeFd
        /\ \A f \in Fd : files[f] # d
        /\ files' = [files EXCEPT ![NextFd] = d]
        /\ pos' = [pos EXCEPT ![d] = 0]
        /\ fdSet' = IF hooked THEN fdSet \cup {NextFd} ELSE fdSet
        /\ UNCHANGED <<shadow, brkPage, brkEnd, off, running, mapped, mem, brkNow>>
  BY DEF OpenInput
<1> DEFINE g == NextFd
<1>2. g \in Fd /\ files[g] = Closed
  BY <1>1, NextFdFree
<1> HIDE DEF g
<1>3. /\ doubts' = doubts \cup (When(~hooked, "openat") \cup When(hooked /\ fdSet # {}, "several"))
      /\ calls' \in Nat /\ hookFs' \in BOOLEAN
  BY <1>1, StepFacts DEF IInv
<1>4. TypeOK'
  BY <1>1, <1>2, <1>3 DEF IInv, TypeOK, g
<1>5. files \in [Fd -> {Closed, Other} \cup Description] /\ pos \in [Description -> Nat] /\ fdSet \subseteq Fd
  BY DEF IInv, TypeOK
<1>6. /\ files'[g] = d /\ \A f \in Fd \ {g} : files'[f] = files[f]
      /\ pos'[d] = 0 /\ \A c \in Description \ {d} : pos'[c] = pos[c]
  BY <1>1, <1>2, <1>5 DEF g
<1>7. fdSet' = (IF hooked THEN fdSet \cup {g} ELSE fdSet) /\ off' = off
  BY <1>1 DEF g
<1>8. OffsetInv'
  <2> SUFFICES ASSUME doubts' \cap OffsetDoubts = {}
               PROVE  /\ \A f \in fdSet' : files'[f] \in Description /\ pos'[files'[f]] = off'
                      /\ \A f, h \in fdSet' : files'[f] = files'[h]
                      /\ \A f \in Fd, h \in fdSet' : files'[f] = files'[h] => f \in fdSet'
                      /\ fdSet' = {} => off' = 0
    BY DEF OffsetInv
  <2>1. ~(hooked /\ fdSet # {})
    BY <1>3, WhenFacts DEF OffsetDoubts
  <2>2. /\ \A f \in fdSet : files[f] \in Description /\ pos[files[f]] = off
        /\ \A f, h \in fdSet : files[f] = files[h]
        /\ \A f \in Fd, h \in fdSet : files[f] = files[h] => f \in fdSet
        /\ fdSet = {} => off = 0
    BY <1>3 DEF IInv, OffsetInv
  <2>3. g \notin fdSet
    BY <1>2, <2>2, FileKinds
  <2>4. CASE hooked
    BY <1>1, <1>6, <1>7, <2>1, <2>2, <2>4
  <2>5. CASE ~hooked
    BY <1>1, <1>5, <1>6, <1>7, <2>2, <2>3, <2>5
  <2> QED BY <2>4, <2>5
<1>9. TrackedInv'
  <2> SUFFICES ASSUME doubts' = {}, NEW f \in Fd, files'[f] \in Description PROVE f \in fdSet'
    BY DEF TrackedInv
  <2>1. hooked /\ doubts = {}
    BY <1>3, WhenFacts
  <2> QED BY <1>6, <1>7, <2>1 DEF IInv, TrackedInv
<1> QED BY <1>1, <1>3, <1>4, <1>8, <1>9, MemorySame DEF IInv

(* Opening another file. *)
LEMMA OpenOtherKeeps == ASSUME IInv, OpenOther PROVE IInv'
<1>1. PICK similar \in BOOLEAN :
        /\ Step(When(similar /\ hookFs, "similar"))
        /\ FreeFd
        /\ files' = [files EXCEPT ![NextFd] = Other]
        /\ fdSet' = IF similar /\ hookFs THEN fdSet \cup {NextFd} ELSE fdSet
        /\ UNCHANGED <<shadow, brkPage, brkEnd, off, running, mapped, mem, brkNow, pos>>
  BY DEF OpenOther
<1> DEFINE g == NextFd
<1>2. g \in Fd /\ files[g] = Closed
  BY <1>1, NextFdFree
<1> HIDE DEF g
<1>3. /\ doubts' = doubts \cup When(similar /\ hookFs, "similar")
      /\ calls' \in Nat /\ hookFs' \in BOOLEAN
  BY <1>1, StepFacts DEF IInv
<1>4. TypeOK'
  BY <1>1, <1>2, <1>3 DEF IInv, TypeOK, g
<1>5. files \in [Fd -> {Closed, Other} \cup Description] /\ pos \in [Description -> Nat] /\ fdSet \subseteq Fd
  BY DEF IInv, TypeOK
<1>6. files'[g] = Other /\ \A f \in Fd \ {g} : files'[f] = files[f]
  BY <1>1, <1>2, <1>5 DEF g
<1>7. /\ fdSet' = IF similar /\ hookFs THEN fdSet \cup {g} ELSE fdSet
      /\ off' = off /\ pos' = pos
  BY <1>1 DEF g
<1>8. OffsetInv'
  <2> SUFFICES ASSUME doubts' \cap OffsetDoubts = {}
               PROVE  /\ \A f \in fdSet' : files'[f] \in Description /\ pos'[files'[f]] = off'
                      /\ \A f, h \in fdSet' : files'[f] = files'[h]
                      /\ \A f \in Fd, h \in fdSet' : files'[f] = files'[h] => f \in fdSet'
                      /\ fdSet' = {} => off' = 0
    BY DEF OffsetInv
  <2>1. ~(similar /\ hookFs)
    BY <1>3, WhenFacts DEF OffsetDoubts
  <2>2. /\ \A f \in fdSet : files[f] \in Description /\ pos[files[f]] = off
        /\ \A f, h \in fdSet : files[f] = files[h]
        /\ \A f \in Fd, h \in fdSet : files[f] = files[h] => f \in fdSet
        /\ fdSet = {} => off = 0
    BY <1>3 DEF IInv, OffsetInv
  <2>3. g \notin fdSet
    BY <1>2, <2>2, FileKinds
  <2> QED BY <1>5, <1>6, <1>7, <2>1, <2>2, <2>3, FileKinds
<1>9. TrackedInv'
  BY <1>3, <1>6, <1>7, FileKinds DEF IInv, TrackedInv
<1> QED BY <1>1, <1>3, <1>4, <1>8, <1>9, MemorySame DEF IInv

(* dup: the copy is tracked as its original is. *)
LEMMA DupKeeps == ASSUME IInv, Dup PROVE IInv'
<1>1. PICK f \in Fd, g \in Fd, hooked \in BOOLEAN :
        /\ Step(When(g \in fdSet /\ files[g] # files[f], "replaced")
                \cup When(~hooked /\ f \in fdSet, "fcntl"))
        /\ f # g /\ files[f] # Closed
        /\ hooked \/ files[g] = Closed
        /\ files' = [files EXCEPT ![g] = files[f]]
        /\ fdSet' = IF hooked /\ f \in fdSet THEN fdSet \cup {g} ELSE fdSet
        /\ UNCHANGED <<shadow, brkPage, brkEnd, off, running, mapped, mem, brkNow, pos>>
  BY DEF Dup
<1>2. /\ doubts' = doubts \cup (When(g \in fdSet /\ files[g] # files[f], "replaced")
                               \cup When(~hooked /\ f \in fdSet, "fcntl"))
      /\ calls' \in Nat /\ hookFs' \in BOOLEAN
  BY <1>1, StepFacts DEF IInv
<1>3. TypeOK'
  BY <1>1, <1>2 DEF IInv, TypeOK
<1>4. files \in [Fd -> {Closed, Other} \cup Description] /\ fdSet \subseteq Fd
  BY DEF IInv, TypeOK
<1>5. files'[g] = files[f] /\ \A h \in Fd \ {g} : files'[h] = files[h]
  BY <1>1, <1>4
<1>6. OffsetInv'
  <2> SUFFICES ASSUME doubts' \cap OffsetDoubts = {}
               PROVE  /\ \A h \in fdSet' : files'[h] \in Description /\ pos'[files'[h]] = off'
                      /\ \A h, k \in fdSet' : files'[h] = files'[k]
                      /\ \A h \in Fd, k \in fdSet' : files'[h] = files'[k] => h \in fdSet'
                      /\ fdSet' = {} => off' = 0
    BY DEF OffsetInv
  <2>1. (g \in fdSet => files[g] = files[f]) /\ (f \in fdSet => hooked)
    BY <1>2, WhenFacts DEF OffsetDoubts
  <2>2. /\ \A h \in fdSet : files[h] \in Description /\ pos[files[h]] = off
        /\ \A h, k \in fdSet : files[h] = files[k]
        /\ \A h \in Fd, k \in fdSet : files[h] = files[k] => h \in fdSet
        /\ fdSet = {} => off = 0
    BY <1>2 DEF IInv, OffsetInv
  <2>3. CASE f \in fdSet
    BY <1>1, <1>4, <1>5, <2>1, <2>2, <2>3
  <2>4. CASE f \notin fdSet
    BY <1>1, <1>4, <1>5, <2>1, <2>2, <2>4
  <2> QED BY <2>3, <2>4
<1>7. TrackedInv'
  <2>1. doubts' = {} => (f \in fdSet => hooked)
    BY <1>2, WhenFacts
  <2> QED BY <1>1, <1>2, <1>5, <2>1 DEF IInv, TrackedInv
<1> QED BY <1>1, <1>2, <1>3, <1>6, <1>7, MemorySame DEF IInv

(* close: a tracked descriptor is forgotten and the offset reset. *)
LEMMA CloseKeeps == ASSUME IInv, Close PROVE IInv'
<1>1. PICK f \in Fd :
        /\ Step(When(f \in fdSet /\ fdSet # {f}, "several"))
        /\ files[f] # Closed
        /\ files' = [files EXCEPT ![f] = Closed]
        /\ fdSet' = fdSet \ {f}
        /\ off' = CloseOffset(f)
        /\ UNCHANGED <<shadow, brkPage, brkEnd, running, mapped, mem, brkNow, pos>>
  BY DEF Close
<1>2. /\ doubts' = doubts \cup When(f \in fdSet /\ fdSet # {f}, "several")
      /\ calls' \in Nat /\ hookFs' \in BOOLEAN
  BY <1>1, StepFacts DEF IInv
<1>3. TypeOK'
  BY <1>1, <1>2 DEF IInv, TypeOK, CloseOffset
<1>4. files \in [Fd -> {Closed, Other} \cup Description] /\ fdSet \subseteq Fd
  BY DEF IInv, TypeOK
<1>5. files'[f] = Closed /\ \A h \in Fd \ {f} : files'[h] = files[h]
  BY <1>1, <1>4
<1>6. OffsetInv'
  <2> SUFFICES ASSUME doubts' \cap OffsetDoubts = {}
               PROVE  /\ \A h \in fdSet' : files'[h] \in Description /\ pos'[files'[h]] = off'
                      /\ \A h, k \in fdSet' : files'[h] = files'[k]
                      /\ \A h \in Fd, k \in fdSet' : files'[h] = files'[k] => h \in fdSet'
                      /\ fdSet' = {} => off' = 0
    BY DEF OffsetInv
  <2>1. f \in fdSet => fdSet = {f}
    BY <1>2, WhenFacts DEF OffsetDoubts
  <2>2. /\ \A h \in fdSet : files[h] \in Description /\ pos[files[h]] = off
        /\ \A h, k \in fdSet : files[h] = files[k]
        /\ \A h \in Fd, k \in fdSet : files[h] = files[k] => h \in fdSet
        /\ fdSet = {} => off = 0
    BY <1>2 DEF IInv, OffsetInv
  <2>3. CASE f \in fdSet
    BY <1>1, <2>1, <2>3 DEF CloseOffset
  <2>4. CASE f \notin fdSet
    BY <1>1, <1>4, <1>5, <2>2, <2>4, FileKinds DEF CloseOffset
  <2> QED BY <2>3, <2>4
<1>7. TrackedInv'
  BY <1>1, <1>2, <1>5, FileKinds DEF IInv, TrackedInv
<1> QED BY <1>1, <1>2, <1>3, <1>6, <1>7, MemorySame DEF IInv

(* lseek on a tracked descriptor sets the offset. *)
LEMMA LSeekKeeps == ASSUME IInv, LSeek PROVE IInv'
<1>1. PICK f \in Fd, ret \in (-1)..InputLen :
        /\ files[f] \notin {Closed, Other}
        /\ Step(When(ret = -1 /\ hookFs /\ f \in fdSet, "failed") \cup When(ret # -1 /\ ~hookFs, "stdin"))
        /\ pos' = IF ret = -1 THEN pos ELSE [pos EXCEPT ![files[f]] = ret]
        /\ off' = SeekFrom(f, ret)
        /\ UNCHANGED <<shadow, brkPage, brkEnd, fdSet, running, mapped, mem, brkNow, files>>
  BY DEF LSeek
<1>2. /\ doubts' = doubts \cup When(ret = -1 /\ hookFs /\ f \in fdSet, "failed")
                          \cup When(ret # -1 /\ ~hookFs, "stdin")
      /\ calls' \in Nat /\ hookFs' \in BOOLEAN
  BY <1>1, StepFacts DEF IInv
<1>3. files \in [Fd -> {Closed, Other} \cup Description] /\ pos \in [Description -> Nat] /\ fdSet \subseteq Fd
  BY DEF IInv, TypeOK
<1>4. files[f] \in Description /\ ret \in Int /\ (ret # -1 => ret \in Nat)
  BY <1>1, <1>3, SizeAssumption
<1>5. pos' \in [Description -> Nat] /\ off' \in Int
  BY <1>1, <1>3, <1>4 DEF IInv, TypeOK, SeekFrom
<1>6. TypeOK'
  BY <1>1, <1>2, <1>5 DEF IInv, TypeOK
<1>7. OffsetInv'
  <2> SUFFICES ASSUME doubts' \cap OffsetDoubts = {}
               PROVE  /\ \A h \in fdSet : files[h] \in Description /\ pos'[files[h]] = off'
                      /\ \A h, k \in fdSet : files[h] = files[k]
                      /\ \A h \in Fd, k \in fdSet : files[h] = files[k] => h \in fdSet
                      /\ fdSet = {} => off' = 0
    BY <1>1 DEF OffsetInv
  <2>1. ~(ret = -1 /\ hookFs /\ f \in fdSet) /\ ~(ret # -1 /\ ~hookFs)
    BY <1>2, WhenFacts DEF OffsetDoubts
  <2>2. /\ \A h \in fdSet : files[h] \in Description /\ pos[files[h]] = off
        /\ \A h, k \in fdSet : files[h] = files[k]
        /\ \A h \in Fd, k \in fdSet : files[h] = files[k] => h \in fdSet
        /\ fdSet = {} => off = 0
    BY <1>2 DEF IInv, OffsetInv
  <2>3. CASE f \in fdSet
    BY <1>1, <1>3, <1>4, <2>1, <2>2, <2>3 DEF SeekFrom
  <2>4. CASE f \notin fdSet
    <3>1. \A h \in fdSet : pos'[files[h]] = pos[files[h]]
      BY <1>1, <1>3, <1>4, <2>2, <2>4
    <3> QED BY <1>1, <2>2, <2>4, <3>1 DEF SeekFrom
  <2> QED BY <2>3, <2>4
<1>8. TrackedInv'
  BY <1>1, <1>2 DEF IInv, TrackedInv
<1> QED BY <1>1, <1>2, <1>6, <1>7, <1>8, MemorySame DEF IInv

-----------------------------------------------------------------------------
(* Writes to memory that the program has *)

(* The kernel or the program writes vals, the tool its expressions exprs. *)
LEMMA WriteKeeps ==
    ASSUME IInv, running, doubts \subseteq doubts',
           NEW vals, NEW exprs, DOMAIN exprs = DOMAIN vals, NEW top \in Nat,
           \A a \in DOMAIN vals : a \in Int /\ a <= top /\ PageOf(a) \in mapped \ {VdsoPage},
           \A a \in DOMAIN vals : vals[a] \in Int /\ exprs[a] \in Int,
           Assign(shadow, exprs), UNCHANGED <<brkPage, brkEnd, mapped>>,
           \A a \in Addr : mem'[a] = IF a \in DOMAIN vals THEN vals[a] ELSE mem[a],
           doubts' \cap (OffsetDoubts \cup PageDoubts) = {} =>
               \A a \in DOMAIN vals : exprs[a] \in {None, vals[a]},
           doubts' = {} => \A a \in DOMAIN vals : vals[a] # None => exprs[a] = vals[a]
    PROVE  /\ IsShadow(shadow') /\ running' \in BOOLEAN /\ Lean(shadow, brkPage)'
           /\ PageInv' /\ ShadowIsInput' /\ InputIsTracked'
<1>1. IsShadow(shadow) /\ mapped \subseteq Page /\ running \in BOOLEAN /\ Lean(shadow, brkPage)
  BY DEF IInv, TypeOK
<1>2. DOMAIN exprs \subseteq Addr
  BY <1>1, InAddr
<1>3. /\ IsShadow(shadow') /\ Lean(shadow', brkPage) /\ running' \in BOOLEAN
      /\ Sound(shadow, brkPage, brkEnd, mapped) =>
            /\ running' = running
            /\ Sound(shadow', brkPage, brkEnd, mapped)
            /\ \A a \in Addr : Cell(shadow', a) = IF a \in DOMAIN exprs THEN exprs[a] ELSE Cell(shadow, a)
  BY <1>1, <1>2, AssignFacts
<1>4. doubts' \cap PageDoubts = {} => Sound(shadow, brkPage, brkEnd, mapped)
  BY DEF IInv, PageInv
<1>5. PageInv'
  BY <1>3, <1>4 DEF PageInv
<1>6. ShadowIsInput'
  <2> SUFFICES ASSUME doubts' \cap (OffsetDoubts \cup PageDoubts) = {}, NEW a \in Addr, PageOf(a) \in mapped
               PROVE  Cell(shadow', a) \in {None, mem'[a]}
    BY DEF ShadowIsInput, Bytes
  <2>1. Cell(shadow', a) = IF a \in DOMAIN exprs THEN exprs[a] ELSE Cell(shadow, a)
    BY <1>3, <1>4
  <2>2. Cell(shadow, a) \in {None, mem[a]}
    BY BytesFacts DEF IInv, ShadowIsInput
  <2> QED BY <2>1, <2>2
<1>7. InputIsTracked'
  <2> SUFFICES ASSUME doubts' = {}, NEW a \in Addr, PageOf(a) \in mapped, mem'[a] # None
               PROVE  Cell(shadow', a) = mem'[a]
    BY DEF InputIsTracked, Bytes
  <2>1. Cell(shadow', a) = IF a \in DOMAIN exprs THEN exprs[a] ELSE Cell(shadow, a)
    BY <1>3, <1>4
  <2>2. mem[a] # None => Cell(shadow, a) = mem[a]
    BY BytesFacts DEF IInv, InputIsTracked
  <2> QED BY <2>1, <2>2
<1> QED BY <1>3, <1>5, <1>6, <1>7

(* The bytes of a buffer that the program owns are mapped, and apart from the vdso. *)
LEMMA OwnedFacts ==
    ASSUME TypeOK, NEW a \in Int, NEW n \in Int, Owned(a, n)
    PROVE  \A x \in a..(a + n - 1) : /\ x \in Int /\ x <= a + n - 1
                                     /\ PageOf(x) \in mapped \ {VdsoPage} /\ x \in Addr
<1> TAKE x \in a..(a + n - 1)
<1>1. x \in Int /\ x <= a + n - 1 /\ PageOf(x) \in mapped \ {VdsoPage}
  BY DEF Owned
<1> QED BY <1>1, InAddr DEF TypeOK

(* A cell is a number. *)
LEMMA CellType == ASSUME NEW s, IsShadow(s), NEW a \in Addr PROVE Cell(s, a) \in Int
<1>1. OffsetOf(a) \in Offset
  BY AddrFacts
<1> QED BY <1>1 DEF IsShadow, Cell, None

(* A move copies the expression with the byte. *)
LEMMA MoveKeeps == ASSUME IInv, Move PROVE IInv'
<1>1. PICK a \in Buffer, b \in Buffer, own \in BOOLEAN :
        /\ a # b /\ Owned(a, 1) /\ Owned(b, 1)
        /\ Step({})
        /\ mem' = [mem EXCEPT ![b] = IF own THEN None ELSE mem[a]]
        /\ Assign(shadow, [x \in {b} |-> IF own THEN None ELSE Cell(shadow, a)])
        /\ UNCHANGED <<brkPage, brkEnd, off, fdSet, mapped, brkNow, files, pos>>
  BY DEF Move
<1> DEFINE vals == [x \in {b} |-> IF own THEN None ELSE mem[a]]
<1> DEFINE exprs == [x \in {b} |-> IF own THEN None ELSE Cell(shadow, a)]
<1>2. running /\ calls' \in Nat /\ hookFs' \in BOOLEAN /\ doubts' = doubts
  BY <1>1, StepFacts DEF IInv
<1>3. a \in Nat /\ b \in Nat
  BY ArgumentAssumption
<1>4. /\ PageOf(a) \in mapped \ {VdsoPage} /\ a \in Addr
      /\ PageOf(b) \in mapped \ {VdsoPage} /\ b \in Addr
  <2>1. a \in a..(a + 1 - 1) /\ b \in b..(b + 1 - 1)
    BY <1>3
  <2> QED BY <1>1, <1>3, <2>1, OwnedFacts DEF IInv
<1>5. mem \in [Addr -> Int] /\ IsShadow(shadow)
  BY DEF IInv, TypeOK
<1>6. mem[a] \in Int /\ Cell(shadow, a) \in Int /\ None \in Int
  BY <1>4, <1>5, CellType DEF None
<1>7. \A c \in Addr : mem'[c] = IF c \in DOMAIN vals THEN vals[c] ELSE mem[c]
  BY <1>1, <1>4, <1>5
<1>8. doubts' \cap (OffsetDoubts \cup PageDoubts) = {} => Cell(shadow, a) \in {None, mem[a]}
  BY <1>2, <1>4, BytesFacts DEF IInv, ShadowIsInput
<1>9. doubts' = {} => (mem[a] # None => Cell(shadow, a) = mem[a])
  BY <1>2, <1>4, BytesFacts DEF IInv, InputIsTracked
<1>10. /\ IsShadow(shadow') /\ running' \in BOOLEAN /\ Lean(shadow, brkPage)'
       /\ PageInv' /\ ShadowIsInput' /\ InputIsTracked'
  <2>1. DOMAIN exprs = DOMAIN vals /\ DOMAIN vals = {b}
    OBVIOUS
  <2>2. \A c \in DOMAIN vals : c \in Int /\ c <= b /\ PageOf(c) \in mapped \ {VdsoPage}
    BY <1>3, <1>4
  <2>3. \A c \in DOMAIN vals : vals[c] \in Int /\ exprs[c] \in Int
    BY <1>6
  <2>4. doubts' \cap (OffsetDoubts \cup PageDoubts) = {} => \A c \in DOMAIN vals : exprs[c] \in {None, vals[c]}
    BY <1>8
  <2>5. doubts' = {} => \A c \in DOMAIN vals : vals[c] # None => exprs[c] = vals[c]
    BY <1>9
  <2>6. Assign(shadow, exprs)
    BY <1>1
  <2> HIDE DEF vals, exprs
  <2> QED BY <1>1, <1>2, <1>3, <1>7, <2>1, <2>2, <2>3, <2>4, <2>5, <2>6, WriteKeeps
<1>11. mem' \in [Addr -> Int]
  BY <1>1, <1>5, <1>6
<1>12. TypeOK'
  BY <1>1, <1>2, <1>10, <1>11 DEF IInv, TypeOK
<1> QED BY <1>1, <1>2, <1>10, <1>12, FilesSame DEF IInv

(* Another call, with arguments that the table says it fills, or none. *)
LEMMA OtherCallKeeps == ASSUME IInv, OtherCall PROVE IInv'
<1>1. PICK a \in Buffer, fails \in BOOLEAN, hooked \in BOOLEAN :
        /\ Step(When(hooked /\ fails /\ mem[a] # None, "error")
                \cup When(~hooked /\ ~fails /\ Cell(shadow, a) # None, "unhooked"))
        /\ Owned(a, 1)
        /\ mem' = IF fails THEN mem ELSE [mem EXCEPT ![a] = None]
        /\ IF hooked THEN Assign(shadow, Clear(a, 1)) ELSE UNCHANGED <<shadow, running>>
        /\ UNCHANGED <<brkPage, brkEnd, off, fdSet, mapped, brkNow, files, pos>>
  BY DEF OtherCall
<1> DEFINE vals == [x \in {a} |-> IF fails THEN mem[a] ELSE None]
<1> DEFINE exprs == Clear(a, 1)
<1>2. /\ running /\ calls' \in Nat /\ hookFs' \in BOOLEAN
      /\ doubts' = doubts \cup (When(hooked /\ fails /\ mem[a] # None, "error")
                               \cup When(~hooked /\ ~fails /\ Cell(shadow, a) # None, "unhooked"))
  BY <1>1, StepFacts DEF IInv
<1>3. a \in Nat /\ a..(a + 1 - 1) = {a}
  BY ArgumentAssumption
<1>4. PageOf(a) \in mapped \ {VdsoPage} /\ a \in Addr
  BY <1>1, <1>3, OwnedFacts DEF IInv
<1>5. mem \in [Addr -> Int] /\ mem[a] \in Int /\ None \in Int
  BY <1>4 DEF IInv, TypeOK, None
<1>6. DOMAIN exprs = {a} /\ exprs[a] = None
  BY <1>3 DEF Clear
<1>7. \A c \in Addr : mem'[c] = IF c \in DOMAIN vals THEN vals[c] ELSE mem[c]
  BY <1>1, <1>4, <1>5
<1>8. doubts' = {} => (hooked => vals[a] = None)
  BY <1>2, WhenFacts
<1> DEFINE Goal == /\ IsShadow(shadow') /\ running' \in BOOLEAN /\ Lean(shadow, brkPage)'
                   /\ PageInv' /\ ShadowIsInput' /\ InputIsTracked'
<1>9. ASSUME hooked PROVE Goal
  <2>1. DOMAIN exprs = DOMAIN vals /\ DOMAIN vals = {a}
    BY <1>6
  <2>2. \A c \in DOMAIN vals : vals[c] \in Int /\ exprs[c] \in Int
    BY <1>5, <1>6
  <2>3. Assign(shadow, exprs)
    BY <1>1, <1>9
  <2> HIDE DEF vals, exprs
  <2>4. \A c \in DOMAIN vals : c \in Int /\ c <= a /\ PageOf(c) \in mapped \ {VdsoPage}
    BY <1>3, <1>4, <2>1
  <2>5. doubts' \cap (OffsetDoubts \cup PageDoubts) = {} => \A c \in DOMAIN vals : exprs[c] \in {None, vals[c]}
    BY <1>6, <2>1
  <2>6. doubts' = {} => \A c \in DOMAIN vals : vals[c] # None => exprs[c] = vals[c]
    BY <1>8, <1>9, <2>1
  <2> QED BY <1>1, <1>2, <1>3, <1>7, <2>1, <2>2, <2>3, <2>4, <2>5, <2>6, WriteKeeps
<1>13. ASSUME ~hooked PROVE Goal
  <2>1. UNCHANGED <<shadow, running, brkPage, brkEnd, mapped>> /\ doubts \subseteq doubts'
    BY <1>1, <1>2, <1>13
  <2>2. IsShadow(shadow') /\ running' \in BOOLEAN /\ Lean(shadow, brkPage)' /\ PageInv'
    BY <2>1 DEF IInv, TypeOK, Lean, PageInv, Sound, Backed, Aligned, HeapInv
  <2>3. \A c \in Addr : c # a => mem'[c] = mem[c]
    BY <1>7
  <2>4. doubts' \cap OffsetDoubts = {} => mem'[a] = mem[a] \/ Cell(shadow, a) = None
    <3>1. doubts' \cap OffsetDoubts = {} => fails \/ Cell(shadow, a) = None
      BY <1>2, <1>13, WhenFacts DEF OffsetDoubts
    <3>2. fails => mem'[a] = mem[a]
      BY <1>1
    <3> QED BY <3>1, <3>2
  <2>5. mem'[a] = mem[a] \/ mem'[a] = None
    BY <1>4, <1>7
  <2>6. ShadowIsInput'
    <3> SUFFICES ASSUME doubts' \cap (OffsetDoubts \cup PageDoubts) = {}, NEW c \in Addr, PageOf(c) \in mapped
                 PROVE  Cell(shadow, c) \in {None, mem'[c]}
      BY <2>1 DEF ShadowIsInput, Bytes
    <3>1. Cell(shadow, c) \in {None, mem[c]}
      BY <2>1, BytesFacts DEF IInv, ShadowIsInput
    <3> QED BY <2>3, <2>4, <3>1
  <2>7. InputIsTracked'
    <3> SUFFICES ASSUME doubts' = {}, NEW c \in Addr, PageOf(c) \in mapped, mem'[c] # None
                 PROVE  Cell(shadow, c) = mem'[c]
      BY <2>1 DEF InputIsTracked, Bytes
    <3>1. mem[c] # None => Cell(shadow, c) = mem[c]
      BY <2>1, BytesFacts DEF IInv, InputIsTracked
    <3> QED BY <2>3, <2>5, <3>1
  <2> QED BY <2>2, <2>6, <2>7
<1>14. Goal
  BY <1>9, <1>13
<1>10. mem' \in [Addr -> Int]
  BY <1>1, <1>5
<1>11. TypeOK'
  BY <1>1, <1>2, <1>14, <1>10 DEF IInv, TypeOK
<1> QED BY <1>1, <1>2, <1>14, <1>11, FilesSame DEF IInv

(* pread reads at its own offset and moves none. *)
LEMMA PreadKeeps == ASSUME IInv, Pread PROVE IInv'
<1>1. PICK f \in Fd, a \in Buffer, o \in 0..(InputLen - 1), vector \in BOOLEAN :
        /\ Step(When(vector /\ files[f] # Other, "preadv"))
        /\ files[f] # Closed /\ Owned(a, 1)
        /\ mem' = Filled(Kernel(f, a, 1, o))
        /\ Assign(shadow, IF f \in fdSet /\ ~vector THEN MakeExpr(a, 1, o) ELSE Clear(a, 1))
        /\ UNCHANGED <<brkPage, brkEnd, off, fdSet, mapped, brkNow, files, pos>>
  BY DEF Pread
<1> DEFINE vals == Kernel(f, a, 1, o)
<1> DEFINE exprs == IF f \in fdSet /\ ~vector THEN MakeExpr(a, 1, o) ELSE Clear(a, 1)
<1>2. /\ running /\ calls' \in Nat /\ hookFs' \in BOOLEAN
      /\ doubts' = doubts \cup When(vector /\ files[f] # Other, "preadv")
  BY <1>1, StepFacts DEF IInv
<1>3. a \in Nat /\ o \in Int /\ a..(a + 1 - 1) = {a}
  BY ArgumentAssumption, SizeAssumption
<1>4. PageOf(a) \in mapped \ {VdsoPage} /\ a \in Addr
  BY <1>1, <1>3, OwnedFacts DEF IInv
<1>5. /\ DOMAIN vals = {a} /\ vals[a] \in Int /\ vals[a] = IF files[f] = Other THEN None ELSE o + a - a
      /\ DOMAIN exprs = {a} /\ exprs[a] \in Int /\ exprs[a] = IF f \in fdSet /\ ~vector THEN o + a - a ELSE None
  <2> DEFINE made == MakeExpr(a, 1, o)
  <2> DEFINE none == Clear(a, 1)
  <2>1. vals = (IF files[f] = Other THEN none ELSE made) /\ exprs = IF f \in fdSet /\ ~vector THEN made ELSE none
    BY DEF Kernel
  <2>2. DOMAIN made = {a} /\ made[a] = o + a - a /\ made[a] \in Int
    BY <1>3 DEF MakeExpr
  <2>3. DOMAIN none = {a} /\ none[a] = None /\ none[a] \in Int
    BY <1>3 DEF Clear, None
  <2> HIDE DEF vals, exprs, made, none
  <2> QED BY <2>1, <2>2, <2>3
<1>6. mem' = [x \in Addr |-> IF x \in DOMAIN vals THEN vals[x] ELSE mem[x]] /\ Assign(shadow, exprs)
  BY <1>1 DEF Filled
<1> HIDE DEF vals, exprs
<1>7. mem' \in [Addr -> Int]
  BY <1>5, <1>6 DEF IInv, TypeOK
<1>8. doubts' \cap (OffsetDoubts \cup PageDoubts) = {} => exprs[a] \in {None, vals[a]}
  <2> SUFFICES ASSUME doubts \cap (OffsetDoubts \cup PageDoubts) = {}, f \in fdSet /\ ~vector
               PROVE  exprs[a] = vals[a]
    BY <1>2, <1>5
  <2>1. files[f] \in Description
    BY DEF IInv, OffsetInv
  <2> QED BY <1>5, <2>1, FileKinds
<1>9. doubts' = {} => (vals[a] # None => exprs[a] = vals[a])
  <2> SUFFICES ASSUME doubts = {}, files[f] # Other, ~vector PROVE exprs[a] = vals[a]
    BY <1>2, <1>5, WhenFacts
  <2>1. files[f] \in Description
    BY <1>1 DEF IInv, TypeOK
  <2>2. f \in fdSet
    BY <2>1 DEF IInv, TrackedInv
  <2> QED BY <1>5, <2>2
<1>10. /\ IsShadow(shadow') /\ running' \in BOOLEAN /\ Lean(shadow, brkPage)'
       /\ PageInv' /\ ShadowIsInput' /\ InputIsTracked'
  <2>1. \A c \in DOMAIN vals : c \in Int /\ c <= a /\ PageOf(c) \in mapped \ {VdsoPage}
    BY <1>3, <1>4, <1>5
  <2>2. \A c \in DOMAIN vals : vals[c] \in Int /\ exprs[c] \in Int
    BY <1>5
  <2>3. doubts' \cap (OffsetDoubts \cup PageDoubts) = {} => \A c \in DOMAIN vals : exprs[c] \in {None, vals[c]}
    BY <1>5, <1>8
  <2>4. doubts' = {} => \A c \in DOMAIN vals : vals[c] # None => exprs[c] = vals[c]
    BY <1>5, <1>9
  <2> QED BY <1>1, <1>2, <1>3, <1>5, <1>6, <2>1, <2>2, <2>3, <2>4, WriteKeeps
<1>11. TypeOK'
  BY <1>1, <1>2, <1>7, <1>10 DEF IInv, TypeOK
<1> QED BY <1>1, <1>2, <1>10, <1>11, FilesSame DEF IInv

(* A tracked descriptor is one of the input, at the offset off_; and without *)
(* doubts each descriptor of the input is tracked.                           *)
LEMMA TrackedAt ==
    ASSUME IInv, NEW f \in Fd, files[f] # Closed
    PROVE  /\ doubts \cap OffsetDoubts = {} /\ f \in fdSet => files[f] # Other /\ pos[files[f]] = off
           /\ doubts = {} /\ files[f] # Other => f \in fdSet
<1>1. files[f] \in {Closed, Other} \cup Description
  BY DEF IInv, TypeOK
<1>2. doubts \cap OffsetDoubts = {} /\ f \in fdSet => files[f] \in Description /\ pos[files[f]] = off
  BY DEF IInv, OffsetInv
<1>3. doubts = {} /\ files[f] \in Description => f \in fdSet
  BY DEF IInv, TrackedInv
<1> QED BY <1>1, <1>2, <1>3, FileKinds

(* A read moves the offset of the file and off_ by the same count. *)
LEMMA ReadOffsets ==
    ASSUME IInv, NEW f \in Fd, NEW ret \in Nat, files[f] # Closed, doubts' = doubts,
           pos' = IF files[f] = Other THEN pos ELSE [pos EXCEPT ![files[f]] = @ + ret],
           off' = IF f \in fdSet THEN off + ret ELSE off, UNCHANGED <<fdSet, files>>
    PROVE  pos' \in [Description -> Nat] /\ off' \in Int /\ OffsetInv' /\ TrackedInv'
<1>1. /\ files \in [Fd -> {Closed, Other} \cup Description] /\ pos \in [Description -> Nat]
      /\ off \in Int /\ fdSet \subseteq Fd
  BY DEF IInv, TypeOK
<1>2. files[f] # Other => files[f] \in Description
  BY <1>1
<1>3. pos' \in [Description -> Nat] /\ off' \in Int
  BY <1>1, <1>2
<1>4. OffsetInv'
  <2> SUFFICES ASSUME doubts \cap OffsetDoubts = {}
               PROVE  /\ \A h \in fdSet : files[h] \in Description /\ pos'[files[h]] = off'
                      /\ \A h, k \in fdSet : files[h] = files[k]
                      /\ \A h \in Fd, k \in fdSet : files[h] = files[k] => h \in fdSet
                      /\ fdSet = {} => off' = 0
    BY DEF OffsetInv
  <2>1. /\ \A h \in fdSet : files[h] \in Description /\ pos[files[h]] = off
        /\ \A h, k \in fdSet : files[h] = files[k]
        /\ \A h \in Fd, k \in fdSet : files[h] = files[k] => h \in fdSet
        /\ fdSet = {} => off = 0
    BY DEF IInv, OffsetInv
  <2>2. CASE f \in fdSet
    <3>1. files[f] # Other
      BY <2>1, <2>2, FileKinds
    <3>2. \A h \in fdSet : pos'[files[h]] = off + ret
      BY <1>1, <1>2, <2>1, <2>2, <3>1
    <3> QED BY <2>1, <2>2, <3>2
  <2>3. CASE f \notin fdSet
    <3>1. \A h \in fdSet : files[h] # files[f]
      BY <2>1, <2>3
    <3>2. \A h \in fdSet : pos'[files[h]] = pos[files[h]]
      BY <1>1, <1>2, <2>1, <3>1
    <3> QED BY <2>1, <2>3, <3>2
  <2> QED BY <2>2, <2>3
<1>5. TrackedInv'
  BY DEF IInv, TrackedInv
<1> QED BY <1>3, <1>4, <1>5

(* A read returns at most what was asked for. *)
LEMMA AvailableFacts ==
    ASSUME NEW f, NEW n \in Nat, NEW o \in Int
    PROVE  Available(f, n, o) \in Int /\ Available(f, n, o) <= n
<1>1. InputLen - o \in Int
  BY SizeAssumption
<1>2. \A x, y \in Int : Min({x, y}) \in Int /\ Min({x, y}) <= x
  <2> TAKE x \in Int, y \in Int
  <2>1. \E m \in {x, y} : \A k \in {x, y} : m <= k
    OBVIOUS
  <2>2. Min({x, y}) \in {x, y} /\ \A k \in {x, y} : Min({x, y}) <= k
    BY <2>1 DEF Min
  <2> QED BY <2>2
<1> QED BY <1>1, <1>2 DEF Available

(* read gives the bytes read their expressions. *)
LEMMA ReadKeeps == ASSUME IInv, Read PROVE IInv'
<1> DEFINE at(f) == IF files[f] = Other THEN 0 ELSE pos[files[f]]
<1>1. PICK f \in Fd, a \in Buffer, n \in 1..2 :
        LET o == at(f)
            ret == Available(f, n, o)
        IN  /\ files[f] # Closed
            /\ ret > 0 /\ Owned(a, ret)
            /\ Step({})
            /\ mem' = Filled(Kernel(f, a, ret, o))
            /\ pos' = IF files[f] = Other THEN pos ELSE [pos EXCEPT ![files[f]] = @ + ret]
            /\ Assign(shadow, IF f \in fdSet THEN MakeExpr(a, ret, off) ELSE Clear(a, ret))
            /\ off' = IF f \in fdSet THEN off + ret ELSE off
            /\ UNCHANGED <<brkPage, brkEnd, fdSet, mapped, brkNow, files>>
  BY DEF Read
<1> DEFINE o == at(f)
<1> DEFINE ret == Available(f, n, o)
<1> DEFINE S == a..(a + ret - 1)
<1> DEFINE vals == Kernel(f, a, ret, o)
<1> DEFINE exprs == IF f \in fdSet THEN MakeExpr(a, ret, off) ELSE Clear(a, ret)
<1>2. running /\ calls' \in Nat /\ hookFs' \in BOOLEAN /\ doubts' = doubts
  BY <1>1, StepFacts DEF IInv
<1>3. o \in Int /\ (files[f] # Other => o = pos[files[f]])
  BY <1>1 DEF IInv, TypeOK
<1>4. a \in Nat /\ off \in Int
  BY ArgumentAssumption DEF IInv, TypeOK
<1>5. ret \in Nat /\ ret # 0
  <2>1. ret \in Int
    <3> HIDE DEF o
    <3> QED BY <1>3, AvailableFacts
  <2>2. ret > 0
    BY <1>1
  <2> HIDE DEF ret
  <2> QED BY <2>1, <2>2
<1>6. /\ files[f] # Closed /\ Owned(a, ret)
      /\ mem' = [x \in Addr |-> IF x \in DOMAIN vals THEN vals[x] ELSE mem[x]]
      /\ pos' = IF files[f] = Other THEN pos ELSE [pos EXCEPT ![files[f]] = @ + ret]
      /\ Assign(shadow, exprs)
      /\ off' = IF f \in fdSet THEN off + ret ELSE off
      /\ UNCHANGED <<brkPage, brkEnd, fdSet, mapped, brkNow, files>>
  BY <1>1 DEF Filled
<1>7. /\ vals = IF files[f] = Other THEN Clear(a, ret) ELSE MakeExpr(a, ret, o)
      /\ exprs = IF f \in fdSet THEN MakeExpr(a, ret, off) ELSE Clear(a, ret)
  BY DEF Kernel
<1> HIDE DEF o, ret, vals, exprs, at
<1>8. /\ DOMAIN vals = S /\ \A x \in S : vals[x] \in Int /\ vals[x] = IF files[f] = Other THEN None ELSE o + x - a
      /\ DOMAIN exprs = S /\ \A x \in S : exprs[x] \in Int /\ exprs[x] = IF f \in fdSet THEN off + x - a ELSE None
  BY <1>3, <1>4, <1>5, <1>7 DEF MakeExpr, Clear, None
<1>9. \A x \in S : x \in Int /\ x <= a + ret - 1 /\ PageOf(x) \in mapped \ {VdsoPage} /\ x \in Addr
  BY <1>4, <1>5, <1>6, OwnedFacts DEF IInv
<1>10. a + ret - 1 \in Nat
  BY <1>4, <1>5
<1> HIDE DEF S
<1>11. doubts' \cap (OffsetDoubts \cup PageDoubts) = {} => \A x \in S : exprs[x] \in {None, vals[x]}
  BY <1>2, <1>3, <1>6, <1>8, TrackedAt
<1>12. doubts' = {} => \A x \in S : vals[x] # None => exprs[x] = vals[x]
  BY <1>2, <1>3, <1>6, <1>8, TrackedAt
<1>13. /\ IsShadow(shadow') /\ running' \in BOOLEAN /\ Lean(shadow, brkPage)'
       /\ PageInv' /\ ShadowIsInput' /\ InputIsTracked'
  <2>1. \A c \in DOMAIN vals : c \in Int /\ c <= a + ret - 1 /\ PageOf(c) \in mapped \ {VdsoPage}
    BY <1>8, <1>9
  <2>2. \A c \in Addr : mem'[c] = IF c \in DOMAIN vals THEN vals[c] ELSE mem[c]
    BY <1>6
  <2> QED BY <1>2, <1>6, <1>8, <1>10, <1>11, <1>12, <2>1, <2>2, WriteKeeps
<1>14. mem' \in [Addr -> Int]
  BY <1>6, <1>8 DEF IInv, TypeOK
<1>15. pos' \in [Description -> Nat] /\ off' \in Int /\ OffsetInv' /\ TrackedInv'
  BY <1>2, <1>5, <1>6, ReadOffsets
<1>16. TypeOK'
  BY <1>2, <1>6, <1>13, <1>14, <1>15 DEF IInv, TypeOK
<1> QED BY <1>13, <1>15, <1>16 DEF IInv

(* readv does so for each buffer in turn. *)
LEMMA ReadvKeeps == ASSUME IInv, Readv PROVE IInv'
<1> DEFINE at(f) == IF files[f] = Other THEN 0 ELSE pos[files[f]]
<1> DEFINE V(ret, a, b, from) == [x \in IF ret = 1 THEN {a} ELSE {a, b} |-> IF x = a THEN from ELSE from + 1]
<1>1. PICK f \in Fd, a \in Buffer, b \in Buffer :
        LET o == at(f)
            ret == Available(f, 2, o)
            vals(from) == V(ret, a, b, from)
            none == [x \in DOMAIN vals(0) |-> None]
        IN  /\ Step({})
            /\ files[f] # Closed /\ a # b
            /\ ret > 0 /\ Owned(a, 1) /\ Owned(b, 1)
            /\ mem' = Filled(IF files[f] = Other THEN none ELSE vals(o))
            /\ pos' = IF files[f] = Other THEN pos ELSE [pos EXCEPT ![files[f]] = @ + ret]
            /\ Assign(shadow, IF f \in fdSet THEN vals(off) ELSE none)
            /\ off' = IF f \in fdSet THEN off + ret ELSE off
            /\ UNCHANGED <<brkPage, brkEnd, fdSet, mapped, brkNow, files>>
  BY DEF Readv
<1> DEFINE o == at(f)
<1> DEFINE ret == Available(f, 2, o)
<1> DEFINE S == IF ret = 1 THEN {a} ELSE {a, b}
<1> DEFINE byte(from, x) == IF x = a THEN from ELSE from + 1
<1> DEFINE none == [x \in DOMAIN V(ret, a, b, 0) |-> None]
<1> DEFINE vals == IF files[f] = Other THEN none ELSE V(ret, a, b, o)
<1> DEFINE exprs == IF f \in fdSet THEN V(ret, a, b, off) ELSE none
<1>2. running /\ calls' \in Nat /\ hookFs' \in BOOLEAN /\ doubts' = doubts
  BY <1>1, StepFacts DEF IInv
<1>3. o \in Int /\ (files[f] # Other => o = pos[files[f]])
  BY <1>1 DEF IInv, TypeOK
<1>4. a \in Nat /\ b \in Nat /\ off \in Int
  BY ArgumentAssumption DEF IInv, TypeOK
<1>5. ret \in Nat
  <2>1. ret \in Int
    <3> HIDE DEF o
    <3> QED BY <1>3, AvailableFacts
  <2>2. ret > 0
    BY <1>1
  <2> HIDE DEF ret
  <2> QED BY <2>1, <2>2
<1>6. /\ files[f] # Closed /\ Owned(a, 1) /\ Owned(b, 1)
      /\ mem' = [x \in Addr |-> IF x \in DOMAIN vals THEN vals[x] ELSE mem[x]]
      /\ pos' = IF files[f] = Other THEN pos ELSE [pos EXCEPT ![files[f]] = @ + ret]
      /\ Assign(shadow, exprs)
      /\ off' = IF f \in fdSet THEN off + ret ELSE off
      /\ UNCHANGED <<brkPage, brkEnd, fdSet, mapped, brkNow, files>>
  BY <1>1 DEF Filled
<1> HIDE DEF o, ret, at
<1>7. /\ \A from \in Int : DOMAIN V(ret, a, b, from) = S /\ \A x \in S : V(ret, a, b, from)[x] = byte(from, x)
      /\ DOMAIN none = S /\ \A x \in S : none[x] = None
  OBVIOUS
<1>8. vals = (IF files[f] = Other THEN none ELSE V(ret, a, b, o)) /\ exprs = IF f \in fdSet THEN V(ret, a, b, off) ELSE none
  OBVIOUS
<1>9. \A from \in Int, x \in S : byte(from, x) \in Int
  OBVIOUS
<1> HIDE DEF vals, exprs, none, V, byte
<1>10. /\ DOMAIN vals = S /\ \A x \in S : vals[x] \in Int /\ vals[x] = IF files[f] = Other THEN None ELSE byte(o, x)
       /\ DOMAIN exprs = S /\ \A x \in S : exprs[x] \in Int /\ exprs[x] = IF f \in fdSet THEN byte(off, x) ELSE None
  <2>1. None \in Int
    BY DEF None
  <2> HIDE DEF S
  <2> QED BY <1>3, <1>4, <1>7, <1>8, <1>9, <2>1
<1>11. \A x \in S : x \in Int /\ x <= a + b /\ PageOf(x) \in mapped \ {VdsoPage}
  <2>1. a \in a..(a + 1 - 1) /\ b \in b..(b + 1 - 1)
    BY <1>4
  <2>2. PageOf(a) \in mapped \ {VdsoPage} /\ PageOf(b) \in mapped \ {VdsoPage}
    BY <1>4, <1>6, <2>1, OwnedFacts DEF IInv
  <2> QED BY <1>4, <2>2
<1> HIDE DEF S
<1>12. doubts' \cap (OffsetDoubts \cup PageDoubts) = {} => \A x \in S : exprs[x] \in {None, vals[x]}
  BY <1>2, <1>3, <1>6, <1>10, TrackedAt
<1>13. doubts' = {} => \A x \in S : vals[x] # None => exprs[x] = vals[x]
  BY <1>2, <1>3, <1>6, <1>10, TrackedAt
<1>14. /\ IsShadow(shadow') /\ running' \in BOOLEAN /\ Lean(shadow, brkPage)'
       /\ PageInv' /\ ShadowIsInput' /\ InputIsTracked'
  <2>1. \A c \in DOMAIN vals : c \in Int /\ c <= a + b /\ PageOf(c) \in mapped \ {VdsoPage}
    BY <1>10, <1>11
  <2>2. \A c \in Addr : mem'[c] = IF c \in DOMAIN vals THEN vals[c] ELSE mem[c]
    BY <1>6
  <2>3. a + b \in Nat
    BY <1>4
  <2> QED BY <1>2, <1>6, <1>10, <1>12, <1>13, <2>1, <2>2, <2>3, WriteKeeps
<1>15. mem' \in [Addr -> Int]
  BY <1>6, <1>10 DEF IInv, TypeOK
<1>16. pos' \in [Description -> Nat] /\ off' \in Int /\ OffsetInv' /\ TrackedInv'
  BY <1>2, <1>5, <1>6, ReadOffsets
<1>17. TypeOK'
  BY <1>2, <1>6, <1>14, <1>15, <1>16 DEF IInv, TypeOK
<1> QED BY <1>14, <1>16, <1>17 DEF IInv

-----------------------------------------------------------------------------
(* Mappings *)

(* A new block for the pages of start to end, which hold nothing of the input *)
LEMMA NewBlockKeeps ==
    ASSUME IInv, running, running' = running, doubts \subseteq doubts', UNCHANGED <<brkPage, brkEnd>>,
           NEW start \in Int, NEW end \in Int, mapped' \subseteq Page,
           shadow' = InUse(Mmap(shadow, start, end), brkPage),
           doubts' \cap PageDoubts = {} =>
               LET range == PageOf(start)..PageOf(end)
               IN  /\ range \cap HeapPage = {}
                   /\ mapped' \subseteq mapped \cup range /\ mapped' \cap HeapPage = mapped \cap HeapPage
                   /\ \A a \in Addr : mem'[a] = IF PageOf(a) \in range THEN None ELSE mem[a]
    PROVE  IsShadow(shadow') /\ Lean(shadow, brkPage)' /\ PageInv' /\ ShadowIsInput' /\ InputIsTracked'
<1> DEFINE t == Mmap(shadow, start, end)
<1> DEFINE range == PageOf(start)..PageOf(end)
<1>1. IsShadow(shadow) /\ Lean(shadow, brkPage) /\ mapped \subseteq Page
  BY DEF IInv, TypeOK
<1>2. /\ IsShadow(t)
      /\ \A a \in Addr : Cell(t, a) = IF PageOf(a) \in range THEN None ELSE Cell(shadow, a)
      /\ /\ Sound(shadow, brkPage, brkEnd, mapped) /\ range \cap HeapPage = {}
         /\ mapped' \subseteq Page /\ mapped' \subseteq mapped \cup range
         /\ mapped' \cap HeapPage = mapped \cap HeapPage
         => Sound(t, brkPage, brkEnd, mapped')
  BY <1>1, MmapFacts
<1>3. shadow' = InUse(t, brkPage)
  OBVIOUS
<1>4. doubts' \cap PageDoubts = {} =>
         /\ range \cap HeapPage = {}
         /\ mapped' \subseteq mapped \cup range /\ mapped' \cap HeapPage = mapped \cap HeapPage
         /\ \A a \in Addr : mem'[a] = IF PageOf(a) \in range THEN None ELSE mem[a]
  OBVIOUS
<1> HIDE DEF t, range
<1>5. IsShadow(shadow') /\ Lean(shadow', brkPage)
  BY <1>2, <1>3, InUseFacts
<1>6. \A a \in Addr : Cell(shadow', a) = IF PageOf(a) \in range THEN None ELSE Cell(shadow, a)
  BY <1>2, <1>3, InUseFacts
<1>7. PageInv'
  <2> SUFFICES ASSUME doubts' \cap PageDoubts = {} PROVE Sound(shadow', brkPage, brkEnd, mapped')
    BY DEF PageInv
  <2>1. Sound(shadow, brkPage, brkEnd, mapped)
    BY DEF IInv, PageInv
  <2>2. Sound(t, brkPage, brkEnd, mapped')
    BY <1>2, <1>4, <2>1
  <2> QED BY <1>2, <1>3, <2>2, InUseFacts
<1>8. ShadowIsInput'
  <2> SUFFICES ASSUME doubts' \cap (OffsetDoubts \cup PageDoubts) = {}, NEW a \in Addr, PageOf(a) \in mapped'
               PROVE  Cell(shadow', a) \in {None, mem'[a]}
    BY DEF ShadowIsInput, Bytes
  <2>1. doubts' \cap PageDoubts = {}
    OBVIOUS
  <2>2. PageOf(a) \notin range => PageOf(a) \in mapped
    BY <1>4, <2>1
  <2>3. PageOf(a) \in mapped => Cell(shadow, a) \in {None, mem[a]}
    BY BytesFacts DEF IInv, ShadowIsInput
  <2> QED BY <1>4, <1>6, <2>1, <2>2, <2>3
<1>9. InputIsTracked'
  <2> SUFFICES ASSUME doubts' = {}, NEW a \in Addr, PageOf(a) \in mapped', mem'[a] # None
               PROVE  Cell(shadow', a) = mem'[a]
    BY DEF InputIsTracked, Bytes
  <2>1. doubts' \cap PageDoubts = {} /\ doubts = {}
    OBVIOUS
  <2>2. PageOf(a) \notin range => PageOf(a) \in mapped
    BY <1>4, <2>1
  <2>3. PageOf(a) \in mapped => (mem[a] # None => Cell(shadow, a) = mem[a])
    BY <2>1, BytesFacts DEF IInv, InputIsTracked
  <2> QED BY <1>4, <1>6, <2>1, <2>2, <2>3
<1> QED BY <1>5, <1>7, <1>8, <1>9

(* The mmap area is apart from the heap and the vdso. *)
LEMMA MmapPageFacts == MmapPage \subseteq Page /\ MmapPage \cap HeapPage = {} /\ VdsoPage \notin MmapPage
BY SpaceAssumption

(* An anonymous mapping. *)
LEMMA MMapKeeps == ASSUME IInv, MMap PROVE IInv'
<1>1. PICK p \in MmapPage, size \in Size, growsDown \in BOOLEAN :
        LET n == PageUp(size)
            start == p * PageSize
        IN  /\ Within(p, n, MmapPage)
            /\ Step(When(growsDown, "down"))
            /\ mapped' = mapped \cup p..(p + n - 1)
            /\ mem' = [a \in Addr |-> IF PageOf(a) \in p..(p + n - 1) THEN None ELSE mem[a]]
            /\ shadow' = InUse(IF growsDown THEN Mmap(shadow, start - size + 1, start)
                               ELSE Mmap(shadow, start, start + size - 1), brkPage)
            /\ UNCHANGED <<brkPage, brkEnd, off, fdSet, running, brkNow, files, pos>>
  BY DEF MMap
<1> DEFINE n == PageUp(size)
<1> DEFINE start == p * PageSize
<1> DEFINE range == p..(p + n - 1)
<1>2. running /\ calls' \in Nat /\ hookFs' \in BOOLEAN /\ doubts' = doubts \cup When(growsDown, "down")
  BY <1>1, StepFacts DEF IInv
<1>3. p \in Int /\ size \in Nat \ {0} /\ start \in Int /\ start + size - 1 \in Int /\ start - size + 1 \in Int
  BY MmapPageFacts, SpaceAssumption, SizeAssumption
<1>4. PageOf(start) = p /\ PageOf(start + size - 1) = p + n - 1
  BY <1>3, PageOfStart, PageUpFacts
<1>5. range \subseteq MmapPage
  BY <1>1 DEF Within
<1>6. /\ mapped' = mapped \cup range
      /\ mem' = [a \in Addr |-> IF PageOf(a) \in range THEN None ELSE mem[a]]
      /\ growsDown => shadow' = InUse(Mmap(shadow, start - size + 1, start), brkPage)
      /\ ~growsDown => shadow' = InUse(Mmap(shadow, start, start + size - 1), brkPage)
      /\ UNCHANGED <<brkPage, brkEnd, off, fdSet, running, brkNow, files, pos>>
  BY <1>1
<1> HIDE DEF n, start
<1>7. mapped' \subseteq Page /\ mem' \in [Addr -> Int]
  BY <1>5, <1>6, MmapPageFacts DEF IInv, TypeOK, None
<1>8. IsShadow(shadow') /\ Lean(shadow, brkPage)' /\ PageInv' /\ ShadowIsInput' /\ InputIsTracked'
  <2>1. CASE growsDown
    <3>1. doubts' \cap PageDoubts # {}
      BY <1>2, <2>1, WhenFacts DEF PageDoubts
    <3> QED BY <1>2, <1>3, <1>6, <1>7, <2>1, <3>1, NewBlockKeeps
  <2>2. CASE ~growsDown
    <3>1. PageOf(start)..PageOf(start + size - 1) = range
      BY <1>4
    <3>2. /\ range \cap HeapPage = {}
          /\ mapped' \subseteq mapped \cup range /\ mapped' \cap HeapPage = mapped \cap HeapPage
          /\ \A a \in Addr : mem'[a] = IF PageOf(a) \in range THEN None ELSE mem[a]
      BY <1>5, <1>6, MmapPageFacts
    <3> HIDE DEF range
    <3> QED BY <1>2, <1>3, <1>6, <1>7, <2>2, <3>1, <3>2, NewBlockKeeps
  <2> QED BY <2>1, <2>2
<1>9. TypeOK'
  BY <1>2, <1>6, <1>7, <1>8 DEF IInv, TypeOK
<1> QED BY <1>2, <1>6, <1>8, <1>9, FilesSame DEF IInv

(* The stack of a new thread. *)
LEMMA ThreadStartKeeps == ASSUME IInv, ThreadStart PROVE IInv'
<1>1. PICK sp \in Bytes(mapped \cap MmapPage) :
        LET top == PageUp(sp) + 1
            taken == (top - StackPages)..top \cap Page
        IN  /\ Step(When(\E a \in Bytes(taken) : mem[a] # None, "stack") \cup When(taken \cap HeapPage # {}, "stack"))
            /\ shadow' = InUse(Mmap(shadow, (top - StackPages) * PageSize, top * PageSize), brkPage)
            /\ UNCHANGED <<brkPage, brkEnd, off, fdSet, running, kernelVars>>
  BY DEF ThreadStart
<1> DEFINE top == PageUp(sp) + 1
<1> DEFINE range == (top - StackPages)..top
<1> DEFINE taken == range \cap Page
<1>2. top \in Int
  <2>1. sp + PageSize - 1 \in Int
    BY BytesFacts, AddrFacts, SizeAssumption
  <2> QED BY <2>1, PageFacts DEF PageUp
<1>3. /\ running /\ calls' \in Nat /\ hookFs' \in BOOLEAN
      /\ doubts' = doubts \cup (When(\E a \in Bytes(taken) : mem[a] # None, "stack")
                                \cup When(taken \cap HeapPage # {}, "stack"))
  <2> DEFINE doubt == When(\E a \in Bytes(taken) : mem[a] # None, "stack")
                      \cup When(taken \cap HeapPage # {}, "stack")
  <2>1. Step(doubt)
    BY <1>1
  <2> HIDE DEF doubt
  <2>2. running /\ calls' \in Nat /\ hookFs' \in BOOLEAN /\ doubts' = doubts \cup doubt
    BY <2>1, StepFacts DEF IInv
  <2> QED BY <2>2 DEF doubt
<1>4. /\ shadow' = InUse(Mmap(shadow, (top - StackPages) * PageSize, top * PageSize), brkPage)
      /\ UNCHANGED <<brkPage, brkEnd, off, fdSet, running, mapped, mem, brkNow, files, pos>>
  BY <1>1 DEF kernelVars
<1> HIDE DEF top
<1>5. top - StackPages \in Int /\ (top - StackPages) * PageSize \in Int /\ top * PageSize \in Int
  BY <1>2, SizeAssumption
<1>6. PageOf((top - StackPages) * PageSize)..PageOf(top * PageSize) = range
  BY <1>2, <1>5, PageOfStart
<1>7. doubts' \cap PageDoubts = {} => taken \cap HeapPage = {} /\ \A a \in Bytes(taken) : mem[a] = None
  <2> HIDE DEF taken
  <2>1. "stack" \in PageDoubts
    BY DEF PageDoubts
  <2>2. taken \cap HeapPage # {} => "stack" \in doubts'
    BY <1>3, WhenFacts
  <2>3. (\E a \in Bytes(taken) : mem[a] # None) => "stack" \in doubts'
    BY <1>3, WhenFacts
  <2> QED BY <2>1, <2>2, <2>3
<1>8. doubts' \cap PageDoubts = {} =>
         /\ range \cap HeapPage = {}
         /\ \A a \in Addr : mem'[a] = IF PageOf(a) \in range THEN None ELSE mem[a]
  <2> SUFFICES ASSUME doubts' \cap PageDoubts = {}
               PROVE  /\ range \cap HeapPage = {}
                      /\ \A a \in Addr : mem'[a] = IF PageOf(a) \in range THEN None ELSE mem[a]
    OBVIOUS
  <2> HIDE DEF range
  <2>1. range \cap HeapPage = {}
    BY <1>7, SpaceAssumption
  <2>2. \A a \in Addr : PageOf(a) \in range => mem[a] = None
    BY <1>7, AddrFacts, BytesFacts
  <2> QED BY <1>4, <2>1, <2>2
<1>9. mapped' \subseteq Page
  BY <1>4 DEF IInv, TypeOK
<1> HIDE DEF range
<1>10. IsShadow(shadow') /\ Lean(shadow, brkPage)' /\ PageInv' /\ ShadowIsInput' /\ InputIsTracked'
  BY <1>3, <1>4, <1>5, <1>6, <1>8, <1>9, NewBlockKeeps
<1>11. TypeOK'
  BY <1>3, <1>4, <1>10 DEF IInv, TypeOK
<1> QED BY <1>3, <1>4, <1>10, <1>11, FilesSame DEF IInv

(* munmap. *)
LEMMA MUnmapKeeps == ASSUME IInv, MUnmap PROVE IInv'
<1>1. PICK p \in MmapPage, n \in 1..2 :
        /\ Step(When(Overrun(shadow, p, n), "overrun"))
        /\ Within(p, n, MmapPage)
        /\ mapped' = mapped \ p..(p + n - 1)
        /\ mem' = [a \in Addr |-> IF PageOf(a) \in p..(p + n - 1) THEN None ELSE mem[a]]
        /\ \E lost \in Behind(shadow, p, n) :
              shadow' = InUse(Without(Munmap(shadow, p, n), lost), brkPage)
        /\ running' \in IF Overrun(shadow, p, n) THEN BOOLEAN ELSE {running}
        /\ UNCHANGED <<brkPage, brkEnd, off, fdSet, brkNow, files, pos>>
  BY DEF MUnmap
<1> DEFINE range == p..(p + n - 1)
<1> DEFINE u == Munmap(shadow, p, n)
<1> DEFINE over == Overrun(shadow, p, n)
<1>2. PICK lost \in Behind(shadow, p, n) : shadow' = InUse(Without(u, lost), brkPage)
  BY <1>1
<1> DEFINE t == Without(u, lost)
<1>3. running /\ calls' \in Nat /\ hookFs' \in BOOLEAN /\ doubts' = doubts \cup When(over, "overrun")
  <2>1. Step(When(over, "overrun")) /\ TypeOK
    BY <1>1 DEF IInv
  <2> QED BY <2>1, StepFacts
<1>4. running' \in BOOLEAN /\ (~over => running')
  <2>1. running' \in IF over THEN BOOLEAN ELSE {running}
    BY <1>1, Zenon
  <2>2. running = TRUE
    BY <1>3 DEF IInv, TypeOK
  <2> HIDE DEF over
  <2>3. CASE over
    BY <2>1, <2>3, Zenon
  <2>4. CASE ~over
    <3>1. running' = running
      BY <2>1, <2>4, Zenon
    <3> QED BY <2>2, <3>1, Zenon
  <2> QED BY <2>3, <2>4, Zenon
<1>5. IsShadow(shadow) /\ mapped \subseteq Page /\ mem \in [Addr -> Int]
  BY DEF IInv, TypeOK
<1>6. range \cap HeapPage = {} /\ p \in Page /\ n \in Nat \ {0}
  BY <1>1, MmapPageFacts DEF Within
<1>7. /\ IsShadow(u)
      /\ Aligned(shadow) => \A a \in Addr : Cell(u, a) = IF PageOf(a) \in range THEN None ELSE Cell(shadow, a)
      /\ Sound(shadow, brkPage, brkEnd, mapped) => Sound(u, brkPage, brkEnd, mapped \ range)
  BY <1>5, <1>6, MunmapFacts
<1>8. /\ mapped' = mapped \ range
      /\ mem' = [a \in Addr |-> IF PageOf(a) \in range THEN None ELSE mem[a]]
      /\ shadow' = InUse(t, brkPage)
      /\ UNCHANGED <<brkPage, brkEnd, off, fdSet, brkNow, files, pos>>
  BY <1>1, <1>2
<1>9. ~over => lost = {}
  BY NothingBehind
<1> HIDE DEF u, range, over
<1>10. /\ IsShadow(t)
       /\ lost = {} => \A a \in Addr : Cell(t, a) = Cell(u, a)
       /\ lost = {} => (Sound(u, brkPage, brkEnd, mapped \ range) => Sound(t, brkPage, brkEnd, mapped \ range))
  BY <1>7, WithoutFacts
<1> HIDE DEF t
<1>11. /\ IsShadow(shadow') /\ Lean(shadow', brkPage)
       /\ \A a \in Addr : Cell(shadow', a) = Cell(t, a)
       /\ Sound(t, brkPage, brkEnd, mapped \ range) => Sound(shadow', brkPage, brkEnd, mapped \ range)
  BY <1>5, <1>8, <1>10, InUseFacts
<1>12. doubts \subseteq doubts' /\ (doubts' \cap PageDoubts = {} => ~over)
  BY <1>3, WhenFacts DEF PageDoubts
<1>13. doubts' \cap PageDoubts = {} =>
         /\ running' /\ Sound(shadow', brkPage, brkEnd, mapped \ range)
         /\ \A a \in Addr : Cell(shadow', a) = IF PageOf(a) \in range THEN None ELSE Cell(shadow, a)
  <2> SUFFICES ASSUME doubts' \cap PageDoubts = {}
               PROVE  /\ running' /\ Sound(shadow', brkPage, brkEnd, mapped \ range)
                      /\ \A a \in Addr : Cell(shadow', a) = IF PageOf(a) \in range THEN None ELSE Cell(shadow, a)
    OBVIOUS
  <2>1. Sound(shadow, brkPage, brkEnd, mapped) /\ Aligned(shadow)
    BY <1>12 DEF IInv, PageInv, Sound
  <2>2. lost = {} /\ running'
    BY <1>4, <1>9, <1>12
  <2> QED BY <1>7, <1>10, <1>11, <2>1, <2>2
<1>14. PageInv'
  BY <1>8, <1>13 DEF PageInv
<1>15. ShadowIsInput'
  <2> SUFFICES ASSUME doubts' \cap (OffsetDoubts \cup PageDoubts) = {}, NEW a \in Addr, PageOf(a) \in mapped \ range
               PROVE  Cell(shadow', a) \in {None, mem'[a]}
    BY <1>8 DEF ShadowIsInput, Bytes
  <2>1. Cell(shadow, a) \in {None, mem[a]}
    BY <1>12, BytesFacts DEF IInv, ShadowIsInput
  <2> QED BY <1>8, <1>13, <2>1
<1>16. InputIsTracked'
  <2> SUFFICES ASSUME doubts' = {}, NEW a \in Addr, PageOf(a) \in mapped \ range, mem'[a] # None
               PROVE  Cell(shadow', a) = mem'[a]
    BY <1>8 DEF InputIsTracked, Bytes
  <2>1. mem[a] # None => Cell(shadow, a) = mem[a]
    BY <1>12, BytesFacts DEF IInv, InputIsTracked
  <2> QED BY <1>8, <1>13, <2>1
<1>17. TypeOK'
  <2>1. mem' \in [Addr -> Int] /\ mapped' \subseteq Page
    BY <1>5, <1>8 DEF None
  <2> QED BY <1>3, <1>4, <1>8, <1>11, <2>1 DEF IInv, TypeOK
<1> QED BY <1>8, <1>11, <1>12, <1>14, <1>15, <1>16, <1>17, FilesSame DEF IInv

(* The pages of the bytes of a mapping. *)
LEMMA PageRange ==
    ASSUME NEW a \in Int, NEW p \in Int, NEW n \in Int, PageOf(a) \in p..(p + n - 1)
    PROVE  p * PageSize <= a /\ a <= (p + n) * PageSize - 1
<1> DEFINE k == PageOf(a)
<1>1. k \in Int /\ a >= k * PageSize /\ a <= (k + 1) * PageSize - 1
  <2>1. k \in Int /\ OffsetOf(a) \in 0..(PageSize - 1) /\ a = k * PageSize + OffsetOf(a)
    BY PageFacts DEF Offset
  <2> HIDE DEF k
  <2>2. (k + 1) * PageSize = k * PageSize + PageSize
    BY <2>1, SizeAssumption
  <2> QED BY <2>1, <2>2, SizeAssumption
<1>2. \A x, y, z \in Int : x <= y /\ z > 0 => x * z <= y * z
  OBVIOUS
<1>3. p <= k /\ k + 1 <= p + n
  OBVIOUS
<1> HIDE DEF k
<1>4. p * PageSize <= k * PageSize /\ (k + 1) * PageSize <= (p + n) * PageSize
  BY <1>1, <1>2, <1>3, SizeAssumption
<1> QED BY <1>1, <1>4, SizeAssumption

(* A mapping of a file: its bytes are those of the input at the offset. *)
LEMMA MMapFileKeeps == ASSUME IInv, MMapFile PROVE IInv'
<1> DEFINE Byte(o, start, a) == IF o + a - start < InputLen THEN o + a - start ELSE None
<1>1. PICK p \in MmapPage, f \in Fd, o \in {0, PageSize}, size \in Size :
        LET n == PageUp(size)
            start == p * PageSize
            tracked == hookFs /\ f \in fdSet
        IN  /\ Step(When(o # 0, "offset") \cup When(size > InputLen, "end")
                    \cup When(~tracked \/ size < n * PageSize, "rest"))
            /\ Within(p, n, MmapPage)
            /\ files[f] \notin {Closed, Other}
            /\ mapped' = mapped \cup p..(p + n - 1)
            /\ mem' = [a \in Addr |-> IF PageOf(a) \in p..(p + n - 1) THEN Byte(o, start, a) ELSE mem[a]]
            /\ Assign(Mmap(shadow, start, start + size - 1), MakeExpr(start, IF tracked THEN size ELSE 0, 0))
            /\ UNCHANGED <<brkPage, brkEnd, off, fdSet, brkNow, files, pos>>
  BY DEF MMapFile
<1> DEFINE n == PageUp(size)
<1> DEFINE start == p * PageSize
<1> DEFINE tracked == hookFs /\ f \in fdSet
<1> DEFINE range == p..(p + n - 1)
<1> DEFINE t == Mmap(shadow, start, start + size - 1)
<1> DEFINE len == IF tracked THEN size ELSE 0
<1> DEFINE exprs == MakeExpr(start, len, 0)
<1> DEFINE doubt == When(o # 0, "offset") \cup When(size > InputLen, "end")
                    \cup When(~tracked \/ size < n * PageSize, "rest")
<1>2. running /\ calls' \in Nat /\ hookFs' \in BOOLEAN /\ doubts' = doubts \cup doubt
  <2>1. Step(doubt) /\ TypeOK
    BY <1>1 DEF IInv
  <2> HIDE DEF doubt
  <2> QED BY <2>1, StepFacts
<1>3. /\ p \in Nat /\ size \in Nat \ {0} /\ start \in Nat /\ start + size - 1 \in Nat /\ PageSize \in Nat \ {0}
      /\ o \in Int /\ InputLen \in Int
  <2>1. p \in Nat /\ PageSize \in Nat \ {0}
    BY MmapPageFacts, SpaceAssumption, SizeAssumption
  <2>2. size \in Nat \ {0} /\ InputLen \in Int
    BY SizeAssumption
  <2>3. start \in Nat
    BY <2>1
  <2> HIDE DEF start
  <2> QED BY <2>1, <2>2, <2>3
<1>4. PageOf(start) = p /\ PageOf(start + size - 1) = p + n - 1 /\ n \in Nat /\ size <= n * PageSize
  BY <1>3, PageOfStart, PageUpFacts
<1>5. range \subseteq MmapPage /\ range \cap HeapPage = {} /\ VdsoPage \notin range /\ range \subseteq Page
  BY <1>1, MmapPageFacts DEF Within
<1>6. /\ mapped' = mapped \cup range
      /\ mem' = [a \in Addr |-> IF PageOf(a) \in range THEN Byte(o, start, a) ELSE mem[a]]
      /\ Assign(t, exprs)
      /\ UNCHANGED <<brkPage, brkEnd, off, fdSet, brkNow, files, pos>>
  BY <1>1
<1>7. "rest" \notin doubts' => tracked /\ ~(size < n * PageSize)
  BY <1>2, WhenFacts
<1>8. doubts' \cap OffsetDoubts = {} => o = 0 /\ ~(size > InputLen)
  BY <1>2, WhenFacts DEF OffsetDoubts
<1>9. doubts \subseteq doubts'
  BY <1>2
<1>10. IsShadow(shadow) /\ Lean(shadow, brkPage) /\ mapped \subseteq Page /\ running \in BOOLEAN
  BY DEF IInv, TypeOK
<1>11. /\ IsShadow(t)
       /\ \A a \in Addr : Cell(t, a) = IF PageOf(a) \in range THEN None ELSE Cell(shadow, a)
       /\ Sound(shadow, brkPage, brkEnd, mapped) => Sound(t, brkPage, brkEnd, mapped')
  <2> DEFINE pages == PageOf(start)..PageOf(start + size - 1)
  <2>1. pages = range
    BY <1>4
  <2>2. /\ mapped' \subseteq Page /\ mapped' \subseteq mapped \cup range
        /\ mapped' \cap HeapPage = mapped \cap HeapPage
    BY <1>5, <1>6, <1>10
  <2> HIDE DEF range, start
  <2>3. /\ IsShadow(t)
        /\ \A a \in Addr : Cell(t, a) = IF PageOf(a) \in pages THEN None ELSE Cell(shadow, a)
        /\ /\ Sound(shadow, brkPage, brkEnd, mapped) /\ pages \cap HeapPage = {}
           /\ mapped' \subseteq Page /\ mapped' \subseteq mapped \cup pages
           /\ mapped' \cap HeapPage = mapped \cap HeapPage
           => Sound(t, brkPage, brkEnd, mapped')
    BY <1>3, <1>10, MmapFacts
  <2> HIDE DEF pages, t
  <2> QED BY <1>5, <2>1, <2>2, <2>3
<1> DEFINE S == start..(start + len - 1)
<1>12. len \in Nat /\ len <= size /\ (tracked => len = size)
  BY <1>3
<1> HIDE DEF t, n, start, tracked, len, doubt
<1>13. DOMAIN exprs = S /\ \A x \in S : exprs[x] = x - start /\ exprs[x] \in Int
  BY <1>3, <1>12 DEF MakeExpr
<1>14. \A x \in S : x \in Nat /\ x <= start + size - 1
  BY <1>3, <1>12
<1>15. \A x \in S : PageOf(x) \in range
  <2> SUFFICES ASSUME NEW x \in S PROVE PageOf(x) \in range
    OBVIOUS
  <2>1. x \in Int /\ start <= x /\ x <= start + size - 1
    BY <1>3, <1>12
  <2>2. PageOf(start) <= PageOf(x) /\ PageOf(x) <= PageOf(start + size - 1) /\ PageOf(x) \in Int
    BY <1>3, <2>1, PageMonotone, PageFacts
  <2> QED BY <1>3, <1>4, <2>2
<1> HIDE DEF S, exprs, range
<1>16. \A x \in S : x \in Addr
  BY <1>5, <1>14, <1>15, InAddr
<1>17. /\ IsShadow(shadow') /\ Lean(shadow', brkPage) /\ running' \in BOOLEAN
       /\ Sound(t, brkPage, brkEnd, mapped') =>
             /\ running' = running
             /\ Sound(shadow', brkPage, brkEnd, mapped')
             /\ \A a \in Addr : Cell(shadow', a) = IF a \in DOMAIN exprs THEN exprs[a] ELSE Cell(t, a)
  <2>1. DOMAIN exprs \subseteq Addr /\ \A a \in DOMAIN exprs : a <= start + size - 1 /\ exprs[a] \in Int
    BY <1>13, <1>14, <1>16
  <2>2. mapped' \subseteq Page /\ \A a \in DOMAIN exprs : PageOf(a) \in mapped' \ {VdsoPage}
    BY <1>5, <1>6, <1>10, <1>13, <1>15
  <2> QED BY <1>3, <1>6, <1>10, <1>11, <2>1, <2>2, AssignFacts
<1>18. doubts' \cap PageDoubts = {} =>
          /\ running' /\ Sound(shadow', brkPage, brkEnd, mapped')
          /\ \A a \in Addr : Cell(shadow', a) = IF a \in S THEN a - start
                                                ELSE IF PageOf(a) \in range THEN None ELSE Cell(shadow, a)
  <2> SUFFICES ASSUME doubts' \cap PageDoubts = {}
               PROVE  /\ running' /\ Sound(shadow', brkPage, brkEnd, mapped')
                      /\ \A a \in Addr : Cell(shadow', a) = IF a \in S THEN a - start
                                                            ELSE IF PageOf(a) \in range THEN None ELSE Cell(shadow, a)
    OBVIOUS
  <2>1. Sound(shadow, brkPage, brkEnd, mapped)
    BY <1>9 DEF IInv, PageInv
  <2>2. Sound(t, brkPage, brkEnd, mapped')
    BY <1>11, <2>1
  <2> QED BY <1>2, <1>11, <1>13, <1>17, <2>2
<1>19. PageInv'
  BY <1>6, <1>18 DEF PageInv
<1>20. ShadowIsInput'
  <2> SUFFICES ASSUME doubts' \cap (OffsetDoubts \cup PageDoubts) = {}, NEW a \in Addr, PageOf(a) \in mapped'
               PROVE  Cell(shadow', a) \in {None, mem'[a]}
    BY DEF ShadowIsInput, Bytes
  <2>1. doubts' \cap PageDoubts = {} /\ doubts' \cap OffsetDoubts = {} /\ doubts \cap (OffsetDoubts \cup PageDoubts) = {}
    BY <1>9
  <2>2. CASE a \in S
    <3>1. a - start < InputLen /\ a \in Int /\ o = 0
      BY <1>3, <1>8, <1>14, <2>1, <2>2
    <3>2. mem'[a] = 0 + a - start
      BY <1>3, <1>6, <1>15, <2>2, <3>1
    <3> QED BY <1>3, <1>18, <2>1, <2>2, <3>1, <3>2
  <2>3. CASE a \notin S /\ PageOf(a) \in range
    BY <1>18, <2>1, <2>3
  <2>4. CASE a \notin S /\ PageOf(a) \notin range
    <3>1. Cell(shadow, a) \in {None, mem[a]}
      BY <1>6, <2>1, <2>4, BytesFacts DEF IInv, ShadowIsInput
    <3> QED BY <1>6, <1>18, <2>1, <2>4, <3>1
  <2> QED BY <2>2, <2>3, <2>4
<1>21. InputIsTracked'
  <2> SUFFICES ASSUME doubts' = {}, NEW a \in Addr, PageOf(a) \in mapped', mem'[a] # None
               PROVE  Cell(shadow', a) = mem'[a]
    BY DEF InputIsTracked, Bytes
  <2>1. doubts' \cap PageDoubts = {} /\ doubts' \cap OffsetDoubts = {} /\ doubts = {} /\ "rest" \notin doubts'
    BY <1>9
  <2>2. CASE PageOf(a) \in range
    <3>1. a \in Int /\ p * PageSize <= a /\ a <= (p + n) * PageSize - 1
      BY <1>3, <1>4, <2>2, AddrFacts, PageRange DEF range
    <3>2. size = n * PageSize /\ len = size /\ start = p * PageSize
      BY <1>3, <1>4, <1>7, <1>12, <2>1 DEF start
    <3>3. (p + n) * PageSize = start + size
      BY <1>3, <1>4, <3>2
    <3>4. a \in S
      BY <1>3, <3>1, <3>2, <3>3 DEF S
    <3>5. a - start < InputLen /\ o = 0
      BY <1>3, <1>8, <1>14, <2>1, <3>4
    <3>6. mem'[a] = 0 + a - start
      BY <1>3, <1>6, <2>2, <3>1, <3>5
    <3> QED BY <1>3, <1>18, <2>1, <3>1, <3>4, <3>6
  <2>3. CASE PageOf(a) \notin range
    <3>1. mem'[a] = mem[a] /\ PageOf(a) \in mapped /\ a \notin S
      BY <1>6, <1>15, <2>3
    <3>2. Cell(shadow, a) = mem[a]
      BY <2>1, <3>1, BytesFacts DEF IInv, InputIsTracked
    <3> QED BY <1>18, <2>1, <2>3, <3>1, <3>2
  <2> QED BY <2>2, <2>3
<1>22. TypeOK'
  <2>1. \A a \in Addr : Byte(o, start, a) \in Int
    BY <1>3, AddrFacts DEF None
  <2>2. mem' \in [Addr -> Int]
    <3> HIDE DEF Byte
    <3> QED BY <1>6, <2>1 DEF IInv, TypeOK
  <2>3. mapped' \subseteq Page
    BY <1>5, <1>6, <1>10
  <2> QED BY <1>2, <1>6, <1>17, <2>2, <2>3 DEF IInv, TypeOK
<1> QED BY <1>6, <1>9, <1>17, <1>19, <1>20, <1>21, <1>22, FilesSame DEF IInv

(* mremap: the cells move with the pages. *)
LEMMA MRemapKeeps == ASSUME IInv, MRemap PROVE IInv'
<1>1. PICK p \in MmapPage, q \in MmapPage, n \in 1..2, m \in 1..2 :
        LET old == p..(p + n - 1)
            new == q..(q + m - 1)
        IN  /\ Step(When(m > 1, "shared") \cup When(m < n, "shrunk")
                    \cup When(Overrun(shadow, p, n), "overrun"))
            /\ Within(p, n, MmapPage \cap mapped) /\ Within(q, m, MmapPage)
            /\ IF p = q THEN new \cap mapped \subseteq old ELSE new \cap mapped = {}
            /\ mapped' = (mapped \ old) \cup new
            /\ mem' = [a \in Addr |->
                    IF PageOf(a) \in new
                    THEN LET from == a + (p - q) * PageSize IN IF PageOf(from) \in old THEN mem[from] ELSE None
                    ELSE IF PageOf(a) \in old THEN None ELSE mem[a]]
            /\ \E lost \in Behind(shadow, p, n) :
                  shadow' = InUse(Without(Mremap(shadow, p, n, q, m), lost), brkPage)
            /\ running' \in IF m < n \/ Overrun(shadow, p, n) THEN BOOLEAN
                            ELSE {shadow.table[p] \in DOMAIN shadow.cells}
            /\ UNCHANGED <<brkPage, brkEnd, off, fdSet, brkNow, files, pos>>
  BY DEF MRemap
<1> DEFINE old == p..(p + n - 1)
<1> DEFINE new == q..(q + m - 1)
<1> DEFINE from(a) == a + (p - q) * PageSize
<1> DEFINE over == Overrun(shadow, p, n)
<1> DEFINE doubt == When(m > 1, "shared") \cup When(m < n, "shrunk") \cup When(over, "overrun")
<1> DEFINE u == Mremap(shadow, p, n, q, m)
<1>0. PICK lost \in Behind(shadow, p, n) : shadow' = InUse(Without(u, lost), brkPage)
  BY <1>1
<1>2. running /\ calls' \in Nat /\ hookFs' \in BOOLEAN /\ doubts' = doubts \cup doubt
  <2>1. Step(doubt) /\ TypeOK
    BY <1>1 DEF IInv
  <2> HIDE DEF doubt
  <2> QED BY <2>1, StepFacts
<1>3. /\ mapped' = (mapped \ old) \cup new
      /\ mem' = [a \in Addr |->
            IF PageOf(a) \in new THEN IF PageOf(from(a)) \in old THEN mem[from(a)] ELSE None
            ELSE IF PageOf(a) \in old THEN None ELSE mem[a]]
      /\ shadow' = InUse(Without(u, lost), brkPage)
      /\ UNCHANGED <<brkPage, brkEnd, off, fdSet, brkNow, files, pos>>
  BY <1>0, <1>1
<1>4. running' \in BOOLEAN /\ (~(m < n \/ over) => (running' <=> shadow.table[p] \in DOMAIN shadow.cells))
  <2> DEFINE backed == shadow.table[p] \in DOMAIN shadow.cells
  <2> DEFINE open == m < n \/ over
  <2>1. running' \in IF open THEN BOOLEAN ELSE {backed}
    BY <1>1, Zenon
  <2> HIDE DEF backed, open
  <2>2. CASE open
    BY <2>1, <2>2, Zenon DEF open
  <2>3. CASE ~open
    <3>1. running' = backed
      BY <2>1, <2>3, Zenon
    <3>2. backed \in BOOLEAN
      BY DEF backed
    <3> QED BY <2>3, <3>1, <3>2, Zenon DEF backed, open
  <2> QED BY <2>2, <2>3, Zenon
<1>5. old \subseteq MmapPage \cap mapped /\ new \subseteq MmapPage
  BY <1>1 DEF Within
<1>6. /\ p \in Page /\ q \in Page /\ p \in Int /\ q \in Int /\ p \notin HeapPage /\ q \notin HeapPage
      /\ p # VdsoPage /\ n \in Nat /\ m \in Nat /\ PageSize \in Int
  BY MmapPageFacts, SpaceAssumption, SizeAssumption
<1>7. p \in mapped
  <2>1. p \in old
    BY <1>6
  <2> QED BY <1>5, <2>1
<1>8. /\ IsShadow(shadow) /\ Lean(shadow, brkPage) /\ mapped \subseteq Page /\ mem \in [Addr -> Int]
  BY DEF IInv, TypeOK
<1>9. \A a \in Addr : from(a) \in Int /\ PageOf(from(a)) = PageOf(a) + (p - q) /\ OffsetOf(from(a)) = OffsetOf(a)
  <2> SUFFICES ASSUME NEW a \in Addr
               PROVE  from(a) \in Int /\ PageOf(from(a)) = PageOf(a) + (p - q) /\ OffsetOf(from(a)) = OffsetOf(a)
    OBVIOUS
  <2> DEFINE k == PageOf(a)
  <2> DEFINE r == OffsetOf(a)
  <2>1. a \in Int /\ k \in Int /\ r \in Offset /\ r \in Int /\ a = k * PageSize + r
    BY AddrFacts, PageFacts DEF Offset
  <2> HIDE DEF k, r
  <2>2. from(a) = (k + (p - q)) * PageSize + r /\ from(a) \in Int
    BY <1>6, <2>1
  <2> HIDE DEF from
  <2>3. k + (p - q) \in Int
    BY <1>6, <2>1
  <2>4. PageOf(from(a)) = k + (p - q) /\ OffsetOf(from(a)) = r
    BY <2>1, <2>2, <2>3, PageOfSum
  <2> QED BY <2>2, <2>4 DEF k, r
<1> HIDE DEF from, over
<1>10. IsShadow(u) /\ IsShadow(Without(u, lost)) /\ IsShadow(shadow') /\ Lean(shadow', brkPage)
  <2>1. IsShadow(u)
    BY <1>6, <1>8, MremapType
  <2> HIDE DEF u
  <2>2. IsShadow(Without(u, lost))
    BY <2>1, WithoutFacts
  <2> QED BY <1>3, <2>1, <2>2, InUseFacts
<1>11. TypeOK'
  <2>1. \A a \in Addr : PageOf(from(a)) \in old => mem[from(a)] \in Int
    BY <1>5, <1>8, <1>9, InAddr
  <2>2. mem' \in [Addr -> Int]
    <3> HIDE DEF old, new
    <3> QED BY <1>3, <1>8, <2>1 DEF None
  <2>3. mapped' \subseteq Page
    BY <1>3, <1>5, <1>8, MmapPageFacts
  <2> QED BY <1>2, <1>3, <1>4, <1>10, <2>2, <2>3 DEF IInv, TypeOK
<1>12. ASSUME doubts' \cap PageDoubts = {}
       PROVE  /\ running' /\ Sound(shadow', brkPage, brkEnd, mapped')
              /\ mapped' = (mapped \ {p}) \cup {q}
              /\ \A a \in Addr : PageOf(a) = q => /\ from(a) \in Bytes(mapped) /\ mem'[a] = mem[from(a)]
                                                  /\ Cell(shadow', a) = Cell(shadow, from(a))
              /\ \A a \in Addr : PageOf(a) \in mapped \ {p, q} => /\ mem'[a] = mem[a]
                                                                  /\ Cell(shadow', a) = Cell(shadow, a)
  <2>1. ~(m > 1) /\ ~(m < n) /\ lost = {} /\ ~over
    BY <1>2, <1>12, WhenFacts, NothingBehind DEF PageDoubts, over
  <2>2. m = 1 /\ n = 1
    BY <2>1
  <2>3. old = {p} /\ new = {q}
    BY <1>6, <2>2
  <2>4. Sound(shadow, brkPage, brkEnd, mapped) /\ shadow.table[p] \in DOMAIN shadow.cells
    BY <1>2, <1>6, <1>7, <1>12 DEF IInv, PageInv, Sound, Backed
  <2> DEFINE t == Mremap(shadow, p, 1, q, 1)
  <2>5. /\ Sound(t, brkPage, brkEnd, (mapped \ {p}) \cup {q})
        /\ \A a \in Addr : Cell(t, a) =
                IF PageOf(a) = q THEN shadow.cells[shadow.table[p]][OffsetOf(a)]
                ELSE IF PageOf(a) = p THEN None ELSE Cell(shadow, a)
    <3>1. p \in Page /\ q \in Page /\ p \in mapped \ {VdsoPage} /\ p \notin HeapPage /\ q \notin HeapPage
      BY <1>6, <1>7
    <3>2. IsShadow(shadow) /\ Lean(shadow, brkPage) /\ mapped \subseteq Page /\ Sound(shadow, brkPage, brkEnd, mapped)
      BY <1>8, <2>4
    <3> QED BY <3>1, <3>2, MremapOne
  <2>6. shadow' = InUse(Without(t, lost), brkPage) /\ IsShadow(t) /\ IsShadow(Without(t, lost))
    BY <1>3, <1>10, <2>2
  <2> HIDE DEF t, old, new, u
  <2>7. mapped' = (mapped \ {p}) \cup {q} /\ (mapped \ {p}) \cup {q} \subseteq Page
    BY <1>3, <1>6, <1>8, <2>3
  <2>8. Sound(shadow', brkPage, brkEnd, mapped') /\ \A a \in Addr : Cell(shadow', a) = Cell(t, a)
    <3>1. /\ Sound(Without(t, lost), brkPage, brkEnd, (mapped \ {p}) \cup {q})
          /\ \A a \in Addr : Cell(Without(t, lost), a) = Cell(t, a)
      BY <2>1, <2>5, <2>6, WithoutFacts
    <3> QED BY <2>6, <2>7, <3>1, InUseFacts
  <2>9. running'
    BY <1>4, <2>1, <2>4
  <2>10. ASSUME NEW a \in Addr, PageOf(a) = q
         PROVE  from(a) \in Bytes(mapped) /\ mem'[a] = mem[from(a)] /\ Cell(shadow', a) = Cell(shadow, from(a))
    <3>1. PageOf(from(a)) = p /\ from(a) \in Addr
      BY <1>6, <1>9, <2>10, InAddr
    <3>2. mem'[a] = mem[from(a)]
      BY <1>3, <2>3, <2>10, <3>1
    <3>3. Cell(shadow, from(a)) = shadow.cells[shadow.table[p]][OffsetOf(a)]
      BY <1>9, <2>4, <3>1 DEF Cell
    <3> QED BY <1>7, <2>5, <2>8, <2>10, <3>1, <3>2, <3>3, BytesFacts
  <2>11. ASSUME NEW a \in Addr, PageOf(a) \in mapped \ {p, q}
         PROVE  mem'[a] = mem[a] /\ Cell(shadow', a) = Cell(shadow, a)
    BY <1>3, <2>3, <2>5, <2>8, <2>11
  <2> QED BY <2>7, <2>8, <2>9, <2>10, <2>11
<1>13. PageInv'
  BY <1>3, <1>12 DEF PageInv
<1>14. ShadowIsInput'
  <2> SUFFICES ASSUME doubts' \cap (OffsetDoubts \cup PageDoubts) = {}, NEW a \in Addr, PageOf(a) \in mapped'
               PROVE  Cell(shadow', a) \in {None, mem'[a]}
    BY DEF ShadowIsInput, Bytes
  <2>1. doubts' \cap PageDoubts = {} /\ doubts \cap (OffsetDoubts \cup PageDoubts) = {}
    BY <1>2
  <2>2. \A c \in Bytes(mapped) : Cell(shadow, c) \in {None, mem[c]}
    BY <2>1 DEF IInv, ShadowIsInput
  <2>3. CASE PageOf(a) = q
    BY <1>12, <2>1, <2>2, <2>3
  <2>4. CASE PageOf(a) # q
    BY <1>12, <2>1, <2>2, <2>4, BytesFacts
  <2> QED BY <2>3, <2>4
<1>15. InputIsTracked'
  <2> SUFFICES ASSUME doubts' = {}, NEW a \in Addr, PageOf(a) \in mapped', mem'[a] # None
               PROVE  Cell(shadow', a) = mem'[a]
    BY DEF InputIsTracked, Bytes
  <2>1. doubts' \cap PageDoubts = {} /\ doubts = {}
    BY <1>2
  <2>2. \A c \in Bytes(mapped) : mem[c] # None => Cell(shadow, c) = mem[c]
    BY <2>1 DEF IInv, InputIsTracked
  <2>3. CASE PageOf(a) = q
    BY <1>12, <2>1, <2>2, <2>3
  <2>4. CASE PageOf(a) # q
    BY <1>12, <2>1, <2>2, <2>4, BytesFacts
  <2> QED BY <2>3, <2>4
<1>16. doubts \subseteq doubts' /\ Lean(shadow, brkPage)'
  BY <1>2, <1>3, <1>10
<1> QED BY <1>3, <1>11, <1>13, <1>14, <1>15, <1>16, FilesSame DEF IInv

(* The pages of a break *)
LEMMA BreakFacts ==
    ASSUME NEW ret \in (HeapStart * PageSize)..((HeapStart + HeapPages) * PageSize)
    PROVE  /\ ret \in Nat /\ PageUp(ret) \in HeapStart..(HeapStart + HeapPages)
           /\ PageUp(ret) = HeapStart => ret = HeapStart * PageSize
           /\ \A k \in Int : ret = k * PageSize => PageUp(ret) = k
<1>1. HeapStart \in Nat /\ HeapPages \in Nat /\ PageSize \in Nat \ {0}
  BY SpaceAssumption, SizeAssumption
<1> DEFINE lo == HeapStart * PageSize
<1> DEFINE hi == (HeapStart + HeapPages) * PageSize
<1>2. lo \in Nat /\ hi \in Nat
  BY <1>1
<1>3. ret \in Nat /\ lo <= ret /\ ret <= hi
  <2> HIDE DEF lo, hi
  <2>1. ret \in lo..hi
    BY DEF lo, hi
  <2> QED BY <1>2, <2>1
<1>4. \A k \in Int : PageUp(k * PageSize) = k
  <2> TAKE k \in Int
  <2>1. PageSize - 1 \in Offset /\ k * PageSize + PageSize - 1 = k * PageSize + (PageSize - 1)
    BY <1>1 DEF Offset
  <2> QED BY <2>1, PageOfSum DEF PageUp
<1>5. PageUp(lo) = HeapStart /\ PageUp(hi) = HeapStart + HeapPages
  BY <1>1, <1>4
<1> HIDE DEF lo, hi
<1>6. PageUp(ret) \in Int /\ PageUp(lo) <= PageUp(ret) /\ PageUp(ret) <= PageUp(hi)
  <2> DEFINE up(x) == x + PageSize - 1
  <2>1. up(ret) \in Int /\ up(lo) \in Int /\ up(hi) \in Int /\ up(lo) <= up(ret) /\ up(ret) <= up(hi)
    BY <1>1, <1>2, <1>3
  <2>2. PageUp(ret) = PageOf(up(ret)) /\ PageUp(lo) = PageOf(up(lo)) /\ PageUp(hi) = PageOf(up(hi))
    BY DEF PageUp
  <2> HIDE DEF up
  <2> QED BY <2>1, <2>2, PageMonotone, PageFacts
<1>7. ASSUME PageUp(ret) = HeapStart PROVE ret = lo
  <2> DEFINE r == OffsetOf(ret + PageSize - 1)
  <2>1. ret + PageSize - 1 \in Int
    BY <1>1, <1>3
  <2>2. ret + PageSize - 1 = HeapStart * PageSize + r /\ r \in 0..(PageSize - 1)
    BY <1>7, <2>1, PageFacts DEF PageUp, Offset
  <2> HIDE DEF r
  <2>3. ret + PageSize - 1 = lo + r
    BY <2>2 DEF lo
  <2> QED BY <1>1, <1>2, <1>3, <2>2, <2>3
<1> QED BY <1>1, <1>3, <1>4, <1>5, <1>6, <1>7 DEF lo

(* The block of the heap is the one it had or one that nobody had. *)
LEMMA HeapBlock ==
    ASSUME IInv, NEW b, b = IF brkPage = Null THEN Fresh(shadow) ELSE brkPage[1]
    PROVE  /\ b \in Nat \ {0}
           /\ Sound(shadow, brkPage, brkEnd, mapped) => HeapIsBlock(shadow, b, brkEnd)
<1> USE DEF HeapIsBlock
<1>1. brkPage \in Nat \X {0} /\ brkEnd \in Int /\ HeapStart \in Int
  BY SpaceAssumption DEF IInv, TypeOK
<1>2. CASE brkPage = Null
  <2>1. /\ b \in Nat \ {0}
        /\ \A p \in Page : shadow.table[p][1] # b
        /\ \A x \in DOMAIN shadow.cells : x[1] # b
    BY <1>2, FreshBlock DEF IInv, TypeOK
  <2>2. Sound(shadow, brkPage, brkEnd, mapped) => brkEnd = HeapStart
    BY <1>2 DEF Sound, HeapInv, Null
  <2>3. brkEnd = HeapStart => \A p : p \notin HeapStart..(brkEnd - 1)
    BY <1>1
  <2> QED BY <2>1, <2>2, <2>3
<1>3. CASE brkPage # Null
  <2>1. b = brkPage[1] /\ b \in Nat \ {0}
    BY <1>1, <1>3 DEF Null
  <2> QED BY <2>1 DEF Sound, HeapInv
<1> QED BY <1>2, <1>3

(* brk: the pages of the heap that stay keep their cells. *)
LEMMA SetBrkKeeps == ASSUME IInv, SetBrk PROVE IInv'
<1>1. PICK ret \in (HeapStart * PageSize)..((HeapStart + HeapPages) * PageSize), added \in {None, Junk} :
        LET n == PageUp(ret) - HeapStart
            heap == HeapStart..(HeapStart + n - 1)
            b == IF brkPage = Null THEN Fresh(shadow) ELSE brkPage[1]
            s == Brk(shadow, b, n, [o \in Offset |-> added])
            skip == ret = brkEnd * PageSize
            beyond == (mapped \ HeapPage) \cap PageUp(ret)..brkEnd
            grows == PageUp(ret) > brkEnd
        IN  /\ added = Junk => ~skip /\ grows
            /\ Step(When(added = Junk, "realloc") \cup When(~skip /\ beyond # {}, "beyond")
                    \cup When(~skip /\ n = 0 /\ brkPage # Null, "empty"))
            /\ brkNow' = ret
            /\ mapped' = (mapped \ HeapPage) \cup heap
            /\ mem' = [a \in Addr |-> IF PageOf(a) \in HeapPage \ (mapped \cap heap) THEN None ELSE mem[a]]
            /\ IF skip THEN UNCHANGED <<shadow, brkPage, brkEnd, running>>
               ELSE IF n = 0 /\ brkPage # Null THEN running' = FALSE /\ UNCHANGED <<shadow, brkPage, brkEnd>>
               ELSE /\ shadow' = InUse(s, <<b, 0>>)
                    /\ brkPage' = <<b, 0>>
                    /\ brkEnd' = PageUp(ret)
                    /\ UNCHANGED running
            /\ UNCHANGED <<off, fdSet, files, pos>>
  BY DEF SetBrk
<1> DEFINE up == PageUp(ret)
<1> DEFINE n == up - HeapStart
<1> DEFINE heap == HeapStart..(HeapStart + n - 1)
<1> DEFINE b == IF brkPage = Null THEN Fresh(shadow) ELSE brkPage[1]
<1> DEFINE content == [o \in Offset |-> added]
<1> DEFINE s == Brk(shadow, b, n, content)
<1> DEFINE skip == ret = brkEnd * PageSize
<1> DEFINE beyond == (mapped \ HeapPage) \cap up..brkEnd
<1> DEFINE doubt == When(added = Junk, "realloc") \cup When(~skip /\ beyond # {}, "beyond")
                    \cup When(~skip /\ n = 0 /\ brkPage # Null, "empty")
<1>2. running /\ calls' \in Nat /\ hookFs' \in BOOLEAN /\ doubts' = doubts \cup doubt
  <2>1. Step(doubt) /\ TypeOK
    BY <1>1 DEF IInv
  <2> HIDE DEF doubt
  <2> QED BY <2>1, StepFacts
<1>3. /\ brkNow' = ret
      /\ mapped' = (mapped \ HeapPage) \cup heap
      /\ mem' = [a \in Addr |-> IF PageOf(a) \in HeapPage \ (mapped \cap heap) THEN None ELSE mem[a]]
      /\ UNCHANGED <<off, fdSet, files, pos>>
  BY <1>1
<1>4. /\ skip => UNCHANGED <<shadow, brkPage, brkEnd, running>>
      /\ ~skip /\ n = 0 /\ brkPage # Null => running' = FALSE /\ UNCHANGED <<shadow, brkPage, brkEnd>>
      /\ ~skip /\ ~(n = 0 /\ brkPage # Null) =>
            /\ shadow' = InUse(s, <<b, 0>>) /\ brkPage' = <<b, 0>> /\ brkEnd' = up /\ running' = running
  BY <1>1
<1>5. doubts' \cap PageDoubts = {} =>
         added # Junk /\ (~skip => beyond = {} /\ ~(n = 0 /\ brkPage # Null))
  <2> HIDE DEF skip, beyond, n
  <2> QED BY <1>2, WhenFacts DEF PageDoubts
<1>6. /\ ret \in Nat /\ up \in HeapStart..(HeapStart + HeapPages)
      /\ up = HeapStart => ret = HeapStart * PageSize
      /\ \A k \in Int : ret = k * PageSize => up = k
  BY BreakFacts
<1>7. doubts \subseteq doubts'
  BY <1>2
<1> HIDE DEF up, doubt
<1>8. HeapStart \in Nat /\ HeapPages \in Nat /\ up \in Nat /\ n \in 0..HeapPages /\ HeapStart + n = up
  BY <1>6, SpaceAssumption
<1>9. heap = HeapStart..(up - 1) /\ heap \subseteq HeapPage /\ HeapPage \subseteq Page
  BY <1>6, <1>8, SpaceAssumption DEF HeapPage
<1>10. /\ IsShadow(shadow) /\ Lean(shadow, brkPage) /\ mapped \subseteq Page /\ mem \in [Addr -> Int]
       /\ brkPage \in Nat \X {0} /\ brkEnd \in Nat
  BY DEF IInv, TypeOK
<1>11. mem' \in [Addr -> Int] /\ mapped' \subseteq Page
  <2>1. heap \subseteq Page /\ mapped \subseteq Page
    BY <1>9, <1>10
  <2> HIDE DEF heap, n
  <2>2. mapped' \subseteq Page
    BY <1>3, <2>1
  <2>3. \A a \in Addr : mem[a] \in Int
    BY <1>10
  <2>4. \A a \in Addr : (IF PageOf(a) \in HeapPage \ (mapped \cap heap) THEN None ELSE mem[a]) \in Int
    BY <2>3 DEF None
  <2>5. mem' \in [Addr -> Int]
    BY <1>3, <2>4
  <2> QED BY <2>2, <2>5
<1>12. b \in Nat \ {0}
  BY HeapBlock
<1>13. /\ doubts' \cap PageDoubts = {} => running /\ Sound(shadow, brkPage, brkEnd, mapped)
       /\ doubts' \cap (OffsetDoubts \cup PageDoubts) = {} =>
             \A a \in Addr : PageOf(a) \in mapped => Cell(shadow, a) \in {None, mem[a]}
       /\ doubts' = {} => \A a \in Addr : PageOf(a) \in mapped => (mem[a] # None => Cell(shadow, a) = mem[a])
  <2>1. doubts' \cap PageDoubts = {} => running /\ Sound(shadow, brkPage, brkEnd, mapped)
    BY <1>7 DEF IInv, PageInv
  <2>2. doubts' \cap (OffsetDoubts \cup PageDoubts) = {} => doubts \cap (OffsetDoubts \cup PageDoubts) = {}
    BY <1>7
  <2>3. doubts' = {} => doubts = {}
    BY <1>7
  <2> QED BY <2>1, <2>2, <2>3 DEF IInv, ShadowIsInput, InputIsTracked, Bytes
<1>14. ASSUME IsShadow(shadow') /\ Lean(shadow', brkPage') /\ running' \in BOOLEAN
              /\ brkPage' \in Nat \X {0} /\ brkEnd' \in Nat,
              doubts' \cap PageDoubts = {} =>
                  /\ running' /\ Sound(shadow', brkPage', brkEnd', mapped')
                  /\ \A a \in Addr : PageOf(a) \in mapped' /\ PageOf(a) \in mapped =>
                        Cell(shadow', a) = Cell(shadow, a) /\ mem'[a] = mem[a]
                  /\ \A a \in Addr : PageOf(a) \in mapped' /\ PageOf(a) \notin mapped =>
                        Cell(shadow', a) = None /\ mem'[a] = None
       PROVE  IInv'
  <2>1. TypeOK'
    BY <1>2, <1>3, <1>6, <1>11, <1>14 DEF IInv, TypeOK
  <2>2. PageInv'
    BY <1>14 DEF PageInv
  <2>3. ShadowIsInput'
    <3> SUFFICES ASSUME doubts' \cap (OffsetDoubts \cup PageDoubts) = {}, NEW a \in Addr, PageOf(a) \in mapped'
                 PROVE  Cell(shadow', a) \in {None, mem'[a]}
      BY DEF ShadowIsInput, Bytes
    <3>1. doubts' \cap PageDoubts = {}
      OBVIOUS
    <3> QED BY <1>13, <1>14, <3>1
  <2>4. InputIsTracked'
    <3> SUFFICES ASSUME doubts' = {}, NEW a \in Addr, PageOf(a) \in mapped', mem'[a] # None
                 PROVE  Cell(shadow', a) = mem'[a]
      BY DEF InputIsTracked, Bytes
    <3>1. doubts' \cap PageDoubts = {}
      OBVIOUS
    <3> QED BY <1>13, <1>14, <3>1
  <2> QED BY <1>3, <1>7, <1>14, <2>1, <2>2, <2>3, <2>4, FilesSame DEF IInv
<1>15. CASE skip
  <2>1. UNCHANGED <<shadow, brkPage, brkEnd, running>> /\ up = brkEnd
    BY <1>4, <1>6, <1>10, <1>15
  <2>2. ASSUME doubts' \cap PageDoubts = {}
        PROVE  mapped' = mapped /\ \A a \in Addr : PageOf(a) \in mapped => mem'[a] = mem[a]
    <3>1. mapped \cap HeapPage = heap
      BY <1>9, <1>13, <2>1, <2>2 DEF Sound
    <3> HIDE DEF heap
    <3> QED BY <1>3, <3>1
  <2> QED BY <1>2, <1>10, <1>13, <1>14, <2>1, <2>2
<1>16. CASE ~skip /\ n = 0 /\ brkPage # Null
  <2>1. doubts' \cap PageDoubts # {}
    BY <1>5, <1>16
  <2> QED BY <1>4, <1>10, <1>14, <1>16, <2>1
<1>17. CASE ~skip /\ ~(n = 0 /\ brkPage # Null)
  <2>1. shadow' = InUse(s, <<b, 0>>) /\ brkPage' = <<b, 0>> /\ brkEnd' = up /\ running' = running
    BY <1>4, <1>17
  <2>2. content \in [Offset -> Int]
    BY DEF None, Junk
  <2>3. IsShadow(s)
    <3> HIDE DEF b, n, content
    <3> QED BY <1>8, <1>10, <1>12, <2>2, BrkType
  <2>4. IsShadow(shadow') /\ Lean(shadow', <<b, 0>>)
    <3> HIDE DEF s, b
    <3> QED BY <2>1, <2>3, InUseFacts
  <2>5. brkPage' \in Nat \X {0} /\ brkEnd' \in Nat /\ running' \in BOOLEAN
    <3> HIDE DEF b
    <3> QED BY <1>2, <1>8, <1>12, <2>1
  <2>6. ASSUME doubts' \cap PageDoubts = {}
        PROVE  /\ running' /\ Sound(shadow', <<b, 0>>, up, mapped')
               /\ \A a \in Addr : PageOf(a) \in mapped' /\ PageOf(a) \in mapped =>
                     Cell(shadow', a) = Cell(shadow, a) /\ mem'[a] = mem[a]
               /\ \A a \in Addr : PageOf(a) \in mapped' /\ PageOf(a) \notin mapped =>
                     Cell(shadow', a) = None /\ mem'[a] = None
    <3>1. added = None /\ beyond = {} /\ Sound(shadow, brkPage, brkEnd, mapped) /\ running'
      BY <1>2, <1>5, <1>13, <1>17, <2>1, <2>6
    <3>2. n \in 1..HeapPages
      <4>1. n # 0
        <5> SUFFICES ASSUME n = 0 PROVE FALSE
          OBVIOUS
        <5>1. brkPage = Null
          BY <1>17
        <5>2. brkEnd = HeapStart
          BY <3>1, <5>1 DEF Sound, HeapInv, Null
        <5>3. up = HeapStart
          BY <1>8
        <5> QED BY <1>6, <1>17, <5>2, <5>3
      <4> HIDE DEF n
      <4> QED BY <1>8, <4>1
    <3>3. HeapIsBlock(shadow, b, brkEnd)
      BY <3>1, HeapBlock
    <3>4. NoneBeyond(mapped, HeapStart + n, brkEnd)
      BY <1>8, <3>1 DEF NoneBeyond
    <3> HIDE DEF b, n
    <3>5. /\ Sound(s, <<b, 0>>, HeapStart + n, (mapped \ HeapPage) \cup heap)
          /\ \A a \in Addr : PageOf(a) \in (mapped \ HeapPage) \cup (heap \cap mapped) => Cell(s, a) = Cell(shadow, a)
          /\ \A a \in Addr : PageOf(a) \in heap \ mapped => Cell(s, a) = content[OffsetOf(a)]
      <4> HIDE DEF content
      <4>1. brkEnd \in Int /\ IsShadow(shadow) /\ mapped \subseteq Page
        BY <1>10
      <4>2. b \in Nat \ {0} /\ n \in 1..HeapPages
        BY <1>12, <3>2
      <4>3. Sound(shadow, brkPage, brkEnd, mapped)
        BY <3>1
      <4>4. Resized(shadow, b, n, content, mapped)
        BY <3>3, <3>4, <4>1, <4>2, <4>3, BrkFacts
      <4> QED BY <4>4 DEF Resized
    <3>6. \A a \in Addr : content[OffsetOf(a)] = None
      BY <3>1, AddrFacts
    <3> HIDE DEF s, content, heap
    <3>7. /\ Sound(s, <<b, 0>>, up, mapped')
          /\ \A a \in Addr : Cell(shadow', a) = Cell(s, a)
      BY <1>3, <1>8, <2>1, <2>3, <3>5, InUseFacts
    <3>8. Sound(shadow', <<b, 0>>, up, mapped')
      BY <1>11, <2>1, <2>3, <3>7, InUseFacts
    <3>9. ASSUME NEW a \in Addr, PageOf(a) \in mapped', PageOf(a) \in mapped
          PROVE  Cell(shadow', a) = Cell(shadow, a) /\ mem'[a] = mem[a]
      <4>1. PageOf(a) \in (mapped \ HeapPage) \cup (heap \cap mapped)
        BY <1>3, <3>9
      <4> QED BY <1>3, <3>5, <3>7, <4>1
    <3>10. ASSUME NEW a \in Addr, PageOf(a) \in mapped', PageOf(a) \notin mapped
           PROVE  Cell(shadow', a) = None /\ mem'[a] = None
      <4>1. PageOf(a) \in heap \ mapped
        BY <1>3, <3>10
      <4> QED BY <1>3, <1>9, <3>5, <3>6, <3>7, <4>1
    <3> QED BY <3>1, <3>8, <3>9, <3>10
  <2> HIDE DEF b
  <2> QED BY <1>14, <2>1, <2>4, <2>5, <2>6
<1> QED BY <1>15, <1>16, <1>17

-----------------------------------------------------------------------------
(* The invariant *)

(* The tool starts with the image and the vdso mapped, and no file of the input open. *)
LEMMA InitKeeps == ASSUME Init PROVE IInv
<1> DEFINE s0 == [table |-> [p \in Page |-> IF p = VdsoPage THEN Zero ELSE Null], cells |-> <<>>]
<1> DEFINE start == ImageLow * PageSize
<1> DEFINE end == ImageHigh * PageSize
<1> DEFINE t == Mmap(s0, start, end)
<1>1. shadow = InUse(t, Null)
  BY DEF Init
<1>2. /\ s0.table = [p \in Page |-> IF p = VdsoPage THEN Zero ELSE Null]
      /\ DOMAIN s0.cells = {}
  OBVIOUS
<1> HIDE DEF s0
<1>3. \A p \in Page : s0.table[p] \in Nat \X Nat /\ s0.table[p][1] = 0
  BY <1>2 DEF Zero, Null
<1>4. IsShadow(s0) /\ Lean(s0, Null)
  BY <1>2, <1>3 DEF IsShadow, Lean
<1>5. HeapStart \in Nat /\ HeapPages \in Nat /\ HeapStart..(HeapStart - 1) = {} /\ Null[1] = 0
  BY SpaceAssumption DEF Null
<1>6. Sound(s0, Null, HeapStart, {VdsoPage})
  <2>1. Backed(s0, {VdsoPage}) /\ Aligned(s0)
    BY <1>3 DEF Backed, Aligned
  <2>2. HeapInv(s0, Null, HeapStart)
    BY <1>2, <1>5 DEF HeapInv
  <2>3. {VdsoPage} \cap HeapPage = HeapStart..(HeapStart - 1)
    BY <1>5, SpaceAssumption
  <2> QED BY <2>1, <2>2, <2>3 DEF Sound
<1>7. start \in Int /\ end \in Int /\ PageOf(start) = ImageLow /\ PageOf(end) = ImageHigh
  BY SpaceAssumption, SizeAssumption, PageOfStart
<1>8. PageOf(start)..PageOf(end) = ImagePage
  BY <1>7 DEF ImagePage
<1> DEFINE range == PageOf(start)..PageOf(end)
<1> DEFINE new == ImagePage \cup {VdsoPage}
<1> HIDE DEF start, end
<1>9. /\ IsShadow(t)
      /\ \A a \in Addr : Cell(t, a) = IF PageOf(a) \in range THEN None ELSE Cell(s0, a)
      /\ /\ Sound(s0, Null, HeapStart, {VdsoPage}) /\ range \cap HeapPage = {}
         /\ new \subseteq Page /\ new \subseteq {VdsoPage} \cup range
         /\ new \cap HeapPage = {VdsoPage} \cap HeapPage
         => Sound(t, Null, HeapStart, new)
  BY <1>4, <1>7, MmapFacts
<1>10. new \subseteq Page /\ new \cap HeapPage = {VdsoPage} \cap HeapPage /\ ImagePage \cap HeapPage = {}
  BY SpaceAssumption
<1> HIDE DEF t
<1>11. Sound(t, Null, HeapStart, new)
  BY <1>6, <1>8, <1>9, <1>10
<1>12. IsShadow(shadow) /\ Lean(shadow, Null) /\ Sound(shadow, Null, HeapStart, new)
  BY <1>1, <1>9, <1>10, <1>11, InUseFacts
<1>13. \A a \in Addr : Cell(shadow, a) = None
  <2>1. \A a \in Addr : Cell(s0, a) = None
    BY <1>2 DEF Cell
  <2> QED BY <1>1, <1>9, <2>1, InUseFacts
<1>14. TypeOK
  <2>1. brkPage \in Nat \X {0} /\ brkEnd \in Nat /\ brkNow \in Nat
    BY SpaceAssumption, SizeAssumption DEF Init, Null
  <2>2. fdSet \subseteq Fd /\ off \in Int /\ mem \in [Addr -> Int] /\ mapped \subseteq Page
    BY <1>10, ArgumentAssumption DEF Init, None
  <2>3. files \in [Fd -> {Closed, Other} \cup Description] /\ pos \in [Description -> Nat]
    BY DEF Init, Description
  <2> QED BY <1>12, <2>1, <2>2, <2>3 DEF Init, TypeOK
<1>15. PageInv
  BY <1>12 DEF Init, PageInv
<1>16. OffsetInv /\ TrackedInv
  <2>1. 1 \in Description /\ 0 \in Fd
    BY ArgumentAssumption DEF Description
  <2>2. CASE hookFs
    BY <2>1, <2>2, FileKinds DEF Init, OffsetInv, TrackedInv
  <2>3. CASE ~hookFs
    BY <2>1, <2>3, FileKinds DEF Init, OffsetInv, TrackedInv
  <2> QED BY <2>2, <2>3
<1>17. ShadowIsInput /\ InputIsTracked
  BY <1>13 DEF Init, ShadowIsInput, InputIsTracked, Bytes
<1> QED BY <1>12, <1>14, <1>15, <1>16, <1>17 DEF Init, IInv

(* A step that changes nothing. *)
LEMMA StutterKeeps == ASSUME IInv, UNCHANGED vars PROVE IInv'
<1>1. UNCHANGED <<hookFs, shadow, brkPage, brkEnd, off, fdSet, running, mapped, mem, brkNow, files, pos, doubts, calls>>
  BY DEF vars, toolVars, kernelVars
<1>2. TypeOK'
  BY <1>1 DEF IInv, TypeOK
<1> QED BY <1>1, <1>2, MemorySame, FilesSame DEF IInv

(* A call that fails is seen and changes nothing. *)
LEMMA FailedCallKeeps == ASSUME IInv, FailedCall PROVE IInv'
<1>1. /\ running /\ calls' \in Nat /\ hookFs' \in BOOLEAN /\ doubts' = doubts \cup {}
  <2>1. Step({}) /\ TypeOK
    BY DEF IInv, FailedCall
  <2> QED BY <2>1, StepFacts
<1>2. UNCHANGED <<shadow, brkPage, brkEnd, off, fdSet, running, mapped, mem, brkNow, files, pos>>
  BY DEF FailedCall, toolVars, kernelVars
<1>3. TypeOK'
  BY <1>1, <1>2 DEF IInv, TypeOK
<1>4. doubts \subseteq doubts'
  BY <1>1
<1> QED BY <1>2, <1>3, <1>4, MemorySame, FilesSame DEF IInv

(* Every step of the hooks and of the kernel preserves the invariant. *)
THEOREM Inductive == Spec => []IInv
<1>1. Init => IInv
  BY InitKeeps
<1>2. IInv /\ [Next]_vars => IInv'
  <2> SUFFICES ASSUME IInv, [Next]_vars PROVE IInv'
    OBVIOUS
  <2> QED BY OpenInputKeeps, OpenOtherKeeps, DupKeeps, CloseKeeps, ReadKeeps, ReadvKeeps, PreadKeeps,
             LSeekKeeps, MMapKeeps, MMapFileKeeps, MUnmapKeeps, MRemapKeeps, SetBrkKeeps,
             ThreadStartKeeps, MoveKeeps, OtherCallKeeps, FailedCallKeeps,
             StutterKeeps DEF Next
<1> QED BY <1>1, <1>2, PTL DEF Spec

(* The page table always holds pointers, shadow pages always have a cell for *)
(* each byte, and the descriptors and offsets are in range, also after a     *)
(* doubt and after a fault.                                                  *)
THEOREM TypeCorrect == Spec => []TypeOK
<1>1. IInv => TypeOK
  BY DEF IInv
<1> QED BY <1>1, Inductive, PTL

(* Memory::mmap, munmap, mremap and brk keep a shadow page of its own for    *)
(* each page of the program, so the hooks never fault and never store at     *)
(* another address, unless a case of PageDoubts was met.                     *)
THEOREM PagesBackedHolds == Spec => []PagesBacked
<1>1. IInv => PagesBacked
  <2> SUFFICES ASSUME IInv, doubts \cap PageDoubts = {}
               PROVE  /\ running
                      /\ \A p \in mapped \ {VdsoPage} :
                            /\ shadow.table[p] \in DOMAIN shadow.cells
                            /\ \A q \in mapped \ {p} : shadow.table[q] # shadow.table[p]
    BY DEF PagesBacked
  <2>1. running /\ Backed(shadow, mapped) /\ Aligned(shadow)
    BY DEF IInv, PageInv, Sound
  <2> SUFFICES ASSUME NEW p \in mapped \ {VdsoPage}
               PROVE  /\ shadow.table[p] \in DOMAIN shadow.cells
                      /\ \A q \in mapped \ {p} : shadow.table[q] # shadow.table[p]
    BY <2>1
  <2>2. shadow.table[p] \in DOMAIN shadow.cells
    BY <2>1 DEF Backed
  <2>3. IsShadow(shadow) /\ mapped \subseteq Page
    BY DEF IInv, TypeOK
  <2>4. shadow.table[p][1] # 0 /\ shadow.table[p][2] \in Int
    BY <2>2, <2>3, ShadowFacts
  <2>5. ASSUME NEW q \in mapped \ {p}, shadow.table[q] = shadow.table[p] PROVE FALSE
    <3>1. p \in Page /\ q \in Page /\ p \in Int /\ q \in Int
      BY <2>3, SpaceAssumption
    <3>2. shadow.table[p][2] - shadow.table[p][2] = q - p
      BY <2>1, <2>4, <2>5, <3>1 DEF Aligned
    <3>3. \A x, y, z \in Int : x - x = y - z => y = z
      OBVIOUS
    <3> QED BY <2>4, <3>1, <3>2, <3>3
  <2> QED BY <2>2, <2>5
<1> QED BY <1>1, Inductive, PTL

(* Whatever the program opens, duplicates, closes, reads, seeks, maps, moves *)
(* and unmaps, a cell names the byte of the file that the kernel put there   *)
(* or none, unless a case of OffsetDoubts or PageDoubts was met.             *)
THEOREM ShadowIsInputHolds == Spec => []ShadowIsInput
<1>1. IInv => ShadowIsInput
  BY DEF IInv
<1> QED BY <1>1, Inductive, PTL

(* Without a doubt no byte of the input is lost: postReadHook and the others *)
(* give an expression to each byte that the kernel puts into memory, and     *)
(* mremap, brk and moves keep it.                                            *)
THEOREM InputIsTrackedHolds == Spec => []InputIsTracked
<1>1. IInv => InputIsTracked
  BY DEF IInv
<1> QED BY <1>1, Inductive, PTL
=============================================================================
