------------------------------ MODULE PmmProofs ------------------------------
(***************************************************************************)
(* Theorems about Pmm: the types with the bound of cur_ptr for every map    *)
(* and every request, that allocations and frees keep a sound bitmap sound  *)
(* whatever the memory in front of the bitmap reads as, and that init_pmm   *)
(* leaves a sound bitmap for every map that fits.                           *)
(***************************************************************************)
EXTENDS Pmm, SequenceTheorems, TLAPS

LEMMA ModRange == ASSUME NEW x \in Nat, NEW m \in Nat \ {0}
                  PROVE  x % m \in 0 .. m - 1
  BY Z3

LEMMA ModSmall == ASSUME NEW x \in Nat, NEW m \in Nat \ {0}, x < m
                  PROVE  x % m = x
  BY Z3

LEMMA DivRange == ASSUME NEW x \in Nat, NEW m \in Nat \ {0}
                  PROVE  x \div m \in Nat /\ x \div m <= x
  BY Z3

(* A scan stays between 0 and the end of the bitmap, and what it has looked
   at in iteration i lies at least as far as a run that ends there is long.  *)
LEMMA PositionRange ==
    ASSUME TypeOK, NEW n \in Nat, n < Limit, NEW i \in Nat
    PROVE  /\ Position(n, i) \in Nat /\ Position(n, i) < Limit
           /\ i >= n - 1 => Position(n, i) >= n - 1
<1> USE PmmAssumption DEF TypeOK
<1>1. Limit \in Nat /\ cur_ptr \in Nat /\ cur_ptr <= Limit BY DEF Limit
<1>2. CASE cur_ptr + i < Limit BY <1>1, <1>2 DEF Position
<1>3. CASE cur_ptr + i >= Limit
  <2>1. cur_ptr + i - Limit \in Nat /\ Limit - n \in Nat \ {0} BY <1>1, <1>3
  <2>2. (cur_ptr + i - Limit) % (Limit - n) \in 0 .. Limit - n - 1
        BY ONLY <2>1, ModRange
  <2>3. Position(n, i) = n + ((cur_ptr + i - Limit) % (Limit - n))
        BY <1>1, <1>3 DEF Position
  <2> QED BY ONLY <1>1, <2>1, <2>2, <2>3, n \in Nat, i \in Nat
<1> QED BY <1>1, <1>2, <1>3

(* The bitmap never asks for as many pages as it describes.                  *)
LEMMA GrowthFits ==
    ASSUME TypeOK
    PROVE  /\ bitmap_entries \div PER_PAGE + 1 \in Nat
           /\ bitmap_entries \div PER_PAGE + 1 < Limit
<1>1. bitmap_entries \in Nat /\ PER_PAGE \in Nat \ {0}
      /\ BITMAP_BASE \in Nat /\ BITMAP_BASE > 1
      BY PmmAssumption DEF TypeOK
<1>2. bitmap_entries \div PER_PAGE \in Nat /\ bitmap_entries \div PER_PAGE <= bitmap_entries
      BY <1>1, DivRange
<1> QED BY <1>1, <1>2 DEF Limit

LEMMA RequestFits ==
    ASSUME TypeOK, NEW n \in Requests PROVE n \in Nat /\ n < Limit
  BY PmmAssumption DEF TypeOK, Limit

LEMMA RegionPage ==
    ASSUME TypeOK, region <= Len(e820_map)
    PROVE  FirstPage(e820_map[region]) \in Nat
<1>1. e820_map \in Seq([base : Nat, length : Nat, type : Nat \ {0}])
      BY PmmAssumption DEF TypeOK
<1>2. e820_map[region].base \in Nat
  <2>1. region \in 1 .. Len(e820_map) BY <1>1 DEF TypeOK
  <2>2. e820_map[region] \in [base : Nat, length : Nat, type : Nat \ {0}]
        BY ONLY <1>1, <2>1, ElementOfSeq
  <2> QED BY <2>2
<1>3. PAGE_SIZE \in Nat \ {0} BY PmmAssumption
<1>4. e820_map[region].base + PAGE_SIZE - 1 \in Nat BY <1>2, <1>3
<1> QED BY <1>3, <1>4, DivRange DEF FirstPage

LEMMA TypeInit == Init => TypeOK
  BY PmmAssumption DEF Init, TypeOK, Pages, Limit

LEMMA TypeAlloc ==
    ASSUME TypeOK, NEW n \in Requests, pmm_alloc(n) PROVE TypeOK'
<1>1. n \in Nat /\ n < Limit BY RequestFits
<1>2. UNCHANGED <<e820_map, bitmap_entries, bitmap_at, region, index, phase>>
      BY DEF pmm_alloc
<1>3. Limit' = Limit /\ Pages' = Pages BY <1>2 DEF Limit, Pages
<1>4. bitmap_entries \in Nat /\ bitmap_entries > 0 /\ Limit \in Nat
      BY PmmAssumption DEF TypeOK, Limit
<1>5. PICK stray \in Strays :
         \/ \E i \in 0 .. bitmap_entries - 1 :
               /\ Finds(n, stray, i)
               /\ used' = used \cup Marked(n, i)
               /\ owned' = owned \cup Taken(n, i)
               /\ clash' = clash \cup (owned \cap Taken(n, i))
               /\ cur_ptr' = Position(n, i) + 1
         \/ /\ cur_ptr' = Position(n, bitmap_entries - 1) + 1
            /\ UNCHANGED <<used, owned, clash>>
      BY DEF pmm_alloc
<1>6. cur_ptr' \in 0 .. Limit
  <2>1. PICK i \in 0 .. bitmap_entries - 1 : cur_ptr' = Position(n, i) + 1 BY <1>4, <1>5
  <2>2. Position(n, i) \in Nat /\ Position(n, i) < Limit BY <1>1, <2>1, PositionRange
  <2> QED BY <1>4, <2>1, <2>2
<1>7. used' \subseteq Pages
  BY <1>5 DEF TypeOK, Marked
<1>8. owned' \subseteq Nat /\ clash' \subseteq Nat
  <2>1. CASE UNCHANGED <<used, owned, clash>> BY <2>1 DEF TypeOK
  <2>2. ASSUME NEW i \in 0 .. bitmap_entries - 1, Finds(n, stray, i),
               owned' = owned \cup Taken(n, i),
               clash' = clash \cup (owned \cap Taken(n, i))
        PROVE  owned' \subseteq Nat /\ clash' \subseteq Nat
    <3>1. i >= n - 1 BY <2>2 DEF Finds, RunEnds
    <3>2. Position(n, i) \in Nat /\ Position(n, i) >= n - 1
          BY <1>1, <3>1, PositionRange
    <3>3. Taken(n, i) \subseteq Nat BY <1>1, <3>2 DEF Taken
    <3> QED BY <2>2, <3>3 DEF TypeOK
  <2> QED BY <1>5, <2>1, <2>2
<1> QED BY <1>2, <1>3, <1>6, <1>7, <1>8 DEF TypeOK

LEMMA TypeMapPage == ASSUME TypeOK, MapPage PROVE TypeOK'
<1> DEFINE page == FirstPage(e820_map[region]) + index
           size == bitmap_entries \div PER_PAGE
<1>1. page \in Nat BY RegionPage DEF MapPage, TypeOK
<1>2. size + 1 \in Nat /\ size + 1 < Limit /\ size \in Nat
  <2>1. size + 1 \in Nat /\ size + 1 < Limit BY GrowthFits
  <2>2. size \in Nat BY DivRange, PmmAssumption DEF TypeOK
  <2> QED BY <2>1, <2>2
<1>3. UNCHANGED <<e820_map, owned, clash, region, phase>> /\ index' = index + 1
      BY DEF MapPage
<1>4. bitmap_entries \in Nat /\ bitmap_entries >= PER_PAGE /\ PER_PAGE \in Nat \ {0}
      /\ BITMAP_BASE \in Nat /\ Limit \in Nat /\ Limit = BITMAP_BASE + bitmap_entries
      BY PmmAssumption DEF TypeOK, Limit
<1>5. \/ /\ page < BITMAP_BASE + 1
         /\ UNCHANGED <<used, bitmap_entries, bitmap_at, cur_ptr>>
      \/ /\ page >= BITMAP_BASE + 1 /\ page < Limit
         /\ used' = Record(used, page, Limit)
         /\ UNCHANGED <<bitmap_entries, bitmap_at, cur_ptr>>
      \/ /\ page >= Limit
         /\ \E stray \in Strays, i \in 0 .. bitmap_entries - 1 :
               /\ Finds(size + 1, stray, i)
               /\ bitmap_at' = Position(size + 1, i) - size
               /\ cur_ptr' = Position(size + 1, i) + 1
               /\ bitmap_entries' = bitmap_entries + PER_PAGE
               /\ used' = Record((used \cup Marked(size + 1, i)
                                     \cup (Limit .. Limit + PER_PAGE - 1)) \ BitmapPages,
                                  page, Limit + PER_PAGE)
      BY DEF MapPage
<1> HIDE DEF page, size
<1>6. CASE page < BITMAP_BASE + 1 /\ UNCHANGED <<used, bitmap_entries, bitmap_at, cur_ptr>>
  BY <1>3, <1>6 DEF TypeOK, Limit, Pages
<1>7. CASE /\ page >= BITMAP_BASE + 1 /\ page < Limit
           /\ used' = Record(used, page, Limit)
           /\ UNCHANGED <<bitmap_entries, bitmap_at, cur_ptr>>
  <2>1. used' \subseteq Pages BY <1>1, <1>4, <1>7 DEF Record, Pages, TypeOK
  <2> QED BY <1>3, <1>7, <2>1 DEF TypeOK, Limit, Pages
<1>8. ASSUME page >= Limit,
             NEW stray \in Strays, NEW i \in 0 .. bitmap_entries - 1,
             Finds(size + 1, stray, i),
             bitmap_at' = Position(size + 1, i) - size,
             cur_ptr' = Position(size + 1, i) + 1,
             bitmap_entries' = bitmap_entries + PER_PAGE,
             used' = Record((used \cup Marked(size + 1, i)
                               \cup (Limit .. Limit + PER_PAGE - 1)) \ BitmapPages,
                            page, Limit + PER_PAGE)
      PROVE  TypeOK'
  <2>1. i >= size BY <1>2, <1>8 DEF Finds, RunEnds
  <2>2. Position(size + 1, i) \in Nat /\ Position(size + 1, i) < Limit
        /\ Position(size + 1, i) >= size
        BY <1>2, <2>1, PositionRange
  <2>3. Limit' = Limit + PER_PAGE BY <1>4, <1>8 DEF Limit
  <2>4. cur_ptr' \in 0 .. Limit' /\ bitmap_at' \in Nat
        BY <1>2, <1>4, <1>8, <2>2, <2>3
  <2>5. used' \subseteq Pages'
    <3>1. Pages' = BITMAP_BASE .. Limit + PER_PAGE - 1
      <4>1. Pages' = BITMAP_BASE .. Limit' - 1 BY DEF Pages
      <4> QED BY <1>4, <2>3, <4>1
    <3>2. used \subseteq Pages' /\ Marked(size + 1, i) \subseteq Pages'
      <4>1. Pages \subseteq BITMAP_BASE .. Limit + PER_PAGE - 1 BY <1>4 DEF Pages
      <4>2. used \subseteq Pages /\ Marked(size + 1, i) \subseteq Pages BY DEF TypeOK, Marked
      <4> QED BY <3>1, <4>1, <4>2
    <3>3. Limit .. Limit + PER_PAGE - 1 \subseteq Pages' BY <1>4, <3>1
    <3>4. page < Limit + PER_PAGE => page \in Pages' BY <1>1, <1>4, <1>8, <3>1
    <3> QED BY <1>1, <1>4, <1>8, <3>2, <3>3, <3>4 DEF Record
  <2> QED BY <1>3, <1>4, <1>8, <2>4, <2>5 DEF TypeOK
<1> QED BY <1>5, <1>6, <1>7, <1>8

LEMMA TypeStep == TypeOK /\ [Next]_vars => TypeOK'
<1> SUFFICES ASSUME TypeOK, [Next]_vars PROVE TypeOK' OBVIOUS
<1>1. CASE MapPage BY <1>1, TypeMapPage
<1>2. CASE InitHalts \/ NextRegion \/ InitDone
  <2>1. CASE InitHalts BY <2>1 DEF InitHalts, TypeOK, Limit, Pages
  <2>2. CASE NextRegion BY <2>2 DEF NextRegion, TypeOK, Limit, Pages
  <2>3. CASE InitDone BY <2>3 DEF InitDone, TypeOK, Limit, Pages
  <2> QED BY <1>2, <2>1, <2>2, <2>3
<1>3. ASSUME NEW n \in Requests, pmm_alloc(n) PROVE TypeOK' BY <1>3, TypeAlloc
<1>4. ASSUME NEW n \in Requests, NEW start \in owned, pmm_free(start, n) PROVE TypeOK'
  BY <1>4 DEF pmm_free, TypeOK, Limit, Pages
<1>5. CASE UNCHANGED vars BY <1>5 DEF vars, TypeOK, Limit, Pages
<1> QED BY <1>1, <1>2, <1>3, <1>4, <1>5 DEF Next

(* The types hold for every memory map and request: in particular cur_ptr
   never passes the end of the bitmap, where its test for equality would no
   longer see it.                                                            *)
THEOREM PmmTypeCorrect == Spec => []TypeOK
<1>1. Init => TypeOK BY TypeInit
<1>2. TypeOK /\ [Next]_vars => TypeOK' BY TypeStep
<1> QED BY <1>1, <1>2, PTL DEF Spec

-----------------------------------------------------------------------------
(* The pages of a run that have a bit are free ones.  A run that continues
   over a wrap goes on at page n, and the pages it takes without having looked
   at them lie in front of that page and so of the bitmap.                   *)
LEMMA TakenFree ==
    ASSUME TypeOK, NEW n \in Nat, n <= BITMAP_BASE,
           NEW stray \in Strays, NEW i \in 0 .. bitmap_entries - 1, Finds(n, stray, i)
    PROVE  Taken(n, i) \cap Pages \subseteq Pages \ used
<1>1. /\ n \in Nat /\ n < Limit /\ i \in Nat /\ i >= n - 1 /\ n > 0
      /\ cur_ptr \in Nat /\ cur_ptr <= Limit /\ Limit \in Nat
      /\ BITMAP_BASE \in Nat /\ bitmap_entries \in Nat
      /\ Limit = BITMAP_BASE + bitmap_entries
      BY PmmAssumption DEF Finds, RunEnds, TypeOK, Limit
<1>2. \A j \in i - n + 1 .. i : Position(n, j) \in Pages => Position(n, j) \notin used
      BY DEF Finds, RunEnds, ReadsFree
<1>3. \A j \in Nat : cur_ptr + j < Limit => Position(n, j) = cur_ptr + j
      BY DEF Position
<1>4. \A j \in Nat : j <= i /\ cur_ptr + j >= Limit =>
         Position(n, j) = n + (cur_ptr + j - Limit)
  <2> SUFFICES ASSUME NEW j \in Nat, j <= i, cur_ptr + j >= Limit
               PROVE  Position(n, j) = n + (cur_ptr + j - Limit)
      OBVIOUS
  <2>1. cur_ptr + j - Limit \in Nat /\ Limit - n \in Nat \ {0} BY <1>1
  <2>2. cur_ptr + j - Limit < Limit - n BY <1>1
  <2>3. (cur_ptr + j - Limit) % (Limit - n) = cur_ptr + j - Limit
        BY ONLY <2>1, <2>2, ModSmall
  <2> QED BY <1>1, <2>3 DEF Position
<1>5. ASSUME NEW p \in Taken(n, i), p \in Pages
      PROVE  \E j \in i - n + 1 .. i : Position(n, j) = p
  <2>1. Position(n, i) \in Nat BY <1>1, PositionRange
  <2>2. p \in Int /\ p <= Position(n, i) /\ p >= Position(n, i) - n + 1 /\ p >= BITMAP_BASE
        BY <1>1, <1>5, <2>1 DEF Taken, Pages
  <2>3. i - (Position(n, i) - p) \in i - n + 1 .. i /\ i - (Position(n, i) - p) \in Nat
        BY <1>1, <2>1, <2>2
  <2>4. Position(n, i - (Position(n, i) - p)) = p
    <3>1. CASE cur_ptr + i < Limit BY <1>1, <1>3, <2>1, <2>2, <2>3, <3>1
    <3>2. CASE cur_ptr + i >= Limit
      <4>1. Position(n, i) = n + (cur_ptr + i - Limit) BY <1>1, <1>4, <3>2
      <4>2. cur_ptr + (i - (Position(n, i) - p)) >= Limit BY <1>1, <2>1, <2>2, <4>1
      <4> QED BY <1>1, <1>4, <2>1, <2>2, <2>3, <4>1, <4>2
    <3> QED BY <1>1, <3>1, <3>2
  <2> QED BY <2>3, <2>4
<1> QED BY <1>2, <1>5

(* Once initialisation has left a sound bitmap, allocations and frees of any
   sizes up to BITMAP_BASE pages, in any order, over any number of wraps and
   whatever the bits in front of the bitmap read as, keep it so: what is free
   is unused memory, and no page of the bitmap is given out twice.           *)
THEOREM AllocatorSound ==
    ASSUME \A n \in Requests : n <= BITMAP_BASE
    PROVE  Spec => [][phase = "run" /\ FreeIsUnused /\ OwnedOnce
                         => (FreeIsUnused /\ OwnedOnce)']_vars
<1>1. Init => TypeOK BY TypeInit
<1>2. TypeOK /\ [Next]_vars => TypeOK' BY TypeStep
<1>3. ASSUME TypeOK, [Next]_vars
      PROVE  [phase = "run" /\ FreeIsUnused /\ OwnedOnce
                 => (FreeIsUnused /\ OwnedOnce)']_vars
  <2>1. SUFFICES ASSUME Next, phase = "run", FreeIsUnused, OwnedOnce
                 PROVE  (FreeIsUnused /\ OwnedOnce)'
        BY <1>3
  <2>2. ASSUME NEW n \in Requests, pmm_alloc(n)
        PROVE  (FreeIsUnused /\ OwnedOnce)'
    <3>1. UNCHANGED <<e820_map, bitmap_entries, bitmap_at, phase>> BY <2>2 DEF pmm_alloc
    <3>2. Pages' = Pages /\ BitmapPages' = BitmapPages BY <3>1 DEF Pages, Limit, BitmapPages
    <3>3. \A p : FitsUsable(p)' <=> FitsUsable(p) BY <3>1 DEF FitsUsable
    <3>4. CASE UNCHANGED <<used, owned, clash>>
      BY <2>1, <3>1, <3>2, <3>3, <3>4 DEF FreeIsUnused, OwnedOnce
    <3>5. ASSUME NEW stray \in Strays, NEW i \in 0 .. bitmap_entries - 1,
                 Finds(n, stray, i), used' = used \cup Marked(n, i),
                 owned' = owned \cup Taken(n, i),
                 clash' = clash \cup (owned \cap Taken(n, i))
          PROVE  (FreeIsUnused /\ OwnedOnce)'
      <4>1. Taken(n, i) \cap Pages \subseteq Pages \ used
            BY <1>3, <3>5, RequestFits, TakenFree
      <4>2. used' = used \cup (Taken(n, i) \cap Pages) BY <3>5 DEF Marked
      <4>3. \A p \in Taken(n, i) \cap Pages :
               FitsUsable(p) /\ p \notin owned /\ p \notin BitmapPages
            BY <2>1, <4>1 DEF FreeIsUnused
      <4>4. FreeIsUnused' BY <2>1, <3>1, <3>2, <3>3, <3>5, <4>2 DEF FreeIsUnused
      <4>5. OwnedOnce' BY <2>1, <3>2, <3>3, <3>5, <4>3 DEF OwnedOnce
      <4> QED BY <4>4, <4>5
    <3> QED BY <2>2, <3>4, <3>5 DEF pmm_alloc
  <2>3. ASSUME NEW n \in Requests, NEW start \in owned, pmm_free(start, n)
        PROVE  (FreeIsUnused /\ OwnedOnce)'
    <3>1. UNCHANGED <<e820_map, bitmap_entries, bitmap_at, phase, clash>>
          BY <2>3 DEF pmm_free
    <3>2. Pages' = Pages /\ BitmapPages' = BitmapPages BY <3>1 DEF Pages, Limit, BitmapPages
    <3>3. \A p : FitsUsable(p)' <=> FitsUsable(p) BY <3>1 DEF FitsUsable
    <3>4. used' = used \ (start .. start + n - 1) /\ owned' = owned \ (start .. start + n - 1)
          /\ start .. start + n - 1 \subseteq owned
          BY <2>3 DEF pmm_free, Unmarked
    <3>5. FreeIsUnused' BY <2>1, <3>1, <3>2, <3>3, <3>4 DEF FreeIsUnused, OwnedOnce
    <3>6. OwnedOnce' BY <2>1, <3>1, <3>2, <3>3, <3>4 DEF OwnedOnce
    <3> QED BY <3>5, <3>6
  <2>4. ~MapPage /\ ~InitHalts /\ ~NextRegion /\ ~InitDone
        BY <2>1 DEF MapPage, InitHalts, NextRegion, InitDone
  <2> QED BY <2>1, <2>2, <2>3, <2>4 DEF Next
<1> QED BY <1>1, <1>2, <1>3, PTL DEF Spec

-----------------------------------------------------------------------------
(* The memory maps for which initialisation is proved right: regions in order
   of their addresses and apart; the page the first bitmap lies in and the two
   behind it usable; memory enough to make the bitmap move, for the page of a
   bitmap that never moves is called free (pmm.c:89 spares another one); and
   no more than a bitmap of BITMAP_BASE pages describes, 512 GiB.            *)
MapFits ==
    /\ FIRST > 0 /\ FIRST + 2 < PER_PAGE
    /\ \A i, j \in 1 .. Len(e820_map) : i < j =>
          FirstPage(e820_map[i]) + PageCount(e820_map[i]) <= FirstPage(e820_map[j])
    /\ \A p \in BITMAP_BASE + FIRST .. BITMAP_BASE + FIRST + 2 :
          \E i \in 1 .. Len(e820_map) : e820_map[i].type = 1 /\ p \in InRegion(i)
    /\ \E i \in 1 .. Len(e820_map) : \E p \in InRegion(i) : p >= BITMAP_BASE + PER_PAGE
    /\ \A i \in 1 .. Len(e820_map) : \A p \in InRegion(i) :
          p < BITMAP_BASE + BITMAP_BASE * PER_PAGE

(* init_pmm has been through page p of region i.                             *)
Done(i, p) ==
    /\ p \in InRegion(i)
    /\ i < region \/ (i = region /\ p < FirstPage(e820_map[region]) + index)
SeenUsable(p) == \E i \in 1 .. Len(e820_map) : Done(i, p) /\ e820_map[i].type = 1

(* While init_pmm is at work, what the bitmap calls free has been seen to be
   usable and is neither the page at MEMORY_BASE nor the bitmap itself, its
   first page excepted; while nothing has been recorded outside the bitmap,
   all that has been seen to be usable is called free.                       *)
Mapping(size) ==
    /\ owned = {} /\ clash = {}
    /\ bitmap_entries = size * PER_PAGE
    /\ \A p \in BitmapPages : p < Limit
    /\ size = 1 => bitmap_at = BITMAP_BASE + FIRST /\ cur_ptr = BITMAP_BASE + FIRST + 1
    /\ size > 1 => \A p \in BitmapPages : p \in Pages => p > BITMAP_BASE /\ SeenUsable(p)
    /\ \A p \in Pages : p \notin used =>
          p > BITMAP_BASE /\ SeenUsable(p) /\ (size > 1 => p \notin BitmapPages)
    /\ size = 1 \/ NoLongHole =>
          /\ \A i \in 1 .. Len(e820_map) : \A p \in InRegion(i) : Done(i, p) => p < Limit
          /\ \A p \in Pages : p > BITMAP_BASE /\ SeenUsable(p) /\ (size > 1 => p \notin BitmapPages) =>
                p \notin used

(* The bitmap describes memory from the first step of init_pmm on.           *)
PmmInv ==
    /\ phase = "init" => \E size \in 1 .. BITMAP_BASE : Mapping(size)
    /\ phase = "run" => PagesAccounted /\ OwnedOnce /\ \A p \in owned : p \in Int /\ p < Limit
    /\ phase = "halted" => owned = {} /\ clash = {}

LEMMA DivBounds == ASSUME NEW x \in Nat, NEW m \in Nat \ {0}
                   PROVE  /\ x \div m \in Nat
                          /\ (x \div m) * m <= x /\ x < (x \div m) * m + m
                          /\ x % m = 0 => (x \div m) * m = x
  BY Z3

LEMMA DivExact == ASSUME NEW z \in Nat, NEW m \in Nat \ {0} PROVE (z * m) \div m = z
  BY Z3

LEMMA MulOrder == ASSUME NEW a \in Nat, NEW b \in Nat, NEW m \in Nat, a <= b
                  PROVE  a * m \in Nat /\ b * m \in Nat /\ a * m <= b * m
  BY Z3

(* A region's pages are whole: its first is not in front of the region and
   its last ends before it.                                                  *)
LEMMA RoundsInward ==
    ASSUME NEW r \in [base : Nat, length : Nat, type : Nat \ {0}]
    PROVE  /\ FirstPage(r) \in Nat /\ PageCount(r) \in Nat
           /\ \A p \in FirstPage(r) .. FirstPage(r) + PageCount(r) - 1 :
                 r.base <= p * PAGE_SIZE /\ (p + 1) * PAGE_SIZE <= r.base + r.length
<1> DEFINE ps == PAGE_SIZE
           b == r.base
           l == r.length
           first == (b + ps - 1) \div ps
           whole == l \div ps
<1>1. ps \in Nat \ {0} /\ b \in Nat /\ l \in Nat BY PmmAssumption
<1>2. b + ps - 1 \in Nat BY <1>1
<1>3. first \in Nat /\ first * ps <= b + ps - 1 /\ b + ps - 1 < first * ps + ps
  <2> HIDE DEF ps, b
  <2> QED BY <1>1, <1>2, DivBounds
<1>4. whole \in Nat /\ whole * ps <= l
  <2> HIDE DEF ps, l
  <2> QED BY <1>1, DivBounds
<1>5. FirstPage(r) = first BY DEF FirstPage
<1>6. PageCount(r) = IF b % ps # 0 /\ whole > 0 THEN whole - 1 ELSE whole BY DEF PageCount
<1>7. b % ps = 0 => first * ps = b
  <2> SUFFICES ASSUME b % ps = 0 PROVE first * ps = b OBVIOUS
  <2>1. (b \div ps) * ps = b /\ b \div ps \in Nat
    <3> HIDE DEF ps, b
    <3> QED BY <1>1, DivBounds
  <2> DEFINE q == b \div ps
  <2> HIDE DEF ps, b, first, q
  <2>2. q * ps = b /\ q \in Nat BY <2>1 DEF q
  <2>3. first * ps < (q + 1) * ps /\ first * ps > (q - 1) * ps
    <3>1. (q + 1) * ps = b + ps /\ (q - 1) * ps = b - ps BY <1>1, <2>2
    <3>2. first * ps \in Nat BY <1>1, <1>3
    <3> QED BY <1>1, <1>3, <3>1, <3>2
  <2>4. first = q
    <3>1. first < q + 1
      <4> SUFFICES ASSUME first >= q + 1 PROVE FALSE BY <1>3, <2>2
      <4>1. (q + 1) * ps <= first * ps BY <1>1, <1>3, <2>2, MulOrder
      <4>2. (q + 1) * ps \in Nat /\ first * ps \in Nat BY <1>1, <1>3, <2>2
      <4> QED BY <2>3, <4>1, <4>2
    <3>2. first >= q
      <4> SUFFICES ASSUME first <= q - 1 PROVE FALSE BY <1>3, <2>2
      <4>0. q - 1 \in Nat BY <1>3, <2>2
      <4>1. first * ps <= (q - 1) * ps BY <1>1, <1>3, <2>2, <4>0, MulOrder
      <4>2. (q - 1) * ps \in Nat /\ first * ps \in Nat BY <1>1, <1>3, <4>0
      <4> QED BY <2>3, <4>1, <4>2
    <3> QED BY <1>3, <2>2, <3>1, <3>2
  <2> QED BY <2>2, <2>4
<1> HIDE DEF ps, b, l, first, whole
<1>8. PageCount(r) \in Nat BY <1>4, <1>6
<1>9. ASSUME NEW p \in first .. first + PageCount(r) - 1
      PROVE  b <= p * ps /\ (p + 1) * ps <= b + l
  <2>1. p \in Nat /\ first <= p /\ p + 1 <= first + PageCount(r) BY <1>3, <1>8
  <2>2. first * ps <= p * ps /\ p * ps \in Nat /\ first * ps \in Nat BY <1>1, <1>3, <2>1, MulOrder
  <2>3. b <= p * ps BY <1>1, <1>3, <2>2
  <2>4. (p + 1) * ps <= (first + PageCount(r)) * ps BY <1>1, <1>3, <1>8, <2>1, MulOrder
  <2>5. (first + PageCount(r)) * ps <= b + l
    <3>1. CASE b % ps = 0
      <4>1. PageCount(r) = whole BY <1>6, <3>1
      <4>2. (first + whole) * ps = first * ps + whole * ps BY <1>1, <1>3, <1>4
      <4>3. whole * ps \in Nat BY <1>1, <1>4
      <4> QED BY <1>1, <1>4, <1>7, <3>1, <4>1, <4>2, <4>3
    <3>2. CASE b % ps # 0
      <4>1. PageCount(r) = whole - 1 /\ whole > 0 BY <1>3, <1>4, <1>6, <2>1, <3>2
      <4>2. (first + (whole - 1)) * ps = first * ps + whole * ps - ps BY <1>1, <1>3, <1>4
      <4>3. whole * ps \in Nat BY <1>1, <1>4
      <4> QED BY <1>1, <1>3, <1>4, <2>2, <4>1, <4>2, <4>3
    <3> QED BY <3>1, <3>2
  <2>6. (p + 1) * ps \in Nat /\ (first + PageCount(r)) * ps \in Nat
        BY <1>1, <1>3, <1>8, <2>1
  <2> QED BY <1>1, <2>3, <2>4, <2>5, <2>6
<1> QED BY <1>3, <1>5, <1>8, <1>9 DEF ps, b, l

LEMMA RegionTyped ==
    ASSUME TypeOK, NEW i \in 1 .. Len(e820_map)
    PROVE  e820_map[i] \in [base : Nat, length : Nat, type : Nat \ {0}]
<1>1. e820_map \in Seq([base : Nat, length : Nat, type : Nat \ {0}])
      BY PmmAssumption DEF TypeOK
<1> QED BY ONLY <1>1, i \in 1 .. Len(e820_map), ElementOfSeq

LEMMA RegionFits ==
    ASSUME TypeOK, NEW i \in 1 .. Len(e820_map), e820_map[i].type = 1, NEW p \in InRegion(i)
    PROVE  FitsUsable(p)
  BY RegionTyped, RoundsInward DEF InRegion, FitsUsable

LEMMA RegionNat ==
    ASSUME TypeOK, NEW i \in 1 .. Len(e820_map)
    PROVE  /\ FirstPage(e820_map[i]) \in Nat /\ PageCount(e820_map[i]) \in Nat
           /\ InRegion(i) \subseteq Nat
<1>1. FirstPage(e820_map[i]) \in Nat /\ PageCount(e820_map[i]) \in Nat
      BY RegionTyped, RoundsInward
<1> QED BY <1>1 DEF InRegion

(* Nothing init_pmm has seen lies behind the page it is at, and everything in
   front of that page has been seen.                                         *)
LEMMA PagesInOrder ==
    ASSUME TypeOK, MapFits, region <= Len(e820_map), index < PageCount(e820_map[region]),
           NEW page, page = FirstPage(e820_map[region]) + index,
           NEW i \in 1 .. Len(e820_map), NEW p \in InRegion(i)
    PROVE  /\ page \in InRegion(region) /\ region \in 1 .. Len(e820_map) /\ page \in Nat
           /\ Done(i, p) <=> p < page
           /\ p = page => i = region
<1>1. region \in 1 .. Len(e820_map) /\ region \in Nat
  <2>1. e820_map \in Seq([base : Nat, length : Nat, type : Nat \ {0}])
        BY PmmAssumption DEF TypeOK
  <2>2. Len(e820_map) \in Nat BY <2>1, LenProperties
  <2> QED BY <2>2 DEF TypeOK
<1>2. /\ FirstPage(e820_map[region]) \in Nat /\ PageCount(e820_map[region]) \in Nat
      /\ FirstPage(e820_map[i]) \in Nat /\ PageCount(e820_map[i]) \in Nat /\ p \in Nat
      /\ i \in Nat /\ index \in Nat
      BY <1>1, RegionNat DEF TypeOK
<1>3. page \in InRegion(region) /\ page \in Nat BY <1>2 DEF InRegion
<1>4. p >= FirstPage(e820_map[i]) /\ p < FirstPage(e820_map[i]) + PageCount(e820_map[i])
      BY <1>2 DEF InRegion
<1>5. CASE i < region
  <2>1. FirstPage(e820_map[i]) + PageCount(e820_map[i]) <= FirstPage(e820_map[region])
        BY <1>1, <1>5 DEF MapFits
  <2> QED BY <1>1, <1>2, <1>3, <1>4, <1>5, <2>1 DEF Done
<1>6. CASE i = region BY <1>1, <1>2, <1>3, <1>4, <1>6 DEF Done
<1>7. CASE i > region
  <2>1. FirstPage(e820_map[region]) + PageCount(e820_map[region]) <= FirstPage(e820_map[i])
        BY <1>1, <1>7 DEF MapFits
  <2> QED BY <1>1, <1>2, <1>3, <1>4, <1>7, <2>1 DEF Done
<1> QED BY <1>1, <1>2, <1>5, <1>6, <1>7

LEMMA MapSteady ==
    ASSUME UNCHANGED e820_map
    PROVE  /\ MapFits' <=> MapFits
           /\ NoLongHole' <=> NoLongHole
           /\ \A i : InRegion(i)' = InRegion(i)
           /\ \A p : FitsUsable(p)' <=> FitsUsable(p)
<1>1. \A i : InRegion(i)' = InRegion(i) BY DEF InRegion
<1>2. \A p : FitsUsable(p)' <=> FitsUsable(p) BY DEF FitsUsable
<1>3. NoLongHole' <=> NoLongHole BY <1>1 DEF NoLongHole
<1> QED BY <1>1, <1>2, <1>3 DEF MapFits

(* The number of pages of bitmap, and what it can grow by.                   *)
LEMMA MappingSizes ==
    ASSUME TypeOK, NEW size \in 1 .. BITMAP_BASE, bitmap_entries = size * PER_PAGE
    PROVE  /\ size \in Nat /\ size > 0 /\ BITMAP_BASE \in Nat /\ PER_PAGE \in Nat \ {0}
           /\ bitmap_entries \div PER_PAGE = size /\ bitmap_entries \in Nat
           /\ Limit \in Nat /\ Limit = BITMAP_BASE + size * PER_PAGE
           /\ Limit >= BITMAP_BASE + PER_PAGE
           /\ size > 1 => Limit >= BITMAP_BASE + 2 * PER_PAGE
           /\ size * PER_PAGE + PER_PAGE = (size + 1) * PER_PAGE
           /\ BitmapPages = bitmap_at .. bitmap_at + size - 1
<1>1. size \in Nat /\ size > 0 /\ BITMAP_BASE \in Nat /\ PER_PAGE \in Nat \ {0}
      BY PmmAssumption
<1>2. bitmap_entries \div PER_PAGE = size BY <1>1, DivExact
<1>3. size * PER_PAGE \in Nat BY <1>1
<1>4. 1 * PER_PAGE <= size * PER_PAGE BY <1>1, MulOrder
<1>5. size > 1 => 2 * PER_PAGE <= size * PER_PAGE BY <1>1, MulOrder
<1>6. size * PER_PAGE + PER_PAGE = (size + 1) * PER_PAGE BY <1>1
<1>7. bitmap_entries \in Nat BY <1>3
<1>8. Limit = BITMAP_BASE + size * PER_PAGE BY DEF Limit
<1>9. BitmapPages = bitmap_at .. bitmap_at + size - 1 BY <1>2 DEF BitmapPages
<1> QED BY <1>1, <1>2, <1>3, <1>4, <1>5, <1>6, <1>7, <1>8, <1>9

(* What one more page of a region changes.                                   *)
LEMMA SeenAfter ==
    ASSUME TypeOK, MapFits, region <= Len(e820_map), index < PageCount(e820_map[region]),
           NEW page, page = FirstPage(e820_map[region]) + index,
           UNCHANGED <<e820_map, region>>, index' = index + 1
    PROVE  /\ \A i \in 1 .. Len(e820_map) : \A p \in InRegion(i) :
                 Done(i, p)' <=> Done(i, p) \/ (i = region /\ p = page)
           /\ \A p \in Nat : SeenUsable(p)' <=>
                 SeenUsable(p) \/ (p = page /\ e820_map[region].type = 1)
           /\ \A p \in Nat : SeenUsable(p) => p < page
<1>1. ASSUME NEW i \in 1 .. Len(e820_map), NEW p \in InRegion(i)
      PROVE  Done(i, p)' <=> Done(i, p) \/ (i = region /\ p = page)
  <2>1. InRegion(i)' = InRegion(i) BY MapSteady
  <2>2. FirstPage(e820_map[region]) \in Nat /\ index \in Nat /\ p \in Nat /\ region \in Nat
        /\ page \in Nat /\ i \in Nat
    <3>1. region \in 1 .. Len(e820_map) /\ page \in Nat BY PagesInOrder
    <3>2. FirstPage(e820_map[region]) \in Nat /\ p \in Nat BY <3>1, RegionNat
    <3> QED BY <3>1, <3>2 DEF TypeOK
  <2> QED BY <2>1, <2>2 DEF Done
<1>2. region \in 1 .. Len(e820_map) /\ page \in InRegion(region)
  <2>1. e820_map \in Seq([base : Nat, length : Nat, type : Nat \ {0}])
        BY PmmAssumption DEF TypeOK
  <2>2. Len(e820_map) \in Nat BY <2>1, LenProperties
  <2>3. region \in 1 .. Len(e820_map) BY <2>2 DEF TypeOK
  <2> QED BY <2>3, RegionNat DEF TypeOK, InRegion
<1>3. ASSUME NEW p \in Nat
      PROVE  SeenUsable(p)' <=> SeenUsable(p) \/ (p = page /\ e820_map[region].type = 1)
  <2>1. SeenUsable(p)' <=> \E i \in 1 .. Len(e820_map) : Done(i, p)' /\ e820_map[i].type = 1
        BY DEF SeenUsable
  <2>2. \A i : Done(i, p) => p \in InRegion(i) BY DEF Done
  <2>3. \A i : Done(i, p)' => p \in InRegion(i)
    <3>1. \A i : Done(i, p)' => p \in InRegion(i)' BY DEF Done
    <3> QED BY <3>1, MapSteady
  <2> QED BY <1>1, <1>2, <2>1, <2>2, <2>3 DEF SeenUsable
<1>4. \A p \in Nat : SeenUsable(p) => p < page
  BY PagesInOrder DEF SeenUsable, Done
<1> QED BY <1>1, <1>3, <1>4

(* The bitmap always finds room behind its first page, not in it.            *)
LEMMA FirstMove ==
    ASSUME TypeOK, MapFits, Mapping(1),
           region <= Len(e820_map), index < PageCount(e820_map[region]),
           NEW page, page = FirstPage(e820_map[region]) + index, page >= Limit,
           NEW stray \in Strays, NEW i \in 0 .. bitmap_entries - 1, Finds(2, stray, i)
    PROVE  /\ BITMAP_BASE + FIRST \notin Taken(2, i)
           /\ SeenUsable(BITMAP_BASE + FIRST)
<1> DEFINE q == BITMAP_BASE + FIRST
<1>0. /\ BITMAP_BASE \in Nat /\ FIRST \in Nat /\ PER_PAGE \in Nat \ {0} /\ BITMAP_BASE > 1
      /\ FIRST > 0 /\ FIRST + 2 < PER_PAGE /\ q \in Nat
      BY PmmAssumption DEF MapFits
<1>1. Limit = BITMAP_BASE + PER_PAGE /\ bitmap_entries = PER_PAGE
      BY <1>0 DEF Mapping, Limit
<1>2. cur_ptr = q + 1 BY DEF Mapping
<1>3. \A p \in q .. q + 2 : SeenUsable(p)
  <2> SUFFICES ASSUME NEW p \in q .. q + 2 PROVE SeenUsable(p) OBVIOUS
  <2>1. PICK j \in 1 .. Len(e820_map) : e820_map[j].type = 1 /\ p \in InRegion(j)
        BY <1>0 DEF MapFits
  <2>2. page \in Nat BY <2>1, PagesInOrder
  <2>3. p < page BY <1>0, <1>1, <2>2
  <2>4. Done(j, p) BY <2>1, <2>3, PagesInOrder
  <2> QED BY <2>1, <2>4 DEF SeenUsable
<1>4. q + 1 \in Pages \ used /\ q + 2 \in Pages \ used
  <2>1. q + 1 \in Pages /\ q + 2 \in Pages BY <1>0, <1>1 DEF Pages
  <2>2. SeenUsable(q + 1) /\ SeenUsable(q + 2) BY <1>0, <1>3
  <2> QED BY <1>0, <2>1, <2>2 DEF Mapping
<1>5. Position(2, 0) = q + 1 /\ Position(2, 1) = q + 2
      BY <1>0, <1>1, <1>2 DEF Position
<1>6. RunEnds(2, stray, 1)
  <2> SUFFICES ASSUME NEW j \in 0 .. 1 PROVE ReadsFree(Position(2, j), stray) BY DEF RunEnds
  <2>1. j = 0 \/ j = 1 OBVIOUS
  <2> QED BY <1>4, <1>5, <2>1 DEF ReadsFree
<1>7. i <= 1 /\ i >= 1 /\ i \in Nat
  <2>1. i >= 2 - 1 /\ i \in Nat BY <1>0, <1>1 DEF Finds, RunEnds
  <2>2. \A h \in 0 .. i - 1 : ~RunEnds(2, stray, h) BY DEF Finds
  <2> QED BY <1>6, <2>1, <2>2
<1>8. i = 1 BY <1>7
<1>9. Taken(2, i) = q + 1 .. q + 2
  <2>1. Taken(2, i) = (q + 2) - 2 + 1 .. q + 2 BY <1>5, <1>8 DEF Taken
  <2> QED BY <1>0, <2>1
<1> QED BY <1>0, <1>3, <1>9

(* The bitmap moves: the pages it moves to are free ones, and the ones it
   leaves are usable.                                                        *)
LEMMA GrowStep ==
    ASSUME TypeOK, TypeOK', MapFits, phase = "init",
           NEW size \in 1 .. BITMAP_BASE, Mapping(size),
           region <= Len(e820_map), index < PageCount(e820_map[region]),
           NEW page, page = FirstPage(e820_map[region]) + index, page >= Limit,
           UNCHANGED <<e820_map, owned, clash, region, phase>>, index' = index + 1,
           NEW stray \in Strays, NEW i \in 0 .. bitmap_entries - 1, Finds(size + 1, stray, i),
           bitmap_at' = Position(size + 1, i) - size,
           cur_ptr' = Position(size + 1, i) + 1,
           bitmap_entries' = bitmap_entries + PER_PAGE,
           used' = Record((used \cup Marked(size + 1, i)
                             \cup (Limit .. Limit + PER_PAGE - 1)) \ BitmapPages,
                          page, Limit + PER_PAGE)
    PROVE  size + 1 \in 1 .. BITMAP_BASE /\ Mapping(size + 1)'
<1> DEFINE T == Taken(size + 1, i)
           B == BitmapPages
           N == Limit .. Limit + PER_PAGE - 1
<1>0. /\ size \in Nat /\ size > 0 /\ BITMAP_BASE \in Nat /\ PER_PAGE \in Nat \ {0}
      /\ bitmap_entries \div PER_PAGE = size /\ bitmap_entries \in Nat
      /\ Limit \in Nat /\ Limit = BITMAP_BASE + size * PER_PAGE
      /\ Limit >= BITMAP_BASE + PER_PAGE
      /\ size > 1 => Limit >= BITMAP_BASE + 2 * PER_PAGE
      /\ size * PER_PAGE + PER_PAGE = (size + 1) * PER_PAGE
      /\ B = bitmap_at .. bitmap_at + size - 1
      BY MappingSizes DEF Mapping
<1>1. /\ \A j \in 1 .. Len(e820_map) : \A p \in InRegion(j) :
            /\ Done(j, p)' <=> Done(j, p) \/ (j = region /\ p = page)
            /\ InRegion(j)' = InRegion(j)
      /\ \A p \in Nat : SeenUsable(p)' <=>
            SeenUsable(p) \/ (p = page /\ e820_map[region].type = 1)
      /\ \A p \in Nat : SeenUsable(p) => p < page
      BY SeenAfter, MapSteady
<1>2. region \in 1 .. Len(e820_map) /\ page \in InRegion(region) /\ page \in Nat
  <2>1. PICK j \in 1 .. Len(e820_map) : \E p \in InRegion(j) : p >= BITMAP_BASE + PER_PAGE
        BY DEF MapFits
  <2> QED BY <2>1, PagesInOrder
<1>3. ASSUME NoLongHole PROVE page < Limit + PER_PAGE
  <2>0. /\ Limit \in Nat /\ PER_PAGE \in Nat \ {0} /\ BITMAP_BASE \in Nat
        /\ Limit >= BITMAP_BASE + PER_PAGE /\ page \in Nat
        BY <1>0, <1>2
  <2>1. CASE page < BITMAP_BASE + 2 * PER_PAGE BY ONLY <2>0, <2>1
  <2>2. CASE page >= BITMAP_BASE + 2 * PER_PAGE
    <3>1. PICK j \in 1 .. Len(e820_map) : \E q \in InRegion(j) : page - PER_PAGE <= q /\ q < page
          BY <1>2, <1>3, <2>2 DEF NoLongHole
    <3>2. PICK q \in InRegion(j) : page - PER_PAGE <= q /\ q < page BY <3>1
    <3>3. Done(j, q) /\ q \in Nat BY <3>2, PagesInOrder, RegionNat
    <3>4. q < Limit BY <1>3, <3>2, <3>3 DEF Mapping
    <3> QED BY ONLY <2>0, <3>2, <3>3, <3>4
  <2> QED BY ONLY <2>0, <2>1, <2>2
<1>4. size < BITMAP_BASE
  <2> SUFFICES ASSUME size >= BITMAP_BASE PROVE FALSE BY <1>0
  <2>1. page < BITMAP_BASE + BITMAP_BASE * PER_PAGE BY <1>2 DEF MapFits
  <2>2. BITMAP_BASE * PER_PAGE <= size * PER_PAGE /\ BITMAP_BASE * PER_PAGE \in Nat
        /\ size * PER_PAGE \in Nat
        BY <1>0, MulOrder
  <2> DEFINE most == BITMAP_BASE * PER_PAGE
             now == size * PER_PAGE
  <2>3. /\ most \in Nat /\ now \in Nat /\ most <= now /\ Limit = BITMAP_BASE + now
        /\ page < BITMAP_BASE + most /\ page >= Limit /\ page \in Nat /\ BITMAP_BASE \in Nat
        BY <1>0, <1>2, <2>1, <2>2
  <2> HIDE DEF most, now
  <2> QED BY ONLY <2>3
<1>6. T \cap Pages \subseteq Pages \ used BY <1>0, <1>4, TakenFree
<1>7. \A p \in T \cap Pages : p \in Nat /\ p > BITMAP_BASE /\ SeenUsable(p) /\ p \notin B
  <2> SUFFICES ASSUME NEW p \in T \cap Pages
               PROVE  p \in Nat /\ p > BITMAP_BASE /\ SeenUsable(p) /\ p \notin B
      OBVIOUS
  <2>1. p \in Pages /\ p \notin used BY <1>6
  <2>2. p \in Nat BY <1>0, <2>1 DEF Pages
  <2>3. p > BITMAP_BASE /\ SeenUsable(p) /\ (size > 1 => p \notin B)
        BY <2>1 DEF Mapping
  <2>4. CASE size > 1 BY <2>1, <2>2, <2>3, <2>4
  <2>5. CASE size = 1
    <3>1. bitmap_at = BITMAP_BASE + FIRST /\ FIRST \in Nat
          BY <2>5, PmmAssumption DEF Mapping
    <3>2. B = {BITMAP_BASE + FIRST} BY <1>0, <2>5, <3>1
    <3>3. BITMAP_BASE + FIRST \notin T
      <4>1. 1 + 1 = 2 OBVIOUS
      <4>2. Mapping(1) /\ Finds(2, stray, i) BY <2>5, <4>1
      <4> QED BY <2>5, <4>1, <4>2, FirstMove
    <3> QED BY <2>1, <2>2, <2>3, <3>2, <3>3
  <2> QED BY <1>0, <2>4, <2>5
<1>8. \A p \in B \cap Pages : p \in Nat /\ p > BITMAP_BASE /\ SeenUsable(p)
  <2>1. CASE size > 1
    <3>1. Pages \subseteq Nat BY <1>0 DEF Pages
    <3> QED BY <2>1, <3>1 DEF Mapping
  <2>2. CASE size = 1
    <3>1. bitmap_at = BITMAP_BASE + FIRST /\ FIRST \in Nat /\ FIRST > 0 /\ FIRST < PER_PAGE
          BY <2>2, PmmAssumption DEF Mapping, MapFits
    <3>2. B = {BITMAP_BASE + FIRST} BY <1>0, <2>2, <3>1
    <3>3. SeenUsable(BITMAP_BASE + FIRST)
      <4>1. 1 + 1 = 2 OBVIOUS
      <4>2. Mapping(1) /\ Finds(2, stray, i) BY <2>2, <4>1
      <4> QED BY <4>2, <2>2, FirstMove
    <3>5. BITMAP_BASE + FIRST \in Nat /\ BITMAP_BASE + FIRST > BITMAP_BASE BY <1>0, <3>1
    <3> HIDE DEF B
    <3> QED BY ONLY <3>2, <3>3, <3>5
  <2> QED BY <1>0, <2>1, <2>2
<1>9. Limit' = Limit + PER_PAGE /\ Pages' = Pages \cup N
  <2>0. Limit \in Nat /\ PER_PAGE \in Nat /\ BITMAP_BASE \in Nat /\ bitmap_entries \in Nat
        /\ Limit >= BITMAP_BASE
        BY <1>0
  <2>1. Limit' = Limit + PER_PAGE BY <2>0 DEF Limit
  <2>2. Pages' = BITMAP_BASE .. (Limit + PER_PAGE) - 1 BY <2>1 DEF Pages
  <2>3. Pages = BITMAP_BASE .. Limit - 1 BY DEF Pages
  <2> QED BY ONLY <2>0, <2>1, <2>2, <2>3
<1>10. bitmap_entries' = (size + 1) * PER_PAGE /\ size + 1 \in 1 .. BITMAP_BASE
       BY <1>0, <1>4 DEF Mapping
<1>11. BitmapPages' = T
  <2>1. BitmapPages' = bitmap_at' .. bitmap_at' + (size + 1) - 1
    <3>1. size + 1 \in Nat BY <1>0
    <3>2. ((size + 1) * PER_PAGE) \div PER_PAGE = size + 1 BY <1>0, <3>1, DivExact
    <3> QED BY <1>10, <3>2 DEF BitmapPages
  <2>2. Position(size + 1, i) \in Nat
    <3>1. size + 1 \in Nat /\ size + 1 < Limit BY <1>0, <1>4
    <3> QED BY <3>1, PositionRange, <1>0
  <2> QED BY <1>0, <2>1, <2>2 DEF Taken
<1>12. \A p \in N : p \in Nat /\ p \notin Pages /\ p \notin T /\ p >= Limit /\ p > BITMAP_BASE
  <2> SUFFICES ASSUME NEW p \in N
               PROVE  p \in Nat /\ p \notin Pages /\ p \notin T /\ p >= Limit /\ p > BITMAP_BASE
      OBVIOUS
  <2>1. p \in Nat /\ p >= Limit /\ p \notin Pages /\ p > BITMAP_BASE BY <1>0 DEF Pages
  <2>2. Position(size + 1, i) \in Nat /\ Position(size + 1, i) < Limit
    <3>1. size + 1 \in Nat /\ size + 1 < Limit BY <1>0, <1>4
    <3> QED BY <3>1, PositionRange, <1>0
  <2>3. p \notin T BY <1>0, <2>1, <2>2 DEF Taken
  <2> QED BY <2>1, <2>3
<1>13. page > BITMAP_BASE /\ page \notin T /\ page \notin Pages
  <2>1. Position(size + 1, i) \in Nat /\ Position(size + 1, i) < Limit
    <3>1. size + 1 \in Nat /\ size + 1 < Limit BY <1>0, <1>4
    <3> QED BY <3>1, PositionRange, <1>0
  <2>2. page \in Nat /\ page >= Limit BY <1>2
  <2>3. page > BITMAP_BASE BY <1>0, <2>2
  <2>4. page \notin Pages BY <1>0, <2>2 DEF Pages
  <2>5. page \notin T BY <1>0, <2>1, <2>2 DEF Taken
  <2> QED BY <2>3, <2>4, <2>5
<1>14. used' = IF page >= Limit + PER_PAGE THEN (used \cup (T \cap Pages) \cup N) \ B
               ELSE IF e820_map[region].type = 1
                    THEN ((used \cup (T \cap Pages) \cup N) \ B) \ {page}
                    ELSE ((used \cup (T \cap Pages) \cup N) \ B) \cup {page}
  <2>1. Marked(size + 1, i) = T \cap Pages BY DEF Marked
  <2>2. used' = Record((used \cup (T \cap Pages) \cup N) \ B, page, Limit + PER_PAGE) BY <2>1
  <2> HIDE DEF T, N, B
  <2> QED BY <2>2 DEF Record
<1>15. ASSUME NEW p \in Pages \cup N, p \notin used'
       PROVE  p > BITMAP_BASE /\ SeenUsable(p)' /\ p \notin T
  <2>0. p \in Nat BY <1>0 DEF Pages
  <2>2. SeenUsable(p)' <=> SeenUsable(p) \/ (p = page /\ e820_map[region].type = 1)
        BY <1>1, <2>0
  <2> HIDE DEF T, B, N
  <2>3. CASE p = page
    <3>1. CASE e820_map[region].type = 1 BY <1>13, <2>2, <2>3, <3>1
    <3>2. CASE e820_map[region].type # 1
      <4>1. p \in N BY <1>13, <1>15, <2>3
      <4>2. page >= Limit + PER_PAGE BY <1>14, <1>15, <2>3, <3>2
      <4> QED BY <1>0, <1>2, <2>3, <4>1, <4>2 DEF N
    <3> QED BY <3>1, <3>2
  <2>4. CASE p # page
    <3>1. p \in B \/ (p \notin used /\ p \notin T \cap Pages /\ p \notin N)
          BY <1>14, <1>15, <2>4
    <3>2. CASE p \in Pages
      <4>1. CASE p \in B BY <1>7, <1>8, <2>2, <3>2, <4>1
      <4>2. CASE p \notin B BY <2>2, <3>1, <3>2, <4>2 DEF Mapping
      <4> QED BY <4>1, <4>2
    <3>3. CASE p \in N /\ p \in B
      <4>1. p < Limit BY <3>3 DEF Mapping, B
      <4> QED BY <1>0, <1>12, <2>0, <3>3, <4>1
    <3> QED BY <1>15, <3>1, <3>2, <3>3
  <2> QED BY <2>3, <2>4
<1>16. \A p \in T : p \in Pages' => p > BITMAP_BASE /\ SeenUsable(p)'
  <2> SUFFICES ASSUME NEW p \in T, p \in Pages' PROVE p > BITMAP_BASE /\ SeenUsable(p)'
      OBVIOUS
  <2>1. p \in Pages BY <1>9, <1>12
  <2> QED BY <1>1, <1>7, <2>1
<1>17. ASSUME NoLongHole
       PROVE  /\ \A j \in 1 .. Len(e820_map) : \A p \in InRegion(j) : Done(j, p)' => p < Limit + PER_PAGE
              /\ \A p \in Pages \cup N : p > BITMAP_BASE /\ SeenUsable(p)' /\ p \notin T => p \notin used'
  <2>1. ASSUME NEW j \in 1 .. Len(e820_map), NEW p \in InRegion(j), Done(j, p)'
        PROVE  p < Limit + PER_PAGE
    <3>1. p \in Nat BY RegionNat
    <3>2. Done(j, p) => p < Limit BY <1>17 DEF Mapping
    <3>3. Done(j, p) \/ p = page BY <1>1, <2>1
    <3> QED BY <1>0, <1>3, <1>17, <3>1, <3>2, <3>3
  <2>2. ASSUME NEW p \in Pages \cup N, p > BITMAP_BASE, SeenUsable(p)', p \notin T
        PROVE  p \notin used'
    <3>0. p \in Nat BY <1>0 DEF Pages
    <3>1. SeenUsable(p)' <=> SeenUsable(p) \/ (p = page /\ e820_map[region].type = 1)
          BY <1>1, <3>0
    <3>2. ~(page >= Limit + PER_PAGE) BY <1>0, <1>2, <1>3, <1>17
    <3>3. p \in N => ~SeenUsable(p)
      <4> SUFFICES ASSUME p \in N PROVE ~SeenUsable(p) OBVIOUS
      <4>1. \A j \in 1 .. Len(e820_map) : ~Done(j, p) BY <1>0, <1>17 DEF Mapping, Done
      <4> QED BY <4>1 DEF SeenUsable
    <3>4. SeenUsable(p) => p # page BY <1>0, <1>1, <1>2, <3>0
    <3> HIDE DEF T, B, N
    <3>5. CASE ~SeenUsable(p) BY <1>14, <2>2, <3>1, <3>2, <3>5
    <3>6. CASE SeenUsable(p)
      <4>1. p \in Pages /\ p # page /\ p \notin N BY <2>2, <3>3, <3>4, <3>6
      <4>2. p \in B \/ p \notin used BY <1>17, <2>2, <3>6, <4>1 DEF Mapping, B
      <4> QED BY <1>14, <2>2, <4>1, <4>2
    <3> QED BY <3>5, <3>6
  <2> QED BY <2>1, <2>2
<1>18. NoLongHole =>
          (\A j \in 1 .. Len(e820_map) : \A p \in InRegion(j) : Done(j, p) => p < Limit)'
  <2>1. \A j : InRegion(j)' = InRegion(j) BY MapSteady
  <2> QED BY <1>9, <1>17, <2>1
<1>19. owned' = {} /\ clash' = {} BY DEF Mapping
<1>20. ~(size + 1 = 1) /\ size + 1 > 1 BY <1>0
<1>21. (\A p \in BitmapPages : p \in Pages => p > BITMAP_BASE /\ SeenUsable(p))'
       BY <1>11, <1>16
<1>22. /\ (\A p \in Pages : p \notin used =>
             p > BITMAP_BASE /\ SeenUsable(p) /\ (size + 1 > 1 => p \notin BitmapPages))'
       /\ NoLongHole => (\A p \in Pages :
             p > BITMAP_BASE /\ SeenUsable(p) /\ (size + 1 > 1 => p \notin BitmapPages) => p \notin used)'
       BY <1>9, <1>11, <1>15, <1>17, <1>20
<1>23. (\A p \in BitmapPages : p < Limit)'
  <2>1. Position(size + 1, i) \in Nat /\ Position(size + 1, i) < Limit
    <3>1. size + 1 \in Nat /\ size + 1 < Limit BY <1>0, <1>4
    <3> QED BY <3>1, PositionRange, <1>0
  <2>2. \A p \in T : p < Limit + PER_PAGE BY <1>0, <2>1 DEF Taken
  <2> QED BY <1>9, <1>11, <2>2
<1>24. NoLongHole' <=> NoLongHole BY MapSteady
<1> QED BY <1>10, <1>18, <1>19, <1>20, <1>21, <1>22, <1>23, <1>24 DEF Mapping

(* A page that the bitmap already describes is written as the map says.      *)
LEMMA WriteStep ==
    ASSUME TypeOK, MapFits, phase = "init",
           NEW size \in 1 .. BITMAP_BASE, Mapping(size),
           region <= Len(e820_map), index < PageCount(e820_map[region]),
           NEW page, page = FirstPage(e820_map[region]) + index, page < Limit,
           UNCHANGED <<e820_map, owned, clash, region, phase, bitmap_entries, bitmap_at, cur_ptr>>,
           index' = index + 1,
           \/ page < BITMAP_BASE + 1 /\ used' = used
           \/ page >= BITMAP_BASE + 1 /\ used' = Record(used, page, Limit)
    PROVE  Mapping(size)'
<1>0. size \in Nat /\ size > 0 /\ BITMAP_BASE \in Nat /\ Limit \in Nat
      BY MappingSizes DEF Mapping
<1>1. /\ \A j \in 1 .. Len(e820_map) : \A p \in InRegion(j) :
            Done(j, p)' <=> Done(j, p) \/ (j = region /\ p = page)
      /\ \A p \in Nat : SeenUsable(p)' <=>
            SeenUsable(p) \/ (p = page /\ e820_map[region].type = 1)
      /\ \A p \in Nat : SeenUsable(p) => p < page
      BY SeenAfter
<1>2. region \in 1 .. Len(e820_map) /\ page \in InRegion(region) /\ page \in Nat
  <2>1. PICK j \in 1 .. Len(e820_map) : \E p \in InRegion(j) : p >= BITMAP_BASE + PER_PAGE
        BY DEF MapFits
  <2> QED BY <2>1, PagesInOrder
<1>3. Limit' = Limit /\ Pages' = Pages /\ BitmapPages' = BitmapPages
      BY DEF Limit, Pages, BitmapPages
<1>4. Pages \subseteq Nat BY <1>0 DEF Pages
<1>5. ~SeenUsable(page) BY <1>1, <1>2
<1>6. size > 1 => (page \in Pages => page \notin BitmapPages) BY <1>5 DEF Mapping
<1>7. \A p \in Pages :
         /\ p \notin used' => p > BITMAP_BASE /\ SeenUsable(p)' /\ (size > 1 => p \notin BitmapPages)
         /\ size = 1 \/ NoLongHole =>
               (p > BITMAP_BASE /\ SeenUsable(p)' /\ (size > 1 => p \notin BitmapPages) => p \notin used')
  <2> SUFFICES ASSUME NEW p \in Pages
               PROVE  /\ p \notin used' =>
                            p > BITMAP_BASE /\ SeenUsable(p)' /\ (size > 1 => p \notin BitmapPages)
                      /\ size = 1 \/ NoLongHole =>
                            (p > BITMAP_BASE /\ SeenUsable(p)' /\ (size > 1 => p \notin BitmapPages)
                               => p \notin used')
      OBVIOUS
  <2>1. p \in Nat BY <1>4
  <2>2. /\ p \notin used => p > BITMAP_BASE /\ SeenUsable(p) /\ (size > 1 => p \notin BitmapPages)
        /\ size = 1 \/ NoLongHole =>
              (p > BITMAP_BASE /\ SeenUsable(p) /\ (size > 1 => p \notin BitmapPages) => p \notin used)
        BY DEF Mapping
  <2>3. SeenUsable(p)' <=> SeenUsable(p) \/ (p = page /\ e820_map[region].type = 1)
        BY <1>1, <2>1
  <2>4. CASE page < BITMAP_BASE + 1 /\ used' = used
    <3>1. p > BITMAP_BASE => p # page BY <1>0, <1>2, <2>1, <2>4
    <3> QED BY <2>2, <2>3, <2>4, <3>1
  <2>5. CASE page >= BITMAP_BASE + 1 /\ used' = Record(used, page, Limit)
    <3>1. page > BITMAP_BASE /\ ~(page >= Limit) BY <1>0, <1>2, <2>5
    <3>2. used' = IF e820_map[region].type = 1 THEN used \ {page} ELSE used \cup {page}
          BY <2>5, <3>1 DEF Record
    <3> QED BY <1>5, <1>6, <2>2, <2>3, <3>1, <3>2
  <2> QED BY <2>4, <2>5
<1>8. size = 1 \/ NoLongHole =>
         (\A j \in 1 .. Len(e820_map) : \A p \in InRegion(j) : Done(j, p) => p < Limit)'
  <2>1. \A j : InRegion(j)' = InRegion(j) BY MapSteady
  <2>2. size = 1 \/ NoLongHole =>
           \A j \in 1 .. Len(e820_map) : \A p \in InRegion(j) : Done(j, p)' => p < Limit
        BY <1>1 DEF Mapping
  <2> QED BY <1>3, <2>1, <2>2
<1>9. (size > 1 => \A p \in BitmapPages : p \in Pages => p > BITMAP_BASE /\ SeenUsable(p))'
  <2>1. size > 1 => \A p \in BitmapPages : p \in Pages => p > BITMAP_BASE /\ SeenUsable(p)
        BY DEF Mapping
  <2>2. \A p \in Pages : SeenUsable(p) => SeenUsable(p)' BY <1>1, <1>4
  <2> QED BY <1>3, <2>1, <2>2
<1>10. /\ (\A p \in Pages : p \notin used =>
             p > BITMAP_BASE /\ SeenUsable(p) /\ (size > 1 => p \notin BitmapPages))'
       /\ size = 1 \/ NoLongHole => (\A p \in Pages :
             p > BITMAP_BASE /\ SeenUsable(p) /\ (size > 1 => p \notin BitmapPages) => p \notin used)'
       BY <1>3, <1>7
<1>11. /\ owned' = {} /\ clash' = {} /\ bitmap_entries' = size * PER_PAGE
       /\ size = 1 => bitmap_at' = BITMAP_BASE + FIRST /\ cur_ptr' = BITMAP_BASE + FIRST + 1
       BY DEF Mapping
<1>12. (\A p \in BitmapPages : p < Limit)' /\ (NoLongHole' <=> NoLongHole)
       BY <1>3, MapSteady DEF Mapping
<1> QED BY <1>8, <1>9, <1>10, <1>11, <1>12 DEF Mapping

LEMMA InvMapPage ==
    ASSUME TypeOK, TypeOK', MapFits, PmmInv, MapPage
    PROVE  PmmInv'
<1> DEFINE page == FirstPage(e820_map[region]) + index
<1>1. phase = "init" /\ phase' = "init" BY DEF MapPage
<1>2. PICK size \in 1 .. BITMAP_BASE : Mapping(size) BY <1>1 DEF PmmInv
<1>3. bitmap_entries \div PER_PAGE = size BY <1>2, MappingSizes DEF Mapping
<1>4. /\ region <= Len(e820_map) /\ index < PageCount(e820_map[region])
      /\ index' = index + 1 /\ UNCHANGED <<e820_map, owned, clash, region, phase>>
      BY DEF MapPage
<1>5. \/ /\ page < BITMAP_BASE + 1
         /\ UNCHANGED <<used, bitmap_entries, bitmap_at, cur_ptr>>
      \/ /\ page >= BITMAP_BASE + 1 /\ page < Limit
         /\ used' = Record(used, page, Limit)
         /\ UNCHANGED <<bitmap_entries, bitmap_at, cur_ptr>>
      \/ /\ page >= Limit
         /\ \E stray \in Strays, i \in 0 .. bitmap_entries - 1 :
               /\ Finds(size + 1, stray, i)
               /\ bitmap_at' = Position(size + 1, i) - size
               /\ cur_ptr' = Position(size + 1, i) + 1
               /\ bitmap_entries' = bitmap_entries + PER_PAGE
               /\ used' = Record((used \cup Marked(size + 1, i)
                                     \cup (Limit .. Limit + PER_PAGE - 1)) \ BitmapPages,
                                  page, Limit + PER_PAGE)
      BY <1>3 DEF MapPage
<1>6. BITMAP_BASE + 1 <= Limit /\ page \in Int /\ BITMAP_BASE \in Nat /\ Limit \in Nat
  <2>1. Limit >= BITMAP_BASE + PER_PAGE /\ PER_PAGE \in Nat \ {0} /\ BITMAP_BASE \in Nat
        /\ Limit \in Nat
        BY <1>2, MappingSizes DEF Mapping
  <2>2. FirstPage(e820_map[region]) \in Nat BY <1>4, RegionPage
  <2> QED BY <2>1, <2>2 DEF TypeOK
<1> HIDE DEF page
<1>7. ASSUME NEW p, p = page PROVE PmmInv'
  <2>0. p = FirstPage(e820_map[region]) + index BY <1>7 DEF page
  <2>1. CASE p < BITMAP_BASE + 1 /\ UNCHANGED <<used, bitmap_entries, bitmap_at, cur_ptr>>
    <3>1. p < Limit BY <1>6, <1>7, <2>1
    <3>2. Mapping(size)' BY <1>1, <1>2, <1>4, <2>0, <2>1, <3>1, WriteStep
    <3> QED BY <1>1, <3>2 DEF PmmInv
  <2>2. CASE /\ p >= BITMAP_BASE + 1 /\ p < Limit /\ used' = Record(used, p, Limit)
             /\ UNCHANGED <<bitmap_entries, bitmap_at, cur_ptr>>
    <3>1. Mapping(size)' BY <1>1, <1>2, <1>4, <2>0, <2>2, WriteStep
    <3> QED BY <1>1, <3>1 DEF PmmInv
  <2>3. ASSUME p >= Limit, NEW stray \in Strays, NEW i \in 0 .. bitmap_entries - 1,
               Finds(size + 1, stray, i),
               bitmap_at' = Position(size + 1, i) - size,
               cur_ptr' = Position(size + 1, i) + 1,
               bitmap_entries' = bitmap_entries + PER_PAGE,
               used' = Record((used \cup Marked(size + 1, i)
                                 \cup (Limit .. Limit + PER_PAGE - 1)) \ BitmapPages,
                              p, Limit + PER_PAGE)
        PROVE  PmmInv'
    <3>1. size + 1 \in 1 .. BITMAP_BASE /\ Mapping(size + 1)'
          BY <1>1, <1>2, <1>4, <2>0, <2>3, GrowStep
    <3> QED BY <1>1, <3>1 DEF PmmInv
  <2> QED BY <1>5, <1>7, <2>1, <2>2, <2>3
<1> QED BY <1>7

LEMMA InvNextRegion ==
    ASSUME TypeOK, MapFits, PmmInv, NextRegion
    PROVE  PmmInv'
<1>1. phase = "init" /\ phase' = "init" BY DEF NextRegion
<1>2. PICK size \in 1 .. BITMAP_BASE : Mapping(size) BY <1>1 DEF PmmInv
<1>3. /\ region <= Len(e820_map) /\ index >= PageCount(e820_map[region])
      /\ region' = region + 1 /\ index' = 0
      /\ UNCHANGED <<e820_map, used, bitmap_entries, bitmap_at, cur_ptr, owned, clash, phase>>
      BY DEF NextRegion
<1>4. \A j : InRegion(j)' = InRegion(j) BY <1>3, MapSteady
<1>5. \A j \in 1 .. Len(e820_map) : \A p : Done(j, p)' <=> Done(j, p)
  <2> SUFFICES ASSUME NEW j \in 1 .. Len(e820_map), NEW p PROVE Done(j, p)' <=> Done(j, p)
      OBVIOUS
  <2>1. CASE p \notin InRegion(j) BY <1>4, <2>1 DEF Done
  <2>2. CASE p \in InRegion(j)
    <3>1. p \in Nat /\ j \in Nat /\ region \in Nat /\ index \in Nat
          /\ FirstPage(e820_map[j]) \in Nat /\ PageCount(e820_map[j]) \in Nat
          BY <2>2, RegionNat DEF TypeOK
    <3>2. p >= FirstPage(e820_map[j]) /\ p < FirstPage(e820_map[j]) + PageCount(e820_map[j])
          BY <2>2, <3>1 DEF InRegion
    <3>3. Done(j, p)' <=> j < region + 1 \/ (j = region + 1 /\ p < FirstPage(e820_map[region + 1]) + 0)
          BY <1>3, <1>4, <2>2 DEF Done
    <3>4. Done(j, p) <=> j < region \/ (j = region /\ p < FirstPage(e820_map[region]) + index)
          BY <2>2 DEF Done
    <3>5. CASE j = region BY <1>3, <3>1, <3>2, <3>3, <3>4, <3>5
    <3>6. CASE j # region
      <4>1. ~(j = region + 1 /\ p < FirstPage(e820_map[region + 1]) + 0) BY <3>1, <3>2
      <4> QED BY <3>1, <3>3, <3>4, <3>6, <4>1
    <3> QED BY <3>5, <3>6
  <2> QED BY <2>1, <2>2
<1>6. Limit' = Limit /\ Pages' = Pages /\ BitmapPages' = BitmapPages
      BY <1>3 DEF Limit, Pages, BitmapPages
<1>7. \A p : SeenUsable(p)' <=> SeenUsable(p) BY <1>3, <1>5 DEF SeenUsable
<1>8. NoLongHole' <=> NoLongHole BY <1>3, MapSteady
<1>9. Mapping(size)' BY <1>2, <1>3, <1>4, <1>5, <1>6, <1>7, <1>8 DEF Mapping
<1> QED BY <1>1, <1>9 DEF PmmInv

(* When init_pmm is done the bitmap describes memory exactly.                *)
LEMMA InvInitDone ==
    ASSUME TypeOK, MapFits, PmmInv, InitDone
    PROVE  PmmInv'
<1>1. phase = "init" /\ phase' = "run" BY DEF InitDone
<1>2. PICK size \in 1 .. BITMAP_BASE : Mapping(size) BY <1>1 DEF PmmInv
<1>3. /\ region > Len(e820_map)
      /\ UNCHANGED <<e820_map, used, bitmap_entries, bitmap_at, cur_ptr, owned, clash>>
      BY DEF InitDone
<1>4. \A j \in 1 .. Len(e820_map) : \A p \in InRegion(j) : Done(j, p)
  <2>1. e820_map \in Seq([base : Nat, length : Nat, type : Nat \ {0}])
        BY PmmAssumption DEF TypeOK
  <2>2. Len(e820_map) \in Nat BY <2>1, LenProperties
  <2> QED BY <1>3, <2>2 DEF Done, TypeOK
<1>5. size \in Nat /\ size > 0 /\ Limit \in Nat /\ Limit = BITMAP_BASE + size * PER_PAGE
      /\ BITMAP_BASE \in Nat /\ PER_PAGE \in Nat \ {0}
      BY <1>2, MappingSizes DEF Mapping
<1>6. size > 1
  <2>1. PICK j \in 1 .. Len(e820_map) : \E p \in InRegion(j) : p >= BITMAP_BASE + PER_PAGE
        BY DEF MapFits
  <2>2. PICK p \in InRegion(j) : p >= BITMAP_BASE + PER_PAGE BY <2>1
  <2>3. size = 1 => p < Limit /\ p \in Nat BY <1>2, <1>4, RegionNat DEF Mapping
  <2>4. size # 1 BY <1>5, <2>2, <2>3
  <2> QED BY <1>5, <2>4
<1>7. \A p : SeenUsable(p) => FitsUsable(p) BY RegionFits DEF SeenUsable, Done
<1>8. FreeIsUnused BY <1>2, <1>6, <1>7 DEF FreeIsUnused, Mapping
<1>9. ASSUME NoLongHole, NEW i \in 1 .. Len(e820_map), e820_map[i].type = 1,
             NEW p \in InRegion(i), p > BITMAP_BASE
      PROVE  p \in (Pages \ used) \cup BitmapPages \cup owned
  <2>1. p < Limit /\ p \in Nat BY <1>2, <1>4, <1>9, RegionNat DEF Mapping
  <2>2. p \in Pages BY <1>5, <1>9, <2>1 DEF Pages
  <2>3. SeenUsable(p) BY <1>4, <1>9 DEF SeenUsable
  <2> QED BY <1>2, <1>9, <2>2, <2>3 DEF Mapping
<1>10. NoPageLost BY <1>9 DEF NoPageLost
<1>11. FreeIsUnused' /\ NoPageLost'
  <2>1. Pages' = Pages /\ BitmapPages' = BitmapPages BY <1>3 DEF Pages, Limit, BitmapPages
  <2>2. (\A p : FitsUsable(p)' <=> FitsUsable(p)) /\ (\A i : InRegion(i)' = InRegion(i))
        /\ (NoLongHole' <=> NoLongHole)
        BY <1>3, MapSteady
  <2>3. \A p \in Pages \ used : FitsUsable(p) /\ p \notin owned /\ p \notin BitmapPages
        BY <1>2, <1>6, <1>7 DEF Mapping
  <2>4. FreeIsUnused' BY <1>3, <2>1, <2>2, <2>3 DEF FreeIsUnused
  <2>5. NoPageLost' BY <1>3, <1>9, <2>1, <2>2 DEF NoPageLost
  <2> QED BY <2>4, <2>5
<1>12. owned' = {} /\ clash' = {} BY <1>2, <1>3 DEF Mapping
<1>13. OwnedOnce' BY <1>12 DEF OwnedOnce
<1> QED BY <1>1, <1>11, <1>12, <1>13 DEF PmmInv, PagesAccounted

(* Allocations and frees move pages between the bitmap and their owners.      *)
LEMMA InvRun ==
    ASSUME TypeOK, \A n \in Requests : n <= BITMAP_BASE, PmmInv, phase = "run",
           NEW n \in Requests, pmm_alloc(n) \/ \E start \in owned : pmm_free(start, n)
    PROVE  PmmInv'
<1>1. /\ UNCHANGED <<e820_map, bitmap_entries, bitmap_at, phase>> /\ phase' = "run"
      BY DEF pmm_alloc, pmm_free
<1>2. Pages' = Pages /\ BitmapPages' = BitmapPages /\ Limit' = Limit
      BY <1>1 DEF Pages, Limit, BitmapPages
<1>3. /\ \A p : FitsUsable(p)' <=> FitsUsable(p)
      /\ \A i : InRegion(i)' = InRegion(i)
      /\ NoLongHole' <=> NoLongHole
      BY <1>1, MapSteady
<1>4. FreeIsUnused /\ NoPageLost /\ OwnedOnce /\ \A p \in owned : p \in Int /\ p < Limit
      BY DEF PmmInv, PagesAccounted
<1>5. ASSUME NEW Gone, \A p \in Gone : p \in Int /\ p < Limit, Gone \cap Pages \subseteq Pages \ used, used' = used \cup (Gone \cap Pages),
             owned' = owned \cup Gone, clash' = clash \cup (owned \cap Gone)
      PROVE  PmmInv'
  <2>1. \A p \in Gone \cap Pages : FitsUsable(p) /\ p \notin owned /\ p \notin BitmapPages
        BY <1>4, <1>5 DEF FreeIsUnused
  <2>2. FreeIsUnused' BY <1>1, <1>2, <1>3, <1>4, <1>5 DEF FreeIsUnused
  <2>3. OwnedOnce' BY <1>2, <1>3, <1>4, <1>5, <2>1 DEF OwnedOnce
  <2>4. NoPageLost' BY <1>1, <1>2, <1>3, <1>4, <1>5 DEF NoPageLost
  <2>5. \A p \in owned' : p \in Int /\ p < Limit' BY <1>2, <1>4, <1>5
  <2> QED BY <1>1, <2>2, <2>3, <2>4, <2>5 DEF PmmInv, PagesAccounted
<1>6. CASE pmm_alloc(n)
  <2>1. CASE UNCHANGED <<used, owned, clash>>
    <3>1. used' = used \cup ({} \cap Pages) /\ owned' = owned \cup {}
          /\ clash' = clash \cup (owned \cap {}) /\ {} \cap Pages \subseteq Pages \ used
          /\ \A p \in {} : p \in Int /\ p < Limit
          BY <2>1
    <3> QED BY <1>5, <3>1
  <2>2. ASSUME NEW stray \in Strays, NEW i \in 0 .. bitmap_entries - 1,
               Finds(n, stray, i), used' = used \cup Marked(n, i),
               owned' = owned \cup Taken(n, i),
               clash' = clash \cup (owned \cap Taken(n, i))
        PROVE  PmmInv'
    <3>1. Taken(n, i) \cap Pages \subseteq Pages \ used BY <2>2, RequestFits, TakenFree
    <3>2. used' = used \cup (Taken(n, i) \cap Pages) BY <2>2 DEF Marked
    <3>3. \A p \in Taken(n, i) : p \in Int /\ p < Limit
      <4>1. n \in Nat /\ n < Limit /\ i \in Nat /\ Limit \in Nat
            BY RequestFits, PmmAssumption DEF TypeOK, Limit
      <4>2. Position(n, i) \in Nat /\ Position(n, i) < Limit BY <4>1, PositionRange
      <4> QED BY <4>1, <4>2 DEF Taken
    <3> QED BY <1>5, <2>2, <3>1, <3>2, <3>3
  <2> QED BY <1>6, <2>1, <2>2 DEF pmm_alloc
<1>7. ASSUME NEW start \in owned, pmm_free(start, n) PROVE PmmInv'
  <2> DEFINE Back == start .. start + n - 1
  <2>1. used' = used \ Back /\ owned' = owned \ Back /\ Back \subseteq owned /\ clash' = clash
        BY <1>7 DEF pmm_free, Unmarked
  <2> HIDE DEF Back
  <2>2. FreeIsUnused' BY <1>1, <1>2, <1>3, <1>4, <2>1 DEF FreeIsUnused, OwnedOnce
  <2>3. OwnedOnce' BY <1>2, <1>3, <1>4, <2>1 DEF OwnedOnce
  <2>4. NoPageLost'
    <3> SUFFICES ASSUME NoLongHole, NEW i \in 1 .. Len(e820_map), e820_map[i].type = 1,
                        NEW p \in InRegion(i), p > BITMAP_BASE
                 PROVE  p \in (Pages \ used') \cup BitmapPages \cup owned'
        BY <1>1, <1>2, <1>3 DEF NoPageLost
    <3>1. p \in (Pages \ used) \cup BitmapPages \cup owned BY <1>1, <1>4 DEF NoPageLost
    <3>2. CASE p \in owned /\ p \in Back
      <4>1. BITMAP_BASE \in Nat /\ Limit \in Nat BY PmmAssumption DEF TypeOK, Limit
      <4>2. p \in Pages BY <1>4, <3>2, <4>1 DEF Pages
      <4> QED BY <2>1, <3>2, <4>2
    <3> QED BY <2>1, <3>1, <3>2
  <2>5. \A p \in owned' : p \in Int /\ p < Limit' BY <1>2, <1>4, <2>1
  <2> QED BY <1>1, <2>2, <2>3, <2>4, <2>5 DEF PmmInv, PagesAccounted
<1> QED BY <1>6, <1>7

LEMMA InvInit == Init /\ MapFits => PmmInv
<1> SUFFICES ASSUME Init, MapFits PROVE PmmInv OBVIOUS
<1>1. phase = "init" /\ 1 \in 1 .. BITMAP_BASE BY PmmAssumption DEF Init
<1>2. \A j \in 1 .. Len(e820_map) : \A p : ~Done(j, p)
  <2> SUFFICES ASSUME NEW j \in 1 .. Len(e820_map), NEW p, Done(j, p) PROVE FALSE OBVIOUS
  <2>1. FirstPage(e820_map[j]) \in Nat /\ p \in Nat /\ p \in InRegion(j)
        /\ PageCount(e820_map[j]) \in Nat
        BY TypeInit, RegionNat DEF Done
  <2> QED BY <2>1 DEF Done, Init, InRegion
<1>3. Mapping(1)
  <2>1. used = Pages /\ bitmap_entries = PER_PAGE /\ PER_PAGE \in Nat BY PmmAssumption DEF Init
  <2>2. \A p : ~SeenUsable(p) BY <1>2 DEF SeenUsable
  <2>3. bitmap_entries = 1 * PER_PAGE BY <2>1
  <2>4. \A p \in BitmapPages : p < Limit
    <3>1. bitmap_entries \div PER_PAGE = 1 BY <2>1, <2>3, PmmAssumption, DivExact
    <3>2. BitmapPages = BITMAP_BASE + FIRST .. BITMAP_BASE + FIRST + 1 - 1
          BY <3>1 DEF BitmapPages, Init
    <3> QED BY <2>1, <3>2, PmmAssumption DEF Limit
  <2> QED BY <1>2, <2>1, <2>2, <2>3, <2>4 DEF Init, Mapping
<1> QED BY <1>1, <1>3 DEF Init, PmmInv

(* For every map that fits, init_pmm leaves a bitmap that describes memory
   exactly, and allocations and frees of up to BITMAP_BASE pages keep it
   exact, whatever the scan finds in front of the bitmap: no page from
   MEMORY_BASE on is given out twice, none that is not memory or holds the
   bitmap is given out and, if the map has no long hole, none is lost.       *)
THEOREM MemoryAlwaysAccounted ==
    ASSUME \A n \in Requests : n <= BITMAP_BASE
    PROVE  Spec /\ MapFits => [](PagesAccounted /\ OwnedOnce)
<1>1. Init /\ MapFits => TypeOK /\ MapFits /\ PmmInv BY TypeInit, InvInit
<1>2. TypeOK /\ MapFits /\ PmmInv /\ [Next]_vars => (TypeOK /\ MapFits /\ PmmInv)'
  <2> SUFFICES ASSUME TypeOK, MapFits, PmmInv, [Next]_vars PROVE (TypeOK /\ MapFits /\ PmmInv)'
      OBVIOUS
  <2>1. TypeOK' BY TypeStep
  <2>2. UNCHANGED e820_map
        BY DEF Next, vars, MapPage, InitHalts, NextRegion, InitDone, pmm_alloc, pmm_free
  <2>3. MapFits' BY <2>2, MapSteady
  <2>4. PmmInv'
    <3>1. CASE MapPage BY <2>1, <3>1, InvMapPage
    <3>2. CASE NextRegion BY <3>2, InvNextRegion
    <3>3. CASE InitDone BY <3>3, InvInitDone
    <3>4. CASE InitHalts
      <4>1. phase = "init" /\ phase' = "halted" /\ UNCHANGED <<owned, clash>>
            BY <3>4 DEF InitHalts
      <4> QED BY <4>1 DEF PmmInv, Mapping
    <3>5. ASSUME NEW n \in Requests, pmm_alloc(n) \/ \E start \in owned : pmm_free(start, n)
          PROVE  PmmInv'
      <4>1. phase = "run" BY <3>5 DEF pmm_alloc, pmm_free
      <4> QED BY <3>5, <4>1, InvRun
    <3>6. CASE UNCHANGED vars
      <4>1. UNCHANGED <<e820_map, used, bitmap_entries, bitmap_at, cur_ptr, owned, clash, region, index, phase>>
            BY <3>6 DEF vars
      <4> QED BY <4>1 DEF PmmInv, Mapping, SeenUsable, Done, InRegion, PagesAccounted, FreeIsUnused,
                 NoPageLost, NoLongHole, OwnedOnce, FitsUsable, BitmapPages, Pages, Limit
    <3> QED BY <3>1, <3>2, <3>3, <3>4, <3>5, <3>6 DEF Next
  <2> QED BY <2>1, <2>3, <2>4
<1>3. TypeOK /\ PmmInv => PagesAccounted /\ OwnedOnce
  <2> SUFFICES ASSUME TypeOK, PmmInv PROVE PagesAccounted /\ OwnedOnce OBVIOUS
  <2>1. phase # "run" => owned = {} /\ clash = {} BY DEF TypeOK, PmmInv, Mapping
  <2> QED BY <2>1 DEF PmmInv, PagesAccounted, FreeIsUnused, NoPageLost, OwnedOnce
<1> QED BY <1>1, <1>2, <1>3, PTL DEF Spec
=============================================================================
