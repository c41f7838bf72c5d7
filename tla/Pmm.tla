--------------------------------- MODULE Pmm ---------------------------------
(***************************************************************************)
(* The physical memory manager of qword, mm/pmm.c: a bitmap with one bit    *)
(* per page from MEMORY_BASE on, filled from the e820 map and moved to more *)
(* pages as it grows, and a next-fit scan over it.  Every operation runs    *)
(* under pmm_lock, or alone while the kernel starts, and is one step.       *)
(***************************************************************************)
EXTENDS Integers, Sequences, FiniteSets

CONSTANTS
    PAGE_SIZE,      \* bytes in a page
    BITMAP_BASE,    \* the page at MEMORY_BASE, the first one with a bit
    PER_PAGE,       \* bits in one page of bitmap
    FIRST,          \* the one page, from MEMORY_BASE, that initial_bitmap frees
    E820Maps,       \* the memory maps the firmware may report
    Requests        \* page counts asked for

ASSUME PmmAssumption ==
    /\ PAGE_SIZE \in Nat \ {0} /\ BITMAP_BASE \in Nat /\ BITMAP_BASE > 1 /\ FIRST \in Nat
    /\ PER_PAGE \in Nat \ {0} /\ FIRST < PER_PAGE
    /\ \A map \in E820Maps : map \in Seq([base : Nat, length : Nat, type : Nat \ {0}])
    /\ \A n \in Requests : n \in Nat /\ n < BITMAP_BASE + PER_PAGE

VARIABLES
    e820_map,
    used,            \* pages whose bit is set
    bitmap_entries,
    bitmap_at,       \* the first page of the bitmap itself
    cur_ptr,         \* where the next scan starts
    owned,           \* pages that callers have been given and keep
    clash,           \* pages that have been given to a second caller
    region, index,   \* i and j of the loops of init_pmm
    phase            \* "init", "run", or "halted" for the endless loop
vars == <<e820_map, used, bitmap_entries, bitmap_at, cur_ptr, owned, clash, region, index, phase>>

Limit == BITMAP_BASE + bitmap_entries
Pages == BITMAP_BASE .. Limit - 1
BitmapPages == bitmap_at .. bitmap_at + bitmap_entries \div PER_PAGE - 1

(* cur_ptr never passes the end of the bitmap: the scan tests for equality.  *)
TypeOK ==
    /\ e820_map \in E820Maps
    /\ bitmap_entries \in Nat /\ bitmap_entries >= PER_PAGE
    /\ bitmap_at \in Nat
    /\ used \subseteq Pages
    /\ cur_ptr \in 0 .. Limit
    /\ owned \subseteq Nat /\ clash \subseteq Nat
    /\ region \in Nat \ {0} /\ index \in Nat
    /\ phase \in {"init", "run", "halted"}

(* One page of bitmap, taken with the help of initial_bitmap: all bits set.  *)
Init ==
    /\ e820_map \in E820Maps
    /\ bitmap_entries = PER_PAGE
    /\ used = Pages
    /\ bitmap_at = BITMAP_BASE + FIRST
    /\ cur_ptr = BITMAP_BASE + FIRST + 1
    /\ owned = {} /\ clash = {}
    /\ region = 1 /\ index = 0
    /\ phase = "init"

-----------------------------------------------------------------------------
(***************************************************************************)
(* pmm_alloc and pmm_free                                                   *)
(***************************************************************************)

(* Mutant of Position: the end is tested one page too late.                  *)
Position_LateWrap(n, i) ==
    IF cur_ptr + i <= Limit THEN cur_ptr + i
    ELSE n + ((cur_ptr + i - Limit) % (Limit - n))

(* The page that iteration i of pmm_alloc(n) looks at.  At the end of the
   bitmap cur_ptr is set to the page count, not to the first page.           *)
Position(n, i) ==
    IF cur_ptr + i < Limit THEN cur_ptr + i
    ELSE n + ((cur_ptr + i - Limit) % (Limit - n))

(* read_bitmap finds page p free.  Below BITMAP_BASE it reads the memory in
   front of the bitmap: whatever lies there.                                 *)
ReadsFree(p, stray) == IF p \in Pages THEN p \notin used ELSE p \in stray

(* The last n iterations up to i have all seen a free page.                  *)
RunEnds(n, stray, i) ==
    /\ i >= n - 1
    /\ \A j \in i - n + 1 .. i : ReadsFree(Position(n, j), stray)

(* Mutant of Finds: the count of free pages is not reset at a used one.      *)
Finds_NoReset(n, stray, i) ==
    /\ n > 0 /\ i \in 0 .. bitmap_entries - 1
    /\ Cardinality({j \in 0 .. i : ReadsFree(Position(n, j), stray)}) = n
    /\ ReadsFree(Position(n, i), stray)

(* pmm_alloc(n) ends its search in iteration i.  (A count of 0 underflows
   and is never found.)                                                      *)
Finds(n, stray, i) ==
    /\ n > 0 /\ i \in 0 .. bitmap_entries - 1
    /\ RunEnds(n, stray, i)
    /\ \A h \in 0 .. i - 1 : ~RunEnds(n, stray, h)

FindsNone(n, stray) ==
    n = 0 \/ \A h \in 0 .. bitmap_entries - 1 : ~RunEnds(n, stray, h)

(* The n pages that end where iteration i has looked.                        *)
Taken(n, i) == Position(n, i) - n + 1 .. Position(n, i)

(* What the memory in front of the bitmap may read as free: anything.        *)
Strays == SUBSET (0 .. BITMAP_BASE - 1)

(* The bits set_bitmap sets; below BITMAP_BASE it writes other memory.       *)
Marked(n, i) == Taken(n, i) \cap Pages

pmm_alloc(n) ==
    /\ phase = "run"
    /\ \E stray \in Strays :
          \/ \E i \in 0 .. bitmap_entries - 1 :
                /\ Finds(n, stray, i)
                /\ used' = used \cup Marked(n, i)
                /\ owned' = owned \cup Taken(n, i)
                /\ clash' = clash \cup (owned \cap Taken(n, i))
                /\ cur_ptr' = Position(n, i) + 1
          \/ /\ FindsNone(n, stray)
             /\ cur_ptr' = Position(n, bitmap_entries - 1) + 1
             /\ UNCHANGED <<used, owned, clash>>
    /\ UNCHANGED <<e820_map, bitmap_entries, bitmap_at, region, index, phase>>

(* Mutant of Unmarked: the last page keeps its bit.                          *)
Unmarked_OneShort(start, n) == start .. start + n - 2

Unmarked(start, n) == start .. start + n - 1

(* A caller gives back n pages it owns, all it got in one call or a part.    *)
pmm_free(start, n) ==
    /\ phase = "run"
    /\ start .. start + n - 1 \subseteq owned
    /\ used' = used \ Unmarked(start, n)
    /\ owned' = owned \ (start .. start + n - 1)
    /\ UNCHANGED <<clash, e820_map, bitmap_entries, bitmap_at, cur_ptr, region, index, phase>>

-----------------------------------------------------------------------------
(***************************************************************************)
(* init_pmm                                                                 *)
(***************************************************************************)

(* The whole pages of a region, as the code computes them: the base rounded
   up, the length rounded down and reduced by a page if the base is not
   aligned.                                                                  *)
FirstPage(r) == (r.base + PAGE_SIZE - 1) \div PAGE_SIZE
PageCount(r) ==
    LET whole == r.length \div PAGE_SIZE IN
    IF r.base % PAGE_SIZE # 0 /\ whole > 0 THEN whole - 1 ELSE whole

InRegion(i) == FirstPage(e820_map[i]) .. FirstPage(e820_map[i]) + PageCount(e820_map[i]) - 1

(* Usable pages are cleared, others set; a page beyond the bitmap has its bit
   in memory that is nobody's yet.                                           *)
Record(marks, page, limit) ==
    IF page >= limit THEN marks
    ELSE IF e820_map[region].type = 1 THEN marks \ {page} ELSE marks \cup {page}

(* One page of a region: skipped in front of the first bitmap page's end; if
   it lies beyond the bitmap, the bitmap moves to one page more than it had. *)
MapPage ==
    LET page == FirstPage(e820_map[region]) + index
        size == bitmap_entries \div PER_PAGE
        grown == bitmap_entries + PER_PAGE
    IN
    /\ phase = "init" /\ region <= Len(e820_map)
    /\ index < PageCount(e820_map[region])
    /\ index' = index + 1
    /\ \/ /\ page < BITMAP_BASE + 1
          /\ UNCHANGED <<used, bitmap_entries, bitmap_at, cur_ptr>>
       \/ /\ page >= BITMAP_BASE + 1 /\ page < Limit
          /\ used' = Record(used, page, Limit)
          /\ UNCHANGED <<bitmap_entries, bitmap_at, cur_ptr>>
       \/ /\ page >= Limit
          /\ \E stray \in Strays, i \in 0 .. bitmap_entries - 1 :
                /\ Finds(size + 1, stray, i)
                /\ bitmap_at' = Position(size + 1, i) - size
                /\ cur_ptr' = Position(size + 1, i) + 1
                /\ bitmap_entries' = grown
                /\ used' = Record((used \cup Marked(size + 1, i)
                                     \cup (Limit .. Limit + PER_PAGE - 1)) \ BitmapPages,
                                  page, Limit + PER_PAGE)
    /\ UNCHANGED <<e820_map, owned, clash, region, phase>>

(* "pmm_alloc failure in init_pmm(). Halted."                                *)
InitHalts ==
    /\ phase = "init" /\ region <= Len(e820_map)
    /\ index < PageCount(e820_map[region])
    /\ FirstPage(e820_map[region]) + index >= Limit
    /\ \E stray \in Strays : FindsNone(bitmap_entries \div PER_PAGE + 1, stray)
    /\ phase' = "halted"
    /\ UNCHANGED <<e820_map, used, bitmap_entries, bitmap_at, cur_ptr, owned, clash, region, index>>

NextRegion ==
    /\ phase = "init" /\ region <= Len(e820_map)
    /\ index >= PageCount(e820_map[region])
    /\ region' = region + 1 /\ index' = 0
    /\ UNCHANGED <<e820_map, used, bitmap_entries, bitmap_at, cur_ptr, owned, clash, phase>>

InitDone ==
    /\ phase = "init" /\ region > Len(e820_map)
    /\ phase' = "run"
    /\ UNCHANGED <<e820_map, used, bitmap_entries, bitmap_at, cur_ptr, owned, clash, region, index>>

Next ==
    \/ MapPage \/ InitHalts \/ NextRegion \/ InitDone
    \/ \E n \in Requests : pmm_alloc(n) \/ \E start \in owned : pmm_free(start, n)

Spec == Init /\ [][Next]_vars

-----------------------------------------------------------------------------
(* The page lies wholly inside a usable region, computed on bytes.           *)
FitsUsable(p) ==
    \E i \in 1 .. Len(e820_map) :
        LET r == e820_map[i] IN
        /\ r.type = 1
        /\ r.base <= p * PAGE_SIZE /\ (p + 1) * PAGE_SIZE <= r.base + r.length

(* No hole of the map is so long that one page more of bitmap does not reach
   over it.                                                                  *)
NoLongHole ==
    \A i \in 1 .. Len(e820_map) : \A p \in InRegion(i) : p >= BITMAP_BASE + 2 * PER_PAGE =>
        \E j \in 1 .. Len(e820_map) : \E q \in InRegion(j) : p - PER_PAGE <= q /\ q < p

(* What pmm_alloc may hand out next, of the pages that have a bit, is memory
   that exists, that nobody owns and that the bitmap does not occupy.        *)
FreeIsUnused ==
    phase = "run" =>
    \A p \in Pages \ used : FitsUsable(p) /\ p \notin owned /\ p \notin BitmapPages

(* No page from MEMORY_BASE on is given to two callers, and none that is not
   usable memory or that holds the bitmap is given to one, although a scan
   that wraps may continue a run in front of the bitmap, with bits that are
   not its own.  Of the pages below MEMORY_BASE, which that scan may hand out
   as well, nothing is claimed.                                              *)
OwnedOnce ==
    /\ clash \cap Pages = {}
    /\ \A p \in owned \cap Pages : FitsUsable(p) /\ p \notin BitmapPages

(* Each page of a usable region behind the first is free, owned or part of
   the bitmap: initialisation writes it as free and frees give it back.      *)
NoPageLost ==
    phase = "run" /\ NoLongHole =>
    \A i \in 1 .. Len(e820_map) : e820_map[i].type = 1 =>
        \A p \in InRegion(i) : p > BITMAP_BASE =>
            p \in (Pages \ used) \cup BitmapPages \cup owned

(* The bitmap describes memory exactly, in both directions: no page it calls
   free is in use and, if the map has no long hole, none is lost, over any
   sequence of allocations, partial frees and wraps after an initialisation
   that moved the bitmap, which lies in the memory it describes.             *)
PagesAccounted == FreeIsUnused /\ NoPageLost
=============================================================================
