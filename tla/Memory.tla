-------------------------------- MODULE Memory --------------------------------
(***************************************************************************)
(* The kernel heap (lib/alloc.c) and the address spaces of processes        *)
(* (mm/vmm.c, with its callers in proc/), which take their pages from the   *)
(* physical memory manager.  pmm_lock is free between two calls of          *)
(* pmm_alloc and pmm_free, so each of these calls is one step and the       *)
(* clients interleave there.                                                *)
(*                                                                         *)
(* An address is the sequence of its indices into the tables, a page map    *)
(* the function from prefixes of addresses to table pages.  The tables of   *)
(* the higher half are shared with the kernel, never freed, and left out;   *)
(* so are flags and what pages contain.                                     *)
(*                                                                         *)
(* fault records that the code goes on with a NULL pointer or a freed page; *)
(* the model ends there.                                                    *)
(***************************************************************************)
EXTENDS Integers, Sequences, FiniteSets, SequencesExt

CONSTANTS
    PerUse,       \* bound: pages for one use at a time
    PAGE_SIZE,    \* bytes in a page
    Spaces,       \* bound: struct pagemap_t objects at a time
    Levels,       \* levels of tables (4)
    Ranges,       \* sequences of addresses that syscall_alloc_at is called for
    Guards,       \* addresses of guard pages
    STRUCT,       \* sizeof(struct pagemap_t)
    POOL,         \* pool_size, in pages
    Sizes,        \* byte counts that are asked of the heap
    MaxBlocks,    \* bound: blocks of the heap besides the page maps
    NULL

ASSUME MemoryAssumption ==
    /\ PerUse \in Nat /\ PAGE_SIZE \in Nat \ {0} /\ Levels \in Nat \ {0}
    /\ POOL \in Nat \ {0} /\ STRUCT \in Nat \ {0} /\ MaxBlocks \in Nat
    /\ \A r \in Ranges : r \in Seq(Seq(Nat)) /\ Len(r) > 0
    /\ \A r \in Ranges : \A i \in DOMAIN r : Len(r[i]) = Levels
    /\ Sizes \subseteq Nat \ {0} /\ NULL \notin Spaces

VARIABLES
    owned,        \* pages that pmm_alloc has given out
    heap,         \* the blocks of the heap
    moving,       \* the blocks krealloc has copied and not yet freed
    space,        \* the page maps there are, by their struct pagemap_t
    call,         \* call[s]: what is being done with s
    dropped,      \* pages nobody has a pointer to any more
    fault

vars == <<owned, heap, moving, space, call, dropped, fault>>

Idle == [op |-> "none"]
Prefix(v, k) == SubSeq(v, 1, k)
Without(f, x) == [z \in DOMAIN f \ {x} |-> f[z]]
With(f, x, y) == [z \in DOMAIN f \cup {x} |-> IF z = x THEN y ELSE f[z]]

Init ==
    /\ owned = {}
    /\ heap = {} /\ moving = {}
    /\ space = <<>>
    /\ call = [s \in Spaces |-> Idle]
    /\ dropped = {}
    /\ fault = "none"

Runs == fault = "none"

-----------------------------------------------------------------------------
(* pmm_alloc gives n pages that nobody owns (OwnedOnce of module Pmm), or
   none, even if there are enough: they may lie apart, or where one pass of
   the scan does not come.  Nobody looks at where a page is, so pages are
   named by the use they were allocated for, and numbered; the lowest are
   taken first.                                                              *)
Failed == <<>>

pmm_alloc(n, use) ==
    LET unused == {k \in 1 .. PerUse : <<use, k>> \notin owned}
    IN  {Failed} \cup {[j \in 1 .. n |-> <<use, f[j]>>] : f \in
           {f \in [1 .. n -> unused] :
              /\ \A i, j \in 1 .. n : i < j => f[i] < f[j]
              /\ \A k \in unused : (\E j \in 1 .. n : f[j] = k) \/ \A j \in 1 .. n : f[j] < k}}

Take(p) == owned' = owned \cup ToSet(p)

pmm_free(p) == owned' = owned \ ToSet(p)

-----------------------------------------------------------------------------
(* The heap.  A block begins with a page for its metadata.                   *)
PagesFor(size) == (size + PAGE_SIZE - 1) \div PAGE_SIZE
Block(at, size) == [at |-> at, pages |-> PagesFor(size), size |-> size]

kalloc(size) ==
    /\ Runs /\ Cardinality(heap) < MaxBlocks
    /\ \E p \in pmm_alloc(PagesFor(size) + 1, <<NULL, "heap", size>>) :
          /\ Take(p)
          /\ heap' = IF p = Failed THEN heap ELSE heap \cup {Block(p, size)}
    /\ UNCHANGED <<moving, space, call, dropped, fault>>

FreeBlock(b) == pmm_free(SubSeq(b.at, 1, b.pages + 1))

kfree(b) ==
    /\ Runs /\ b \notin moving
    /\ FreeBlock(b)
    /\ heap' = heap \ {b}
    /\ UNCHANGED <<moving, space, call, dropped, fault>>

(* krealloc: in place while the number of pages stays the same. *)
KreallocInPlace(b, size) ==
    /\ Runs /\ b \notin moving /\ PagesFor(b.size) = PagesFor(size)
    /\ heap' = (heap \ {b}) \cup {[b EXCEPT !.size = size]}
    /\ UNCHANGED <<owned, moving, space, call, dropped, fault>>

KreallocMove(b, size) ==
    /\ Runs /\ moving = {} /\ PagesFor(b.size) # PagesFor(size)
    /\ \E p \in pmm_alloc(PagesFor(size) + 1, <<NULL, "heap", size>>) :
          /\ Take(p)
          /\ IF p = Failed THEN UNCHANGED <<heap, moving>>
             ELSE heap' = heap \cup {Block(p, size)} /\ moving' = {b}
    /\ UNCHANGED <<space, call, dropped, fault>>

KreallocFree(b) ==
    /\ Runs
    /\ FreeBlock(b)
    /\ heap' = heap \ {b}
    /\ moving' = {}
    /\ UNCHANGED <<space, call, dropped, fault>>

-----------------------------------------------------------------------------
(* new_address_space, for a new process (from = NULL) or for
   fork_address_space, which does not look at the result.                    *)
Forking(s) == call[s].op \in {"pml4", "undo", "pool", "fork", "copy"} /\ call[s].from # NULL

NewStruct(s, from) ==
    /\ Runs /\ s \notin DOMAIN space /\ call[s] = Idle
    /\ from # NULL => from \in DOMAIN space /\ call[from].op # "free"
    /\ \E p \in pmm_alloc(PagesFor(STRUCT) + 1, <<s, "struct">>) :
          /\ Take(p)
          /\ call' = IF p = Failed THEN call
                     ELSE [call EXCEPT ![s] = [op |-> "pml4", from |-> from, struct |-> Block(p, STRUCT)]]
          /\ fault' = IF p = Failed /\ from # NULL THEN "null_pagemap" ELSE "none"
    /\ UNCHANGED <<heap, moving, space, dropped>>

NewPml4(s) ==
    /\ Runs /\ call[s].op = "pml4"
    /\ \E p \in pmm_alloc(1, <<s, "table">>) :
          /\ Take(p)
          /\ IF p = Failed
             THEN call' = [call EXCEPT ![s].op = "undo"] /\ UNCHANGED space
             ELSE /\ space' = With(space, s, [struct |-> call[s].struct, tables |-> With(<<>>, <<>>, p[1]),
                                              pages |-> <<>>])
                  /\ call' = [call EXCEPT ![s] = IF @.from = NULL THEN Idle ELSE [op |-> "pool", from |-> @.from]]
    /\ UNCHANGED <<heap, moving, dropped, fault>>

NewUndone(s) ==
    /\ Runs /\ call[s].op = "undo"
    /\ FreeBlock(call[s].struct)
    /\ call' = [call EXCEPT ![s] = Idle]
    /\ fault' = IF call[s].from = NULL THEN "none" ELSE "null_pagemap"
    /\ UNCHANGED <<heap, moving, space, dropped>>

-----------------------------------------------------------------------------
(* map_page is called for the pages of a range one after the other, by
   syscall_alloc_at (op "alloc") and, for one page, by fork_address_space
   (op "copy").                                                              *)
Mapping(s) == call[s].op \in {"alloc", "copy"}
Addr(s) == call[s].range[call[s].i]
Page(s) == call[s].ptr[call[s].done + 1]
Missing(s) == {k \in 1 .. Levels - 1 : Prefix(Addr(s), k) \notin DOMAIN space[s].tables}

Mapped(s) ==
    LET c == call[s]
    IN  call' = [call EXCEPT ![s] =
                   IF c.op = "copy" THEN [c EXCEPT !.op = "fork", !.done = c.done + 1]
                   ELSE IF c.i = Len(c.range) THEN Idle
                   ELSE [c EXCEPT !.i = c.i + 1, !.done = c.done + 1]]

(* A table is allocated for the first level that lacks one.  A failure is
   noticed for the first level only.  Below, NULL is entered as a table.     *)
MapTable(s) ==
    LET k == CHOOSE j \in Missing(s) : \A l \in Missing(s) : j <= l
    IN  /\ Runs /\ Mapping(s) /\ Missing(s) # {}
        /\ \E p \in pmm_alloc(1, <<s, "table", Prefix(Addr(s), k)>>) :
              /\ Take(p)
              /\ space' = IF p = Failed THEN space
                          ELSE [space EXCEPT ![s].tables = With(@, Prefix(Addr(s), k), p[1])]
              /\ fault' = IF p = Failed /\ k > 1 THEN "null_table" ELSE "none"
              /\ \/ (p # Failed \/ k > 1) /\ UNCHANGED <<call, dropped>>
                 \/ /\ p = Failed /\ k = 1 /\ call[s].op = "copy"  \* the result is ignored
                    /\ dropped' = dropped \cup {Page(s)} /\ Mapped(s)
                 \/ /\ p = Failed /\ k = 1 /\ call[s].op = "alloc"
                    /\ call' = [call EXCEPT ![s].op = "give_up"] /\ UNCHANGED dropped
        /\ UNCHANGED <<heap, moving>>

(* The entry is written over whatever was mapped there. *)
MapEntry(s) ==
    LET old == space[s].pages
    IN  /\ Runs /\ Mapping(s) /\ Missing(s) = {}
        /\ space' = [space EXCEPT ![s].pages = With(@, Addr(s), Page(s))]
        /\ dropped' = dropped \cup {old[v] : v \in DOMAIN old \cap {Addr(s)}}
        /\ Mapped(s)
        /\ UNCHANGED <<owned, heap, moving, fault>>

syscall_alloc_at(s, range) ==
    /\ Runs /\ s \in DOMAIN space /\ call[s] = Idle
    /\ \E p \in pmm_alloc(Len(range), <<s, "data">>) :
          /\ Take(p)
          /\ call' = IF p = Failed THEN call
                     ELSE [call EXCEPT ![s] = [op |-> "alloc", range |-> range, i |-> 1, ptr |-> p, done |-> 0]]
    /\ UNCHANGED <<heap, moving, space, dropped, fault>>

(* All pages are freed when one cannot be mapped, the mapped ones included. *)
GiveUp(s) ==
    /\ Runs /\ call[s].op = "give_up"
    /\ pmm_free(call[s].ptr)
    /\ call' = [call EXCEPT ![s] = Idle]
    /\ fault' = IF call[s].done > 0 THEN "mapped_page_freed" ELSE "none"
    /\ UNCHANGED <<heap, moving, space, dropped>>

(* unmap_page, for a guard page.  A table that becomes empty is freed, and
   its entry one level up stays.                                             *)
unmap_page(s, v) ==
    LET neighbours == {w \in DOMAIN space[s].pages \ {v} : Prefix(w, Levels - 1) = Prefix(v, Levels - 1)}
    IN  /\ Runs /\ s \in DOMAIN space /\ call[s] = Idle
        /\ v \in DOMAIN space[s].pages
        /\ space' = [space EXCEPT ![s].pages = Without(@, v)]
        /\ dropped' = dropped \cup {space[s].pages[v]}
        /\ fault' = IF neighbours = {} THEN "table_freed" ELSE "none"
        /\ UNCHANGED <<owned, heap, moving, call>>

-----------------------------------------------------------------------------
(* fork_address_space: one pool for all copies; what is left of it is freed. *)
ForkPool(s) ==
    /\ Runs /\ call[s].op = "pool"
    /\ \E p \in pmm_alloc(POOL, <<s, "data">>) :
          /\ Take(p)
          /\ IF p = Failed THEN fault' = "null_pool" /\ UNCHANGED call
             ELSE /\ call' = [call EXCEPT ![s] = [op |-> "fork", from |-> @.from, range |-> <<>>, i |-> 1,
                                                  ptr |-> p, done |-> 0]]
                  /\ UNCHANGED fault
    /\ UNCHANGED <<heap, moving, space, dropped>>

(* The walk over the old tables takes no lock: it meets what is mapped by
   then.  call[s].range holds the address it has met last.                   *)
Before(v, w) == \E k \in 1 .. Levels : Prefix(v, k - 1) = Prefix(w, k - 1) /\ v[k] < w[k]
Ahead(s) ==
    {v \in DOMAIN space[call[s].from].pages : call[s].range = <<>> \/ Before(call[s].range[1], v)}

ForkCopy(s) ==
    /\ Runs /\ call[s].op = "fork" /\ Ahead(s) # {}
    /\ IF call[s].done = POOL THEN fault' = "pool_exhausted" /\ UNCHANGED call
       ELSE \E v \in Ahead(s) :
              /\ \A w \in Ahead(s) : w = v \/ Before(v, w)
              /\ call' = [call EXCEPT ![s].op = "copy", ![s].range = <<v>>]
              /\ UNCHANGED fault
    /\ UNCHANGED <<owned, heap, moving, space, dropped>>

(* Mutant of Rest: the pool is freed from its start, not from pool_ptr on. *)
Rest_FromStart(s) == call[s].ptr

Rest(s) == SubSeq(call[s].ptr, call[s].done + 1, POOL)

ForkEnd(s) ==
    /\ Runs /\ call[s].op = "fork" /\ Ahead(s) = {}
    /\ pmm_free(Rest(s))
    /\ call' = [call EXCEPT ![s] = Idle]
    /\ UNCHANGED <<heap, moving, space, dropped, fault>>

-----------------------------------------------------------------------------
(* free_address_space, on exit, execve and failed loads: what a table maps
   is freed before the table.  A process that forks does not exit.           *)
FreeBegin(s) ==
    /\ Runs /\ s \in DOMAIN space /\ call[s] = Idle
    /\ \A t \in Spaces : Forking(t) => call[t].from # s
    /\ call' = [call EXCEPT ![s] = [op |-> "free"]]
    /\ UNCHANGED <<owned, heap, moving, space, dropped, fault>>

Freeing(s) == Runs /\ call[s].op = "free"

FreePage(s) ==
    /\ Freeing(s)
    /\ \E v \in DOMAIN space[s].pages :
          /\ pmm_free(<<space[s].pages[v]>>)
          /\ space' = [space EXCEPT ![s].pages = Without(@, v)]
    /\ UNCHANGED <<heap, moving, call, dropped, fault>>

(* The tables and mapped pages below table p. *)
Below(s, p) ==
    {q \in DOMAIN space[s].tables \cup DOMAIN space[s].pages : Len(q) > Len(p) /\ Prefix(q, Len(p)) = p}

FreeTable(s) ==
    /\ Freeing(s)
    /\ \E p \in DOMAIN space[s].tables :
          /\ Below(s, p) = {}
          /\ pmm_free(<<space[s].tables[p]>>)
          /\ space' = [space EXCEPT ![s].tables = Without(@, p)]
    /\ UNCHANGED <<heap, moving, call, dropped, fault>>

FreeStruct(s) ==
    /\ Freeing(s) /\ DOMAIN space[s].tables = {}
    /\ FreeBlock(space[s].struct)
    /\ space' = Without(space, s)
    /\ call' = [call EXCEPT ![s] = Idle]
    /\ UNCHANGED <<heap, moving, dropped, fault>>

-----------------------------------------------------------------------------
HeapStep ==
    \/ \E size \in Sizes :
          kalloc(size) \/ \E b \in heap : KreallocInPlace(b, size) \/ KreallocMove(b, size)
    \/ \E b \in heap : kfree(b)
    \/ \E b \in moving : KreallocFree(b)

SpaceStep(s) ==
    \/ \E from \in (Spaces \ {s}) \cup {NULL} : NewStruct(s, from)
    \/ NewPml4(s) \/ NewUndone(s)
    \/ \E range \in Ranges : syscall_alloc_at(s, range)
    \/ MapTable(s) \/ MapEntry(s) \/ GiveUp(s)
    \/ \E v \in Guards : unmap_page(s, v)
    \/ ForkPool(s) \/ ForkCopy(s) \/ ForkEnd(s)
    \/ FreeBegin(s) \/ FreePage(s) \/ FreeTable(s) \/ FreeStruct(s)

Next == HeapStep \/ \E s \in Spaces : SpaceStep(s)

Spec == Init /\ [][Next]_vars

-----------------------------------------------------------------------------
(* Everything that somebody has a pointer to, with its pages: blocks of the
   heap, the structures, tables and pages of page maps, and what a call has
   allocated and not yet mapped.                                             *)
HeldBlocks == {<<"heap", b, ToSet(b.at)>> : b \in heap}
HeldStructs ==
    {<<"struct", s, ToSet(space[s].struct.at)>> : s \in DOMAIN space}
    \cup {<<"struct", s, ToSet(call[s].struct.at)>> : s \in {s \in Spaces : call[s].op \in {"pml4", "undo"}}}
HeldTables ==
    UNION {{<<"table", <<s, p>>, {space[s].tables[p]}>> : p \in DOMAIN space[s].tables} : s \in DOMAIN space}
HeldPages ==
    UNION {{<<"page", <<s, v>>, {space[s].pages[v]}>> : v \in DOMAIN space[s].pages} : s \in DOMAIN space}
Left(s) == {call[s].ptr[j] : j \in call[s].done + 1 .. Len(call[s].ptr)}
HeldRests ==
    {<<"rest", s, Left(s)>> : s \in {s \in Spaces : call[s].op \in {"alloc", "give_up", "fork", "copy"}}}

Holdings == HeldBlocks \cup HeldStructs \cup HeldTables \cup HeldPages \cup HeldRests

(* No page serves two purposes: heap blocks, page tables, mapped pages and
   pools of all address spaces are apart, all of them are owned, and an owned
   page that none of them holds is one of those the code lost; a block of the
   heap has room for its size.  So no fork, exit, failed allocation or moved
   block frees a page that is in use or forgets one.                         *)
Accounted ==
    Runs =>
    LET held == UNION {x[3] : x \in Holdings}
    IN  /\ \A x, y \in Holdings : x # y => x[3] \cap y[3] = {}
        /\ held \cap dropped = {}
        /\ owned = held \cup dropped
        /\ \A b \in heap : b.size <= b.pages * PAGE_SIZE
=============================================================================
