---------------------------- MODULE MemoryProofs ----------------------------
(***************************************************************************)
(* Accounted of module Memory, for any sizes, address spaces, ranges and    *)
(* depth of the tables.  The inductive invariant adds to it what the calls  *)
(* under way have in their locals: how far a range or a pool has been used, *)
(* that the page map being copied is not released, and that a page map has  *)
(* a root table until it is.                                                *)
(***************************************************************************)
EXTENDS Memory, SequenceTheorems, WellFoundedInduction, TLAPS

-----------------------------------------------------------------------------
(***************************************************************************)
(* Holdings and how a step may change them                                  *)
(***************************************************************************)

(* Accounted without what it says of the heap, for any set of holdings. *)
Sound(H, own, drp) ==
    /\ \A x, y \in H : x # y => x[3] \cap y[3] = {}
    /\ \A x \in H : x[3] \cap drp = {}
    /\ \A g : g \in own <=> g \in drp \/ \E x \in H : g \in x[3]

(* What is allocated may be held. *)
LEMMA SoundAdd ==
    ASSUME NEW H, NEW own, NEW drp, NEW x, Sound(H, own, drp), x[3] \cap own = {}
    PROVE  Sound(H \cup {x}, own \cup x[3], drp)
BY DEF Sound

(* What is held may be freed. *)
LEMMA SoundRemove ==
    ASSUME NEW H, NEW own, NEW drp, NEW x \in H, Sound(H, own, drp)
    PROVE  Sound(H \ {x}, own \ x[3], drp)
BY DEF Sound

(* What is held may be dropped. *)
LEMMA SoundDrop ==
    ASSUME NEW H, NEW own, NEW drp, NEW x \in H, Sound(H, own, drp)
    PROVE  Sound(H \ {x}, own, drp \cup x[3])
BY DEF Sound

(* Several holdings may be dropped at once. *)
LEMMA SoundDropAll ==
    ASSUME NEW H, NEW own, NEW drp, NEW O, NEW D, O \subseteq H, Sound(H, own, drp), D = UNION {x[3] : x \in O}
    PROVE  Sound(H \ O, own, drp \cup D)
<1>1. \A g : g \in D <=> \E x \in O : g \in x[3]
  OBVIOUS
<1> QED
  BY <1>1 DEF Sound

(* A holding may pass to another holder. *)
LEMMA SoundReplace ==
    ASSUME NEW H, NEW own, NEW drp, NEW x \in H, NEW y, Sound(H, own, drp), y[3] = x[3]
    PROVE  Sound((H \ {x}) \cup {y}, own, drp)
BY DEF Sound

(* A holding may be divided. *)
LEMMA SoundSplit ==
    ASSUME NEW H, NEW own, NEW drp, NEW x \in H, NEW y, NEW z, Sound(H, own, drp),
           x[3] = y[3] \cup z[3], y[3] \cap z[3] = {}
    PROVE  Sound((H \ {x}) \cup {y, z}, own, drp)
BY DEF Sound

(* A part of a holding may be dropped. *)
LEMMA SoundShrink ==
    ASSUME NEW H, NEW own, NEW drp, NEW x \in H, NEW y, NEW D, Sound(H, own, drp),
           x[3] = y[3] \cup D, y[3] \cap D = {}
    PROVE  Sound((H \ {x}) \cup {y}, own, drp \cup D)
BY DEF Sound

-----------------------------------------------------------------------------
(***************************************************************************)
(* Operators of the model                                                   *)
(***************************************************************************)

(* A block has room for what it was allocated for. *)
LEMMA RoomFor ==
    ASSUME NEW size \in Nat \ {0}
    PROVE  PagesFor(size) \in Nat \ {0} /\ size <= PagesFor(size) * PAGE_SIZE
<1> DEFINE x == size + PAGE_SIZE - 1
<1>1. PAGE_SIZE \in Nat \ {0}
  BY MemoryAssumption
<1>2. x \in Nat /\ x >= PAGE_SIZE
  BY <1>1
<1>3. x \div PAGE_SIZE \in Int /\ x = PAGE_SIZE * (x \div PAGE_SIZE) + (x % PAGE_SIZE) /\ x % PAGE_SIZE \in 0 .. PAGE_SIZE - 1
  BY <1>1, <1>2
<1> DEFINE q == x \div PAGE_SIZE
<1>4. PAGE_SIZE * q >= size
  BY <1>1, <1>2, <1>3
<1>5. q > 0
  BY <1>1, <1>3, <1>4
<1> QED
  BY <1>1, <1>3, <1>4, <1>5 DEF PagesFor

(* A sequence of pages, none of them twice. *)
IsPages(p, n) ==
    /\ p \in Seq(ToSet(p)) /\ Len(p) = n
    /\ \A i, j \in 1 .. n : p[i] = p[j] => i = j

(* pmm_alloc fails or gives as many pages as it was asked for, none of which
   was owned.                                                                *)
LEMMA Allocated ==
    ASSUME NEW n \in Nat \ {0}, NEW use, NEW p \in pmm_alloc(n, use), p # Failed
    PROVE  IsPages(p, n) /\ ToSet(p) \cap owned = {} /\ p[1] \in ToSet(p)
<1> DEFINE unused == {k \in 1 .. PerUse : <<use, k>> \notin owned}
<1>1. PICK f \in [1 .. n -> unused] :
        /\ p = [j \in 1 .. n |-> <<use, f[j]>>]
        /\ \A i, j \in 1 .. n : i < j => f[i] < f[j]
  BY DEF pmm_alloc
<1>2. ToSet(p) = {p[j] : j \in 1 .. n}
  BY <1>1 DEF ToSet
<1>3. p \in [1 .. n -> ToSet(p)]
  BY <1>1, <1>2
<1>4. p \in Seq(ToSet(p)) /\ Len(p) = n
  BY <1>3, IsASeq, LenProperties, SeqDef
<1>5. PerUse \in Nat
  BY MemoryAssumption
<1>6. \A i, j \in 1 .. n : p[i] = p[j] => i = j
  <2> TAKE i, j \in 1 .. n
  <2>1. f[i] \in Int /\ f[j] \in Int
    BY <1>1, <1>5
  <2>2. p[i] = p[j] => f[i] = f[j]
    BY <1>1
  <2> QED
    BY <1>1, <2>1, <2>2
<1>7. ToSet(p) \cap owned = {}
  BY <1>1, <1>2
<1> QED
  BY <1>2, <1>4, <1>6, <1>7 DEF IsPages

-----------------------------------------------------------------------------
(***************************************************************************)
(* The inductive invariant                                                  *)
(***************************************************************************)
Address == {v \in Seq(Nat) : Len(v) = Levels}

(* A block as kalloc makes it and krealloc leaves it. *)
IsBlock(b) ==
    /\ b = [at |-> b.at, pages |-> b.pages, size |-> b.size]
    /\ b.size \in Nat \ {0} /\ b.pages = PagesFor(b.size)
    /\ IsPages(b.at, b.pages + 1)

(* Page maps have a root table as long as they map something. *)
IsSpace(m) ==
    /\ m = [struct |-> m.struct, tables |-> m.tables, pages |-> m.pages]
    /\ IsBlock(m.struct)
    /\ m.tables = [p \in DOMAIN m.tables |-> m.tables[p]]
    /\ m.pages = [v \in DOMAIN m.pages |-> m.pages[v]]
    /\ DOMAIN m.pages \subseteq Address
    /\ DOMAIN m.pages # {} => <<>> \in DOMAIN m.tables

(* The locals of the calls under way, and whether the page map is there. *)
NoCall(s) == call[s] = Idle
NewCall(s) ==
    /\ call[s].op \in {"pml4", "undo"}
    /\ call[s] = [op |-> call[s].op, from |-> call[s].from, struct |-> call[s].struct]
    /\ IsBlock(call[s].struct)
    /\ s \notin DOMAIN space
PoolCall(s) ==
    /\ call[s].op = "pool" /\ call[s] = [op |-> call[s].op, from |-> call[s].from]
    /\ call[s].from # NULL /\ s \in DOMAIN space
AllocCall(s) ==
    /\ call[s].op \in {"alloc", "give_up"}
    /\ call[s] = [op |-> call[s].op, range |-> call[s].range, i |-> call[s].i, ptr |-> call[s].ptr,
                  done |-> call[s].done]
    /\ call[s].range \in Ranges
    /\ call[s].i \in 1 .. Len(call[s].range) /\ call[s].done = call[s].i - 1
    /\ IsPages(call[s].ptr, Len(call[s].range))
    /\ s \in DOMAIN space
ForkCall(s) ==
    /\ call[s].op \in {"fork", "copy"}
    /\ call[s] = [op |-> call[s].op, from |-> call[s].from, range |-> call[s].range, i |-> call[s].i,
                  ptr |-> call[s].ptr, done |-> call[s].done]
    /\ call[s].from # NULL
    /\ call[s].i = 1 /\ call[s].done \in 0 .. POOL
    /\ call[s].op = "copy" => call[s].done < POOL /\ \E v \in Address : call[s].range = <<v>>
    /\ IsPages(call[s].ptr, POOL)
    /\ s \in DOMAIN space
FreeCall(s) == call[s] = [op |-> "free"] /\ s \in DOMAIN space

CallSound(s) == NoCall(s) \/ NewCall(s) \/ PoolCall(s) \/ AllocCall(s) \/ ForkCall(s) \/ FreeCall(s)
CallsSound == \A s \in Spaces : CallSound(s)

(* The page map that is copied stays while it is copied. *)
ParentsStay ==
    \A s \in Spaces : Forking(s) =>
        call[s].from \in DOMAIN space /\ call[s].from \in Spaces /\ call[call[s].from].op # "free"

SpacesSound ==
    /\ DOMAIN space \subseteq Spaces /\ space = [s \in DOMAIN space |-> space[s]]
    /\ call = [s \in Spaces |-> call[s]]
    /\ \A s \in DOMAIN space : IsSpace(space[s])

HeapSound == moving \subseteq heap /\ \A b \in heap : IsBlock(b)

Shapes == HeapSound /\ SpacesSound /\ CallsSound /\ ParentsStay

(* Page maps have a root table until they are released. *)
Rooted == \A s \in DOMAIN space : call[s].op # "free" => <<>> \in DOMAIN space[s].tables

Good == Shapes /\ Sound(Holdings, owned, dropped)

MemoryInv == Runs => Good /\ Rooted

-----------------------------------------------------------------------------
(***************************************************************************)
(* How the parts of Holdings change                                         *)
(***************************************************************************)

(* Holdings of different kinds differ. *)
LEMMA Kinds ==
    /\ \A x \in HeldBlocks : x[1] = "heap"
    /\ \A x \in HeldStructs : x[1] = "struct"
    /\ \A x \in HeldTables : x[1] = "table"
    /\ \A x \in HeldPages : x[1] = "page"
    /\ \A x \in HeldRests : x[1] = "rest"
BY DEF HeldBlocks, HeldStructs, HeldTables, HeldPages, HeldRests

(* Who holds a table, before and after a step, and who a mapped page. *)
LEMMA TableHolders ==
    \A x : x \in HeldTables <=>
        \E s \in DOMAIN space : \E p \in DOMAIN space[s].tables : x = <<"table", <<s, p>>, {space[s].tables[p]}>>
BY DEF HeldTables

LEMMA PageHolders ==
    \A x : x \in HeldPages <=>
        \E s \in DOMAIN space : \E v \in DOMAIN space[s].pages : x = <<"page", <<s, v>>, {space[s].pages[v]}>>
BY DEF HeldPages

LEMMA TableHoldersNext ==
    \A x : x \in HeldTables' <=>
        \E s \in DOMAIN space' : \E p \in DOMAIN space'[s].tables : x = <<"table", <<s, p>>, {space'[s].tables[p]}>>
BY DEF HeldTables

LEMMA PageHoldersNext ==
    \A x : x \in HeldPages' <=>
        \E s \in DOMAIN space' : \E v \in DOMAIN space'[s].pages : x = <<"page", <<s, v>>, {space'[s].pages[v]}>>
BY DEF HeldPages

(* A step that leaves page maps and calls alone. *)
LEMMA SpacesKept ==
    ASSUME UNCHANGED <<space, call>>
    PROVE  HeldStructs' = HeldStructs /\ HeldTables' = HeldTables /\ HeldPages' = HeldPages /\ HeldRests' = HeldRests
BY DEF HeldStructs, HeldTables, HeldPages, HeldRests, Left

(* A step that leaves the heap alone. *)
LEMMA BlocksKept ==
    ASSUME heap' = heap
    PROVE  HeldBlocks' = HeldBlocks
BY DEF HeldBlocks

(* The tables, or the mapped pages, of one page map change. *)
LEMMA TablesKept ==
    ASSUME DOMAIN space' = DOMAIN space, \A u \in DOMAIN space : space'[u].tables = space[u].tables
    PROVE  HeldTables' = HeldTables
BY TableHolders, TableHoldersNext

LEMMA PagesKept ==
    ASSUME DOMAIN space' = DOMAIN space, \A u \in DOMAIN space : space'[u].pages = space[u].pages
    PROVE  HeldPages' = HeldPages
BY PageHolders, PageHoldersNext

(* A page map that comes or goes brings no mapped page, or takes no table. *)
LEMMA EmptyPages ==
    ASSUME \A u \in DOMAIN space \cap DOMAIN space' : space'[u].pages = space[u].pages,
           \A u \in DOMAIN space \ DOMAIN space' : DOMAIN space[u].pages = {},
           \A u \in DOMAIN space' \ DOMAIN space : DOMAIN space'[u].pages = {}
    PROVE  HeldPages' = HeldPages
<1>1. \A x : x \in HeldPages' <=> x \in HeldPages
  BY PageHolders, PageHoldersNext
<1> QED
  BY <1>1

LEMMA EmptyTables ==
    ASSUME \A u \in DOMAIN space \cap DOMAIN space' : space'[u].tables = space[u].tables,
           \A u \in DOMAIN space \ DOMAIN space' : DOMAIN space[u].tables = {},
           DOMAIN space' \subseteq DOMAIN space
    PROVE  HeldTables' = HeldTables
<1>1. \A x : x \in HeldTables' <=> x \in HeldTables
  BY TableHolders, TableHoldersNext
<1> QED
  BY <1>1

(* A table is entered into a page map, or taken out of it. *)
LEMMA TableAdded ==
    ASSUME NEW s \in DOMAIN space, NEW p, NEW g, DOMAIN space' = DOMAIN space,
           \A u \in DOMAIN space \ {s} : space'[u] = space[u],
           space'[s].tables = With(space[s].tables, p, g), p \notin DOMAIN space[s].tables
    PROVE  HeldTables' = HeldTables \cup {<<"table", <<s, p>>, {g}>>}
BY TableHolders, TableHoldersNext DEF With

LEMMA TableRemoved ==
    ASSUME NEW s \in DOMAIN space, NEW p \in DOMAIN space[s].tables, DOMAIN space' = DOMAIN space,
           \A u \in DOMAIN space \ {s} : space'[u] = space[u],
           space'[s].tables = Without(space[s].tables, p)
    PROVE  /\ HeldTables' = HeldTables \ {<<"table", <<s, p>>, {space[s].tables[p]}>>}
           /\ <<"table", <<s, p>>, {space[s].tables[p]}>> \in HeldTables
BY TableHolders, TableHoldersNext DEF Without

(* A page is unmapped. *)
LEMMA PageRemoved ==
    ASSUME NEW s \in DOMAIN space, NEW v \in DOMAIN space[s].pages, DOMAIN space' = DOMAIN space,
           \A u \in DOMAIN space \ {s} : space'[u] = space[u],
           space'[s].pages = Without(space[s].pages, v)
    PROVE  /\ HeldPages' = HeldPages \ {<<"page", <<s, v>>, {space[s].pages[v]}>>}
           /\ <<"page", <<s, v>>, {space[s].pages[v]}>> \in HeldPages
BY PageHolders, PageHoldersNext DEF Without

(* The holdings of s at v, of which there is at most one. *)
PagesAt(s, v) == {<<"page", <<s, w>>, {space[s].pages[w]}>> : w \in DOMAIN space[s].pages \cap {v}}

(* A page is mapped, over what was mapped there. *)
LEMMA PageWritten ==
    ASSUME NEW s \in DOMAIN space, NEW v, NEW g, DOMAIN space' = DOMAIN space,
           \A u \in DOMAIN space \ {s} : space'[u] = space[u],
           space'[s].pages = With(space[s].pages, v, g)
    PROVE  PagesAt(s, v) \subseteq HeldPages /\ HeldPages' = (HeldPages \ PagesAt(s, v)) \cup {<<"page", <<s, v>>, {g}>>}
<1>1. PagesAt(s, v) \subseteq HeldPages
  BY PageHolders DEF PagesAt
<1>2. ASSUME NEW x
      PROVE  x \in HeldPages' <=> x \in (HeldPages \ PagesAt(s, v)) \cup {<<"page", <<s, v>>, {g}>>}
  BY PageHolders, PageHoldersNext DEF With, PagesAt
<1> QED
  BY <1>1, <1>2

(* Page maps keep their structures. *)
LEMMA StructsKept ==
    ASSUME DOMAIN space' = DOMAIN space, \A u \in DOMAIN space : space'[u].struct = space[u].struct,
           \A u \in Spaces : (call[u].op \in {"pml4", "undo"}) = (call'[u].op \in {"pml4", "undo"}),
           \A u \in Spaces : call[u].op \in {"pml4", "undo"} => call'[u].struct = call[u].struct
    PROVE  HeldStructs' = HeldStructs
BY DEF HeldStructs

(* What a call has left changes for one page map. *)
RestOps == {"alloc", "give_up", "fork", "copy"}

LEMMA RestsStep ==
    ASSUME NEW s \in Spaces, \A u \in Spaces \ {s} : call'[u] = call[u]
    PROVE  /\ call[s].op \in RestOps => <<"rest", s, Left(s)>> \in HeldRests
           /\ call[s].op \in RestOps /\ call'[s].op \in RestOps =>
                 HeldRests' = (HeldRests \ {<<"rest", s, Left(s)>>}) \cup {<<"rest", s, Left(s)'>>}
           /\ call[s].op \in RestOps /\ call'[s].op \notin RestOps =>
                 HeldRests' = HeldRests \ {<<"rest", s, Left(s)>>}
           /\ call[s].op \notin RestOps /\ call'[s].op \in RestOps =>
                 HeldRests' = HeldRests \cup {<<"rest", s, Left(s)'>>}
           /\ call[s].op \notin RestOps /\ call'[s].op \notin RestOps => HeldRests' = HeldRests
<1>1. \A u \in Spaces \ {s} : Left(u)' = Left(u)
  BY DEF Left
<1>2. \A x : x \in HeldRests <=> \E u \in Spaces : call[u].op \in RestOps /\ x = <<"rest", u, Left(u)>>
  BY DEF HeldRests, RestOps
<1>3. \A x : x \in HeldRests' <=> \E u \in Spaces : call'[u].op \in RestOps /\ x = <<"rest", u, Left(u)'>>
  BY DEF HeldRests, RestOps
<1>4. call[s].op \in RestOps => <<"rest", s, Left(s)>> \in HeldRests
  BY <1>2
<1>5. ASSUME call[s].op \in RestOps, call'[s].op \in RestOps
      PROVE  HeldRests' = (HeldRests \ {<<"rest", s, Left(s)>>}) \cup {<<"rest", s, Left(s)'>>}
  BY <1>1, <1>2, <1>3, <1>5
<1>6. ASSUME call[s].op \in RestOps, call'[s].op \notin RestOps
      PROVE  HeldRests' = HeldRests \ {<<"rest", s, Left(s)>>}
  BY <1>1, <1>2, <1>3, <1>6
<1>7. ASSUME call[s].op \notin RestOps, call'[s].op \in RestOps
      PROVE  HeldRests' = HeldRests \cup {<<"rest", s, Left(s)'>>}
  BY <1>1, <1>2, <1>3, <1>7
<1>8. ASSUME call[s].op \notin RestOps, call'[s].op \notin RestOps
      PROVE  HeldRests' = HeldRests
  BY <1>1, <1>2, <1>3, <1>8
<1> QED
  BY <1>4, <1>5, <1>6, <1>7, <1>8

-----------------------------------------------------------------------------
(***************************************************************************)
(* What a step on one page map leaves alone                                 *)
(***************************************************************************)

(* A call on another page map goes on as it was. *)
LEMMA CallKept ==
    ASSUME NEW u, CallSound(u), call'[u] = call[u], (u \in DOMAIN space') = (u \in DOMAIN space)
    PROVE  CallSound(u)'
BY DEF CallSound, NoCall, NewCall, PoolCall, AllocCall, ForkCall, FreeCall

(* Only call[s] changes, and with it perhaps the page map s. *)
CallStep(s) ==
    /\ \A u \in Spaces \ {s} : call'[u] = call[u] /\ ((u \in DOMAIN space') = (u \in DOMAIN space))
    /\ call' = [u \in Spaces |-> call'[u]]

(* The calls stay sound when the one that goes on does. *)
LEMMA CallsKept ==
    ASSUME CallsSound, NEW s \in Spaces, CallStep(s), CallSound(s)'
    PROVE  CallsSound'
BY CallKept DEF CallsSound, CallStep

(* Who is copied stays, unless the step begins a fork or a release. *)
LEMMA ParentsKept ==
    ASSUME ParentsStay, NEW s \in Spaces, CallStep(s), DOMAIN space \subseteq DOMAIN space',
           call'[s].op = "free" => call[s].op = "free",
           Forking(s)' => Forking(s) /\ call'[s].from = call[s].from
    PROVE  ParentsStay'
<1> SUFFICES ASSUME NEW u \in Spaces, Forking(u)'
             PROVE  /\ call'[u].from \in DOMAIN space' /\ call'[u].from \in Spaces
                    /\ call'[call'[u].from].op # "free"
  BY DEF ParentsStay
<1>1. Forking(u) /\ call'[u].from = call[u].from
  BY DEF CallStep, Forking
<1>2. call[u].from \in DOMAIN space /\ call[u].from \in Spaces /\ call[call[u].from].op # "free"
  BY <1>1 DEF ParentsStay
<1> QED
  BY <1>1, <1>2 DEF CallStep

-----------------------------------------------------------------------------
(***************************************************************************)
(* The heap                                                                 *)
(***************************************************************************)
LEMMA TakeFailed == ToSet(Failed) = {}
BY DEF ToSet, Failed

(* A new block is well formed. *)
LEMMA NewBlock ==
    ASSUME NEW size \in Nat \ {0}, NEW use, NEW p \in pmm_alloc(PagesFor(size) + 1, use), p # Failed
    PROVE  /\ IsBlock(Block(p, size)) /\ Block(p, size).at = p
           /\ ToSet(p) \cap owned = {}
<1>1. PagesFor(size) \in Nat
  BY RoomFor
<1>2. IsPages(p, PagesFor(size) + 1) /\ ToSet(p) \cap owned = {}
  BY <1>1, Allocated
<1> QED
  BY <1>2 DEF IsBlock, Block

(* All of a block is freed. *)
LEMMA BlockFreed ==
    ASSUME NEW b, IsBlock(b), FreeBlock(b)
    PROVE  owned' = owned \ ToSet(b.at)
<1>1. b.pages \in Nat
  BY RoomFor DEF IsBlock
<1>2. b.at \in Seq(ToSet(b.at)) /\ Len(b.at) = b.pages + 1
  BY DEF IsBlock, IsPages
<1>3. SubSeq(b.at, 1, b.pages + 1) = b.at
  BY <1>1, <1>2, SubSeqFull
<1> QED
  BY <1>3 DEF FreeBlock, pmm_free

(* Steps of the heap do not touch page maps. *)
LEMMA HeapFrame ==
    ASSUME Shapes, UNCHANGED <<space, call>>, HeapSound'
    PROVE  Shapes'
<1>1. SpacesSound'
  BY DEF Shapes, SpacesSound
<1>2. CallsSound'
  BY CallKept DEF Shapes, CallsSound
<1>3. ParentsStay'
  BY DEF Shapes, ParentsStay, Forking
<1> QED
  BY <1>1, <1>2, <1>3 DEF Shapes

(* What a step of the heap does to the holdings. *)
LEMMA HeapHoldings ==
    ASSUME UNCHANGED <<space, call>>
    PROVE  /\ HeldBlocks' = HeldBlocks => Holdings' = Holdings
           /\ \A x : HeldBlocks' = HeldBlocks \cup {x} => Holdings' = Holdings \cup {x}
           /\ \A x : x[1] = "heap" /\ HeldBlocks' = HeldBlocks \ {x} => Holdings' = Holdings \ {x}
           /\ \A x, y : x[1] = "heap" /\ HeldBlocks' = (HeldBlocks \ {x}) \cup {y} =>
                 Holdings' = (Holdings \ {x}) \cup {y}
BY SpacesKept, Kinds DEF Holdings

(* A failed kalloc changes nothing, another one adds a block. *)
LEMMA kallocGood ==
    ASSUME Good, NEW size \in Sizes, kalloc(size)
    PROVE  Good'
<1>1. PICK p \in pmm_alloc(PagesFor(size) + 1, <<NULL, "heap", size>>) :
        Take(p) /\ heap' = IF p = Failed THEN heap ELSE heap \cup {Block(p, size)}
  BY DEF kalloc
<1>2. UNCHANGED <<moving, space, call, dropped>> /\ size \in Nat \ {0}
  BY MemoryAssumption DEF kalloc
<1>3. CASE p = Failed
  <2>1. owned' = owned /\ heap' = heap
    BY <1>1, <1>3, TakeFailed DEF Take
  <2>2. HeapSound' /\ Holdings' = Holdings
    BY <1>2, <2>1, BlocksKept, HeapHoldings DEF Good, Shapes, HeapSound
  <2> QED
    BY <1>2, <2>1, <2>2, HeapFrame DEF Good
<1>4. CASE p # Failed
  <2> DEFINE b == Block(p, size)
             x == <<"heap", b, ToSet(p)>>
  <2>1. IsBlock(b) /\ b.at = p /\ ToSet(p) \cap owned = {}
    BY <1>2, <1>4, NewBlock
  <2>2. heap' = heap \cup {b} /\ owned' = owned \cup ToSet(p)
    BY <1>1, <1>4 DEF Take
  <2> HIDE DEF b
  <2>3. HeapSound'
    BY <1>2, <2>1, <2>2 DEF Good, Shapes, HeapSound
  <2>4. HeldBlocks' = HeldBlocks \cup {x}
    BY <2>1, <2>2 DEF HeldBlocks
  <2>5. Holdings' = Holdings \cup {x}
    BY <1>2, <2>4, HeapHoldings
  <2>6. Sound(Holdings \cup {x}, owned \cup x[3], dropped)
    BY <2>1, SoundAdd DEF Good
  <2> QED
    BY <1>2, <2>2, <2>3, <2>5, <2>6, HeapFrame DEF Good
<1> QED
  BY <1>3, <1>4

(* A block that leaves the heap takes its pages with it. *)
LEMMA BlockLeaves ==
    ASSUME Good, NEW b \in heap, FreeBlock(b), heap' = heap \ {b}, UNCHANGED <<space, call, dropped>>,
           moving' \subseteq heap'
    PROVE  Good'
<1> DEFINE x == <<"heap", b, ToSet(b.at)>>
<1>1. x \in HeldBlocks /\ HeldBlocks' = HeldBlocks \ {x}
  BY DEF HeldBlocks
<1>2. x \in Holdings /\ Holdings' = Holdings \ {x}
  BY <1>1, HeapHoldings DEF Holdings
<1>3. owned' = owned \ x[3]
  BY BlockFreed DEF Good, Shapes, HeapSound
<1>4. Sound(Holdings \ {x}, owned \ x[3], dropped)
  BY <1>2, SoundRemove DEF Good
<1>5. HeapSound'
  BY DEF Good, Shapes, HeapSound
<1> QED
  BY <1>2, <1>3, <1>4, <1>5, HeapFrame DEF Good

(* kfree gives back all pages of its block. *)
LEMMA kfreeGood ==
    ASSUME Good, NEW b \in heap, kfree(b)
    PROVE  Good'
BY BlockLeaves DEF kfree, Good, Shapes, HeapSound

LEMMA KreallocFreeGood ==
    ASSUME Good, NEW b \in moving, KreallocFree(b)
    PROVE  Good'
BY BlockLeaves DEF KreallocFree, Good, Shapes, HeapSound

(* The block stays when krealloc keeps its number of pages. *)
LEMMA KreallocInPlaceGood ==
    ASSUME Good, NEW b \in heap, NEW size \in Sizes, KreallocInPlace(b, size)
    PROVE  Good'
<1> DEFINE c == [b EXCEPT !.size = size]
           x == <<"heap", b, ToSet(b.at)>>
           y == <<"heap", c, ToSet(c.at)>>
<1>1. IsBlock(b) /\ size \in Nat \ {0} /\ PagesFor(b.size) = PagesFor(size)
  BY MemoryAssumption DEF KreallocInPlace, Good, Shapes, HeapSound
<1>2. c = [at |-> b.at, pages |-> b.pages, size |-> size]
  BY <1>1 DEF IsBlock
<1>3. IsBlock(c) /\ c.at = b.at
  BY <1>1, <1>2 DEF IsBlock
<1>4. heap' = (heap \ {b}) \cup {c} /\ b \notin moving /\ UNCHANGED <<owned, moving, space, call, dropped>>
  BY DEF KreallocInPlace
<1> HIDE DEF c
<1>5. HeapSound'
  BY <1>3, <1>4 DEF Good, Shapes, HeapSound
<1>6. x \in HeldBlocks /\ HeldBlocks' = (HeldBlocks \ {x}) \cup {y}
  BY <1>4 DEF HeldBlocks
<1>7. x \in Holdings /\ Holdings' = (Holdings \ {x}) \cup {y}
  <2>1. x \in Holdings
    BY <1>6 DEF Holdings
  <2>2. x[1] = "heap"
    OBVIOUS
  <2> HIDE DEF x, y
  <2> QED
    BY <1>4, <1>6, <2>1, <2>2, HeapHoldings
<1>8. Sound((Holdings \ {x}) \cup {y}, owned, dropped)
  BY <1>3, <1>7, SoundReplace DEF Good
<1> QED
  BY <1>4, <1>5, <1>7, <1>8, HeapFrame DEF Good

(* krealloc holds the old and the new block while it copies. *)
LEMMA KreallocMoveGood ==
    ASSUME Good, NEW b \in heap, NEW size \in Sizes, KreallocMove(b, size)
    PROVE  Good'
<1>1. PICK p \in pmm_alloc(PagesFor(size) + 1, <<NULL, "heap", size>>) :
        /\ Take(p)
        /\ IF p = Failed THEN UNCHANGED <<heap, moving>>
           ELSE heap' = heap \cup {Block(p, size)} /\ moving' = {b}
  BY DEF KreallocMove
<1>2. UNCHANGED <<space, call, dropped>> /\ size \in Nat \ {0}
  BY MemoryAssumption DEF KreallocMove
<1>3. CASE p = Failed
  <2>1. owned' = owned /\ UNCHANGED <<heap, moving>>
    BY <1>1, <1>3, TakeFailed DEF Take
  <2>2. HeapSound' /\ Holdings' = Holdings
    BY <1>2, <2>1, BlocksKept, HeapHoldings DEF Good, Shapes, HeapSound
  <2> QED
    BY <1>2, <2>1, <2>2, HeapFrame DEF Good
<1>4. CASE p # Failed
  <2> DEFINE c == Block(p, size)
             x == <<"heap", c, ToSet(p)>>
  <2>1. IsBlock(c) /\ c.at = p /\ ToSet(p) \cap owned = {}
    BY <1>2, <1>4, NewBlock
  <2>2. heap' = heap \cup {c} /\ moving' = {b} /\ owned' = owned \cup ToSet(p)
    BY <1>1, <1>4 DEF Take
  <2> HIDE DEF c
  <2>3. HeapSound'
    BY <2>1, <2>2 DEF Good, Shapes, HeapSound
  <2>4. HeldBlocks' = HeldBlocks \cup {x}
    BY <2>1, <2>2 DEF HeldBlocks
  <2>5. Holdings' = Holdings \cup {x}
    BY <1>2, <2>4, HeapHoldings
  <2>6. Sound(Holdings \cup {x}, owned \cup x[3], dropped)
    BY <2>1, SoundAdd DEF Good
  <2> QED
    BY <1>2, <2>2, <2>3, <2>5, <2>6, HeapFrame DEF Good
<1> QED
  BY <1>3, <1>4

-----------------------------------------------------------------------------
(***************************************************************************)
(* Page maps and the calls on them                                          *)
(***************************************************************************)

(* A failed allocation that the code notices changes nothing. *)
LEMMA NothingChanged ==
    ASSUME Good, UNCHANGED <<owned, heap, moving, space, call, dropped>>
    PROVE  Good'
<1>1. HeapSound' /\ Holdings' = Holdings
  BY BlocksKept, HeapHoldings DEF Good, Shapes, HeapSound
<1> QED
  BY <1>1, HeapFrame DEF Good

(* The place of a call tells which locals it has. *)
LEMMA CallCases ==
    ASSUME NEW s, CallSound(s)
    PROVE  /\ call[s].op = "none" => call[s] = Idle
           /\ call[s].op \in {"pml4", "undo"} => NewCall(s)
           /\ call[s].op = "pool" => PoolCall(s)
           /\ call[s].op \in {"alloc", "give_up"} => AllocCall(s)
           /\ call[s].op \in {"fork", "copy"} => ForkCall(s)
           /\ call[s].op = "free" => FreeCall(s)
BY DEF CallSound, NoCall, NewCall, PoolCall, AllocCall, ForkCall, FreeCall, Idle

(* The call on one page map changes. *)
LEMMA CallSet ==
    ASSUME SpacesSound, NEW s \in Spaces, NEW c, call' = [call EXCEPT ![s] = c]
    PROVE  /\ call'[s] = c /\ \A u \in Spaces \ {s} : call'[u] = call[u]
           /\ call' = [u \in Spaces |-> call'[u]]
BY DEF SpacesSound

(* One page map changes. *)
LEMMA SpaceSet ==
    ASSUME SpacesSound, NEW s \in DOMAIN space, NEW m, space' = [space EXCEPT ![s] = m], IsSpace(m),
           call' = [u \in Spaces |-> call'[u]]
    PROVE  /\ SpacesSound' /\ DOMAIN space' = DOMAIN space /\ space'[s] = m
           /\ \A u \in DOMAIN space \ {s} : space'[u] = space[u]
<1>1. DOMAIN space' = DOMAIN space /\ space'[s] = m /\ \A u \in DOMAIN space \ {s} : space'[u] = space[u]
  BY DEF SpacesSound
<1>2. space' = [u \in DOMAIN space |-> space'[u]]
  OBVIOUS
<1>3. \A u \in DOMAIN space : IsSpace(space'[u])
  BY <1>1 DEF SpacesSound
<1> HIDE DEF SpacesSound
<1>4. \A u \in DOMAIN space : IsSpace(space[u])'
  BY <1>3 DEF IsSpace, IsBlock, IsPages, PagesFor
<1> QED
  BY <1>1, <1>2, <1>4 DEF SpacesSound

(* Only the call on s changes. *)
LEMMA CallShapes ==
    ASSUME Shapes, NEW s \in Spaces, NEW c, call' = [call EXCEPT ![s] = c], UNCHANGED <<heap, moving, space>>,
           CallSound(s)', ParentsStay'
    PROVE  Shapes'
<1>1. CallStep(s)
  BY CallSet DEF Shapes, CallStep
<1>2. CallsSound'
  BY <1>1, CallsKept DEF Shapes
<1>3. SpacesSound'
  BY CallSet DEF Shapes, SpacesSound
<1>4. HeapSound'
  BY DEF Shapes, HeapSound
<1> QED
  BY <1>2, <1>3, <1>4 DEF Shapes

(* A step that leaves tables and mapped pages alone. *)
LEMMA CallHoldings ==
    ASSUME UNCHANGED <<heap, space>>
    PROVE  /\ HeldBlocks' = HeldBlocks /\ HeldTables' = HeldTables /\ HeldPages' = HeldPages
           /\ Holdings' = HeldBlocks \cup HeldStructs' \cup HeldTables \cup HeldPages \cup HeldRests'
BY DEF Holdings, HeldBlocks, HeldTables, HeldPages

(* Nothing of what is allocated for a call has been used. *)
LEMMA LeftAll ==
    ASSUME NEW s, NEW n \in Nat, IsPages(call'[s].ptr, n), call'[s].done = 0
    PROVE  Left(s)' = ToSet(call'[s].ptr)
<1>1. Len(call'[s].ptr) = n /\ DOMAIN call'[s].ptr = 1 .. n
  BY LenProperties DEF IsPages
<1> QED
  BY <1>1 DEF Left, ToSet

(* new_address_space holds the structure it has allocated. *)
LEMMA NewStructGood ==
    ASSUME Good, NEW s \in Spaces, NEW from \in (Spaces \ {s}) \cup {NULL}, NewStruct(s, from)
    PROVE  Good'
<1>1. PICK p \in pmm_alloc(PagesFor(STRUCT) + 1, <<s, "struct">>) :
        /\ Take(p)
        /\ call' = IF p = Failed THEN call
                   ELSE [call EXCEPT ![s] = [op |-> "pml4", from |-> from, struct |-> Block(p, STRUCT)]]
  BY DEF NewStruct
<1>2. /\ UNCHANGED <<heap, moving, space, dropped>> /\ STRUCT \in Nat \ {0}
      /\ s \notin DOMAIN space /\ call[s] = Idle
      /\ from # NULL => from \in DOMAIN space /\ call[from].op # "free"
  BY MemoryAssumption DEF NewStruct
<1>3. CASE p = Failed
  BY <1>1, <1>2, <1>3, TakeFailed, NothingChanged DEF Take
<1>4. CASE p # Failed
  <2> DEFINE b == Block(p, STRUCT)
             c == [op |-> "pml4", from |-> from, struct |-> b]
             x == <<"struct", s, ToSet(p)>>
  <2>1. IsBlock(b) /\ b.at = p /\ ToSet(p) \cap owned = {}
    BY <1>2, <1>4, NewBlock
  <2>2. call' = [call EXCEPT ![s] = c] /\ owned' = owned \cup ToSet(p)
    BY <1>1, <1>4 DEF Take
  <2> HIDE DEF b
  <2>3. call'[s] = c /\ \A u \in Spaces \ {s} : call'[u] = call[u]
    BY <2>2, CallSet DEF Good, Shapes
  <2>4. CallSound(s)'
    BY <1>2, <2>1, <2>3 DEF CallSound, NewCall, IsBlock, IsPages, PagesFor
  <2>5. ParentsStay'
    BY <1>2, <2>3 DEF Good, Shapes, ParentsStay, Forking, Idle
  <2>6. Shapes'
    BY <1>2, <2>2, <2>4, <2>5, CallShapes DEF Good
  <2>7. HeldStructs' = HeldStructs \cup {x}
    BY <1>2, <2>1, <2>3 DEF HeldStructs, Idle
  <2>8. HeldRests' = HeldRests
    <3>1. call[s].op \notin RestOps /\ call'[s].op \notin RestOps
      BY <1>2, <2>3 DEF RestOps, Idle
    <3> QED
      BY <2>3, <3>1, RestsStep
  <2>9. Holdings' = Holdings \cup {x}
    BY <1>2, <2>7, <2>8, CallHoldings DEF Holdings
  <2>10. Sound(Holdings \cup {x}, owned \cup x[3], dropped)
    BY <2>1, SoundAdd DEF Good
  <2> QED
    BY <1>2, <2>2, <2>6, <2>9, <2>10 DEF Good
<1> QED
  BY <1>3, <1>4

(* new_address_space frees the structure again when it gets no table. *)
LEMMA NewUndoneGood ==
    ASSUME Good, NEW s \in Spaces, NewUndone(s)
    PROVE  Good'
<1> DEFINE x == <<"struct", s, ToSet(call[s].struct.at)>>
<1>1. /\ UNCHANGED <<heap, moving, space, dropped>> /\ call[s].op = "undo" /\ FreeBlock(call[s].struct)
      /\ call' = [call EXCEPT ![s] = Idle]
  BY DEF NewUndone
<1>2. NewCall(s)
  BY <1>1, CallCases DEF Good, Shapes, CallsSound
<1>3. call'[s] = Idle /\ \A u \in Spaces \ {s} : call'[u] = call[u]
  BY <1>1, CallSet DEF Good, Shapes
<1>4. CallSound(s)' /\ CallStep(s)
  BY <1>1, <1>3, CallSet DEF CallSound, NoCall, CallStep, Good, Shapes
<1>5. ParentsStay'
  BY <1>1, <1>3, <1>4, ParentsKept DEF Good, Shapes, Forking, Idle
<1>6. Shapes'
  BY <1>1, <1>4, <1>5, CallShapes DEF Good
<1>7. x \in HeldStructs /\ HeldStructs' = HeldStructs \ {x}
  BY <1>1, <1>2, <1>3 DEF HeldStructs, Idle, NewCall
<1>8. HeldRests' = HeldRests
  <2>1. call[s].op \notin RestOps /\ call'[s].op \notin RestOps
    BY <1>1, <1>3 DEF RestOps, Idle
  <2> QED
    BY <1>3, <2>1, RestsStep
<1>9. x \in Holdings /\ Holdings' = Holdings \ {x}
  BY <1>1, <1>7, <1>8, CallHoldings, Kinds DEF Holdings
<1>10. owned' = owned \ x[3]
  BY <1>1, <1>2, BlockFreed DEF NewCall
<1>11. Sound(Holdings \ {x}, owned \ x[3], dropped)
  BY <1>9, SoundRemove DEF Good
<1> QED
  BY <1>1, <1>6, <1>9, <1>10, <1>11 DEF Good

(* The same before the step. *)
LEMMA LeftAllNow ==
    ASSUME NEW s, NEW n \in Nat, IsPages(call[s].ptr, n), call[s].done = 0
    PROVE  Left(s) = ToSet(call[s].ptr)
<1>1. Len(call[s].ptr) = n /\ DOMAIN call[s].ptr = 1 .. n
  BY LenProperties DEF IsPages
<1> QED
  BY <1>1 DEF Left, ToSet

(* A call begins, goes on or ends with the page map already there. *)
LEMMA StructsUntouched ==
    ASSUME NEW s \in Spaces, space' = space, \A u \in Spaces \ {s} : call'[u] = call[u],
           call[s].op \notin {"pml4", "undo"}, call'[s].op \notin {"pml4", "undo"}
    PROVE  HeldStructs' = HeldStructs
BY StructsKept

(* syscall_alloc_at holds the pages it has allocated. *)
LEMMA alloc_atGood ==
    ASSUME Good, NEW s \in Spaces, NEW range \in Ranges, syscall_alloc_at(s, range)
    PROVE  Good'
<1>1. PICK p \in pmm_alloc(Len(range), <<s, "data">>) :
        /\ Take(p)
        /\ call' = IF p = Failed THEN call
                   ELSE [call EXCEPT ![s] = [op |-> "alloc", range |-> range, i |-> 1, ptr |-> p, done |-> 0]]
  BY DEF syscall_alloc_at
<1>2. UNCHANGED <<heap, moving, space, dropped>> /\ s \in DOMAIN space /\ call[s] = Idle
  BY DEF syscall_alloc_at
<1>3. range \in Seq(Seq(Nat)) /\ Len(range) > 0
  BY MemoryAssumption
<1>4. Len(range) \in Nat \ {0}
  BY <1>3, LenProperties
<1>5. CASE p = Failed
  BY <1>1, <1>2, <1>5, TakeFailed, NothingChanged DEF Take
<1>6. CASE p # Failed
  <2> DEFINE c == [op |-> "alloc", range |-> range, i |-> 1, ptr |-> p, done |-> 0]
             x == <<"rest", s, ToSet(p)>>
  <2>1. IsPages(p, Len(range)) /\ ToSet(p) \cap owned = {}
    BY <1>4, <1>6, Allocated
  <2>2. call' = [call EXCEPT ![s] = c] /\ owned' = owned \cup ToSet(p)
    BY <1>1, <1>6 DEF Take
  <2>3. call'[s] = c /\ \A u \in Spaces \ {s} : call'[u] = call[u]
    BY <2>2, CallSet DEF Good, Shapes
  <2>4. CallStep(s)
    BY <1>2, <2>2, CallSet DEF CallStep, Good, Shapes
  <2>5. CallSound(s)'
    BY <1>2, <1>4, <2>1, <2>3 DEF CallSound, AllocCall, IsPages
  <2>6. ParentsStay'
    BY <1>2, <2>3, <2>4, ParentsKept DEF Good, Shapes, Forking
  <2>7. Shapes'
    BY <1>2, <2>2, <2>5, <2>6, CallShapes DEF Good
  <2>8. /\ call[s].op \notin {"pml4", "undo"} /\ call'[s].op \notin {"pml4", "undo"}
        /\ call[s].op \notin RestOps /\ call'[s].op \in RestOps
    BY <1>2, <2>3 DEF Idle, RestOps
  <2>9. HeldStructs' = HeldStructs
    BY <1>2, <2>3, <2>8, StructsUntouched
  <2>10. Left(s)' = ToSet(p)
    BY <1>4, <2>1, <2>3, LeftAll
  <2>11. HeldRests' = HeldRests \cup {x}
    BY <2>3, <2>8, <2>10, RestsStep
  <2>12. Holdings' = Holdings \cup {x}
    BY <1>2, <2>9, <2>11, CallHoldings DEF Holdings
  <2>13. Sound(Holdings \cup {x}, owned \cup x[3], dropped)
    BY <2>1, SoundAdd DEF Good
  <2> QED
    BY <1>2, <2>2, <2>7, <2>12, <2>13 DEF Good
<1> QED
  BY <1>5, <1>6

(* fork_address_space holds the pool it has allocated. *)
LEMMA ForkPoolGood ==
    ASSUME Good, NEW s \in Spaces, ForkPool(s)
    PROVE  Good'
<1>1. PICK p \in pmm_alloc(POOL, <<s, "data">>) :
        /\ Take(p)
        /\ IF p = Failed THEN UNCHANGED call
           ELSE call' = [call EXCEPT ![s] = [op |-> "fork", from |-> @.from, range |-> <<>>, i |-> 1,
                                             ptr |-> p, done |-> 0]]
  BY DEF ForkPool
<1>2. UNCHANGED <<heap, moving, space, dropped>> /\ call[s].op = "pool"
  BY DEF ForkPool
<1>3. PoolCall(s)
  BY <1>2, CallCases DEF Good, Shapes, CallsSound
<1>4. POOL \in Nat \ {0}
  BY MemoryAssumption
<1>5. CASE p = Failed
  BY <1>1, <1>2, <1>5, TakeFailed, NothingChanged DEF Take
<1>6. CASE p # Failed
  <2> DEFINE c == [op |-> "fork", from |-> call[s].from, range |-> <<>>, i |-> 1, ptr |-> p, done |-> 0]
             x == <<"rest", s, ToSet(p)>>
  <2>1. IsPages(p, POOL) /\ ToSet(p) \cap owned = {}
    BY <1>4, <1>6, Allocated
  <2>2. call' = [call EXCEPT ![s] = c] /\ owned' = owned \cup ToSet(p)
    BY <1>1, <1>6 DEF Take
  <2>3. call'[s] = c /\ \A u \in Spaces \ {s} : call'[u] = call[u]
    BY <2>2, CallSet DEF Good, Shapes
  <2>4. CallStep(s)
    BY <1>2, <2>2, CallSet DEF CallStep, Good, Shapes
  <2>5. CallSound(s)'
    BY <1>2, <1>3, <1>4, <2>1, <2>3 DEF CallSound, ForkCall, PoolCall, IsPages
  <2>6. ParentsStay'
    BY <1>2, <1>3, <2>3, <2>4, ParentsKept DEF Good, Shapes, Forking, PoolCall
  <2>7. Shapes'
    BY <1>2, <2>2, <2>5, <2>6, CallShapes DEF Good
  <2>8. /\ call[s].op \notin {"pml4", "undo"} /\ call'[s].op \notin {"pml4", "undo"}
        /\ call[s].op \notin RestOps /\ call'[s].op \in RestOps
    BY <1>2, <2>3 DEF RestOps
  <2>9. HeldStructs' = HeldStructs
    BY <1>2, <2>3, <2>8, StructsUntouched
  <2>10. Left(s)' = ToSet(p)
    BY <1>4, <2>1, <2>3, LeftAll
  <2>11. HeldRests' = HeldRests \cup {x}
    BY <2>3, <2>8, <2>10, RestsStep
  <2>12. Holdings' = Holdings \cup {x}
    BY <1>2, <2>9, <2>11, CallHoldings DEF Holdings
  <2>13. Sound(Holdings \cup {x}, owned \cup x[3], dropped)
    BY <2>1, SoundAdd DEF Good
  <2> QED
    BY <1>2, <2>2, <2>7, <2>12, <2>13 DEF Good
<1> QED
  BY <1>5, <1>6

(* A call ends and what it had left is freed. *)
LEMMA RestFreed ==
    ASSUME Good, NEW s \in Spaces, call[s].op \in RestOps, call' = [call EXCEPT ![s] = Idle],
           owned' = owned \ Left(s), UNCHANGED <<heap, moving, space, dropped>>
    PROVE  Good'
<1> DEFINE x == <<"rest", s, Left(s)>>
<1>1. call'[s] = Idle /\ \A u \in Spaces \ {s} : call'[u] = call[u]
  BY CallSet DEF Good, Shapes
<1>2. CallSound(s)' /\ CallStep(s)
  BY <1>1, CallSet DEF CallSound, NoCall, CallStep, Good, Shapes
<1>3. ParentsStay'
  BY <1>1, <1>2, ParentsKept DEF Good, Shapes, Forking, Idle
<1>4. Shapes'
  BY <1>2, <1>3, CallShapes DEF Good
<1>5. /\ call[s].op \notin {"pml4", "undo"} /\ call'[s].op \notin {"pml4", "undo"}
      /\ call'[s].op \notin RestOps
  BY <1>1 DEF Idle, RestOps
<1>6. HeldStructs' = HeldStructs
  BY <1>1, <1>5, StructsUntouched
<1>7. x \in HeldRests /\ HeldRests' = HeldRests \ {x}
  BY <1>1, <1>5, RestsStep
<1>8. x \in Holdings /\ Holdings' = Holdings \ {x}
  BY <1>6, <1>7, CallHoldings, Kinds DEF Holdings
<1>9. Sound(Holdings \ {x}, owned \ x[3], dropped)
  BY <1>8, SoundRemove DEF Good
<1> QED
  BY <1>4, <1>8, <1>9 DEF Good

(* A range is freed as a whole, which is what is left of it if no page was
   mapped.  Otherwise mapped pages are freed and the model ends. *)
LEMMA GiveUpGood ==
    ASSUME Good, NEW s \in Spaces, GiveUp(s), Runs'
    PROVE  Good'
<1>1. /\ UNCHANGED <<heap, moving, space, dropped>> /\ call[s].op = "give_up"
      /\ call' = [call EXCEPT ![s] = Idle] /\ owned' = owned \ ToSet(call[s].ptr)
      /\ ~(call[s].done > 0)
  BY DEF GiveUp, pmm_free, Runs
<1>2. AllocCall(s)
  BY <1>1, CallCases DEF Good, Shapes, CallsSound
<1>3. call[s].range \in Seq(Seq(Nat))
  BY <1>2, MemoryAssumption DEF AllocCall
<1>4. Len(call[s].range) \in Nat /\ call[s].done = 0
  BY <1>1, <1>2, <1>3, LenProperties DEF AllocCall
<1>5. Left(s) = ToSet(call[s].ptr)
  BY <1>2, <1>4, LeftAllNow DEF AllocCall
<1> QED
  BY <1>1, <1>5, RestFreed DEF RestOps

(* What is freed of the pool is what is left of it. *)
LEMMA ForkEndGood ==
    ASSUME Good, NEW s \in Spaces, ForkEnd(s)
    PROVE  Good'
<1>1. /\ UNCHANGED <<heap, moving, space, dropped>> /\ call[s].op = "fork"
      /\ call' = [call EXCEPT ![s] = Idle] /\ owned' = owned \ ToSet(Rest(s))
  BY DEF ForkEnd, pmm_free
<1>2. ForkCall(s)
  BY <1>1, CallCases DEF Good, Shapes, CallsSound
<1> DEFINE q == call[s].ptr
           n == call[s].done
<1>3. q \in Seq(ToSet(q)) /\ Len(q) = POOL /\ n \in 0 .. POOL /\ POOL \in Nat
  BY <1>2, MemoryAssumption DEF ForkCall, IsPages
<1>4. /\ SubSeq(q, n + 1, POOL) \in Seq(ToSet(q)) /\ Len(SubSeq(q, n + 1, POOL)) = POOL - n
      /\ \A i \in 1 .. POOL - n : SubSeq(q, n + 1, POOL)[i] = q[n + i]
  <2>1. \A i \in n + 1 .. POOL : q[i] \in ToSet(q)
    BY <1>3, LenProperties DEF ToSet
  <2>2. n + 1 \in Int /\ POOL \in Int /\ (n + 1 <= POOL \/ POOL - n = 0) /\ POOL - (n + 1) + 1 = POOL - n
    BY <1>3
  <2>3. \A i \in 1 .. POOL - n : (n + 1) + i - 1 = n + i
    BY <1>3
  <2> HIDE DEF q, n
  <2>4. /\ SubSeq(q, n + 1, POOL) \in Seq(ToSet(q))
        /\ Len(SubSeq(q, n + 1, POOL)) = IF n + 1 <= POOL THEN POOL - (n + 1) + 1 ELSE 0
        /\ \A i \in 1 .. POOL - (n + 1) + 1 : SubSeq(q, n + 1, POOL)[i] = q[(n + 1) + i - 1]
    BY <2>1, <2>2, SubSeqProperties
  <2> QED
    BY <2>2, <2>3, <2>4
<1>5. DOMAIN SubSeq(q, n + 1, POOL) = 1 .. POOL - n
  BY <1>4, LenProperties
<1>6. ToSet(SubSeq(q, n + 1, POOL)) = {q[n + i] : i \in 1 .. POOL - n}
  BY <1>4, <1>5 DEF ToSet
<1>7. {q[n + i] : i \in 1 .. POOL - n} = {q[j] : j \in n + 1 .. POOL}
  <2>1. \A j \in n + 1 .. POOL : j - n \in 1 .. POOL - n /\ n + (j - n) = j
    BY <1>3
  <2>2. \A i \in 1 .. POOL - n : n + i \in n + 1 .. POOL
    BY <1>3
  <2> QED
    BY <2>1, <2>2
<1>8. Left(s) = ToSet(Rest(s))
  BY <1>3, <1>6, <1>7 DEF Left, Rest
<1> QED
  BY <1>1, <1>8, RestFreed DEF RestOps

(* The next page to copy does not change what is held. *)
LEMMA ForkCopyGood ==
    ASSUME Good, NEW s \in Spaces, ForkCopy(s)
    PROVE  Good'
<1>1. UNCHANGED <<owned, heap, moving, space, dropped>> /\ call[s].op = "fork"
  BY DEF ForkCopy
<1>2. ForkCall(s)
  BY <1>1, CallCases DEF Good, Shapes, CallsSound
<1>3. CASE call[s].done = POOL
  BY <1>1, <1>3, NothingChanged DEF ForkCopy
<1>4. CASE call[s].done # POOL
  <2>1. PICK v \in Ahead(s) : call' = [call EXCEPT ![s].op = "copy", ![s].range = <<v>>]
    BY <1>4 DEF ForkCopy
  <2>2. Forking(s)
    BY <1>1, <1>2 DEF Forking, ForkCall
  <2>3. call[s].from \in DOMAIN space
    BY <2>2 DEF Good, Shapes, ParentsStay
  <2>4. v \in Address
    BY <2>3 DEF Ahead, Good, Shapes, SpacesSound, IsSpace
  <2> DEFINE c == [op |-> "copy", from |-> call[s].from, range |-> <<v>>, i |-> call[s].i,
                   ptr |-> call[s].ptr, done |-> call[s].done]
  <2> DEFINE d == [op |-> "copy", from |-> call[s].from, range |-> call[s].range, i |-> call[s].i,
                   ptr |-> call[s].ptr, done |-> call[s].done]
  <2>5. [call[s] EXCEPT !.op = "copy"] = d /\ [d EXCEPT !.range = <<v>>] = c
    <3>1. [call[s] EXCEPT !.op = "copy"] = d
      BY <1>2 DEF ForkCall
    <3>2. [d EXCEPT !.range = <<v>>] = c
      OBVIOUS
    <3> QED
      BY <3>1, <3>2
  <2>6. call' = [call EXCEPT ![s] = c]
    <3>1. "op" \in DOMAIN call[s] /\ "range" \in DOMAIN call[s]
      BY <1>2 DEF ForkCall
    <3>2. call' = [call EXCEPT ![s] = [[call[s] EXCEPT !.op = "copy"] EXCEPT !.range = <<v>>]]
      BY <2>1, <3>1 DEF Good, Shapes, SpacesSound
    <3> QED
      BY <2>5, <3>2
  <2>7. call'[s] = c /\ (\A u \in Spaces \ {s} : call'[u] = call[u]) /\ CallStep(s)
    BY <1>1, <2>6, CallSet DEF CallStep, Good, Shapes
  <2>8. CallSound(s)'
    <3>1. /\ call[s].from # NULL /\ call[s].i = 1 /\ call[s].done \in 0 .. POOL
          /\ IsPages(call[s].ptr, POOL) /\ s \in DOMAIN space
      BY <1>2 DEF ForkCall
    <3>2. call[s].done < POOL
      BY <1>4, <3>1, MemoryAssumption
    <3>3. ForkCall(s)'
      BY ONLY <1>1, <2>4, <2>7, <3>1, <3>2 DEF ForkCall, IsPages, Address
    <3> QED
      BY <3>3 DEF CallSound
  <2>9. ParentsStay'
    BY <1>1, <2>2, <2>7, ParentsKept DEF Good, Shapes, Forking
  <2>10. Shapes'
    BY <1>1, <2>6, <2>8, <2>9, CallShapes DEF Good
  <2>11. /\ call[s].op \notin {"pml4", "undo"} /\ call'[s].op \notin {"pml4", "undo"}
         /\ call[s].op \in RestOps /\ call'[s].op \in RestOps
    BY <1>1, <2>7 DEF RestOps
  <2>12. HeldStructs' = HeldStructs
    BY <1>1, <2>7, <2>11, StructsUntouched
  <2>13. Left(s)' = Left(s)
    BY <2>7 DEF Left
  <2>14. HeldRests' = HeldRests
    <3>1. /\ <<"rest", s, Left(s)>> \in HeldRests
          /\ HeldRests' = (HeldRests \ {<<"rest", s, Left(s)>>}) \cup {<<"rest", s, Left(s)'>>}
      BY <2>7, <2>11, RestsStep
    <3> QED
      BY ONLY <2>13, <3>1
  <2> QED
    BY <1>1, <2>10, <2>12, <2>14, CallHoldings DEF Good, Holdings
<1> QED
  BY <1>3, <1>4

(* No page map is released while it is copied. *)
LEMMA FreeBeginGood ==
    ASSUME Good, NEW s \in Spaces, FreeBegin(s)
    PROVE  Good'
<1>1. /\ UNCHANGED <<owned, heap, moving, space, dropped>> /\ call[s] = Idle /\ s \in DOMAIN space
      /\ \A t \in Spaces : Forking(t) => call[t].from # s
      /\ call' = [call EXCEPT ![s] = [op |-> "free"]]
  BY DEF FreeBegin
<1>2. call'[s] = [op |-> "free"] /\ \A u \in Spaces \ {s} : call'[u] = call[u]
  BY <1>1, CallSet DEF Good, Shapes
<1>3. CallSound(s)'
  BY <1>1, <1>2 DEF CallSound, FreeCall
<1>4. ParentsStay'
  BY <1>1, <1>2 DEF Good, Shapes, ParentsStay, Forking
<1>5. Shapes'
  BY <1>1, <1>3, <1>4, CallShapes DEF Good
<1>6. /\ call[s].op \notin {"pml4", "undo"} /\ call'[s].op \notin {"pml4", "undo"}
      /\ call[s].op \notin RestOps /\ call'[s].op \notin RestOps
  BY <1>1, <1>2 DEF Idle, RestOps
<1>7. HeldStructs' = HeldStructs
  BY <1>1, <1>2, <1>6, StructsUntouched
<1>8. HeldRests' = HeldRests
  BY <1>2, <1>6, RestsStep
<1> QED
  BY <1>1, <1>5, <1>7, <1>8, CallHoldings DEF Good, Holdings

(* The new page map holds the structure and the first table. *)
LEMMA NewPml4Good ==
    ASSUME Good, NEW s \in Spaces, NewPml4(s)
    PROVE  Good'
<1>1. PICK p \in pmm_alloc(1, <<s, "table">>) :
        /\ Take(p)
        /\ IF p = Failed
           THEN call' = [call EXCEPT ![s].op = "undo"] /\ UNCHANGED space
           ELSE /\ space' = With(space, s, [struct |-> call[s].struct, tables |-> With(<<>>, <<>>, p[1]),
                                            pages |-> <<>>])
                /\ call' = [call EXCEPT ![s] = IF @.from = NULL THEN Idle ELSE [op |-> "pool", from |-> @.from]]
  BY DEF NewPml4
<1>2. UNCHANGED <<heap, moving, dropped>> /\ call[s].op = "pml4"
  BY DEF NewPml4
<1>3. NewCall(s)
  BY <1>2, CallCases DEF Good, Shapes, CallsSound
<1>4. CASE p = Failed
  <2> DEFINE c == [op |-> "undo", from |-> call[s].from, struct |-> call[s].struct]
  <2>1. [call[s] EXCEPT !.op = "undo"] = c
    BY <1>3 DEF NewCall
  <2>2. call' = [call EXCEPT ![s] = c] /\ space' = space /\ owned' = owned
    BY <1>1, <1>4, <2>1, TakeFailed DEF Take
  <2>3. call'[s] = c /\ (\A u \in Spaces \ {s} : call'[u] = call[u]) /\ CallStep(s)
    BY <2>2, CallSet DEF CallStep, Good, Shapes
  <2>4. CallSound(s)'
    BY <1>3, <2>2, <2>3 DEF CallSound, NewCall, IsBlock, IsPages, PagesFor
  <2>5. ParentsStay'
    BY <1>2, <2>2, <2>3, ParentsKept DEF Good, Shapes, Forking
  <2>6. Shapes'
    BY <1>2, <2>2, <2>4, <2>5, CallShapes DEF Good
  <2>7. HeldStructs' = HeldStructs
    BY <1>2, <2>2, <2>3, StructsKept
  <2>8. HeldRests' = HeldRests
    <3>1. call[s].op \notin RestOps /\ call'[s].op \notin RestOps
      BY <1>2, <2>3 DEF RestOps
    <3> QED
      BY <2>3, <3>1, RestsStep
  <2> QED
    BY <1>2, <2>2, <2>6, <2>7, <2>8, CallHoldings DEF Good, Holdings
<1>5. CASE p # Failed
  <2> DEFINE g == p[1]
             m == [struct |-> call[s].struct, tables |-> With(<<>>, <<>>, g), pages |-> <<>>]
             c == IF call[s].from = NULL THEN Idle ELSE [op |-> "pool", from |-> call[s].from]
             x == <<"table", <<s, <<>>>>, {g}>>
  <2>1. IsPages(p, 1) /\ ToSet(p) \cap owned = {} /\ g \in ToSet(p)
    BY <1>5, Allocated
  <2>2. ToSet(p) = {g}
    BY <2>1, LenProperties DEF ToSet, IsPages
  <2>3. space' = With(space, s, m) /\ call' = [call EXCEPT ![s] = c] /\ owned' = owned \cup {g}
    BY <1>1, <1>5, <2>2 DEF Take
  <2>4. /\ DOMAIN space' = DOMAIN space \cup {s} /\ space'[s] = m
        /\ \A u \in DOMAIN space : space'[u] = space[u]
        /\ space' = [u \in DOMAIN space' |-> space'[u]]
    BY <1>3, <2>3 DEF With, NewCall
  <2>5. call'[s] = c /\ (\A u \in Spaces \ {s} : call'[u] = call[u]) /\ call' = [u \in Spaces |-> call'[u]]
    BY <2>3, CallSet DEF Good, Shapes
  <2>6. CallStep(s)
    BY <2>4, <2>5 DEF CallStep
  <2>7. m.tables = [q \in {<<>>} |-> g] /\ m.pages = <<>> /\ DOMAIN m.pages = {} /\ DOMAIN m.tables = {<<>>}
    BY DEF With
  <2>8. IsSpace(m)
    BY <1>3, <2>7 DEF IsSpace, NewCall
  <2> HIDE DEF m
  <2>9. \A u \in DOMAIN space' : IsSpace(space'[u])
    BY <2>4, <2>8 DEF Good, Shapes, SpacesSound
  <2>10. SpacesSound'
    BY <2>4, <2>5, <2>9 DEF Good, Shapes, SpacesSound, IsSpace, IsBlock, IsPages, PagesFor
  <2>11. CallSound(s)'
    BY <1>3, <2>4, <2>5 DEF CallSound, NoCall, PoolCall
  <2>12. CallsSound'
    BY <2>6, <2>11, CallsKept DEF Good, Shapes
  <2>13. ParentsStay'
    BY <1>2, <2>4, <2>5, <2>6, ParentsKept DEF Good, Shapes, Forking, Idle
  <2>14. HeapSound'
    BY <1>2 DEF Good, Shapes, HeapSound
  <2>15. m.struct = call[s].struct
    BY DEF m
  <2>16. call'[s].op \notin {"pml4", "undo"} /\ call'[s].op \notin RestOps /\ call[s].op \notin RestOps
    BY <1>2, <2>5 DEF Idle, RestOps
  <2>17. HeldStructs' = HeldStructs
    BY <1>2, <1>3, <2>4, <2>5, <2>15, <2>16 DEF HeldStructs, NewCall
  <2>18. HeldRests' = HeldRests
    BY <2>5, <2>16, RestsStep
  <2>19. HeldPages' = HeldPages
    <3>1. DOMAIN space'[s].pages = {}
      BY <2>4, <2>7
    <3> QED
      BY <2>4, <3>1, EmptyPages
  <2>20. HeldTables' = HeldTables \cup {x}
    BY <1>3, <2>4, <2>7, TableHolders, TableHoldersNext DEF NewCall
  <2>21. Holdings' = Holdings \cup {x}
    BY <1>2, <2>17, <2>18, <2>19, <2>20, BlocksKept DEF Holdings
  <2>22. Sound(Holdings \cup {x}, owned \cup x[3], dropped)
    BY <2>1, <2>2, SoundAdd DEF Good
  <2> QED
    BY <1>2, <2>3, <2>10, <2>12, <2>13, <2>14, <2>21, <2>22 DEF Good, Shapes
<1> QED
  BY <1>4, <1>5

(* The pages, or the tables, of one page map change. *)
LEMMA PagesSet ==
    ASSUME SpacesSound, NEW s \in DOMAIN space, NEW f, space' = [space EXCEPT ![s].pages = f],
           f = [v \in DOMAIN f |-> f[v]], DOMAIN f \subseteq Address,
           DOMAIN f # {} => <<>> \in DOMAIN space[s].tables, call' = [u \in Spaces |-> call'[u]]
    PROVE  /\ SpacesSound' /\ DOMAIN space' = DOMAIN space /\ space'[s].pages = f
           /\ \A u \in DOMAIN space \ {s} : space'[u] = space[u]
           /\ \A u \in DOMAIN space : space'[u].struct = space[u].struct /\ space'[u].tables = space[u].tables
<1> DEFINE m == [struct |-> space[s].struct, tables |-> space[s].tables, pages |-> f]
<1>1. IsSpace(space[s])
  BY DEF SpacesSound
<1>2. [space[s] EXCEPT !.pages = f] = m
  BY <1>1 DEF IsSpace
<1>3. space' = [space EXCEPT ![s] = m]
  BY <1>2
<1>4. m.struct = space[s].struct /\ m.tables = space[s].tables /\ m.pages = f
      /\ m = [struct |-> m.struct, tables |-> m.tables, pages |-> m.pages]
  OBVIOUS
<1> HIDE DEF m
<1>5. IsSpace(m)
  BY <1>1, <1>4 DEF IsSpace
<1>6. /\ SpacesSound' /\ DOMAIN space' = DOMAIN space /\ space'[s] = m
      /\ \A u \in DOMAIN space \ {s} : space'[u] = space[u]
  BY <1>3, <1>5, SpaceSet
<1> QED
  BY <1>4, <1>6

LEMMA TablesSet ==
    ASSUME SpacesSound, NEW s \in DOMAIN space, NEW f, space' = [space EXCEPT ![s].tables = f],
           f = [p \in DOMAIN f |-> f[p]],
           DOMAIN space[s].pages # {} => <<>> \in DOMAIN f, call' = [u \in Spaces |-> call'[u]]
    PROVE  /\ SpacesSound' /\ DOMAIN space' = DOMAIN space /\ space'[s].tables = f
           /\ \A u \in DOMAIN space \ {s} : space'[u] = space[u]
           /\ \A u \in DOMAIN space : space'[u].struct = space[u].struct /\ space'[u].pages = space[u].pages
<1> DEFINE m == [struct |-> space[s].struct, tables |-> f, pages |-> space[s].pages]
<1>1. IsSpace(space[s])
  BY DEF SpacesSound
<1>2. [space[s] EXCEPT !.tables = f] = m
  BY <1>1 DEF IsSpace
<1>3. space' = [space EXCEPT ![s] = m]
  BY <1>2
<1>4. m.struct = space[s].struct /\ m.tables = f /\ m.pages = space[s].pages
      /\ m = [struct |-> m.struct, tables |-> m.tables, pages |-> m.pages]
  OBVIOUS
<1> HIDE DEF m
<1>5. IsSpace(m)
  BY <1>1, <1>4 DEF IsSpace
<1>6. /\ SpacesSound' /\ DOMAIN space' = DOMAIN space /\ space'[s] = m
      /\ \A u \in DOMAIN space \ {s} : space'[u] = space[u]
  BY <1>3, <1>5, SpaceSet
<1> QED
  BY <1>4, <1>6

(* No call moves, and no page map comes or goes. *)
LEMMA CallsUntouched ==
    ASSUME Shapes, UNCHANGED <<heap, moving, call>>, DOMAIN space' = DOMAIN space, SpacesSound',
           \A u \in DOMAIN space : space'[u].struct = space[u].struct
    PROVE  Shapes' /\ HeldBlocks' = HeldBlocks /\ HeldStructs' = HeldStructs /\ HeldRests' = HeldRests
<1>1. HeapSound'
  BY DEF Shapes, HeapSound
<1>2. CallsSound'
  BY CallKept DEF Shapes, CallsSound
<1>3. ParentsStay'
  BY DEF Shapes, ParentsStay, Forking
<1>4. HeldStructs' = HeldStructs
  BY StructsKept
<1>5. HeldRests' = HeldRests
  BY DEF HeldRests, Left
<1> QED
  BY <1>1, <1>2, <1>3, <1>4, <1>5, BlocksKept DEF Shapes

(* free_address_space frees a mapped page. *)
LEMMA FreePageGood ==
    ASSUME Good, NEW s \in Spaces, FreePage(s)
    PROVE  Good'
<1>1. PICK v \in DOMAIN space[s].pages :
        /\ pmm_free(<<space[s].pages[v]>>)
        /\ space' = [space EXCEPT ![s].pages = Without(@, v)]
  BY DEF FreePage
<1>2. UNCHANGED <<heap, moving, call, dropped>> /\ call[s].op = "free"
  BY DEF FreePage, Freeing
<1>3. s \in DOMAIN space
  BY <1>2, CallCases DEF FreeCall, Good, Shapes, CallsSound
<1> DEFINE f == Without(space[s].pages, v)
           x == <<"page", <<s, v>>, {space[s].pages[v]}>>
<1>4. IsSpace(space[s])
  BY <1>3 DEF Good, Shapes, SpacesSound
<1>5. f = [w \in DOMAIN f |-> f[w]] /\ DOMAIN f \subseteq DOMAIN space[s].pages
  BY DEF Without
<1>6. space' = [space EXCEPT ![s].pages = f]
  BY <1>1
<1>7. /\ SpacesSound' /\ DOMAIN space' = DOMAIN space /\ space'[s].pages = f
      /\ \A u \in DOMAIN space \ {s} : space'[u] = space[u]
      /\ \A u \in DOMAIN space : space'[u].struct = space[u].struct /\ space'[u].tables = space[u].tables
  <2>1. /\ SpacesSound /\ call' = [u \in Spaces |-> call'[u]]
        /\ DOMAIN f \subseteq Address /\ (DOMAIN f # {} => <<>> \in DOMAIN space[s].tables)
    BY <1>2, <1>4, <1>5 DEF Good, Shapes, SpacesSound, IsSpace
  <2> HIDE DEF f
  <2> QED
    BY <1>3, <1>5, <1>6, <2>1, PagesSet
<1>8. Shapes' /\ HeldBlocks' = HeldBlocks /\ HeldStructs' = HeldStructs /\ HeldRests' = HeldRests
  BY <1>2, <1>7, CallsUntouched DEF Good
<1>9. HeldTables' = HeldTables
  BY <1>7, TablesKept
<1>10. x \in HeldPages /\ HeldPages' = HeldPages \ {x}
  BY <1>3, <1>7, PageRemoved
<1>11. x \in Holdings /\ Holdings' = Holdings \ {x}
  BY <1>8, <1>9, <1>10, Kinds DEF Holdings
<1>12. owned' = owned \ x[3]
  BY <1>1 DEF pmm_free, ToSet
<1>13. Sound(Holdings \ {x}, owned \ x[3], dropped)
  BY <1>11, SoundRemove DEF Good
<1> QED
  BY <1>2, <1>8, <1>11, <1>12, <1>13 DEF Good

(* The page that unmap_page unmaps is dropped. *)
LEMMA unmap_pageGood ==
    ASSUME Good, NEW s \in Spaces, NEW v, unmap_page(s, v)
    PROVE  Good'
<1>1. /\ UNCHANGED <<owned, heap, moving, call>> /\ s \in DOMAIN space /\ v \in DOMAIN space[s].pages
      /\ space' = [space EXCEPT ![s].pages = Without(@, v)]
      /\ dropped' = dropped \cup {space[s].pages[v]}
  BY DEF unmap_page
<1> DEFINE f == Without(space[s].pages, v)
           x == <<"page", <<s, v>>, {space[s].pages[v]}>>
<1>4. IsSpace(space[s])
  BY <1>1 DEF Good, Shapes, SpacesSound
<1>5. f = [w \in DOMAIN f |-> f[w]] /\ DOMAIN f \subseteq DOMAIN space[s].pages
  BY DEF Without
<1>6. space' = [space EXCEPT ![s].pages = f]
  BY <1>1
<1>7. /\ SpacesSound' /\ DOMAIN space' = DOMAIN space /\ space'[s].pages = f
      /\ \A u \in DOMAIN space \ {s} : space'[u] = space[u]
      /\ \A u \in DOMAIN space : space'[u].struct = space[u].struct /\ space'[u].tables = space[u].tables
  <2>1. /\ SpacesSound /\ call' = [u \in Spaces |-> call'[u]]
        /\ DOMAIN f \subseteq Address /\ (DOMAIN f # {} => <<>> \in DOMAIN space[s].tables)
    BY <1>1, <1>4, <1>5 DEF Good, Shapes, SpacesSound, IsSpace
  <2> HIDE DEF f
  <2> QED
    BY <1>1, <1>5, <1>6, <2>1, PagesSet
<1>8. Shapes' /\ HeldBlocks' = HeldBlocks /\ HeldStructs' = HeldStructs /\ HeldRests' = HeldRests
  BY <1>1, <1>7, CallsUntouched DEF Good
<1>9. HeldTables' = HeldTables
  BY <1>7, TablesKept
<1>10. x \in HeldPages /\ HeldPages' = HeldPages \ {x}
  BY <1>1, <1>7, PageRemoved
<1>11. x \in Holdings /\ Holdings' = Holdings \ {x}
  BY <1>8, <1>9, <1>10, Kinds DEF Holdings
<1>12. Sound(Holdings \ {x}, owned, dropped \cup x[3])
  BY <1>11, SoundDrop DEF Good
<1> QED
  BY <1>1, <1>8, <1>11, <1>12 DEF Good

(* free_address_space frees a table below which nothing is left: the root only
   after all mapped pages. *)
LEMMA FreeTableGood ==
    ASSUME Good, NEW s \in Spaces, FreeTable(s)
    PROVE  Good'
<1>1. PICK p \in DOMAIN space[s].tables :
        /\ Below(s, p) = {} /\ pmm_free(<<space[s].tables[p]>>)
        /\ space' = [space EXCEPT ![s].tables = Without(@, p)]
  BY DEF FreeTable
<1>2. UNCHANGED <<heap, moving, call, dropped>> /\ call[s].op = "free"
  BY DEF FreeTable, Freeing
<1>3. s \in DOMAIN space
  BY <1>2, CallCases DEF FreeCall, Good, Shapes, CallsSound
<1> DEFINE f == Without(space[s].tables, p)
           x == <<"table", <<s, p>>, {space[s].tables[p]}>>
<1>4. IsSpace(space[s])
  BY <1>3 DEF Good, Shapes, SpacesSound
<1>5. f = [q \in DOMAIN f |-> f[q]] /\ DOMAIN f = DOMAIN space[s].tables \ {p}
  BY DEF Without
<1>6. space' = [space EXCEPT ![s].tables = f]
  BY <1>1
<1>7. DOMAIN space[s].pages # {} => p # <<>>
  <2> SUFFICES ASSUME NEW v \in DOMAIN space[s].pages, p = <<>>
               PROVE  FALSE
    OBVIOUS
  <2>1. v \in Seq(Nat) /\ Len(v) = Levels /\ Levels \in Nat \ {0}
    BY <1>4, MemoryAssumption DEF IsSpace, Address
  <2>2. SubSeq(v, 1, 0) = <<>>
    BY SubSeqEmpty
  <2>3. v \in Below(s, p)
    BY <2>1, <2>2, EmptySeq DEF Below, Prefix
  <2> QED
    BY <1>1, <2>3
<1>8. /\ SpacesSound' /\ DOMAIN space' = DOMAIN space /\ space'[s].tables = f
      /\ \A u \in DOMAIN space \ {s} : space'[u] = space[u]
      /\ \A u \in DOMAIN space : space'[u].struct = space[u].struct /\ space'[u].pages = space[u].pages
  <2>1. /\ SpacesSound /\ call' = [u \in Spaces |-> call'[u]]
        /\ DOMAIN space[s].pages # {} => <<>> \in DOMAIN f
    BY <1>2, <1>4, <1>5, <1>7 DEF Good, Shapes, SpacesSound, IsSpace
  <2> HIDE DEF f
  <2> QED
    BY <1>3, <1>5, <1>6, <2>1, TablesSet
<1>9. Shapes' /\ HeldBlocks' = HeldBlocks /\ HeldStructs' = HeldStructs /\ HeldRests' = HeldRests
  BY <1>2, <1>8, CallsUntouched DEF Good
<1>10. HeldPages' = HeldPages
  BY <1>8, PagesKept
<1>11. x \in HeldTables /\ HeldTables' = HeldTables \ {x}
  BY <1>3, <1>8, TableRemoved
<1>12. x \in Holdings /\ Holdings' = Holdings \ {x}
  BY <1>9, <1>10, <1>11, Kinds DEF Holdings
<1>13. owned' = owned \ x[3]
  BY <1>1 DEF pmm_free, ToSet
<1>14. Sound(Holdings \ {x}, owned \ x[3], dropped)
  BY <1>12, SoundRemove DEF Good
<1> QED
  BY <1>2, <1>9, <1>12, <1>13, <1>14 DEF Good

(* free_address_space frees the structure of a page map without tables. *)
LEMMA FreeStructGood ==
    ASSUME Good, NEW s \in Spaces, FreeStruct(s)
    PROVE  Good'
<1> DEFINE x == <<"struct", s, ToSet(space[s].struct.at)>>
<1>1. /\ UNCHANGED <<heap, moving, dropped>> /\ call[s].op = "free" /\ DOMAIN space[s].tables = {}
      /\ FreeBlock(space[s].struct) /\ space' = Without(space, s) /\ call' = [call EXCEPT ![s] = Idle]
  BY DEF FreeStruct, Freeing
<1>2. s \in DOMAIN space
  BY <1>1, CallCases DEF FreeCall, Good, Shapes, CallsSound
<1>3. IsSpace(space[s])
  BY <1>2 DEF Good, Shapes, SpacesSound
<1>4. /\ DOMAIN space' = DOMAIN space \ {s} /\ space' = [u \in DOMAIN space' |-> space'[u]]
      /\ \A u \in DOMAIN space \ {s} : space'[u] = space[u]
  BY <1>1 DEF Without
<1>5. call'[s] = Idle /\ (\A u \in Spaces \ {s} : call'[u] = call[u]) /\ call' = [u \in Spaces |-> call'[u]]
  BY <1>1, CallSet DEF Good, Shapes
<1>6. SpacesSound'
  <2>1. \A u \in DOMAIN space' : IsSpace(space'[u])
    BY <1>4 DEF Good, Shapes, SpacesSound
  <2> QED
    BY <1>4, <1>5, <2>1 DEF Good, Shapes, SpacesSound, IsSpace, IsBlock, IsPages, PagesFor
<1>7. CallsSound'
  BY <1>4, <1>5, CallsKept DEF Good, Shapes, CallStep, CallSound, NoCall
<1>8. ParentsStay'
  BY <1>1, <1>4, <1>5 DEF Good, Shapes, ParentsStay, Forking, Idle
<1>9. HeapSound'
  BY <1>1 DEF Good, Shapes, HeapSound
<1>10. DOMAIN space[s].pages = {}
  BY <1>1, <1>3 DEF IsSpace
<1>11. call[s].op \notin RestOps /\ call'[s].op \notin RestOps
  BY <1>1, <1>5 DEF RestOps, Idle
<1>12. HeldRests' = HeldRests
  BY <1>5, <1>11, RestsStep
<1>13. HeldTables' = HeldTables
  BY <1>1, <1>4, EmptyTables
<1>14. HeldPages' = HeldPages
  BY <1>4, <1>10, EmptyPages
<1>15. x \in HeldStructs /\ HeldStructs' = HeldStructs \ {x}
  BY <1>1, <1>2, <1>4, <1>5 DEF HeldStructs, Idle
<1>16. x \in Holdings /\ Holdings' = Holdings \ {x}
  BY <1>1, <1>12, <1>13, <1>14, <1>15, BlocksKept, Kinds DEF Holdings
<1>17. owned' = owned \ x[3]
  BY <1>1, <1>3, BlockFreed DEF IsSpace
<1>18. Sound(Holdings \ {x}, owned \ x[3], dropped)
  BY <1>16, SoundRemove DEF Good
<1> QED
  BY <1>1, <1>6, <1>7, <1>8, <1>9, <1>16, <1>17, <1>18 DEF Good, Shapes

(* What is left of a range or a pool when its next page has been used. *)
LEMMA NextUsed ==
    ASSUME NEW q, NEW n \in Nat, IsPages(q, n), NEW d \in 0 .. n - 1
    PROVE  /\ q[d + 1] \notin {q[j] : j \in (d + 1) + 1 .. n}
           /\ {q[j] : j \in d + 1 .. n} = {q[d + 1]} \cup {q[j] : j \in (d + 1) + 1 .. n}
<1>1. /\ d + 1 \in 1 .. n /\ \A j \in (d + 1) + 1 .. n : j \in 1 .. n /\ j # d + 1
  OBVIOUS
<1>2. \A j : j \in d + 1 .. n <=> j = d + 1 \/ j \in (d + 1) + 1 .. n
  OBVIOUS
<1> QED
  BY <1>1, <1>2 DEF IsPages

(* The call whose page is mapped. *)
LEMMA MappingCall ==
    ASSUME Good, NEW s \in Spaces, Mapping(s)
    PROVE  /\ s \in DOMAIN space /\ Addr(s) \in Address /\ call[s].op \in RestOps
           /\ Len(call[s].ptr) \in Nat /\ IsPages(call[s].ptr, Len(call[s].ptr))
           /\ call[s].done \in 0 .. Len(call[s].ptr) - 1
<1>1. CASE call[s].op = "alloc"
  <2>1. AllocCall(s)
    BY <1>1, CallCases DEF Good, Shapes, CallsSound
  <2> DEFINE r == call[s].range
  <2>2. r \in Seq(Seq(Nat)) /\ \A i \in DOMAIN r : Len(r[i]) = Levels
    BY <2>1, MemoryAssumption DEF AllocCall
  <2>3. Len(r) \in Nat /\ DOMAIN r = 1 .. Len(r) /\ \A i \in 1 .. Len(r) : r[i] \in Seq(Nat)
    BY <2>2, LenProperties, ElementOfSeq
  <2>4. Addr(s) \in Address
    BY <2>1, <2>2, <2>3 DEF AllocCall, Addr, Address
  <2> QED
    BY <1>1, <2>1, <2>3, <2>4 DEF AllocCall, IsPages, RestOps
<1>2. CASE call[s].op = "copy"
  <2>1. ForkCall(s)
    BY <1>2, CallCases DEF Good, Shapes, CallsSound
  <2>2. Addr(s) \in Address
    BY <1>2, <2>1 DEF ForkCall, Addr
  <2>3. /\ s \in DOMAIN space /\ Len(call[s].ptr) = POOL /\ POOL \in Nat /\ IsPages(call[s].ptr, POOL)
        /\ call[s].done \in 0 .. POOL - 1
    BY <1>2, <2>1, MemoryAssumption DEF ForkCall, IsPages
  <2> QED
    BY <1>2, <2>1, <2>2, <2>3 DEF RestOps
<1> QED
  BY <1>1, <1>2 DEF Mapping

(* The call goes on with the next page, or ends with the last one. *)
LEMMA MappedCall ==
    ASSUME Good, NEW s \in Spaces, Mapping(s), Mapped(s), DOMAIN space' = DOMAIN space
    PROVE  /\ CallStep(s) /\ CallSound(s)' /\ ParentsStay'
           /\ call'[s].op \notin {"pml4", "undo"}
           /\ \/ call'[s].op \in RestOps /\ Left(s) = {Page(s)} \cup Left(s)' /\ Page(s) \notin Left(s)'
              \/ call'[s].op \notin RestOps /\ Left(s) = {Page(s)}
<1> DEFINE c == IF call[s].op = "copy" THEN [call[s] EXCEPT !.op = "fork", !.done = call[s].done + 1]
                ELSE IF call[s].i = Len(call[s].range) THEN Idle
                ELSE [call[s] EXCEPT !.i = call[s].i + 1, !.done = call[s].done + 1]
<1>1. call[s].op \in {"alloc", "copy"}
  BY DEF Mapping
<1>2. call' = [call EXCEPT ![s] = c]
  BY DEF Mapped
<1> HIDE DEF c
<1>3. call'[s] = c /\ CallStep(s)
  BY <1>2, CallSet DEF CallStep, Good, Shapes
<1>4. /\ Len(call[s].ptr) \in Nat /\ IsPages(call[s].ptr, Len(call[s].ptr))
      /\ call[s].done \in 0 .. Len(call[s].ptr) - 1 /\ s \in DOMAIN space
  BY MappingCall
<1> DEFINE q == call[s].ptr
           n == Len(call[s].ptr)
           d == call[s].done
<1>5. /\ q[d + 1] \notin {q[j] : j \in (d + 1) + 1 .. n}
      /\ {q[j] : j \in d + 1 .. n} = {q[d + 1]} \cup {q[j] : j \in (d + 1) + 1 .. n}
  <2> HIDE DEF q, n, d
  <2>1. n \in Nat /\ IsPages(q, n) /\ d \in 0 .. n - 1
    BY <1>4 DEF q, n, d
  <2> QED
    BY ONLY <2>1, NextUsed
<1>6. Left(s) = {q[j] : j \in d + 1 .. n} /\ Page(s) = q[d + 1]
  BY DEF Left, Page
<1>7. ASSUME c.ptr = q, c.done = d + 1
      PROVE  Left(s) = {Page(s)} \cup Left(s)' /\ Page(s) \notin Left(s)'
  <2>1. Left(s)' = {q[j] : j \in (d + 1) + 1 .. n}
    BY <1>3, <1>7 DEF Left
  <2> QED
    BY <1>5, <1>6, <2>1
<1>8. CASE call[s].op = "copy"
  <2>1. ForkCall(s) /\ d < POOL
    BY <1>8, CallCases DEF Good, Shapes, CallsSound, ForkCall
  <2> DEFINE e == [op |-> "fork", from |-> call[s].from, range |-> call[s].range, i |-> call[s].i,
                   ptr |-> q, done |-> d]
             e2 == [op |-> "fork", from |-> call[s].from, range |-> call[s].range, i |-> call[s].i,
                    ptr |-> q, done |-> d + 1]
  <2>2. [call[s] EXCEPT !.op = "fork"] = e
    BY <2>1 DEF ForkCall
  <2>3. [e EXCEPT !.done = d + 1] = e2
    OBVIOUS
  <2>4. c = e2
    <3>1. c = [[call[s] EXCEPT !.op = "fork"] EXCEPT !.done = d + 1]
      BY <1>8 DEF c
    <3> QED
      BY <2>2, <2>3, <3>1
  <2>5. call'[s] = e2
    BY <1>3, <2>4
  <2>6. /\ call[s].from # NULL /\ call[s].i = 1 /\ d \in 0 .. POOL /\ POOL \in Nat
        /\ IsPages(q, POOL)
    BY <2>1, MemoryAssumption DEF ForkCall
  <2>7. ForkCall(s)'
    BY ONLY <1>4, <2>1, <2>5, <2>6, DOMAIN space' = DOMAIN space DEF ForkCall, IsPages
  <2>8. Forking(s)
    BY <1>8, <2>6 DEF Forking
  <2>9. ParentsStay'
    BY <1>3, <2>5, <2>8, ParentsKept DEF Good, Shapes
  <2> QED
    BY <1>3, <1>7, <2>4, <2>5, <2>7, <2>9 DEF CallSound, RestOps
<1>9. CASE call[s].op = "alloc"
  <2>1. AllocCall(s)
    BY <1>9, CallCases DEF Good, Shapes, CallsSound
  <2>2. call[s].range \in Seq(Seq(Nat))
    BY <2>1, MemoryAssumption DEF AllocCall
  <2>3. Len(call[s].range) \in Nat /\ n = Len(call[s].range)
    BY <2>1, <2>2, LenProperties DEF AllocCall, IsPages
  <2>4. CASE call[s].i = Len(call[s].range)
    <3>1. call'[s] = Idle
      BY <1>3, <1>9, <2>4 DEF c
    <3>2. CallSound(s)'
      BY <3>1 DEF CallSound, NoCall
    <3>3. ~Forking(s)' /\ call'[s].op # "free" /\ call'[s].op \notin {"pml4", "undo"} /\ call'[s].op \notin RestOps
      BY <3>1 DEF Forking, Idle, RestOps
    <3>4. ParentsStay'
      BY <1>3, <3>3, ParentsKept DEF Good, Shapes
    <3>5. n = d + 1
      BY <2>1, <2>3, <2>4 DEF AllocCall
    <3>6. Left(s) = {Page(s)}
      <4>1. (d + 1) + 1 .. n = {}
        BY <1>4, <3>5
      <4> QED
        BY <1>5, <1>6, <4>1
    <3> QED
      BY <1>3, <3>2, <3>3, <3>4, <3>6
  <2>5. CASE call[s].i # Len(call[s].range)
    <3> DEFINE e == [op |-> "alloc", range |-> call[s].range, i |-> call[s].i + 1, ptr |-> q, done |-> d]
               e2 == [op |-> "alloc", range |-> call[s].range, i |-> call[s].i + 1, ptr |-> q, done |-> d + 1]
    <3>1. [call[s] EXCEPT !.i = call[s].i + 1] = e
      BY <1>9, <2>1 DEF AllocCall
    <3>2. [e EXCEPT !.done = d + 1] = e2
      OBVIOUS
    <3>3. c = e2
      <4>1. c = [[call[s] EXCEPT !.i = call[s].i + 1] EXCEPT !.done = d + 1]
        BY <1>9, <2>5 DEF c
      <4> QED
        BY <3>1, <3>2, <4>1
    <3>4. call'[s] = e2
      BY <1>3, <3>3
    <3>5. /\ call[s].range \in Ranges /\ call[s].i + 1 \in 1 .. Len(call[s].range) /\ d + 1 = (call[s].i + 1) - 1
          /\ IsPages(q, Len(call[s].range))
      BY <2>1, <2>3, <2>5 DEF AllocCall
    <3>6. AllocCall(s)'
      BY ONLY <1>4, <3>4, <3>5, DOMAIN space' = DOMAIN space DEF AllocCall, IsPages
    <3>7. ParentsStay'
      BY <1>3, <3>4, ParentsKept DEF Good, Shapes, Forking
    <3> QED
      BY <1>3, <1>7, <3>3, <3>4, <3>6, <3>7 DEF CallSound, RestOps
  <2> QED
    BY <2>4, <2>5
<1> QED
  BY <1>1, <1>8, <1>9

(* The calls and page maps are sound, so the rest of Shapes is. *)
LEMMA MapShapes ==
    ASSUME Good, NEW s \in Spaces, CallStep(s), SpacesSound', CallSound(s)', ParentsStay', UNCHANGED <<heap, moving>>
    PROVE  Shapes'
<1>1. CallsSound'
  BY CallsKept DEF Good, Shapes
<1>2. HeapSound'
  BY DEF Good, Shapes, HeapSound
<1> QED
  BY <1>1, <1>2 DEF Shapes

(* map_page takes the page from what the call has left, and drops the page that
   was mapped there. *)
LEMMA MapEntryGood ==
    ASSUME Good, Rooted, NEW s \in Spaces, MapEntry(s)
    PROVE  Good'
<1> DEFINE v == Addr(s)
           g == Page(s)
           f == With(space[s].pages, v, g)
           x == <<"rest", s, Left(s)>>
           y == <<"page", <<s, v>>, {g}>>
           z == <<"rest", s, Left(s)'>>
           O == PagesAt(s, v)
           D == {space[s].pages[w] : w \in DOMAIN space[s].pages \cap {v}}
           H == Holdings \ O
<1>1. /\ Mapping(s) /\ Mapped(s) /\ UNCHANGED <<owned, heap, moving>>
      /\ space' = [space EXCEPT ![s].pages = f] /\ dropped' = dropped \cup D
  BY DEF MapEntry
<1>2. s \in DOMAIN space /\ v \in Address /\ call[s].op \in RestOps
  BY <1>1, MappingCall
<1>3. IsSpace(space[s]) /\ <<>> \in DOMAIN space[s].tables
  BY <1>2 DEF Good, Shapes, SpacesSound, Rooted, RestOps
<1>4. f = [w \in DOMAIN f |-> f[w]] /\ DOMAIN f \subseteq Address
  BY <1>2, <1>3 DEF With, IsSpace
<1>5. DOMAIN space' = DOMAIN space
  BY <1>1
<1>6. /\ CallStep(s) /\ CallSound(s)' /\ ParentsStay' /\ call'[s].op \notin {"pml4", "undo"}
      /\ \/ call'[s].op \in RestOps /\ Left(s) = {g} \cup Left(s)' /\ g \notin Left(s)'
         \/ call'[s].op \notin RestOps /\ Left(s) = {g}
  BY <1>1, <1>5, MappedCall
<1>7. /\ SpacesSound' /\ space'[s].pages = f
      /\ \A u \in DOMAIN space \ {s} : space'[u] = space[u]
      /\ \A u \in DOMAIN space : space'[u].struct = space[u].struct /\ space'[u].tables = space[u].tables
  <2>1. SpacesSound /\ call' = [u \in Spaces |-> call'[u]]
    BY <1>6 DEF Good, Shapes, CallStep
  <2> HIDE DEF f
  <2> QED
    BY <1>1, <1>2, <1>3, <1>4, <2>1, PagesSet
<1>8. Shapes'
  BY <1>1, <1>6, <1>7, MapShapes
<1>9. \A u \in Spaces \ {s} : call'[u] = call[u]
  BY <1>6 DEF CallStep
<1>10. HeldStructs' = HeldStructs
  <2>1. call[s].op \notin {"pml4", "undo"}
    BY <1>2 DEF RestOps
  <2> QED
    BY <1>5, <1>6, <1>7, <1>9, <2>1, StructsKept
<1>11. HeldTables' = HeldTables /\ HeldBlocks' = HeldBlocks
  BY <1>1, <1>5, <1>7, TablesKept, BlocksKept
<1>12. O \subseteq HeldPages /\ HeldPages' = (HeldPages \ O) \cup {y}
  BY <1>2, <1>5, <1>7, PageWritten
<1>13. x \in HeldRests
  BY <1>2, <1>9, RestsStep
<1> HIDE DEF x, y, z, O, D
<1>14. x[1] = "rest" /\ x[3] = Left(s) /\ y[3] = {g} /\ z[3] = Left(s)'
  BY DEF x, y, z
<1>15. D = UNION {o[3] : o \in O}
  <2> DEFINE old == space[s].pages[v]
  <2>1. \A h : h \in D <=> v \in DOMAIN space[s].pages /\ h = old
    BY DEF D
  <2>2. \A o : o \in O <=> v \in DOMAIN space[s].pages /\ o = <<"page", <<s, v>>, {old}>>
    BY DEF O, PagesAt
  <2>3. <<"page", <<s, v>>, {old}>>[3] = {old}
    OBVIOUS
  <2> HIDE DEF old
  <2>4. \A h : h \in D <=> h \in UNION {o[3] : o \in O}
    BY <2>1, <2>2, <2>3
  <2> QED
    BY <2>4
<1>16. Sound(H, owned, dropped')
  <2>1. O \subseteq Holdings
    BY <1>12 DEF Holdings
  <2> QED
    BY <1>1, <1>15, <2>1, SoundDropAll DEF Good
<1>17. x \in H
  BY <1>12, <1>13, <1>14, Kinds DEF Holdings
<1>18. CASE call'[s].op \in RestOps
  <2>1. HeldRests' = (HeldRests \ {x}) \cup {z}
    BY <1>2, <1>9, <1>18, RestsStep DEF x, z
  <2>2. Holdings' = (H \ {x}) \cup {y, z}
    BY <1>10, <1>11, <1>12, <1>13, <1>14, <2>1, Kinds DEF Holdings
  <2>3. Sound((H \ {x}) \cup {y, z}, owned, dropped')
    <3>1. x[3] = y[3] \cup z[3] /\ y[3] \cap z[3] = {}
      BY <1>6, <1>14, <1>18
    <3> QED
      BY <1>16, <1>17, <3>1, SoundSplit
  <2> QED
    BY <1>1, <1>8, <2>2, <2>3 DEF Good
<1>19. CASE call'[s].op \notin RestOps
  <2>1. HeldRests' = HeldRests \ {x}
    BY <1>2, <1>9, <1>19, RestsStep DEF x
  <2>2. Holdings' = (H \ {x}) \cup {y}
    BY <1>10, <1>11, <1>12, <1>13, <1>14, <2>1, Kinds DEF Holdings
  <2>3. Sound((H \ {x}) \cup {y}, owned, dropped')
    BY <1>6, <1>14, <1>16, <1>17, <1>19, SoundReplace
  <2> QED
    BY <1>1, <1>8, <2>2, <2>3 DEF Good
<1> QED
  BY <1>18, <1>19

(* A table is missing at some level first. *)
LEMMA LeastMissing ==
    ASSUME NEW S \in SUBSET Nat, S # {}
    PROVE  (CHOOSE j \in S : \A l \in S : j <= l) \in S
<1> DEFINE Less == {ss \in Nat \X Nat : ss[1] < ss[2]}
<1>1. IsWellFoundedOn(Less, Nat)
  BY NatLessThanWellFounded, Zenon DEF OpToRel
<1>2. PICK x \in S : \A y \in S : ~ (<<y, x>> \in Less)
  <2> HIDE DEF Less
  <2> QED
    BY <1>1, WFMin
<1>3. \A y \in S : ~ (y < x)
  <2>1. \A a, b \in Nat : a < b => <<a, b>> \in Less
    OBVIOUS
  <2> HIDE DEF Less
  <2> QED
    BY <1>2, <2>1
<1>4. \A y \in S : x <= y
  BY <1>3
<1> QED
  BY <1>4, Zenon

(* map_page enters a new table; without one, the page of a copy is dropped, a
   range is given up or the model ends. *)
LEMMA MapTableGood ==
    ASSUME Good, NEW s \in Spaces, MapTable(s)
    PROVE  Good'
<1> DEFINE k == CHOOSE j \in Missing(s) : \A l \in Missing(s) : j <= l
           P == Prefix(Addr(s), k)
<1>1. PICK p \in pmm_alloc(1, <<s, "table", P>>) :
        /\ Take(p)
        /\ space' = IF p = Failed THEN space ELSE [space EXCEPT ![s].tables = With(@, P, p[1])]
        /\ \/ (p # Failed \/ k > 1) /\ UNCHANGED <<call, dropped>>
           \/ /\ p = Failed /\ k = 1 /\ call[s].op = "copy"
              /\ dropped' = dropped \cup {Page(s)} /\ Mapped(s)
           \/ /\ p = Failed /\ k = 1 /\ call[s].op = "alloc"
              /\ call' = [call EXCEPT ![s].op = "give_up"] /\ UNCHANGED dropped
  BY DEF MapTable
<1>2. Mapping(s) /\ Missing(s) # {} /\ UNCHANGED <<heap, moving>>
  BY DEF MapTable
<1>3. s \in DOMAIN space /\ call[s].op \in RestOps /\ call[s].op \in {"alloc", "copy"}
  BY <1>2, MappingCall DEF Mapping
<1>4. k \in Missing(s)
  <2>1. Missing(s) \in SUBSET Nat
    BY MemoryAssumption DEF Missing
  <2> QED
    BY <1>2, <2>1, LeastMissing
<1> HIDE DEF k
<1>5. k \in Nat /\ k >= 1 /\ P \notin DOMAIN space[s].tables
  BY <1>4, MemoryAssumption DEF Missing
<1>6. CASE p # Failed
  <2> DEFINE g == p[1]
             f == With(space[s].tables, P, g)
             x == <<"table", <<s, P>>, {g}>>
  <2>1. IsPages(p, 1) /\ ToSet(p) \cap owned = {} /\ g \in ToSet(p)
    BY <1>6, Allocated
  <2>2. ToSet(p) = {g}
    BY <2>1, LenProperties DEF ToSet, IsPages
  <2>3. UNCHANGED <<call, dropped>> /\ space' = [space EXCEPT ![s].tables = f] /\ owned' = owned \cup {g}
    BY <1>1, <1>6, <2>2 DEF Take
  <2>4. f = [q \in DOMAIN f |-> f[q]] /\ DOMAIN space[s].tables \subseteq DOMAIN f
    BY DEF With
  <2>5. /\ SpacesSound' /\ DOMAIN space' = DOMAIN space /\ space'[s].tables = f
        /\ \A u \in DOMAIN space \ {s} : space'[u] = space[u]
        /\ \A u \in DOMAIN space : space'[u].struct = space[u].struct /\ space'[u].pages = space[u].pages
    <3>1. /\ SpacesSound /\ call' = [u \in Spaces |-> call'[u]]
          /\ DOMAIN space[s].pages # {} => <<>> \in DOMAIN f
      BY <1>3, <2>3, <2>4 DEF Good, Shapes, SpacesSound, IsSpace
    <3> HIDE DEF f
    <3> QED
      BY <1>3, <2>3, <2>4, <3>1, TablesSet
  <2>6. Shapes' /\ HeldBlocks' = HeldBlocks /\ HeldStructs' = HeldStructs /\ HeldRests' = HeldRests
    BY <1>2, <2>3, <2>5, CallsUntouched DEF Good
  <2>7. HeldPages' = HeldPages
    BY <2>5, PagesKept
  <2>8. HeldTables' = HeldTables \cup {x}
    BY <1>3, <1>5, <2>5, TableAdded
  <2>9. Holdings' = Holdings \cup {x}
    BY <2>6, <2>7, <2>8 DEF Holdings
  <2>10. Sound(Holdings \cup {x}, owned \cup x[3], dropped)
    BY <2>1, <2>2, SoundAdd DEF Good
  <2> QED
    BY <2>3, <2>6, <2>9, <2>10 DEF Good
<1>7. CASE p = Failed /\ k > 1
  <2>1. UNCHANGED <<call, dropped>>
    BY <1>1, <1>5, <1>7
  <2>2. owned' = owned /\ space' = space
    BY <1>1, <1>7, TakeFailed DEF Take
  <2> QED
    BY <1>2, <2>1, <2>2, NothingChanged
<1>8. CASE p = Failed /\ k = 1 /\ call[s].op = "copy"
  <2> DEFINE g == Page(s)
             x == <<"rest", s, Left(s)>>
             z == <<"rest", s, Left(s)'>>
  <2>1. owned' = owned /\ space' = space /\ dropped' = dropped \cup {g} /\ Mapped(s)
    BY <1>1, <1>8, TakeFailed DEF Take
  <2>2. /\ CallStep(s) /\ CallSound(s)' /\ ParentsStay' /\ call'[s].op \notin {"pml4", "undo"}
        /\ \/ call'[s].op \in RestOps /\ Left(s) = {g} \cup Left(s)' /\ g \notin Left(s)'
           \/ call'[s].op \notin RestOps /\ Left(s) = {g}
    BY <1>2, <2>1, MappedCall
  <2>3. SpacesSound' /\ \A u \in Spaces \ {s} : call'[u] = call[u]
    BY <2>1, <2>2 DEF CallStep, Good, Shapes, SpacesSound
  <2>4. Shapes'
    BY <1>2, <2>2, <2>3, MapShapes
  <2>5. HeldStructs' = HeldStructs
    <3>1. call[s].op \notin {"pml4", "undo"}
      BY <1>3
    <3> QED
      BY <2>1, <2>2, <2>3, <3>1, StructsUntouched
  <2>6. x \in HeldRests
    BY <1>3, <2>3, RestsStep
  <2> HIDE DEF x, z
  <2>7. x[1] = "rest" /\ x[3] = Left(s) /\ z[3] = Left(s)'
    BY DEF x, z
  <2>8. x \in Holdings
    BY <2>6 DEF Holdings
  <2>9. CASE call'[s].op \in RestOps
    <3>1. HeldRests' = (HeldRests \ {x}) \cup {z}
      BY <1>3, <2>3, <2>9, RestsStep DEF x, z
    <3>2. Holdings' = (Holdings \ {x}) \cup {z}
      BY <1>2, <2>1, <2>5, <2>7, <3>1, CallHoldings, Kinds DEF Holdings
    <3>3. Sound((Holdings \ {x}) \cup {z}, owned, dropped \cup {g})
      <4>1. x[3] = z[3] \cup {g} /\ z[3] \cap {g} = {}
        BY <2>2, <2>7, <2>9
      <4> QED
        BY <2>8, <4>1, SoundShrink DEF Good
    <3> QED
      BY <2>1, <2>4, <3>2, <3>3 DEF Good
  <2>10. CASE call'[s].op \notin RestOps
    <3>1. HeldRests' = HeldRests \ {x}
      BY <1>3, <2>3, <2>10, RestsStep DEF x
    <3>2. Holdings' = Holdings \ {x}
      BY <1>2, <2>1, <2>5, <2>7, <3>1, CallHoldings, Kinds DEF Holdings
    <3>3. Sound(Holdings \ {x}, owned, dropped \cup {g})
      BY <2>2, <2>7, <2>8, <2>10, SoundDrop DEF Good
    <3> QED
      BY <2>1, <2>4, <3>2, <3>3 DEF Good
  <2> QED
    BY <2>9, <2>10
<1>9. CASE p = Failed /\ k = 1 /\ call[s].op = "alloc"
  <2> DEFINE c == [op |-> "give_up", range |-> call[s].range, i |-> call[s].i, ptr |-> call[s].ptr,
                   done |-> call[s].done]
  <2>1. AllocCall(s)
    BY <1>9, CallCases DEF Good, Shapes, CallsSound
  <2>2. [call[s] EXCEPT !.op = "give_up"] = c
    BY <2>1 DEF AllocCall
  <2>3. owned' = owned /\ space' = space /\ dropped' = dropped /\ call' = [call EXCEPT ![s] = c]
    BY <1>1, <1>9, <2>2, TakeFailed DEF Take
  <2>4. call'[s] = c /\ (\A u \in Spaces \ {s} : call'[u] = call[u]) /\ CallStep(s)
    BY <2>3, CallSet DEF CallStep, Good, Shapes
  <2>5. CallSound(s)'
    BY <2>1, <2>3, <2>4 DEF CallSound, AllocCall, IsPages
  <2>6. ParentsStay'
    BY <2>3, <2>4, ParentsKept DEF Good, Shapes, Forking
  <2>7. Shapes'
    BY <1>2, <2>3, <2>5, <2>6, CallShapes DEF Good
  <2>8. call'[s].op \notin {"pml4", "undo"} /\ call'[s].op \in RestOps /\ Left(s)' = Left(s)
    BY <2>4 DEF RestOps, Left
  <2>9. HeldStructs' = HeldStructs
    BY <1>3, <2>3, <2>4, <2>8, StructsUntouched
  <2>10. HeldRests' = HeldRests
    <3>1. /\ <<"rest", s, Left(s)>> \in HeldRests
          /\ HeldRests' = (HeldRests \ {<<"rest", s, Left(s)>>}) \cup {<<"rest", s, Left(s)'>>}
      BY <1>3, <2>4, <2>8, RestsStep
    <3> QED
      BY ONLY <2>8, <3>1
  <2> QED
    BY <1>2, <2>3, <2>7, <2>9, <2>10, CallHoldings DEF Good, Holdings
<1> QED
  BY <1>3, <1>5, <1>6, <1>7, <1>8, <1>9

-----------------------------------------------------------------------------
(***************************************************************************)
(* The theorem                                                              *)
(***************************************************************************)

(* Root tables stay when the calls and page maps there are stay. *)
LEMMA RootsKept ==
    ASSUME Rooted, UNCHANGED <<space, call>>
    PROVE  Rooted'
BY DEF Rooted

(* Only the release of a page map takes away its root table. *)
LEMMA RootedStep ==
    ASSUME Good, Rooted, NEW s \in Spaces, SpaceStep(s)
    PROVE  Rooted'
<1>0. /\ call = [u \in Spaces |-> call[u]] /\ DOMAIN space \subseteq Spaces
      /\ space = [u \in DOMAIN space |-> space[u]]
      /\ \A u \in DOMAIN space : IsSpace(space[u])
  BY DEF Good, Shapes, SpacesSound
<1>1. CallSound(s)
  BY DEF Good, Shapes, CallsSound
<1>2. ASSUME space' = space, \A u \in Spaces \ {s} : call'[u] = call[u],
             s \in DOMAIN space => call[s].op # "free" \/ call'[s].op = "free"
      PROVE  Rooted'
  BY <1>0, <1>2 DEF Rooted
<1>3. ASSUME NEW from \in (Spaces \ {s}) \cup {NULL}, NewStruct(s, from)
      PROVE  Rooted'
  <2>1. space' = space /\ s \notin DOMAIN space /\ \A u \in Spaces \ {s} : call'[u] = call[u]
    BY <1>0, <1>3 DEF NewStruct
  <2> QED
    BY <1>2, <2>1
<1>4. ASSUME NewPml4(s)
      PROVE  Rooted'
  <2>1. PICK p : IF p = Failed
                 THEN call' = [call EXCEPT ![s].op = "undo"] /\ UNCHANGED space
                 ELSE /\ space' = With(space, s, [struct |-> call[s].struct, tables |-> With(<<>>, <<>>, p[1]),
                                                  pages |-> <<>>])
                      /\ call' = [call EXCEPT ![s] = IF @.from = NULL THEN Idle ELSE [op |-> "pool", from |-> @.from]]
    BY <1>4 DEF NewPml4
  <2>2. \A u \in Spaces \ {s} : call'[u] = call[u]
    BY <1>0, <2>1
  <2>3. s \notin DOMAIN space
    BY <1>1, <1>4, CallCases DEF NewPml4, NewCall
  <2>4. CASE p = Failed
    BY <1>2, <2>1, <2>2, <2>3, <2>4
  <2>5. CASE p # Failed
    <3> DEFINE m == [struct |-> call[s].struct, tables |-> With(<<>>, <<>>, p[1]), pages |-> <<>>]
    <3>1. <<>> \in DOMAIN m.tables
      BY DEF With
    <3>2. DOMAIN space' = DOMAIN space \cup {s} /\ space'[s] = m /\ \A u \in DOMAIN space : space'[u] = space[u]
      BY <2>1, <2>3, <2>5 DEF With
    <3> HIDE DEF m
    <3> QED
      BY <1>0, <2>2, <2>3, <3>1, <3>2 DEF Rooted
  <2> QED
    BY <2>4, <2>5
<1>5. ASSUME NewUndone(s)
      PROVE  Rooted'
  <2>1. space' = space /\ s \notin DOMAIN space /\ \A u \in Spaces \ {s} : call'[u] = call[u]
    BY <1>0, <1>1, <1>5, CallCases DEF NewUndone, NewCall
  <2> QED
    BY <1>2, <2>1
<1>6. ASSUME NEW range \in Ranges, syscall_alloc_at(s, range)
      PROVE  Rooted'
  <2>1. space' = space /\ call[s].op # "free" /\ \A u \in Spaces \ {s} : call'[u] = call[u]
    BY <1>0, <1>6 DEF syscall_alloc_at, Idle
  <2> QED
    BY <1>2, <2>1
<1>7. ASSUME call[s].op # "free", DOMAIN space' = DOMAIN space,
             \A u \in DOMAIN space : DOMAIN space[u].tables \subseteq DOMAIN space'[u].tables,
             \A u \in Spaces \ {s} : call'[u] = call[u]
      PROVE  Rooted'
  BY <1>0, <1>7 DEF Rooted
<1>8. ASSUME MapTable(s)
      PROVE  Rooted'
  <2>1. call[s].op # "free" /\ s \in DOMAIN space
    BY <1>8, MappingCall DEF MapTable, Mapping
  <2>2. \A u \in Spaces \ {s} : call'[u] = call[u]
    BY <1>0, <1>8 DEF MapTable, Mapped
  <2>3. PICK P, g : space' = space \/ space' = [space EXCEPT ![s].tables = With(@, P, g)]
    BY <1>8 DEF MapTable
  <2>4. CASE space' = space
    BY <1>2, <2>1, <2>2, <2>4
  <2>5. CASE space' = [space EXCEPT ![s].tables = With(@, P, g)]
    <3> DEFINE f == With(space[s].tables, P, g)
    <3>1. DOMAIN space[s].tables \subseteq DOMAIN f
      BY DEF With
    <3>2. space' = [space EXCEPT ![s].tables = f]
      BY <2>5
    <3> HIDE DEF f
    <3>3. DOMAIN space' = DOMAIN space /\ space'[s] = [space[s] EXCEPT !.tables = f]
          /\ \A u \in DOMAIN space \ {s} : space'[u] = space[u]
      BY <1>0, <2>1, <3>2
    <3>4. space'[s].tables = f
      BY <1>0, <2>1, <3>3 DEF IsSpace
    <3> QED
      BY <1>7, <2>1, <2>2, <3>1, <3>3, <3>4
  <2> QED
    BY <2>3, <2>4, <2>5
<1>9. ASSUME NEW f, space' = [space EXCEPT ![s].pages = f], s \in DOMAIN space
      PROVE  DOMAIN space' = DOMAIN space /\ \A u \in DOMAIN space : space'[u].tables = space[u].tables
  <2>1. DOMAIN space' = DOMAIN space /\ space'[s] = [space[s] EXCEPT !.pages = f]
        /\ \A u \in DOMAIN space \ {s} : space'[u] = space[u]
    BY <1>0, <1>9
  <2>2. [space[s] EXCEPT !.pages = f] = [struct |-> space[s].struct, tables |-> space[s].tables, pages |-> f]
    <3>1. IsSpace(space[s])
      BY <1>0, <1>9
    <3> QED
      BY ONLY <3>1 DEF IsSpace
  <2>3. space'[s].tables = space[s].tables
    BY <2>1, <2>2
  <2> QED
    BY <2>1, <2>3
<1>10. ASSUME MapEntry(s)
       PROVE  Rooted'
  <2>1. call[s].op # "free" /\ s \in DOMAIN space
    BY <1>10, MappingCall DEF MapEntry, Mapping
  <2>2. \A u \in Spaces \ {s} : call'[u] = call[u]
    BY <1>0, <1>10 DEF MapEntry, Mapped
  <2>3. space' = [space EXCEPT ![s].pages = With(space[s].pages, Addr(s), Page(s))]
    BY <1>10 DEF MapEntry
  <2> QED
    BY <1>7, <1>9, <2>1, <2>2, <2>3
<1>11. ASSUME GiveUp(s)
       PROVE  Rooted'
  <2>1. space' = space /\ call[s].op # "free" /\ \A u \in Spaces \ {s} : call'[u] = call[u]
    BY <1>0, <1>11 DEF GiveUp
  <2> QED
    BY <1>2, <2>1
<1>12. ASSUME NEW v, unmap_page(s, v)
       PROVE  Rooted'
  <2>1. call' = call /\ call[s].op # "free" /\ s \in DOMAIN space
    BY <1>12 DEF unmap_page, Idle
  <2>2. space' = [space EXCEPT ![s].pages = Without(space[s].pages, v)]
    BY <1>12 DEF unmap_page
  <2> QED
    BY <1>7, <1>9, <2>1, <2>2
<1>13. ASSUME ForkPool(s) \/ ForkCopy(s) \/ ForkEnd(s) \/ FreeBegin(s)
       PROVE  Rooted'
  <2>1. space' = space /\ (call[s].op # "free" \/ call'[s].op = "free") /\ \A u \in Spaces \ {s} : call'[u] = call[u]
    BY <1>0, <1>13 DEF ForkPool, ForkCopy, ForkEnd, FreeBegin, Idle
  <2> QED
    BY <1>2, <2>1
<1>14. ASSUME FreePage(s) \/ FreeTable(s)
       PROVE  Rooted'
  <2>1. call' = call /\ call[s].op = "free" /\ DOMAIN space' = DOMAIN space
        /\ \A u \in DOMAIN space \ {s} : space'[u] = space[u]
    BY <1>0, <1>14 DEF FreePage, FreeTable, Freeing
  <2> QED
    BY <2>1 DEF Rooted
<1>15. ASSUME FreeStruct(s)
       PROVE  Rooted'
  <2>1. DOMAIN space' = DOMAIN space \ {s} /\ \A u \in DOMAIN space \ {s} : space'[u] = space[u]
    BY <1>15 DEF FreeStruct, Without
  <2>2. \A u \in Spaces \ {s} : call'[u] = call[u]
    BY <1>0, <1>15 DEF FreeStruct
  <2> QED
    BY <1>0, <2>1, <2>2 DEF Rooted
<1> QED
  BY <1>3, <1>4, <1>5, <1>6, <1>8, <1>10, <1>11, <1>12, <1>13, <1>14, <1>15 DEF SpaceStep

(* Nothing is owned at first. *)
LEMMA MemoryInit ==
    ASSUME Init
    PROVE  MemoryInv
<1>1. HeapSound /\ ParentsStay
  BY DEF Init, HeapSound, ParentsStay, Forking, Idle
<1>2. DOMAIN space = {}
  BY DEF Init
<1>3. SpacesSound
  BY <1>2 DEF Init, SpacesSound
<1>4. CallsSound
  BY DEF Init, CallsSound, CallSound, NoCall
<1>5. Holdings = {}
  BY <1>2 DEF Init, Holdings, HeldBlocks, HeldStructs, HeldTables, HeldPages, HeldRests, Idle
<1>6. Sound(Holdings, owned, dropped)
  BY <1>5 DEF Init, Sound
<1> QED
  BY <1>1, <1>2, <1>3, <1>4, <1>6 DEF MemoryInv, Good, Shapes, Rooted

(* The steps of the heap. *)
LEMMA HeapStepGood ==
    ASSUME Good, Rooted, HeapStep
    PROVE  Good' /\ Rooted'
<1>1. UNCHANGED <<space, call>>
  BY DEF HeapStep, kalloc, KreallocInPlace, KreallocMove, kfree, KreallocFree
<1>2. Good'
  BY kallocGood, KreallocInPlaceGood, KreallocMoveGood, kfreeGood, KreallocFreeGood DEF HeapStep
<1> QED
  BY <1>1, <1>2, RootsKept

(* The steps on a page map. *)
LEMMA SpaceStepGood ==
    ASSUME Good, Rooted, NEW s \in Spaces, SpaceStep(s), Runs'
    PROVE  Good'
BY NewStructGood, NewPml4Good, NewUndoneGood, alloc_atGood, MapTableGood, MapEntryGood, GiveUpGood, unmap_pageGood,
   ForkPoolGood, ForkCopyGood, ForkEndGood, FreeBeginGood, FreePageGood, FreeTableGood, FreeStructGood
   DEF SpaceStep

(* No step is taken once the code has gone on with a NULL pointer or a freed
   page.                                                                     *)
LEMMA StepRuns == Next => Runs
BY DEF Next, HeapStep, SpaceStep, kalloc, KreallocInPlace, KreallocMove, kfree, KreallocFree, NewStruct, NewPml4,
       NewUndone, syscall_alloc_at, MapTable, MapEntry, GiveUp, unmap_page, ForkPool, ForkCopy, ForkEnd, FreeBegin,
       FreePage, FreeTable, FreeStruct, Freeing

(* The invariant is inductive. *)
LEMMA MemoryNext == MemoryInv /\ [Next]_vars => MemoryInv'
<1> SUFFICES ASSUME MemoryInv, [Next]_vars, Runs'
             PROVE  Good' /\ Rooted'
  BY DEF MemoryInv
<1>1. CASE UNCHANGED vars
  <2>1. Good /\ Rooted
    BY <1>1 DEF MemoryInv, Runs, vars
  <2> QED
    BY <1>1, <2>1, NothingChanged, RootsKept DEF vars
<1>2. CASE Next
  <2>1. Good /\ Rooted
    BY <1>2, StepRuns DEF MemoryInv
  <2>2. CASE HeapStep
    BY <2>1, <2>2, HeapStepGood
  <2>3. CASE \E s \in Spaces : SpaceStep(s)
    BY <2>1, <2>3, SpaceStepGood, RootedStep
  <2> QED
    BY <1>2, <2>2, <2>3 DEF Next
<1> QED
  BY <1>1, <1>2

(* The invariant implies Accounted. *)
LEMMA MemoryAccounts == MemoryInv => Accounted
<1> SUFFICES ASSUME Good
             PROVE  /\ \A x, y \in Holdings : x # y => x[3] \cap y[3] = {}
                    /\ (UNION {x[3] : x \in Holdings}) \cap dropped = {}
                    /\ owned = (UNION {x[3] : x \in Holdings}) \cup dropped
                    /\ \A b \in heap : b.size <= b.pages * PAGE_SIZE
  BY DEF MemoryInv, Accounted
<1> DEFINE held == UNION {x[3] : x \in Holdings}
<1>1. \A g : g \in held <=> \E x \in Holdings : g \in x[3]
  OBVIOUS
<1> HIDE DEF held
<1>2. /\ \A x, y \in Holdings : x # y => x[3] \cap y[3] = {}
      /\ held \cap dropped = {} /\ owned = held \cup dropped
  BY <1>1 DEF Good, Sound
<1>3. \A b \in heap : b.size <= b.pages * PAGE_SIZE
  BY RoomFor DEF Good, Shapes, HeapSound, IsBlock
<1> QED
  BY <1>2, <1>3 DEF held

(* Whatever the sizes, the number of address spaces, the depth of the tables
   and the order of the calls, a page that kalloc, krealloc, map_page,
   fork_address_space, free_address_space and syscall_alloc_at have taken from
   pmm_alloc has one holder, or none and is lost for good; none is given back
   while somebody uses it.                                                   *)
THEOREM PagesHeldOnce == Spec => []Accounted
<1>1. Spec => []MemoryInv
  BY MemoryInit, MemoryNext, PTL DEF Spec
<1> QED
  BY <1>1, MemoryAccounts, PTL
=============================================================================
