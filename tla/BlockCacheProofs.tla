-------------------------- MODULE BlockCacheProofs ---------------------------
(***************************************************************************)
(* Theorems about BlockCache: the caches are sound, and the drivers         *)
(* implement plain disks, for any number of disks, blocks and slots and any *)
(* block size, whichever commands fail.                                     *)
(***************************************************************************)
EXTENDS BlockCache, FiniteSetTheorems, SequenceTheorems, WellFoundedInduction, TLAPS

(* Bytes a request can name. *)
Reach(loc, count) == loc + count <= Lba28 * BlockSize /\ loc + count <= Lba32 * BlockSize

(* A request is of its driver, stays within the reach of the commands, never
   transfers more than it was asked for, and a write has all the bytes it will
   copy.                                                                     *)
RequestsSound ==
    \A v \in Drivers : req[v] # NoReq =>
        /\ DriverOf[req[v].drive] = v
        /\ Reach(req[v].loc, req[v].count)
        /\ req[v].op = "flush" => req[v].progress <= NSlots
        /\ req[v].op # "flush" => req[v].progress <= req[v].count
        /\ req[v].op = "write" => Len(req[v].buf) = req[v].count

(* Two slots never hold the same block. *)
SlotsApart ==
    \A d \in Drives : \A s, t \in Slots :
        /\ cache[d][s].status # "NOT_READY" /\ cache[d][t].status # "NOT_READY"
        /\ cache[d][s].block = cache[d][t].block
        => s = t

(* Nothing the flush has passed is dirty again: the lock keeps writers out. *)
FlushedClean ==
    \A v \in Drivers : req[v] # NoReq /\ req[v].op = "flush" =>
        \A s \in Slots : s < req[v].progress => cache[req[v].drive][s].status # "DIRTY"

CacheInv == TypeOK /\ RequestsSound /\ SlotsApart /\ CleanIsOnDisk /\ FlushedClean

-----------------------------------------------------------------------------
(* Division with remainder. *)
LEMMA DivMod ==
    ASSUME NEW x \in Nat, NEW m \in Nat \ {0}
    PROVE  x \div m \in Nat /\ x % m \in 0 .. m - 1 /\ x = m * (x \div m) + (x % m)
  BY Z3

LEMMA DivUnique ==
    ASSUME NEW m \in Nat \ {0}, NEW q \in Nat, NEW o \in 0 .. m - 1
    PROVE  (m * q + o) \div m = q /\ (m * q + o) % m = o
  BY Z3

LEMMA DivBelow ==
    ASSUME NEW x \in Nat, NEW m \in Nat \ {0}, NEW k \in Nat, x < k * m
    PROVE  x \div m < k
<1>1. x \div m \in Nat /\ x >= m * (x \div m) BY DivMod
<1> QED BY <1>1, Z3

(* Addresses, blocks and offsets. *)
LEMMA Sizes == NBytes \in Nat \ {0} /\ 0 \in Addrs /\ Addrs \subseteq Nat /\ Slots \subseteq Nat
               /\ Blocks \subseteq Nat
<1>1. NBlocks \in Nat \ {0} /\ BlockSize \in Nat \ {0} /\ NSlots \in Nat \ {0} BY BlockCacheAssumption
<1>2. NBlocks * BlockSize \in Nat \ {0} BY <1>1, Z3
<1> QED BY <1>1, <1>2 DEF NBytes, Addrs, Slots, Blocks

LEMMA AddressSplits ==
    ASSUME NEW a \in Addrs
    PROVE  /\ a \div BlockSize \in Blocks /\ a % BlockSize \in 0 .. BlockSize - 1
           /\ a = BlockSize * (a \div BlockSize) + (a % BlockSize)
<1>1. NBlocks \in Nat \ {0} /\ BlockSize \in Nat \ {0} BY BlockCacheAssumption
<1>2. NBlocks * BlockSize \in Nat BY <1>1, Z3
<1>3. a \in Nat /\ a < NBlocks * BlockSize BY <1>2 DEF Addrs, NBytes
<1>4. a \div BlockSize < NBlocks BY <1>1, <1>3, DivBelow
<1>5. a \div BlockSize \in Nat /\ a % BlockSize \in 0 .. BlockSize - 1
      /\ a = BlockSize * (a \div BlockSize) + (a % BlockSize)
      BY <1>1, <1>3, DivMod
<1> QED BY <1>1, <1>4, <1>5 DEF Blocks

(* The bytes that follow a inside its block are at the following offsets, and
   no other byte is.                                                         *)
LEMMA ChunkInBlock ==
    ASSUME NEW a \in Addrs, NEW b \in Addrs,
           NEW n \in Nat, n <= BlockSize - (a % BlockSize)
    PROVE  /\ b \in a .. a + n - 1 <=> /\ b \div BlockSize = a \div BlockSize
                                       /\ b % BlockSize \in (a % BlockSize) .. (a % BlockSize) + n - 1
           /\ b \div BlockSize = a \div BlockSize => b - a = (b % BlockSize) - (a % BlockSize)
<1> DEFINE q == a \div BlockSize
           o == a % BlockSize
           p == b \div BlockSize
           u == b % BlockSize
<1>1. BlockSize \in Nat \ {0} BY BlockCacheAssumption
<1>2. q \in Nat /\ o \in 0 .. BlockSize - 1 /\ a = BlockSize * q + o /\ a \in Nat
      BY AddressSplits, Sizes DEF Blocks
<1>3. p \in Nat /\ u \in 0 .. BlockSize - 1 /\ b = BlockSize * p + u /\ b \in Nat
      BY AddressSplits, Sizes DEF Blocks
<1>4. ASSUME b \in a .. a + n - 1 PROVE p = q /\ u = o + (b - a)
  <2> DEFINE k == o + (b - a)
  <2>1. BlockSize * q \in Nat BY <1>1, <1>2, Z3
  <2>2. k \in 0 .. BlockSize - 1 BY <1>1, <1>2, <1>3, <1>4
  <2>3. b = BlockSize * q + k BY <1>2, <1>3, <2>1
  <2> HIDE DEF k
  <2>4. (BlockSize * q + k) \div BlockSize = q /\ (BlockSize * q + k) % BlockSize = k
        BY <1>1, <1>2, <2>2, DivUnique
  <2> QED BY <2>3, <2>4 DEF k
<1>5. ASSUME p = q PROVE b - a = u - o
  <2>1. BlockSize * q \in Nat BY <1>1, <1>2, Z3
  <2> HIDE DEF q, o, p, u
  <2>2. b = BlockSize * q + u BY <1>3, <1>5
  <2> QED BY <1>1, <1>2, <1>3, <2>1, <2>2
<1> HIDE DEF q, o, p, u
<1>6. b \in a .. a + n - 1 <=> p = q /\ u \in o .. o + n - 1
  <2>1. ASSUME b \in a .. a + n - 1 PROVE p = q /\ u \in o .. o + n - 1
        BY <1>1, <1>2, <1>3, <1>4, <2>1
  <2>2. ASSUME p = q, u \in o .. o + n - 1 PROVE b \in a .. a + n - 1
        BY <1>1, <1>2, <1>3, <1>5, <2>2
  <2> QED BY <2>1, <2>2
<1> QED BY <1>5, <1>6 DEF q, o, p, u

(* The smallest slot of a set is in the set. *)
LEMMA MinSlot ==
    ASSUME NEW S \in SUBSET Slots, S # {} PROVE Min(S) \in S
<1> DEFINE Less == {ss \in Nat \X Nat : ss[1] < ss[2]}
<1>1. S \subseteq Nat BY Sizes
<1>2. IsWellFoundedOn(Less, Nat) BY NatLessThanWellFounded, Zenon DEF OpToRel
<1>3. PICK x \in S : \A y \in S : ~ (<<y, x>> \in Less)
  <2> HIDE DEF Less
  <2> QED BY <1>1, <1>2, WFMin
<1>4. \A y \in S : ~ (y < x)
  <2>1. \A a, b \in Nat : a < b => <<a, b>> \in Less OBVIOUS
  <2> HIDE DEF Less
  <2> QED BY <1>1, <1>3, <2>1
<1>5. \A y \in S : x <= y BY <1>1, <1>4
<1> QED BY <1>5, Zenon DEF Min

(* Within the reach of the commands a command reaches the block it is meant
   for; every block of a disk is.                                            *)
LEMMA LbaReaches ==
    ASSUME NEW d, NEW wide, NEW n \in Nat, n < Lba28, n < Lba32 PROVE Lba(d, wide, n) = n
<1>1. Lba28 \in Nat \ {0} /\ Lba32 \in Nat \ {0} BY BlockCacheAssumption
<1>2. n % Lba28 = n /\ n % Lba32 = n BY <1>1, Z3
<1> QED BY <1>2 DEF Lba

LEMMA LbaIsBlock ==
    ASSUME NEW d, NEW wide, NEW n \in Blocks PROVE Lba(d, wide, n) = n
<1>1. n \in Nat /\ n < Lba28 /\ n < Lba32 BY BlockCacheAssumption DEF Blocks
<1> QED BY <1>1, LbaReaches

(* An address whose block is on the disk is on the disk. *)
LEMMA BlockHasAddress ==
    ASSUME NEW a \in Nat, a \div BlockSize \in Blocks PROVE a \in Addrs
<1> DEFINE q == a \div BlockSize
           o == a % BlockSize
<1>1. BlockSize \in Nat \ {0} /\ NBlocks \in Nat \ {0} BY BlockCacheAssumption
<1>2. o \in 0 .. BlockSize - 1 /\ a = BlockSize * q + o BY <1>1, DivMod
<1>3. q \in Nat /\ q <= NBlocks - 1 BY <1>1 DEF Blocks
<1> HIDE DEF q, o
<1>4. BlockSize * q <= BlockSize * (NBlocks - 1) BY <1>1, <1>3, Z3
<1>5. BlockSize * (NBlocks - 1) = NBlocks * BlockSize - BlockSize BY <1>1, Z3
<1>6. BlockSize * q \in Nat /\ NBlocks * BlockSize \in Nat BY <1>1, <1>3, Z3
<1>7. a < NBlocks * BlockSize
  <2> DEFINE x == BlockSize * q
             y == NBlocks * BlockSize
  <2>1. x \in Nat /\ y \in Nat /\ x <= y - BlockSize /\ a = x + o BY <1>2, <1>4, <1>5, <1>6
  <2> HIDE DEF x, y
  <2>2. a < y BY <1>1, <1>2, <2>1
  <2> QED BY <2>2 DEF y
<1> QED BY <1>6, <1>7 DEF Addrs, NBytes

LEMMA BlockEqual ==
    ASSUME NEW f \in Block, NEW g \in Block, \A o \in 0 .. BlockSize - 1 : f[o] = g[o] PROVE f = g
<1> DEFINE D == 0 .. BlockSize - 1
<1>1. f \in [D -> Data] /\ g \in [D -> Data] /\ \A o \in D : f[o] = g[o] BY DEF Block
<1> HIDE DEF D
<1> QED BY ONLY <1>1

LEMMA DriverIsDriver == \A d \in Drives : DriverOf[d] \in Drivers
  BY DEF DriverOf, Drivers

-----------------------------------------------------------------------------
(* The slot that is used next. *)
LEMMA TargetSlot ==
    ASSUME TypeOK, NEW d \in Drives
    PROVE  /\ Target(d) \in Slots
           /\ EmptySlots(d) # {} => cache[d][Target(d)].status = "NOT_READY"
           /\ MustWriteBack(d) <=> cache[d][Target(d)].status = "DIRTY"
           /\ Hand(d) \in {"ide"} \cup Ahci
<1>1. Hand(d) \in {"ide"} \cup Ahci BY DEF Hand, Drives
<1>2. overwritten_slot[Hand(d)] \in 0 .. NSlots BY <1>1 DEF TypeOK
<1>3. CASE EmptySlots(d) # {}
  <2>1. Target(d) \in EmptySlots(d)
    <3>1. EmptySlots(d) \in SUBSET Slots BY DEF EmptySlots
    <3> QED BY <1>3, <3>1, MinSlot DEF Target
  <2>2. Target(d) \in Slots /\ cache[d][Target(d)].status = "NOT_READY"
        BY <2>1 DEF EmptySlots
  <2> QED BY <1>1, <1>3, <2>2 DEF MustWriteBack
<1>4. CASE EmptySlots(d) = {}
  <2>1. Target(d) \in Slots
        BY <1>2, <1>4, BlockCacheAssumption DEF Target, Slots
  <2> QED BY <1>1, <1>4, <2>1 DEF MustWriteBack
<1> QED BY <1>3, <1>4

(* The hand moves on to a slot or to the end. *)
LEMMA HandTyped ==
    ASSUME TypeOK, NEW d \in Drives, AdvanceHand(d)
    PROVE  overwritten_slot' \in [{"ide"} \cup Ahci -> 0 .. NSlots]
<1>1. Target(d) + 1 \in 0 .. NSlots BY TargetSlot, BlockCacheAssumption DEF Slots
<1> QED BY <1>1, TargetSlot DEF AdvanceHand, TypeOK

(* What a request under way is. *)
LEMMA RequestTyped ==
    ASSUME TypeOK, NEW v \in Drivers, req[v] # NoReq
    PROVE  /\ req[v] \in Request /\ req[v].drive \in Drives /\ req[v].progress \in Nat
           /\ req[v].count \in Nat /\ req[v].loc \in Nat
           /\ req[v].buf \in Seq(Data) /\ req[v].op \in {"read", "write", "flush"}
<1> DEFINE r == req[v]
<1>1. r \in Request BY DEF TypeOK
<1> HIDE DEF r
<1>2. /\ r.drive \in Drives /\ r.progress \in Nat /\ r.count \in Nat /\ r.loc \in Nat
      /\ r.buf \in Seq(Data) /\ r.op \in {"read", "write", "flush"}
      BY ONLY <1>1 DEF Request
<1> QED BY <1>1, <1>2 DEF r

(* A transfer that is not complete is at an address the commands can name, and
   at an address of the disk if the block is one of the disk.                *)
LEMMA WantedBlock ==
    ASSUME TypeOK, RequestsSound, NEW v \in Drivers,
           req[v] # NoReq, req[v].op # "flush", req[v].progress < req[v].count
    PROVE  /\ req[v].loc + req[v].progress \in Nat
           /\ (req[v].loc + req[v].progress) % BlockSize \in 0 .. BlockSize - 1
           /\ Wanted(req[v]) \in Nat /\ Wanted(req[v]) < Lba28 /\ Wanted(req[v]) < Lba32
           /\ Wanted(req[v]) \in Blocks => req[v].loc + req[v].progress \in Addrs
<1> DEFINE at == req[v].loc + req[v].progress
           k == Lba28 * BlockSize
           m == Lba32 * BlockSize
<1>1. BlockSize \in Nat \ {0} /\ Lba28 \in Nat /\ Lba32 \in Nat BY BlockCacheAssumption
<1>2. k \in Nat /\ m \in Nat BY <1>1, Z3
<1>3. req[v].loc + req[v].count <= k /\ req[v].loc + req[v].count <= m BY DEF RequestsSound, Reach
<1>4. Wanted(req[v]) = at \div BlockSize BY DEF Wanted
<1> HIDE DEF k, m
<1>5. at \in Nat /\ at < k /\ at < m BY <1>2, <1>3, RequestTyped
<1> HIDE DEF at
<1>6. at \div BlockSize \in Nat /\ at % BlockSize \in 0 .. BlockSize - 1 BY <1>1, <1>5, DivMod
<1>7. at \div BlockSize < Lba28 /\ at \div BlockSize < Lba32 BY <1>1, <1>5, DivBelow DEF k, m
<1>8. at \div BlockSize \in Blocks => at \in Addrs BY <1>5, BlockHasAddress
<1> QED BY <1>4, <1>5, <1>6, <1>7, <1>8 DEF at

(* A chunk is not empty, and ends with the request or before. *)
LEMMA ChunkFits ==
    ASSUME TypeOK, RequestsSound, NEW v \in Drivers,
           req[v] # NoReq, req[v].op # "flush", req[v].progress < req[v].count
    PROVE  /\ Chunk(req[v]) \in 1 .. req[v].count - req[v].progress
           /\ Chunk(req[v]) <= BlockSize - ((req[v].loc + req[v].progress) % BlockSize)
<1> DEFINE left == req[v].count - req[v].progress
           room == BlockSize - ((req[v].loc + req[v].progress) % BlockSize)
<1>1. left \in Nat \ {0} BY RequestTyped
<1>2. (req[v].loc + req[v].progress) % BlockSize \in 0 .. BlockSize - 1 /\ BlockSize \in Nat \ {0}
      BY WantedBlock, BlockCacheAssumption
<1>3. room \in Nat \ {0} BY <1>2
<1>4. Chunk(req[v]) = Min({left, room}) BY DEF Chunk
<1> HIDE DEF left, room
<1>5. Min({left, room}) \in Nat /\ Min({left, room}) >= 1
      /\ Min({left, room}) <= left /\ Min({left, room}) <= room
      BY <1>1, <1>3 DEF Min
<1>6. Chunk(req[v]) \in 1 .. left /\ Chunk(req[v]) <= room BY <1>1, <1>3, <1>4, <1>5
<1> QED BY <1>6 DEF left, room

-----------------------------------------------------------------------------
(* What a user finds in a block that is, and in one that is not cached. *)
CurrentFacts ==
    SlotsApart => \A d \in Drives, n \in Blocks :
        /\ (\A s \in Slots : cache[d][s].status # "NOT_READY" => cache[d][s].block # n)
           => Current(d, n) = disk[d][n]
        /\ \A s \in Slots : cache[d][s].status # "NOT_READY" /\ cache[d][s].block = n
                            => /\ find_sect(d, n) = {s} /\ Min(find_sect(d, n)) = s
                               /\ Current(d, n) = cache[d][s].buf

LEMMA CurrentIs == CurrentFacts
<1> SUFFICES ASSUME SlotsApart, NEW d \in Drives, NEW n \in Blocks
             PROVE  /\ (\A s \in Slots : cache[d][s].status # "NOT_READY" => cache[d][s].block # n)
                       => Current(d, n) = disk[d][n]
                    /\ \A s \in Slots : cache[d][s].status # "NOT_READY" /\ cache[d][s].block = n
                            => /\ find_sect(d, n) = {s} /\ Min(find_sect(d, n)) = s
                               /\ Current(d, n) = cache[d][s].buf
    BY Zenon DEF CurrentFacts
<1>1. (\A s \in Slots : cache[d][s].status # "NOT_READY" => cache[d][s].block # n)
      => Current(d, n) = disk[d][n]
      BY DEF Current, find_sect
<1>2. ASSUME NEW s \in Slots, cache[d][s].status # "NOT_READY", cache[d][s].block = n
      PROVE  /\ find_sect(d, n) = {s} /\ Min(find_sect(d, n)) = s
             /\ Current(d, n) = cache[d][s].buf
  <2>1. find_sect(d, n) = {s} BY <1>2 DEF SlotsApart, find_sect
  <2>2. Min({s}) = s BY MinSlot
  <2> QED BY <2>1, <2>2 DEF Current
<1> QED BY <1>1, <1>2

-----------------------------------------------------------------------------
LEMMA CacheInit == Init => CacheInv
<1> SUFFICES ASSUME Init PROVE CacheInv OBVIOUS
<1>1. devices \subseteq Drives /\ sync \in devices BY BlockCacheAssumption DEF Init
<1>2. EmptySlot \in Slot /\ EmptySlot.status = "NOT_READY"
  <2>1. 0 \in Blocks BY BlockCacheAssumption DEF Blocks
  <2>2. [o \in 0 .. BlockSize - 1 |-> Zero] \in Block BY BlockCacheAssumption DEF Block
  <2> QED BY <2>1, <2>2 DEF EmptySlot, Slot
<1>3. cache \in [Drives -> [Slots -> Slot]]
      /\ \A d \in Drives, s \in Slots : cache[d][s].status = "NOT_READY"
      BY <1>2 DEF Init
<1>4. overwritten_slot \in [{"ide"} \cup Ahci -> 0 .. NSlots] BY BlockCacheAssumption DEF Init
<1>5. \A v \in Drivers : req[v] = NoReq BY DEF Init
<1>6. TypeOK BY <1>1, <1>3, <1>4 DEF Init, TypeOK
<1>7. RequestsSound /\ FlushedClean BY <1>5 DEF RequestsSound, FlushedClean
<1>8. SlotsApart /\ CleanIsOnDisk BY <1>3 DEF SlotsApart, CleanIsOnDisk
<1> QED BY <1>6, <1>7, <1>8 DEF CacheInv

(* A flush names no bytes. *)
LEMMA NothingReaches == Reach(0, 0)
<1>1. BlockSize \in Nat /\ Lba28 \in Nat /\ Lba32 \in Nat BY BlockCacheAssumption
<1>2. Lba28 * BlockSize \in Nat /\ Lba32 * BlockSize \in Nat BY <1>1, Z3
<1> QED BY <1>2 DEF Reach

(* A request begins. *)
LEMMA InvSubmit ==
    ASSUME CacheInv, NEW d \in Drives, NEW op \in {"read", "write", "flush"},
           NEW g \in Nat \X Nat, Reach(g[1], g[2]),
           NEW buf \in Seq(Data), op = "write" => Len(buf) = g[2],
           Submit(d, op, g, buf), sync' \in devices
    PROVE  CacheInv'
<1> DEFINE r == [op |-> op, drive |-> d, loc |-> g[1], count |-> g[2], progress |-> 0, buf |-> buf]
           w == DriverOf[d]
<1>1. r \in Request BY DEF Request
<1>2. w \in Drivers BY DriverIsDriver
<1>3. req' = [req EXCEPT ![w] = r] BY DEF Submit
<1>4. UNCHANGED <<devices, disk, cache, overwritten_slot, tfes>> BY DEF Submit
<1>5. /\ DriverOf[r.drive] = w /\ Reach(r.loc, r.count) /\ r.progress = 0
      /\ r.op = "write" => Len(r.buf) = r.count
      /\ 0 <= NSlots /\ 0 <= r.count
      BY BlockCacheAssumption, Sizes
<1>6. req \in [Drivers -> Request \cup {NoReq}] BY DEF CacheInv, TypeOK
<1> HIDE DEF r, w
<1>7. req' \in [Drivers -> Request \cup {NoReq}] BY <1>1, <1>2, <1>3, <1>6
<1>8. ret' \in [Drivers -> {"none", "done", "failed"}] BY DEF Submit, CacheInv, TypeOK
<1>9. TypeOK' BY <1>4, <1>7, <1>8 DEF CacheInv, TypeOK
<1>10. \A v \in Drivers : req'[v] = IF v = w THEN r ELSE req[v] BY <1>2, <1>3, <1>6
<1>11. RequestsSound' BY <1>5, <1>10 DEF CacheInv, RequestsSound
<1>12. FlushedClean'
  <2>1. \A s \in Slots : ~(s < 0) BY Sizes
  <2> QED BY <1>4, <1>5, <1>10, <2>1 DEF CacheInv, FlushedClean
<1>13. SlotsApart' /\ CleanIsOnDisk' BY <1>4 DEF CacheInv, SlotsApart, CleanIsOnDisk
<1> QED BY <1>9, <1>11, <1>12, <1>13 DEF CacheInv

(* The calls of the users and of the worker. *)
LEMMA InvCalls ==
    ASSUME CacheInv
    PROVE  /\ \A d \in devices : ide_read(d) \/ ahci_read(d) \/ ide_write(d) \/ ahci_write(d) => CacheInv'
           /\ device_sync_worker => CacheInv'
<1>1. devices \subseteq Drives /\ sync \in devices BY DEF CacheInv, TypeOK
<1>2. <<>> \in Seq(Data) OBVIOUS
<1>3. \A g \in Ranges : g \in Nat \X Nat /\ Reach(g[1], g[2])
      BY BlockCacheAssumption DEF Reach
<1>4. ASSUME NEW d \in devices, ide_read(d) \/ ahci_read(d) PROVE CacheInv'
  <2>1. PICK g \in Ranges : Submit(d, "read", g, <<>>) /\ sync' = sync
        BY <1>4 DEF ide_read, ahci_read
  <2> QED BY <1>1, <1>2, <1>3, <2>1, InvSubmit
<1>5. ASSUME NEW d \in devices, ide_write(d) \/ ahci_write(d) PROVE CacheInv'
  <2>0. PICK g \in Ranges : \E buf \in Buffers(g[2]) : Submit(d, "write", g, buf) /\ sync' = sync
        BY <1>5 DEF ide_write, ahci_write
  <2>1. PICK buf \in Buffers(g[2]) : Submit(d, "write", g, buf) /\ sync' = sync BY <2>0
  <2>2. g[2] \in Nat BY <1>3, Sizes
  <2>3. buf \in [1 .. g[2] -> Data] BY BlockCacheAssumption
  <2>4. buf \in Seq(Data) /\ Len(buf) = g[2] BY <2>2, <2>3
  <2> QED BY <1>1, <1>3, <2>1, <2>4, InvSubmit
<1>6. ASSUME device_sync_worker PROVE CacheInv'
  <2>1. Submit(sync, "flush", <<0, 0>>, <<>>) /\ sync' \in devices BY <1>6 DEF device_sync_worker
  <2>2. <<0, 0>> \in Nat \X Nat /\ Reach(<<0, 0>>[1], <<0, 0>>[2]) BY NothingReaches
  <2> QED BY <1>1, <1>2, <2>1, <2>2, InvSubmit
<1> QED BY <1>4, <1>5, <1>6

(* A request ends: what it says about its driver is void. *)
LEMMA FinishKeeps ==
    ASSUME CacheInv, NEW v \in Drivers, NEW how \in {"done", "failed"}, Finish(v, how)
    PROVE  /\ devices' = devices /\ sync' = sync
           /\ req' \in [Drivers -> Request \cup {NoReq}]
           /\ ret' \in [Drivers -> {"none", "done", "failed"}]
           /\ RequestsSound'
           /\ \A w \in Drivers : req'[w] # NoReq => w # v /\ req'[w] = req[w]
<1>1. \A w \in Drivers : req'[w] = IF w = v THEN NoReq ELSE req[w]
      BY DEF Finish, CacheInv, TypeOK
<1> QED BY <1>1 DEF Finish, CacheInv, TypeOK, RequestsSound

(* The other driver's flush is about another disk. *)
LEMMA OthersFlushed ==
    ASSUME CacheInv, NEW v \in Drivers, req[v] # NoReq,
           \A w \in Drivers : req'[w] # NoReq /\ req'[w].op = "flush" => w # v /\ req'[w] = req[w],
           \A d \in Drives : d # req[v].drive => cache'[d] = cache[d]
    PROVE  FlushedClean'
<1> SUFFICES ASSUME NEW w \in Drivers, req'[w] # NoReq, req'[w].op = "flush",
                    NEW s \in Slots, s < req'[w].progress
             PROVE  cache'[req'[w].drive][s].status # "DIRTY"
    BY DEF FlushedClean
<1>1. w # v /\ req'[w] = req[w] OBVIOUS
<1>2. DriverOf[req[w].drive] = w /\ DriverOf[req[v].drive] = v BY <1>1 DEF CacheInv, RequestsSound
<1>3. req[w].drive # req[v].drive BY <1>1, <1>2
<1>4. req[w].drive \in Drives BY <1>1, RequestTyped DEF CacheInv
<1> QED BY <1>1, <1>3, <1>4 DEF CacheInv, FlushedClean

(* What a miss is about. *)
LEMMA MissTyped ==
    ASSUME CacheInv, NEW v \in Drivers, Misses(v)
    PROVE  /\ req[v] # NoReq /\ req[v].op # "flush" /\ req[v].drive \in Drives
           /\ Wanted(req[v]) \in Nat /\ Wanted(req[v]) < Lba28 /\ Wanted(req[v]) < Lba32
           /\ Target(req[v].drive) \in Slots
           /\ \A s \in Slots : cache[req[v].drive][s].status # "NOT_READY"
                               => cache[req[v].drive][s].block # Wanted(req[v])
<1>1. req[v] # NoReq /\ req[v].op # "flush" /\ req[v].progress < req[v].count BY DEF Misses
<1>2. /\ req[v].drive \in Drives
      /\ Wanted(req[v]) \in Nat /\ Wanted(req[v]) < Lba28 /\ Wanted(req[v]) < Lba32
      BY <1>1, RequestTyped, WantedBlock DEF CacheInv
<1>3. Target(req[v].drive) \in Slots BY <1>2, TargetSlot DEF CacheInv
<1> QED BY <1>1, <1>2, <1>3 DEF Misses, find_sect

(* A write-back changes the block of the slot that is reused. *)
LEMMA WriteBackIs ==
    ASSUME TypeOK, NEW d \in Drives, NEW n \in Nat
    PROVE  /\ WrittenBack(d, n) \in [Drives -> [Blocks -> Block]]
           /\ \A e \in Drives, m \in Blocks :
                 WrittenBack(d, n)[e][m] =
                    IF /\ e = d /\ cache[d][Target(d)].status = "DIRTY"
                       /\ m = cache[d][Target(d)].block
                    THEN cache[d][Target(d)].buf ELSE disk[e][m]
<1> DEFINE slot == cache[d][Target(d)]
<1>1. disk \in [Drives -> [Blocks -> Block]] BY DEF TypeOK
<1>2. slot \in Slot BY TargetSlot DEF TypeOK
<1>3. slot.block \in Blocks /\ slot.buf \in Block BY <1>2 DEF Slot
<1>4. Lba(d, n >= Lba28, slot.block) = slot.block BY <1>3, LbaIsBlock
<1>5. MustWriteBack(d) <=> slot.status = "DIRTY" BY TargetSlot
<1>6. WrittenBack(d, n) = IF slot.status = "DIRTY"
                          THEN [disk EXCEPT ![d][slot.block] = slot.buf] ELSE disk
      BY <1>4, <1>5 DEF WrittenBack
<1> HIDE DEF slot
<1>7. CASE slot.status = "DIRTY"
  <2>1. WrittenBack(d, n) = [disk EXCEPT ![d][slot.block] = slot.buf] BY <1>6, <1>7
  <2> QED BY <1>1, <1>3, <1>7, <2>1 DEF slot
<1>8. CASE slot.status # "DIRTY" BY <1>1, <1>6, <1>8 DEF slot
<1> QED BY <1>7, <1>8

(* A block is loaded. *)
LEMMA LoadIs ==
    ASSUME CacheInv, NEW v \in Drivers, Load(v)
    PROVE  LET d == req[v].drive
               n == Wanted(req[v])
               slot == [status |-> "READY", block |-> n, buf |-> disk[d][n]]
           IN  /\ slot \in Slot /\ n \in Blocks
               /\ \A e \in Drives, m \in Blocks :
                     disk'[e][m] = IF /\ e = d /\ cache[d][Target(d)].status = "DIRTY"
                                      /\ m = cache[d][Target(d)].block
                                   THEN cache[d][Target(d)].buf ELSE disk[e][m]
               /\ \A e \in Drives, s \in Slots :
                     cache'[e][s] = IF e = d /\ s = Target(d) THEN slot ELSE cache[e][s]
               /\ \A e \in Drives : e # d => cache'[e] = cache[e]
               /\ disk' \in [Drives -> [Blocks -> Block]]
               /\ cache' \in [Drives -> [Slots -> Slot]]
<1> DEFINE d == req[v].drive
           n == Wanted(req[v])
           t == Target(d)
           slot == [status |-> "READY", block |-> n, buf |-> disk[d][n]]
<1>1. Misses(v) /\ Lba(d, n >= Lba28, n) \in Blocks BY DEF Load
<1>2. /\ d \in Drives /\ n \in Nat /\ n \in Blocks /\ t \in Slots
      /\ Lba(d, n >= Lba28, n) = n
  <2>1. d \in Drives /\ n \in Nat /\ n < Lba28 /\ n < Lba32 /\ t \in Slots BY <1>1, MissTyped
  <2>2. Lba(d, n >= Lba28, n) = n BY <2>1, LbaReaches
  <2> QED BY <1>1, <2>1, <2>2
<1>3. TypeOK BY DEF CacheInv
<1>4. disk' = WrittenBack(d, n) BY DEF Load
<1>5. disk' \in [Drives -> [Blocks -> Block]] BY <1>2, <1>3, <1>4, WriteBackIs
<1>6. \A e \in Drives, m \in Blocks :
         disk'[e][m] = IF e = d /\ cache[d][t].status = "DIRTY" /\ m = cache[d][t].block
                       THEN cache[d][t].buf ELSE disk[e][m]
      BY <1>2, <1>3, <1>4, WriteBackIs
<1>7. cache[d][t].status = "DIRTY" => cache[d][t].block # n BY <1>1, <1>2, MissTyped
<1>8. disk'[d][n] = disk[d][n] BY <1>2, <1>6, <1>7
<1>9. Lba(d, n >= Lba28, n) = n BY <1>2
<1>10. cache' = [cache EXCEPT ![d][t] = slot]
  <2>1. WrittenBack(d, n)[d][Lba(d, n >= Lba28, n)] = disk[d][n] BY <1>4, <1>8, <1>9
  <2> QED BY <2>1 DEF Load
<1>11. slot \in Slot BY <1>2, <1>3 DEF Slot, TypeOK
<1>12. cache \in [Drives -> [Slots -> Slot]] BY <1>3 DEF TypeOK
<1> HIDE DEF d, n, t, slot
<1>13. /\ \A e \in Drives, s \in Slots : cache'[e][s] = IF e = d /\ s = t THEN slot ELSE cache[e][s]
       /\ \A e \in Drives : e # d => cache'[e] = cache[e]
       /\ cache' \in [Drives -> [Slots -> Slot]]
       BY <1>2, <1>10, <1>11, <1>12
<1> QED BY <1>2, <1>5, <1>6, <1>11, <1>13 DEF d, n, t, slot

LEMMA InvLoad == ASSUME CacheInv, NEW v \in Drivers, Load(v) PROVE CacheInv'
<1> DEFINE d == req[v].drive
           n == Wanted(req[v])
           t == Target(d)
<1>1. Misses(v) /\ ~tfes[d] /\ tfes' = tfes /\ AdvanceHand(d)
      /\ UNCHANGED <<devices, req, ret, sync>>
      BY DEF Load, Succeeds
<1>2. d \in Drives /\ n \in Blocks /\ t \in Slots /\ req[v] # NoReq /\ req[v].op # "flush"
      /\ \A s \in Slots : cache[d][s].status # "NOT_READY" => cache[d][s].block # n
      BY <1>1, MissTyped, LoadIs
<1>3. /\ \A e \in Drives, m \in Blocks :
            disk'[e][m] = IF e = d /\ cache[d][t].status = "DIRTY" /\ m = cache[d][t].block
                          THEN cache[d][t].buf ELSE disk[e][m]
      /\ \A e \in Drives, s \in Slots :
            cache'[e][s] = IF e = d /\ s = t
                           THEN [status |-> "READY", block |-> n, buf |-> disk[d][n]] ELSE cache[e][s]
      /\ \A e \in Drives : e # d => cache'[e] = cache[e]
      /\ disk' \in [Drives -> [Blocks -> Block]]
      /\ cache' \in [Drives -> [Slots -> Slot]]
      BY LoadIs
<1>4. TypeOK /\ RequestsSound /\ SlotsApart /\ CleanIsOnDisk BY DEF CacheInv
<1> HIDE DEF d, n, t
<1>5. overwritten_slot' \in [{"ide"} \cup Ahci -> 0 .. NSlots] BY <1>1, <1>2, <1>4, HandTyped
<1>6. TypeOK' BY <1>1, <1>3, <1>4, <1>5 DEF TypeOK
<1>7. RequestsSound' BY <1>1, <1>4 DEF RequestsSound
<1>8. SlotsApart' BY <1>2, <1>3, <1>4 DEF SlotsApart
<1>9. CleanIsOnDisk'
  <2> SUFFICES ASSUME NEW e \in Drives, ~tfes[e], NEW s \in Slots, cache'[e][s].status = "READY"
               PROVE  cache'[e][s].buf = disk'[e][cache'[e][s].block]
      BY <1>1 DEF CleanIsOnDisk
  <2>1. CASE e = d /\ s = t
    <3>1. cache'[e][s].buf = disk[d][n] /\ cache'[e][s].block = n BY <1>3, <2>1
    <3>2. disk'[d][n] = disk[d][n] BY <1>2, <1>3
    <3> QED BY <2>1, <3>1, <3>2
  <2>2. CASE ~(e = d /\ s = t)
    <3>1. cache'[e][s] = cache[e][s] BY <1>3, <2>2
    <3>2. cache[e][s].buf = disk[e][cache[e][s].block] BY <1>4, <3>1 DEF CleanIsOnDisk
    <3>3. cache[e][s].block \in Blocks
      <4>1. cache[e][s] \in Slot BY <1>4 DEF TypeOK
      <4> QED BY <4>1 DEF Slot
    <3>4. disk'[e][cache[e][s].block] = disk[e][cache[e][s].block]
      <4>1. ~(e = d /\ cache[d][t].status = "DIRTY" /\ cache[e][s].block = cache[d][t].block)
            BY <1>2, <1>4, <2>2, <3>1 DEF SlotsApart
      <4> QED BY <1>3, <3>3, <4>1
    <3> QED BY <3>1, <3>2, <3>4
  <2> QED BY <2>1, <2>2
<1>10. FlushedClean' BY <1>1, <1>2, <1>3, OthersFlushed DEF d
<1> QED BY <1>6, <1>7, <1>8, <1>9, <1>10 DEF CacheInv

(* The error bit of a port is never cleared; an IDE disk has none. *)
LEMMA ErrorBit ==
    ASSUME TypeOK, NEW d \in Drives, Fails(d) \/ Hangs(d)
    PROVE  /\ tfes' \in [Drives -> BOOLEAN]
           /\ \A e \in Drives : tfes[e] => tfes'[e]
           /\ \A e \in Drives : e # d => tfes'[e] = tfes[e]
           /\ tfes' = tfes \/ (d \in Ahci /\ tfes' = [tfes EXCEPT ![d] = TRUE])
           /\ Fails(d) /\ d \in Ahci => tfes'[d]
<1>1. tfes \in [Drives -> BOOLEAN] BY DEF TypeOK
<1>2. CASE tfes' = tfes BY <1>1, <1>2, BlockCacheAssumption DEF Fails
<1>3. CASE d \in Ahci /\ tfes' = [tfes EXCEPT ![d] = TRUE] BY <1>1, <1>3
<1> QED BY <1>2, <1>3 DEF Fails, Hangs

(* A write of a dirty slot that fails may leave anything on the drive where
   the slot's block is.                                                       *)
LEMMA FailedWrite ==
    ASSUME CacheInv, NEW d \in Drives, NEW t \in Slots, cache[d][t].status = "DIRTY",
           cache' = cache, Fails(d) \/ Hangs(d),
           \/ disk' = disk
           \/ \E b \in Partly(disk[d][cache[d][t].block], cache[d][t].buf) :
                 disk' = [disk EXCEPT ![d][cache[d][t].block] = b]
    PROVE  /\ disk' \in [Drives -> [Blocks -> Block]]
           /\ SlotsApart' /\ CleanIsOnDisk'
           /\ \A e \in Drives, m \in Blocks, o \in 0 .. BlockSize - 1 :
                 \/ disk'[e][m][o] = disk[e][m][o]
                 \/ e = d /\ m = cache[d][t].block /\ disk'[e][m][o] = cache[d][t].buf[o]
<1>1. TypeOK /\ SlotsApart /\ CleanIsOnDisk BY DEF CacheInv
<1>2. \A e \in Drives : ~tfes'[e] => ~tfes[e] BY <1>1, ErrorBit
<1>3. SlotsApart' BY <1>1 DEF SlotsApart
<1>4. cache[d][t] \in Slot /\ disk \in [Drives -> [Blocks -> Block]] BY <1>1 DEF TypeOK
<1>5. cache[d][t].block \in Blocks /\ cache[d][t].buf \in Block BY <1>4 DEF Slot
<1>6. CASE disk' = disk BY <1>1, <1>2, <1>3, <1>4, <1>6 DEF CleanIsOnDisk
<1>7. ASSUME NEW b \in Partly(disk[d][cache[d][t].block], cache[d][t].buf),
             disk' = [disk EXCEPT ![d][cache[d][t].block] = b]
      PROVE  /\ disk' \in [Drives -> [Blocks -> Block]]
             /\ SlotsApart' /\ CleanIsOnDisk'
             /\ \A e \in Drives, m \in Blocks, o \in 0 .. BlockSize - 1 :
                   \/ disk'[e][m][o] = disk[e][m][o]
                   \/ e = d /\ m = cache[d][t].block /\ disk'[e][m][o] = cache[d][t].buf[o]
  <2>1. b \in Block /\ \A o \in 0 .. BlockSize - 1 :
                          b[o] \in {disk[d][cache[d][t].block][o], cache[d][t].buf[o]}
        BY DEF Partly, Block
  <2>2. \A e \in Drives, m \in Blocks :
           disk'[e][m] = IF e = d /\ m = cache[d][t].block THEN b ELSE disk[e][m]
        BY <1>4, <1>5, <1>7
  <2>3. disk' \in [Drives -> [Blocks -> Block]] BY <1>4, <1>5, <1>7, <2>1
  <2>4. CleanIsOnDisk'
    <3> SUFFICES ASSUME NEW e \in Drives, ~tfes[e], NEW s \in Slots, cache[e][s].status = "READY"
                 PROVE  cache[e][s].buf = disk'[e][cache[e][s].block]
        BY <1>2 DEF CleanIsOnDisk
    <3>1. cache[e][s] \in Slot BY <1>1 DEF TypeOK
    <3>2. cache[e][s].block \in Blocks BY <3>1 DEF Slot
    <3>3. ~(e = d /\ cache[e][s].block = cache[d][t].block) BY <1>1 DEF SlotsApart
    <3>4. disk'[e][cache[e][s].block] = disk[e][cache[e][s].block] BY <2>2, <3>2, <3>3
    <3> QED BY <1>1, <3>4 DEF CleanIsOnDisk
  <2> QED BY <1>3, <2>1, <2>2, <2>3, <2>4
<1> QED BY <1>6, <1>7

(* What the failing write-back and the failing flush are about. *)
LEMMA WriteBackFailsIs ==
    ASSUME CacheInv, NEW v \in Drivers, WriteBackFails(v)
    PROVE  LET d == req[v].drive
               t == Target(d)
           IN  /\ req[v] # NoReq /\ d \in Drives /\ t \in Slots /\ cache[d][t].status = "DIRTY"
               /\ cache' = cache /\ (Fails(d) \/ Hangs(d)) /\ Finish(v, "failed")
               /\ \/ disk' = disk
                  \/ \E b \in Partly(disk[d][cache[d][t].block], cache[d][t].buf) :
                        disk' = [disk EXCEPT ![d][cache[d][t].block] = b]
               /\ overwritten_slot' \in [{"ide"} \cup Ahci -> 0 .. NSlots]
<1> DEFINE d == req[v].drive
           n == Wanted(req[v])
           t == Target(d)
           slot == cache[d][t]
<1>1. Misses(v) /\ MustWriteBack(d) /\ AdvanceHand(d) /\ cache' = cache /\ Finish(v, "failed")
      BY DEF WriteBackFails
<1>2. TypeOK BY DEF CacheInv
<1>3. d \in Drives /\ n \in Nat /\ t \in Slots /\ req[v] # NoReq BY <1>1, MissTyped
<1>4. slot.status = "DIRTY" BY <1>1, <1>2, <1>3, TargetSlot
<1>5. slot \in Slot BY <1>2, <1>3 DEF TypeOK
<1>6. slot.block \in Blocks BY <1>5 DEF Slot
<1>7. Lba(d, n >= Lba28, slot.block) = slot.block BY <1>6, LbaIsBlock
<1>8. \/ Fails(d) /\ \E b \in Partly(disk[d][slot.block], slot.buf) :
                        disk' = [disk EXCEPT ![d][slot.block] = b]
      \/ Hangs(d) /\ disk' = disk
      BY <1>7 DEF WriteBackFails
<1>9. overwritten_slot' \in [{"ide"} \cup Ahci -> 0 .. NSlots] BY <1>1, <1>2, <1>3, HandTyped
<1> QED BY <1>1, <1>3, <1>4, <1>8, <1>9

LEMMA FlushFailsIs ==
    ASSUME CacheInv, NEW v \in Drivers, FlushFails(v)
    PROVE  LET d == req[v].drive
               t == req[v].progress
           IN  /\ req[v] # NoReq /\ d \in Drives /\ t \in Slots /\ cache[d][t].status = "DIRTY"
               /\ cache' = cache /\ (Fails(d) \/ Hangs(d)) /\ Finish(v, "failed")
               /\ \/ disk' = disk
                  \/ \E b \in Partly(disk[d][cache[d][t].block], cache[d][t].buf) :
                        disk' = [disk EXCEPT ![d][cache[d][t].block] = b]
               /\ overwritten_slot' = overwritten_slot
<1> DEFINE d == req[v].drive
           t == req[v].progress
           slot == cache[d][t]
<1>1. req[v] # NoReq /\ t < NSlots /\ slot.status = "DIRTY" /\ cache' = cache /\ Finish(v, "failed")
      /\ overwritten_slot' = overwritten_slot
      BY DEF FlushFails, Flushing
<1>2. TypeOK BY DEF CacheInv
<1>3. d \in Drives /\ t \in Nat BY <1>1, <1>2, RequestTyped
<1>4. t \in Slots BY <1>1, <1>3, BlockCacheAssumption DEF Slots
<1>5. slot \in Slot BY <1>2, <1>3, <1>4 DEF TypeOK
<1>6. slot.block \in Blocks BY <1>5 DEF Slot
<1>7. Lba(d, slot.block >= Lba28, slot.block) = slot.block BY <1>6, LbaIsBlock
<1>8. \/ Fails(d) /\ \E b \in Partly(disk[d][slot.block], slot.buf) :
                        disk' = [disk EXCEPT ![d][slot.block] = b]
      \/ Hangs(d) /\ disk' = disk
      BY <1>7 DEF FlushFails
<1> QED BY <1>1, <1>3, <1>4, <1>8

LEMMA InvFailedWrites ==
    ASSUME CacheInv, NEW v \in Drivers, WriteBackFails(v) \/ FlushFails(v) PROVE CacheInv'
<1> DEFINE d == req[v].drive
<1>1. PICK t \in Slots :
         /\ req[v] # NoReq /\ d \in Drives /\ cache[d][t].status = "DIRTY"
         /\ cache' = cache /\ (Fails(d) \/ Hangs(d)) /\ Finish(v, "failed")
         /\ \/ disk' = disk
            \/ \E b \in Partly(disk[d][cache[d][t].block], cache[d][t].buf) :
                  disk' = [disk EXCEPT ![d][cache[d][t].block] = b]
         /\ overwritten_slot' \in [{"ide"} \cup Ahci -> 0 .. NSlots]
  <2>1. CASE WriteBackFails(v) BY <2>1, WriteBackFailsIs
  <2>2. CASE FlushFails(v)
    <3>1. overwritten_slot \in [{"ide"} \cup Ahci -> 0 .. NSlots] BY DEF CacheInv, TypeOK
    <3> QED BY <2>2, <3>1, FlushFailsIs
  <2> QED BY <2>1, <2>2
<1>2. TypeOK BY DEF CacheInv
<1> HIDE DEF d
<1>3. disk' \in [Drives -> [Blocks -> Block]] /\ SlotsApart' /\ CleanIsOnDisk'
      BY <1>1, FailedWrite
<1>4. tfes' \in [Drives -> BOOLEAN] BY <1>1, <1>2, ErrorBit
<1>5. /\ devices' = devices /\ sync' = sync
      /\ req' \in [Drivers -> Request \cup {NoReq}]
      /\ ret' \in [Drivers -> {"none", "done", "failed"}]
      /\ RequestsSound'
      /\ \A w \in Drivers : req'[w] # NoReq => w # v /\ req'[w] = req[w]
      BY <1>1, FinishKeeps
<1>6. TypeOK' BY <1>1, <1>2, <1>3, <1>4, <1>5 DEF TypeOK
<1>7. FlushedClean' BY <1>1, <1>5, OthersFlushed
<1> QED BY <1>3, <1>5, <1>6, <1>7 DEF CacheInv

(* A load that fails: the write-back has been done, and only the buffer of the
   slot that was to be reused, only on an AHCI disk and only with the error bit
   set, may have changed.                                                    *)
LEMMA LoadFailsIs ==
    ASSUME CacheInv, NEW v \in Drivers, LoadFails(v)
    PROVE  LET d == req[v].drive
               t == Target(d)
           IN  /\ req[v] # NoReq /\ d \in Drives /\ t \in Slots
               /\ Fails(d) \/ Hangs(d)
               /\ \A e \in Drives, m \in Blocks :
                     disk'[e][m] = IF /\ e = d /\ cache[d][t].status = "DIRTY"
                                      /\ m = cache[d][t].block
                                   THEN cache[d][t].buf ELSE disk[e][m]
               /\ disk' \in [Drives -> [Blocks -> Block]]
               /\ cache' \in [Drives -> [Slots -> Slot]]
               /\ \A e \in Drives, s \in Slots :
                     /\ e # d \/ s # t => cache'[e][s] = cache[e][s]
                     /\ cache'[e][s].status = cache[e][s].status
                     /\ cache'[e][s].block = cache[e][s].block
               /\ \A e \in Drives : e # d => cache'[e] = cache[e]
               /\ cache' = cache \/ (d \in Ahci /\ tfes'[d])
               /\ overwritten_slot' \in [{"ide"} \cup Ahci -> 0 .. NSlots]
               /\ Finish(v, "failed")
<1> DEFINE d == req[v].drive
           n == Wanted(req[v])
           t == Target(d)
           old == cache[d][t]
<1>1. Misses(v) /\ AdvanceHand(d) /\ disk' = WrittenBack(d, n) /\ Finish(v, "failed")
      BY DEF LoadFails
<1>2. TypeOK BY DEF CacheInv
<1>3. d \in Drives /\ n \in Nat /\ t \in Slots /\ req[v] # NoReq BY <1>1, MissTyped
<1>4. /\ disk' \in [Drives -> [Blocks -> Block]]
      /\ \A e \in Drives, m \in Blocks :
            disk'[e][m] = IF e = d /\ cache[d][t].status = "DIRTY" /\ m = cache[d][t].block
                          THEN cache[d][t].buf ELSE disk[e][m]
      BY <1>1, <1>2, <1>3, WriteBackIs
<1>5. overwritten_slot' \in [{"ide"} \cup Ahci -> 0 .. NSlots] BY <1>1, <1>2, <1>3, HandTyped
<1>6. \/ Hangs(d) /\ cache' = cache
      \/ Fails(d) /\ cache' = cache
      \/ Fails(d) /\ \E b \in Received(d, old.buf, disk'[d], Lba(d, n >= Lba28, n)) :
                         cache' = [cache EXCEPT ![d][t].buf = b]
      BY DEF LoadFails
<1>7. cache \in [Drives -> [Slots -> Slot]] /\ old \in Slot BY <1>2, <1>3 DEF TypeOK
<1>8. old.buf \in Block BY <1>7 DEF Slot
<1> HIDE DEF d, n, t
<1>9. CASE cache' = cache
      BY <1>1, <1>3, <1>4, <1>5, <1>6, <1>7, <1>9 DEF d, t
<1>10. CASE Fails(d) /\ \E b \in Received(d, old.buf, disk'[d], Lba(d, n >= Lba28, n)) :
                           cache' = [cache EXCEPT ![d][t].buf = b]
  <2>1. PICK b \in Received(d, old.buf, disk'[d], Lba(d, n >= Lba28, n)) :
                 cache' = [cache EXCEPT ![d][t].buf = b]
        BY <1>10
  <2>2. b \in Block /\ (d \in Ide => b = old.buf)
    <3>1. d \in Ide => d \notin Ahci BY BlockCacheAssumption
    <3> HIDE DEF old
    <3> QED BY <1>8, <2>1, <3>1 DEF Received, Partly
  <2>3. cache' = [cache EXCEPT ![d] = [cache[d] EXCEPT ![t] = [cache[d][t] EXCEPT !.buf = b]]]
        BY <2>1
  <2>4. [old EXCEPT !.buf = b] \in Slot /\ [old EXCEPT !.buf = b].status = old.status
        /\ [old EXCEPT !.buf = b].block = old.block
        BY <1>7, <2>2 DEF Slot
  <2>5. d \in Ide => [old EXCEPT !.buf = b] = old BY <1>7, <2>2 DEF Slot
  <2> DEFINE new == [old EXCEPT !.buf = b]
  <2>6. cache' = [cache EXCEPT ![d] = [cache[d] EXCEPT ![t] = new]] BY <2>3
  <2> HIDE DEF new
  <2>7. /\ cache' \in [Drives -> [Slots -> Slot]]
        /\ \A e \in Drives, s \in Slots : cache'[e][s] = IF e = d /\ s = t THEN new ELSE cache[e][s]
        /\ \A e \in Drives : e # d => cache'[e] = cache[e]
        BY <1>3, <1>7, <2>4, <2>6 DEF new
  <2>8. d \in Ide => cache' = cache
    <3> HAVE d \in Ide
    <3>1. new = cache[d][t] BY <2>5 DEF new
    <3> QED BY <1>3, <1>7, <2>6, <3>1
  <2>9. d \in Ahci => tfes'[d] BY <1>2, <1>3, <1>10, ErrorBit
  <2>10. d \in Ide \/ d \in Ahci BY <1>3 DEF Drives
  <2>11. \A e \in Drives, s \in Slots :
                     /\ e # d \/ s # t => cache'[e][s] = cache[e][s]
                     /\ cache'[e][s].status = cache[e][s].status
                     /\ cache'[e][s].block = cache[e][s].block
         BY <2>4, <2>7 DEF new
  <2> QED BY <1>1, <1>3, <1>4, <1>5, <1>10, <2>7, <2>8, <2>9, <2>10, <2>11 DEF d, t
<1> QED BY <1>6, <1>9, <1>10

LEMMA InvLoadFails == ASSUME CacheInv, NEW v \in Drivers, LoadFails(v) PROVE CacheInv'
<1> DEFINE d == req[v].drive
           t == Target(d)
<1>1. /\ req[v] # NoReq /\ d \in Drives /\ t \in Slots
      /\ Fails(d) \/ Hangs(d)
      /\ \A e \in Drives, m \in Blocks :
            disk'[e][m] = IF e = d /\ cache[d][t].status = "DIRTY" /\ m = cache[d][t].block
                          THEN cache[d][t].buf ELSE disk[e][m]
      /\ disk' \in [Drives -> [Blocks -> Block]]
      /\ cache' \in [Drives -> [Slots -> Slot]]
      /\ \A e \in Drives, s \in Slots :
            /\ e # d \/ s # t => cache'[e][s] = cache[e][s]
            /\ cache'[e][s].status = cache[e][s].status
            /\ cache'[e][s].block = cache[e][s].block
      /\ \A e \in Drives : e # d => cache'[e] = cache[e]
      /\ cache' = cache \/ tfes'[d]
      /\ overwritten_slot' \in [{"ide"} \cup Ahci -> 0 .. NSlots]
      /\ Finish(v, "failed")
      BY LoadFailsIs
<1>2. TypeOK /\ SlotsApart /\ CleanIsOnDisk BY DEF CacheInv
<1> HIDE DEF d, t
<1>3. tfes' \in [Drives -> BOOLEAN] /\ \A e \in Drives : tfes[e] => tfes'[e] BY <1>1, <1>2, ErrorBit
<1>4. /\ devices' = devices /\ sync' = sync
      /\ req' \in [Drivers -> Request \cup {NoReq}]
      /\ ret' \in [Drivers -> {"none", "done", "failed"}]
      /\ RequestsSound'
      /\ \A w \in Drivers : req'[w] # NoReq => w # v /\ req'[w] = req[w]
      BY <1>1, FinishKeeps
<1>5. TypeOK' BY <1>1, <1>2, <1>3, <1>4 DEF TypeOK
<1>6. SlotsApart' BY <1>1, <1>2 DEF SlotsApart
<1>7. CleanIsOnDisk'
  <2> SUFFICES ASSUME NEW e \in Drives, ~tfes'[e], NEW s \in Slots, cache'[e][s].status = "READY"
               PROVE  cache'[e][s].buf = disk'[e][cache'[e][s].block]
      BY DEF CleanIsOnDisk
  <2>1. cache'[e][s] = cache[e][s] BY <1>1
  <2>2. cache[e][s].buf = disk[e][cache[e][s].block] BY <1>2, <1>3, <2>1 DEF CleanIsOnDisk
  <2>3. cache[e][s].block \in Blocks
    <3>1. cache[e][s] \in Slot BY <1>2 DEF TypeOK
    <3> QED BY <3>1 DEF Slot
  <2>4. ~(e = d /\ cache[d][t].status = "DIRTY" /\ cache[e][s].block = cache[d][t].block)
        BY <1>1, <1>2, <2>1 DEF SlotsApart
  <2>5. disk'[e][cache[e][s].block] = disk[e][cache[e][s].block] BY <1>1, <2>3, <2>4
  <2> QED BY <2>1, <2>2, <2>5
<1>8. FlushedClean' BY <1>1, <1>4, OthersFlushed DEF d
<1> QED BY <1>4, <1>5, <1>6, <1>7, <1>8 DEF CacheInv

(* What a hit is about. *)
LEMMA HitTyped ==
    ASSUME CacheInv, NEW v \in Drivers, Hits(v)
    PROVE  /\ req[v] # NoReq /\ req[v].op # "flush" /\ req[v].progress < req[v].count
           /\ req[v].drive \in Drives /\ Wanted(req[v]) \in Blocks /\ HitSlot(req[v]) \in Slots
           /\ cache[req[v].drive][HitSlot(req[v])] \in Slot
           /\ cache[req[v].drive][HitSlot(req[v])].block = Wanted(req[v])
           /\ cache[req[v].drive][HitSlot(req[v])].status # "NOT_READY"
<1>1. req[v] # NoReq /\ req[v].op # "flush" /\ req[v].progress < req[v].count BY DEF Hits
<1>2. req[v].drive \in Drives BY <1>1, RequestTyped DEF CacheInv
<1>3. find_sect(req[v].drive, Wanted(req[v])) \in SUBSET Slots BY DEF find_sect
<1>4. HitSlot(req[v]) \in find_sect(req[v].drive, Wanted(req[v])) BY <1>3, MinSlot DEF Hits, HitSlot
<1>5. HitSlot(req[v]) \in Slots BY <1>3, <1>4
<1>6. cache[req[v].drive][HitSlot(req[v])] \in Slot BY <1>2, <1>5 DEF CacheInv, TypeOK
<1>7. cache[req[v].drive][HitSlot(req[v])].block = Wanted(req[v]) BY <1>4 DEF find_sect
<1>8. cache[req[v].drive][HitSlot(req[v])].block \in Blocks BY <1>6 DEF Slot
<1> QED BY <1>1, <1>2, <1>4, <1>5, <1>6, <1>7, <1>8 DEF find_sect

(* The bytes that are copied out of a block. *)
LEMMA PieceTyped ==
    ASSUME NEW buf \in Block, NEW o \in 0 .. BlockSize - 1, NEW n \in Nat, n <= BlockSize - o
    PROVE  [i \in 1 .. n |-> buf[o + i - 1]] \in Seq(Data)
<1>1. BlockSize \in Nat BY BlockCacheAssumption
<1>2. \A i \in 1 .. n : o + i - 1 \in 0 .. BlockSize - 1 BY <1>1
<1>3. \A i \in 1 .. n : buf[o + i - 1] \in Data BY <1>2 DEF Block
<1> QED BY <1>3

(* The request that goes on after a copy. *)
LEMMA CopiedRequest ==
    ASSUME NEW r \in Request, NEW n \in Nat, NEW b \in Seq(Data)
    PROVE  /\ [r EXCEPT !.progress = r.progress + n, !.buf = b] \in Request
           /\ [r EXCEPT !.progress = r.progress + n, !.buf = b]
              = [op |-> r.op, drive |-> r.drive, loc |-> r.loc, count |-> r.count,
                 progress |-> r.progress + n, buf |-> b]
<1> DEFINE q == [op |-> r.op, drive |-> r.drive, loc |-> r.loc, count |-> r.count,
                 progress |-> r.progress + n, buf |-> b]
<1>1. /\ r.op \in {"read", "write", "flush"} /\ r.drive \in Drives /\ r.loc \in Nat
      /\ r.count \in Nat /\ r.buf \in Seq(Data)
      BY DEF Request
<1>2. r.progress \in Nat BY DEF Request
<1>3. r.progress + n \in Nat BY ONLY <1>2, n \in Nat
<1>4. q \in Request BY <1>1, <1>3 DEF Request
<1>5. [r EXCEPT !.progress = r.progress + n, !.buf = b] = q
  <2> DEFINE k == r.progress + n
             h == [r EXCEPT !.progress = k]
  <2> HIDE DEF k
  <2>1. h = [op |-> r.op, drive |-> r.drive, loc |-> r.loc, count |-> r.count,
             progress |-> k, buf |-> r.buf]
        BY DEF Request
  <2>2. [r EXCEPT !.progress = k, !.buf = b] = [h EXCEPT !.buf = b] OBVIOUS
  <2> HIDE DEF h
  <2>3. [h EXCEPT !.buf = b] = [op |-> r.op, drive |-> r.drive, loc |-> r.loc, count |-> r.count,
                                progress |-> k, buf |-> b]
        BY <2>1
  <2> QED BY <2>2, <2>3 DEF k
<1> QED BY <1>4, <1>5

LEMMA CopyOutIs ==
    ASSUME CacheInv, NEW v \in Drivers, CopyOut(v)
    PROVE  LET r == req[v]
               o == (r.loc + r.progress) % BlockSize
               b == r.buf \o [i \in 1 .. Chunk(r) |-> cache[r.drive][HitSlot(r)].buf[o + i - 1]]
           IN  /\ Hits(v) /\ r.op = "read" /\ r \in Request /\ Chunk(r) \in Nat /\ b \in Seq(Data)
               /\ req' = [req EXCEPT ![v] = [r EXCEPT !.progress = r.progress + Chunk(r), !.buf = b]]
<1> DEFINE r == req[v]
           o == (r.loc + r.progress) % BlockSize
           piece == [i \in 1 .. Chunk(r) |-> cache[r.drive][HitSlot(r)].buf[o + i - 1]]
<1>1. Hits(v) /\ r.op = "read" BY DEF CopyOut
<1>2. r # NoReq /\ r.op # "flush" /\ r.progress < r.count
      /\ cache[r.drive][HitSlot(r)] \in Slot
      BY <1>1, HitTyped
<1>3. r \in Request /\ r.buf \in Seq(Data) BY <1>2, RequestTyped DEF CacheInv
<1>4. Chunk(r) \in Nat /\ Chunk(r) <= BlockSize - o
  <2>1. Chunk(r) \in 1 .. r.count - r.progress /\ Chunk(r) <= BlockSize - o
        BY <1>2, ChunkFits DEF CacheInv
  <2> QED BY <2>1
<1>5. o \in 0 .. BlockSize - 1 BY <1>2, WantedBlock DEF CacheInv
<1>6. cache[r.drive][HitSlot(r)].buf \in Block BY <1>2 DEF Slot
<1>7. piece \in Seq(Data) BY <1>4, <1>5, <1>6, PieceTyped
<1>8. req \in [Drivers -> Request \cup {NoReq}] BY DEF CacheInv, TypeOK
<1>9. req' = [req EXCEPT ![v] = [r EXCEPT !.progress = r.progress + Chunk(r), !.buf = r.buf \o piece]]
  <2>1. req' = [req EXCEPT ![v].progress = @ + Chunk(r), ![v].buf = @ \o piece] BY DEF CopyOut
  <2> HIDE DEF piece
  <2> QED BY <1>8, <2>1
<1>10. r.buf \o piece \in Seq(Data)
  <2> HIDE DEF piece, r
  <2> QED BY <1>3, <1>7
<1> QED BY <1>1, <1>3, <1>4, <1>9, <1>10

LEMMA InvCopyOut == ASSUME CacheInv, NEW v \in Drivers, CopyOut(v) PROVE CacheInv'
<1> DEFINE r == req[v]
           b == r.buf \o [i \in 1 .. Chunk(r) |->
                    cache[r.drive][HitSlot(r)].buf[((r.loc + r.progress) % BlockSize) + i - 1]]
           q == [r EXCEPT !.progress = r.progress + Chunk(r), !.buf = b]
<1>1. Hits(v) /\ r.op = "read" /\ r \in Request /\ Chunk(r) \in Nat /\ b \in Seq(Data)
      /\ req' = [req EXCEPT ![v] = q]
      BY CopyOutIs
<1>2. r # NoReq /\ r.progress < r.count BY <1>1, HitTyped
<1>3. Chunk(r) \in 1 .. r.count - r.progress BY <1>1, <1>2, ChunkFits DEF CacheInv
<1>4. r.progress \in Nat /\ r.count \in Nat BY <1>2, RequestTyped DEF CacheInv
<1>5. UNCHANGED <<devices, disk, cache, overwritten_slot, tfes, ret, sync>> BY DEF CopyOut
<1>6. /\ q \in Request /\ q.op = r.op /\ q.drive = r.drive /\ q.loc = r.loc
      /\ q.count = r.count /\ q.progress = r.progress + Chunk(r)
  <2> HIDE DEF b, r
  <2>1. q \in Request /\ q = [op |-> r.op, drive |-> r.drive, loc |-> r.loc, count |-> r.count,
                              progress |-> r.progress + Chunk(r), buf |-> b]
        BY <1>1, CopiedRequest
  <2> HIDE DEF q
  <2> QED BY <2>1
<1>7. TypeOK /\ RequestsSound /\ SlotsApart /\ CleanIsOnDisk BY DEF CacheInv
<1> HIDE DEF q, b
<1>8. \A w \in Drivers : req'[w] = IF w = v THEN q ELSE req[w] BY <1>1, <1>7 DEF TypeOK
<1>9. TypeOK'
  <2>1. req' \in [Drivers -> Request \cup {NoReq}] BY <1>1, <1>6, <1>7 DEF TypeOK
  <2> QED BY <1>5, <1>7, <2>1 DEF TypeOK
<1>10. RequestsSound' BY <1>1, <1>2, <1>3, <1>4, <1>6, <1>7, <1>8 DEF RequestsSound
<1>11. FlushedClean' BY <1>1, <1>2, <1>5, <1>6, <1>8, OthersFlushed
<1> QED BY <1>5, <1>7, <1>9, <1>10, <1>11 DEF CacheInv, SlotsApart, CleanIsOnDisk

(* The bytes that are copied into a block. *)
NewBytes(old, r) ==
    LET offset == (r.loc + r.progress) % BlockSize
    IN  [o \in 0 .. BlockSize - 1 |-> IF o \in offset .. offset + Chunk(r) - 1
                                      THEN r.buf[r.progress + o - offset + 1] ELSE old[o]]

LEMMA PatchedIs ==
    ASSUME CacheInv, NEW v \in Drivers, Hits(v), req[v].op = "write"
    PROVE  LET slot == cache[req[v].drive][HitSlot(req[v])]
               new == [status |-> "DIRTY", block |-> slot.block, buf |-> NewBytes(slot.buf, req[v])]
           IN  Patched(slot, req[v]) = new /\ new \in Slot
<1> DEFINE r == req[v]
           slot == cache[r.drive][HitSlot(r)]
           offset == (r.loc + r.progress) % BlockSize
           bytes == NewBytes(slot.buf, r)
<1>1. r # NoReq /\ r.op # "flush" /\ r.progress < r.count /\ slot \in Slot BY HitTyped
<1>2. slot.buf \in Block /\ slot.block \in Blocks BY <1>1 DEF Slot
<1>3. DOMAIN slot.buf = 0 .. BlockSize - 1 BY <1>2 DEF Block
<1>4. bytes = [o \in DOMAIN slot.buf |-> IF o \in offset .. offset + Chunk(r) - 1
                                         THEN r.buf[r.progress + o - offset + 1] ELSE slot.buf[o]]
      BY <1>3 DEF NewBytes
<1>5. Patched(slot, r) = [slot EXCEPT !.buf = bytes, !.status = "DIRTY"]
      BY <1>4 DEF Patched
<1>6. bytes \in Block
  <2>1. offset \in 0 .. BlockSize - 1 /\ BlockSize \in Nat
        BY <1>1, WantedBlock, BlockCacheAssumption DEF CacheInv
  <2>2. Chunk(r) \in 1 .. r.count - r.progress BY <1>1, ChunkFits DEF CacheInv
  <2>3. r.progress \in Nat /\ r.count \in Nat /\ r.buf \in Seq(Data) BY <1>1, RequestTyped DEF CacheInv
  <2>4. Len(r.buf) = r.count BY <1>1 DEF CacheInv, RequestsSound
  <2> HIDE DEF offset, r
  <2>5. \A o \in 0 .. BlockSize - 1 : o \in offset .. offset + Chunk(r) - 1
           => r.progress + o - offset + 1 \in 1 .. Len(r.buf)
        BY SMTT(30), <2>1, <2>2, <2>3, <2>4
  <2>6. \A o \in 0 .. BlockSize - 1 : o \in offset .. offset + Chunk(r) - 1
           => r.buf[r.progress + o - offset + 1] \in Data
        BY <2>3, <2>5
  <2>7. \A o \in 0 .. BlockSize - 1 : slot.buf[o] \in Data BY <1>2 DEF Block
  <2>8. bytes = [o \in 0 .. BlockSize - 1 |-> IF o \in offset .. offset + Chunk(r) - 1
                                              THEN r.buf[r.progress + o - offset + 1] ELSE slot.buf[o]]
        BY DEF NewBytes, offset
  <2> QED BY <2>6, <2>7, <2>8 DEF Block
<1> HIDE DEF bytes
<1>7. [slot EXCEPT !.buf = bytes, !.status = "DIRTY"]
      = [status |-> "DIRTY", block |-> slot.block, buf |-> bytes]
  <2> DEFINE h == [slot EXCEPT !.buf = bytes]
  <2> HIDE DEF slot
  <2>1. h = [status |-> slot.status, block |-> slot.block, buf |-> bytes] BY <1>1 DEF Slot
  <2>2. [slot EXCEPT !.buf = bytes, !.status = "DIRTY"] = [h EXCEPT !.status = "DIRTY"] OBVIOUS
  <2> HIDE DEF h
  <2>3. [h EXCEPT !.status = "DIRTY"] = [status |-> "DIRTY", block |-> slot.block, buf |-> bytes]
        BY <2>1
  <2> QED BY <2>2, <2>3
<1>8. [status |-> "DIRTY", block |-> slot.block, buf |-> bytes] \in Slot BY <1>2, <1>6 DEF Slot
<1> QED BY <1>5, <1>7, <1>8 DEF bytes

LEMMA CopyInIs ==
    ASSUME CacheInv, NEW v \in Drivers, CopyIn(v)
    PROVE  LET r == req[v]
               d == r.drive
               slot == cache[d][HitSlot(r)]
               new == [status |-> "DIRTY", block |-> slot.block, buf |-> NewBytes(slot.buf, r)]
               q == [op |-> r.op, drive |-> d, loc |-> r.loc, count |-> r.count,
                     progress |-> r.progress + Chunk(r), buf |-> r.buf]
           IN  /\ Hits(v) /\ r.op = "write" /\ new \in Slot /\ q \in Request
               /\ cache' \in [Drives -> [Slots -> Slot]]
               /\ \A e \in Drives, s \in Slots :
                     cache'[e][s] = IF e = d /\ s = HitSlot(r) THEN new ELSE cache[e][s]
               /\ \A e \in Drives : e # d => cache'[e] = cache[e]
               /\ req' = [req EXCEPT ![v] = q]
<1> DEFINE r == req[v]
           d == r.drive
           h == HitSlot(r)
           slot == cache[d][h]
           new == [status |-> "DIRTY", block |-> slot.block, buf |-> NewBytes(slot.buf, r)]
           q == [op |-> r.op, drive |-> d, loc |-> r.loc, count |-> r.count,
                 progress |-> r.progress + Chunk(r), buf |-> r.buf]
<1>1. Hits(v) /\ r.op = "write" BY DEF CopyIn
<1>2. r # NoReq /\ d \in Drives /\ h \in Slots /\ r.op # "flush" /\ r.progress < r.count
      BY <1>1, HitTyped
<1>3. Patched(slot, r) = new /\ new \in Slot BY <1>1, PatchedIs
<1>4. cache \in [Drives -> [Slots -> Slot]] /\ req \in [Drivers -> Request \cup {NoReq}]
      BY DEF CacheInv, TypeOK
<1>5. cache' = [cache EXCEPT ![d][h] = Patched(@, r)] BY DEF CopyIn
<1>6. r \in Request /\ r.buf \in Seq(Data) BY <1>2, RequestTyped DEF CacheInv
<1>7. Chunk(r) \in Nat
  <2>1. Chunk(r) \in 1 .. r.count - r.progress BY <1>2, ChunkFits DEF CacheInv
  <2> QED BY <2>1
<1>8. q \in Request /\ [r EXCEPT !.progress = r.progress + Chunk(r), !.buf = r.buf] = q
      BY <1>6, <1>7, CopiedRequest
<1>9. req' = [req EXCEPT ![v] = [r EXCEPT !.progress = r.progress + Chunk(r)]]
  <2>1. req' = [req EXCEPT ![v].progress = @ + Chunk(r)] BY DEF CopyIn
  <2> QED BY <1>4, <2>1
<1>10. [r EXCEPT !.progress = r.progress + Chunk(r)] = q
  <2> DEFINE k == r.progress + Chunk(r)
  <2> HIDE DEF k, r
  <2>1. [r EXCEPT !.progress = k] = [op |-> r.op, drive |-> r.drive, loc |-> r.loc, count |-> r.count,
                                     progress |-> k, buf |-> r.buf]
        BY <1>6 DEF Request
  <2> QED BY <2>1 DEF k
<1>11. cache' = [cache EXCEPT ![d] = [cache[d] EXCEPT ![h] = new]]
  <2> HIDE DEF new
  <2> QED BY <1>3, <1>5
<1> HIDE DEF d, h, new
<1>12. /\ cache' \in [Drives -> [Slots -> Slot]]
       /\ \A e \in Drives, s \in Slots : cache'[e][s] = IF e = d /\ s = h THEN new ELSE cache[e][s]
       /\ \A e \in Drives : e # d => cache'[e] = cache[e]
       BY <1>2, <1>3, <1>4, <1>11
<1> QED BY <1>1, <1>3, <1>8, <1>9, <1>10, <1>12 DEF d, h, new

LEMMA InvCopyIn == ASSUME CacheInv, NEW v \in Drivers, CopyIn(v) PROVE CacheInv'
<1> DEFINE r == req[v]
           d == r.drive
           h == HitSlot(r)
           slot == cache[d][h]
           new == [status |-> "DIRTY", block |-> slot.block, buf |-> NewBytes(slot.buf, r)]
           q == [op |-> r.op, drive |-> d, loc |-> r.loc, count |-> r.count,
                 progress |-> r.progress + Chunk(r), buf |-> r.buf]
<1>1. /\ Hits(v) /\ r.op = "write" /\ new \in Slot /\ q \in Request
      /\ cache' \in [Drives -> [Slots -> Slot]]
      /\ \A e \in Drives, s \in Slots : cache'[e][s] = IF e = d /\ s = h THEN new ELSE cache[e][s]
      /\ \A e \in Drives : e # d => cache'[e] = cache[e]
      /\ req' = [req EXCEPT ![v] = q]
      BY CopyInIs
<1>2. r # NoReq /\ d \in Drives /\ h \in Slots /\ r.progress < r.count
      /\ slot.status # "NOT_READY"
      BY <1>1, HitTyped
<1>3. Chunk(r) \in 1 .. r.count - r.progress BY <1>1, <1>2, ChunkFits DEF CacheInv
<1>4. r.progress \in Nat /\ r.count \in Nat BY <1>2, RequestTyped DEF CacheInv
<1>5. UNCHANGED <<devices, disk, overwritten_slot, tfes, ret, sync>> BY DEF CopyIn
<1>6. TypeOK /\ RequestsSound /\ SlotsApart /\ CleanIsOnDisk BY DEF CacheInv
<1>7. /\ q.op = r.op /\ q.drive = d /\ q.loc = r.loc /\ q.count = r.count
      /\ q.progress = r.progress + Chunk(r) /\ q.buf = r.buf
      /\ new.status = "DIRTY" /\ new.block = slot.block
      OBVIOUS
<1> HIDE DEF q, new
<1>8. \A w \in Drivers : req'[w] = IF w = v THEN q ELSE req[w] BY <1>1, <1>6 DEF TypeOK
<1>9. TypeOK'
  <2>1. req' \in [Drivers -> Request \cup {NoReq}] BY <1>1, <1>6 DEF TypeOK
  <2> QED BY <1>1, <1>5, <1>6, <2>1 DEF TypeOK
<1>10. RequestsSound' BY <1>1, <1>2, <1>3, <1>4, <1>6, <1>7, <1>8 DEF RequestsSound
<1>11. FlushedClean' BY <1>1, <1>2, <1>7, <1>8, OthersFlushed
<1>12. SlotsApart' BY <1>1, <1>2, <1>6, <1>7 DEF SlotsApart
<1>13. CleanIsOnDisk' BY <1>1, <1>5, <1>6, <1>7 DEF CleanIsOnDisk
<1> QED BY <1>9, <1>10, <1>11, <1>12, <1>13 DEF CacheInv

LEMMA InvReturn == ASSUME CacheInv, NEW v \in Drivers, Return(v) PROVE CacheInv'
<1>1. req[v] # NoReq /\ Finish(v, "done") /\ UNCHANGED <<disk, cache, overwritten_slot, tfes>>
      BY DEF Return
<1>2. /\ devices' = devices /\ sync' = sync
      /\ req' \in [Drivers -> Request \cup {NoReq}]
      /\ ret' \in [Drivers -> {"none", "done", "failed"}]
      /\ RequestsSound'
      /\ \A w \in Drivers : req'[w] # NoReq => w # v /\ req'[w] = req[w]
      BY <1>1, FinishKeeps
<1>3. FlushedClean' BY <1>1, <1>2, OthersFlushed
<1>4. TypeOK' BY <1>1, <1>2 DEF CacheInv, TypeOK
<1>5. SlotsApart' /\ CleanIsOnDisk' BY <1>1 DEF CacheInv, SlotsApart, CleanIsOnDisk
<1> QED BY <1>2, <1>3, <1>4, <1>5 DEF CacheInv

(* A step of a flush. *)
LEMMA FlushSlotIs ==
    ASSUME CacheInv, NEW v \in Drivers, FlushSlot(v)
    PROVE  LET r == req[v]
               d == r.drive
               s == r.progress
               slot == cache[d][s]
               new == [status |-> "READY", block |-> slot.block, buf |-> slot.buf]
               q == [op |-> r.op, drive |-> d, loc |-> r.loc, count |-> r.count,
                     progress |-> r.progress + 1, buf |-> r.buf]
           IN  /\ r # NoReq /\ r.op = "flush" /\ r.progress < NSlots /\ r.progress \in Nat
               /\ d \in Drives /\ s \in Slots /\ q \in Request
               /\ req' = [req EXCEPT ![v] = q]
               /\ tfes' = tfes
               /\ disk' \in [Drives -> [Blocks -> Block]]
               /\ cache' \in [Drives -> [Slots -> Slot]]
               /\ \A e \in Drives, m \in Blocks :
                     disk'[e][m] = IF e = d /\ slot.status = "DIRTY" /\ m = slot.block
                                   THEN slot.buf ELSE disk[e][m]
               /\ \A e \in Drives, t \in Slots :
                     cache'[e][t] = IF e = d /\ t = s /\ slot.status = "DIRTY" THEN new ELSE cache[e][t]
               /\ \A e \in Drives : e # d => cache'[e] = cache[e]
<1> DEFINE r == req[v]
           d == r.drive
           s == r.progress
           slot == cache[d][s]
           new == [status |-> "READY", block |-> slot.block, buf |-> slot.buf]
           q == [op |-> r.op, drive |-> d, loc |-> r.loc, count |-> r.count,
                 progress |-> r.progress + 1, buf |-> r.buf]
<1>1. r # NoReq /\ r.op = "flush" /\ r.progress < NSlots BY DEF FlushSlot, Flushing
<1>2. TypeOK BY DEF CacheInv
<1>3. r \in Request /\ d \in Drives /\ s \in Nat /\ r.buf \in Seq(Data) BY <1>1, <1>2, RequestTyped
<1>4. s \in Slots BY <1>1, <1>3, BlockCacheAssumption DEF Slots
<1>5. slot \in Slot BY <1>2, <1>3, <1>4 DEF TypeOK
<1>6. slot.block \in Blocks /\ slot.buf \in Block BY <1>5 DEF Slot
<1>7. Lba(d, slot.block >= Lba28, slot.block) = slot.block BY <1>6, LbaIsBlock
<1>8. /\ disk \in [Drives -> [Blocks -> Block]] /\ cache \in [Drives -> [Slots -> Slot]]
      /\ req \in [Drivers -> Request \cup {NoReq}]
      BY <1>2 DEF TypeOK
<1>9. q \in Request /\ req' = [req EXCEPT ![v] = q]
  <2>1. q \in Request BY <1>3, CopiedRequest
  <2>2. req' = [req EXCEPT ![v] = [r EXCEPT !.progress = r.progress + 1]]
    <3>1. req' = [req EXCEPT ![v].progress = @ + 1] BY DEF FlushSlot
    <3> QED BY <1>8, <3>1
  <2>3. [r EXCEPT !.progress = r.progress + 1] = q
    <3> DEFINE k == r.progress + 1
    <3> HIDE DEF k, r
    <3>1. [r EXCEPT !.progress = k] = [op |-> r.op, drive |-> r.drive, loc |-> r.loc, count |-> r.count,
                                       progress |-> k, buf |-> r.buf]
          BY <1>3 DEF Request
    <3> QED BY <3>1 DEF k
  <2> QED BY <2>1, <2>2, <2>3
<1>10. new \in Slot /\ [slot EXCEPT !.status = "READY"] = new
  <2> HIDE DEF slot
  <2> QED BY <1>5 DEF Slot
<1> HIDE DEF q
<1>11. CASE slot.status = "DIRTY"
  <2>1. /\ tfes' = tfes
        /\ disk' = [disk EXCEPT ![d][slot.block] = slot.buf]
        /\ cache' = [cache EXCEPT ![d][s].status = "READY"]
        BY <1>7, <1>11 DEF FlushSlot, Succeeds
  <2>2. cache' = [cache EXCEPT ![d] = [cache[d] EXCEPT ![s] = new]] BY <1>10, <2>1
  <2> HIDE DEF new, d, s
  <2>3. /\ cache' \in [Drives -> [Slots -> Slot]]
        /\ \A e \in Drives, t \in Slots : cache'[e][t] = IF e = d /\ t = s THEN new ELSE cache[e][t]
        /\ \A e \in Drives : e # d => cache'[e] = cache[e]
        BY <1>3, <1>4, <1>8, <1>10, <2>2
  <2>4. /\ disk' \in [Drives -> [Blocks -> Block]]
        /\ \A e \in Drives, m \in Blocks :
              disk'[e][m] = IF e = d /\ m = slot.block THEN slot.buf ELSE disk[e][m]
    <3> HIDE DEF slot
    <3> QED BY <1>3, <1>6, <1>8, <2>1
  <2>5. /\ \A e \in Drives, m \in Blocks :
              disk'[e][m] = IF e = d /\ slot.status = "DIRTY" /\ m = slot.block
                            THEN slot.buf ELSE disk[e][m]
        /\ \A e \in Drives, t \in Slots :
              cache'[e][t] = IF e = d /\ t = s /\ slot.status = "DIRTY" THEN new ELSE cache[e][t]
    <3> HIDE DEF slot
    <3> QED BY <1>11, <2>3, <2>4
  <2> QED BY <1>1, <1>3, <1>4, <1>9, <2>1, <2>3, <2>4, <2>5, Zenon DEF new, d, s, q
<1>12. CASE slot.status # "DIRTY"
  <2>1. tfes' = tfes /\ disk' = disk /\ cache' = cache BY <1>12 DEF FlushSlot
  <2> QED BY <1>1, <1>3, <1>4, <1>8, <1>9, <1>12, <2>1 DEF q
<1> QED BY <1>11, <1>12

LEMMA InvFlushSlot == ASSUME CacheInv, NEW v \in Drivers, FlushSlot(v) PROVE CacheInv'
<1> DEFINE r == req[v]
           d == r.drive
           k == r.progress
           slot == cache[d][k]
           new == [status |-> "READY", block |-> slot.block, buf |-> slot.buf]
           q == [op |-> r.op, drive |-> d, loc |-> r.loc, count |-> r.count,
                 progress |-> r.progress + 1, buf |-> r.buf]
<1>1. /\ r # NoReq /\ r.op = "flush" /\ r.progress < NSlots /\ r.progress \in Nat
      /\ d \in Drives /\ k \in Slots /\ q \in Request
      /\ req' = [req EXCEPT ![v] = q]
      /\ tfes' = tfes
      /\ disk' \in [Drives -> [Blocks -> Block]]
      /\ cache' \in [Drives -> [Slots -> Slot]]
      /\ \A e \in Drives, m \in Blocks :
            disk'[e][m] = IF e = d /\ slot.status = "DIRTY" /\ m = slot.block
                          THEN slot.buf ELSE disk[e][m]
      /\ \A e \in Drives, t \in Slots :
            cache'[e][t] = IF e = d /\ t = k /\ slot.status = "DIRTY" THEN new ELSE cache[e][t]
      /\ \A e \in Drives : e # d => cache'[e] = cache[e]
      BY FlushSlotIs
<1>2. UNCHANGED <<devices, overwritten_slot, ret, sync>> BY DEF FlushSlot
<1>3. TypeOK /\ RequestsSound /\ SlotsApart /\ CleanIsOnDisk /\ FlushedClean BY DEF CacheInv
<1>4. /\ q.op = r.op /\ q.drive = d /\ q.loc = r.loc /\ q.count = r.count
      /\ q.progress = r.progress + 1 /\ q.buf = r.buf
      /\ new.status = "READY" /\ new.block = slot.block /\ new.buf = slot.buf
      OBVIOUS
<1> HIDE DEF q, new
<1>5. \A w \in Drivers : req'[w] = IF w = v THEN q ELSE req[w] BY <1>1, <1>3 DEF TypeOK
<1>6. TypeOK'
  <2>1. req' \in [Drivers -> Request \cup {NoReq}] BY <1>1, <1>3 DEF TypeOK
  <2> QED BY <1>1, <1>2, <1>3, <2>1 DEF TypeOK
<1>7. RequestsSound'
  <2>1. NSlots \in Nat BY BlockCacheAssumption
  <2> QED BY <1>1, <1>3, <1>4, <1>5, <2>1 DEF RequestsSound
<1>8. SlotsApart'
  <2>1. \A e \in Drives, t \in Slots :
           /\ cache'[e][t].block = cache[e][t].block
           /\ cache'[e][t].status # "NOT_READY" => cache[e][t].status # "NOT_READY"
    <3> SUFFICES ASSUME NEW e \in Drives, NEW t \in Slots
                 PROVE  /\ cache'[e][t].block = cache[e][t].block
                        /\ cache'[e][t].status # "NOT_READY" => cache[e][t].status # "NOT_READY"
        OBVIOUS
    <3>1. CASE e = d /\ t = k /\ slot.status = "DIRTY"
      <4>1. cache'[e][t] = new BY <1>1, <3>1
      <4> QED BY <1>4, <3>1, <4>1
    <3>2. CASE ~(e = d /\ t = k /\ slot.status = "DIRTY")
      <4>1. cache'[e][t] = cache[e][t] BY <1>1, <3>2
      <4> QED BY <4>1
    <3> QED BY <3>1, <3>2
  <2> QED BY <1>3, <2>1 DEF SlotsApart
<1>9. CleanIsOnDisk'
  <2> SUFFICES ASSUME NEW e \in Drives, ~tfes[e], NEW s \in Slots, cache'[e][s].status = "READY"
               PROVE  cache'[e][s].buf = disk'[e][cache'[e][s].block]
      BY <1>1 DEF CleanIsOnDisk
  <2>1. slot \in Slot /\ cache[e][s] \in Slot BY <1>1, <1>3 DEF TypeOK
  <2>2. slot.block \in Blocks /\ cache[e][s].block \in Blocks BY <2>1 DEF Slot
  <2>3. CASE e = d /\ s = k /\ slot.status = "DIRTY"
    <3>1. cache'[e][s] = new BY <1>1, <2>3
    <3>2. disk'[d][slot.block] = slot.buf BY <1>1, <2>2, <2>3
    <3> QED BY <1>4, <2>3, <3>1, <3>2
  <2>4. CASE ~(e = d /\ s = k /\ slot.status = "DIRTY")
    <3>1. cache'[e][s] = cache[e][s] BY <1>1, <2>4
    <3>2. cache[e][s].buf = disk[e][cache[e][s].block] BY <1>3, <3>1 DEF CleanIsOnDisk
    <3>3. ~(e = d /\ slot.status = "DIRTY" /\ cache[e][s].block = slot.block)
          BY <1>1, <1>3, <2>4, <3>1 DEF SlotsApart
    <3>4. disk'[e][cache[e][s].block] = disk[e][cache[e][s].block] BY <1>1, <2>2, <3>3
    <3> QED BY <3>1, <3>2, <3>4
  <2> QED BY <2>3, <2>4
<1>10. FlushedClean'
  <2> SUFFICES ASSUME NEW w \in Drivers, req'[w] # NoReq, req'[w].op = "flush",
                      NEW s \in Slots, s < req'[w].progress
               PROVE  cache'[req'[w].drive][s].status # "DIRTY"
      BY DEF FlushedClean
  <2>1. CASE w = v
    <3>1. req'[w] = q BY <1>5, <2>1
    <3>2. s < k + 1 /\ s \in Nat /\ k \in Nat BY <1>1, <1>4, <3>1, Sizes
    <3>3. CASE s = k BY <1>1, <1>4, <3>1, <3>3
    <3>4. CASE s < k
      <4>1. cache[d][s].status # "DIRTY" BY <1>1, <1>3, <3>4 DEF FlushedClean
      <4> QED BY <1>1, <1>4, <3>1, <4>1
    <3> QED BY <3>2, <3>3, <3>4
  <2>2. CASE w # v
    <3>1. req'[w] = req[w] BY <1>5, <2>2
    <3>2. DriverOf[req[w].drive] = w /\ DriverOf[d] = v BY <1>1, <1>3, <3>1 DEF RequestsSound
    <3>3. req[w].drive \in Drives BY <1>3, <3>1, RequestTyped
    <3>4. cache'[req[w].drive] = cache[req[w].drive] BY <1>1, <2>2, <3>2, <3>3
    <3> QED BY <1>3, <3>1, <3>4 DEF FlushedClean
  <2> QED BY <2>1, <2>2
<1> QED BY <1>6, <1>7, <1>8, <1>9, <1>10 DEF CacheInv

LEMMA CacheStep == CacheInv /\ [Next]_vars => CacheInv'
<1> SUFFICES ASSUME CacheInv, [Next]_vars PROVE CacheInv' OBVIOUS
<1>1. ASSUME NEW d \in devices, ide_read(d) \/ ahci_read(d) \/ ide_write(d) \/ ahci_write(d)
      PROVE  CacheInv'
      BY <1>1, InvCalls
<1>2. CASE device_sync_worker BY <1>2, InvCalls
<1>3. ASSUME NEW v \in Drivers, Load(v) PROVE CacheInv' BY <1>3, InvLoad
<1>4. ASSUME NEW v \in Drivers, WriteBackFails(v) \/ FlushFails(v) PROVE CacheInv'
      BY <1>4, InvFailedWrites
<1>5. ASSUME NEW v \in Drivers, LoadFails(v) PROVE CacheInv' BY <1>5, InvLoadFails
<1>6. ASSUME NEW v \in Drivers, CopyOut(v) PROVE CacheInv' BY <1>6, InvCopyOut
<1>7. ASSUME NEW v \in Drivers, CopyIn(v) PROVE CacheInv' BY <1>7, InvCopyIn
<1>8. ASSUME NEW v \in Drivers, Return(v) PROVE CacheInv' BY <1>8, InvReturn
<1>9. ASSUME NEW v \in Drivers, FlushSlot(v) PROVE CacheInv' BY <1>9, InvFlushSlot
<1>10. CASE UNCHANGED vars
  <2>1. TypeOK' BY <1>10 DEF CacheInv, TypeOK, vars
  <2>2. RequestsSound' /\ FlushedClean' BY <1>10 DEF CacheInv, RequestsSound, FlushedClean, vars
  <2>3. SlotsApart' /\ CleanIsOnDisk' BY <1>10 DEF CacheInv, SlotsApart, CleanIsOnDisk, vars
  <2> QED BY <2>1, <2>2, <2>3 DEF CacheInv
<1> QED BY <1>1, <1>2, <1>3, <1>4, <1>5, <1>6, <1>7, <1>8, <1>9, <1>10 DEF Next

(* The uniqueness of a slot, as the run states it. *)
LEMMA CacheInvImplies == CacheInv => CacheSound
<1> SUFFICES ASSUME CacheInv, NEW d \in Drives, NEW n \in Blocks
             PROVE  Cardinality(find_sect(d, n)) <= 1
    BY DEF CacheInv, CacheSound, OneSlotPerBlock
<1>1. CASE find_sect(d, n) = {} BY <1>1, FS_EmptySet
<1>2. CASE find_sect(d, n) # {}
  <2>1. PICK s \in Slots : cache[d][s].block = n /\ cache[d][s].status # "NOT_READY"
        BY <1>2 DEF find_sect
  <2>2. find_sect(d, n) = {s} BY <2>1, CurrentIs DEF CacheInv, CurrentFacts
  <2> QED BY SMTT(30), <2>2, FS_Singleton
<1> QED BY <1>1, <1>2

(* Whatever is read, written and flushed and whichever commands fail, a block
   has one slot, and a slot that is not dirty may be dropped (cache_sect,
   cache_block and the loops of ide.c and sata.c).                           *)
THEOREM CachesSound == Spec => []CacheSound
<1>1. Init => CacheInv BY CacheInit
<1>2. CacheInv /\ [Next]_vars => CacheInv' BY CacheStep
<1>3. CacheInv => CacheSound BY CacheInvImplies
<1> QED BY <1>1, <1>2, <1>3, PTL DEF Spec

-----------------------------------------------------------------------------
(* The refinement.  Content and medium are compared block by block.          *)
BytesTyped ==
    /\ \A d \in Drives, n \in Blocks : Current(d, n) \in Block
    /\ Content \in [Drives -> [Addrs -> Data]]
    /\ Medium \in [Drives -> [Addrs -> Data]]

LEMMA BytesAreTyped == CacheInv => BytesTyped
<1> SUFFICES ASSUME CacheInv PROVE BytesTyped OBVIOUS
<1>1. disk \in [Drives -> [Blocks -> Block]] /\ cache \in [Drives -> [Slots -> Slot]] /\ SlotsApart
      BY DEF CacheInv, TypeOK
<1>2. ASSUME NEW d \in Drives, NEW n \in Blocks PROVE Current(d, n) \in Block
  <2>1. CASE \E s \in Slots : cache[d][s].status # "NOT_READY" /\ cache[d][s].block = n
    <3>1. PICK s \in Slots : cache[d][s].status # "NOT_READY" /\ cache[d][s].block = n BY <2>1
    <3>2. Current(d, n) = cache[d][s].buf BY <1>1, <3>1, CurrentIs DEF CurrentFacts
    <3>3. cache[d][s] \in Slot BY <1>1
    <3> QED BY <3>2, <3>3 DEF Slot
  <2>2. CASE ~\E s \in Slots : cache[d][s].status # "NOT_READY" /\ cache[d][s].block = n
    <3>1. Current(d, n) = disk[d][n] BY <1>1, <2>2, CurrentIs DEF CurrentFacts
    <3> QED BY <1>1, <3>1
  <2> QED BY <2>1, <2>2
<1>3. ASSUME NEW d \in Drives, NEW a \in Addrs
      PROVE  Current(d, a \div BlockSize)[a % BlockSize] \in Data
             /\ disk[d][a \div BlockSize][a % BlockSize] \in Data
  <2>1. a \div BlockSize \in Blocks /\ a % BlockSize \in 0 .. BlockSize - 1 BY AddressSplits
  <2>2. Current(d, a \div BlockSize) \in Block /\ disk[d][a \div BlockSize] \in Block
        BY <1>1, <1>2, <2>1
  <2> QED BY <2>1, <2>2 DEF Block
<1>4. Content \in [Drives -> [Addrs -> Data]] BY <1>3 DEF Content
<1>5. Medium \in [Drives -> [Addrs -> Data]] BY <1>3 DEF Medium
<1> QED BY <1>2, <1>4, <1>5 DEF BytesTyped

LEMMA SameContent ==
    ASSUME \A d \in Drives, n \in Blocks : Current(d, n)' = Current(d, n)
    PROVE  Content' = Content
<1>1. \A d \in Drives, a \in Addrs :
         Current(d, a \div BlockSize)' = Current(d, a \div BlockSize)
      BY AddressSplits
<1> QED BY <1>1 DEF Content

LEMMA SameBytes ==
    ASSUME disk' = disk, cache' = cache
    PROVE  Content' = Content /\ Medium' = Medium
<1>1. \A d \in Drives, n \in Blocks : Current(d, n)' = Current(d, n)
      BY DEF Current, find_sect
<1> QED BY <1>1, SameContent DEF Medium

(* Each byte of the medium is kept or becomes the one a user would find. *)
LEMMA DestageByBlock ==
    ASSUME CacheInv, CacheInv',
           \A d \in Drives, n \in Blocks, o \in 0 .. BlockSize - 1 :
              disk'[d][n][o] \in {disk[d][n][o], Current(d, n)[o]}
    PROVE  PlainDisk!Destage
<1>1. BytesTyped' BY BytesAreTyped, PTL
<1>2. Medium' \in [Drives -> [Addrs -> Data]] BY <1>1 DEF BytesTyped
<1>3. ASSUME NEW d \in Drives, NEW a \in Addrs
      PROVE  Medium'[d][a] \in {Medium[d][a], Content[d][a]}
  <2>1. a \div BlockSize \in Blocks /\ a % BlockSize \in 0 .. BlockSize - 1 BY AddressSplits
  <2>2. /\ Medium'[d][a] = disk'[d][a \div BlockSize][a % BlockSize]
        /\ Medium[d][a] = disk[d][a \div BlockSize][a % BlockSize]
        /\ Content[d][a] = Current(d, a \div BlockSize)[a % BlockSize]
        BY DEF Medium, Content
  <2> QED BY <2>1, <2>2
<1> QED BY <1>2, <1>3 DEF PlainDisk!Destage, PlainDisk!Addrs, Addrs

(* The request a user has under way. *)
LEMMA PendingIs ==
    ASSUME CacheInv, NEW v \in Drivers
    PROVE  /\ req[v] = NoReq => Pending[v] = NoReq
           /\ req[v] # NoReq => /\ Pending[v] # NoReq /\ Pending[v].op = req[v].op
                                /\ Pending[v].drive = req[v].drive
                                /\ req[v].op # "flush" => Pending[v] = req[v]
<1>1. req[v] = NoReq => Pending[v] = NoReq BY DEF Pending
<1>2. ASSUME req[v] # NoReq, req[v].op # "flush" PROVE Pending[v] = req[v] BY <1>2 DEF Pending
<1>3. ASSUME req[v] # NoReq, req[v].op = "flush"
      PROVE  Pending[v] # NoReq /\ Pending[v].op = req[v].op /\ Pending[v].drive = req[v].drive
  <2> DEFINE r == req[v]
  <2>1. Pending[v] = [r EXCEPT !.progress = 0] BY <1>3 DEF Pending
  <2>2. r \in Request BY <1>3, RequestTyped DEF CacheInv
  <2> HIDE DEF r
  <2>3. /\ [r EXCEPT !.progress = 0] \in Request
        /\ [r EXCEPT !.progress = 0].op = r.op /\ [r EXCEPT !.progress = 0].drive = r.drive
        BY <2>2 DEF Request
  <2> QED BY <2>1, <2>3, BlockCacheAssumption DEF r
<1> QED BY <1>1, <1>2, <1>3

LEMMA RefinesInit == Init => PlainDisk!Init
<1> SUFFICES ASSUME Init PROVE PlainDisk!Init OBVIOUS
<1>1. CacheInv BY CacheInit
<1>2. Content \in [Drives -> [Addrs -> Data]] BY <1>1, BytesAreTyped DEF BytesTyped
<1>3. ASSUME NEW d \in Drives, NEW n \in Blocks PROVE Current(d, n) = disk[d][n]
  <2>1. \A s \in Slots : cache[d][s].status = "NOT_READY" BY DEF Init, EmptySlot
  <2> QED BY <1>1, <2>1, CurrentIs DEF CurrentFacts, CacheInv
<1>4. Medium = Content
  <2>1. \A d \in Drives, a \in Addrs : Current(d, a \div BlockSize) = disk[d][a \div BlockSize]
        BY <1>3, AddressSplits
  <2> QED BY <2>1 DEF Medium, Content
<1>5. Pending = [v \in Drivers |-> NoReq] BY DEF Pending, Init
<1>6. {d \in Drives : tfes[d]} = {} BY DEF Init
<1> QED BY <1>2, <1>4, <1>5, <1>6 DEF PlainDisk!Init, PlainDisk!Addrs, Addrs, Init

(* A call is accepted. *)
LEMMA RefinesSubmit ==
    ASSUME CacheInv, NEW d \in Drives, NEW op \in {"read", "write", "flush"},
           NEW g \in Nat \X Nat, NEW n \in Nat, NEW buf \in [1 .. n -> Data],
           n = IF op = "write" THEN g[2] ELSE 0,
           Submit(d, op, g, buf)
    PROVE  \E v \in Drivers : PlainDisk!Submit(v)
<1> DEFINE r == [op |-> op, drive |-> d, loc |-> g[1], count |-> g[2], progress |-> 0, buf |-> buf]
           w == DriverOf[d]
<1>1. w \in Drivers BY DriverIsDriver
<1>2. req[w] = NoReq /\ req' = [req EXCEPT ![w] = r] /\ ret' = [ret EXCEPT ![w] = "none"]
      /\ disk' = disk /\ cache' = cache /\ tfes' = tfes
      BY DEF Submit
<1>3. Content' = Content /\ Medium' = Medium BY <1>2, SameBytes
<1>5. buf \in Seq(Data) /\ Len(buf) = n OBVIOUS
<1>6. r \in Request BY <1>5 DEF Request
<1>7. r \in PlainDisk!Requests BY <1>5 DEF PlainDisk!Requests
<1>8. r # NoReq /\ r.op = op /\ r.drive = d /\ r.loc = g[1] /\ r.count = g[2]
      /\ r.progress = 0 /\ r.buf = buf
      BY <1>6, BlockCacheAssumption
<1>9. [r EXCEPT !.progress = 0] = r OBVIOUS
<1>10. req \in [Drivers -> Request \cup {NoReq}] BY DEF CacheInv, TypeOK
<1> HIDE DEF r, w
<1>11. \A v \in Drivers : req'[v] = IF v = w THEN r ELSE req[v] BY <1>1, <1>2, <1>10
<1>12. Pending[w] = NoReq BY <1>1, <1>2 DEF Pending
<1>13. \A v \in Drivers : Pending'[v] = IF v = w THEN r ELSE Pending[v]
  <2> SUFFICES ASSUME NEW v \in Drivers PROVE Pending'[v] = IF v = w THEN r ELSE Pending[v] OBVIOUS
  <2>1. Pending'[v] = IF req'[v] # NoReq /\ req'[v].op = "flush"
                      THEN [req'[v] EXCEPT !.progress = 0] ELSE req'[v]
        BY DEF Pending
  <2>2. Pending[v] = IF req[v] # NoReq /\ req[v].op = "flush"
                      THEN [req[v] EXCEPT !.progress = 0] ELSE req[v]
        BY DEF Pending
  <2>3. CASE v = w
    <3>1. req'[v] = r BY <1>11, <2>3
    <3> QED BY <1>9, <2>1, <2>3, <3>1
  <2>4. CASE v # w
    <3>1. req'[v] = req[v] BY <1>11, <2>4
    <3> QED BY <2>1, <2>2, <2>4, <3>1
  <2> QED BY <2>3, <2>4
<1>14. Pending'[w] = r BY <1>1, <1>13
<1>15. Pending' = [Pending EXCEPT ![w] = r]
  <2>1. DOMAIN Pending = Drivers /\ DOMAIN Pending' = Drivers
        /\ Pending = [v \in Drivers |-> Pending[v]] /\ Pending' = [v \in Drivers |-> Pending'[v]]
        BY DEF Pending
  <2> QED BY <1>1, <1>13, <2>1
<1>16. {e \in Drives : tfes'[e]} = {e \in Drives : tfes[e]} BY <1>2
<1>17. PlainDisk!Submit(w)
  <2>1. DriverOf[r.drive] = w /\ r.progress = 0
        /\ Len(r.buf) = IF r.op = "write" THEN r.count ELSE 0
        BY <1>5, <1>8 DEF w
  <2> QED BY <1>2, <1>3, <1>7, <1>12, <1>14, <1>15, <1>16, <2>1 DEF PlainDisk!Submit
<1> QED BY <1>1, <1>17

LEMMA RefinesCalls ==
    ASSUME CacheInv
    PROVE  /\ \A d \in devices : ide_read(d) \/ ahci_read(d) \/ ide_write(d) \/ ahci_write(d)
                                 => \E v \in Drivers : PlainDisk!Submit(v)
           /\ device_sync_worker => \E v \in Drivers : PlainDisk!Submit(v)
<1>1. devices \subseteq Drives /\ sync \in devices BY DEF CacheInv, TypeOK
<1>2. <<>> \in [1 .. 0 -> Data] /\ 0 \in Nat OBVIOUS
<1>3. \A g \in Ranges : g \in Nat \X Nat BY BlockCacheAssumption
<1>4. ASSUME NEW d \in devices, ide_read(d) \/ ahci_read(d)
      PROVE  \E v \in Drivers : PlainDisk!Submit(v)
  <2>1. PICK g \in Ranges : Submit(d, "read", g, <<>>)
        BY <1>4 DEF ide_read, ahci_read
  <2>2. 0 = IF "read" = "write" THEN g[2] ELSE 0 OBVIOUS
  <2> QED BY <1>1, <1>2, <1>3, <2>1, <2>2, RefinesSubmit
<1>5. ASSUME NEW d \in devices, ide_write(d) \/ ahci_write(d)
      PROVE  \E v \in Drivers : PlainDisk!Submit(v)
  <2>1. PICK g \in Ranges : \E buf \in Buffers(g[2]) : Submit(d, "write", g, buf)
        BY <1>5 DEF ide_write, ahci_write
  <2>2. PICK buf \in Buffers(g[2]) : Submit(d, "write", g, buf) BY <2>1
  <2>3. buf \in [1 .. g[2] -> Data] /\ g[2] \in Nat BY <1>3, BlockCacheAssumption
  <2>4. g[2] = IF "write" = "write" THEN g[2] ELSE 0 OBVIOUS
  <2> QED BY <1>1, <1>3, <2>2, <2>3, <2>4, RefinesSubmit
<1>6. ASSUME device_sync_worker PROVE \E v \in Drivers : PlainDisk!Submit(v)
  <2>1. Submit(sync, "flush", <<0, 0>>, <<>>) BY <1>6 DEF device_sync_worker
  <2>2. <<0, 0>> \in Nat \X Nat OBVIOUS
  <2>3. 0 = IF "flush" = "write" THEN <<0, 0>>[2] ELSE 0 OBVIOUS
  <2> QED BY <1>1, <1>2, <2>1, <2>2, <2>3, RefinesSubmit
<1> QED BY <1>4, <1>5, <1>6

(* A load destages at most the block it drops, and nobody sees it. *)
LEMMA RefinesLoad ==
    ASSUME CacheInv, CacheInv', NEW v \in Drivers, Load(v)
    PROVE  PlainDisk!Destage /\ UNCHANGED <<Content, Pending, ret, {d \in Drives : tfes[d]}>>
<1> DEFINE d == req[v].drive
           n == Wanted(req[v])
           t == Target(d)
           new == [status |-> "READY", block |-> n, buf |-> disk[d][n]]
<1>1. Misses(v) /\ ~tfes[d] /\ tfes' = tfes /\ req' = req /\ ret' = ret
      BY DEF Load, Succeeds
<1>2. d \in Drives /\ n \in Blocks /\ t \in Slots
      /\ \A s \in Slots : cache[d][s].status # "NOT_READY" => cache[d][s].block # n
      BY <1>1, MissTyped, LoadIs
<1>3. /\ \A e \in Drives, m \in Blocks :
            disk'[e][m] = IF e = d /\ cache[d][t].status = "DIRTY" /\ m = cache[d][t].block
                          THEN cache[d][t].buf ELSE disk[e][m]
      /\ \A e \in Drives, s \in Slots :
            cache'[e][s] = IF e = d /\ s = t THEN new ELSE cache[e][s]
      BY LoadIs
<1>4. TypeOK /\ SlotsApart /\ CleanIsOnDisk /\ SlotsApart' BY DEF CacheInv
<1>5. new.status = "READY" /\ new.block = n /\ new.buf = disk[d][n] OBVIOUS
<1>6. CurrentFacts /\ CurrentFacts'
  <2>1. CurrentFacts BY CurrentIs
  <2>2. CurrentFacts' BY CurrentIs, PTL
  <2> QED BY <2>1, <2>2
<1> HIDE DEF d, n, t, new
<1>7. ASSUME NEW e \in Drives, NEW m \in Blocks PROVE Current(e, m)' = Current(e, m)
  <2>1. CASE e = d /\ m = n
    <3>1. Current(e, m) = disk[d][n] BY <1>2, <1>4, <1>6, <2>1 DEF CurrentFacts
    <3>2. cache'[d][t] = new BY <1>2, <1>3
    <3>3. Current(e, m)' = cache'[d][t].buf BY <1>2, <1>4, <1>5, <1>6, <2>1, <3>2 DEF CurrentFacts
    <3> QED BY <1>5, <3>1, <3>2, <3>3
  <2>2. CASE e = d /\ m # n /\ cache[d][t].status # "NOT_READY" /\ cache[d][t].block = m
    <3>1. Current(e, m) = cache[d][t].buf BY <1>2, <1>4, <1>6, <2>2 DEF CurrentFacts
    <3>2. cache[d][t].buf = disk'[d][m]
      <4>1. CASE cache[d][t].status = "DIRTY" BY <1>2, <1>3, <2>2, <4>1
      <4>2. CASE cache[d][t].status # "DIRTY"
        <5>1. cache[d][t] \in Slot BY <1>2, <1>4 DEF TypeOK
        <5>2. cache[d][t].status = "READY" BY <2>2, <4>2, <5>1 DEF Slot
        <5>3. cache[d][t].buf = disk[d][m] BY <1>1, <1>2, <1>4, <2>2, <5>2 DEF CleanIsOnDisk, d
        <5> QED BY <1>2, <1>3, <4>2, <5>3
      <4> QED BY <4>1, <4>2
    <3>3. \A s \in Slots : cache'[e][s].status # "NOT_READY" => cache'[e][s].block # m
      <4> SUFFICES ASSUME NEW s \in Slots, cache'[e][s].status # "NOT_READY" PROVE cache'[e][s].block # m
          OBVIOUS
      <4>1. CASE s = t BY <1>2, <1>3, <1>5, <2>2, <4>1
      <4>2. CASE s # t
        <5>1. cache'[e][s] = cache[e][s] BY <1>3, <4>2
        <5> QED BY <1>2, <1>4, <2>2, <4>2, <5>1 DEF SlotsApart
      <4> QED BY <4>1, <4>2
    <3>4. Current(e, m)' = disk'[e][m] BY <1>4, <1>6, <3>3 DEF CurrentFacts
    <3> QED BY <2>2, <3>1, <3>2, <3>4
  <2>3. CASE ~(e = d /\ m = n) /\ ~(e = d /\ cache[d][t].status # "NOT_READY" /\ cache[d][t].block = m)
    <3>1. disk'[e][m] = disk[e][m] BY <1>3, <2>3
    <3>2. \A s \in Slots : cache'[e][s].status # "NOT_READY" /\ cache'[e][s].block = m
             <=> cache[e][s].status # "NOT_READY" /\ cache[e][s].block = m
      <4> SUFFICES ASSUME NEW s \in Slots
                   PROVE  cache'[e][s].status # "NOT_READY" /\ cache'[e][s].block = m
                          <=> cache[e][s].status # "NOT_READY" /\ cache[e][s].block = m
          OBVIOUS
      <4>1. CASE e = d /\ s = t
        <5>1. cache'[e][s] = new BY <1>2, <1>3, <4>1
        <5> QED BY <1>5, <2>3, <4>1, <5>1
      <4>2. CASE ~(e = d /\ s = t) BY <1>3, <4>2
      <4> QED BY <4>1, <4>2
    <3>3. CASE \E s \in Slots : cache[e][s].status # "NOT_READY" /\ cache[e][s].block = m
      <4>1. PICK s \in Slots : cache[e][s].status # "NOT_READY" /\ cache[e][s].block = m BY <3>3
      <4>2. ~(e = d /\ s = t) BY <2>3, <4>1
      <4>3. cache'[e][s] = cache[e][s] BY <1>3, <4>2
      <4>4. Current(e, m) = cache[e][s].buf BY <1>4, <1>6, <4>1 DEF CurrentFacts
      <4>5. Current(e, m)' = cache'[e][s].buf BY <1>4, <1>6, <3>2, <4>1 DEF CurrentFacts
      <4> QED BY <4>3, <4>4, <4>5
    <3>4. CASE ~\E s \in Slots : cache[e][s].status # "NOT_READY" /\ cache[e][s].block = m
      <4>1. Current(e, m) = disk[e][m] BY <1>4, <1>6, <3>4 DEF CurrentFacts
      <4>2. Current(e, m)' = disk'[e][m] BY <1>4, <1>6, <3>2, <3>4 DEF CurrentFacts
      <4> QED BY <3>1, <4>1, <4>2
    <3> QED BY <3>3, <3>4
  <2> QED BY <2>1, <2>2, <2>3
<1>8. Content' = Content BY <1>7, SameContent
<1>9. ASSUME NEW e \in Drives, NEW m \in Blocks, NEW o \in 0 .. BlockSize - 1
      PROVE  disk'[e][m][o] \in {disk[e][m][o], Current(e, m)[o]}
  <2>1. CASE e = d /\ cache[d][t].status = "DIRTY" /\ m = cache[d][t].block
    <3>1. Current(e, m) = cache[d][t].buf BY <1>2, <1>4, <1>6, <2>1 DEF CurrentFacts
    <3>2. disk'[e][m] = cache[d][t].buf BY <1>3, <2>1
    <3> QED BY <3>1, <3>2
  <2>2. CASE ~(e = d /\ cache[d][t].status = "DIRTY" /\ m = cache[d][t].block)
    <3>1. disk'[e][m] = disk[e][m] BY <1>3, <2>2
    <3> QED BY <3>1
  <2> QED BY <2>1, <2>2
<1>10. PlainDisk!Destage BY <1>9, DestageByBlock
<1>11. Pending' = Pending BY <1>1 DEF Pending
<1> QED BY <1>1, <1>8, <1>10, <1>11

(* A step that leaves each block in its slot or out of the cache. *)
LEMMA CurrentKept ==
    ASSUME CacheInv, CacheInv', NEW e \in Drives, NEW m \in Blocks,
           \A s \in Slots : /\ cache'[e][s].status # "NOT_READY" <=> cache[e][s].status # "NOT_READY"
                            /\ cache'[e][s].block = cache[e][s].block,
           \A s \in Slots : cache[e][s].status # "NOT_READY" /\ cache[e][s].block = m
                            => cache'[e][s].buf = cache[e][s].buf,
           (\A s \in Slots : cache[e][s].status # "NOT_READY" => cache[e][s].block # m)
           => disk'[e][m] = disk[e][m]
    PROVE  Current(e, m)' = Current(e, m)
<1>1. SlotsApart /\ SlotsApart' BY DEF CacheInv
<1>2. CurrentFacts BY CurrentIs
<1>3. CurrentFacts' BY CurrentIs, PTL
<1>4. CASE \E s \in Slots : cache[e][s].status # "NOT_READY" /\ cache[e][s].block = m
  <2>1. PICK s \in Slots : cache[e][s].status # "NOT_READY" /\ cache[e][s].block = m BY <1>4
  <2>2. Current(e, m) = cache[e][s].buf BY <1>1, <1>2, <2>1 DEF CurrentFacts
  <2>3. Current(e, m)' = cache'[e][s].buf BY <1>1, <1>3, <2>1 DEF CurrentFacts
  <2> QED BY <2>1, <2>2, <2>3
<1>5. CASE ~\E s \in Slots : cache[e][s].status # "NOT_READY" /\ cache[e][s].block = m
  <2>1. Current(e, m) = disk[e][m] BY <1>1, <1>2, <1>5 DEF CurrentFacts
  <2>2. Current(e, m)' = disk'[e][m] BY <1>1, <1>3, <1>5 DEF CurrentFacts
  <2> QED BY <1>5, <2>1, <2>2
<1> QED BY <1>4, <1>5

(* The call has returned. *)
LEMMA PendingEnds ==
    ASSUME CacheInv, NEW v \in Drivers, NEW how, Finish(v, how)
    PROVE  Pending' = [Pending EXCEPT ![v] = NoReq]
<1>1. \A w \in Drivers : req'[w] = IF w = v THEN NoReq ELSE req[w]
      BY DEF Finish, CacheInv, TypeOK
<1>2. \A w \in Drivers : Pending'[w] = IF w = v THEN NoReq ELSE Pending[w]
  <2> SUFFICES ASSUME NEW w \in Drivers PROVE Pending'[w] = IF w = v THEN NoReq ELSE Pending[w] OBVIOUS
  <2>1. Pending'[w] = IF req'[w] # NoReq /\ req'[w].op = "flush"
                      THEN [req'[w] EXCEPT !.progress = 0] ELSE req'[w]
        BY DEF Pending
  <2>2. Pending[w] = IF req[w] # NoReq /\ req[w].op = "flush"
                     THEN [req[w] EXCEPT !.progress = 0] ELSE req[w]
        BY DEF Pending
  <2>3. CASE v = w
    <3>1. req'[w] = NoReq BY <1>1, <2>3
    <3> QED BY <2>1, <2>3, <3>1
  <2>4. CASE v # w
    <3>1. req'[w] = req[w] BY <1>1, <2>4
    <3> QED BY <2>1, <2>2, <2>4, <3>1
  <2> QED BY <2>3, <2>4
<1>3. DOMAIN Pending = Drivers /\ DOMAIN Pending' = Drivers
      /\ Pending = [w \in Drivers |-> Pending[w]] /\ Pending' = [w \in Drivers |-> Pending'[w]]
      BY DEF Pending
<1> QED BY <1>2, <1>3

(* A call that fails on d, if it damages at most one block. *)
LEMMA RefinesFailure ==
    ASSUME CacheInv, CacheInv', NEW v \in Drivers, req[v] # NoReq, Finish(v, "failed"),
           NEW d \in Drives, d = req[v].drive, Fails(d) \/ Hangs(d), NEW n \in Blocks,
           \A e \in Drives, m \in Blocks :
              \/ Current(e, m)' = Current(e, m)
              \/ e = d /\ m = n /\ tfes'[d],
           \A e \in Drives, m \in Blocks, o \in 0 .. BlockSize - 1 :
              disk'[e][m][o] \in {disk[e][m][o], Current(e, m)[o]}
    PROVE  PlainDisk!Fail(v)
<1> DEFINE damaged == {e \in Drives : tfes[e]}
           damagedAfter == {e \in Drives : tfes'[e]}
<1>1. PlainDisk!Destage BY DestageByBlock
<1>2. Pending[v] # NoReq /\ Pending[v].drive = d BY PendingIs
<1>3. Pending' = [Pending EXCEPT ![v] = NoReq] BY PendingEnds
<1>4. ret' = [ret EXCEPT ![v] = "failed"] BY DEF Finish
<1>5. damagedAfter \in {damaged, damaged \cup (Ahci \cap {d})}
  <2>1. tfes' = tfes \/ (d \in Ahci /\ tfes' = [tfes EXCEPT ![d] = TRUE]) BY ErrorBit DEF CacheInv
  <2>2. tfes \in [Drives -> BOOLEAN] BY DEF CacheInv, TypeOK
  <2>3. CASE tfes' = tfes BY <2>3
  <2>4. CASE d \in Ahci /\ tfes' = [tfes EXCEPT ![d] = TRUE]
    <3>1. \A e \in Drives : tfes'[e] <=> tfes[e] \/ e = d BY <2>2, <2>4
    <3>2. damagedAfter = damaged \cup {d} BY <3>1
    <3>3. Ahci \cap {d} = {d} BY <2>4
    <3> QED BY <3>2, <3>3
  <2> QED BY <2>1, <2>3, <2>4
<1>6. Content' \in [Drives -> [Addrs -> Data]]
  <2>1. BytesTyped' BY BytesAreTyped, PTL
  <2> QED BY <2>1 DEF BytesTyped
<1>7. n \in 0 .. NBytes - 1
  <2>1. NBlocks \in Nat \ {0} /\ BlockSize \in Nat \ {0} BY BlockCacheAssumption
  <2>2. NBlocks <= NBlocks * BlockSize BY <2>1, Z3
  <2>3. NBlocks * BlockSize \in Nat BY <2>1, Z3
  <2> QED BY <2>1, <2>2, <2>3 DEF Blocks, NBytes
<1>8. \A e \in Drives, a \in Addrs : \/ Content'[e][a] = Content[e][a]
                                     \/ e = d /\ e \in damagedAfter /\ a \div BlockSize = n
  <2> SUFFICES ASSUME NEW e \in Drives, NEW a \in Addrs
               PROVE  \/ Content'[e][a] = Content[e][a]
                      \/ e = d /\ e \in damagedAfter /\ a \div BlockSize = n
      OBVIOUS
  <2>1. a \div BlockSize \in Blocks BY AddressSplits
  <2>2. /\ Content[e][a] = Current(e, a \div BlockSize)[a % BlockSize]
        /\ Content'[e][a] = Current(e, a \div BlockSize)'[a % BlockSize]
        BY DEF Content
  <2>3. \/ Current(e, a \div BlockSize)' = Current(e, a \div BlockSize)
        \/ e = d /\ a \div BlockSize = n /\ tfes'[d]
        BY <2>1
  <2> QED BY <2>2, <2>3
<1>9. \A e \in Drives : \E b \in 0 .. NBytes - 1 :
         \A a \in 0 .. NBytes - 1 : \/ Content'[e][a] = Content[e][a]
                                    \/ e = Pending[v].drive /\ e \in damagedAfter /\ a \div BlockSize = b
  <2> HIDE DEF damaged, damagedAfter
  <2> QED BY <1>2, <1>7, <1>8 DEF Addrs
<1>10. damagedAfter \in {damaged, damaged \cup (Ahci \cap {Pending[v].drive})}
  <2> HIDE DEF damaged, damagedAfter
  <2> QED BY <1>2, <1>5
<1>11. Content' \in [Drives -> [0 .. NBytes - 1 -> Data]] BY <1>6 DEF Addrs
<1> QED BY <1>1, <1>2, <1>3, <1>4, <1>9, <1>10, <1>11, Zenon DEF PlainDisk!Fail, PlainDisk!Addrs

LEMMA RefinesFailedWrites ==
    ASSUME CacheInv, CacheInv', NEW v \in Drivers, WriteBackFails(v) \/ FlushFails(v)
    PROVE  PlainDisk!Fail(v)
<1> DEFINE d == req[v].drive
<1>1. PICK t \in Slots :
         /\ req[v] # NoReq /\ d \in Drives /\ cache[d][t].status = "DIRTY"
         /\ cache' = cache /\ (Fails(d) \/ Hangs(d)) /\ Finish(v, "failed")
         /\ \/ disk' = disk
            \/ \E b \in Partly(disk[d][cache[d][t].block], cache[d][t].buf) :
                  disk' = [disk EXCEPT ![d][cache[d][t].block] = b]
  <2>1. CASE WriteBackFails(v) BY <2>1, WriteBackFailsIs
  <2>2. CASE FlushFails(v) BY <2>2, FlushFailsIs
  <2> QED BY <2>1, <2>2
<1> DEFINE n == cache[d][t].block
<1>4. d \in Drives /\ cache[d][t].status = "DIRTY" /\ cache' = cache BY <1>1, Zenon
<1>2. cache[d][t] \in Slot
  <2>1. cache \in [Drives -> [Slots -> Slot]] BY DEF CacheInv, TypeOK
  <2> QED BY ONLY <1>4, <2>1, t \in Slots
<1>3. n \in Blocks BY <1>2 DEF Slot
<1>5. /\ \A e \in Drives, m \in Blocks, o \in 0 .. BlockSize - 1 :
            \/ disk'[e][m][o] = disk[e][m][o]
            \/ e = d /\ m = n /\ disk'[e][m][o] = cache[d][t].buf[o]
      BY ZenonT(30), <1>1, <1>4, FailedWrite
<1>6. Current(d, n) = cache[d][t].buf
  <2>1. SlotsApart BY DEF CacheInv
  <2>2. CurrentFacts BY CurrentIs
  <2>3. cache[d][t].status # "NOT_READY" /\ cache[d][t].block = n BY <1>4
  <2> HIDE DEF d, n
  <2> QED BY ONLY <1>3, <1>4, <2>1, <2>2, <2>3, t \in Slots DEF CurrentFacts
<1>7. \A e \in Drives, m \in Blocks, o \in 0 .. BlockSize - 1 :
              disk'[e][m][o] \in {disk[e][m][o], Current(e, m)[o]}
      BY <1>5, <1>6
<1>8. ASSUME NEW e \in Drives, NEW m \in Blocks PROVE Current(e, m)' = Current(e, m)
  <2>1. ASSUME \A s \in Slots : cache[e][s].status # "NOT_READY" => cache[e][s].block # m
        PROVE  disk'[e][m] = disk[e][m]
    <3>1. ~(e = d /\ m = n) BY ONLY <1>4, <2>1, t \in Slots
    <3>2. disk \in [Drives -> [Blocks -> Block]] /\ disk' \in [Drives -> [Blocks -> Block]]
          BY DEF CacheInv, TypeOK
    <3>3. \A o \in 0 .. BlockSize - 1 : disk'[e][m][o] = disk[e][m][o] BY <1>5, <3>1
    <3>4. disk[e][m] \in Block /\ disk'[e][m] \in Block BY <3>2
    <3> QED BY <3>3, <3>4, BlockEqual
  <2> QED BY <1>4, <2>1, CurrentKept
<1>9. d = req[v].drive OBVIOUS
<1>10. \A e \in Drives, m \in Blocks :
          Current(e, m)' = Current(e, m) \/ (e = d /\ m = n /\ tfes'[d])
       BY <1>8
<1>11. req[v] # NoReq /\ Finish(v, "failed") BY <1>1, Zenon
<1>12. Fails(d) \/ Hangs(d) BY <1>1, Zenon
<1> HIDE DEF d, n
<1> QED BY <1>3, <1>4, <1>7, <1>9, <1>10, <1>11, <1>12, RefinesFailure, ZenonT(30)

LEMMA RefinesLoadFails ==
    ASSUME CacheInv, CacheInv', NEW v \in Drivers, LoadFails(v)
    PROVE  PlainDisk!Fail(v)
<1> DEFINE d == req[v].drive
           t == Target(d)
           n == cache[d][t].block
<1>1. /\ req[v] # NoReq /\ d \in Drives /\ t \in Slots
      /\ Fails(d) \/ Hangs(d)
      /\ \A e \in Drives, m \in Blocks :
            disk'[e][m] = IF e = d /\ cache[d][t].status = "DIRTY" /\ m = n
                          THEN cache[d][t].buf ELSE disk[e][m]
      /\ \A e \in Drives, s \in Slots :
            /\ e # d \/ s # t => cache'[e][s] = cache[e][s]
            /\ cache'[e][s].status = cache[e][s].status
            /\ cache'[e][s].block = cache[e][s].block
      /\ cache' = cache \/ (d \in Ahci /\ tfes'[d])
      /\ Finish(v, "failed")
      BY LoadFailsIs
<1>2. cache[d][t] \in Slot BY <1>1 DEF CacheInv, TypeOK
<1>3. n \in Blocks BY <1>2 DEF Slot
<1>4. cache[d][t].status # "NOT_READY" => Current(d, n) = cache[d][t].buf
      BY <1>1, <1>3, CurrentIs DEF CacheInv, CurrentFacts
<1>5. ASSUME NEW e \in Drives, NEW m \in Blocks, NEW o \in 0 .. BlockSize - 1
      PROVE  disk'[e][m][o] \in {disk[e][m][o], Current(e, m)[o]}
  <2>1. CASE e = d /\ cache[d][t].status = "DIRTY" /\ m = n
    <3>1. disk'[e][m] = cache[d][t].buf BY <1>1, <2>1
    <3>2. Current(e, m) = cache[d][t].buf BY <1>4, <2>1
    <3> QED BY <3>1, <3>2
  <2>2. CASE ~(e = d /\ cache[d][t].status = "DIRTY" /\ m = n)
    <3>1. disk'[e][m] = disk[e][m] BY <1>1, <2>2
    <3> QED BY <3>1
  <2> QED BY <2>1, <2>2
<1>6. ASSUME NEW e \in Drives, NEW m \in Blocks
      PROVE  Current(e, m)' = Current(e, m) \/ (e = d /\ m = n /\ tfes'[d])
  <2>1. CASE cache' # cache /\ e = d /\ m = n BY <1>1, <2>1
  <2>2. CASE ~(cache' # cache /\ e = d /\ m = n)
    <3>1. \A s \in Slots : /\ cache'[e][s].status # "NOT_READY" <=> cache[e][s].status # "NOT_READY"
                           /\ cache'[e][s].block = cache[e][s].block
          BY <1>1
    <3>2. \A s \in Slots : cache[e][s].status # "NOT_READY" /\ cache[e][s].block = m
                            => cache'[e][s].buf = cache[e][s].buf
          BY <1>1, <2>2
    <3>3. ASSUME \A s \in Slots : cache[e][s].status # "NOT_READY" => cache[e][s].block # m
          PROVE  disk'[e][m] = disk[e][m]
      <4>1. ~(e = d /\ cache[d][t].status = "DIRTY" /\ m = n) BY <1>1, <3>3
      <4> QED BY <1>1, <4>1
    <3> QED BY <3>1, <3>2, <3>3, CurrentKept
  <2> QED BY <2>1, <2>2
<1>7. req[v] # NoReq /\ Finish(v, "failed") BY <1>1
<1>8. Fails(d) \/ Hangs(d) BY <1>1
<1>9. d \in Drives /\ d = req[v].drive BY <1>1
<1> HIDE DEF d, n
<1> QED BY <1>3, <1>5, <1>6, <1>7, <1>8, <1>9, RefinesFailure, ZenonT(30)

(* A chunk that is copied is on the disk: its block is one of the disk. *)
LEMMA ChunkOnDisk ==
    ASSUME CacheInv, NEW v \in Drivers, Hits(v)
    PROVE  LET at == req[v].loc + req[v].progress
           IN  at \in Addrs /\ at .. at + Chunk(req[v]) - 1 \subseteq Addrs
<1> DEFINE r == req[v]
           at == r.loc + r.progress
           o == at % BlockSize
           q == at \div BlockSize
<1>1. r # NoReq /\ r.op # "flush" /\ r.progress < r.count /\ Wanted(r) \in Blocks BY HitTyped
<1>2. at \in Addrs /\ at \in Nat BY <1>1, WantedBlock DEF CacheInv
<1>3. Chunk(r) \in 1 .. r.count - r.progress /\ Chunk(r) <= BlockSize - o
      BY <1>1, ChunkFits DEF CacheInv
<1>4. r.count \in Nat /\ r.progress \in Nat BY <1>1, RequestTyped DEF CacheInv
<1>5. q \in Blocks BY <1>1 DEF Wanted
<1>6. BlockSize \in Nat \ {0} BY BlockCacheAssumption
<1> HIDE DEF at, r
<1>7. q \in Nat /\ o \in 0 .. BlockSize - 1 /\ at = BlockSize * q + o BY <1>2, <1>6, DivMod
<1> HIDE DEF o, q
<1>8. ASSUME NEW b \in at .. at + Chunk(r) - 1 PROVE b \in Addrs
  <2> DEFINE k == o + (b - at)
             x == BlockSize * q
  <2>1. x \in Nat BY <1>6, <1>7, Z3
  <2>2. at = x + o BY <1>7
  <2> HIDE DEF x
  <2>3. k \in 0 .. BlockSize - 1 /\ b \in Nat /\ b = x + k
        BY <1>2, <1>3, <1>4, <1>6, <1>7, <2>1, <2>2
  <2> HIDE DEF k
  <2>4. (BlockSize * q + k) \div BlockSize = q BY <1>6, <1>7, <2>3, DivUnique
  <2>5. b \div BlockSize = q BY <2>3, <2>4 DEF x
  <2> QED BY <1>5, <2>3, <2>5, BlockHasAddress
<1>9. at .. at + Chunk(r) - 1 \subseteq Addrs BY <1>8
<1> QED BY <1>2, <1>9 DEF at, r

(* The bytes of a chunk are those of the cached block. *)
LEMMA ChunkBytes ==
    ASSUME CacheInv, NEW v \in Drivers, Hits(v)
    PROVE  LET r == req[v]
               at == r.loc + r.progress
           IN  /\ Current(r.drive, Wanted(r)) = cache[r.drive][HitSlot(r)].buf
               /\ \A i \in 1 .. Chunk(r) :
                     Content[r.drive][at + i - 1]
                     = cache[r.drive][HitSlot(r)].buf[(at % BlockSize) + i - 1]
<1> DEFINE r == req[v]
           at == r.loc + r.progress
           d == r.drive
           buf == cache[d][HitSlot(r)].buf
<1>1. /\ r # NoReq /\ r.op # "flush" /\ r.progress < r.count
      /\ d \in Drives /\ Wanted(r) \in Blocks /\ HitSlot(r) \in Slots
      /\ cache[d][HitSlot(r)].block = Wanted(r)
      /\ cache[d][HitSlot(r)].status # "NOT_READY"
      BY HitTyped
<1>2. Current(d, Wanted(r)) = buf BY <1>1, CurrentIs DEF CacheInv, CurrentFacts
<1>3. at \in Addrs BY <1>1, WantedBlock DEF CacheInv
<1>4. Chunk(r) \in 1 .. r.count - r.progress /\ Chunk(r) <= BlockSize - (at % BlockSize)
      BY <1>1, ChunkFits DEF CacheInv
<1>5. r.progress \in Nat /\ r.count \in Nat /\ r.loc \in Nat /\ at \in Nat
      BY <1>1, RequestTyped DEF CacheInv
<1>6. Wanted(r) = at \div BlockSize BY DEF Wanted
<1>7. ASSUME NEW i \in 1 .. Chunk(r)
      PROVE  Content[d][at + i - 1] = buf[(at % BlockSize) + i - 1]
  <2> DEFINE b == at + i - 1
  <2>1. Chunk(r) \in Nat BY <1>4, <1>5
  <2>2. b \in at .. at + Chunk(r) - 1 /\ b \in Addrs
    <3>1. at .. at + Chunk(r) - 1 \subseteq Addrs BY ChunkOnDisk
    <3>2. at \in Nat BY <1>5
    <3> HIDE DEF r, at
    <3>3. b \in at .. at + Chunk(r) - 1 BY <2>1, <3>2
    <3> QED BY <3>1, <3>3
  <2>3. b \div BlockSize = at \div BlockSize /\ b - at = (b % BlockSize) - (at % BlockSize)
    <3> HIDE DEF b, at
    <3> QED BY <1>3, <1>4, <2>1, <2>2, ChunkInBlock
  <2>4. Content[d][b] = Current(d, b \div BlockSize)[b % BlockSize] BY <1>1, <2>2 DEF Content
  <2>5. Content[d][b] = buf[b % BlockSize]
    <3> HIDE DEF b, at, buf, d, r
    <3> QED BY <1>2, <1>6, <2>3, <2>4
  <2>6. b % BlockSize = (at % BlockSize) + i - 1
    <3>1. b % BlockSize \in Nat /\ at % BlockSize \in Nat
      <4> HIDE DEF b, at
      <4> QED BY <1>3, <2>2, AddressSplits
    <3>2. at \in Nat BY <1>5
    <3>3. i \in Nat BY <2>1
    <3>4. b = at + i - 1 OBVIOUS
    <3> HIDE DEF b, at
    <3> QED BY <2>3, <3>1, <3>2, <3>3, <3>4
  <2> QED BY <2>5, <2>6
<1> QED BY <1>2, <1>7

(* The drive is given nothing. *)
LEMMA DestageNothing ==
    ASSUME CacheInv, CacheInv', disk' = disk PROVE PlainDisk!Destage
  BY DestageByBlock

(* The request of one driver changes, and is not a flush. *)
LEMMA PendingChanges ==
    ASSUME CacheInv, NEW v \in Drivers, req[v] # NoReq, req[v].op # "flush",
           NEW q, q.op # "flush", req' = [req EXCEPT ![v] = q]
    PROVE  Pending[v] = req[v] /\ Pending' = [Pending EXCEPT ![v] = q]
<1>1. Pending[v] = req[v] BY PendingIs
<1>2. \A w \in Drivers : req'[w] = IF w = v THEN q ELSE req[w] BY DEF CacheInv, TypeOK
<1>3. \A w \in Drivers : Pending'[w] = IF w = v THEN q ELSE Pending[w]
  <2> SUFFICES ASSUME NEW w \in Drivers PROVE Pending'[w] = IF w = v THEN q ELSE Pending[w] OBVIOUS
  <2>1. Pending'[w] = IF req'[w] # NoReq /\ req'[w].op = "flush"
                      THEN [req'[w] EXCEPT !.progress = 0] ELSE req'[w]
        BY DEF Pending
  <2>2. Pending[w] = IF req[w] # NoReq /\ req[w].op = "flush"
                     THEN [req[w] EXCEPT !.progress = 0] ELSE req[w]
        BY DEF Pending
  <2>3. CASE v = w
    <3>1. req'[w] = q BY <1>2, <2>3
    <3> QED BY <2>1, <2>3, <3>1
  <2>4. CASE v # w
    <3>1. req'[w] = req[w] BY <1>2, <2>4
    <3> QED BY <2>1, <2>2, <2>4, <3>1
  <2> QED BY <2>3, <2>4
<1>4. DOMAIN Pending = Drivers /\ DOMAIN Pending' = Drivers
      /\ Pending = [w \in Drivers |-> Pending[w]] /\ Pending' = [w \in Drivers |-> Pending'[w]]
      BY DEF Pending
<1>5. Pending' = [Pending EXCEPT ![v] = q] BY <1>3, <1>4
<1> QED BY <1>1, <1>5

LEMMA RefinesCopyOut ==
    ASSUME CacheInv, CacheInv', NEW v \in Drivers, CopyOut(v)
    PROVE  PlainDisk!Transfer(v)
<1> DEFINE r == req[v]
           at == r.loc + r.progress
           n == Chunk(r)
           piece == [i \in 1 .. n |-> cache[r.drive][HitSlot(r)].buf[(at % BlockSize) + i - 1]]
           b == r.buf \o piece
           q == [r EXCEPT !.progress = r.progress + n, !.buf = b]
<1>1. Hits(v) /\ r.op = "read" /\ r \in Request /\ n \in Nat /\ b \in Seq(Data)
      /\ req' = [req EXCEPT ![v] = q]
      BY CopyOutIs
<1>2. r # NoReq /\ r.op # "flush" /\ r.progress < r.count BY <1>1, HitTyped
<1>3. n \in 1 .. r.count - r.progress BY <1>2, ChunkFits DEF CacheInv
<1>4. disk' = disk /\ cache' = cache /\ tfes' = tfes /\ ret' = ret BY DEF CopyOut
<1>5. Content' = Content BY <1>4, SameBytes
<1>6. piece = [i \in 1 .. n |-> Content[r.drive][at + i - 1]] BY <1>1, ChunkBytes
<1>7. q.op = "read"
  <2> HIDE DEF r, n, b
  <2>1. q = [op |-> r.op, drive |-> r.drive, loc |-> r.loc, count |-> r.count,
             progress |-> r.progress + n, buf |-> b]
        BY <1>1, CopiedRequest
  <2> HIDE DEF q
  <2> QED BY <1>1, <2>1
<1> HIDE DEF q
<1>8. Pending[v] = r /\ Pending' = [Pending EXCEPT ![v] = q] BY <1>1, <1>2, <1>7, PendingChanges
<1>9. q = [Pending[v] EXCEPT !.progress = Pending[v].progress + n,
              !.buf = Pending[v].buf \o [i \in 1 .. n |-> Content[r.drive][at + i - 1]]]
      BY <1>6, <1>8 DEF q
<1>13. at .. at + n - 1 \subseteq Addrs BY <1>1, ChunkOnDisk
<1>10. PlainDisk!Destage BY <1>4, DestageNothing
<1>11. {e \in Drives : tfes'[e]} = {e \in Drives : tfes[e]} BY <1>4
<1>12. Pending' = [Pending EXCEPT ![v].progress = @ + n,
                      ![v].buf = IF Pending[v].op = "read"
                                 THEN @ \o [i \in 1 .. n |-> Content[Pending[v].drive][at + i - 1]]
                                 ELSE @]
  <2>1. Pending[v].op = "read" BY <1>1, <1>8
  <2> HIDE DEF n, at, r
  <2>2. Pending' = [Pending EXCEPT ![v] = [Pending[v] EXCEPT !.progress = Pending[v].progress + n,
              !.buf = Pending[v].buf \o [i \in 1 .. n |-> Content[Pending[v].drive][at + i - 1]]]]
        BY <1>8, <1>9
  <2> QED BY <2>1, <2>2
<1> QED BY <1>1, <1>2, <1>3, <1>4, <1>5, <1>8, <1>10, <1>11, <1>12, <1>13
        DEF PlainDisk!Transfer, PlainDisk!Addrs, Addrs

(* A chunk of a write changes the bytes it is for and no other. *)
LEMMA WrittenBytes ==
    ASSUME CacheInv, CacheInv', NEW v \in Drivers, CopyIn(v)
    PROVE  LET r == req[v]
               at == r.loc + r.progress
           IN  \A e \in Drives, a \in Addrs :
                  Content'[e][a] = IF e = r.drive /\ a \in at .. at + Chunk(r) - 1
                                   THEN r.buf[a - r.loc + 1] ELSE Content[e][a]
<1> DEFINE r == req[v]
           d == r.drive
           h == HitSlot(r)
           w == Wanted(r)
           slot == cache[d][h]
           new == [status |-> "DIRTY", block |-> slot.block, buf |-> NewBytes(slot.buf, r)]
           at == r.loc + r.progress
           n == Chunk(r)
<1>1. /\ Hits(v)
      /\ \A e \in Drives, s \in Slots : cache'[e][s] = IF e = d /\ s = h THEN new ELSE cache[e][s]
      BY CopyInIs
<1>2. /\ r # NoReq /\ r.op # "flush" /\ r.progress < r.count
      /\ d \in Drives /\ w \in Blocks /\ h \in Slots
      /\ slot.block = w /\ slot.status # "NOT_READY"
      BY <1>1, HitTyped
<1>3. disk' = disk BY DEF CopyIn
<1>4. at \in Addrs BY <1>2, WantedBlock DEF CacheInv
<1>5. n \in 1 .. r.count - r.progress /\ n <= BlockSize - (at % BlockSize)
      BY <1>2, ChunkFits DEF CacheInv
<1>6. r.progress \in Nat /\ r.count \in Nat /\ r.loc \in Nat BY <1>2, RequestTyped DEF CacheInv
<1>7. w = at \div BlockSize BY DEF Wanted
<1>8. new.status = "DIRTY" /\ new.block = w /\ new.buf = NewBytes(slot.buf, r) BY <1>2
<1>9. CurrentFacts /\ SlotsApart /\ SlotsApart' BY CurrentIs DEF CacheInv
<1>10. CurrentFacts' BY CurrentIs, PTL
<1>11. Current(d, w) = slot.buf BY <1>2, <1>9 DEF CurrentFacts
<1> HIDE DEF new
<1>12. ASSUME NEW e \in Drives, NEW m \in Blocks, e = d, m = w
       PROVE  Current(e, m)' = NewBytes(slot.buf, r)
  <2>1. cache'[e][h] = new BY <1>1, <1>2, <1>12
  <2>2. Current(e, m)' = cache'[e][h].buf BY <1>2, <1>8, <1>9, <1>10, <1>12, <2>1 DEF CurrentFacts
  <2> QED BY <1>8, <2>1, <2>2
<1>13. ASSUME NEW e \in Drives, NEW m \in Blocks, ~(e = d /\ m = w)
       PROVE  Current(e, m)' = Current(e, m)
  <2>1. \A s \in Slots : /\ cache'[e][s].status # "NOT_READY" <=> cache[e][s].status # "NOT_READY"
                         /\ cache'[e][s].block = cache[e][s].block
    <3> SUFFICES ASSUME NEW s \in Slots
                 PROVE  /\ cache'[e][s].status # "NOT_READY" <=> cache[e][s].status # "NOT_READY"
                        /\ cache'[e][s].block = cache[e][s].block
        OBVIOUS
    <3>1. CASE e = d /\ s = h
      <4>1. cache'[e][s] = new BY <1>1, <1>2, <3>1
      <4> QED BY <1>2, <1>8, <3>1, <4>1
    <3>2. CASE ~(e = d /\ s = h)
      <4>1. cache'[e][s] = cache[e][s] BY <1>1, <3>2
      <4> QED BY <4>1
    <3> QED BY <3>1, <3>2
  <2>2. \A s \in Slots : cache[e][s].status # "NOT_READY" /\ cache[e][s].block = m
                         => cache'[e][s].buf = cache[e][s].buf
    <3> SUFFICES ASSUME NEW s \in Slots, cache[e][s].status # "NOT_READY", cache[e][s].block = m
                 PROVE  cache'[e][s].buf = cache[e][s].buf
        OBVIOUS
    <3>1. ~(e = d /\ s = h) BY <1>2, <1>13
    <3>2. cache'[e][s] = cache[e][s] BY <1>1, <3>1
    <3> QED BY <3>2
  <2>3. disk'[e][m] = disk[e][m] BY <1>3
  <2> QED BY <2>1, <2>2, <2>3, CurrentKept
<1>14. ASSUME NEW e \in Drives, NEW a \in Addrs
       PROVE  Content'[e][a] = IF e = d /\ a \in at .. at + n - 1
                               THEN r.buf[a - r.loc + 1] ELSE Content[e][a]
  <2>1. a \div BlockSize \in Blocks /\ a % BlockSize \in 0 .. BlockSize - 1 BY AddressSplits
  <2>2. /\ Content[e][a] = Current(e, a \div BlockSize)[a % BlockSize]
        /\ Content'[e][a] = Current(e, a \div BlockSize)'[a % BlockSize]
        BY DEF Content
  <2>3. n \in Nat BY <1>5, <1>6
  <2>4. /\ a \in at .. at + n - 1 <=> /\ a \div BlockSize = at \div BlockSize
                                      /\ a % BlockSize \in (at % BlockSize) .. (at % BlockSize) + n - 1
        /\ a \div BlockSize = at \div BlockSize => a - at = (a % BlockSize) - (at % BlockSize)
    <3> HIDE DEF at, n
    <3> QED BY <1>4, <1>5, <2>3, ChunkInBlock
  <2>5. CASE e = d /\ a \div BlockSize = w
    <3> DEFINE o == a % BlockSize
               f == at % BlockSize
    <3>1. Content[e][a] = slot.buf[o] /\ Content'[e][a] = NewBytes(slot.buf, r)[o]
      <4>1. Current(e, a \div BlockSize) = slot.buf BY <1>11, <2>5
      <4>2. Current(e, a \div BlockSize)' = NewBytes(slot.buf, r) BY <1>12, <2>1, <2>5
      <4> QED BY <2>2, <4>1, <4>2
    <3>2. NewBytes(slot.buf, r)[o] = IF o \in f .. f + n - 1 THEN r.buf[r.progress + o - f + 1]
                                     ELSE slot.buf[o]
          BY <2>1 DEF NewBytes
    <3>3. a \in at .. at + n - 1 <=> o \in f .. f + n - 1 BY <1>7, <2>4, <2>5
    <3>4. r.progress + o - f + 1 = a - r.loc + 1
      <4>1. a - at = o - f BY <1>7, <2>4, <2>5
      <4>2. o \in Nat BY <2>1
      <4>3. f \in Nat
        <5> HIDE DEF at
        <5> QED BY <1>4, AddressSplits
      <4>4. a \in Nat BY Sizes
      <4>5. at = r.loc + r.progress OBVIOUS
      <4> HIDE DEF at, o, f, r
      <4> QED BY <1>6, <4>1, <4>2, <4>3, <4>4, <4>5
    <3> HIDE DEF o, f, at, n
    <3> QED BY <2>5, <3>1, <3>2, <3>3, <3>4
  <2>6. CASE ~(e = d /\ a \div BlockSize = w)
    <3>1. Current(e, a \div BlockSize)' = Current(e, a \div BlockSize) BY <1>13, <2>1, <2>6
    <3>2. ~(e = d /\ a \in at .. at + n - 1) BY <1>7, <2>4, <2>6
    <3> HIDE DEF at, n
    <3> QED BY <2>2, <3>1, <3>2
  <2> QED BY <2>5, <2>6
<1> QED BY <1>14

LEMMA RefinesCopyIn ==
    ASSUME CacheInv, CacheInv', NEW v \in Drivers, CopyIn(v)
    PROVE  PlainDisk!Transfer(v)
<1> DEFINE r == req[v]
           at == r.loc + r.progress
           n == Chunk(r)
           q == [op |-> r.op, drive |-> r.drive, loc |-> r.loc, count |-> r.count,
                 progress |-> r.progress + n, buf |-> r.buf]
<1>1. Hits(v) /\ r.op = "write" /\ req' = [req EXCEPT ![v] = q] BY CopyInIs
<1>2. r # NoReq /\ r.op # "flush" /\ r.progress < r.count /\ r.drive \in Drives BY <1>1, HitTyped
<1>3. n \in 1 .. r.count - r.progress BY <1>2, ChunkFits DEF CacheInv
<1>4. disk' = disk /\ tfes' = tfes /\ ret' = ret BY DEF CopyIn
<1>5. r \in Request BY <1>2, RequestTyped DEF CacheInv
<1>6. q.op = "write" BY <1>1
<1>7. Pending[v] = r /\ Pending' = [Pending EXCEPT ![v] = q]
  <2> HIDE DEF q
  <2> QED BY <1>1, <1>2, <1>6, PendingChanges
<1>8. q = [r EXCEPT !.progress = r.progress + n, !.buf = r.buf]
  <2>1. r.buf \in Seq(Data) /\ n \in Nat BY <1>2, <1>3, RequestTyped DEF CacheInv
  <2> HIDE DEF r, n
  <2> QED BY <1>5, <2>1, CopiedRequest
<1>9. Pending' = [Pending EXCEPT ![v].progress = @ + n,
                      ![v].buf = IF Pending[v].op = "read"
                                 THEN @ \o [i \in 1 .. n |-> Content[Pending[v].drive][at + i - 1]]
                                 ELSE @]
  <2>1. Pending[v].op # "read" BY <1>1, <1>7
  <2> HIDE DEF n, at, r, q
  <2>2. Pending' = [Pending EXCEPT ![v] = [Pending[v] EXCEPT !.progress = Pending[v].progress + n,
                                              !.buf = Pending[v].buf]]
        BY <1>7, <1>8
  <2> QED BY <2>1, <2>2
<1>10. Content' = [Content EXCEPT ![r.drive] =
                     [a \in Addrs |-> IF a \in at .. at + n - 1 THEN r.buf[a - r.loc + 1]
                                      ELSE Content[r.drive][a]]]
  <2>1. \A e \in Drives, a \in Addrs :
           Content'[e][a] = IF e = r.drive /\ a \in at .. at + n - 1
                            THEN r.buf[a - r.loc + 1] ELSE Content[e][a]
        BY WrittenBytes
  <2>2. /\ Content = [e \in Drives |-> [a \in Addrs |-> Content[e][a]]]
        /\ Content' = [e \in Drives |-> [a \in Addrs |-> Content'[e][a]]]
        BY DEF Content
  <2> HIDE DEF r, at, n
  <2> QED BY <1>2, <2>1, <2>2
<1>11. PlainDisk!Destage BY <1>4, DestageNothing
<1>12. {e \in Drives : tfes'[e]} = {e \in Drives : tfes[e]} BY <1>4
<1>13. at .. at + n - 1 \subseteq Addrs BY <1>1, ChunkOnDisk
<1> HIDE DEF q
<1> QED BY <1>1, <1>2, <1>3, <1>4, <1>7, <1>9, <1>10, <1>11, <1>12, <1>13
        DEF PlainDisk!Transfer, PlainDisk!Addrs, Addrs

(* A flush that returns 0 has left nothing dirty, and what is not dirty has
   been given to the drive.                                                  *)
LEMMA RefinesReturn ==
    ASSUME CacheInv, CacheInv', NEW v \in Drivers, Return(v)
    PROVE  PlainDisk!Return(v)
<1> DEFINE r == req[v]
<1>1. /\ r # NoReq /\ r.progress = IF r.op = "flush" THEN NSlots ELSE r.count
      /\ Finish(v, "done") /\ disk' = disk /\ cache' = cache /\ tfes' = tfes
      BY DEF Return
<1>2. Content' = Content /\ Medium' = Medium BY <1>1, SameBytes
<1>3. Pending' = [Pending EXCEPT ![v] = NoReq] /\ ret' = [ret EXCEPT ![v] = "done"]
      BY <1>1, PendingEnds DEF Finish
<1>4. Pending[v] # NoReq /\ Pending[v].op = r.op /\ Pending[v].drive = r.drive
      /\ (r.op # "flush" => Pending[v] = r)
      BY <1>1, PendingIs
<1>5. ASSUME r.op = "flush", r.drive \notin {e \in Drives : tfes[e]}
      PROVE  Medium[r.drive] = Content[r.drive]
  <2> DEFINE d == r.drive
  <2>1. d \in Drives BY <1>1, RequestTyped DEF CacheInv
  <2>2. ~tfes[d] BY <1>5, <2>1
  <2>3. \A s \in Slots : cache[d][s].status # "DIRTY"
    <3>1. \A s \in Slots : s < NSlots BY BlockCacheAssumption DEF Slots
    <3>2. r.progress = NSlots BY <1>1, <1>5
    <3> QED BY <1>1, <1>5, <3>1, <3>2 DEF CacheInv, FlushedClean
  <2>4. ASSUME NEW n \in Blocks PROVE Current(d, n) = disk[d][n]
    <3>1. CASE \E s \in Slots : cache[d][s].status # "NOT_READY" /\ cache[d][s].block = n
      <4>1. PICK s \in Slots : cache[d][s].status # "NOT_READY" /\ cache[d][s].block = n BY <3>1
      <4>2. Current(d, n) = cache[d][s].buf BY <2>1, <4>1, CurrentIs DEF CacheInv, CurrentFacts
      <4>3. cache[d][s] \in Slot BY <2>1 DEF CacheInv, TypeOK
      <4>4. cache[d][s].status = "READY" BY <2>3, <4>1, <4>3 DEF Slot
      <4> QED BY <2>1, <2>2, <4>1, <4>2, <4>4 DEF CacheInv, CleanIsOnDisk
    <3>2. CASE ~\E s \in Slots : cache[d][s].status # "NOT_READY" /\ cache[d][s].block = n
          BY <2>1, <3>2, CurrentIs DEF CacheInv, CurrentFacts
    <3> QED BY <3>1, <3>2
  <2>5. \A a \in Addrs : Current(d, a \div BlockSize) = disk[d][a \div BlockSize]
        BY <2>4, AddressSplits
  <2> HIDE DEF d
  <2>6. Medium[d] = Content[d] BY <2>1, <2>5 DEF Medium, Content
  <2> QED BY <2>6 DEF d
<1>6. {e \in Drives : tfes'[e]} = {e \in Drives : tfes[e]} BY <1>1
<1> QED BY <1>1, <1>2, <1>3, <1>4, <1>5, <1>6 DEF PlainDisk!Return

(* A step of a flush destages one block. *)
LEMMA RefinesFlushSlot ==
    ASSUME CacheInv, CacheInv', NEW v \in Drivers, FlushSlot(v)
    PROVE  PlainDisk!Destage /\ UNCHANGED <<Content, Pending, ret, {d \in Drives : tfes[d]}>>
<1> DEFINE r == req[v]
           d == r.drive
           k == r.progress
           slot == cache[d][k]
           new == [status |-> "READY", block |-> slot.block, buf |-> slot.buf]
           q == [op |-> r.op, drive |-> d, loc |-> r.loc, count |-> r.count,
                 progress |-> r.progress + 1, buf |-> r.buf]
<1>1. /\ r # NoReq /\ r.op = "flush"
      /\ d \in Drives /\ k \in Slots /\ q \in Request
      /\ req' = [req EXCEPT ![v] = q]
      /\ tfes' = tfes
      /\ \A e \in Drives, m \in Blocks :
            disk'[e][m] = IF e = d /\ slot.status = "DIRTY" /\ m = slot.block
                          THEN slot.buf ELSE disk[e][m]
      /\ \A e \in Drives, t \in Slots :
            cache'[e][t] = IF e = d /\ t = k /\ slot.status = "DIRTY" THEN new ELSE cache[e][t]
      BY FlushSlotIs
<1>2. ret' = ret BY DEF FlushSlot
<1>3. new.status = "READY" /\ new.block = slot.block /\ new.buf = slot.buf OBVIOUS
<1>4. slot \in Slot BY <1>1 DEF CacheInv, TypeOK
<1>5. slot.block \in Blocks BY <1>4 DEF Slot
<1>6. slot.status = "DIRTY" => Current(d, slot.block) = slot.buf
      BY <1>1, <1>5, CurrentIs DEF CacheInv, CurrentFacts
<1>7. Pending' = Pending
  <2>1. r \in Request BY <1>1, RequestTyped DEF CacheInv
  <2>2. q # NoReq /\ q.op = "flush" BY <1>1, BlockCacheAssumption
  <2>3. [q EXCEPT !.progress = 0] = [r EXCEPT !.progress = 0]
    <3> HIDE DEF r
    <3>1. [r EXCEPT !.progress = 0] = [op |-> r.op, drive |-> r.drive, loc |-> r.loc,
                                       count |-> r.count, progress |-> 0, buf |-> r.buf]
          BY <2>1 DEF Request
    <3> QED BY <3>1
  <2> HIDE DEF q
  <2>4. \A w \in Drivers : req'[w] = IF w = v THEN q ELSE req[w] BY <1>1 DEF CacheInv, TypeOK
  <2>5. ASSUME NEW w \in Drivers PROVE Pending'[w] = Pending[w]
    <3>1. Pending'[w] = IF req'[w] # NoReq /\ req'[w].op = "flush"
                        THEN [req'[w] EXCEPT !.progress = 0] ELSE req'[w]
          BY DEF Pending
    <3>2. Pending[w] = IF req[w] # NoReq /\ req[w].op = "flush"
                       THEN [req[w] EXCEPT !.progress = 0] ELSE req[w]
          BY DEF Pending
    <3>3. CASE w = v
      <4>1. req'[w] = q BY <2>4, <3>3
      <4> QED BY <1>1, <2>2, <2>3, <3>1, <3>2, <3>3, <4>1
    <3>4. CASE w # v
      <4>1. req'[w] = req[w] BY <2>4, <3>4
      <4> QED BY <3>1, <3>2, <4>1
    <3> QED BY <3>3, <3>4
  <2>6. Pending = [w \in Drivers |-> Pending[w]] /\ Pending' = [w \in Drivers |-> Pending'[w]]
        BY DEF Pending
  <2> QED BY <2>5, <2>6
<1> HIDE DEF new, q
<1>8. ASSUME NEW e \in Drives, NEW m \in Blocks PROVE Current(e, m)' = Current(e, m)
  <2>1. \A s \in Slots : /\ cache'[e][s].status # "NOT_READY" <=> cache[e][s].status # "NOT_READY"
                         /\ cache'[e][s].block = cache[e][s].block
                         /\ cache'[e][s].buf = cache[e][s].buf
    <3> SUFFICES ASSUME NEW s \in Slots
                 PROVE  /\ cache'[e][s].status # "NOT_READY" <=> cache[e][s].status # "NOT_READY"
                        /\ cache'[e][s].block = cache[e][s].block
                        /\ cache'[e][s].buf = cache[e][s].buf
        OBVIOUS
    <3>1. CASE e = d /\ s = k /\ slot.status = "DIRTY"
      <4>1. cache'[e][s] = new BY <1>1, <3>1
      <4> QED BY <1>3, <3>1, <4>1
    <3>2. CASE ~(e = d /\ s = k /\ slot.status = "DIRTY")
      <4>1. cache'[e][s] = cache[e][s] BY <1>1, <3>2
      <4> QED BY <4>1
    <3> QED BY <3>1, <3>2
  <2>2. ASSUME \A s \in Slots : cache[e][s].status # "NOT_READY" => cache[e][s].block # m
        PROVE  disk'[e][m] = disk[e][m]
    <3>1. ~(e = d /\ slot.status = "DIRTY" /\ m = slot.block) BY <1>1, <2>2
    <3> QED BY <1>1, <3>1
  <2> QED BY <2>1, <2>2, CurrentKept
<1>9. Content' = Content BY <1>8, SameContent
<1>10. ASSUME NEW e \in Drives, NEW m \in Blocks, NEW o \in 0 .. BlockSize - 1
       PROVE  disk'[e][m][o] \in {disk[e][m][o], Current(e, m)[o]}
  <2>1. CASE e = d /\ slot.status = "DIRTY" /\ m = slot.block
    <3>1. disk'[e][m] = slot.buf BY <1>1, <2>1
    <3>2. Current(e, m) = slot.buf BY <1>6, <2>1
    <3> QED BY <3>1, <3>2
  <2>2. CASE ~(e = d /\ slot.status = "DIRTY" /\ m = slot.block)
    <3>1. disk'[e][m] = disk[e][m] BY <1>1, <2>2
    <3> QED BY <3>1
  <2> QED BY <2>1, <2>2
<1>11. PlainDisk!Destage BY <1>10, DestageByBlock
<1> QED BY <1>1, <1>2, <1>7, <1>9, <1>11

LEMMA RefinesStep ==
    CacheInv /\ CacheInv' /\ [Next]_vars => [PlainDisk!Next]_(PlainDisk!vars)
<1> SUFFICES ASSUME CacheInv, CacheInv', [Next]_vars
             PROVE  PlainDisk!Next \/ UNCHANGED PlainDisk!vars
    OBVIOUS
<1>1. ASSUME NEW d \in devices, ide_read(d) \/ ahci_read(d) \/ ide_write(d) \/ ahci_write(d)
      PROVE  PlainDisk!Next
      BY <1>1, RefinesCalls DEF PlainDisk!Next
<1>2. CASE device_sync_worker BY <1>2, RefinesCalls DEF PlainDisk!Next
<1>3. ASSUME NEW v \in Drivers, Load(v) \/ FlushSlot(v) PROVE PlainDisk!Next
      BY <1>3, RefinesLoad, RefinesFlushSlot DEF PlainDisk!Next
<1>4. ASSUME NEW v \in Drivers, WriteBackFails(v) \/ FlushFails(v) \/ LoadFails(v) PROVE PlainDisk!Next
      BY <1>4, RefinesFailedWrites, RefinesLoadFails DEF PlainDisk!Next
<1>5. ASSUME NEW v \in Drivers, CopyOut(v) \/ CopyIn(v) PROVE PlainDisk!Next
      BY <1>5, RefinesCopyOut, RefinesCopyIn DEF PlainDisk!Next
<1>6. ASSUME NEW v \in Drivers, Return(v) PROVE PlainDisk!Next
      BY <1>6, RefinesReturn DEF PlainDisk!Next
<1>7. CASE UNCHANGED vars
  <2>1. disk' = disk /\ cache' = cache /\ req' = req /\ ret' = ret /\ tfes' = tfes BY <1>7 DEF vars
  <2>2. Content' = Content /\ Medium' = Medium BY <2>1, SameBytes
  <2>3. Pending' = Pending BY <2>1 DEF Pending
  <2> QED BY <2>1, <2>2, <2>3 DEF PlainDisk!vars
<1> QED BY <1>1, <1>2, <1>3, <1>4, <1>5, <1>6, <1>7 DEF Next

(* The drivers of ide.c and sata.c implement plain disks: whatever is cached,
   evicted, reloaded or flushed, whichever commands fail and whichever
   requests pass the end of the disk, a read returns the bytes last written,
   and a flush that returns 0 has given every byte to the drive, unless an
   AHCI port has reported an error before.  What the drive then does with its
   own cache is outside the model.                                           *)
THEOREM DriversImplementDisk == Spec => ImplementsDisk
<1>1. Init => CacheInv /\ PlainDisk!Init BY CacheInit, RefinesInit
<1>2. CacheInv /\ [Next]_vars => CacheInv' BY CacheStep
<1>3. CacheInv /\ CacheInv' /\ [Next]_vars => [PlainDisk!Next]_(PlainDisk!vars) BY RefinesStep
<1> QED BY <1>1, <1>2, <1>3, PTL DEF Spec, ImplementsDisk, PlainDisk!Spec
=============================================================================
