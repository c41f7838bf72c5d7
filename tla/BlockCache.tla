----------------------------- MODULE BlockCache ------------------------------
(***************************************************************************)
(* The write-back caches of the IDE and AHCI drivers                        *)
(* (devices/storage/ide/ide.c, devices/storage/sata/sata.c) and the thread  *)
(* that empties them (device_sync_worker of fs/devfs/devfs.c).              *)
(*                                                                         *)
(* A driver serves one request at a time under its spinlock.  A request is  *)
(* a loop over the blocks it touches: a block that is not cached is loaded  *)
(* into an empty slot, or into the next slot in turn after that slot's      *)
(* block has been written back; then the bytes are copied.  Commands to the *)
(* hardware can fail, and do for a block behind the end of the disk: devfs  *)
(* and the partitions let requests through that pass it.  What a command    *)
(* does to the drive when it fails is the hardware's choice.                *)
(*                                                                         *)
(* The model ends at the drive.  A drive has a write cache of its own, for  *)
(* which ide_write28 and ide_write48 send a FLUSH CACHE whose result they   *)
(* ignore and for which the AHCI driver sends nothing: disk is what the     *)
(* drive has been given and returns, not what it keeps without power.       *)
(***************************************************************************)
EXTENDS Integers, Sequences, FiniteSets, FiniteSetsExt

CONSTANTS
    Ide, Ahci,        \* the disks the two drivers can find
    Machines,         \* the sets of disks that may be there
    NBlocks,          \* size of a disk in blocks
    BlockSize,        \* BYTES_PER_SECT, BYTES_PER_BLOCK
    NSlots,           \* MAX_CACHED_SECTORS, MAX_CACHED_BLOCKS
    Lba28,            \* sectors a 28-bit command can name (2^28)
    Lba32,            \* blocks an AHCI command can name (2^32 sectors: lba4 and lba5 are 0)
    Data,             \* values of a byte
    Zero,             \* what kalloc fills a new buffer with
    Ranges,           \* bound: the places <<loc, count>> that are read and written
    Buffers(_),       \* bound: the buffers of that length that are written
    NoReq

Drives == Ide \cup Ahci
Drivers == {"ide", "ahci"}
DriverOf == [d \in Drives |-> IF d \in Ide THEN "ide" ELSE "ahci"]
NBytes == NBlocks * BlockSize
Addrs == 0 .. NBytes - 1
Blocks == 0 .. NBlocks - 1
Slots == 0 .. NSlots - 1
Block == [0 .. BlockSize - 1 -> Data]

(* A call of read, write or flush under way: of a read, buf has the bytes
   copied so far; of a flush, progress counts slots and not bytes.           *)
Request ==
    [op : {"read", "write", "flush"}, drive : Drives, loc : Nat, count : Nat,
     progress : Nat, buf : Seq(Data)]

(* Every disk, and every request, lies within the reach of the commands.
   Beyond that of the 28-bit ones cache_sect chooses the command for a
   write-back by the sector it is about to load, and not by the one it
   writes; beyond 2^32 sectors ahci_rw names another block.  A request may
   pass the end of its disk.                                                 *)
ASSUME BlockCacheAssumption ==
    /\ Ide \cap Ahci = {} /\ {} \notin Machines /\ UNION Machines \subseteq Drives
    /\ NBlocks \in Nat \ {0} /\ BlockSize \in Nat \ {0} /\ NSlots \in Nat \ {0}
    /\ Lba28 \in Nat /\ NBlocks <= Lba28 /\ Lba32 \in Nat /\ NBlocks <= Lba32
    /\ Zero \in Data /\ NoReq \notin Request
    /\ \A g \in Ranges :
          /\ g \in Nat \X Nat /\ Buffers(g[2]) \subseteq [1 .. g[2] -> Data]
          /\ g[1] + g[2] <= Lba28 * BlockSize /\ g[1] + g[2] <= Lba32 * BlockSize

VARIABLES
    devices,          \* the disks that were found and added to devfs
    disk,             \* disk[d][n]: block n as the drive has it
    cache,            \* cache[d][s]: cached_sector_t, cached_block_t
    overwritten_slot, \* the next slot to be reused: one for all IDE disks, one per AHCI disk
    tfes,             \* the task file error bit of an AHCI port, which nobody clears
    req,              \* req[v]: the request that holds driver v's lock
    ret,              \* ret[v]: how driver v's last request ended, "none" while one holds the lock
    sync              \* the disk device_sync_worker flushes next

vars == <<devices, disk, cache, overwritten_slot, tfes, req, ret, sync>>

Slot == [status : {"NOT_READY", "READY", "DIRTY"}, block : Blocks, buf : Block]
EmptySlot == [status |-> "NOT_READY", block |-> 0, buf |-> [o \in 0 .. BlockSize - 1 |-> Zero]]

(* init_dev_ide and init_dev_sata have identified the disks; their caches are
   zeroed pages.                                                             *)
Init ==
    /\ devices \in Machines
    /\ disk \in [Drives -> [Blocks -> Block]]
    /\ \A d \in Drives \ devices, n \in Blocks : disk[d][n] = EmptySlot.buf
    /\ cache = [d \in Drives |-> [s \in Slots |-> EmptySlot]]
    /\ overwritten_slot = [h \in {"ide"} \cup Ahci |-> 0]
    /\ tfes = [d \in Drives |-> FALSE]
    /\ req = [v \in Drivers |-> NoReq]
    /\ ret = [v \in Drivers |-> "none"]
    /\ sync \in devices

-----------------------------------------------------------------------------
(* Requests.  The lock of the driver is held from here to the return.        *)
Submit(d, op, g, buf) ==
    /\ req[DriverOf[d]] = NoReq
    /\ req' = [req EXCEPT ![DriverOf[d]] =
                 [op |-> op, drive |-> d, loc |-> g[1], count |-> g[2], progress |-> 0, buf |-> buf]]
    /\ ret' = [ret EXCEPT ![DriverOf[d]] = "none"]
    /\ UNCHANGED <<devices, disk, cache, overwritten_slot, tfes>>

ide_read(d) == d \in Ide /\ \E g \in Ranges : Submit(d, "read", g, <<>>) /\ UNCHANGED sync
ahci_read(d) == d \in Ahci /\ \E g \in Ranges : Submit(d, "read", g, <<>>) /\ UNCHANGED sync

ide_write(d) ==
    d \in Ide /\ \E g \in Ranges : \E buf \in Buffers(g[2]) : Submit(d, "write", g, buf) /\ UNCHANGED sync
ahci_write(d) ==
    d \in Ahci /\ \E g \in Ranges : \E buf \in Buffers(g[2]) : Submit(d, "write", g, buf) /\ UNCHANGED sync

(* The worker calls flush for one device after the other, whatever came of
   the call before; it has no second call under way.                         *)
device_sync_worker ==
    /\ \A v \in Drivers : req[v] # NoReq => req[v].op # "flush"
    /\ Submit(sync, "flush", <<0, 0>>, <<>>)
    /\ sync' \in IF devices = {sync} THEN devices ELSE devices \ {sync}

(* The lock is released and the call returns, with -1 if it failed. *)
Finish(v, how) ==
    /\ req' = [req EXCEPT ![v] = NoReq]
    /\ ret' = [ret EXCEPT ![v] = how]
    /\ UNCHANGED <<devices, sync>>

(* The slot of a block, if it is cached. *)
find_sect(d, n) == {s \in Slots : cache[d][s].block = n /\ cache[d][s].status # "NOT_READY"}

-----------------------------------------------------------------------------
(* The hardware.  A failed transfer may have moved any part of the block.    *)
Partly(old, new) == {b \in Block : \A o \in DOMAIN b : b[o] \in {old[o], new[o]}}

(* ide_write28 and ide_write48, ahci_rw: the block a command reaches. *)
Lba(d, wide, n) ==
    IF d \in Ahci THEN n % Lba32
    ELSE IF wide THEN n ELSE n % Lba28

(* A command succeeds at the hardware's pleasure; once the error bit of an
   AHCI port is set, ahci_rw takes every command for failed.                 *)
Succeeds(d) == ~tfes[d] /\ UNCHANGED tfes
Fails(d) ==
    \/ tfes[d] /\ UNCHANGED tfes
    \/ d \in Ide /\ UNCHANGED tfes
    \/ d \in Ahci /\ ~tfes[d] /\ tfes' = [tfes EXCEPT ![d] = TRUE]

(* "Port hung": an AHCI command that is not even started. *)
Hangs(d) == d \in Ahci /\ UNCHANGED tfes

-----------------------------------------------------------------------------
(* cache_sect and cache_block: the block the request needs next is loaded.   *)
Wanted(r) == (r.loc + r.progress) \div BlockSize

Misses(v) ==
    /\ req[v] # NoReq /\ req[v].op # "flush" /\ req[v].progress < req[v].count
    /\ find_sect(req[v].drive, Wanted(req[v])) = {}

Hand(d) == IF d \in Ide THEN "ide" ELSE d
EmptySlots(d) == {s \in Slots : cache[d][s].status = "NOT_READY"}

Target(d) ==
    IF EmptySlots(d) # {} THEN Min(EmptySlots(d))
    ELSE IF overwritten_slot[Hand(d)] = NSlots THEN 0 ELSE overwritten_slot[Hand(d)]

AdvanceHand(d) ==
    overwritten_slot' = IF EmptySlots(d) # {} THEN overwritten_slot
                        ELSE [overwritten_slot EXCEPT ![Hand(d)] = Target(d) + 1]

MustWriteBack(d) == EmptySlots(d) = {} /\ cache[d][Target(d)].status = "DIRTY"

(* Mutant of WrittenBack: the slot is reused without a write-back. *)
WrittenBack_Dropped(d, n) == disk

(* The drive after the write-back.  The width of the command follows from n,
   the block to be loaded.                                                   *)
WrittenBack(d, n) ==
    LET slot == cache[d][Target(d)]
    IN  IF MustWriteBack(d)
        THEN [disk EXCEPT ![d][Lba(d, n >= Lba28, slot.block)] = slot.buf]
        ELSE disk

Load(v) ==
    LET d == req[v].drive
        n == Wanted(req[v])
        loaded == WrittenBack(d, n)[d][Lba(d, n >= Lba28, n)]
    IN  /\ Misses(v) /\ Lba(d, n >= Lba28, n) \in Blocks /\ Succeeds(d)
        /\ AdvanceHand(d)
        /\ disk' = WrittenBack(d, n)
        /\ cache' = [cache EXCEPT ![d][Target(d)] = [status |-> "READY", block |-> n, buf |-> loaded]]
        /\ UNCHANGED <<devices, req, ret, sync>>

(* The write-back fails: the slot stays dirty, the request fails. *)
WriteBackFails(v) ==
    LET d == req[v].drive
        n == Wanted(req[v])
        slot == cache[d][Target(d)]
        lba == Lba(d, n >= Lba28, slot.block)
    IN  /\ Misses(v) /\ MustWriteBack(d)
        /\ AdvanceHand(d)
        /\ \/ Fails(d) /\ \E b \in Partly(disk[d][lba], slot.buf) : disk' = [disk EXCEPT ![d][lba] = b]
           \/ Hangs(d) /\ UNCHANGED disk
        /\ UNCHANGED cache
        /\ Finish(v, "failed")

(* What a failed read of block lba leaves in the slot's buffer: ide_read28
   copies from the DMA page only after a success, ahci_rw lets the disk write
   into the slot, if it has such a block.                                    *)
Received(d, old, blocks, lba) ==
    IF d \in Ahci /\ lba \in Blocks THEN Partly(old, blocks[lba]) ELSE {old}

(* The block cannot be read, or is not there.  The write-back has been done,
   but the slot keeps its block and its status.                              *)
LoadFails(v) ==
    LET d == req[v].drive
        n == Wanted(req[v])
        old == cache[d][Target(d)]
    IN  /\ Misses(v) /\ (MustWriteBack(d) => ~tfes[d])
        /\ AdvanceHand(d)
        /\ disk' = WrittenBack(d, n)
        /\ \/ Hangs(d) /\ UNCHANGED cache
           \/ /\ Fails(d)
              /\ IF old.status = "NOT_READY" THEN UNCHANGED cache
                 ELSE \E b \in Received(d, old.buf, disk'[d], Lba(d, n >= Lba28, n)) :
                         cache' = [cache EXCEPT ![d][Target(d)].buf = b]
        /\ Finish(v, "failed")

-----------------------------------------------------------------------------
(* The copy loop of read and write: up to the end of the block.              *)
Chunk(r) == Min({r.count - r.progress, BlockSize - ((r.loc + r.progress) % BlockSize)})

Hits(v) ==
    /\ req[v] # NoReq /\ req[v].op # "flush" /\ req[v].progress < req[v].count
    /\ find_sect(req[v].drive, Wanted(req[v])) # {}

HitSlot(r) == Min(find_sect(r.drive, Wanted(r)))

CopyOut(v) ==
    LET r == req[v]
        offset == (r.loc + r.progress) % BlockSize
        buf == cache[r.drive][HitSlot(r)].buf
    IN  /\ Hits(v) /\ r.op = "read"
        /\ req' = [req EXCEPT ![v].progress = @ + Chunk(r),
                              ![v].buf = @ \o [i \in 1 .. Chunk(r) |-> buf[offset + i - 1]]]
        /\ UNCHANGED <<devices, disk, cache, overwritten_slot, tfes, ret, sync>>

(* Mutant of Patched: the write leaves the status alone. *)
Patched_StaysClean(slot, r) ==
    LET offset == (r.loc + r.progress) % BlockSize
    IN  [slot EXCEPT !.buf = [o \in DOMAIN @ |-> IF o \in offset .. offset + Chunk(r) - 1
                                                 THEN r.buf[r.progress + o - offset + 1] ELSE @[o]]]

Patched(slot, r) ==
    LET offset == (r.loc + r.progress) % BlockSize
    IN  [slot EXCEPT !.buf = [o \in DOMAIN @ |-> IF o \in offset .. offset + Chunk(r) - 1
                                                 THEN r.buf[r.progress + o - offset + 1] ELSE @[o]],
                     !.status = "DIRTY"]

CopyIn(v) ==
    LET r == req[v]
    IN  /\ Hits(v) /\ r.op = "write"
        /\ cache' = [cache EXCEPT ![r.drive][HitSlot(r)] = Patched(@, r)]
        /\ req' = [req EXCEPT ![v].progress = @ + Chunk(r)]
        /\ UNCHANGED <<devices, disk, overwritten_slot, tfes, ret, sync>>

Return(v) ==
    /\ req[v] # NoReq
    /\ req[v].progress = IF req[v].op = "flush" THEN NSlots ELSE req[v].count
    /\ Finish(v, "done")
    /\ UNCHANGED <<disk, cache, overwritten_slot, tfes>>

-----------------------------------------------------------------------------
(* ide_flush1 and ahci_flush: every dirty slot is written, in order; the
   first failure ends the call.                                              *)
Flushing(v) == req[v] # NoReq /\ req[v].op = "flush" /\ req[v].progress < NSlots

FlushSlot(v) ==
    LET d == req[v].drive
        s == req[v].progress
        slot == cache[d][s]
    IN  /\ Flushing(v)
        /\ IF slot.status = "DIRTY"
           THEN /\ Succeeds(d)
                /\ disk' = [disk EXCEPT ![d][Lba(d, slot.block >= Lba28, slot.block)] = slot.buf]
                /\ cache' = [cache EXCEPT ![d][s].status = "READY"]
           ELSE UNCHANGED <<disk, cache, tfes>>
        /\ req' = [req EXCEPT ![v].progress = @ + 1]
        /\ UNCHANGED <<devices, overwritten_slot, ret, sync>>

FlushFails(v) ==
    LET d == req[v].drive
        slot == cache[d][req[v].progress]
        lba == Lba(d, slot.block >= Lba28, slot.block)
    IN  /\ Flushing(v) /\ slot.status = "DIRTY"
        /\ \/ Fails(d) /\ \E b \in Partly(disk[d][lba], slot.buf) : disk' = [disk EXCEPT ![d][lba] = b]
           \/ Hangs(d) /\ UNCHANGED disk
        /\ UNCHANGED <<cache, overwritten_slot>>
        /\ Finish(v, "failed")

-----------------------------------------------------------------------------
Next ==
    \/ \E d \in devices : ide_read(d) \/ ahci_read(d) \/ ide_write(d) \/ ahci_write(d)
    \/ device_sync_worker
    \/ \E v \in Drivers :
          \/ Load(v) \/ WriteBackFails(v) \/ LoadFails(v)
          \/ CopyOut(v) \/ CopyIn(v) \/ Return(v)
          \/ FlushSlot(v) \/ FlushFails(v)

Spec == Init /\ [][Next]_vars

-----------------------------------------------------------------------------
TypeOK ==
    /\ devices \subseteq Drives
    /\ disk \in [Drives -> [Blocks -> Block]]
    /\ cache \in [Drives -> [Slots -> Slot]]
    /\ overwritten_slot \in [{"ide"} \cup Ahci -> 0 .. NSlots]
    /\ tfes \in [Drives -> BOOLEAN]
    /\ req \in [Drivers -> Request \cup {NoReq}]
    /\ ret \in [Drivers -> {"none", "done", "failed"}]
    /\ sync \in devices

OneSlotPerBlock ==
    \A d \in Drives : \A n \in Blocks : Cardinality(find_sect(d, n)) <= 1

CleanIsOnDisk ==
    \A d \in Drives : ~tfes[d] =>
        \A s \in Slots : cache[d][s].status = "READY" => cache[d][s].buf = disk[d][cache[d][s].block]

(* The caches are sound: a block has one slot, so no reader finds an old copy
   while a writer changes another, and a slot that is not marked dirty may be
   dropped because the drive has the same bytes, until an AHCI port has
   reported an error.                                                        *)
CacheSound == TypeOK /\ OneSlotPerBlock /\ CleanIsOnDisk

-----------------------------------------------------------------------------
(* What a user of drive d finds in block n: the cached copy if there is one. *)
Current(d, n) ==
    IF find_sect(d, n) = {} THEN disk[d][n] ELSE cache[d][Min(find_sect(d, n))].buf

Content == [d \in Drives |-> [a \in Addrs |-> Current(d, a \div BlockSize)[a % BlockSize]]]

Medium == [d \in Drives |-> [a \in Addrs |-> disk[d][a \div BlockSize][a % BlockSize]]]

Pending ==
    [v \in Drivers |-> IF req[v] # NoReq /\ req[v].op = "flush" THEN [req[v] EXCEPT !.progress = 0] ELSE req[v]]

PlainDisk ==
    INSTANCE Disk WITH content <- Content, medium <- Medium, req <- Pending,
                       Spoiled <- Ahci, damaged <- {d \in Drives : tfes[d]}

(* The drivers implement plain disks: whatever is cached, evicted, reloaded or
   flushed, whichever commands fail and whether or not a request passes the
   end of the disk, a read returns the bytes last written, a failed request on
   an IDE disk harms nothing else, one on an AHCI disk at most one block, and
   a flush that returns 0 has given every byte to the drive, unless an AHCI
   port has reported an error before.  (Whether the drive has written it to
   its platters is not claimed: see the head of this module.)                *)
ImplementsDisk == PlainDisk!Spec
=============================================================================
