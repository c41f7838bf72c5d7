-------------------------------- MODULE Echfs --------------------------------
(***************************************************************************)
(* The echfs filesystem (fs/echfs/echfs.c): an allocation table of block    *)
(* chains and a directory table on a device, and in memory the open files   *)
(* with their chain (alloc_map), a small write-back cache of blocks and the *)
(* handles.  A call works under mnt->lock and is one step, with two         *)
(* exceptions in the code: echfs_read clamps its count before it takes the  *)
(* lock, and echfs_dup counts without it.  echfs_sync takes the lock once   *)
(* per file and holds cached_files_lock all the time.                       *)
(*                                                                         *)
(* Blocks are numbered from 1 and hold one unit of data, files are counted  *)
(* in blocks, and paths have one component.  A call that moves several      *)
(* blocks repeats, under the same lock, what a call for one block does.     *)
(*                                                                         *)
(* fault records the first step after which the code no longer works on     *)
(* what its own structures describe; the model ends there.                  *)
(***************************************************************************)
EXTENDS Integers, Sequences, FiniteSetsExt, SequencesExt

CONSTANTS
    Names,        \* paths of files and directories, without Root
    Root,         \* "/"
    Dirs,         \* the names mkdir is called for
    NBlocks,      \* data blocks
    DevBlocks,    \* blocks of the device the filesystem is on
    NEntries,     \* size of the directory table
    NSlots,       \* MAX_CACHED_BLOCKS
    Data,         \* contents of a block
    Files,        \* bound: struct cached_file_t objects at a time
    Handles,      \* bound: handles at a time
    Flags,        \* Flags[n]: the sets of flags n is opened with
    Seeks,        \* bound: the positions lseek goes to
    MaxRefs,      \* bound: references to one object
    NULL, DELETED \* no object; DELETED_ENTRY

Blocks == 1 .. NBlocks
Entries == 1 .. NEntries
Slots == 1 .. NSlots
END_OF_CHAIN == NBlocks + 1
RootId == 0

(* The data blocks lie on the device; nothing keeps them off its last block. *)
ASSUME EchfsAssumption ==
    /\ NBlocks \in Nat \ {0} /\ NEntries \in Nat \ {0} /\ NSlots \in Nat \ {0}
    /\ DevBlocks \in Nat /\ NBlocks < DevBlocks
    /\ Root \notin Names /\ Dirs \subseteq Names
    /\ Seeks \subseteq 0 .. NBlocks - 1 /\ MaxRefs \in Nat \ {0}

(* The structures: an entry of the directory table, a cached block, a struct
   cached_file_t and a struct echfs_handle_t.                                *)
DirEntries == [name : Names, type : {"file", "dir"}, payload : Nat, size : Nat]
CachedBlocks == [status : {"NOTREADY", "READY", "DIRTY"}, block : Nat, val : Data \cup {NULL}]
CachedFiles ==
    [name : Names \cup {Root}, refcount : 0 .. MaxRefs, unlinked : BOOLEAN, type : {"file", "dir"},
     not_found : BOOLEAN, entry : Entries \cup {NULL}, payload : Nat, size : Nat, alloc_map : Seq(Blocks),
     slots : [Slots -> CachedBlocks], overwritten_slot : Slots, changed_entry : BOOLEAN, changed_cache : BOOLEAN]
OpenHandles ==
    [file : Files, type : {"file", "dir"}, ptr : Nat, end : Nat, refcount : Nat \ {0},
     flags : SUBSET {"WRITE", "APPEND"}, by : {"program", "unlink", "unlinked"}]

ASSUME NullAssumption ==
    /\ NULL \notin Files /\ NULL \notin Data /\ NULL \notin Names \cup {Root} /\ NULL \notin Entries
    /\ NULL # DELETED /\ NULL \notin DirEntries /\ DELETED \notin DirEntries
    /\ NULL \notin OpenHandles /\ \A S \in SUBSET Files : S # NULL

VARIABLES
    fat,          \* fat[b]: 0 (free), the next block, or END_OF_CHAIN
    data,         \* data[b]: block b on the device
    dir,          \* the directory table: an entry, DELETED, or NULL (never used)
    files,        \* files[i]: a struct cached_file_t, or Freed
    cached_files, \* the hash table: cached_files[n]: the object for n, or NULL
    handles,      \* handles[h]: a struct echfs_handle_t, or NULL
    syncing,      \* the files echfs_sync has still to write, or NULL
    written,      \* written[i][p]: what was last written at p of file i, or NULL (not in the code)
    fault

vars == <<fat, data, dir, files, cached_files, handles, syncing, written, fault>>

NoSlot == [status |-> "NOTREADY", block |-> 0, val |-> NULL]
Unwritten == [p \in 0 .. NBlocks |-> NULL]

(* No object, or a freed one: handles may still point to it. *)
Freed == [name |-> NULL]

File(name, type, not_found, entry, payload, size, map) ==
    [name |-> name, refcount |-> 1, unlinked |-> FALSE, type |-> type, not_found |-> not_found,
     entry |-> entry, payload |-> payload, size |-> size, alloc_map |-> map,
     slots |-> [s \in Slots |-> NoSlot], overwritten_slot |-> 1,
     changed_entry |-> FALSE, changed_cache |-> FALSE]

-----------------------------------------------------------------------------
(* The device.  devfs_read and devfs_write shorten a transfer that reaches
   the end of the device by what is left of it instead of to it: the last
   block is not transferred at all, and what was read into is left as it is.
   lseek has just set the position.                                          *)
Reaches(b) == b + 1 < DevBlocks
devfs_read(dat, b, old) == IF Reaches(b) THEN dat[b] ELSE old
devfs_write(dat, b, val) == IF Reaches(b) THEN [dat EXCEPT ![b] = val] ELSE dat

(* The chain that starts at block b, as the table has it. *)
Chain(b) ==
    LET walk[n \in 0 .. NBlocks] ==
            IF n = 0 THEN <<>>
            ELSE LET next == IF n = 1 THEN b ELSE IF walk[n - 1] = <<>> THEN 0 ELSE fat[Last(walk[n - 1])]
                 IN  IF next \in Blocks THEN Append(walk[n - 1], next) ELSE walk[n - 1]
    IN  walk[NBlocks]

FreeBlocks(f) == {b \in Blocks : f[b] = 0}

(* The first free entry becomes the end of the chain of prev. *)
allocate_empty_block(f, prev) ==
    LET i == Min(FreeBlocks(f))
    IN  [b \in Blocks |-> IF b = i THEN END_OF_CHAIN ELSE IF b = prev THEN i ELSE f[b]]

(* Chain and table after k blocks have been appended to a file. *)
Extended(map, k) ==
    LET ext[n \in 0 .. k] ==
            IF n = 0 THEN [fat |-> fat, map |-> map]
            ELSE LET e == ext[n - 1]
                     prev == IF e.map = <<>> THEN 0 ELSE Last(e.map)
                 IN  [fat |-> allocate_empty_block(e.fat, prev),
                      map |-> Append(e.map, Min(FreeBlocks(e.fat)))]
    IN  ext[k]

-----------------------------------------------------------------------------
(* Cached blocks of a file.                                                  *)
find_block(f, p) == {s \in Slots : f.slots[s].block = p /\ f.slots[s].status # "NOTREADY"}

EmptySlots(f) == {s \in Slots : f.slots[s].status = "NOTREADY"}
Target(f) ==
    IF EmptySlots(f) # {} THEN Min(EmptySlots(f))
    ELSE f.overwritten_slot

(* Mutant of Evicted: a dirty block is dropped. *)
Evicted_Dropped(f) == data

(* The device after the slot has been made free. *)
Evicted(f) ==
    LET slot == f.slots[Target(f)]
    IN  IF EmptySlots(f) = {} /\ slot.status = "DIRTY"
        THEN devfs_write(data, f.alloc_map[slot.block + 1], slot.val)
        ELSE data

(* The blocks file f lacks for position p. *)
Missing(f, p) == Max({0, p + 1 - Len(f.alloc_map)})

(* cache_block: file, table and data with position p in a slot.  A position
   behind the chain extends it, also for a read.                             *)
cache_block(f, p) ==
    LET e == Extended(f.alloc_map, Missing(f, p))
        dat == Evicted(f)
        b == e.map[p + 1]
        val == devfs_read(dat, b, f.slots[Target(f)].val)
    IN  [file |-> [f EXCEPT !.alloc_map = e.map,
                            !.payload = IF f.alloc_map = <<>> THEN e.map[1] ELSE @,
                            !.changed_entry = @ \/ f.alloc_map = <<>>,
                            !.overwritten_slot = IF EmptySlots(f) = {} THEN (Target(f) % NSlots) + 1 ELSE @,
                            !.slots[Target(f)] = [status |-> "READY", block |-> p, val |-> val]],
         fat |-> e.fat, data |-> dat]

Cached(f, p) ==
    IF find_block(f, p) # {} THEN [file |-> f, fat |-> fat, data |-> data] ELSE cache_block(f, p)

(* allocate_empty_block finds no free entry and scans on behind the table. *)
TableFull(f, p) == find_block(f, p) = {} /\ Missing(f, p) > Cardinality(FreeBlocks(fat))

(* Mutant of erase_file: total_blocks and alloc_map keep their values. *)
erase_file_KeepsMap(f) ==
    [f EXCEPT !.slots = [s \in Slots |-> NoSlot], !.payload = END_OF_CHAIN, !.size = 0,
              !.changed_entry = TRUE, !.changed_cache = FALSE]

(* erase_file: the file without blocks; Unchained is the table without them. *)
erase_file(f) ==
    [f EXCEPT !.slots = [s \in Slots |-> NoSlot], !.payload = END_OF_CHAIN, !.size = 0,
              !.alloc_map = <<>>, !.changed_entry = TRUE, !.changed_cache = FALSE]

Unchained(f) ==
    IF f.payload = END_OF_CHAIN THEN fat
    ELSE [b \in Blocks |-> IF b \in ToSet(Chain(f.payload)) THEN 0 ELSE fat[b]]

(* What a freed block holds is left as it is and tells nothing: NULL stands
   for any content that was not written since the block was allocated.       *)
Forgotten(f) == [b \in Blocks |-> IF Unchained(f)[b] = 0 THEN NULL ELSE data[b]]

-----------------------------------------------------------------------------
(* The directory table.                                                      *)
IsEntry(e) == e \notin {NULL, DELETED}

Entry(f) == [name |-> f.name, type |-> f.type, payload |-> f.payload, size |-> f.size]

(* search stops at the first entry that was never used. *)
Used(i) == \A j \in 1 .. i : dir[j] # NULL
search(n) ==
    LET found == {i \in Entries : Used(i) /\ IsEntry(dir[i]) /\ dir[i].name = n}
    IN  IF found = {} THEN NULL ELSE Min(found)

find_free_entry == {i \in Entries : ~IsEntry(dir[i])}

(* One pass in table order, up to the first entry that was never used; a
   directory that is met too early is not seen.  When there is no such entry
   the result is SEARCH_FAILURE, which is ROOT_ID.                           *)
get_free_id ==
    LET scan[i \in 0 .. NEntries] ==
            IF i = 0 THEN 1
            ELSE IF Used(i) /\ IsEntry(dir[i]) /\ dir[i].type = "dir" /\ dir[i].payload = scan[i - 1]
                 THEN scan[i - 1] + 1 ELSE scan[i - 1]
    IN  IF Used(NEntries) THEN RootId ELSE scan[NEntries]

(* What path_resolver and cache_file make of a path that is not cached. *)
path_resolver(n) ==
    LET i == search(n)
    IN  IF n = Root THEN File(n, "dir", FALSE, NULL, RootId, 0, <<>>)
        ELSE IF i = NULL THEN File(n, "dir", TRUE, NULL, 0, 0, <<>>)
        ELSE IF dir[i].type = "dir" THEN File(n, "dir", FALSE, i, dir[i].payload, 0, <<>>)
        ELSE File(n, "file", FALSE, i, dir[i].payload, dir[i].size, Chain(dir[i].payload))

(* Mutant of HtBusy: echfs_sync gives cached_files_lock up after the dump. *)
HtBusy_Never == FALSE

(* cached_files_lock is held by echfs_sync, which waits for mnt->lock. *)
HtBusy == syncing # NULL

FreeFiles ==
    {i \in Files : /\ files[i] = Freed
                   /\ \A h \in Handles : handles[h] # NULL => handles[h].file # i}
FreeHandles == {h \in Handles : handles[h] = NULL}

(* cache_file: the object for a path, its reference counted. *)
CanCache(n) ==
    /\ fault = "none" /\ ~HtBusy
    /\ IF cached_files[n] # NULL THEN files[cached_files[n]].refcount < MaxRefs ELSE FreeFiles # {}

cache_file(n) ==
    IF cached_files[n] # NULL
    THEN {[id |-> cached_files[n], file |-> [files[cached_files[n]] EXCEPT !.refcount = @ + 1]]}
    ELSE {[id |-> i, file |-> path_resolver(n)] : i \in FreeFiles}

-----------------------------------------------------------------------------
(* A mounted device: empty, or with one file of two blocks. *)
Init ==
    /\ \/ /\ fat = [b \in Blocks |-> 0]
          /\ dir = [i \in Entries |-> NULL]
       \/ /\ fat = [b \in Blocks |-> IF b = 1 THEN 2 ELSE IF b = 2 THEN END_OF_CHAIN ELSE 0]
          /\ \E n \in Names \ Dirs :
                dir = [i \in Entries |-> IF i = 1 THEN [name |-> n, type |-> "file", payload |-> 1, size |-> 2] ELSE NULL]
    /\ data = [b \in Blocks |-> NULL]
    /\ files = [i \in Files |-> Freed]
    /\ cached_files = [n \in Names \cup {Root} |-> NULL]
    /\ handles = [h \in Handles |-> NULL]
    /\ syncing = NULL
    /\ written = [i \in Files |-> Unwritten]
    /\ fault = "none"

(* The model ends, in one state per fault: what the structures hold then no
   longer matters.                                                           *)
Fails(why) ==
    /\ fault' = why
    /\ fat' = [b \in Blocks |-> 0] /\ data' = [b \in Blocks |-> NULL] /\ dir' = [i \in Entries |-> NULL]
    /\ files' = [i \in Files |-> Freed] /\ cached_files' = [n \in Names \cup {Root} |-> NULL]
    /\ handles' = [h \in Handles |-> NULL] /\ syncing' = NULL /\ written' = [i \in Files |-> Unwritten]

(* A caller that holds mnt->lock waits for the hash table's lock, whose
   holder waits for mnt->lock.                                               *)
Deadlock == fault = "none" /\ HtBusy /\ Fails("deadlock")

NewHandle(h, i, f, flags, by) ==
    handles' = [handles EXCEPT ![h] =
                  [file |-> i, type |-> f.type, ptr |-> 0, end |-> f.size, refcount |-> 1,
                   flags |-> flags \cap {"WRITE", "APPEND"}, by |-> by]]

(* echfs_open, for a program or for syscall_unlink (by). *)
Open(n, flags, by) ==
    /\ CanCache(n)
    /\ \E c \in cache_file(n) :
        LET i == c.id
            f == c.file
            creates == f.not_found /\ "CREAT" \in flags
            truncates == ~f.not_found /\ "TRUNC" \in flags
            e == IF creates /\ find_free_entry # {} THEN Min(find_free_entry) ELSE 0
            made == [f EXCEPT !.type = "file", !.not_found = FALSE, !.entry = e, !.payload = END_OF_CHAIN]
            g == IF creates THEN made ELSE IF truncates THEN erase_file(f) ELSE f
        IN  CASE truncates /\ f.type = "dir" -> Fails("truncated_dir")
              [] creates /\ e = 0 -> Fails("directory_full")
              [] OTHER ->
                      /\ cached_files' = [cached_files EXCEPT ![n] = i]
                      /\ files' = [files EXCEPT ![i] = g]
                      /\ dir' = IF creates THEN [dir EXCEPT ![e] = Entry(made)] ELSE dir
                      /\ fat' = IF truncates THEN Unchained(f) ELSE fat
                      /\ data' = IF truncates THEN Forgotten(f) ELSE data
                      /\ written' = IF truncates \/ cached_files[n] = NULL THEN [written EXCEPT ![i] = Unwritten] ELSE written
                      /\ IF g.not_found \/ (g.type = "dir" /\ "WRITE" \in flags)
                         THEN UNCHANGED handles  \* ENOENT, EISDIR
                         ELSE \E h \in FreeHandles : NewHandle(h, i, g, flags, by)
                      /\ UNCHANGED <<syncing, fault>>

echfs_open(n, flags) == Open(n, flags, "program")

(* echfs_mkdir; the reference of cache_file is never given back. *)
echfs_mkdir(n) ==
    /\ CanCache(n)
    /\ \E c \in cache_file(n) :
        LET i == c.id
            f == c.file
            e == IF find_free_entry = {} THEN 0 ELSE Min(find_free_entry)
            made == [f EXCEPT !.type = "dir", !.not_found = FALSE, !.entry = e, !.payload = get_free_id]
        IN  IF f.not_found /\ e = 0 THEN Fails("directory_full")
            ELSE /\ cached_files' = [cached_files EXCEPT ![n] = i]
                 /\ files' = [files EXCEPT ![i] = IF f.not_found THEN made ELSE f]  \* EEXIST
                 /\ dir' = IF f.not_found THEN [dir EXCEPT ![e] = Entry(made)] ELSE dir
                 /\ written' = IF cached_files[n] = NULL THEN [written EXCEPT ![i] = Unwritten] ELSE written
                 /\ UNCHANGED <<fat, data, handles, syncing, fault>>

-----------------------------------------------------------------------------
(* Calls on an open handle.                                                  *)
Uses(h) == fault = "none" /\ handles[h] # NULL /\ handles[h].by = "program"

Dangling(h) == handles[h] # NULL /\ files[handles[h].file] = Freed

(* The handle's file has been deleted under it: freed memory is used. *)
UseAfterFree(h) == fault = "none" /\ Dangling(h) /\ Fails("use_after_free")

(* The position the count is clamped with, before mnt->lock: another process
   that has the handle may have moved it when the lock is taken.             *)
Seen(h) == {handles[h].ptr} \cup (IF handles[h].refcount > 1 THEN 0 .. handles[h].end - 1 ELSE {})

(* echfs_read of one block; with a position behind the end the count becomes
   negative.                                                                 *)
echfs_read(h) ==
    LET i == handles[h].file
        ptr == handles[h].ptr
        c == Cached(files[i], ptr)
    IN  /\ Uses(h) /\ ~Dangling(h) /\ handles[h].type = "file"
        /\ \E seen \in Seen(h) :
           /\ seen # handles[h].end
           /\ IF seen > handles[h].end THEN Fails("count_underflow")
              ELSE IF TableFull(files[i], ptr) THEN Fails("table_full")
              ELSE /\ files' = [files EXCEPT ![i] = c.file]
                   /\ fat' = c.fat /\ data' = c.data
                   /\ handles' = [handles EXCEPT ![h].ptr = @ + 1]
                   /\ UNCHANGED <<dir, cached_files, syncing, written, fault>>

(* The cached file after val has been written at p by a handle that takes
   end for the size of the file.                                             *)
Stored(f, p, val, end) ==
    LET s == Min(find_block(f, p))
    IN  [f EXCEPT !.slots[s].val = val, !.slots[s].status = "DIRTY", !.changed_cache = TRUE,
                  !.size = IF p + 1 > end THEN p + 1 ELSE @,
                  !.changed_entry = @ \/ p + 1 > end]

echfs_write(h, val) ==
    LET i == handles[h].file
        end == handles[h].end
        ptr == IF "APPEND" \in handles[h].flags THEN end ELSE handles[h].ptr
        c == Cached(files[i], ptr)
    IN  /\ Uses(h) /\ ~Dangling(h) /\ handles[h].type = "file"
        /\ IF TableFull(files[i], ptr) THEN Fails("table_full")
           ELSE /\ files' = [files EXCEPT ![i] = Stored(c.file, ptr, val, end)]
                /\ fat' = c.fat /\ data' = c.data
                /\ handles' = [handles EXCEPT ![h].ptr = ptr + 1, ![h].end = Max({end, ptr + 1})]
                /\ written' = [written EXCEPT ![i][ptr] = val]
                /\ UNCHANGED <<dir, cached_files, syncing, fault>>

(* echfs_lseek, wherever the offset is counted from: only a handle for
   writing may go to the end and behind it.                                  *)
echfs_lseek(h, p) ==
    /\ Uses(h) /\ ~Dangling(h)
    /\ p < handles[h].end \/ "WRITE" \in handles[h].flags
    /\ p # handles[h].ptr
    /\ handles' = [handles EXCEPT ![h].ptr = p]
    /\ UNCHANGED <<fat, data, dir, files, cached_files, syncing, written, fault>>

(* echfs_dup: a second descriptor for the handle.  Both counts are taken for
   exact: an increment lost to a close at the same time, which has the lock
   that echfs_dup does not take, is left out.                                *)
echfs_dup(h) ==
    /\ Uses(h) /\ ~Dangling(h) /\ files[handles[h].file].refcount < MaxRefs
    /\ handles' = [handles EXCEPT ![h].refcount = @ + 1]
    /\ files' = [files EXCEPT ![handles[h].file].refcount = @ + 1]
    /\ UNCHANGED <<fat, data, dir, cached_files, syncing, written, fault>>

(* echfs_readdir: the handle moves to the next entry of the directory, or
   over all that are left.                                                   *)
echfs_readdir(h) ==
    LET f == files[handles[h].file]
        ahead == {i \in Entries : i > handles[h].ptr /\ \A j \in handles[h].ptr + 1 .. i : dir[j] # NULL}
        mine == {i \in ahead : IsEntry(dir[i]) /\ f.payload = RootId}
    IN  /\ Uses(h) /\ ~Dangling(h) /\ handles[h].type = "dir" /\ ahead # {}
        /\ handles' = [handles EXCEPT ![h].ptr = IF mine = {} THEN Max(ahead) ELSE Min(mine)]
        /\ UNCHANGED <<fat, data, dir, files, cached_files, syncing, written, fault>>

Dropped(h) == IF handles[h].refcount = 1 THEN NULL ELSE [handles[h] EXCEPT !.refcount = @ - 1]

(* actually_delete_file when the last reference goes and the name is gone. *)
Unreferenced(i) ==
    LET f == files[i]
    IN  IF f.refcount = 1 /\ f.unlinked
        THEN /\ files' = [files EXCEPT ![i] = Freed]
             /\ fat' = Unchained(f) /\ data' = Forgotten(f)
             /\ written' = [written EXCEPT ![i] = Unwritten]
        ELSE /\ files' = [files EXCEPT ![i].refcount = @ - 1]
             /\ UNCHANGED <<fat, data, written>>

echfs_close(h) ==
    /\ fault = "none" /\ handles[h] # NULL /\ handles[h].by \in {"program", "unlinked"}
    /\ ~Dangling(h)
    /\ Unreferenced(handles[h].file)
    /\ handles' = [handles EXCEPT ![h] = Dropped(h)]
    /\ UNCHANGED <<dir, cached_files, syncing, fault>>

(* The close of syscall_unlink after its unlink has freed the object: the
   reference count of freed memory is decremented.  As long as nobody has
   got that memory, nothing comes of it.                                     *)
CloseFreed(h) ==
    /\ fault = "none" /\ handles[h] # NULL /\ Dangling(h)
    /\ handles' = [handles EXCEPT ![h] = Dropped(h)]
    /\ UNCHANGED <<fat, data, dir, files, cached_files, syncing, written, fault>>

(* syscall_unlink: open, unlink, close. *)
UnlinkOpen(n) == Open(n, {}, "unlink")

(* echfs_unlink.  Of two unlinks of one file the second deletes whatever has
   the entry and the name by then.                                           *)
echfs_unlink(h) ==
    LET i == handles[h].file
        f == files[i]
    IN  /\ fault = "none" /\ handles[h] # NULL /\ handles[h].by = "unlink"
        /\ ~Dangling(h)
        /\ CASE f.type = "dir" ->  \* EISDIR
                  /\ handles' = [handles EXCEPT ![h].by = "unlinked"]
                  /\ UNCHANGED <<fat, data, dir, files, cached_files, syncing, written, fault>>
             [] f.type = "file" /\ HtBusy -> Fails("deadlock")
             [] f.type = "file" /\ f.unlinked -> Fails("unlinked_twice")
             [] OTHER ->
                  /\ dir' = [dir EXCEPT ![f.entry] = DELETED]
                  /\ cached_files' = [cached_files EXCEPT ![f.name] = NULL]
                  /\ IF f.refcount = 1
                     THEN /\ files' = [files EXCEPT ![i] = Freed]
                          /\ fat' = Unchained(f) /\ data' = Forgotten(f)
                          /\ written' = [written EXCEPT ![i] = Unwritten]
                     ELSE /\ files' = [files EXCEPT ![i].unlinked = TRUE, ![i].refcount = @ - 1]
                          /\ UNCHANGED <<fat, data, written>>
                  /\ handles' = [handles EXCEPT ![h].by = "unlinked"]
                  /\ UNCHANGED <<syncing, fault>>

-----------------------------------------------------------------------------
(* echfs_sync: ht_dump under cached_files_lock, then file after file; with
   the last one the lock is released.                                        *)
SyncBegin ==
    /\ fault = "none" /\ syncing = NULL
    /\ {cached_files[n] : n \in DOMAIN cached_files} # {NULL}
    /\ syncing' = {cached_files[n] : n \in DOMAIN cached_files} \ {NULL}
    /\ UNCHANGED <<fat, data, dir, files, cached_files, handles, written, fault>>

(* The device after the dirty blocks of f have been written. *)
Flushed(f) ==
    LET dirty == {s \in Slots : f.slots[s].status = "DIRTY"}
    IN  [b \in Blocks |->
            LET mine == {s \in dirty : f.alloc_map[f.slots[s].block + 1] = b}
            IN  IF mine = {} THEN data[b] ELSE devfs_write(data, b, f.slots[Max(mine)].val)[b]]

synchronise_cached_file(i) ==
    LET f == files[i]
        blocks == f.type = "file" /\ ~f.not_found /\ f.changed_cache
    IN  /\ fault = "none" /\ syncing # NULL /\ i \in syncing
        /\ dir' = IF ~f.unlinked /\ f.changed_entry THEN [dir EXCEPT ![f.entry] = Entry(f)] ELSE dir
        /\ data' = IF blocks THEN Flushed(f) ELSE data
        /\ files' = [files EXCEPT
                       ![i].changed_entry = @ /\ f.unlinked,
                       ![i].changed_cache = @ /\ ~blocks,
                       ![i].slots = [s \in Slots |-> IF blocks /\ @[s].status = "DIRTY"
                                                     THEN [@[s] EXCEPT !.status = "READY"] ELSE @[s]]]
        /\ syncing' = IF syncing = {i} THEN NULL ELSE syncing \ {i}
        /\ UNCHANGED <<fat, cached_files, handles, written, fault>>

-----------------------------------------------------------------------------
Next ==
    \/ \E n \in Names \cup {Root} : \E flags \in Flags[n] : echfs_open(n, flags)
    \/ \E n \in Names : UnlinkOpen(n)
    \/ Deadlock
    \/ \E n \in Dirs : echfs_mkdir(n)
    \/ \E h \in Handles :
          \/ echfs_read(h) \/ echfs_readdir(h) \/ echfs_dup(h) \/ UseAfterFree(h)
          \/ \E val \in Data : echfs_write(h, val)
          \/ \E p \in Seeks : echfs_lseek(h, p)
          \/ echfs_close(h) \/ CloseFreed(h) \/ echfs_unlink(h)
    \/ SyncBegin \/ \E i \in Files : synchronise_cached_file(i)

Spec == Init /\ [][Next]_vars

-----------------------------------------------------------------------------
Objects == {i \in Files : files[i] # Freed}
FileObjects == {i \in Objects : files[i].type = "file" /\ ~files[i].not_found}

TypeOK ==
    /\ fat \in [Blocks -> 0 .. END_OF_CHAIN]
    /\ data \in [Blocks -> Data \cup {NULL}]
    /\ dir \in [Entries -> DirEntries \cup {NULL, DELETED}]
    /\ files \in [Files -> CachedFiles \cup {Freed}]
    /\ cached_files \in [Names \cup {Root} -> Files \cup {NULL}]
    /\ handles \in [Handles -> OpenHandles \cup {NULL}]
    /\ syncing \in (SUBSET Files) \cup {NULL}
    /\ written \in [Files -> [0 .. NBlocks -> Data \cup {NULL}]]

(* The chain of every file there is: of the open ones, deleted or not, and of
   those only the directory knows.                                           *)
OnlyOnDisk == {i \in Entries : IsEntry(dir[i]) /\ dir[i].type = "file" /\ cached_files[dir[i].name] = NULL}
ChainOf(payload) == IF payload = END_OF_CHAIN THEN <<>> ELSE Chain(payload)

(* The allocation table is sound: each open file's alloc_map is its chain on
   the device, no block is in two files, and no block is lost, whatever order
   files are created, extended, truncated, deleted while open and closed in. *)
ChainsSound ==
    /\ TypeOK
    /\ \A i \in FileObjects : files[i].alloc_map = ChainOf(files[i].payload)
    /\ LET of(k) == IF k[1] = "open" THEN files[k[2]].alloc_map ELSE ChainOf(dir[k[2]].payload)
           all == ({"open"} \X FileObjects) \cup ({"disk"} \X OnlyOnDisk)
       IN  /\ \A k \in all : IsInjective(of(k))
           /\ \A k, l \in all : k # l => ToSet(of(k)) \cap ToSet(of(l)) = {}
           /\ {b \in Blocks : fat[b] # 0} = UNION {ToSet(of(k)) : k \in all}

(* What echfs_read copies for position p of a file, when the handle's own end
   lies behind p and the block of p can be transferred.                      *)
View(f, p) ==
    IF find_block(f, p) # {} THEN f.slots[Min(find_block(f, p))].val ELSE data[f.alloc_map[p + 1]]

(* A position that was written keeps its block, and the block what was last
   written to it, after any eviction, sync, read or change of this and of
   other files, until the file is truncated; through whichever handle it was
   written, echfs_read copies it.  Two things echfs.c does not keep, and this
   does not say: the contents of the device's last block, and the size of the
   file, which a handle with a stale end sets back.                          *)
WrittenIsKept ==
    \A i \in FileObjects : \A p \in 0 .. NBlocks :
        written[i][p] # NULL =>
            /\ p < Len(files[i].alloc_map)
            /\ Reaches(files[i].alloc_map[p + 1]) => View(files[i], p) = written[i][p]

(* Every entry that is in use belongs to the file it names, and a file that
   is not marked changed is on the device as it is in memory, but for the
   contents of the device's last block: nothing that happens between two
   syncs is forgotten by the later one.                                      *)
SyncedIsOnDisk ==
    \A i \in FileObjects :
        LET f == files[i]
        IN  /\ ~f.unlinked =>
                 /\ IsEntry(dir[f.entry]) /\ dir[f.entry].name = f.name
                 /\ ~f.changed_entry => dir[f.entry] = Entry(f)
            /\ ~f.changed_cache =>
                 \A p \in 0 .. NBlocks :
                    written[i][p] # NULL /\ Reaches(f.alloc_map[p + 1]) => data[f.alloc_map[p + 1]] = written[i][p]

(* echfs_sync works through a list of pointers while files are unlinked and
   closed: none of them is freed before it is reached.                       *)
SyncSafe ==
    syncing # NULL => \A i \in syncing : files[i] # Freed

(* The sync thread loses nothing and touches nothing that is gone, wherever it
   falls between the calls of programs that write, unlink and close.         *)
SyncSound == SyncedIsOnDisk /\ SyncSafe
=============================================================================
