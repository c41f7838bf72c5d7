# qword in TLA+

A TLA+ model of the qword kernel (`root/src/kernel`), checked with TLC on small
instances and, where the argument is general, proved with TLAPS. This file says
which parts of the kernel are modelled, how state and actions correspond to the
code, what each run and each theorem shows, and what is left out. Source paths
below are relative to `root/src/kernel`.

## 1. The system

qword is an SMP kernel for x86_64. Its parts, the state they keep and how they
meet:

| part | state | operations | meets |
|---|---|---|---|
| scheduler and threads (`proc/task.c`, `asm/task.asm`, `lib/event.h`) | `task_table`, `process->threads`, `task_count`, `cpu_locals`, `thread_t` fields | `task_resched`, `task_get_next`, `idle`, `yield`, `relaxed_sleep`, `event_await`, `event_trigger`, `task_tcreate`, `task_tkill`, `abort_thread_exec` | everything; guarded by `scheduler_lock`, with unlocked reads of `CURRENT_TASK` |
| syscall boundary (`asm/isr.asm`, `proc/syscalls.c`) | `in_syscall`, `event_abrt` | `enter_syscall`, `leave_syscall` | handshake with `task_tkill` |
| processes and requests (`sys/urm.c`, `proc/task.c`, `proc/syscalls.c`, `proc/userspace.c`) | `process_table`, request queue, `child_events` | `task_pcreate`, fork, exec, exit, `kill`, waitpid, the request monitor | scheduler, memory, descriptors |
| physical memory (`mm/pmm.c`), heap (`lib/alloc.c`) | bitmap, `cur_ptr`, header pages | `pmm_alloc`, `pmm_free`, `kalloc`, `krealloc`, `kfree` | everything that allocates; `pmm_lock` |
| virtual memory (`mm/vmm.c`) | page tables, `page_attributes` hash table | `map_page`, `unmap_page`, `fork_address_space`, `free_address_space` | processes, physical memory |
| descriptors (`fd/fd.c`, `lib/dynarray.h`) | descriptor dynarray with reference counts, per-process handle tables | `open`, `dup`, `close`, `read`, `write`, dup2, fcntl | VFS, pipes, perfmon |
| VFS and filesystems (`fd/vfs`, `fs/*`) | mount points, handle arrays, file caches | path normalisation, open, read, write, readdir | block devices |
| block devices (`devices/storage`) | write-back block caches | cached read, write, flush | interrupts through `irq` events |
| terminals (`devices/term/tty`) | keyboard and line buffers | keyboard handler, read, write | events |
| pipes, perfmon (`fd/pipe`, `fd/perfmon`) | buffer, reference counts | read, write, close, dup | events, processes |

What is hard in it: several CPUs with one scheduler lock and unlocked reads of
per-CPU state; operations that give the lock up in the middle
(`task_tcreate`, `task_tkill`, `task_pcreate`); a kill that must wait for a
victim's syscall, for an interrupt of another CPU and for nothing to change
meanwhile; event counters decremented by two parties; failures between two
critical sections. `PROJECT.json` lists each hazard at its line with the
properties that would catch it, or says why none does.

## 2. Plan

Done, with theorems: the scheduler core (`Scheduler`), the physical memory
manager (`Pmm`), heap and address spaces (`Memory`), processes with the request
monitor (`Process`), the block caches (`BlockCache`) and the plain disk they
implement (`Disk`), descriptors with pipes (`Descriptors`), the handles of VFS
and devfs with the input of a terminal (`Devices`), and echfs (`Echfs`). The layers rest on each other: Memory takes from Pmm that a
page is given out once (`OwnedOnce`), Echfs from BlockCache that a device is an
array of blocks (`ImplementsDisk`), Process and Descriptors from Scheduler that
a kill ends and spares syscalls (`KillEnds`, `NeverFreedInSyscall`), Devices from
Descriptors that a process makes one call at a time on its table. Left: perfmon
references, path normalisation and mount point search against a reference, the
hash table, the path cache of iso9660.

Abstract specifications: task_get_next as "the eligible entry nearest ahead"
(`Scanned` against `task_get_next` in Scheduler) and the block cache as a plain disk
(`BlockCache` implements `Disk`, proved) are done; the request queue as a FIFO and the
pipe as a byte queue are stated as invariants.

## 3. Modules

### Scheduler

One variable per piece of kernel state, with the kernel's names: `task_table`,
`threads` (`process_table[p]->threads`), `task_count`, `current_task` (per CPU),
`task_id`, `active_on_cpu`, `in_syscall`, `event_abrt`, `event_ptr` (per
thread), `locked` (threads whose `thread->lock` is held), `event` (counters),
`cr3` (the process whose page map a CPU has loaded). Table entries are a
thread, `NULL`, `EMPTY` (-1) or `PLACEHOLDER` (-2). `pc` says where a thread is
in the operations that span several steps; `creating` and `killing` are the
locals of `task_tcreate` and `task_tkill`; `forced` and `aborting` are the
threads and CPUs in the retry loop of `force_resched` with interrupts off;
`ipi` are the abort interrupts not yet acknowledged; `holder` is the thread that
holds `scheduler_lock` between two steps. A critical section that does not spin
is one step; only `task_tkill` keeps the lock over several.

| code | action |
|---|---|
| `task_resched`, `task_get_next`, `task_spinup` | `Dispatch`, with `Eligible` (the tests of the scan), `Ahead` (its order) and `NextCr3` |
| `idle` | `GoIdle` |
| the store through a removed entry; the read behind the table | `ReschedFault`, `ScanPastEnd` |
| `event_await` | `AwaitSeen`, `AwaitTake` (counter nonzero), `AwaitBlock`, `AwaitNull`, `AwaitYield`, `Awoken` |
| `event_trigger`, `relaxed_sleep`, time | `event_trigger`, `relaxed_sleep`, `SleepOver` |
| `enter_syscall`, `leave_syscall` | `enter_syscall`, `EnterAborted`, `leave_syscall`, `LeaveDone` |
| `syscall_exit`, the retry of `syscall_execve` | `syscall_exit`, `ExitNull`, `ExecveAborted` |
| `task_tcreate` | `TcreateReserve`, `TcreateNoSlot`, `TcreateFail`, `TcreatePublish` |
| thread part of `syscall_fork` | `syscall_fork` |
| `task_tkill` | `KillBegin`, `KillWait`, `KillRetry`, `KillSendIpi`, `KillFinish` |
| `abort_thread_exec` on an IPI | `ipi_abortexec` |

`Me(t, u)` is the unlocked read of `CURRENT_TASK`: the macro loads the CPU
number and then that CPU's current task, so a thread moved in between gets the
thread its former CPU now runs. The constant `Migrates` allows it; with FALSE
the read always names the reader. `CURRENT_PROCESS` and `CURRENT_THREAD` of one
`task_tkill` call are taken to be read on the same CPU.

Abstractions: which thread does what is given by the constants `ProcOf`,
`Waiters`, `Victims`, `SelfKillers`; registers, FPU state, stacks and time
accounting are left out; the scan of `task_get_next` is atomic although
triggers and `SleepOver` are not excluded by the lock (a later trigger is seen
by the next scan). `task_table[-1]`, read when a CPU had no thread, is a null
pointer in the zeroed header page of the table's allocation and is treated as
"another process". The write of `execve_receive_request` to
`task_table[tid]->in_syscall`, which indexes the table by a thread id, is in
Process (`ExecCreates`) and not in this module.

### Pmm

`used` is the set of pages whose bit is set, `bitmap_entries`, `cur_ptr` and
`e820_map` are the kernel's, `bitmap_at` is where the bitmap itself lies, `region`
and `index` are the loop variables of `init_pmm`. `owned` and `clash` record what
callers have been given, and what has been given twice. `Init` is the state
after the first page of bitmap has been taken with `initial_bitmap`; `MapPage`
is one page of a region, with the growth and the move of the bitmap it may
cause; `InitHalts` is the endless loop after a failed allocation. An allocation
is one step: `Position` is the page each iteration looks at, `Finds` says in which
iteration the search ends.

After a wrap `cur_ptr` is the page count instead of `BITMAP_BASE`, and the scan
reads and may set bits in front of the bitmap until it reaches it. What it reads
there is any other memory (`Strays`): pages below `MEMORY_BASE` may be handed out, to
two callers too, the bitmap may be moved there, and a run may begin in front of the
bitmap and end in it. The properties speak of the pages that have a bit. A page recorded
beyond the bitmap is a write to memory nobody owns yet: it has no effect on
`used`, and growing the bitmap covers it with ones.

### Process

Processes above the scheduler: `process_table`, `ppid`, `threads`,
`child_events` and the counter `child_event` of each, the queue
`userspace_requests` with its `userspace_event`, and where the request monitor is
(`urm`, with its locals `next` and `parent`). `held` are the processes whose
parts have not been released; a zombie is in `process_table` but not in `held`.
`pc` and `arg` say where a thread is in a syscall, and with which pid. `fault`
records the use of a released process and the panic about init; the machine
stops there.

| code | action |
|---|---|
| `task_pcreate` | `PcreateReserve`, `PcreateFail`, `PcreatePublish` |
| second critical section of `syscall_fork` | `syscall_fork` |
| `syscall_exit`, `syscall_execve`, `kill` up to the request | `exit`, `execve`, `kill`; `KillHandled` for a signal with a handler |
| `userspace_send_request` | `userspace_send_request`, enabled when the monitor does not hold the lock |
| the wait at the end of `syscall_execve` | `ExecveAborted`, `ExecveReturns` |
| `syscall_waitpid` | `syscall_waitpid`, `WaitFound`, `WaitNone`, `WaitBlocks`, `WaitWoken`, `WaitAborted`, `Reap` |
| `userspace_request_monitor` | `MonitorIdle`, `MonitorTakes`, `MonitorDone`, `MonitorAwaits` |
| `exit_receive_request`, `task_send_child_event` | `MonitorKills` (one step of `task_tkill`), `ExitFrees`, `task_send_child_event`, `ChildTrigger` |
| `execve_receive_request`, `exec` | `ExecFails`, `MonitorKills`, `ExecCreates` |

The monitor holds `userspace_request_lock` from `MonitorTakes` to `MonitorDone`.
The first thread of a process makes its syscalls and threads that run a signal
handler only compute; a killed thread is removed when it is outside any
syscall. The store of 0 through `task_table[tid]` after an exec, with a thread id
as index, is a choice over all threads and none. Ignored signals and those that
only print a message change nothing and have no action.

The code relies on programs for some things, and the instances grant them: no
process ends before its children (`Orphans` FALSE), no process is asked to end
twice or while fork is still creating it (`KillRaces` FALSE), and no process that
calls kill, fork or execve is itself killed. Without the first two the monitor uses
released memory, or panics about an init that is not meant; an exit request may
overtake the execve request of its victim, and the monitor then works on a released
process; a victim in fork leaves a child that names a parent already released; and
the monitor may wait for a victim that spins on the lock the monitor holds. The
hazards in `PROJECT.json` name the lines. `Disciplined` of ProcessProofs states the
rules the theorems need.

### Descriptors

`file_handles` and `file_handles_lock` are per process, `file_descriptors` and
`pipes` are the two arrays of `lib/dynarray.h`; an entry is `NULL` or has its
reference count (`refcount` of a descriptor, `refs` of a pipe, whose own `refcount`
counts its ends), `present` and its data. `pc` and `job` say where a thread is in a
call and hold the call's locals. A critical section under the lock of an array or
of a pipe is one step, so the two reference counts, the counter of ends and the
handle table are seen by other threads in every order the code allows. The bytes
written to a pipe are numbered, and `order` records whether a read has returned them
in order: `short` after a read that took less than it left behind (`memmove` moves too
few), `overrun` after a write behind the page that `krealloc`, given steps for bytes,
allots to a pipe; from there on nothing is claimed.

| code | action |
|---|---|
| `syscall_read`, `syscall_write`, `syscall_close` up to the descriptor | the same names; `syscall_stat` for fstat, lseek, readdir, isatty and tc* |
| `syscall_open`, `syscall_pipe`, `syscall_dup2`, `syscall_fcntl`, `fcntl_dupfd` | the same names; `Dup2Stores` for the last critical section of dup2 |
| the copy of the handles in `syscall_fork` | `ForkBegins`, `ForkCopies`, `ForkEnds` |
| `dynarray_getelem`, `dynarray_unref` around a handler | `FdGet`, `FdUnref`, `PipeGet`, `PipeUnref` |
| the handlers of a pipe | `pipe_read` (with `PipeBlocks`, `PipeWoken`, `PipeAborted`), `pipe_write`, `pipe_dup`, `pipe_setflflags`, `pipe_close` |
| `dup` in `fd/fd.c` | `FdCreate` |
| `close` in `fd/fd.c`, which looks up, gives back and removes | `close`, `CloseUnref`, `CloseRemoves`, then the handler and `Closed` |
| `exit_receive_request` | `ExitBegins`, `MonitorKills` (one step of `task_tkill`), `ExitCloses`, `ExitEnds` |

Files that are not pipes are external: they open or not, and their handlers do
nothing the model sees. `fault` is the use of an array entry that is gone, where the
code uses a null pointer. `leaked` counts the references that interrupted reads
never give back.

`ForkCopies` leaves out that fork holds `scheduler_lock` while its dups wait for other
locks: here the others go on, which only adds behaviours. `PipeAborted` may have taken a
token: `task_get_next` takes it before the kill, and `event_await` still fails.

The code relies on programs for three things, and the instances grant them. No
thread is in dup2, fcntl, pipe or fork, which use descriptors without the table
lock, while another of its process is in a call (`Races` FALSE; with TRUE
`NothingMissing` fails, and two threads that close one descriptor at once count its end
down twice). One reader per pipe: with two, a token wakes the one that
stays unsatisfied and `ReaderWoken` fails. A thread that sleeps in a read has a lower
id than those that want the table lock: the monitor kills in order of id, and would
wait for a thread that spins on the sleeper's lock (`ExitNotStuck` fails).

### Memory

`owned` are the pages `pmm_alloc` has given out, `heap` the blocks of the heap,
`moving` the one, if any, that `krealloc` has copied and not yet freed, `space` the
page maps there are (each with its `struct`, its `tables` and the `pages` it maps)
and `call[s]` what is being
done with it. `dropped` collects the pages nobody has a pointer to any more. An
address is the sequence of its table indices. The allocator's lock is free
between two calls, so each `pmm_alloc` and `pmm_free` is a step and heap, forks,
exits and mappings interleave there; any allocation may fail. Nobody looks at
where a page lies, so pages are named by the use they were allocated for.

| code | action |
|---|---|
| `kalloc`, `kfree`, `krealloc` | `kalloc`, `kfree`, `KreallocInPlace`, `KreallocMove`, `KreallocFree` |
| `new_address_space` | `NewStruct`, `NewPml4`, `NewUndone` |
| `map_page` | `MapTable` (one missing table), `MapEntry` |
| `syscall_alloc_at` | `syscall_alloc_at`, then `map_page` per page, `GiveUp` on failure |
| `unmap_page` | `unmap_page` |
| `fork_address_space` | `NewStruct` with a parent, `ForkPool`, `ForkCopy` with `map_page` per page, `ForkEnd` |
| `free_address_space` | `FreeBegin`, `FreePage`, `FreeTable`, `FreeStruct` |

The model ends (`fault`) where the code goes on with a null pointer or a freed
page: `null_pagemap` and `null_pool` (fork tests neither result), `null_table`
(`map_page` tests the wrong pointer for the lower levels), `mapped_page_freed`
(`syscall_alloc_at` frees all pages when one cannot be mapped), `table_freed`
(`unmap_page` frees an empty table and leaves the entry that points to it), and
`pool_exhausted`, the panic. `Accounted` speaks of everything before. A process
does not exit while it forks.

### Disk, BlockCache

`Disk` is what the code above a driver may expect: an array of bytes, requests
that transfer some of their bytes per step and report in `ret` how they ended, and a
flush that, if it succeeds, has given everything to the drive, unless an earlier failure
`damaged` that disk. `BlockCache` is the two drivers: `disk` is what the
drive has been given and returns, `cache` the slots, `overwritten_slot` the hand that chooses a victim
(one for all IDE disks, one per AHCI disk), `req` the request that holds a
driver's lock, `tfes` the error bit of an AHCI port and `sync` the disk that
`device_sync_worker` flushes next. `ImplementsDisk` is `Disk!Spec` with
`content` the cached copy of a block if there is one and else the drive's.

The model ends at the drive. A drive has a cache of its own; `ide_write28` and
`ide_write48` send it a FLUSH CACHE and ignore the result, `ahci_rw` sends none. So
nothing is claimed about what is left after a loss of power.

| code | action |
|---|---|
| `ide_read`, `ahci_read`, `ide_write`, `ahci_write` | the same names take the lock; `CopyOut`, `CopyIn` move the bytes of one block, `Return` |
| `cache_sect`, `cache_block` | `Load`, `WriteBackFails`, `LoadFails` |
| `ide_flush1`, `ahci_flush` | `FlushSlot`, `FlushFails` |
| `device_sync_worker` | `device_sync_worker` |

What a failed command leaves behind is a choice: any part of a block may have
reached the drive, or, for AHCI, which transfers straight into the slot, the
slot. `Disk` therefore lets a failed request damage one block of the AHCI disk it was
for (`Spoiled`), and nothing of an IDE disk or of any other. Once an AHCI port has reported an error
nobody clears the bit and every later command counts as failed; `CleanIsOnDisk`
speaks of ports before that. Disks and requests are within reach of 28-bit commands and,
for AHCI, of 2^32 sectors (`lba4` and `lba5` of a command are always 0). Requests may
pass the end of the disk, since devfs shortens them by the wrong amount and the
partitions test only where they begin: the load of the first block that is not there
fails. The sectors behind the last whole block of 64 KiB count as not there for AHCI.
Allocation of slot buffers does not fail.

### Echfs

`fat`, `dir` and `data` are what is on the device, `files` the `cached_file_t`
objects with their `alloc_map` and cached blocks, `cached_files` the hash table,
`handles` the open handles. `written` is not in the code: it is what programs
wrote last at each position. `syncing` are the files `echfs_sync` has still to
write; it holds `cached_files_lock` that long. A call works under `mnt->lock` and is
one step, with two exceptions in the code. `echfs_read` clamps its count before it takes
the lock, with a position another process that shares the handle may since have moved:
`Seen` are the positions it may have met. `echfs_dup` takes no lock; it is one step all
the same, and an increment it loses to a close is left out.

| code | action |
|---|---|
| `echfs_open`, `cache_file`, `path_resolver`, `erase_file` for O_TRUNC | `echfs_open` |
| `echfs_mkdir`, `echfs_lseek`, `echfs_dup`, `echfs_readdir`, `echfs_close` | the same names |
| `echfs_read`, `echfs_write` with `cache_block` | the same names, one block at a time |
| `syscall_unlink` | `UnlinkOpen`, `echfs_unlink`, then `echfs_close` or `CloseFreed` |
| `echfs_sync`, `synchronise_cached_file` | `SyncBegin`, `synchronise_cached_file` |

Blocks hold one unit of data and sizes count blocks; paths have one component.
A freed block holds `NULL`, which stands for any content not written since the
block was allocated. `fault` names the step after which the code no longer
works on its own structures, and the model ends there: `deadlock` (the sync
holds the hash table's lock and wants `mnt->lock`, the caller the reverse),
`use_after_free` (`unlink` gives back a reference and `close` another, so an
open file is freed), `unlinked_twice`, `truncated_dir` (O_TRUNC on a directory),
`directory_full` and `table_full` (the scans' failures are not tested), and
`count_underflow` (a read behind the end). The properties speak of everything
before. That each fault is reached is what the code does, not what the model
assumes.

devfs never transfers the last block of a device (`Reaches`), neither `echfs_mount` nor
the allocation keeps the data off it, and the Makefile formats the whole image: in the
run the last data block is that block. Writes to it are lost when they leave the cache;
`WrittenIsKept` and `SyncSound` speak of the contents of all other blocks. Nor do they
judge the size of a file, which a handle with a stale end may set back: the blocks
behind it keep what was written, but a new handle stops in front of them.

### Devices

`vfs_handles` and `devfs_handles` are the two arrays a call on a device file goes
through; `own[p]` are the entries of the first that descriptors of `p` name. The
terminal is `kbd_buf` (the line being typed), `big_buf` (what can be read), the
counter `kbd_event`, and `icanon` and `tcioff` of its settings; `kbd` is the key the
keyboard worker is at. Typed characters are numbered; `lastread` and `gone` (erased
or refused) say which of them are still to be read. `pc` and `job` are a process'
place in its call and the call's locals. `read_lock` is held within one step, but a
reader that tests it while another call uses the terminal may find it taken.

| code | action |
|---|---|
| `open`, `vfs_dup` | `devfs_open` or `devfs_dup`, then `VfsAdd` |
| `vfs_read` and the other calls | `VfsCall`, then `DevGet`, the operation and `DevUnref` |
| `vfs_close`, `devfs_close` | the same names |
| `devfs_read`, `devfs_write`, `devfs_lseek`, `devfs_readdir` | the same names; `DiskFull` for ENOSPC |
| `tty_read` | `TtyReadBegins`, `TtyBusy`, `TtySleeps`, `TtyWoken`, `TtyAborted`, `tty_read` |
| `tty_tcsetattr`, `tty_tcgetattr`, `tty_tcflow` | the same names |
| `kbd_handler`, `add_to_buf`, `add_to_buf_char` | the same names, one character at a time |
| a kill, and the monitor closing what the process had open | `Kill`, `vfs_close`, `ExitEnds` |

`leaked` counts the references that calls keep: the last close of a handle returns
with its lock taken and its reference kept, a write to a full disk without giving
its reference back. `fault` is a terminal call on the root of `/dev`, which has no
device. `excused` is set when a line meets a full `big_buf` (what fits is copied and
the line stays, so its start is read twice) and when the mode changes in the middle of
a line (later characters overtake it); `missed` marks a reader that found `read_lock`
taken by another call, or slept on while another reader took a token, and sleeps until
the next key. `KeysInOrder` and `TtyReaderWoken` speak of everything else. A terminal may
have any number of handles (kexec opens three for an init process).

The position of a disk may pass its size: a partition tests only where a transfer begins
(`Moved`). A reader of the terminal sleeps with the lock of its handle. `HandlesShared`
shows that whoever waits for the lock of a handle waits for such a reader and never for
a close; that the reader gives the lock back is not claimed. A fork waits for it with
`scheduler_lock` held, and then the reader never runs again; in the model the others
go on, which only adds behaviours.

### MC modules

The functions the configurations use for `ProcOf` and `Waiters`; the memory maps
of Pmm; the instances of Process; the programs of Descriptors; ranges and
buffers of BlockCache; the flags files are opened with; addresses of Memory; the set-ups of Devices.

### SchedulerProofs, PmmProofs, MemoryProofs, ProcessProofs, BlockCacheProofs, DescriptorsProofs, EchfsProofs, DevicesProofs

Theorems about the modules they are named for (section 6). Each begins with the
inductive invariant, goes on with one lemma per action and ends with the theorems.

## 4. Runs

| run | instance | shows |
|---|---|---|
| `smp` | 2 CPUs, 4 threads, 3 processes, table of 3, threads move during unlocked reads, no kills | `RunsOnlyLive`, `NoLockLeaked`, `OwnAddressSpace`, `TablesAgree`, `PlaceholdersOwned` |
| `kill` | 2 CPUs, 3 threads, 2 events, request monitor and victim | `TypeOK`, `TaskCountExact`, `TableDense`, `VictimStays`, `NoPhantomToken`, `ScanFindsNearest`, `NeverFreedInSyscall` |
| `up_live` | 1 CPU, kills and failing creations, fair | `RunsOnlyLive`, `KillEnds`, `NoStarvation` |
| `pmm` | 4 maps of up to 16 pages, 6 bits per bitmap page, requests of 0 to 2 pages | `TypeOK`, `OwnedOnce`, `PagesAccounted` |
| `memory` | 2 page maps of 3 levels, 1 heap block of 1 to 3 bytes on pages of 2, pool of 2 | `Accounted` |
| `process` | 3 pids besides the kernel's, 2 threads each | `NothingGone`, `ChildEventsExact`, `WakeupNotLost`, `NoRequestForgotten`, `PidsApart` |
| `process_live` | 3 pids, 1 thread each, fair | `ExitsEnd`, `WaitsEnd` |
| `descriptors` | 2 processes of 2 handles, one pipe, 4 programs, any of them killed at any time | `NothingMissing`, `HandlesExact`, `CountsExact`, `ReaderWoken`, `BytesInOrder`, `ExitNotStuck` |
| `storage` | one disk of either driver, 3 blocks of 2 bytes, 2 slots | `CacheSound`, `ImplementsDisk` (refinement) |
| `echfs` | a file and a directory, 2 data blocks, 1 entry, 1 slot, 2 objects, 2 handles | `ChainsSound`, `WrittenIsKept`, `SyncSound` |
| `devices` | 2 processes, 2 entries per array, a disk of 2 bytes, `/dev` itself, a terminal with buffers of 2 and up to 4 typed characters | `HandlesShared`, `KeysInOrder`, `TtyReaderWoken` |

`NothingGone`, `NothingMissing`, `CacheSound`, `ChainsSound` and `HandlesShared`
include the type invariants of their modules. `PagesAccounted` is `FreeIsUnused` and
`NoPageLost`, `CountsExact` is `EndsCounted` and `RefsExact`, `SyncSound` is
`SyncedIsOnDisk` and `SyncSafe`.

`ScanFindsNearest` runs the loop of `task_get_next`, with its count, its rewind at a
NULL and its read behind the table, from every CPU's position in every table that is
reached, and compares what it returns with the definition `Dispatch` uses. It needs
`TableDense` and `TaskCountExact`: with a hole or a wrong count the loop hides a
thread or does not end.

One run is expected to fail; it is the finding in `PROJECT.json`:

* `killed_runs`: `task_tkill` reads `active_on_cpu` once, before it waits for
  the victim's syscall. The victim can be running on another CPU when it is
  removed and freed (`RunsOnlyLive`).

A second defect of `task_tkill` shows when `up_live` is given two CPUs: the
killer spins for the acknowledgement of its interrupt with `scheduler_lock` held
while the other CPU waits for that lock with interrupts off, and `KillEnds`
fails.

This is why `smp` kills no thread, `up_live` has one CPU, and the properties of
`kill` are those of the tables. Other limits of the code that the instances stay
clear of: `syscall_return_from_signal` kills its own thread from inside a syscall
and waits for its own `in_syscall`, so in `up_live` no thread kills itself; a thread moved
while it reads `CURRENT_THREAD` for its own kill, as kmain does, kills another, so in
`smp`, where threads move, none kills itself; `syscall_fork` does not test for a full
task table and would store behind it, so fork needs a free slot; with so
little memory that the bitmap never moves, its own page is marked free, so the maps of
`pmm` make it move; behind a gap of more than one bitmap page the first usable pages
are lost, so `NoPageLost` speaks of maps without one (`NoLongHole`).

Weaknesses met while modelling that no property is about: `get_free_id` of echfs
sees a directory id only if the table lists ids in order, and may give one out
twice (the instance has one directory); a handle's own idea of the end of its
file may set the file's size back (`SyncedIsOnDisk` shows that the entry follows
the size in memory, not that the size is the largest); allocation chains are
written through and entries late, so a crash between the two leaves an entry
that names freed blocks, and there is no recovery code to model; a terminal read
sleeps with the spinlock of its handle, and whoever shares the handle spins on it,
the request monitor included when it closes the files of a dead process.

## 5. Bounds and fairness

Two CPUs are enough for every pairwise race; three threads give one per CPU and
one that waits. `MAX_TASKS` is 3 where the table must fill up and 4 elsewhere, so
that slots are reused and the scan wraps; `MAX_THREADS` is 2 so that a thread
id differs from a task id. `MaxEvent` bounds the counters: triggers and awaits
stop there, which removes only repetitions. The runs of Scheduler use no symmetry:
threads differ in process and role.

In the runs of Pmm a page has two bytes, so that regions can be unaligned, and a
page of bitmap six bits, so that a map of sixteen pages makes the bitmap
move twice; one map has a long hole, and with one the bitmap finds no room; requests of two pages give runs that meet the end and holes.

In the runs of Process three pids give a grandparent, a parent and a child, or
two siblings, and every pid is reused. `MaxToken` bounds only how many child
events a forking process may leave unclaimed. Pids have roles, so that not
everything happens everywhere: `process` has one killer, one victim, one program
that execs.

In `descriptors` the program of each thread is chosen at the start from four sets
of calls, so that each pair of calls that can meet does meet without the product of
all: a parent that writes and a child that reads, a child that redirects, a signal
handler that shares its main thread's table, one thread that sets flags and
duplicates. Two handles are just enough for both ends of a pipe, so tables are full
and dup2 replaces one end by the other; five descriptors are the four ends after a
fork and one that is being closed. Three bytes in pieces of one or two make reads that
take less than half, half and all; a page of two bytes is overrun by the third. `MaxEvent` and `MaxLeaked` stop new ends and kills
while tokens or leaks pile up.

In `memory` three levels give a table of the first, a lower and the lowest kind,
which `map_page` treats differently when it fails; the two ranges share the upper
tables for one page and not for the other, so a failure can come before and after
a mapped page; a pool of two is exhausted by a parent with three pages. Page maps
are interchangeable (symmetry). `PerUse` bounds the pages of one kind.

In `storage` three blocks and two slots force evictions, with the hand at either
slot and past the last; the ranges are bytes of all three blocks that
leave out a part of the first and of the last, and two bytes of which the second lies
behind the end of the disk. There is one disk at a time: disks of one driver exclude each
other by its lock and share, for IDE, the hand, so that with a second disk slots would
be reused in another order than here; disks of different drivers share nothing but
the worker. Deadlock is checked: a driver can always go on.

In `echfs` one slot makes every second block evict, two blocks are exhausted by a
deleted file that is open and its successor, and one entry makes a name's entry be reused by the next; two objects
and two handles give a deleted file that is open beside its successor. Objects,
handles and data are interchangeable (symmetry). `MaxRefs` bounds the references
to an object, among them the ones failed opens never give back. Files are created
for appending or opened with truncation. `Seeks` holds one
position, behind the first block: a new open goes back to the start.

In `devices` a set-up is chosen at the start: files with a position; a terminal of
one process that types lines and changes the mode; one that two processes share,
read and are killed in; one that is opened twice; and every call on a terminal nobody
types at. Two
characters fill either buffer, so a third meets a full one, and an escape sequence of
two gives a key whose characters come apart; lengths 1 and 4 are a part of what there
is and more than all. `opens` and `keys` of a set-up, `MaxVfs` and `MaxDev` bound what
would grow, `MaxLeaked` the failed writes. Processes are interchangeable (symmetry).

Except in `storage` deadlock is not checked: the machine stops after a fault
(`panicked`, `fault`), and the bounds may stop it too. A thread that cannot go on shows up in the liveness runs.

`Fairness`: `task_resched` is strongly fair per CPU. The PIT ticks for ever and
sends `IPI_RESCHED` to all CPUs; a tick that finds `scheduler_lock` taken returns
at once, so weak fairness would not be enough and the assumption is that it
is not taken at every single tick. A thread's own continuation and the end of
a syscall's body are strongly fair: they are enabled each time the thread is
run. Interrupts and time are weakly fair.

In Process the monitor is weakly fair and each thread's continuation of a syscall
strongly fair: a spinlock that is free again and again is got in the end, since
its holders release it after finitely many steps. Programs promise nothing: that
a process exits, waits or forks is never assumed.

## 6. Proofs

`SchedulerProofs` proves, for any CPUs, threads, processes, table sizes and
events that satisfy `SchedulerAssumption`:

* `TypeCorrect`: `TypeOK` always holds. `TypeInv` adds to it that the locals of
  operations under way are well formed (`JobsTyped`).
* `TablesCorrect`: `TaskCountExact`, `TableDense`, `TablesAgree`,
  `PlaceholdersOwned` and `VictimStays` always hold, if `Migrates` is FALSE.
* `KillSparesSyscalls`: `NeverFreedInSyscall`, if `Migrates` is FALSE.

With `Migrates` the last two are false: a thread in the wrong `CURRENT_THREAD` can
kill a kernel thread in the middle of `task_tcreate` and leave its reservation
behind, and can clear another thread's `in_syscall`.

The tables alone are not inductive. `TableInv` adds `FlightInv`: which threads may
be in the table (`TableLive`), what creators own (`CreatorsOwn`,
`CreatorsApart`, `ReservedOwned`), that a killer's victim is where it found it
and may be killed by it (`KillersSound`), who holds `scheduler_lock`
(`HolderKills`), that a user thread past `enter_syscall` is marked
(`SyscallMarked`), that a thread not in the tables is not (`UnusedOutside`), and
that a victim whose CPU is being interrupted stays outside its syscalls
(`VictimOutside`). The heart of the argument is `VictimRemovable`: a removed
thread is outside any syscall, hence creates nothing. Each action has its lemma;
`TableFrame` and `TableLocal` dispose of those that do not touch the tables.
Counting uses `CountUsed` on the finite set of slots.

The other theorems of `SchedulerProofs`:

* `TokensTakenOnce`: `NoPhantomToken`, if `Migrates` is FALSE. `event_await` tests and
  decrements apart, and `task_resched` takes tokens in between; `TokenInv` says that
  a thread that names an event is on its way to sleep or not yet dispatched
  (`AwaitsSound`), so nobody takes the token its one waiter has seen, and that a
  victim is marked in `event_abrt` before anything else happens to it.
* `CpusSoundWithoutKills`: `RunsOnlyLive`, `NoLockLeaked` and `OwnAddressSpace` on any
  number of CPUs, with `Migrates` TRUE or FALSE, if nobody is killed (`NoKills`).
* `CpusSoundOnOneCpu`: the same with any kills on one CPU (`OneCpu`), if `Migrates` is
  FALSE.

* `ScanAlwaysFindsNearest`: `ScanFindsNearest`, if `Migrates` is FALSE. `ScanUnfolds`
  takes the recursive function of the loop apart, by an induction on the least number it
  fails for (`ReachesAll`); `LoopSound` is the loop's invariant: which slots it has looked
  at before and after it rewinds, that none is eligible, and that `visited` counts the
  threads among them. A count equal to `task_count` then means that all were seen.

`CpusSoundWithoutKills` and `CpusSoundOnOneCpu` rest on `CpuSound`: what a CPU runs is in the table, locked and names that CPU,
and a thread of the table that is locked or names a CPU is what that CPU runs. With
kills on two CPUs it is false (the run `killed_runs`), so neither hypothesis can be
dropped. On one CPU `KillsHere` replaces it: a kill of another thread finds it on no
CPU.

`PmmProofs` proves, for every set of memory maps and requests that satisfies
`PmmAssumption`:

* `PmmTypeCorrect`: `TypeOK`, with `cur_ptr` never beyond the end of the bitmap. Its
  core is `PositionRange`, on the remainder that a wrap leaves.
* `AllocatorSound`: in the phase after `init_pmm`, every step keeps `FreeIsUnused` and
  `OwnedOnce`, for requests of up to `BITMAP_BASE` pages (16 MiB) and whatever the memory
  in front of the bitmap reads as. `TakenFree` is the reason: a run that goes on over a
  wrap goes on at page `n`, and the pages it takes without having looked at them lie in
  front of that page and so of the bitmap.
* `MemoryAlwaysAccounted`: `PagesAccounted` and `OwnedOnce` from the first step on, for
  the same requests and every map that satisfies `MapFits`: regions in order and apart,
  the page of the first bitmap and the two behind it usable, enough memory for the bitmap
  to move and no more than `BITMAP_BASE` pages of bitmap describe (512 GiB). A map with a
  long hole is covered, but for `NoPageLost`, which does not hold there. `Mapping` is the invariant of the loop of `init_pmm`: what the
  bitmap calls free is what has been seen usable, less the bitmap itself once it has moved.
  Its first page is called free while it is in use, so the first move must not land there
  (`FirstMove`); this is what the condition on the pages behind it is for. Two of the four
  maps of the run satisfy `MapFits`; with the third `init_pmm` halts, and the fourth, which
  has a long hole, has its last page above the theorem's bound.

`MemoryProofs` proves `PagesHeldOnce`, that `Accounted` always holds, for any
constants that satisfy `MemoryAssumption`: any address spaces, depth of tables,
ranges, sizes and pool, and whichever allocations fail. As in the model, it speaks
of the states before the first fault. `MemoryInv` adds to `Accounted` what a call has
in its locals (`CallsSound`: how many of the pages in `ptr` have been used, which is
one less than the page of the range it is at; that the pages are distinct; that the
page map is there or not there yet), that a page map being copied is not released
(`ParentsStay`), and that it has its root table until it is (`Rooted`; otherwise
`free_address_space` could end with pages still mapped). How a step may change the set
of holdings is stated once, without reference to the model (`SoundAdd`,
`SoundRemove`, `SoundDrop`, `SoundReplace`, `SoundSplit`, `SoundShrink`), and each
action is one of these.

`ProcessProofs` proves, for any pids and threads that satisfy `ProcessAssumption` and
whatever programs do:

* `RequestsServed`: `NoRequestForgotten`. The counter is at least the length of the
  queue, less the request whose token the monitor has taken.
* `WaitersWoken`: `WakeupNotLost`.

and, for programs that keep the rules (`Disciplined`), which the code does not enforce:

* `ChildrenReportedOnce`: `ChildEventsExact`.
* `PidsReservedOnce`: `PidsApart`.

`FamilyInv` is their common invariant: a parent is there as long as its child is
(`FamilySound`), a process that ends has no children and is neither creating nor being
created (`EndingSound`), its end is asked for once (`AskedOnce`), one that execs does
not end (`ExecSound`), what the monitor reports is released, still in the table and has
its parent (`MonitorSound`). That nothing of a released process is used
(`NothingGone`) is checked by the run under the same rules and is not listed as a
theorem: the rules exclude the uses there are. No rule about children, kills and victims can be dropped: TLC finds `NothingGone`
violated with `Orphans`, with `KillRaces`, with a victim that execs and with a victim
that forks.

`BlockCacheProofs` proves, for any drives, sizes, numbers of slots and requests that
satisfy `BlockCacheAssumption`:

* `CachesSound`: `CacheSound`. `CacheInv` adds where a request is (`RequestsSound`) and
  that nothing behind a flush is dirty again (`FlushedClean`).
* `DriversImplementDisk`: `ImplementsDisk`, the refinement of `Disk`. Every step of a
  driver is a step of the disk: `CopyIn` and `CopyOut` are `Transfer`, the return of a
  flush finds `medium`, what the drive was given, and content equal because of `FlushedClean` and `CleanIsOnDisk`,
  loads and evictions only destage, and a load behind the end of the disk is `Fail`. The
  content of a block is its slot's or the drive's (`CurrentIs`), and an eviction writes the one to the other before it forgets
  it. The arithmetic of bytes and blocks is in `DivMod` and the lemmas after it.

`DescriptorsProofs` proves, for any processes, threads, table and array sizes and
pipes that satisfy `DescriptorsAssumption`, with `Races` TRUE or FALSE unless a theorem
says otherwise:

* `CountsAlwaysExact`: `CountsExact`, `BytesInOrder` and `TypeOK`, as long as no two threads
  close the same descriptor at once (`OneCloser`): `close` is three critical sections, and
  of two that pass the first both close the end. Nothing else is asked of the programs.
  Each of the three
  counts is a sum over sets of threads and entries: the ends of a pipe are descriptors
  that name it, calls that are about to enter or have just removed one; the references
  of an entry are the table it is in, the calls between `dynarray_getelem` and
  `dynarray_unref`, and what an aborted read has kept. `CountsInv` states these sums with
  the place each call is at, and every action moves one element in or out of one set on
  each side.
* `ReadersWoken`: `ReaderWoken`, as long as no two threads read the same pipe at once
  (`OneReader`) or close the same descriptor (`OneCloser`). A write and a close give a token after the change a reader waits for; only
  the reader itself takes it, and it looks again afterwards. In the run each program has
  at most one thread that reads; with two readers the token meant for one is taken by the
  other, which sleeps again.
* `HandlesAlwaysExact`: `NothingMissing`, `HandlesExact`, `CountsExact` and `BytesInOrder`,
  with `Races` FALSE (with TRUE they fail once two threads of a process are in dup2 and
  close at a time). No two threads then close the same descriptor (`ClosersApart`): a
  descriptor has one owner, and on its handles a closing thread is alone. `Owns(p, h, d)` says that handle `h` of process `p` names descriptor `d` and
  no call is about to clear it, or that a `dup2` is about to store `d` there;
  `OwnersSound` says that the descriptors in the array are those with an owner, and that
  each has one. To keep it, `OwnersInv` adds that threads in calls belong to processes that
  are alive, and that the monitor closes handles when its victim has no threads left
  (`ThreadsSound`); that the calls of `Unlocked` are apart from other calls of their
  process (`CallsApart`) and the other calls hold `file_handles_lock` from the look-up to
  the return (`LocksSound`); that the child of a `fork` is nobody else's and has no handle
  beyond those copied so far (`ForksSound`); and that what a call has looked up is still in
  the table (`LookupsSound`). The argument is that a thread that takes a step is alone on
  the handles of its process (`ContinueAlone`, `MonitorAlone`), so that only its own place
  decides who owns what there, and a step changes no owner, gives a new descriptor one, or
  takes one descriptor from its owner (`OwnersQuiet`, `OwnersGain`, `OwnersLoss`). That the
  entry is there when a call uses it then follows for descriptors from their owner and for
  pipes from the counts of `CountsInv`.

`EchfsProofs` proves, for any blocks, entries, names, objects, slots, handles and
positions that satisfy `EchfsAssumption` and `NullAssumption` (that NULL and DELETED are
none of the values they stand beside; the data blocks may reach to the end of the
device), and for the states before the first fault:

* `ChainsAlwaysSound`: `ChainsSound` and `SyncSafe`. `FilesInv` states the chains without
  the walk over the table: there is a sequence of blocks for every file, open or only on
  disk, that starts where the file says and follows the table to its end (`Follows`), the
  sequences are injective and apart, and the blocks in use are theirs (`Chained`).
  `ChainIs` shows that the recursive functions of the model compute such sequences: `Chain`
  finds the one there is, and `ExtendedIs` that `Extended` makes a longer one of blocks that
  were free (`Grown`). How a step changes one chain is then a fact about sequences and sets
  (`ChainChanged`, `ChainRenamed`). Beside the chains the invariant says which objects the
  hash table holds and that their entries name them (`ObjectsSound`, `NamesSound`), that a
  name is in the directory once and nothing stands behind an unused entry, where `search`
  would not see it (`DirSound`), that the count of a file with a name covers its handles
  (`RefsSound`; without it a `close` could take a count below zero), and that what
  `echfs_sync` has still to write keeps its name (`ListSound`).
* `WritesAlwaysKept`: `WrittenIsKept` and `SyncSound`. `DataSound` adds that the slots hold
  blocks of the file's own chain, as they are on the device or marked dirty under
  `changed_cache` (`SlotsKept`), each block at most once (`SlotsOnce`; otherwise an older
  slot could be flushed over a newer one), what was written in its slot or else on the
  device (`WritesKept`), all but the contents of the device's last block, and the entry on the device unless `changed_entry` (`EntryKept`).
  `SlotTaken` is the eviction: a dirty block goes to its place in the chain before its slot
  is used again, and because chains are injective and apart nothing else changes on the
  device. `FlushedKept` is the same for a sync, and `FoundApart` for a truncation by the
  open that caches the file.

`DevicesProofs` proves, for any processes, array sizes, set-ups and buffer sizes that
satisfy `DevicesAssumption`:

* `HandlesAlwaysShared`: `HandlesShared`. `SharedInv` adds which places fit which call
  (`JobsSound`), that a descriptor belongs to one process and a call works on a handle its
  process has open (`OwnSound`), and that the lock of a handle is held by the one process
  that reads the terminal through it (`LockOK`). That a call finds its handle in the array
  (`There`) follows from the counts: its process has a descriptor of it, so the count is
  not zero.
* `KeysAlwaysInOrder`: `KeysInOrder`. `Ordered` states the order of `big_buf` and `kbd_buf`
  apart, with every character of `big_buf` before every one of `kbd_buf`, and that nothing
  is in `kbd_buf` in raw mode; otherwise a raw character would overtake the line.
* `TtyReadersWoken`: `TtyReaderWoken`, for any number of readers and handles of the
  terminal. A character that is put into `big_buf` is followed by a token from the same
  key, and a token is taken only by a reader, which marks the others that sleep (`missed`).

The inductive invariants were checked with TLC on the instances of the runs before the
proofs relied on them.

Only model-checked: liveness (`NoStarvation`, `KillEnds`, `ExitsEnd`, `WaitsEnd`), which
is out of the prover's reach, and `ExitNotStuck`, which speaks of ENABLED.

## 7. Not modelled

`task_tpause` and `task_tresume` have no caller. `remap_page` and `init_vmm`
change flags and the kernel half only. Perfmon, the hash table, path
normalisation and the search for mount points have state worth a module and are
next in the plan. Of a terminal its output, echo, the other termios flags and the
switch between terminals are left out, of the arrays a failed `dynarray_add`. Firmware tables, register programming of
interrupt controllers and disks, display, network, NVMe, the ELF loader and the
read-only filesystems (parsers of on-disk formats), string helpers, boot code and
the ports are listed with reasons in `PROJECT.json`.
