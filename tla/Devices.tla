------------------------------- MODULE Devices -------------------------------
(***************************************************************************)
(* Device files and terminals: the handles of the virtual file system       *)
(* (vfs_handles of fd/vfs/vfs.c), those of the device filesystem             *)
(* (devfs_handles of fs/devfs/devfs.c) that processes share after fork and   *)
(* dup, and the input side of a terminal (devices/term/tty) with its         *)
(* keyboard worker.  A critical section under the lock of an array, of a     *)
(* handle or of the terminal is one step; only a read of the terminal keeps  *)
(* the lock of its handle while it sleeps.                                   *)
(*                                                                         *)
(* A process makes one call at a time: file_handles_lock is held around it   *)
(* (see Descriptors).  So an entry of vfs_handles is used by one call at a   *)
(* time, and its reference count, 2 in a call and 1 outside, is left out.    *)
(***************************************************************************)
EXTENDS Integers, Sequences, FiniteSets, SequencesExt

CONSTANTS
    Procs,
    MaxVfs, MaxDev,             \* bounds: entries of the two arrays (the code lets them grow)
    Setups,                     \* bound: [nodes, opens, calls, keys]: the files of /dev that are
                                \* opened, how often, the calls on them, the characters typed
    MaxLeaked,                  \* bound: references that writes to a full disk have kept
    NDevices,                   \* devices there are
    Size,                       \* bytes of the disk
    Lens,                       \* lengths of reads and writes
    KBD_BUF_SIZE, BIG_BUF_SIZE,
    Escape,                     \* characters of an escape sequence
    NULL

Vfs == 0 .. MaxVfs - 1
Dev == 0 .. MaxDev - 1
Keys == {"char", "newline", "backspace", "arrow", "interrupt"}
Calls == {"read", "write", "lseek", "fstat", "readdir", "tcgetattr", "tcsetattr", "tcflow", "isatty", "dup",
          "kill"}

ASSUME DevicesAssumption ==
    /\ \A n \in {MaxVfs, MaxDev, NDevices, Size, KBD_BUF_SIZE, BIG_BUF_SIZE, Escape} : n \in Nat \ {0}
    /\ Setups \subseteq [nodes : SUBSET {"root", "disk", "tty"}, opens : 1 .. MaxDev,
                      calls : SUBSET Calls, keys : Nat]
    /\ Lens \subseteq Nat \ {0}
    /\ MaxLeaked \in Nat /\ IsFiniteSet(Procs)

(* The entries of devfs_handles, and a key the worker handles. *)
Handles ==
    [refs : Nat, present : BOOLEAN, device : {"root", "disk", "tty"}, refcount : Nat, ptr : Nat,
     lock : BOOLEAN]
Presses == [key : Keys, left : Nat]

ASSUME NullAssumption == NULL \notin Dev /\ NULL \notin Handles /\ NULL \notin Presses

VARIABLES
    setup,           \* the member of Setups
    vfs_handles,     \* vfs_handles[v]: the devfs handle (intern_fd), or NULL
    devfs_handles,   \* entries: NULL or a devfs_handle_t with refs and present of the array
    own,             \* own[p]: the entries of vfs_handles the descriptors of p name
    event_abrt,      \* processes that are being killed
    pc, job,         \* where a process is in its call, and the call's locals
    kbd,             \* the key the keyboard worker handles, or NULL
    kbd_buf, big_buf, kbd_event, icanon, tcioff,
    typed,           \* characters typed so far; they are numbered
    missed,          \* sleeping readers that found read_lock taken, or slept on while another
                     \* reader took a token
    lastread, gone,  \* the last character read; later ones that were erased or refused
    excused,         \* a line met a full big_buf, or the mode was changed in a line
    leaked,          \* references that calls have kept
    fault            \* a call of a device that is not there

handles == <<vfs_handles, devfs_handles, own, leaked>>
tty == <<kbd_buf, big_buf, kbd_event, icanon, tcioff, typed, lastread, gone, excused, missed>>
vars == <<setup, handles, event_abrt, pc, job, kbd, tty, fault>>

NoJob == [call |-> "none", fd |-> NULL, arg |-> 0]

Init ==
    /\ setup \in Setups
    /\ vfs_handles = [v \in Vfs |-> NULL] /\ devfs_handles = [i \in Dev |-> NULL]
    /\ own = [p \in Procs |-> {}] /\ event_abrt = {}
    /\ pc = [p \in Procs |-> "user"] /\ job = [p \in Procs |-> NoJob]
    /\ kbd = NULL /\ kbd_buf = <<>> /\ big_buf = <<>> /\ kbd_event = 0
    /\ icanon = TRUE /\ tcioff = FALSE
    /\ typed = 0 /\ lastread = 0 /\ gone = {} /\ excused = FALSE /\ missed = {}
    /\ leaked = [i \in Dev |-> 0] /\ fault = FALSE

-----------------------------------------------------------------------------
At(p, place) == ~fault /\ pc[p] = place
Fd(p) == job[p].fd
Handle(p) == devfs_handles[Fd(p)]
First(i, S) == i \in S /\ \A j \in S : i <= j
FreeVfs == {v \in Vfs : vfs_handles[v] = NULL}
FreeDev == {i \in 0 .. setup.opens - 1 : devfs_handles[i] = NULL}

Goes(p, place) == pc' = [pc EXCEPT ![p] = place]
Returns(p) == Goes(p, "user") /\ job' = [job EXCEPT ![p] = NoJob]

NewHandle(node) ==
    [refs |-> 1, present |-> TRUE, device |-> node, refcount |-> 1, ptr |-> 0, lock |-> FALSE]

(* open of a device, up to its entry in devfs_handles.  An open that fails
   (no such device, O_APPEND) changes nothing.                               *)
devfs_open(p, node) ==
    /\ At(p, "user") /\ p \notin event_abrt
    /\ \E i \in Dev :
          /\ First(i, FreeDev)
          /\ devfs_handles' = [devfs_handles EXCEPT ![i] = NewHandle(node)]
          /\ job' = [job EXCEPT ![p] = [NoJob EXCEPT !.call = "open", !.fd = i]]
    /\ Goes(p, "add")
    /\ UNCHANGED <<vfs_handles, own, leaked, event_abrt, kbd, tty, fault>>

(* The end of open and of vfs_dup: dynarray_add to vfs_handles.  A duplicate
   is for the process itself or, in fork, for a child.                       *)
VfsAdd(p) ==
    /\ At(p, "add")
    /\ \E v \in Vfs, q \in Procs :
          /\ First(v, FreeVfs)
          /\ q = p \/ (job[p].call = "dup" /\ q \notin event_abrt)
          /\ vfs_handles' = [vfs_handles EXCEPT ![v] = Fd(p)]
          /\ own' = [own EXCEPT ![q] = @ \cup {v}]
    /\ Returns(p)
    /\ UNCHANGED <<devfs_handles, leaked, event_abrt, kbd, tty, fault>>

(* vfs_read and the other calls on a descriptor look the entry up.  They
   differ in what devfs does.                                                *)
VfsCall(p, call, arg) ==
    /\ At(p, "user") /\ p \notin event_abrt /\ call \in setup.calls
    /\ \E v \in own[p] : job' = [job EXCEPT ![p] = [NoJob EXCEPT !.call = call, !.fd = vfs_handles[v], !.arg = arg]]
    /\ Goes(p, "dev")
    /\ UNCHANGED <<handles, event_abrt, kbd, tty, fault>>

(* vfs_close: the entry is removed, then devfs is called. *)
vfs_close(p) ==
    /\ At(p, "user")
    /\ \E v \in own[p] :
          /\ vfs_handles' = [vfs_handles EXCEPT ![v] = NULL]
          /\ own' = [own EXCEPT ![p] = @ \ {v}]
          /\ job' = [job EXCEPT ![p] = [NoJob EXCEPT !.call = "close", !.fd = vfs_handles[v]]]
    /\ Goes(p, "dev")
    /\ UNCHANGED <<devfs_handles, leaked, event_abrt, kbd, tty, fault>>

-----------------------------------------------------------------------------
(* devfs.                                                                    *)
TtyCalls == {"tcgetattr", "tcsetattr", "tcflow", "isatty"}

(* What a call does with its handle: nothing that changes state (errors and
   fstat included), a call of the terminal, or an operation under the lock.  *)
Follows(call, device) ==
    CASE call \in {"tcgetattr", "tcsetattr", "tcflow"} -> IF device = "tty" THEN "tc" ELSE "unref"
      [] call \in {"read", "write"} -> IF device = "root" THEN "unref" ELSE "lock"
      [] call = "lseek" -> IF device = "disk" THEN "lock" ELSE "unref"
      [] call = "readdir" -> IF device = "root" THEN "lock" ELSE "unref"
      [] call \in {"fstat", "isatty"} -> "unref"
      [] OTHER -> "lock"

(* dynarray_getelem of the handle: EBADF if it is gone.  The calls for
   terminals test neither the handle nor that it has a device.               *)
DevGet(p) ==
    LET h == Handle(p)
        there == h # NULL /\ h.present
        bad == job[p].call \in TtyCalls /\ (~there \/ h.device = "root")
    IN  /\ At(p, "dev")
        /\ fault' = bad
        /\ IF bad THEN UNCHANGED <<devfs_handles, pc, job>>
           ELSE IF there
           THEN /\ devfs_handles' = [devfs_handles EXCEPT ![Fd(p)].refs = @ + 1]
                /\ Goes(p, Follows(job[p].call, h.device)) /\ UNCHANGED job
           ELSE Returns(p) /\ UNCHANGED devfs_handles
        /\ UNCHANGED <<vfs_handles, own, leaked, event_abrt, kbd, tty>>

(* dynarray_unref; vfs drops its reference, too, and dup has still to enter
   the duplicate.                                                            *)
DevUnref(p) ==
    /\ At(p, "unref")
    /\ devfs_handles' = [devfs_handles EXCEPT ![Fd(p)] =
           IF Handle(p).refs = 1 THEN NULL ELSE [Handle(p) EXCEPT !.refs = @ - 1]]
    /\ IF job[p].call = "dup" THEN Goes(p, "add") /\ UNCHANGED job ELSE Returns(p)
    /\ UNCHANGED <<vfs_handles, own, leaked, event_abrt, kbd, tty, fault>>

(* The handle's lock is free for a call. *)
Locks(p, call) == At(p, "lock") /\ job[p].call = call /\ ~Handle(p).lock

(* The handle changes, the lock is released, and the reference goes next. *)
Done(p, h) ==
    /\ devfs_handles' = [devfs_handles EXCEPT ![Fd(p)] = h]
    /\ Goes(p, "unref")
    /\ UNCHANGED <<vfs_handles, own, leaked, event_abrt, job, kbd, tty, fault>>

(* The position after a transfer of len bytes was asked for.  A transfer that
   reaches the end is shortened by what is left instead of to it.  A disk
   refuses one that passes its end; a partition, which looks only at where a
   transfer begins, lets it run on behind its end.  Any may fail.            *)
Moved(ptr, len) ==
    LET n == IF ptr + len >= Size THEN len - (Size - ptr) ELSE len
    IN  {ptr} \cup (IF ptr < Size THEN {ptr + n} ELSE {})

devfs_read(p) ==
    /\ Locks(p, "read") /\ Handle(p).device = "disk"
    /\ \E q \in Moved(Handle(p).ptr, job[p].arg) : Done(p, [Handle(p) EXCEPT !.ptr = q])

(* The disk is full: ENOSPC, without dynarray_unref. *)
DiskFull(p) ==
    /\ Locks(p, "write") /\ Handle(p).device = "disk" /\ Handle(p).ptr = Size
    /\ leaked[Fd(p)] < MaxLeaked
    /\ leaked' = [leaked EXCEPT ![Fd(p)] = @ + 1]
    /\ Returns(p)
    /\ UNCHANGED <<vfs_handles, devfs_handles, own, event_abrt, kbd, tty, fault>>

(* What tty_write puts on the screen is not modelled. *)
devfs_write(p) ==
    /\ Locks(p, "write")
    /\ \/ /\ Handle(p).device = "disk" /\ Handle(p).ptr # Size
          /\ \E q \in Moved(Handle(p).ptr, job[p].arg) : Done(p, [Handle(p) EXCEPT !.ptr = q])
       \/ Handle(p).device = "tty" /\ Done(p, Handle(p))

(* EINVAL at the end of the disk and behind it. *)
devfs_lseek(p) ==
    /\ Locks(p, "lseek")
    /\ Done(p, [Handle(p) EXCEPT !.ptr = IF job[p].arg < Size THEN job[p].arg ELSE @])

(* Past the last device ptr stays.  The entry's device keeps a reference;
   devices are never removed.                                                *)
devfs_readdir(p) ==
    /\ Locks(p, "readdir")
    /\ Done(p, [Handle(p) EXCEPT !.ptr = IF @ < NDevices THEN @ + 1 ELSE @])

(* Mutant of devfs_dup: the duplicate is not counted. *)
devfs_dup_uncounted(p) == Locks(p, "dup") /\ Done(p, Handle(p))

(* In fork the wait for the lock is one with scheduler_lock held: a reader that
   sleeps with the lock of the handle then never runs again, and nobody else
   does.  Here the others go on, which only adds behaviours.                 *)
devfs_dup(p) == Locks(p, "dup") /\ Done(p, [Handle(p) EXCEPT !.refcount = @ + 1])

(* With the last reference the handle leaves the array, its lock taken and
   the reference of dynarray_getelem kept: the entry is never freed.         *)
devfs_close(p) ==
    /\ Locks(p, "close")
    /\ IF Handle(p).refcount > 1 THEN Done(p, [Handle(p) EXCEPT !.refcount = @ - 1])
       ELSE /\ devfs_handles' = [devfs_handles EXCEPT ![Fd(p)] =
                  [Handle(p) EXCEPT !.refcount = 0, !.present = FALSE, !.lock = TRUE, !.refs = @ - 1]]
            /\ leaked' = [leaked EXCEPT ![Fd(p)] = @ + 1]
            /\ Returns(p)
            /\ UNCHANGED <<vfs_handles, own, event_abrt, kbd, tty, fault>>

-----------------------------------------------------------------------------
(* The terminal.  read_lock is held within a step only; a process that tests
   it meanwhile finds it taken.                                              *)
LockHolders(p) == {q \in Procs \ {p} : pc[q] \in {"tc", "tty"}}

TtyReadBegins(p) ==
    /\ Locks(p, "read") /\ Handle(p).device = "tty"
    /\ IF tcioff THEN Done(p, Handle(p))  \* EINVAL
       ELSE /\ devfs_handles' = [devfs_handles EXCEPT ![Fd(p)].lock = TRUE]
            /\ Goes(p, "tty")
            /\ UNCHANGED <<vfs_handles, own, leaked, event_abrt, job, kbd, tty, fault>>

(* spinlock_test_and_acquire fails, and tty_read sleeps until a key is
   pressed, whoever has the lock and whatever is in the buffer.              *)
TtyBusy(p) ==
    /\ At(p, "tty")
    /\ \/ LockHolders(p) # {} /\ missed' = missed \cup {p}
       \/ kbd # NULL /\ kbd.left > 0 /\ UNCHANGED missed
    /\ Goes(p, "wait")
    /\ UNCHANGED <<handles, event_abrt, job, kbd, kbd_buf, big_buf, kbd_event, icanon, tcioff, typed, lastread,
                   gone, excused, fault>>

(* tty_read returns what there is, up to what was asked for. *)
tty_read(p) ==
    LET count == Min({job[p].arg, Len(big_buf)})
        read == ToSet(SubSeq(big_buf, 1, count)) \cup {lastread}
    IN  /\ At(p, "tty") /\ big_buf # <<>>
        /\ big_buf' = SubSeq(big_buf, count + 1, Len(big_buf))
        /\ lastread' = Max(read)
        /\ gone' = {n \in gone : n > Max(read)}
        /\ devfs_handles' = [devfs_handles EXCEPT ![Fd(p)].lock = FALSE]
        /\ Goes(p, "unref")
        /\ UNCHANGED <<vfs_handles, own, leaked, event_abrt, job, kbd, kbd_buf, kbd_event, icanon, tcioff,
                       typed, excused, missed, fault>>

TtySleeps(p) ==
    /\ At(p, "tty") /\ big_buf = <<>> /\ Goes(p, "wait")
    /\ UNCHANGED <<handles, event_abrt, job, kbd, tty, fault>>

(* A token is taken, over the heads of the other readers. *)
TakesToken(p) ==
    /\ kbd_event > 0 /\ kbd_event' = kbd_event - 1
    /\ missed' = {q \in Procs \ {p} : pc[q] = "wait"}

(* event_await takes a token. *)
TtyWoken(p) ==
    /\ At(p, "wait") /\ TakesToken(p)
    /\ Goes(p, "tty")
    /\ UNCHANGED <<handles, event_abrt, job, kbd, kbd_buf, big_buf, icanon, tcioff, typed, lastread, gone,
                   excused, fault>>

(* EINTR; task_get_next may have taken a token before the kill. *)
TtyAborted(p) ==
    /\ At(p, "wait") /\ p \in event_abrt
    /\ devfs_handles' = [devfs_handles EXCEPT ![Fd(p)].lock = FALSE]
    /\ TakesToken(p) \/ (missed' = missed \ {p} /\ UNCHANGED kbd_event)
    /\ Goes(p, "unref")
    /\ UNCHANGED <<vfs_handles, own, leaked, event_abrt, job, kbd, kbd_buf, big_buf, icanon, tcioff, typed,
                   lastread, gone, excused, fault>>

(* tty_tcsetattr and tty_tcflow; the rest of termios is not modelled. *)
tty_tcsetattr(p) ==
    /\ At(p, "tc") /\ job[p].call = "tcsetattr"
    /\ icanon' = (job[p].arg = 1)
    /\ excused' = (excused \/ (icanon' # icanon /\ kbd_buf # <<>>))
    /\ Goes(p, "unref")
    /\ UNCHANGED <<handles, event_abrt, job, kbd, kbd_buf, big_buf, kbd_event, tcioff, typed, lastread, gone,
                   missed, fault>>

tty_tcflow(p) ==
    /\ At(p, "tc") /\ job[p].call = "tcflow"
    /\ tcioff' = (job[p].arg = 1)
    /\ Goes(p, "unref")
    /\ UNCHANGED <<handles, event_abrt, job, kbd, kbd_buf, big_buf, kbd_event, icanon, typed, lastread, gone,
                   excused, missed, fault>>

tty_tcgetattr(p) ==
    /\ At(p, "tc") /\ job[p].call = "tcgetattr"
    /\ Goes(p, "unref")
    /\ UNCHANGED <<handles, event_abrt, job, kbd, tty, fault>>

-----------------------------------------------------------------------------
(* The keyboard worker: a key becomes characters for add_to_buf.  
   Modifiers, the choice of the terminal and the codes of the keys are left
   out.                                                                      *)
Characters(key) ==
    IF key = "arrow" THEN Escape ELSE 1

kbd_handler(key) ==
    /\ ~fault /\ kbd = NULL /\ typed + Characters(key) <= setup.keys
    /\ kbd' = [key |-> key, left |-> Characters(key)]
    /\ UNCHANGED <<handles, event_abrt, pc, job, tty, fault>>

(* As much as big_buf has room for. *)
Fitting(s) == SubSeq(s, 1, Min({Len(s), BIG_BUF_SIZE}))

(* Mutant of LineEnds: kbd_buf_i is not reset. *)
LineEnds_KeepsLine(line) ==
    /\ big_buf' = Fitting(big_buf \o line)
    /\ kbd_buf' = line
    /\ excused' = (excused \/ Len(big_buf \o line) > BIG_BUF_SIZE)

(* The line moves to big_buf; if it does not fit, what fits is copied and the
   line stays as well.                                                       *)
LineEnds(line) ==
    /\ big_buf' = Fitting(big_buf \o line)
    /\ kbd_buf' = IF Len(big_buf \o line) > BIG_BUF_SIZE THEN line ELSE <<>>
    /\ excused' = (excused \/ Len(big_buf \o line) > BIG_BUF_SIZE)

Refused == gone' = gone \cup {typed + 1} /\ UNCHANGED <<kbd_buf, big_buf, excused>>

(* add_to_buf_char: the next character; add_to_buf keeps the interrupt
   character to itself and sends a signal.                                   *)
add_to_buf_char ==
    LET n == typed + 1
        full == Len(kbd_buf) = KBD_BUF_SIZE
    IN  /\ ~fault /\ kbd # NULL /\ kbd.left > 0
        /\ \/ kbd.key = "interrupt" /\ Refused
           \/ icanon /\ kbd.key = "newline" /\ ~full /\ LineEnds(Append(kbd_buf, n)) /\ UNCHANGED gone
           \/ /\ icanon /\ kbd.key = "backspace" /\ kbd_buf # <<>>
              /\ kbd_buf' = Front(kbd_buf)
              /\ gone' = gone \cup {n, Last(kbd_buf)}
              /\ UNCHANGED <<big_buf, excused>>
           \/ icanon /\ kbd.key = "backspace" /\ kbd_buf = <<>> /\ Refused
           \/ icanon /\ kbd.key \notin {"backspace", "interrupt"} /\ full /\ Refused
           \/ /\ icanon /\ kbd.key \in {"char", "arrow"} /\ ~full
              /\ kbd_buf' = Append(kbd_buf, n)
              /\ UNCHANGED <<big_buf, gone, excused>>
           \/ ~icanon /\ kbd.key # "interrupt" /\ Len(big_buf) = BIG_BUF_SIZE /\ Refused
           \/ /\ ~icanon /\ kbd.key # "interrupt" /\ Len(big_buf) < BIG_BUF_SIZE
              /\ big_buf' = Append(big_buf, n)
              /\ UNCHANGED <<kbd_buf, gone, excused>>
        /\ typed' = n
        /\ kbd' = [kbd EXCEPT !.left = @ - 1]
        /\ UNCHANGED <<handles, event_abrt, pc, job, kbd_event, icanon, tcioff, lastread, missed, fault>>

(* Mutant of add_to_buf: no event for an escape sequence. *)
add_to_buf_silent ==
    /\ ~fault /\ kbd # NULL /\ kbd.left = 0
    /\ kbd_event' = IF kbd.key = "arrow" THEN kbd_event ELSE kbd_event + 1
    /\ kbd' = NULL
    /\ UNCHANGED <<handles, event_abrt, pc, job, kbd_buf, big_buf, icanon, tcioff, typed, lastread, gone,
                   excused, missed, fault>>

(* The end of add_to_buf: one event for all characters of the key. *)
add_to_buf ==
    /\ ~fault /\ kbd # NULL /\ kbd.left = 0
    /\ kbd_event' = kbd_event + 1
    /\ kbd' = NULL
    /\ UNCHANGED <<handles, event_abrt, pc, job, kbd_buf, big_buf, icanon, tcioff, typed, lastread, gone,
                   excused, missed, fault>>

-----------------------------------------------------------------------------
(* A process is killed: a sleeping read is aborted, and when it has left its
   call the monitor closes what it had open.                                 *)
Kill(p) ==
    /\ ~fault /\ "kill" \in setup.calls /\ p \notin event_abrt /\ own[p] # {} /\ event_abrt' = event_abrt \cup {p}
    /\ UNCHANGED <<handles, pc, job, kbd, tty, fault>>

ExitEnds(p) ==
    /\ At(p, "user") /\ p \in event_abrt /\ own[p] = {} /\ event_abrt' = event_abrt \ {p}
    /\ UNCHANGED <<handles, pc, job, kbd, tty, fault>>

Next ==
    /\ \/ \E p \in Procs :
             \/ \E node \in setup.nodes : devfs_open(p, node)
             \/ \E call \in {"read", "write"}, len \in Lens : VfsCall(p, call, len)
             \/ \E q \in 0 .. Size : VfsCall(p, "lseek", q)
             \/ \E call \in {"tcsetattr", "tcflow"}, arg \in {0, 1} : VfsCall(p, call, arg)
             \/ \E call \in {"fstat", "readdir", "tcgetattr", "isatty", "dup"} : VfsCall(p, call, 0)
             \/ vfs_close(p) \/ VfsAdd(p) \/ DevGet(p) \/ DevUnref(p)
             \/ devfs_read(p) \/ devfs_write(p) \/ DiskFull(p) \/ devfs_lseek(p) \/ devfs_readdir(p)
             \/ devfs_dup(p) \/ devfs_close(p)
             \/ TtyReadBegins(p) \/ TtyBusy(p) \/ tty_read(p) \/ TtySleeps(p) \/ TtyWoken(p) \/ TtyAborted(p)
             \/ tty_tcsetattr(p) \/ tty_tcflow(p) \/ tty_tcgetattr(p)
             \/ Kill(p) \/ ExitEnds(p)
       \/ \E key \in Keys : kbd_handler(key)
       \/ add_to_buf_char \/ add_to_buf
    /\ UNCHANGED setup

Spec == Init /\ [][Next]_vars

-----------------------------------------------------------------------------
TypeOK ==
    /\ vfs_handles \in [Vfs -> Dev \cup {NULL}]
    /\ devfs_handles \in [Dev -> Handles \cup {NULL}]
    /\ own \in [Procs -> SUBSET Vfs] /\ event_abrt \subseteq Procs
    /\ \A p \in Procs : pc[p] \in {"user", "add", "dev", "lock", "tc", "tty", "wait", "unref"}
    /\ kbd \in Presses \cup {NULL}
    /\ Len(kbd_buf) <= KBD_BUF_SIZE /\ Len(big_buf) <= BIG_BUF_SIZE
    /\ kbd_event \in Nat /\ typed \in 0 .. setup.keys /\ gone \subseteq 1 .. setup.keys
    /\ leaked \in [Dev -> Nat]

In(i, places) == {p \in Procs : Fd(p) = i /\ pc[p] \in places}
InCall(i, call, places) == {p \in In(i, places) : job[p].call = call}

(* The count of a handle's descriptors, with the calls that are changing it. *)
Descriptors(i) ==
    Cardinality({v \in Vfs : vfs_handles[v] = i}) + Cardinality(InCall(i, "dup", {"unref", "add"}))
    + Cardinality(InCall(i, "open", {"add"})) + Cardinality(InCall(i, "close", {"dev", "lock"}))

(* A handle that processes share lives exactly as long as descriptors name it,
   every reference to it is accounted for, and whoever waits for its lock
   waits for one read of the terminal, never for the close that keeps the lock
   of a handle that is gone.  (When that read ends is not claimed.)          *)
HandlesShared ==
    /\ TypeOK
    /\ \A v \in Vfs : Cardinality({p \in Procs : v \in own[p]}) = IF vfs_handles[v] = NULL THEN 0 ELSE 1
    /\ \A i \in Dev :
          LET h == devfs_handles[i] IN
          IF h = NULL THEN Descriptors(i) = 0
          ELSE /\ h.present <=> Descriptors(i) > 0
               /\ h.present => h.refcount = Descriptors(i)
               /\ h.refs = (IF h.present THEN 1 ELSE 0) + leaked[i] + Cardinality(In(i, {"lock", "tc", "tty", "wait", "unref"}))
               /\ h.lock => IF h.present THEN Cardinality(In(i, {"tty", "wait"})) = 1 ELSE In(i, {"lock"}) = {}

(* Every character that was typed is read once and in order, unless it was
   erased, met a full buffer, or shared its fate with a line that met a full
   big_buf or a change of the mode.                                          *)
KeysInOrder ==
    ~excused =>
        LET waiting == big_buf \o kbd_buf IN
        /\ ToSet(waiting) = (lastread + 1 .. typed) \ gone
        /\ \A i, j \in 1 .. Len(waiting) : i < j => waiting[i] < waiting[j]

(* A reader does not sleep beside what it waits for: a token is there or the
   worker is about to give one.  Only a reader that found read_lock taken by
   another call, or slept while another reader took a token, may sleep until
   the next key.                                                             *)
TtyReaderWoken ==
    \A p \in Procs \ missed : pc[p] = "wait" /\ big_buf # <<>> => kbd_event > 0 \/ kbd # NULL
=============================================================================
