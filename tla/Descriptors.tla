----------------------------- MODULE Descriptors -----------------------------
(***************************************************************************)
(* File descriptors of qword: the handle table of each process with its     *)
(* lock, the reference-counted arrays (lib/dynarray.h) of descriptors and    *)
(* of pipes, and the system calls on them: open, pipe, read, write, close,   *)
(* dup2, fcntl and fork's copy of the table; the request monitor closes what *)
(* a process leaves behind.  A critical section under the lock of an array   *)
(* or of a pipe is one step.  Files other than pipes are external: FILE.     *)
(***************************************************************************)
EXTENDS Integers, Sequences, FiniteSets

CONSTANTS
    Procs, Tids,           \* thread ids count from 0; thread 0 is the main thread
    MAX_FILE_HANDLES,
    MaxFds, MaxPipes,      \* bounds: entries of the two arrays (the code lets them grow)
    Counts, MaxBytes,      \* lengths of reads and writes; bound: bytes written to one pipe
    PageBytes,             \* what the buffer of a pipe has room for: one page
    MaxEvent, MaxLeaked,   \* bounds: no new end of a pipe with more tokens, no kill with more leaks
    Programs,              \* what the threads of each process may call; a thread other than
                           \* the main thread runs a signal handler
    Races,                 \* threads of one process call dup2, fcntl, pipe and fork while others
                           \* of it are in calls
    NULL, FILE, NoThread

Handles == 0 .. MAX_FILE_HANDLES - 1
Fds == 0 .. MaxFds - 1
Pipes == 0 .. MaxPipes - 1
Urm == <<0, 0>>
Threads == (Procs \X Tids) \cup {Urm}

Calls == {"open", "pipe", "read", "write", "stat", "close", "dup2", "dupfd", "setfl", "fork"}

ASSUME DescriptorsAssumption ==
    /\ Procs \subseteq Nat \ {0} /\ 1 \in Procs /\ IsFiniteSet(Procs)
    /\ Tids \subseteq Nat /\ 0 \in Tids /\ IsFiniteSet(Tids)
    /\ \A i \in Tids : 0 .. i \subseteq Tids
    /\ \A n \in {MAX_FILE_HANDLES, MaxFds, MaxPipes} : n \in Nat \ {0}
    /\ Counts \subseteq Nat \ {0}
    /\ \A n \in {PageBytes, MaxBytes, MaxEvent, MaxLeaked} : n \in Nat
    /\ Programs \subseteq [Procs \X Tids -> SUBSET Calls] /\ Races \in BOOLEAN
    /\ FILE \notin Pipes /\ NoThread \notin Threads

(* What has become of the bytes of a pipe: in order so far; a read has left
   more behind than it took; the buffer has held more than its page; a byte
   was read that is not the next one, and none of the two had happened.      *)
Orders == {"kept", "short", "overrun", "garbled"}

(* The entries of the two arrays. *)
Descriptors == [refcount : Nat, present : BOOLEAN, intern : Pipes \cup {FILE}]
PipeTs == [refs : Nat, present : BOOLEAN, refcount : Nat, flflags : BOOLEAN, event : Nat,
           buffer : Seq(Nat), sent : Nat, got : Nat, order : Orders]

ASSUME NullAssumption == NULL \notin Descriptors /\ NULL \notin PipeTs

VARIABLES
    program,            \* the member of Programs that is run
    file_handles, file_handles_lock,
    file_descriptors,   \* entries: NULL or refcount, present, intern
    pipes,              \* entries: NULL or a pipe_t with refs and present of the array
    alive, running,     \* processes, and their threads
    event_abrt,
    pc, job,            \* where a thread is in its call, and the call's locals
    victim, next,       \* the process the monitor ends, and the thread it has reached
    fault,              \* an element of an array was used that is not there
    leaked              \* references to a pipe that interrupted reads have kept
vars == <<program, file_handles, file_handles_lock, file_descriptors, pipes, alive, running, event_abrt,
          pc, job, victim, next, fault, leaked>>

arrays == <<file_descriptors, pipes, leaked>>
people == <<program, alive, running, event_abrt, victim, next>>

NoJob == [call |-> "none", h |-> 0, new |-> 0, fd |-> -1, old |-> -1, intern |-> FILE, n |-> 0]
Jobs == [call : Calls \cup {"none", "exit"}, h : 0 .. MAX_FILE_HANDLES, new : Nat, fd : Fds \cup {-1},
         old : Fds \cup {-1}, intern : Pipes \cup {FILE}, n : Nat]
Places == {"user", "lock", "find", "fd", "pipe", "op", "wait", "unref", "put", "create", "store",
           "close", "copied", "remove", "closed", "fork", "exit"}

TypeOK ==
    /\ program \in Programs
    /\ file_handles \in [Procs -> [Handles -> Fds \cup {-1}]]
    /\ file_handles_lock \in [Procs -> Threads \cup {NoThread}]
    /\ file_descriptors \in [Fds -> Descriptors \cup {NULL}]
    /\ pipes \in [Pipes -> PipeTs \cup {NULL}]
    /\ alive \subseteq Procs /\ running \subseteq Threads /\ event_abrt \subseteq Threads
    /\ pc \in [Threads -> Places] /\ job \in [Threads -> Jobs]
    /\ victim \in Procs \cup {0} /\ next \in Nat
    /\ fault \in BOOLEAN /\ leaked \in [Pipes -> Nat]

(* One process with no open handle.                                          *)
Init ==
    /\ program \in Programs
    /\ file_handles = [p \in Procs |-> [h \in Handles |-> -1]]
    /\ file_handles_lock = [p \in Procs |-> NoThread]
    /\ file_descriptors = [d \in Fds |-> NULL] /\ pipes = [i \in Pipes |-> NULL]
    /\ alive = {1} /\ running = {<<1, 0>>} /\ event_abrt = {}
    /\ pc = [t \in Threads |-> "user"] /\ job = [t \in Threads |-> NoJob]
    /\ victim = 0 /\ next = 0
    /\ fault = FALSE /\ leaked = [i \in Pipes |-> 0]

-----------------------------------------------------------------------------
At(t, place) == ~fault /\ pc[t] = place
Fd(t) == job[t].fd
Pipe(t) == pipes[job[t].intern]
Present(e) == e # NULL /\ e.present
LockFree(p) == file_handles_lock[p] = NoThread
First(i, S) == i \in S /\ \A j \in S : i <= j
FreeHandles(p) == {h \in Handles : file_handles[p][h] = -1}
FreeFds == {d \in Fds : file_descriptors[d] = NULL}
FreePipes == {i \in Pipes : pipes[i] = NULL}
FreeProcs == {c \in Procs \ alive : \A u \in Threads : ~(job[u].call = "fork" /\ job[u].new = c)}

Goes(t, place) == pc' = [pc EXCEPT ![t] = place]
Returns(t) == Goes(t, "user") /\ job' = [job EXCEPT ![t] = NoJob]
ReleasesIfHeld(t) ==
    file_handles_lock' = [p \in Procs |-> IF file_handles_lock[p] = t THEN NoThread ELSE file_handles_lock[p]]

(* dynarray_unref of an entry, if it is there; its count is in field
   "refcount" or "refs".                                                     *)
UnrefFd(d) == IF d = NULL \/ d.refcount = 1 THEN NULL ELSE [d EXCEPT !.refcount = @ - 1]
UnrefPipe(e) == IF e = NULL \/ e.refs = 1 THEN NULL ELSE [e EXCEPT !.refs = @ - 1]

(* Calls that use a descriptor without file_handles_lock.                    *)
Unlocked == {"dup2", "dupfd", "setfl", "pipe", "fork"}
Serial(t, call) ==
    \/ Races
    \/ \A u \in running \ {t} : u[1] = t[1] /\ pc[u] # "user" =>
           call \notin Unlocked /\ job[u].call \notin Unlocked

(* The named bounds.                                                         *)
Bounded(call) ==
    /\ call = "pipe" => Cardinality(FreePipes) > Cardinality({t \in Threads : job[t].call = "pipe"})
    /\ \A i \in Pipes : pipes[i] # NULL =>
          /\ call = "write" => \A n \in Counts :
                pipes[i].sent + n * (1 + Cardinality({t \in Threads : job[t].call = "write"})) <= MaxBytes
          /\ call \in {"dup2", "dupfd", "fork"} => pipes[i].event <= MaxEvent

(* A system call begins.                                                     *)
Enter(t, call, h, new, n) ==
    /\ At(t, "user") /\ t \in running /\ t \notin event_abrt
    /\ call \in program[t] /\ Serial(t, call) /\ Bounded(call)
    /\ Goes(t, "lock")
    /\ job' = [job EXCEPT ![t] = [NoJob EXCEPT !.call = call, !.h = h, !.new = new, !.n = n]]
    /\ UNCHANGED <<file_handles, file_handles_lock, arrays, people, fault>>

-----------------------------------------------------------------------------
(***************************************************************************)
(* The calls, up to their first use of a descriptor                         *)
(***************************************************************************)
Calling(t, calls) == At(t, "lock") /\ job[t].call \in calls /\ LockFree(t[1])
Handle(t) == file_handles[t[1]][job[t].h]

(* EBADF, the file does not open, or no handle or process is free.           *)
Refused(t) ==
    /\ \/ Calling(t, {"read", "write", "stat", "close", "dup2", "dupfd", "setfl"}) /\ Handle(t) = -1
       \/ Calling(t, {"open"})
       \/ Calling(t, {"pipe"}) /\ Cardinality(FreeHandles(t[1])) < 2
       \/ At(t, "lock") /\ job[t].call = "fork" /\ FreeProcs = {}
    /\ Returns(t)
    /\ UNCHANGED <<file_handles, file_handles_lock, arrays, people, fault>>

(* The lock is taken and held until the call returns.                        *)
Locks(t, call, place) ==
    /\ Calling(t, {call}) /\ Handle(t) # -1
    /\ file_handles_lock' = [file_handles_lock EXCEPT ![t[1]] = t]
    /\ job' = [job EXCEPT ![t].fd = Handle(t)]
    /\ Goes(t, place)
    /\ UNCHANGED <<file_handles, arrays, people, fault>>

(* A length beyond SYSCALL_IO_CAP, which makes several reads, is left out.   *)
syscall_read(t) == Locks(t, "read", "fd")
syscall_write(t) == Locks(t, "write", "fd")
syscall_close(t) == Locks(t, "close", "close")

(* fstat, lseek, readdir, isatty, tcgetattr, tcsetattr, tcflow: of a pipe
   nothing changes.                                                          *)
syscall_stat(t) == Locks(t, "stat", "fd")

fd_create(d, intern) ==
    /\ First(d, FreeFds)
    /\ file_descriptors' = [file_descriptors EXCEPT ![d] =
           [refcount |-> 1, present |-> TRUE, intern |-> intern]]

syscall_open(t) ==
    /\ Calling(t, {"open"})
    /\ \E h \in Handles, d \in Fds :
          /\ First(h, FreeHandles(t[1])) /\ fd_create(d, FILE)
          /\ file_handles' = [file_handles EXCEPT ![t[1]][h] = d]
    /\ Returns(t)
    /\ UNCHANGED <<file_handles_lock, pipes, leaked, people, fault>>

NewPipe ==
    [refs |-> 1, present |-> TRUE, refcount |-> 2, flflags |-> FALSE, event |-> 0,
     buffer |-> <<>>, sent |-> 0, got |-> 0, order |-> "kept"]

(* pipe and the two handles, under the lock; then setflflags on both
   descriptors, without it.                                                  *)
syscall_pipe(t) ==
    /\ Calling(t, {"pipe"})
    /\ \E i \in Pipes, r, w \in Fds, hr, hw \in Handles :
          /\ First(i, FreePipes) /\ First(r, FreeFds) /\ First(w, FreeFds \ {r})
          /\ First(hr, FreeHandles(t[1])) /\ First(hw, FreeHandles(t[1]) \ {hr})
          /\ pipes' = [pipes EXCEPT ![i] = NewPipe]
          /\ leaked' = [leaked EXCEPT ![i] = 0]
          /\ file_descriptors' = [d \in Fds |->
                 IF d \in {r, w} THEN [refcount |-> 1, present |-> TRUE, intern |-> i]
                 ELSE file_descriptors[d]]
          /\ file_handles' = [file_handles EXCEPT ![t[1]][hr] = r, ![t[1]][hw] = w]
          /\ job' = [job EXCEPT ![t].fd = r, ![t].old = w]
    /\ Goes(t, "fd")
    /\ UNCHANGED <<file_handles_lock, people, fault>>

(* Mutant of syscall_dup2: the descriptor the new handle had is not closed.  *)
syscall_dup2_keeps(t) ==
    LET old == Handle(t)
        was == file_handles[t[1]][job[t].new]
    IN  /\ Calling(t, {"dup2"}) /\ old # -1
        /\ IF old = was THEN Returns(t)
           ELSE job' = [job EXCEPT ![t].old = old, ![t].fd = old] /\ Goes(t, "fd")
        /\ UNCHANGED <<file_handles, file_handles_lock, arrays, people, fault>>

(* dup2 looks both handles up, and closes what the new one had.              *)
syscall_dup2(t) ==
    LET old == Handle(t)
        was == file_handles[t[1]][job[t].new]
    IN  /\ Calling(t, {"dup2"}) /\ old # -1
        /\ IF old = was THEN Returns(t)
           ELSE /\ job' = [job EXCEPT ![t].old = old, ![t].fd = IF was = -1 THEN old ELSE was]
                /\ Goes(t, IF was = -1 THEN "fd" ELSE "close")
        /\ UNCHANGED <<file_handles, file_handles_lock, arrays, people, fault>>

(* fcntl: F_SETFL, and F_DUPFD up to its second critical section.            *)
syscall_fcntl(t) ==
    /\ Calling(t, {"setfl", "dupfd"}) /\ Handle(t) # -1
    /\ job' = [job EXCEPT ![t].fd = Handle(t)]
    /\ Goes(t, IF job[t].call = "dupfd" THEN "find" ELSE "fd")
    /\ UNCHANGED <<file_handles, file_handles_lock, arrays, people, fault>>

fcntl_dupfd(t) ==
    /\ At(t, "find") /\ LockFree(t[1])
    /\ \/ /\ FreeHandles(t[1]) = {} /\ Returns(t)
          /\ UNCHANGED file_handles_lock
       \/ \E h \in Handles :
             /\ First(h, FreeHandles(t[1]))
             /\ file_handles_lock' = [file_handles_lock EXCEPT ![t[1]] = t]
             /\ job' = [job EXCEPT ![t].new = h]
             /\ Goes(t, "fd")
    /\ UNCHANGED <<file_handles, arrays, people, fault>>

(* fork copies the table, handle by handle, without the lock.  It holds
   scheduler_lock meanwhile, so fewer threads go on than here: one that is
   asleep with what dup waits for never does.                                *)
ForkBegins(t) ==
    /\ At(t, "lock") /\ job[t].call = "fork"
    /\ \E c \in FreeProcs :
          /\ job' = [job EXCEPT ![t].new = c]
          /\ file_handles' = [file_handles EXCEPT ![c] = [h \in Handles |-> -1]]
    /\ Goes(t, "fork")
    /\ UNCHANGED <<file_handles_lock, arrays, people, fault>>

ForkCopies(t) ==
    /\ At(t, "fork") /\ job[t].h \in Handles
    /\ IF Handle(t) = -1
       THEN job' = [job EXCEPT ![t].h = @ + 1] /\ UNCHANGED pc
       ELSE job' = [job EXCEPT ![t].fd = Handle(t)] /\ Goes(t, "fd")
    /\ UNCHANGED <<file_handles, file_handles_lock, arrays, people, fault>>

ForkEnds(t) ==
    LET c == job[t].new IN
    /\ At(t, "fork") /\ job[t].h \notin Handles
    /\ alive' = alive \cup {c} /\ running' = running \cup {<<c, 0>>}
    /\ Returns(t)
    /\ UNCHANGED <<program, file_handles, file_handles_lock, arrays, event_abrt, victim, next, fault>>

-----------------------------------------------------------------------------
(***************************************************************************)
(* A descriptor in use: dynarray_getelem, the handler, dynarray_unref       *)
(***************************************************************************)
IsDup(t) == job[t].call \in {"dup2", "dupfd", "fork"}
IsClose(t) == pc[t] \in {"pipe", "op", "unref", "closed"} /\ Fd(t) = -1

(* dynarray_getelem of the descriptor.                                       *)
FdGet(t) ==
    LET d == file_descriptors[Fd(t)] IN
    /\ At(t, "fd")
    /\ IF Present(d)
       THEN /\ file_descriptors' = [file_descriptors EXCEPT ![Fd(t)].refcount = @ + 1]
            /\ job' = [job EXCEPT ![t].intern = d.intern]
            /\ Goes(t, IF d.intern = FILE \/ job[t].call = "stat" THEN "put" ELSE "pipe")
            /\ UNCHANGED fault
       ELSE fault' = TRUE /\ UNCHANGED <<file_descriptors, job, pc>>
    /\ UNCHANGED <<file_handles, file_handles_lock, pipes, leaked, people>>

(* dynarray_getelem of the pipe.                                             *)
PipeGet(t) ==
    /\ At(t, "pipe")
    /\ IF Present(Pipe(t))
       THEN pipes' = [pipes EXCEPT ![job[t].intern].refs = @ + 1] /\ Goes(t, "op") /\ UNCHANGED fault
       ELSE fault' = TRUE /\ UNCHANGED <<pipes, pc>>
    /\ UNCHANGED <<file_handles, file_handles_lock, file_descriptors, leaked, people, job>>

(* The lock of a pipe is never released after its last close.                *)
Operates(t, call) == At(t, "op") /\ job[t].call = call /\ Pipe(t).refcount > 0 /\ ~IsClose(t)

(* The lock is released and the reference goes next.                         *)
PipeDone(t, new) ==
    /\ pipes' = [pipes EXCEPT ![job[t].intern] = new]
    /\ Goes(t, "unref")
    /\ UNCHANGED <<file_handles, file_handles_lock, file_descriptors, leaked, people, job, fault>>

Enough(t) == job[t].n <= Len(Pipe(t).buffer) \/ Pipe(t).flflags \/ Pipe(t).refcount = 1

(* Mutant of Moved: the bytes after those that were read stay where they are.*)
Moved_not(buffer, count) == SubSeq(buffer, 1, Len(buffer) - count)

(* What is left after memmove(buffer, buffer + count, count).                *)
Moved(buffer, count) ==
    [i \in 1 .. Len(buffer) - count |-> IF i <= count THEN buffer[i + count] ELSE buffer[i]]

InOrder(e, count) == \A i \in 1 .. count : e.buffer[i] = e.got + i

pipe_read(t) ==
    LET e == Pipe(t)
        size == Len(e.buffer)
        count == IF job[t].n <= size THEN job[t].n ELSE size
    IN  /\ Operates(t, "read") /\ Enough(t)
        /\ PipeDone(t, [e EXCEPT !.buffer = Moved(@, count), !.got = @ + count,
               !.order = IF @ = "kept" /\ ~InOrder(e, count) THEN "garbled"
                         ELSE IF @ = "kept" /\ size - count > count THEN "short" ELSE @])

PipeBlocks(t) ==
    /\ Operates(t, "read") /\ ~Enough(t) /\ Goes(t, "wait")
    /\ UNCHANGED <<file_handles, file_handles_lock, arrays, people, job, fault>>

(* event_await takes a token.                                                *)
PipeWoken(t) ==
    /\ At(t, "wait") /\ Pipe(t).event > 0
    /\ pipes' = [pipes EXCEPT ![job[t].intern].event = @ - 1]
    /\ Goes(t, "op")
    /\ UNCHANGED <<file_handles, file_handles_lock, file_descriptors, leaked, people, job, fault>>

(* Mutant of PipeAborted: the result of event_await is not tested.           *)
PipeAborted_ignored(t) ==
    /\ At(t, "wait") /\ t \in event_abrt /\ Pipe(t).event > 0 /\ Goes(t, "op")
    /\ UNCHANGED <<file_handles, file_handles_lock, arrays, people, job, fault>>

(* EINTR: pipe_read returns without dynarray_unref.  If the flag was set after
   the scheduler had given it a token, the token is gone with it.            *)
PipeAborted(t) ==
    /\ At(t, "wait") /\ t \in event_abrt
    /\ leaked' = [leaked EXCEPT ![job[t].intern] = @ + 1]
    /\ Goes(t, "put")
    /\ \/ UNCHANGED pipes
       \/ Pipe(t).event > 0 /\ pipes' = [pipes EXCEPT ![job[t].intern].event = @ - 1]
    /\ UNCHANGED <<file_handles, file_handles_lock, file_descriptors, people, job, fault>>

(* The buffer after a write: krealloc is given a number of steps for a number
   of bytes and gives one page, so what is written behind that is nobody's
   (0).  What else is overwritten there is not modelled.                     *)
Appended(e, n) ==
    e.buffer \o [i \in 1 .. n |-> IF Len(e.buffer) + i <= PageBytes THEN e.sent + i ELSE 0]

pipe_write(t) ==
    LET e == Pipe(t)
        n == job[t].n
    IN  /\ Operates(t, "write")
        /\ PipeDone(t, [e EXCEPT !.sent = @ + n, !.event = @ + 1, !.buffer = Appended(e, n),
               !.order = IF @ = "kept" /\ Len(e.buffer) + n > PageBytes THEN "overrun" ELSE @])

pipe_setflflags(t) ==
    /\ Operates(t, "setfl") \/ Operates(t, "pipe")
    /\ PipeDone(t, [Pipe(t) EXCEPT !.flflags = (job[t].n > 0)])

(* Mutant of pipe_dup: the duplicate is not counted.                         *)
pipe_dup_uncounted(t) ==
    /\ Operates(t, "dup2") \/ Operates(t, "dupfd") \/ Operates(t, "fork")
    /\ PipeDone(t, Pipe(t))

pipe_dup(t) ==
    /\ Operates(t, "dup2") \/ Operates(t, "dupfd") \/ Operates(t, "fork")
    /\ PipeDone(t, [Pipe(t) EXCEPT !.refcount = @ + 1])

(* Mutant of pipe_close: the readers are not woken.                          *)
pipe_close_silent(t) ==
    LET e == Pipe(t) IN
    /\ At(t, "op") /\ IsClose(t) /\ e.refcount > 0
    /\ IF e.refcount > 1
       THEN PipeDone(t, [e EXCEPT !.refcount = @ - 1])
       ELSE /\ pipes' = [pipes EXCEPT ![job[t].intern] =
                  IF e.refs = 2 THEN NULL
                  ELSE [e EXCEPT !.refcount = 0, !.present = FALSE, !.refs = @ - 2]]
            /\ Goes(t, "closed")
            /\ UNCHANGED <<file_handles, file_handles_lock, file_descriptors, leaked, people, job, fault>>

(* With the last end the pipe leaves the array; before that, readers are
   woken.                                                                    *)
pipe_close(t) ==
    LET e == Pipe(t) IN
    /\ At(t, "op") /\ IsClose(t) /\ e.refcount > 0
    /\ IF e.refcount > 1
       THEN PipeDone(t, [e EXCEPT !.refcount = @ - 1, !.event = @ + 1])
       ELSE /\ pipes' = [pipes EXCEPT ![job[t].intern] =
                  IF e.refs = 2 THEN NULL
                  ELSE [e EXCEPT !.refcount = 0, !.present = FALSE, !.refs = @ - 2]]
            /\ Goes(t, "closed")
            /\ UNCHANGED <<file_handles, file_handles_lock, file_descriptors, leaked, people, job, fault>>

(* dynarray_unref of the pipe.                                               *)
PipeUnref(t) ==
    /\ At(t, "unref")
    /\ pipes' = [pipes EXCEPT ![job[t].intern] = UnrefPipe(@)]
    /\ Goes(t, IF IsClose(t) THEN "closed" ELSE "put")
    /\ UNCHANGED <<file_handles, file_handles_lock, file_descriptors, leaked, people, job, fault>>

(* dynarray_unref of the descriptor, and what the call does next: return,
   treat the pipe's other end, or create the duplicate.                      *)
FdUnref(t) ==
    /\ At(t, "put")
    /\ file_descriptors' = [file_descriptors EXCEPT ![Fd(t)] = UnrefFd(@)]
    /\ IF IsDup(t) THEN Goes(t, "create") /\ UNCHANGED <<job, file_handles_lock>>
       ELSE IF job[t].call = "pipe" /\ job[t].old # -1
       THEN /\ job' = [job EXCEPT ![t].fd = job[t].old, ![t].old = -1]
            /\ Goes(t, "fd") /\ UNCHANGED file_handles_lock
       ELSE Returns(t) /\ ReleasesIfHeld(t)
    /\ UNCHANGED <<file_handles, pipes, leaked, people, fault>>

(* The end of dup, which reads the old entry once more, and where the call
   puts the new descriptor.                                                  *)
FdCreate(t) ==
    /\ At(t, "create")
    /\ IF file_descriptors[Fd(t)] = NULL
       THEN fault' = TRUE /\ UNCHANGED <<file_descriptors, file_handles, file_handles_lock, job, pc>>
       ELSE /\ \E d \in Fds :
                  /\ fd_create(d, job[t].intern)
                  /\ CASE job[t].call = "dup2" ->
                            /\ job' = [job EXCEPT ![t].fd = d]
                            /\ Goes(t, "store") /\ UNCHANGED <<file_handles, file_handles_lock>>
                       [] job[t].call = "dupfd" ->
                            /\ file_handles' = [file_handles EXCEPT ![t[1]][job[t].new] = d]
                            /\ Returns(t) /\ ReleasesIfHeld(t)
                       [] job[t].call = "fork" ->
                            /\ file_handles' = [file_handles EXCEPT ![job[t].new][job[t].h] = d]
                            /\ job' = [job EXCEPT ![t].h = @ + 1]
                            /\ Goes(t, "fork") /\ UNCHANGED file_handles_lock
            /\ UNCHANGED fault
    /\ UNCHANGED <<pipes, leaked, people>>

Dup2Stores(t) ==
    /\ At(t, "store") /\ LockFree(t[1])
    /\ file_handles' = [file_handles EXCEPT ![t[1]][job[t].new] = Fd(t)]
    /\ Returns(t)
    /\ UNCHANGED <<file_handles_lock, arrays, people, fault>>

-----------------------------------------------------------------------------
(***************************************************************************)
(* close, and the end of a process                                          *)
(***************************************************************************)

(* The descriptor is copied, *)
close(t) ==
    LET d == file_descriptors[Fd(t)] IN
    /\ At(t, "close")
    /\ IF Present(d)
       THEN /\ file_descriptors' = [file_descriptors EXCEPT ![Fd(t)].refcount = @ + 1]
            /\ job' = [job EXCEPT ![t].intern = d.intern]
            /\ Goes(t, "copied") /\ UNCHANGED fault
       ELSE fault' = TRUE /\ UNCHANGED <<file_descriptors, job, pc>>
    /\ UNCHANGED <<file_handles, file_handles_lock, pipes, leaked, people>>

(* the reference to it given back, *)
CloseUnref(t) ==
    /\ At(t, "copied")
    /\ file_descriptors' = [file_descriptors EXCEPT ![Fd(t)] = UnrefFd(@)]
    /\ Goes(t, "remove")
    /\ UNCHANGED <<file_handles, file_handles_lock, pipes, leaked, people, job, fault>>

(* and whatever is in its place by now leaves the array, if anything is; then
   the handler of the copy is called.                                        *)
CloseRemoves(t) ==
    LET d == file_descriptors[Fd(t)] IN
    /\ At(t, "remove")
    /\ file_descriptors' = [file_descriptors EXCEPT ![Fd(t)] =
           IF d = NULL THEN NULL ELSE UnrefFd([d EXCEPT !.present = FALSE])]
    /\ job' = [job EXCEPT ![t].fd = -1]
    /\ Goes(t, IF job[t].intern = FILE THEN "closed" ELSE "pipe")
    /\ UNCHANGED <<file_handles, file_handles_lock, pipes, leaked, people, fault>>

(* Mutant of Closed: the handle is not cleared.                              *)
Closed_keeps(t) ==
    /\ At(t, "closed")
    /\ CASE job[t].call = "close" ->
              UNCHANGED file_handles /\ Returns(t) /\ ReleasesIfHeld(t)
         [] job[t].call = "dup2" ->
              /\ job' = [job EXCEPT ![t].fd = job[t].old]
              /\ Goes(t, "fd") /\ UNCHANGED <<file_handles, file_handles_lock>>
         [] job[t].call = "exit" ->
              /\ job' = [job EXCEPT ![t].h = @ + 1]
              /\ Goes(t, "exit") /\ UNCHANGED <<file_handles, file_handles_lock>>
    /\ UNCHANGED <<arrays, people, fault>>

(* Handlers refuse only a handle that is not open: close has not failed.     *)
Closed(t) ==
    /\ At(t, "closed")
    /\ CASE job[t].call = "close" ->
              /\ file_handles' = [file_handles EXCEPT ![t[1]][job[t].h] = -1]
              /\ Returns(t) /\ ReleasesIfHeld(t)
         [] job[t].call = "dup2" ->
              /\ job' = [job EXCEPT ![t].fd = job[t].old]
              /\ Goes(t, "fd") /\ UNCHANGED <<file_handles, file_handles_lock>>
         [] job[t].call = "exit" ->
              /\ job' = [job EXCEPT ![t].h = @ + 1]
              /\ Goes(t, "exit") /\ UNCHANGED <<file_handles, file_handles_lock>>
    /\ UNCHANGED <<arrays, people, fault>>

(* A signal handler is started in a thread of its own.                       *)
HandlerStarts(p) ==
    /\ ~fault /\ p \in alive \ {victim}
    /\ \E i \in Tids \ {0} :
          program[<<p, i>>] # {} /\ <<p, i>> \notin running /\ running' = running \cup {<<p, i>>}
    /\ UNCHANGED <<program, file_handles, file_handles_lock, arrays, alive, event_abrt, pc, job, victim,
                   next, fault>>

(* The monitor is told to end a process and kills its threads in order.      *)
ExitBegins(p) ==
    /\ ~fault /\ victim = 0 /\ p \in alive /\ \A i \in Pipes : leaked[i] <= MaxLeaked
    /\ victim' = p /\ next' = 0
    /\ UNCHANGED <<program, file_handles, file_handles_lock, arrays, alive, running, event_abrt, pc,
                   job, fault>>

MonitorKills ==
    LET t == <<victim, next>> IN
    /\ ~fault /\ victim # 0 /\ next \in Tids
    /\ \/ /\ t \notin running /\ next' = next + 1
          /\ UNCHANGED <<running, event_abrt>>
       \/ /\ t \in running \ event_abrt /\ event_abrt' = event_abrt \cup {t}
          /\ UNCHANGED <<running, next>>
       \/ /\ t \in running \cap event_abrt /\ pc[t] = "user"
          /\ running' = running \ {t} /\ event_abrt' = event_abrt \ {t} /\ next' = next + 1
    /\ UNCHANGED <<program, file_handles, file_handles_lock, arrays, alive, pc, job, victim, fault>>

(* exit_receive_request closes the handles one by one.                       *)
ExitCloses ==
    LET h == job[Urm].h IN
    /\ ~fault /\ victim # 0 /\ next \notin Tids
    /\ pc[Urm] \in {"user", "exit"} /\ h \in Handles
    /\ IF file_handles[victim][h] = -1
       THEN job' = [job EXCEPT ![Urm].call = "exit", ![Urm].h = @ + 1] /\ Goes(Urm, "exit")
       ELSE /\ job' = [job EXCEPT ![Urm].call = "exit", ![Urm].fd = file_handles[victim][h]]
            /\ Goes(Urm, "close")
    /\ UNCHANGED <<file_handles, file_handles_lock, arrays, people, fault>>

ExitEnds ==
    /\ At(Urm, "exit") /\ job[Urm].h \notin Handles
    /\ file_handles' = [file_handles EXCEPT ![victim] = [h \in Handles |-> -1]]
    /\ alive' = alive \ {victim} /\ victim' = 0 /\ next' = 0
    /\ Returns(Urm)
    /\ UNCHANGED <<program, file_handles_lock, arrays, running, event_abrt, fault>>

-----------------------------------------------------------------------------
Program(t) ==
    \/ \E h \in Handles :
          \/ \E call \in {"stat", "close", "dupfd"} : Enter(t, call, h, 0, 0)
          \/ \E call \in {"read", "write"}, n \in Counts : Enter(t, call, h, 0, n)
          \/ \E new \in Handles : Enter(t, "dup2", h, new, 0)
          \/ \E n \in {0, 1} : Enter(t, "setfl", h, 0, n)
    \/ \E call \in {"open", "fork"} : Enter(t, call, 0, 0, 0)
    \/ \E n \in {0, 1} : Enter(t, "pipe", 0, 0, n)

Continue(t) ==
    \/ Refused(t) \/ syscall_read(t) \/ syscall_write(t) \/ syscall_close(t) \/ syscall_stat(t)
    \/ syscall_open(t) \/ syscall_pipe(t) \/ syscall_dup2(t) \/ syscall_fcntl(t) \/ fcntl_dupfd(t)
    \/ ForkBegins(t) \/ ForkCopies(t) \/ ForkEnds(t)
    \/ FdGet(t) \/ PipeGet(t) \/ pipe_read(t) \/ PipeBlocks(t) \/ PipeWoken(t) \/ PipeAborted(t)
    \/ pipe_write(t) \/ pipe_setflflags(t) \/ pipe_dup(t) \/ pipe_close(t) \/ PipeUnref(t)
    \/ FdUnref(t) \/ FdCreate(t) \/ Dup2Stores(t) \/ close(t) \/ CloseUnref(t) \/ CloseRemoves(t) \/ Closed(t)

Monitor == MonitorKills \/ ExitCloses \/ ExitEnds

Next ==
    \/ \E t \in Threads : Program(t) \/ Continue(t)
    \/ \E p \in Procs : HandlerStarts(p) \/ ExitBegins(p)
    \/ Monitor

Spec == Init /\ [][Next]_vars

-----------------------------------------------------------------------------
(* No call meets an element of an array that is gone, although descriptors
   are freed and their numbers reused while other processes work on the same
   pipe: the pointer of dynarray_getelem is used without a test.  All state
   keeps its type.                                                           *)
NothingMissing == TypeOK /\ ~fault

(* A handle between close and the store that follows it.                     *)
Stale(p, h) ==
    \E t \in Threads :
        \/ t[1] = p /\ job[t].call = "close" /\ job[t].h = h /\ IsClose(t)
        \/ /\ t[1] = p /\ job[t].call = "dup2" /\ job[t].new = h
           /\ pc[t] \notin {"user", "lock", "close", "copied", "remove"}
        \/ t = Urm /\ victim = p /\ job[t].call = "exit" /\ (job[t].h > h \/ (job[t].h = h /\ IsClose(t)))

(* Every descriptor has one owner, a handle or a dup2 about to store it, and
   every handle has a descriptor: none is shared, lost or left dangling by
   dup2, fork and exit.                                                      *)
HandlesExact ==
    ~fault =>
    LET Owned == {x \in Procs \X Handles : file_handles[x[1]][x[2]] # -1 /\ ~Stale(x[1], x[2])}
        Owner(x) == file_handles[x[1]][x[2]]
    IN  /\ \A x, y \in Owned : Owner(x) = Owner(y) => x = y
        /\ {d \in Fds : Present(file_descriptors[d])} =
               {Owner(x) : x \in Owned} \cup {Fd(t) : t \in {u \in Threads : pc[u] = "store"}}

(* The count of ends of a pipe, on which end-of-file and its release depend,
   is the number of its descriptors and of the duplicates and closes under
   way.                                                                      *)
EndsCounted ==
    \A i \in Pipes : Present(pipes[i]) =>
        LET open == {d \in Fds : Present(file_descriptors[d]) /\ file_descriptors[d].intern = i}
            dups == {t \in Threads : IsDup(t) /\ job[t].intern = i /\ ~IsClose(t)
                                     /\ pc[t] \in {"unref", "put", "create"}}
            closes == {t \in Threads : pc[t] \in {"pipe", "op"} /\ IsClose(t) /\ job[t].intern = i}
        IN  pipes[i].refcount = Cardinality(open) + Cardinality(dups) + Cardinality(closes)

(* Every reference to an entry is accounted for, so entries are freed with
   their last user and not before; only a read that is interrupted keeps its
   reference to the pipe.                                                    *)
RefsExact ==
    ~fault =>
    /\ \A d \in Fds : file_descriptors[d] # NULL =>
          file_descriptors[d].refcount =
              (IF file_descriptors[d].present THEN 1 ELSE 0)
              + Cardinality({t \in Threads : Fd(t) = d
                                /\ pc[t] \in {"copied", "pipe", "op", "wait", "unref", "put"}})
    /\ \A i \in Pipes : pipes[i] # NULL =>
          pipes[i].refs =
              (IF pipes[i].present THEN 1 ELSE 0) + leaked[i]
              + Cardinality({t \in Threads : job[t].intern = i /\ pc[t] \in {"op", "wait", "unref"}})

(* Both counts of a pipe, the ends that are open and the references to its
   entry, and those of every descriptor are exact at every point of every
   call: nothing is freed early, and what is leaked is what is named above.  *)
CountsExact == EndsCounted /\ RefsExact

(* A reader asleep on a pipe that has what it wants, or no other end, has a
   token waiting for it.                                                     *)
ReaderWoken ==
    \A t \in Threads :
        pc[t] = "wait" /\ (job[t].n <= Len(Pipe(t).buffer) \/ Pipe(t).refcount = 1) => Pipe(t).event > 0

(* What is read is what was written, in order, until a read leaves more behind
   than it takes (memmove moves only as many bytes as were read) or the pipe
   holds more than a page (krealloc is asked for steps, not for bytes).      *)
BytesInOrder == \A i \in Pipes : pipes[i] # NULL => pipes[i].order # "garbled"

(* The thread the monitor waits for can go on, or the thread whose table lock
   it wants can: a thread killed in a read that blocks with the lock held is
   woken and releases it.                                                    *)
ExitNotStuck ==
    LET t == <<victim, next>>
        holder == file_handles_lock[victim]
    IN  ~fault /\ victim # 0 /\ t \in running \cap event_abrt /\ pc[t] # "user" =>
            \/ ENABLED Continue(t)
            \/ /\ pc[t] \in {"lock", "find", "store"} /\ holder \notin {NoThread, t}
               /\ ENABLED Continue(holder)

=============================================================================
