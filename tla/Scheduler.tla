------------------------------ MODULE Scheduler ------------------------------
(***************************************************************************)
(* The SMP scheduler of qword: proc/task.c, lib/event.h, asm/task.asm and   *)
(* the syscall prologue and epilogue of proc/syscalls.c.                    *)
(*                                                                         *)
(* Every CPU runs at most one thread and switches threads in task_resched,  *)
(* under scheduler_lock.  A thread_t carries a lock that is held exactly    *)
(* while a CPU runs it.  Threads block on event counters, sleep, create     *)
(* threads in two phases (reserve slots, publish) and kill threads with a   *)
(* handshake: event_abrt, a wait for in_syscall to drop, and an IPI to the  *)
(* CPU that ran the victim when the kill began.                             *)
(*                                                                         *)
(* A critical section of scheduler_lock that never spins is one step.  The  *)
(* only section that spans steps is the one of task_tkill, whose holder is  *)
(* recorded in `holder'.                                                    *)
(***************************************************************************)
EXTENDS Integers, FiniteSets

CONSTANTS
    Cpus,          \* CPU numbers
    Threads,       \* identities of struct thread_t allocations
    Procs,         \* process ids; 0 is the kernel
    ProcOf,        \* the process a thread_t is created for
    Events,        \* event_t counters
    MAX_TASKS,     \* length of task_table
    MAX_THREADS,   \* length of a process's threads table
    MaxEvent,      \* bound: awaits and triggers keep a counter within -MaxEvent..MaxEvent
    Kmain,         \* the thread that kmain() creates before the CPUs start
    Urm,           \* the thread that kills others (the userspace request monitor)
    Victims,       \* threads the Urm may be asked to kill
    SelfKillers,   \* threads that may call task_tkill on themselves
    Waiters,       \* Waiters[e]: the threads whose code awaits event e
    Migrates,      \* a thread may change CPU between two reads (see Me)
    NULL, EMPTY, PLACEHOLDER,   \* 0, -1 and -2 in the tables
    NoThread, NoEvent, NoJob

NoCpu == -1
NoTask == -1

ASSUME SchedulerAssumption ==
    /\ Cpus \subseteq Nat /\ Cpus # {}
    /\ Procs \subseteq Nat /\ 0 \in Procs
    /\ ProcOf \in [Threads -> Procs]
    /\ MAX_TASKS \in Nat \ {0} /\ MAX_THREADS \in Nat \ {0} /\ MaxEvent \in Nat
    /\ Kmain \in Threads /\ ProcOf[Kmain] = 0
    /\ Urm \in Threads /\ ProcOf[Urm] = 0
    /\ Victims \subseteq {t \in Threads : ProcOf[t] # 0}
    /\ SelfKillers \subseteq Threads
    /\ Waiters \in [Events -> SUBSET Threads]
    /\ Migrates \in BOOLEAN
    /\ NULL \notin Threads /\ EMPTY \notin Threads /\ PLACEHOLDER \notin Threads
    /\ NULL # EMPTY /\ NULL # PLACEHOLDER /\ EMPTY # PLACEHOLDER
    /\ NoThread \notin Threads /\ NoEvent \notin Events

Slots == 0 .. MAX_TASKS - 1
Tids == 0 .. MAX_THREADS - 1
Entry == Threads \cup {NULL, EMPTY, PLACEHOLDER}

VARIABLES
    task_table,     \* [Slots -> Entry]
    threads,        \* threads[p][tid]: the thread table of each process
    task_count,
    task_id,        \* thread->task_id
    current_task,   \* cpu_locals[c].current_task
    aborting,       \* CPUs looping in force_resched without a thread, IF = 0
    cr3,            \* the process whose page map a CPU has loaded
    locked,         \* threads whose thread->lock is held
    active_on_cpu,  \* thread->active_on_cpu
    in_syscall,     \* threads with thread->in_syscall = 1
    event_abrt,     \* threads with thread->event_abrt = 1
    event_ptr,      \* thread->event_ptr
    asleep,         \* threads with yield_target > uptime_raw
    event,          \* the event counters
    taking,         \* the event an event_await has read nonzero and will decrement
    current_thread, \* local of event_await: the thread_t it takes for its own
    pc,             \* where each thread is in the operations below
    forced,         \* threads in the retry loop of force_resched, IF = 0
    creating,       \* locals of a task_tcreate under way
    killing,        \* locals of a task_tkill under way
    holder,         \* the thread holding scheduler_lock between steps
    ipi,            \* CPUs with IPI_ABORTEXEC sent and not acknowledged
    panicked        \* an exception in kernel mode has stopped the machine

tableVars  == <<task_table, threads, task_count, task_id>>
cpuVars    == <<current_task, aborting, cr3, locked, active_on_cpu>>
killVars   == <<killing, holder, ipi>>
vars == <<task_table, threads, task_count, task_id, current_task, aborting, cr3,
          locked, active_on_cpu, in_syscall, event_abrt, event_ptr, asleep,
          event, taking, current_thread, pc, forced, creating, killing, holder,
          ipi, panicked>>

(* "none": no thread_t; "new": allocated, not in the tables; "user": user mode;
   "enter": looping in enter_syscall; "sys": kernel code (a syscall's body, or
   any code of a kernel thread); "take": between the read and the decrement of
   event_await; "yield": event_ptr set, yield() not yet called; "awoken": back
   from that yield(); "bail": a syscall that only returns; "leave":
   leave_syscall past its release of scheduler_lock; "hlt": the final loop of
   syscall_exit; "create": task_tcreate past its reservation; "kill",
   "kill_retry", "kill_ipi": task_tkill with the lock, waiting for it, and
   spinning on the acknowledgement.                                         *)
PcValues == {"none", "new", "user", "enter", "sys", "take", "yield", "awoken",
             "bail", "leave", "hlt", "create", "kill", "kill_retry", "kill_ipi"}

CreateJobs == [new : Threads, tid : Tids, task : Slots]
KillJobs == [pid : Procs, tid : Tids, thread : Threads, cpu : Cpus \cup {NoCpu}]

TypeOK ==
    /\ task_table \in [Slots -> Entry]
    /\ threads \in [Procs -> [Tids -> Entry]]
    /\ task_count \in Int
    /\ task_id \in [Threads -> Slots]
    /\ current_task \in [Cpus -> Slots \cup {NoTask}]
    /\ aborting \subseteq Cpus
    /\ cr3 \in [Cpus -> Procs]
    /\ locked \subseteq Threads
    /\ active_on_cpu \in [Threads -> Cpus \cup {NoCpu}]
    /\ in_syscall \subseteq Threads
    /\ event_abrt \subseteq Threads
    /\ event_ptr \in [Threads -> Events \cup {NoEvent}]
    /\ asleep \subseteq Threads
    /\ event \in [Events -> Int]
    /\ taking \in [Threads -> Events \cup {NoEvent}]
    /\ current_thread \in [Threads -> Threads \cup {NoThread}]
    /\ pc \in [Threads -> PcValues]
    /\ forced \subseteq Threads
    /\ creating \in [Threads -> CreateJobs \cup {NoJob}]
    /\ killing \in [Threads -> KillJobs \cup {NoJob}]
    /\ holder \in Threads \cup {NoThread}
    /\ ipi \subseteq Cpus
    /\ panicked \in BOOLEAN

(***************************************************************************)
(* The CPUs wait in hlt, scheduler_lock has been released and kmain() has   *)
(* created the main kernel thread.                                          *)
(***************************************************************************)
Init ==
    /\ task_table = [s \in Slots |-> IF s = 0 THEN Kmain ELSE NULL]
    /\ threads = [p \in Procs |-> [i \in Tids |->
                     IF p = 0 /\ i = 0 THEN Kmain ELSE NULL]]
    /\ task_count = 1
    /\ task_id = [t \in Threads |-> 0]
    /\ current_task = [c \in Cpus |-> NoTask]
    /\ aborting = {}
    /\ cr3 = [c \in Cpus |-> 0]
    /\ locked = {}
    /\ active_on_cpu = [t \in Threads |-> NoCpu]
    /\ in_syscall = {} /\ event_abrt = {} /\ asleep = {} /\ forced = {}
    /\ event_ptr = [t \in Threads |-> NoEvent]
    /\ event = [e \in Events |-> 0]
    /\ taking = [t \in Threads |-> NoEvent]
    /\ current_thread = [t \in Threads |-> NoThread]
    /\ pc = [t \in Threads |-> IF t = Kmain THEN "sys" ELSE "none"]
    /\ creating = [t \in Threads |-> NoJob]
    /\ killing = [t \in Threads |-> NoJob]
    /\ holder = NoThread
    /\ ipi = {}
    /\ panicked = FALSE

-----------------------------------------------------------------------------
(***************************************************************************)
(* Who runs where.  A CPU identifies its thread by the slot current_task.   *)
(***************************************************************************)
Runs(c, t) ==
    /\ current_task[c] # NoTask
    /\ task_table[current_task[c]] = t
    /\ active_on_cpu[t] = c

(* t is executing its own code: on a CPU, not inside force_resched.         *)
Executing(t) ==
    /\ ~panicked
    /\ t \notin forced
    /\ \E c \in Cpus : Runs(c, t)

(* spinlock_acquire(&scheduler_lock) succeeds.                              *)
LockFree == holder = NoThread

IsKernel(t) == ProcOf[t] = 0

(* t reads CURRENT_TASK without scheduler_lock and gets u.  The macro reads
   the number of the CPU and then that CPU's current_task: when t is moved to
   another CPU in between, it gets the thread its old CPU now runs ...       *)
Me(t, u) ==
    \/ u = t
    \/ Migrates /\ \E c \in Cpus : Runs(c, u)

(* ... or, if that CPU runs none, a null pointer: an address the kernel's
   page map has (low memory) and a process's has not (a page fault).         *)
MeNull == Migrates /\ \E c \in Cpus : current_task[c] = NoTask

-----------------------------------------------------------------------------
(***************************************************************************)
(* task_get_next and task_resched                                           *)
(***************************************************************************)

(* Mutants of Blocked: off by one; no exemption for an aborted thread.      *)
Blocked_BelowZero(t) ==
    event_ptr[t] # NoEvent /\ t \notin event_abrt /\ event[event_ptr[t]] < 0
Blocked_IgnoresAbort(t) ==
    event_ptr[t] # NoEvent /\ event[event_ptr[t]] = 0

(* t waits for an event that has no token, and is not being aborted.        *)
Blocked(t) ==
    /\ event_ptr[t] # NoEvent
    /\ t \notin event_abrt
    /\ event[event_ptr[t]] = 0

(* Mutant of Eligible: the thread's lock is not tested.                     *)
Eligible_IgnoresLock(s, held) ==
    LET t == task_table[s] IN
    t \in Threads /\ t \notin asleep /\ ~Blocked(t)

(* The entry at slot s passes every test of the scan, `held' being the
   threads whose lock is taken.                                             *)
Eligible(s, held) ==
    LET t == task_table[s] IN
    /\ t \in Threads
    /\ t \notin asleep
    /\ t \notin held
    /\ ~Blocked(t)

(* Mutant of Ahead: every scan starts at slot 0.                            *)
Ahead_FromZero(from, s) == s

(* How far slot s lies ahead in a scan that starts behind slot `from'.      *)
Ahead(from, s) == IF s > from THEN s - from ELSE s - from + MAX_TASKS

(* task_get_next(from) returns s: the first eligible entry of the circular
   scan.  The loop visits every thread once: that rests on task_count being
   the number of threads and on NULL entries only following used ones
   (TaskCountExact and TableDense below; ScanFindsNearest compares the loop). *)
task_get_next(from, held, s) ==
    /\ Eligible(s, held)
    /\ \A r \in Slots : Eligible(r, held) /\ r # s => Ahead(from, s) < Ahead(from, r)

(* Mutant of Visited: every entry counts as visited.                         *)
Visited_Skipped(n, s) == n + 1

(* EMPTY and placeholder entries are skipped without being counted.          *)
Visited(n, s) == IF task_table[s] \in Threads THEN n + 1 ELSE n

(* The loop itself: an iteration looks at a slot, after rewinding to 0 at a
   NULL entry or behind the table, and returns it or goes on.                *)
Iterate(loop, held) ==
    LET s == IF loop.at = MAX_TASKS THEN 0 ELSE IF task_table[loop.at] = NULL THEN 0 ELSE loop.at
    IN  IF Eligible(s, held) THEN [loop EXCEPT !.found = s]
        ELSE [loop EXCEPT !.at = IF s + 1 = MAX_TASKS THEN 0 ELSE s + 1, !.visited = Visited(@, s)]

Ended(loop) == loop.found # NoTask \/ loop.visited >= task_count

(* The loop after at most MAX_TASKS iterations.                              *)
Scanned(from, held) ==
    LET scan[k \in 0 .. MAX_TASKS] ==
            IF k = 0 THEN [at |-> from + 1, visited |-> 0, found |-> NoTask]
            ELSE IF Ended(scan[k - 1]) THEN scan[k - 1] ELSE Iterate(scan[k - 1], held)
    IN  scan[MAX_TASKS]

(* The thread that CPU c gives up, if it has one.                           *)
Outgoing(c) == IF current_task[c] = NoTask THEN {} ELSE {task_table[current_task[c]]}

(* Mutant of HeldWithout: the outgoing thread's lock is not released.       *)
HeldWithout_KeepsLock(c) == locked

(* What is held once the outgoing thread's lock is released.                *)
HeldWithout(c) == locked \ Outgoing(c)

Deactivate(c, t) == IF t \in Outgoing(c) THEN NoCpu ELSE active_on_cpu[t]

(* task_resched is entered by a tick or IPI_RESCHED when interrupts are on,
   and by the retry loop of force_resched; with scheduler_lock taken it
   returns at once.  The slot of the running thread must hold a thread_t.   *)
CanResched(c) ==
    /\ ~panicked
    /\ LockFree
    /\ Outgoing(c) \subseteq Threads

(* Mutant of NextCr3: a CPU without a last thread keeps its page map.        *)
NextCr3_IdleKeeps(c, t) ==
    IF \A u \in Outgoing(c) : ProcOf[u] = ProcOf[t] THEN cr3[c] ELSE ProcOf[t]

(* The page map is switched unless the last thread of this CPU belongs to
   the same process.  With no last thread the code reads task_table[-1],
   which is a null pointer in the zeroed header page of the allocation, and
   compares the pid with what lies at address 8: an interrupt vector, never
   a pid.                                                                    *)
NextCr3(c, t) ==
    IF \E u \in Outgoing(c) : ProcOf[u] = ProcOf[t] THEN cr3[c] ELSE ProcOf[t]

(* task_resched picks slot s for CPU c.  A thread whose event is nonzero
   takes one token and forgets the event; an aborted one keeps its pointer. *)
Dispatch(c, s) ==
    LET t == task_table[s]
        takes == event_ptr[t] # NoEvent /\ t \notin event_abrt
    IN
    /\ CanResched(c)
    /\ task_get_next(current_task[c], HeldWithout(c), s)
    /\ current_task' = [current_task EXCEPT ![c] = s]
    /\ locked' = HeldWithout(c) \cup {t}
    /\ active_on_cpu' = [u \in Threads |-> IF u = t THEN c ELSE Deactivate(c, u)]
    /\ cr3' = [cr3 EXCEPT ![c] = NextCr3(c, t)]
    /\ event' = IF takes THEN [event EXCEPT ![event_ptr[t]] = @ - 1] ELSE event
    /\ event_ptr' = IF takes THEN [event_ptr EXCEPT ![t] = NoEvent] ELSE event_ptr
    /\ aborting' = aborting \ {c}
    /\ forced' = forced \ Outgoing(c)
    /\ UNCHANGED <<tableVars, killVars, in_syscall, event_abrt, asleep, taking, current_thread,
                   pc, creating, panicked>>

(* No entry is eligible: idle() loads the kernel page map and halts.        *)
GoIdle(c) ==
    /\ CanResched(c)
    /\ \A s \in Slots : ~Eligible(s, HeldWithout(c))
    /\ current_task' = [current_task EXCEPT ![c] = NoTask]
    /\ locked' = HeldWithout(c)
    /\ active_on_cpu' = [u \in Threads |-> Deactivate(c, u)]
    /\ cr3' = [cr3 EXCEPT ![c] = 0]
    /\ aborting' = aborting \ {c}
    /\ forced' = forced \ Outgoing(c)
    /\ UNCHANGED <<tableVars, killVars, in_syscall, event_abrt, event_ptr, asleep,
                   event, taking, current_thread, pc, creating, panicked>>

(* The slot of the thread to save holds no thread_t any more: the store to
   current_thread->active_on_cpu goes through the pointer -1 or -2.       *)
ReschedFault(c) ==
    /\ ~panicked /\ LockFree
    /\ ~(Outgoing(c) \subseteq Threads)
    /\ panicked' = TRUE
    /\ UNCHANGED <<tableVars, cpuVars, killVars, in_syscall, event_abrt, event_ptr,
                   asleep, event, taking, current_thread, pc, forced, creating>>

(* The scan starts behind the last slot, where the code reads task_table
   past its end before any bound is checked.  A null there rewinds the scan
   (Dispatch, GoIdle); anything else is taken for a thread_t.               *)
ScanPastEnd(c) ==
    /\ CanResched(c)
    /\ current_task[c] = MAX_TASKS - 1
    /\ task_count > 0
    /\ panicked' = TRUE
    /\ UNCHANGED <<tableVars, cpuVars, killVars, in_syscall, event_abrt, event_ptr,
                   asleep, event, taking, current_thread, pc, forced, creating>>

task_resched(c) == GoIdle(c) \/ ReschedFault(c) \/ \E s \in Slots : Dispatch(c, s)

-----------------------------------------------------------------------------
(***************************************************************************)
(* Events and sleeping                                                      *)
(***************************************************************************)

(* event_trigger, from any thread or interrupt handler.                     *)
event_trigger(e) ==
    /\ ~panicked
    /\ event[e] < MaxEvent
    /\ event' = [event EXCEPT ![e] = @ + 1]
    /\ UNCHANGED <<tableVars, cpuVars, killVars, in_syscall, event_abrt, event_ptr,
                   asleep, taking, current_thread, pc, forced, creating, panicked>>

(* event_await reads a nonzero counter; the decrement is a later step.      *)
AwaitSeen(t, e) ==
    /\ Executing(t) /\ pc[t] = "sys" /\ t \in Waiters[e]
    /\ event[e] # 0 /\ event[e] > -MaxEvent
    /\ taking' = [taking EXCEPT ![t] = e]
    /\ pc' = [pc EXCEPT ![t] = "take"]
    /\ UNCHANGED <<tableVars, cpuVars, killVars, in_syscall, event_abrt, event_ptr,
                   asleep, event, current_thread, forced, creating, panicked>>

AwaitTake(t) ==
    /\ Executing(t) /\ pc[t] = "take"
    /\ event' = [event EXCEPT ![taking[t]] = @ - 1]
    /\ taking' = [taking EXCEPT ![t] = NoEvent]
    /\ pc' = [pc EXCEPT ![t] = "sys"]
    /\ UNCHANGED <<tableVars, cpuVars, killVars, in_syscall, event_abrt, event_ptr,
                   asleep, current_thread, forced, creating, panicked>>

(* event_await reads zero and publishes the event it waits for.             *)
AwaitBlock(t, e, u) ==
    /\ Executing(t) /\ pc[t] = "sys" /\ t \in Waiters[e]
    /\ event[e] = 0 /\ Me(t, u)
    /\ event_ptr' = [event_ptr EXCEPT ![u] = e]
    /\ current_thread' = [current_thread EXCEPT ![t] = u]
    /\ pc' = [pc EXCEPT ![t] = "yield"]
    /\ UNCHANGED <<tableVars, cpuVars, killVars, in_syscall, event_abrt, asleep,
                   event, taking, forced, creating, panicked>>

(* It takes a null pointer for its thread_t.                                 *)
AwaitNull(t, e) ==
    /\ Executing(t) /\ pc[t] = "sys" /\ t \in Waiters[e]
    /\ event[e] = 0 /\ MeNull
    /\ panicked' = ~IsKernel(t)
    /\ current_thread' = [current_thread EXCEPT ![t] = NoThread]
    /\ pc' = [pc EXCEPT ![t] = "yield"]
    /\ UNCHANGED <<tableVars, cpuVars, killVars, in_syscall, event_abrt, event_ptr,
                   asleep, event, taking, forced, creating>>

(* yield: acquire scheduler_lock, mask interrupts, release it and enter the
   retry loop of force_resched.  The thread goes on at `next' when some CPU
   dispatches it again.                                                      *)
force_resched(t, next) ==
    /\ forced' = forced \cup {t}
    /\ pc' = [pc EXCEPT ![t] = next]

AwaitYield(t) ==
    /\ Executing(t) /\ pc[t] = "yield" /\ LockFree
    /\ force_resched(t, "awoken")
    /\ UNCHANGED <<tableVars, cpuVars, killVars, in_syscall, event_abrt, event_ptr,
                   asleep, event, taking, current_thread, creating, panicked>>

(* Back from yield(): event_await returns 0, or -1 when the thread is being
   aborted.  The request monitor ignores the result, waitpid and the pipe
   leave the kernel with EINTR, and execve only returns once it has given up
   in_syscall.                                                               *)
Awoken(t) ==
    LET stop == current_thread[t] \in event_abrt \/ t \notin in_syscall IN
    /\ Executing(t) /\ pc[t] = "awoken"
    /\ pc' = [pc EXCEPT ![t] = IF stop /\ ~IsKernel(t) THEN "bail" ELSE "sys"]
    /\ UNCHANGED <<tableVars, cpuVars, killVars, in_syscall, event_abrt, event_ptr,
                   asleep, event, taking, current_thread, forced, creating, panicked>>

(* syscall_execve gives up in_syscall and awaits the error event again: it
   blocks, or finds the event triggered and returns.                         *)
ExecveAborted(t, e, u) ==
    /\ Executing(t) /\ pc[t] = "awoken" /\ ~IsKernel(t) /\ t \in Waiters[e]
    /\ current_thread[t] \in event_abrt
    /\ in_syscall' = in_syscall \ {t}
    /\ \/ /\ event[e] = 0 /\ Me(t, u)
          /\ event_ptr' = [event_ptr EXCEPT ![u] = e]
          /\ current_thread' = [current_thread EXCEPT ![t] = u]
          /\ pc' = [pc EXCEPT ![t] = "yield"]
          /\ UNCHANGED event
       \/ /\ event[e] # 0 /\ event[e] > -MaxEvent /\ u = t
          /\ event' = [event EXCEPT ![e] = @ - 1]
          /\ pc' = [pc EXCEPT ![t] = "bail"]
          /\ UNCHANGED <<event_ptr, current_thread>>
    /\ UNCHANGED <<tableVars, cpuVars, killVars, event_abrt, asleep, taking,
                   forced, creating, panicked>>

(* relaxed_sleep, called by the kernel's worker threads.                    *)
relaxed_sleep(t) ==
    /\ Executing(t) /\ pc[t] = "sys" /\ IsKernel(t) /\ LockFree
    /\ asleep' = asleep \cup {t}
    /\ force_resched(t, "sys")
    /\ UNCHANGED <<tableVars, cpuVars, killVars, in_syscall, event_abrt, event_ptr,
                   event, taking, current_thread, creating, panicked>>

(* uptime_raw reaches the thread's yield_target.                            *)
SleepOver(t) ==
    /\ ~panicked /\ t \in asleep
    /\ asleep' = asleep \ {t}
    /\ UNCHANGED <<tableVars, cpuVars, killVars, in_syscall, event_abrt, event_ptr,
                   event, taking, current_thread, pc, forced, creating, panicked>>

-----------------------------------------------------------------------------
(***************************************************************************)
(* The syscall boundary                                                     *)
(***************************************************************************)

(* Mutant of enter_syscall: scheduler_lock is not taken.                    *)
enter_syscall_Unlocked(t) ==
    /\ Executing(t) /\ pc[t] \in {"user", "enter"}
    /\ in_syscall' = in_syscall \cup {t}
    /\ pc' = [pc EXCEPT ![t] = "sys"]
    /\ UNCHANGED <<tableVars, cpuVars, killVars, event_abrt, event_ptr, asleep,
                   event, taking, current_thread, forced, creating, panicked>>

enter_syscall(t) ==
    /\ Executing(t) /\ pc[t] \in {"user", "enter"} /\ LockFree
    /\ t \notin event_abrt
    /\ in_syscall' = in_syscall \cup {t}
    /\ pc' = [pc EXCEPT ![t] = "sys"]
    /\ UNCHANGED <<tableVars, cpuVars, killVars, event_abrt, event_ptr, asleep,
                   event, taking, current_thread, forced, creating, panicked>>

(* A thread that is being aborted yields instead, as often as it is run.    *)
EnterAborted(t) ==
    /\ Executing(t) /\ pc[t] \in {"user", "enter"} /\ LockFree
    /\ t \in event_abrt
    /\ force_resched(t, "enter")
    /\ UNCHANGED <<tableVars, cpuVars, killVars, in_syscall, event_abrt, event_ptr,
                   asleep, event, taking, current_thread, creating, panicked>>

leave_syscall(t) ==
    /\ Executing(t) /\ pc[t] \in {"sys", "bail"} /\ ~IsKernel(t) /\ LockFree
    /\ pc' = [pc EXCEPT ![t] = "leave"]
    /\ UNCHANGED <<tableVars, cpuVars, killVars, in_syscall, event_abrt, event_ptr,
                   asleep, event, taking, current_thread, forced, creating, panicked>>

(* The mark is cleared through a pointer taken under the lock, after the
   lock is released.                                                         *)
LeaveDone(t) ==
    /\ Executing(t) /\ pc[t] = "leave"
    /\ in_syscall' = in_syscall \ {t}
    /\ pc' = [pc EXCEPT ![t] = "user"]
    /\ UNCHANGED <<tableVars, cpuVars, killVars, event_abrt, event_ptr, asleep,
                   event, taking, current_thread, forced, creating, panicked>>

(* syscall_exit, after its request is queued: halt until killed.            *)
syscall_exit(t, u) ==
    /\ Executing(t) /\ pc[t] = "sys" /\ ~IsKernel(t) /\ Me(t, u)
    /\ in_syscall' = in_syscall \ {u}
    /\ pc' = [pc EXCEPT ![t] = "hlt"]
    /\ UNCHANGED <<tableVars, cpuVars, killVars, event_abrt, event_ptr, asleep,
                   event, taking, current_thread, forced, creating, panicked>>

ExitNull(t) ==
    /\ Executing(t) /\ pc[t] = "sys" /\ ~IsKernel(t) /\ MeNull
    /\ panicked' = TRUE
    /\ UNCHANGED <<tableVars, cpuVars, killVars, in_syscall, event_abrt, event_ptr,
                   asleep, event, taking, current_thread, pc, forced, creating>>

-----------------------------------------------------------------------------
(***************************************************************************)
(* task_tcreate and the thread part of syscall_fork                         *)
(***************************************************************************)

(* Mutant of IsFree: a reserved entry is taken for a free one.              *)
IsFree_Reserved(x) == x \notin Threads

IsFree(x) == x \in {NULL, EMPTY}

(* i is the first free index of a table.                                    *)
FirstFree(table, i) ==
    /\ i \in DOMAIN table
    /\ IsFree(table[i])
    /\ \A j \in DOMAIN table : j < i => ~IsFree(table[j])

(* First critical section: both slots are reserved for the new thread n.    *)
TcreateReserve(t, n, i, s) ==
    LET p == ProcOf[n] IN
    /\ Executing(t) /\ pc[t] = "sys" /\ LockFree /\ pc[n] = "none"
    /\ FirstFree(threads[p], i)
    /\ FirstFree(task_table, s)
    /\ threads' = [threads EXCEPT ![p][i] = PLACEHOLDER]
    /\ task_table' = [task_table EXCEPT ![s] = PLACEHOLDER]
    /\ creating' = [creating EXCEPT ![t] = [new |-> n, tid |-> i, task |-> s]]
    /\ pc' = [pc EXCEPT ![t] = "create", ![n] = "new"]
    /\ UNCHANGED <<cpuVars, killVars, task_count, task_id, in_syscall, event_abrt,
                   event_ptr, asleep, event, taking, current_thread, forced, panicked>>

(* No task slot is free: the thread id is given back, as EMPTY.             *)
TcreateNoSlot(t, n, i) ==
    LET p == ProcOf[n] IN
    /\ Executing(t) /\ pc[t] = "sys" /\ LockFree /\ pc[n] = "none"
    /\ FirstFree(threads[p], i)
    /\ \A s \in Slots : ~IsFree(task_table[s])
    /\ threads' = [threads EXCEPT ![p][i] = EMPTY]
    /\ UNCHANGED <<cpuVars, killVars, task_table, task_count, task_id, in_syscall,
                   event_abrt, event_ptr, asleep, event, taking, current_thread, pc, forced,
                   creating, panicked>>

(* Mutant of TcreateFail: the thread id is used as the task id.             *)
TcreateFail_TidAsTask(t) ==
    LET j == creating[t] IN
    /\ Executing(t) /\ pc[t] = "create" /\ LockFree
    /\ threads' = [threads EXCEPT ![ProcOf[j.new]][j.tid] = EMPTY]
    /\ task_table' = [task_table EXCEPT ![j.tid] = EMPTY]
    /\ creating' = [creating EXCEPT ![t] = NoJob]
    /\ pc' = [pc EXCEPT ![t] = "sys", ![j.new] = "none"]
    /\ UNCHANGED <<cpuVars, killVars, task_count, task_id, in_syscall, event_abrt,
                   event_ptr, asleep, event, taking, current_thread, forced, panicked>>

(* An allocation between the two critical sections fails.                   *)
TcreateFail(t) ==
    LET j == creating[t] IN
    /\ Executing(t) /\ pc[t] = "create" /\ LockFree
    /\ threads' = [threads EXCEPT ![ProcOf[j.new]][j.tid] = EMPTY]
    /\ task_table' = [task_table EXCEPT ![j.task] = EMPTY]
    /\ creating' = [creating EXCEPT ![t] = NoJob]
    /\ pc' = [pc EXCEPT ![t] = "sys", ![j.new] = "none"]
    /\ UNCHANGED <<cpuVars, killVars, task_count, task_id, in_syscall, event_abrt,
                   event_ptr, asleep, event, taking, current_thread, forced, panicked>>

(* Mutant of FreshTaskId: the thread keeps the task id of its predecessor.   *)
FreshTaskId_Unset(n, s) == task_id

(* Zeroed memory is an acquired lock: it is released before publication.    *)
FreshLock(n) == locked \ {n}

FreshTaskId(n, s) == [task_id EXCEPT ![n] = s]

(* A thread_t as task_tcreate and syscall_fork leave it: zeroed memory, its
   lock released, on no CPU.                                                *)
FreshThread(n, s) ==
    /\ task_id' = FreshTaskId(n, s)
    /\ locked' = FreshLock(n)
    /\ active_on_cpu' = [active_on_cpu EXCEPT ![n] = NoCpu]
    /\ in_syscall' = in_syscall \ {n}
    /\ event_abrt' = event_abrt \ {n}
    /\ event_ptr' = [event_ptr EXCEPT ![n] = NoEvent]
    /\ asleep' = asleep \ {n}
    /\ taking' = [taking EXCEPT ![n] = NoEvent]
    /\ current_thread' = [current_thread EXCEPT ![n] = NoThread]
    /\ forced' = forced \ {n}

(* Second critical section: the thread becomes visible to the scheduler.    *)
TcreatePublish(t) ==
    LET j == creating[t] IN
    /\ Executing(t) /\ pc[t] = "create" /\ LockFree
    /\ threads' = [threads EXCEPT ![ProcOf[j.new]][j.tid] = j.new]
    /\ task_table' = [task_table EXCEPT ![j.task] = j.new]
    /\ task_count' = task_count + 1
    /\ FreshThread(j.new, j.task)
    /\ creating' = [creating EXCEPT ![t] = NoJob]
    /\ pc' = [pc EXCEPT ![t] = "sys",
                        ![j.new] = IF IsKernel(j.new) THEN "sys" ELSE "user"]
    /\ UNCHANGED <<killVars, current_task, aborting, cr3, event, panicked>>

(* syscall_fork: the child process is new, so its thread table is zeroed;
   its thread 0 is entered in both tables in one critical section.  The code
   does not handle a full task_table.                                        *)
syscall_fork(t, n, s) ==
    LET p == ProcOf[n] IN
    /\ Executing(t) /\ pc[t] = "sys" /\ LockFree /\ pc[n] = "none"
    /\ ~IsKernel(t) /\ ~IsKernel(n) /\ p # ProcOf[t]
    /\ \A i \in Tids : IsFree(threads[p][i])
    /\ FirstFree(task_table, s)
    /\ threads' = [threads EXCEPT ![p] = [i \in Tids |-> IF i = 0 THEN n ELSE NULL]]
    /\ task_table' = [task_table EXCEPT ![s] = n]
    /\ task_count' = task_count + 1
    /\ FreshThread(n, s)
    /\ pc' = [pc EXCEPT ![n] = "user"]
    /\ UNCHANGED <<killVars, current_task, aborting, cr3, event, creating, panicked>>

-----------------------------------------------------------------------------
(***************************************************************************)
(* task_tkill and abort_thread_exec                                         *)
(***************************************************************************)

(* The request monitor kills the threads of other processes; kmain and the
   return from a signal kill (CURRENT_PROCESS, CURRENT_THREAD), taken to be
   read on one CPU.                                                          *)
MayKill(k, v) ==
    \/ k = Urm /\ v \in Victims
    \/ k \in SelfKillers /\ Me(k, v)

(* The lock is taken, the CPU of the victim is read, once, and the victim's
   event_abrt is set.  (An empty slot makes the call return -1 unchanged.)  *)
KillBegin(k, v, i) ==
    /\ Executing(k) /\ pc[k] = "sys" /\ LockFree
    /\ MayKill(k, v) /\ threads[ProcOf[v]][i] = v
    /\ event_abrt' = event_abrt \cup {v}
    /\ killing' = [killing EXCEPT ![k] = [pid |-> ProcOf[v], tid |-> i,
                                          thread |-> v, cpu |-> active_on_cpu[v]]]
    /\ holder' = k
    /\ pc' = [pc EXCEPT ![k] = "kill"]
    /\ UNCHANGED <<tableVars, cpuVars, ipi, in_syscall, event_ptr, asleep, event,
                   taking, current_thread, forced, creating, panicked>>

(* The victim is in a syscall: give the CPU away and look again.            *)
KillWait(k) ==
    /\ Executing(k) /\ pc[k] = "kill"
    /\ killing[k].thread \in in_syscall
    /\ holder' = NoThread
    /\ force_resched(k, "kill_retry")
    /\ UNCHANGED <<tableVars, cpuVars, killing, ipi, in_syscall, event_abrt,
                   event_ptr, asleep, event, taking, current_thread, creating, panicked>>

KillRetry(k) ==
    /\ Executing(k) /\ pc[k] = "kill_retry" /\ LockFree
    /\ holder' = k
    /\ pc' = [pc EXCEPT ![k] = "kill"]
    /\ UNCHANGED <<tableVars, cpuVars, killing, ipi, in_syscall, event_abrt,
                   event_ptr, asleep, event, taking, current_thread, forced, creating, panicked>>

(* Mutant of OtherCpu: -1 is taken for a CPU.                               *)
OtherCpu_AnyNumber(c, k) == c # active_on_cpu[k]

OtherCpu(c, k) == c # NoCpu /\ c # active_on_cpu[k]

(* The CPU recorded at the start is another one: interrupt it.              *)
KillSendIpi(k) ==
    LET j == killing[k] IN
    /\ Executing(k) /\ pc[k] = "kill"
    /\ j.thread \notin in_syscall
    /\ OtherCpu(j.cpu, k)
    /\ ipi' = ipi \cup {j.cpu}
    /\ pc' = [pc EXCEPT ![k] = "kill_ipi"]
    /\ UNCHANGED <<tableVars, cpuVars, killing, holder, in_syscall, event_abrt,
                   event_ptr, asleep, event, taking, current_thread, forced, creating, panicked>>

(* CPU c has interrupts masked: in the retry loop of force_resched, with or
   without a thread.                                                        *)
Masked(c) == c \in aborting \/ \E t \in forced : Runs(c, t)

(* IPI_ABORTEXEC: abort_thread_exec drops whatever c was running, loads the
   kernel page map, acknowledges and yields.                                *)
ipi_abortexec(c) ==
    /\ ~panicked /\ c \in ipi /\ ~Masked(c)
    /\ current_task' = [current_task EXCEPT ![c] = NoTask]
    /\ cr3' = [cr3 EXCEPT ![c] = 0]
    /\ aborting' = aborting \cup {c}
    /\ ipi' = ipi \ {c}
    /\ UNCHANGED <<tableVars, locked, active_on_cpu, killing, holder, in_syscall,
                   event_abrt, event_ptr, asleep, event, taking, current_thread, pc, forced,
                   creating, panicked>>

(* Mutant of KillReady: the syscall of the victim is not waited for.        *)
KillReady_NoWait(k) ==
    \/ pc[k] = "kill" /\ ~OtherCpu(killing[k].cpu, k)
    \/ pc[k] = "kill_ipi" /\ killing[k].cpu \notin ipi

(* The victim is believed stopped.                                          *)
KillReady(k) ==
    LET j == killing[k] IN
    \/ /\ pc[k] = "kill" /\ j.thread \notin in_syscall
       /\ ~OtherCpu(j.cpu, k)
    \/ pc[k] = "kill_ipi" /\ j.cpu \notin ipi

(* Mutants of ForgetThread *)
ForgetThread_KeepsCount(p, i, v) ==
    /\ task_table' = [task_table EXCEPT ![task_id[v]] = EMPTY]
    /\ threads' = [threads EXCEPT ![p][i] = EMPTY]
    /\ UNCHANGED task_count
ForgetThread_Null(p, i, v) ==
    /\ task_table' = [task_table EXCEPT ![task_id[v]] = NULL]
    /\ threads' = [threads EXCEPT ![p][i] = EMPTY]
    /\ task_count' = task_count - 1

(* Thread v leaves both tables.                                             *)
ForgetThread(p, i, v) ==
    /\ task_table' = [task_table EXCEPT ![task_id[v]] = EMPTY]
    /\ threads' = [threads EXCEPT ![p][i] = EMPTY]
    /\ task_count' = task_count - 1

(* The thread in the victim's slot leaves both tables and is freed.  When the
   recorded CPU is the killer's own, the killer takes itself for the victim
   and its CPU drops it (abort_thread_exec(0)).  The entry is read again; it
   still holds a thread (VictimStays).                                       *)
KillFinish(k) ==
    LET j == killing[k]
        v == threads[j.pid][j.tid]
        c == active_on_cpu[k]
        own == j.cpu = c
    IN
    /\ Executing(k) /\ KillReady(k)
    /\ v \in Threads
    /\ ForgetThread(j.pid, j.tid, v)
    /\ current_task' = IF own THEN [current_task EXCEPT ![c] = NoTask] ELSE current_task
    /\ cr3' = IF own THEN [cr3 EXCEPT ![c] = 0] ELSE cr3
    /\ aborting' = IF own THEN aborting \cup {c} ELSE aborting
    /\ pc' = [[pc EXCEPT ![k] = "sys"] EXCEPT ![v] = "none"]
    /\ killing' = [killing EXCEPT ![k] = NoJob]
    /\ holder' = NoThread
    /\ UNCHANGED <<task_id, locked, active_on_cpu, ipi, in_syscall, event_abrt,
                   event_ptr, asleep, event, taking, current_thread, forced, creating, panicked>>

-----------------------------------------------------------------------------
ThreadStep(t) ==
    \/ \E e \in Events : AwaitSeen(t, e) \/ AwaitNull(t, e)
    \/ \E e \in Events, u \in Threads : AwaitBlock(t, e, u) \/ ExecveAborted(t, e, u)
    \/ AwaitTake(t) \/ AwaitYield(t) \/ Awoken(t) \/ relaxed_sleep(t)
    \/ enter_syscall(t) \/ EnterAborted(t) \/ leave_syscall(t) \/ LeaveDone(t)
    \/ ExitNull(t) \/ \E u \in Threads : syscall_exit(t, u)
    \/ \E n \in Threads, i \in Tids :
          TcreateNoSlot(t, n, i) \/ \E s \in Slots : TcreateReserve(t, n, i, s)
    \/ \E n \in Threads, s \in Slots : syscall_fork(t, n, s)
    \/ TcreateFail(t) \/ TcreatePublish(t)
    \/ \E v \in Threads, i \in Tids : KillBegin(t, v, i)
    \/ KillWait(t) \/ KillRetry(t) \/ KillSendIpi(t) \/ KillFinish(t)

Next ==
    \/ \E t \in Threads : ThreadStep(t) \/ SleepOver(t)
    \/ \E c \in Cpus : task_resched(c) \/ ScanPastEnd(c) \/ ipi_abortexec(c)
    \/ \E e \in Events : event_trigger(e)

Spec == Init /\ [][Next]_vars

-----------------------------------------------------------------------------
(***************************************************************************)
(* Properties of the tables                                                 *)
(***************************************************************************)

(* The loop of task_get_next ends within one round of the table, and what it
   returns is the eligible thread nearest ahead of the one that was running,
   wrapping around, or -1 if none is eligible, whatever kills, failed
   creations and reservations have left in the table.                        *)
ScanFindsNearest ==
    \A c \in Cpus : CanResched(c) =>
        LET loop == Scanned(current_task[c], HeldWithout(c))
        IN  /\ Ended(loop)
            /\ IF loop.found = NoTask THEN \A s \in Slots : ~Eligible(s, HeldWithout(c))
               ELSE task_get_next(current_task[c], HeldWithout(c), loop.found)

(* task_count is the number of threads in task_table at every step of every
   creation, failure, fork and kill.  task_get_next counts visited threads
   against it and skips other entries for free, so a count too high spins
   forever under scheduler_lock and one too low starves the last threads.    *)
TaskCountExact ==
    task_count = Cardinality({s \in Slots : task_table[s] \in Threads})

(* Behind a NULL entry of task_table there are only NULL entries: creation
   takes the first free slot and failure and kill leave EMPTY, never NULL.
   task_get_next rewinds at the first NULL and would never see what follows. *)
TableDense ==
    \A s \in Slots : task_table[s] = NULL => \A r \in Slots : r > s => task_table[r] = NULL

(* task_table and the per-process thread tables list the same threads, each
   once, and thread->task_id leads back to the slot, across reservations,
   failed creations, forks and kills of several processes.                   *)
TablesAgree ==
    /\ \A s \in Slots : task_table[s] \in Threads =>
          /\ task_id[task_table[s]] = s
          /\ \E i \in Tids : threads[ProcOf[task_table[s]]][i] = task_table[s]
    /\ \A p \in Procs, i \in Tids : threads[p][i] \in Threads =>
          /\ ProcOf[threads[p][i]] = p
          /\ task_table[task_id[threads[p][i]]] = threads[p][i]
          /\ \A j \in Tids : threads[p][j] = threads[p][i] => j = i

(* Every reserved entry belongs to exactly one task_tcreate that is still
   under way, and each such call still owns both entries it reserved: two
   creators never share a slot, and no slot stays reserved for ever.         *)
PlaceholdersOwned ==
    /\ \A s \in Slots : task_table[s] = PLACEHOLDER =>
          \E t \in Threads : pc[t] = "create" /\ creating[t].task = s
    /\ \A p \in Procs, i \in Tids : threads[p][i] = PLACEHOLDER =>
          \E t \in Threads : /\ pc[t] = "create" /\ creating[t].tid = i
                            /\ ProcOf[creating[t].new] = p
    /\ \A t \in Threads : pc[t] = "create" =>
          /\ task_table[creating[t].task] = PLACEHOLDER
          /\ threads[ProcOf[creating[t].new]][creating[t].tid] = PLACEHOLDER
          /\ \A u \in Threads : pc[u] = "create" /\ creating[u].task = creating[t].task
                                  => u = t

(* While task_tkill gives the CPU away to let its victim leave a syscall, the
   victim's entry stays: the code reads it again afterwards, unchecked, to
   find the task id to clear and the memory to free.                         *)
VictimStays ==
    \A k \in Threads : pc[k] \in {"kill", "kill_retry", "kill_ipi"} =>
        threads[killing[k].pid][killing[k].tid] = killing[k].thread

(***************************************************************************)
(* Properties of the CPUs                                                   *)
(***************************************************************************)

(* What a CPU believes to run is a live thread whose lock it holds and which
   names this CPU: so no thread runs on two CPUs, and none runs after
   task_tkill has freed it.                                                  *)
RunsOnlyLive ==
    ~panicked =>
    \A c \in Cpus : current_task[c] # NoTask =>
        LET t == task_table[current_task[c]] IN
        t \in Threads /\ t \in locked /\ active_on_cpu[t] = c

(* The lock of a thread in the table is held only while a CPU runs it: a lock
   left behind would keep the thread from ever being scheduled again.        *)
NoLockLeaked ==
    \A s \in Slots : task_table[s] \in locked =>
        \E c \in Cpus : current_task[c] = s

(* A CPU runs a thread on the page map of its own process, although
   task_resched skips the switch when the previous thread was of the same
   process.                                                                  *)
OwnAddressSpace ==
    ~panicked =>
    \A c \in Cpus, t \in Threads : Runs(c, t) => cr3[c] = ProcOf[t]

(* An event awaited by one thread never goes below zero, although the read
   and the decrement of event_await are two steps and the scheduler takes
   tokens as well: a negative counter would let awaits through untriggered.  *)
NoPhantomToken ==
    \A e \in Events : (\A t, u \in Waiters[e] : t = u) => event[e] >= 0

(* task_tkill frees no thread that is inside a syscall, although in_syscall
   was read before the acknowledgement of another CPU was awaited: a thread
   freed there would take the locks it holds with it.                        *)
NeverFreedInSyscall ==
    [][\A t \in Threads : pc[t] # "none" /\ pc'[t] = "none" => t \notin in_syscall]_vars

(***************************************************************************)
(* Liveness                                                                 *)
(***************************************************************************)

(* What a thread does next by itself, having no choice to stay where it is. *)
Continue(t) ==
    \/ AwaitTake(t) \/ AwaitYield(t) \/ Awoken(t) \/ EnterAborted(t)
    \/ LeaveDone(t) \/ \E e \in Events, u \in Threads : ExecveAborted(t, e, u)
    \/ TcreateFail(t) \/ TcreatePublish(t)
    \/ KillWait(t) \/ KillRetry(t) \/ KillSendIpi(t) \/ KillFinish(t)

(* Ticks and the retry loop keep calling task_resched, and do not find
   scheduler_lock taken every single time; a thread that is run again and
   again gets on with its code, and a syscall's body ends; an interrupt that
   can be taken is taken; time passes.                                       *)
Fairness ==
    /\ \A c \in Cpus : SF_vars(task_resched(c)) /\ WF_vars(ipi_abortexec(c))
    /\ \A t \in Threads : /\ SF_vars(Continue(t)) /\ SF_vars(leave_syscall(t))
                           /\ WF_vars(SleepOver(t))

FairSpec == Spec /\ Fairness

Ready(t) ==
    /\ ~panicked
    /\ \E s \in Slots : task_table[s] = t
    /\ t \notin asleep /\ ~Blocked(t)

(* Round robin starves nobody: a thread that is ready is run by some CPU, or
   stops being ready, whatever the other threads and CPUs do.                *)
NoStarvation ==
    \A t \in Threads : Ready(t) ~> (~Ready(t) \/ \E c \in Cpus : Runs(c, t))

(* A call of task_tkill ends: the victim is woken by event_abrt, leaves its
   syscall, and is then removed.                                             *)
KillEnds ==
    \A k \in Threads : pc[k] \in {"kill", "kill_retry", "kill_ipi"} ~>
        (pc[k] \notin {"kill", "kill_retry", "kill_ipi"} \/ panicked)
=============================================================================
