------------------------------- MODULE Process -------------------------------
(***************************************************************************)
(* Processes of qword: task_pcreate, fork, exit, execve, kill and waitpid,  *)
(* and the userspace request monitor (sys/urm.c), a kernel thread that      *)
(* serves the queue of exit and execve requests one by one and holds        *)
(* userspace_request_lock while it does.  How threads are scheduled and     *)
(* killed is in Scheduler; here a kill is an abort, the wait for the        *)
(* victim's in_syscall and its removal.                                     *)
(***************************************************************************)
EXTENDS Integers, Sequences, FiniteSets, SequencesExt

CONSTANTS
    MAX_PROCESSES, MAX_THREADS,
    NULL, EMPTY, PLACEHOLDER, PROCESS,  \* entries of process_table; PROCESS is a pointer
    Forkers, Exiters, Execvers,         \* pids whose programs fork, exit, execve
    Waiters,                            \* pids whose programs wait for children
    Killers, Victims,                   \* pids whose programs kill, and that they kill
    MaxToken,                           \* a process with more unclaimed child events does not fork
    Orphans,                            \* programs may end before their children
    KillRaces                           \* programs may kill what has ended or is being created

Pids == 0 .. MAX_PROCESSES - 2
Tids == 0 .. MAX_THREADS - 1
Threads == Pids \X Tids

ASSUME ProcessAssumption ==
    /\ MAX_PROCESSES \in Nat /\ MAX_PROCESSES > 3 /\ MAX_THREADS \in Nat \ {0}
    /\ {NULL, EMPTY} \cap {PLACEHOLDER, PROCESS} = {} /\ PLACEHOLDER # PROCESS
    /\ Forkers \cup Exiters \cup Execvers \cup Waiters \cup Killers \cup Victims \subseteq Pids
    /\ MaxToken \in Nat /\ Orphans \in BOOLEAN /\ KillRaces \in BOOLEAN

ANY == -1   \* waitpid's pid for any child

VARIABLES
    process_table, ppid, handler,
    threads,          \* process->threads: the ids of its threads
    held,             \* processes whose handles, child events and page map are not freed
    child_events, child_event,
    pc, arg,          \* where a thread is, and with which argument
    in_syscall, event_abrt,
    userspace_requests, userspace_event,
    urm,              \* where the request monitor is
    next,             \* the thread id its kill loop has reached
    parent,           \* the process it tells about an exit
    fault             \* "gone": a freed process has been used; "init": the panic of urm.c
vars == <<process_table, ppid, handler, threads, held, child_events, child_event, pc, arg,
          in_syscall, event_abrt, userspace_requests, userspace_event, urm, next, parent, fault>>

table == <<process_table, ppid, handler, threads, held, child_events, child_event>>
monitor == <<urm, next, parent>>
queue == <<userspace_requests, userspace_event>>

Requests == [type : {"exit", "execve"}, pid : Pids, tid : Tids]
Places == {"none", "user", "halt", "pcreate", "fork", "exit", "kill", "exec", "execve", "failed", "scan", "await", "reap"}

TypeOK ==
    /\ process_table \in [Pids -> {NULL, EMPTY, PLACEHOLDER, PROCESS}]
    /\ ppid \in [Pids -> Pids]
    /\ handler \in [Pids -> {"default", "function"}]
    /\ threads \in [Pids -> SUBSET Tids]
    /\ held \subseteq Pids
    /\ child_events \in [Pids -> Seq(Pids)] /\ child_event \in [Pids -> Nat]
    /\ pc \in [Threads -> Places]
    /\ arg \in [Threads -> Pids \cup {ANY}]
    /\ in_syscall \subseteq Threads /\ event_abrt \subseteq Threads
    /\ userspace_requests \in Seq(Requests) /\ userspace_event \in Nat
    /\ urm \in {"check", "kill", "notify", "trigger", "done", "await"} /\ next \in 0 .. MAX_THREADS
    /\ parent \in Pids
    /\ fault \in {"none", "gone", "init"}

(* The kernel's process, and init with its first thread.                     *)
Init ==
    /\ process_table = [p \in Pids |-> IF p < 2 THEN PROCESS ELSE NULL]
    /\ ppid = [p \in Pids |-> 0]
    /\ handler = [p \in Pids |-> "default"]
    /\ threads = [p \in Pids |-> IF p = 1 THEN {0} ELSE {}]
    /\ held = {0, 1}
    /\ child_events = [p \in Pids |-> <<>>] /\ child_event = [p \in Pids |-> 0]
    /\ pc = [t \in Threads |-> IF t = <<1, 0>> THEN "user" ELSE "none"]
    /\ arg = [t \in Threads |-> ANY]
    /\ in_syscall = {} /\ event_abrt = {}
    /\ userspace_requests = <<>> /\ userspace_event = 0
    /\ urm = "check" /\ next = 0 /\ parent = 0
    /\ fault = "none"

-----------------------------------------------------------------------------
IsFree(entry) == entry \in {NULL, EMPTY}
Alive(p) == process_table[p] = PROCESS /\ p \in held
Children(p) == {q \in Pids : process_table[q] = PROCESS /\ ppid[q] = p /\ q # 0}
ExitAsked(p) == \E r \in ToSet(userspace_requests) : r.type = "exit" /\ r.pid = p

(* Somebody has asked, or is about to ask, for the end of p.                 *)
Doomed(p) ==
    \/ p \notin held
    \/ ExitAsked(p)
    \/ \E t \in Threads : pc[t] \in {"exit", "kill"} /\ arg[t] = p

(* The first thread of a process makes its syscalls; threads that run signal
   handlers only compute.  An aborted thread enters no syscall.              *)
Enters(t, place, argument) ==
    /\ fault = "none"
    /\ t[2] = 0 /\ pc[t] = "user" /\ t \notin event_abrt
    /\ pc' = [pc EXCEPT ![t] = place]
    /\ arg' = [arg EXCEPT ![t] = argument]
    /\ in_syscall' = in_syscall \cup {t}

At(t, place) == fault = "none" /\ pc[t] = place

Moves(t, place) ==
    /\ pc' = [pc EXCEPT ![t] = place]
    /\ UNCHANGED arg

Leaves(t) ==
    /\ pc' = [pc EXCEPT ![t] = "user"]
    /\ arg' = [arg EXCEPT ![t] = ANY]
    /\ in_syscall' = in_syscall \ {t}

-----------------------------------------------------------------------------
(***************************************************************************)
(* syscall_fork and task_pcreate                                            *)
(***************************************************************************)

(* Mutant of FreePid: a placeholder counts as free.                          *)
FreePid_Reserved(q) ==
    /\ process_table[q] # PROCESS
    /\ \A r \in 0 .. q - 1 : process_table[r] = PROCESS

FreePid(q) ==
    /\ IsFree(process_table[q])
    /\ \A r \in 0 .. q - 1 : ~IsFree(process_table[r])

PcreateReserve(t) ==
    \E q \in Pids :
        /\ FreePid(q)
        /\ t[1] \in Forkers /\ child_event[t[1]] <= MaxToken
        /\ Enters(t, "pcreate", q)
        /\ process_table' = [process_table EXCEPT ![q] = PLACEHOLDER]
        /\ UNCHANGED <<ppid, handler, threads, held, child_events, child_event, event_abrt,
                       queue, monitor, fault>>

(* One of the allocations fails.                                             *)
PcreateFail(t) ==
    /\ At(t, "pcreate")
    /\ process_table' = [process_table EXCEPT ![arg[t]] = EMPTY]
    /\ Leaves(t)
    /\ UNCHANGED <<ppid, handler, threads, held, child_events, child_event, event_abrt,
                   queue, monitor, fault>>

(* The new process is visible: no parent, no thread.                         *)
PcreatePublish(t) ==
    LET q == arg[t] IN
    /\ At(t, "pcreate")
    /\ process_table' = [process_table EXCEPT ![q] = PROCESS]
    /\ ppid' = [ppid EXCEPT ![q] = 0]
    /\ handler' = [handler EXCEPT ![q] = "default"]
    /\ threads' = [threads EXCEPT ![q] = {}]
    /\ held' = held \cup {q}
    /\ child_events' = [child_events EXCEPT ![q] = <<>>]
    /\ child_event' = [child_event EXCEPT ![q] = 0]
    /\ Moves(t, "fork")
    /\ UNCHANGED <<in_syscall, event_abrt, queue, monitor, fault>>

(* The second critical section of fork.                                      *)
syscall_fork(t) ==
    LET q == arg[t] IN
    /\ At(t, "fork")
    /\ ppid' = [ppid EXCEPT ![q] = t[1]]
    /\ handler' = [handler EXCEPT ![q] = handler[t[1]]]
    /\ threads' = [threads EXCEPT ![q] = {0}]
    /\ pc' = [pc EXCEPT ![t] = "user", ![<<q, 0>>] = "user"]
    /\ arg' = [arg EXCEPT ![t] = ANY]
    /\ in_syscall' = in_syscall \ {t}
    /\ event_abrt' = event_abrt \ {<<q, 0>>}
    /\ UNCHANGED <<process_table, held, child_events, child_event, queue, monitor, fault>>

-----------------------------------------------------------------------------
(***************************************************************************)
(* exit, execve, kill: requests                                             *)
(***************************************************************************)

(* userspace_request_lock is not held by the monitor.                        *)
LockFree == urm \in {"check", "await"}

exit(t) ==
    /\ t[1] \in Exiters /\ (Orphans \/ Children(t[1]) = {})
    /\ KillRaces \/ ~Doomed(t[1])
    /\ Enters(t, "exit", t[1])
    /\ UNCHANGED <<table, event_abrt, queue, monitor, fault>>

execve(t) ==
    /\ t[1] \in Execvers
    /\ Enters(t, "exec", t[1])
    /\ UNCHANGED <<table, event_abrt, queue, monitor, fault>>

Target(t, p) ==
    /\ t[1] \in Killers /\ p \in Victims /\ process_table[p] = PROCESS
    /\ KillRaces \/ (~Doomed(p) /\ threads[p] # {})
    /\ Orphans \/ Children(p) = {}

(* SIGKILL, or a fatal signal with the default action.                       *)
kill(t, p) ==
    /\ Target(t, p)
    /\ Enters(t, "kill", p)
    /\ UNCHANGED <<table, event_abrt, queue, monitor, fault>>

(* A signal with a handler starts a thread in the process, if it has room
   for one.  (An ignored signal and one that only prints a message change
   nothing and are not told from the default.)                               *)
KillHandled(t, p) ==
    /\ Target(t, p) /\ handler[p] = "function"
    /\ fault = "none" /\ t[2] = 0 /\ pc[t] = "user" /\ t \notin event_abrt
    /\ \E i \in Tids \ threads[p] :
          /\ \A j \in 0 .. i - 1 : j \in threads[p]
          /\ threads' = [threads EXCEPT ![p] = @ \cup {i}]
          /\ pc' = [pc EXCEPT ![<<p, i>>] = "user"]
          /\ event_abrt' = event_abrt \ {<<p, i>>}
    /\ UNCHANGED <<process_table, ppid, handler, held, child_events, child_event, arg,
                   in_syscall, queue, monitor, fault>>

syscall_sigaction(t, action) ==
    /\ fault = "none" /\ t[2] = 0 /\ pc[t] = "user" /\ t \notin event_abrt
    /\ handler' = [handler EXCEPT ![t[1]] = action]
    /\ UNCHANGED <<process_table, ppid, threads, held, child_events, child_event, pc, arg,
                   in_syscall, event_abrt, queue, monitor, fault>>

(* What a thread sends, and where it goes then: exit clears in_syscall and
   halts, execve waits for its error, kill returns.                          *)
Request(t) ==
    [type |-> IF pc[t] = "exec" THEN "execve" ELSE "exit", pid |-> arg[t], tid |-> t[2]]
AfterSend(t) ==
    CASE pc[t] = "exit" -> "halt" [] pc[t] = "exec" -> "execve" [] pc[t] = "kill" -> "user"

userspace_send_request(t) ==
    /\ fault = "none" /\ pc[t] \in {"exit", "exec", "kill"}
    /\ LockFree
    /\ userspace_requests' = Append(userspace_requests, Request(t))
    /\ userspace_event' = userspace_event + 1
    /\ pc' = [pc EXCEPT ![t] = AfterSend(t)]
    /\ arg' = [arg EXCEPT ![t] = ANY]
    /\ in_syscall' = IF pc[t] = "exec" THEN in_syscall ELSE in_syscall \ {t}
    /\ UNCHANGED <<table, event_abrt, monitor, fault>>

(* Mutant of Aborted: event_await does not look at event_abrt.               *)
Aborted_Never(t) == FALSE

(* event_await returns -1.                                                   *)
Aborted(t) == t \in event_abrt

(* execve's wait is aborted: it clears in_syscall and waits again.           *)
ExecveAborted(t) ==
    /\ At(t, "execve") /\ Aborted(t) /\ t \in in_syscall
    /\ in_syscall' = in_syscall \ {t}
    /\ UNCHANGED <<table, pc, arg, event_abrt, queue, monitor, fault>>

ExecveReturns(t) ==
    /\ At(t, "failed") /\ Leaves(t)
    /\ UNCHANGED <<table, event_abrt, queue, monitor, fault>>

-----------------------------------------------------------------------------
(***************************************************************************)
(* syscall_waitpid                                                          *)
(***************************************************************************)
Matches(q, pid) == pid \in {ANY, q}

(* Mutant of syscall_waitpid: it sleeps before it has looked.                *)
syscall_waitpid_AwaitFirst(t, pid) ==
    /\ t[1] \in Waiters /\ Enters(t, "await", pid)
    /\ UNCHANGED <<table, event_abrt, queue, monitor, fault>>

syscall_waitpid(t, pid) ==
    /\ t[1] \in Waiters /\ Enters(t, "scan", pid)
    /\ UNCHANGED <<table, event_abrt, queue, monitor, fault>>

(* Mutant of Without: the last event leaves the list.                        *)
Without_Last(events, i) == Front(events)

Without(events, i) == RemoveAt(events, i)

(* The first event that matches leaves the list.                             *)
WaitFound(t) ==
    LET events == child_events[t[1]] IN
    /\ At(t, "scan")
    /\ \E i \in DOMAIN events :
          /\ Matches(events[i], arg[t])
          /\ \A j \in 1 .. i - 1 : ~Matches(events[j], arg[t])
          /\ child_events' = [child_events EXCEPT ![t[1]] = Without(events, i)]
          /\ pc' = [pc EXCEPT ![t] = "reap"]
          /\ arg' = [arg EXCEPT ![t] = events[i]]
    /\ UNCHANGED <<process_table, ppid, handler, threads, held, child_event, in_syscall,
                   event_abrt, queue, monitor, fault>>

NoMatch(t) == \A i \in DOMAIN child_events[t[1]] : ~Matches(child_events[t[1]][i], arg[t])

(* WNOHANG                                                                   *)
WaitNone(t) ==
    /\ At(t, "scan") /\ NoMatch(t) /\ Leaves(t)
    /\ UNCHANGED <<table, event_abrt, queue, monitor, fault>>

WaitBlocks(t) ==
    /\ At(t, "scan") /\ NoMatch(t) /\ Moves(t, "await")
    /\ UNCHANGED <<table, in_syscall, event_abrt, queue, monitor, fault>>

(* event_await finds the counter nonzero.                                    *)
HasToken(n) == n > 0

(* Mutant of TakeToken: the counter is a flag.                               *)
TakeToken_All(n) == 0

TakeToken(n) == n - 1

(* event_await takes a token, and the list is searched again.                *)
WaitWoken(t) ==
    /\ At(t, "await") /\ HasToken(child_event[t[1]])
    /\ child_event' = [child_event EXCEPT ![t[1]] = TakeToken(@)]
    /\ Moves(t, "scan")
    /\ UNCHANGED <<process_table, ppid, handler, threads, held, child_events, in_syscall,
                   event_abrt, queue, monitor, fault>>

(* EINTR                                                                     *)
WaitAborted(t) ==
    /\ At(t, "await") /\ Aborted(t) /\ Leaves(t)
    /\ UNCHANGED <<table, event_abrt, queue, monitor, fault>>

Reap(t) ==
    /\ At(t, "reap")
    /\ process_table' = [process_table EXCEPT ![arg[t]] = EMPTY]
    /\ Leaves(t)
    /\ UNCHANGED <<ppid, handler, threads, held, child_events, child_event, event_abrt,
                   queue, monitor, fault>>

-----------------------------------------------------------------------------
(***************************************************************************)
(* userspace_request_monitor                                                *)
(***************************************************************************)
Job == Head(userspace_requests)

MonitorIdle ==
    /\ fault = "none" /\ urm = "check" /\ userspace_requests = <<>>
    /\ urm' = "await"
    /\ UNCHANGED <<table, pc, arg, in_syscall, event_abrt, queue, next, parent, fault>>

(* What the monitor meets: a process that is gone, or init that is to end.   *)
Verdict(r) ==
    IF ~Alive(r.pid) THEN "gone"
    ELSE IF r.type = "exit" /\ ppid[r.pid] = 0 THEN "init" ELSE "none"

(* exit_receive_request begins, or exec has loaded the new program.          *)
MonitorTakes ==
    /\ fault = "none" /\ urm = "check" /\ userspace_requests # <<>>
    /\ fault' = Verdict(Job)
    /\ urm' = "kill" /\ next' = 0
    /\ UNCHANGED <<table, pc, arg, in_syscall, event_abrt, queue, parent>>

(* exec fails before it has touched the process.                             *)
ExecFails ==
    /\ fault = "none" /\ urm = "check" /\ userspace_requests # <<>>
    /\ Job.type = "execve" /\ Alive(Job.pid)
    /\ pc' = [pc EXCEPT ![<<Job.pid, Job.tid>>] = "failed"]
    /\ urm' = "done"
    /\ UNCHANGED <<table, arg, in_syscall, event_abrt, queue, next, parent, fault>>

(* task_tkill(pid, next): abort, wait for the syscall, remove.               *)
MonitorKills ==
    LET t == <<Job.pid, next>> IN
    /\ fault = "none" /\ urm = "kill" /\ next < MAX_THREADS
    /\ \/ /\ next \notin threads[Job.pid]
          /\ next' = next + 1
          /\ UNCHANGED <<threads, pc, arg, event_abrt>>
       \/ /\ next \in threads[Job.pid] /\ t \notin event_abrt
          /\ event_abrt' = event_abrt \cup {t}
          /\ UNCHANGED <<threads, pc, arg, next>>
       \/ /\ next \in threads[Job.pid] /\ t \in event_abrt /\ t \notin in_syscall
          /\ threads' = [threads EXCEPT ![Job.pid] = @ \ {next}]
          /\ pc' = [pc EXCEPT ![t] = "none"]
          /\ arg' = [arg EXCEPT ![t] = ANY]
          /\ event_abrt' = event_abrt \ {t}
          /\ next' = next + 1
    /\ UNCHANGED <<process_table, ppid, handler, held, child_events, child_event, in_syscall,
                   queue, urm, parent, fault>>

(* exec goes on: new page map, new main thread.  The store of 0 to
   task_table[tid]->in_syscall, with a thread id as index, may hit any
   thread, or none.                                                          *)
ExecCreates ==
    LET p == Job.pid IN
    /\ fault = "none" /\ urm = "kill" /\ next = MAX_THREADS /\ Job.type = "execve"
    /\ \E i \in Tids \ threads[p] :
          /\ \A j \in 0 .. i - 1 : j \in threads[p]
          /\ threads' = [threads EXCEPT ![p] = @ \cup {i}]
          /\ pc' = [pc EXCEPT ![<<p, i>>] = "user"]
    /\ \E stray \in {{}} \cup {{t} : t \in in_syscall} : in_syscall' = in_syscall \ stray
    /\ urm' = "done"
    /\ UNCHANGED <<process_table, ppid, handler, held, child_events, child_event, arg, event_abrt,
                   queue, next, parent, fault>>

(* Handles, child events, page map and perfmon are given back.               *)
ExitFrees ==
    /\ fault = "none" /\ urm = "kill" /\ next = MAX_THREADS /\ Job.type = "exit"
    /\ held' = held \ {Job.pid}
    /\ parent' = ppid[Job.pid]
    /\ urm' = "notify"
    /\ UNCHANGED <<process_table, ppid, handler, threads, child_events, child_event, pc, arg,
                   in_syscall, event_abrt, queue, next, fault>>

(* task_send_child_event; the parent must still be there.                    *)
task_send_child_event ==
    /\ fault = "none" /\ urm = "notify"
    /\ fault' = IF Alive(parent) THEN "none" ELSE "gone"
    /\ child_events' = [child_events EXCEPT ![parent] = Append(@, Job.pid)]
    /\ urm' = "trigger"
    /\ UNCHANGED <<process_table, ppid, handler, threads, held, child_event, pc, arg, in_syscall,
                   event_abrt, queue, next, parent>>

(* Mutant of Triggered: the event is not triggered.                          *)
Triggered_Never(n) == n

Triggered(n) == n + 1

ChildTrigger ==
    /\ fault = "none" /\ urm = "trigger"
    /\ child_event' = [child_event EXCEPT ![parent] = Triggered(@)]
    /\ urm' = "done"
    /\ UNCHANGED <<process_table, ppid, handler, threads, held, child_events, pc, arg, in_syscall,
                   event_abrt, queue, next, parent, fault>>

(* Mutant of Served: the request stays in the queue.                         *)
Served_Kept == userspace_requests

Served == Tail(userspace_requests)

(* The request leaves the queue and the lock is released.                    *)
MonitorDone ==
    /\ fault = "none" /\ urm = "done"
    /\ userspace_requests' = Served
    /\ urm' = "await"
    /\ UNCHANGED <<table, pc, arg, in_syscall, event_abrt, userspace_event, next, parent, fault>>

MonitorAwaits ==
    /\ fault = "none" /\ urm = "await" /\ HasToken(userspace_event)
    /\ userspace_event' = TakeToken(userspace_event)
    /\ urm' = "check"
    /\ UNCHANGED <<table, pc, arg, in_syscall, event_abrt, userspace_requests, next, parent, fault>>

-----------------------------------------------------------------------------
Program(t) ==
    \/ PcreateReserve(t) \/ exit(t) \/ execve(t)
    \/ \E p \in Pids : kill(t, p) \/ KillHandled(t, p)
    \/ \E action \in {"default", "function"} : t[1] \in Victims /\ syscall_sigaction(t, action)
    \/ \E pid \in (Pids \ {0, t[1]}) \cup {ANY} : syscall_waitpid(t, pid)

Continue(t) ==
    \/ PcreatePublish(t) \/ syscall_fork(t) \/ userspace_send_request(t)
    \/ ExecveAborted(t) \/ ExecveReturns(t)
    \/ WaitFound(t) \/ WaitBlocks(t) \/ WaitWoken(t) \/ WaitAborted(t) \/ Reap(t)

Monitor ==
    \/ MonitorIdle \/ MonitorTakes \/ ExecFails \/ MonitorKills \/ ExecCreates
    \/ ExitFrees \/ task_send_child_event \/ ChildTrigger \/ MonitorDone \/ MonitorAwaits

Next ==
    \/ \E t \in Threads : Program(t) \/ Continue(t) \/ PcreateFail(t) \/ WaitNone(t)
    \/ Monitor

Spec == Init /\ [][Next]_vars

(* A thread inside a syscall is scheduled for ever and gets
   userspace_request_lock if that is free often enough; so is the monitor.   *)
Fairness == WF_vars(Monitor) /\ \A t \in Threads : SF_vars(Continue(t))
FairSpec == Spec /\ Fairness

-----------------------------------------------------------------------------
(* Neither the monitor nor task_send_child_event uses a process after its
   release, although pids are reused and requests wait in a queue; and the
   panic "Going nowhere without my init!" is about init; all state keeps its
   type.                                                                     *)
NothingGone == TypeOK /\ fault # "gone" /\ (fault = "init" => Job.pid = 1)

(* A process that has ended, whose parent has been told and does not yet free
   it, has exactly one event in the parent's list, and nothing else is
   there: exits, kills and waits of several processes neither lose a child
   nor report one twice.                                                     *)
ChildEventsExact ==
    fault = "none" =>
    \A p \in held \ {0} :
        LET told == {q \in Children(p) :
                       /\ q \notin held
                       /\ ~(urm = "notify" /\ Job.pid = q)
                       /\ \A t \in Threads : ~(pc[t] = "reap" /\ arg[t] = q)}
        IN  ToSet(child_events[p]) = told /\ IsInjective(child_events[p])

(* A thread that sleeps in waitpid while an event for it is in the list will
   be woken: the token is there or about to come, although earlier waits
   have taken tokens for other children, and events without their token.     *)
WakeupNotLost ==
    \A t \in Threads :
        pc[t] = "await" /\ ~NoMatch(t) =>
            child_event[t[1]] > 0 \/ (urm = "trigger" /\ parent = t[1])

(* The monitor serves one request per token and never sleeps on a queue.     *)
NoRequestForgotten ==
    urm = "await" => userspace_event >= Len(userspace_requests)

(* Each pid being created has one creator, and nobody else uses it.          *)
PidsApart ==
    /\ \A p \in Pids : process_table[p] = PLACEHOLDER <=>
          Cardinality({t \in Threads : pc[t] = "pcreate" /\ arg[t] = p}) = 1
    /\ \A t, u \in Threads :
          pc[t] \in {"pcreate", "fork"} /\ pc[u] \in {"pcreate", "fork"} /\ arg[t] = arg[u] => t = u

(* A request to end a process is served: its threads can be killed, and the
   monitor gets to it.                                                       *)
ExitsEnd ==
    \A p \in Pids : ExitAsked(p) ~> ~ExitAsked(p)

(* A waitpid for a child that has ended does not wait for ever.              *)
WaitsEnd ==
    \A t \in Threads : (pc[t] \in {"scan", "await"} /\ ~NoMatch(t)) ~> pc[t] \notin {"scan", "await"}
=============================================================================
