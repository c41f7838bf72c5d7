---------------------------- MODULE ProcessProofs ----------------------------
(***************************************************************************)
(* Theorems about Process, for any number of pids and threads.  Whatever    *)
(* the programs do, the request monitor never sleeps on a queue and a       *)
(* waiting parent is never left asleep over its event.  For programs that   *)
(* neither leave orphans nor are killed while they end (Disciplined; the    *)
(* code does not see to it), every ended child is reported to its parent    *)
(* exactly once, and a pid has one creator.                                 *)
(***************************************************************************)
EXTENDS Process, FiniteSetTheorems, SequenceTheorems, TLAPS

(* Where a thread is in userspace_send_request, where it is in task_pcreate or
   fork, and the places of the queue. *)
Sending == {"exit", "kill", "exec"}
Creating == {"pcreate", "fork"}
Ids == DOMAIN userspace_requests

(* Who asks for something, creates or frees a process knows which. *)
ArgsSound ==
    \A t \in Threads : pc[t] \in Sending \cup Creating \cup {"reap"} => arg[t] \in Pids

(* Only main threads make system calls; the others are in user code. *)
MainThreads ==
    /\ \A t \in Threads : pc[t] \notin {"none", "user"} => t[2] = 0
    /\ \A n \in Ids : userspace_requests[n].tid = 0

(* The monitor works on the request at the head of the queue. *)
JobThere == urm \notin {"check", "await"} => userspace_requests # <<>>

(* Every request has its token, except the one the monitor has taken its for. *)
TokensCover ==
    /\ userspace_event + 1 >= Len(userspace_requests)
    /\ NoRequestForgotten

(* What holds whatever the programs do. *)
BasicInv == TypeOK /\ ArgsSound /\ MainThreads /\ JobThere /\ TokensCover /\ WakeupNotLost

-----------------------------------------------------------------------------
(* The rules that the programs of the runs keep and the code does not enforce:
   no process ends before its children, none is asked to end twice or while
   fork still creates it, none that forks or execs is killed, and the kernel's
   own process is not. *)
Disciplined ==
    /\ ~Orphans /\ ~KillRaces
    /\ Victims \cap (Forkers \cup Execvers) = {}
    /\ 0 \notin Victims

(* The request at the head of the queue has been carried out, and the requests
   still to be carried out. *)
HeadServed == urm \in {"notify", "trigger", "done"}
Unserved == {n \in Ids : n > 1 \/ ~HeadServed}

(* Thread t is about to request the end of process p. *)
Asks(t, p) == pc[t] \in {"exit", "kill"} /\ arg[t] = p

(* The end of p has been requested or is about to be. *)
Ending(p) ==
    \/ \E n \in Unserved : userspace_requests[n].type = "exit" /\ userspace_requests[n].pid = p
    \/ \E t \in Threads : Asks(t, p)

(* p has requested a new program and the monitor has not installed it. *)
Execing(p) == \E n \in Unserved : userspace_requests[n].type = "execve" /\ userspace_requests[n].pid = p

(* p is in the table but fork has not given it a parent or a thread. *)
Created(p) == \E t \in Threads : pc[t] = "fork" /\ arg[t] = p

(* Threads are where the table says, only of processes that are not released;
   only processes that are killed have more than the main thread. *)
ThreadsSound ==
    /\ \A p \in Pids, i \in Tids : i \in threads[p] <=> pc[<<p, i>>] # "none"
    /\ \A p \in Pids : threads[p] # {} => p \in held /\ p # 0
    /\ \A p \in held : process_table[p] = PROCESS
    /\ \A p \in Pids \ Victims, i \in Tids : i \in threads[p] => i = 0
    /\ {0, 1} \subseteq held

(* Every placeholder has one creator; what fork has created stays untouched
   until it gets its thread. *)
CreationSound ==
    /\ \A t \in Threads : pc[t] = "pcreate" => process_table[arg[t]] = PLACEHOLDER
    /\ \A t \in Threads : pc[t] = "fork" =>
          /\ arg[t] \in held \ {0, 1}
          /\ threads[arg[t]] = {} /\ ppid[arg[t]] = 0
    /\ \A p \in Pids : process_table[p] = PLACEHOLDER =>
          \E t \in Threads : pc[t] = "pcreate" /\ arg[t] = p
    /\ \A t, u \in Threads : pc[t] \in Creating /\ pc[u] \in Creating /\ arg[t] = arg[u] => t = u
    /\ \A t \in Threads : pc[t] \in Creating => t[1] \in Forkers

(* The parent of a process is there: it ends only after its children. *)
FamilySound ==
    /\ ppid[0] = 0 /\ ppid[1] = 0
    /\ \A p \in Pids : process_table[p] = PROCESS =>
          IF ppid[p] = 0 THEN p < 2 \/ Created(p) ELSE ppid[p] \in held

(* A process that ends is there, has no children, is neither being created nor
   creating, and if it ends by itself its main thread does nothing else. *)
EndingSound ==
    \A p \in Pids : Ending(p) =>
       /\ p \in held \ {0} /\ Children(p) = {} /\ ~Created(p)
       /\ \A t \in Threads : t[1] = p => pc[t] \notin Creating
       /\ p \notin Victims => pc[<<p, 0>>] \in {"exit", "halt", "none"}

(* The end of a process is requested once. *)
AskedOnce ==
    /\ \A t, u \in Threads : \A p \in Pids : Asks(t, p) /\ Asks(u, p) => t = u
    /\ \A t \in Threads : \A p \in Pids : Asks(t, p) => ~ExitAsked(p)
    /\ \A t \in Threads : pc[t] \in {"exit", "exec"} => arg[t] = t[1]
    /\ \A t \in Threads : pc[t] = "kill" => arg[t] \in Victims
    /\ \A m, n \in Ids : userspace_requests[m].type = "exit" /\ userspace_requests[n].type = "exit"
          /\ userspace_requests[m].pid = userspace_requests[n].pid => m = n

(* A process whose exec is pending is there and does not end; its main thread
   waits until the monitor kills it; it has one such request. *)
ExecSound ==
    /\ \A t \in Threads : pc[t] = "exec" => t[1] \in Execvers
    /\ \A p \in Pids : Execing(p) =>
         /\ p \in Execvers /\ p \in held \ {0} /\ ~Ending(p) /\ ~Created(p)
         /\ \/ pc[<<p, 0>>] = "execve"
            \/ urm = "kill" /\ Job.pid = p /\ Job.type = "execve" /\ pc[<<p, 0>>] = "none"
    /\ \A m, n \in Unserved : userspace_requests[m].type = "execve" /\ userspace_requests[n].type = "execve"
          /\ userspace_requests[m].pid = userspace_requests[n].pid => m = n

(* The threads the monitor has passed are gone; the process it reports is
   released, in the table and has a parent. *)
MonitorSound ==
    /\ urm = "kill" => \A i \in Tids : i < next => i \notin threads[Job.pid]
    /\ urm = "kill" /\ Job.type = "exit" /\ fault = "none" => ppid[Job.pid] # 0
    /\ urm = "notify" =>
         /\ process_table[Job.pid] = PROCESS /\ Job.pid \notin held
         /\ parent = ppid[Job.pid] /\ parent # 0

(* What a parent reaps is a released child of its own that has been reported. *)
EventsSound ==
    /\ \A t \in Threads : pc[t] = "reap" =>
         /\ arg[t] \in Children(t[1]) /\ arg[t] \notin held
         /\ ~(urm = "notify" /\ Job.pid = arg[t])
    /\ ChildEventsExact

(* Nothing released is used; the panic about a missing parent is about init. *)
FaultSound == fault # "gone" /\ (fault = "init" => Job.pid = 1)

(* What holds in addition when the programs are disciplined. *)
FamilyInv ==
    /\ ThreadsSound /\ CreationSound /\ FamilySound /\ EndingSound /\ AskedOnce
    /\ ExecSound /\ MonitorSound /\ EventsSound /\ FaultSound

-----------------------------------------------------------------------------
(* A request is one. *)
LEMMA RequestTyped ==
    ASSUME TypeOK, ArgsSound, NEW t \in Threads, pc[t] \in Sending
    PROVE  Request(t) \in Requests
  BY DEF TypeOK, ArgsSound, Request, Requests, Sending, Threads

(* The head of the queue is a request. *)
LEMMA JobTyped ==
    ASSUME TypeOK, userspace_requests # <<>>
    PROVE  Job \in Requests /\ Job.pid \in Pids /\ Job.tid \in Tids
<1>1. Job \in Requests BY DEF TypeOK, Job
<1> QED BY <1>1 DEF Requests

(* Removing an event leaves events. *)
LEMMA WithoutTyped ==
    ASSUME NEW S, NEW s \in Seq(S), NEW i \in DOMAIN s
    PROVE  Without(s, i) \in Seq(S)
  BY DEF Without, RemoveAt

(* The initial states. *)
LEMMA TypeInit == Init => TypeOK /\ ArgsSound /\ MainThreads /\ JobThere /\ TokensCover /\ WakeupNotLost
<1> SUFFICES ASSUME Init PROVE TypeOK /\ ArgsSound /\ MainThreads /\ JobThere /\ TokensCover /\ WakeupNotLost
    OBVIOUS
<1> USE ProcessAssumption DEF Init
<1>1. TypeOK BY DEF TypeOK, Places, Threads, Pids, Tids, Requests, ANY
<1>2. ArgsSound BY DEF ArgsSound, Sending, Creating
<1>3. MainThreads BY DEF MainThreads, Ids
<1>4. JobThere /\ TokensCover BY DEF JobThere, TokensCover, NoRequestForgotten
<1>5. WakeupNotLost BY DEF WakeupNotLost
<1> QED BY <1>1, <1>2, <1>3, <1>4, <1>5

(* Every step keeps the types. *)
LEMMA TypeStep ==
    ASSUME TypeOK, ArgsSound, JobThere, Next
    PROVE  TypeOK'
<1> USE ProcessAssumption DEF Places, Sending, Creating
<1>0. 0 \in Pids /\ 0 \in Tids BY DEF Pids, Tids
<1>j. userspace_requests # <<>> => Job \in Requests /\ Job.pid \in Pids /\ Job.tid \in Tids
      BY JobTyped
<1>1. ASSUME NEW t \in Threads, PcreateReserve(t) PROVE TypeOK'
  <2>1. PICK q \in Pids : /\ Enters(t, "pcreate", q)
                          /\ process_table' = [process_table EXCEPT ![q] = PLACEHOLDER]
        BY <1>1 DEF PcreateReserve
  <2> QED BY <1>1, <2>1 DEF TypeOK, PcreateReserve, Enters, monitor, queue
<1>2. ASSUME NEW t \in Threads, PcreateFail(t) PROVE TypeOK'
    BY <1>0, <1>2 DEF TypeOK, ArgsSound, Threads, PcreateFail, Enters, Leaves, Moves, At, table,
       monitor, queue
<1>3. ASSUME NEW t \in Threads, PcreatePublish(t) PROVE TypeOK'
    BY <1>0, <1>3 DEF TypeOK, ArgsSound, Threads, PcreatePublish, Enters, Leaves, Moves, At,
       table, monitor, queue
<1>4. ASSUME NEW t \in Threads, syscall_fork(t) PROVE TypeOK'
    BY <1>0, <1>4 DEF TypeOK, ArgsSound, Threads, syscall_fork, Enters, Leaves, Moves, At, table,
       monitor, queue
<1>5. ASSUME NEW t \in Threads, exit(t) PROVE TypeOK'
    BY <1>0, <1>5 DEF TypeOK, ArgsSound, Threads, exit, Enters, Leaves, Moves, At, table, monitor,
       queue
<1>6. ASSUME NEW t \in Threads, execve(t) PROVE TypeOK'
    BY <1>0, <1>6 DEF TypeOK, ArgsSound, Threads, execve, Enters, Leaves, Moves, At, table,
       monitor, queue
<1>7. ASSUME NEW t \in Threads, userspace_send_request(t) PROVE TypeOK'
  <2>1. Request(t) \in Requests BY <1>7, RequestTyped DEF userspace_send_request
  <2>2. userspace_requests' \in Seq(Requests) /\ userspace_event' \in Nat
        BY <1>7, <2>1, AppendProperties DEF TypeOK, userspace_send_request
  <2>3. AfterSend(t) \in Places BY <1>7 DEF userspace_send_request, AfterSend
  <2>4. pc' \in [Threads -> Places] /\ arg' \in [Threads -> Pids \cup {ANY}]
        BY ONLY <1>7, <2>3, TypeOK DEF TypeOK, userspace_send_request
  <2>5. in_syscall' \subseteq Threads BY ONLY <1>7, TypeOK DEF TypeOK, userspace_send_request
  <2> QED BY ONLY <1>7, <2>2, <2>4, <2>5, TypeOK DEF TypeOK, userspace_send_request, table, monitor
<1>8. ASSUME NEW t \in Threads, ExecveAborted(t) PROVE TypeOK'
    BY <1>0, <1>8 DEF TypeOK, ArgsSound, Threads, ExecveAborted, Enters, Leaves, Moves, At, table,
       monitor, queue
<1>9. ASSUME NEW t \in Threads, ExecveReturns(t) PROVE TypeOK'
    BY <1>0, <1>9 DEF TypeOK, ArgsSound, Threads, ExecveReturns, Enters, Leaves, Moves, At, table,
       monitor, queue
<1>10. ASSUME NEW t \in Threads, WaitFound(t) PROVE TypeOK'
    BY <1>0, <1>10, WithoutTyped DEF TypeOK, ArgsSound, Threads, WaitFound, Enters, Leaves, Moves,
       At, table, monitor, queue
<1>11. ASSUME NEW t \in Threads, WaitNone(t) PROVE TypeOK'
    BY <1>0, <1>11 DEF TypeOK, ArgsSound, Threads, WaitNone, Enters, Leaves, Moves, At, table,
       monitor, queue
<1>12. ASSUME NEW t \in Threads, WaitBlocks(t) PROVE TypeOK'
    BY <1>0, <1>12 DEF TypeOK, ArgsSound, Threads, WaitBlocks, Enters, Leaves, Moves, At, table,
       monitor, queue
<1>13. ASSUME NEW t \in Threads, WaitWoken(t) PROVE TypeOK'
    BY SMTT(30), <1>0, <1>13 DEF TypeOK, ArgsSound, Threads, WaitWoken, Enters, Leaves, Moves, At, table,
       monitor, queue, TakeToken, HasToken
<1>14. ASSUME NEW t \in Threads, WaitAborted(t) PROVE TypeOK'
    BY <1>0, <1>14 DEF TypeOK, ArgsSound, Threads, WaitAborted, Enters, Leaves, Moves, At, table,
       monitor, queue
<1>15. ASSUME NEW t \in Threads, Reap(t) PROVE TypeOK'
    BY <1>0, <1>15 DEF TypeOK, ArgsSound, Threads, Reap, Enters, Leaves, Moves, At, table,
       monitor, queue
<1>16. ASSUME NEW t \in Threads, NEW p \in Pids, kill(t, p) PROVE TypeOK'
    BY <1>0, <1>16 DEF TypeOK, ArgsSound, Threads, kill, Enters, Leaves, Moves, At, table,
       monitor, queue
<1>17. ASSUME NEW t \in Threads, NEW p \in Pids, KillHandled(t, p) PROVE TypeOK'
    BY <1>0, <1>17 DEF TypeOK, ArgsSound, Threads, KillHandled, Enters, Leaves, Moves, At, table,
       monitor, queue
<1>18. ASSUME NEW t \in Threads, NEW a \in {"default", "function"}, syscall_sigaction(t, a)
       PROVE  TypeOK'
    BY <1>0, <1>18 DEF TypeOK, ArgsSound, Threads, syscall_sigaction, Enters, Leaves, Moves, At,
       table, monitor, queue
<1>19. ASSUME NEW t \in Threads, NEW pid \in Pids \cup {ANY}, syscall_waitpid(t, pid)
       PROVE  TypeOK'
    BY <1>0, <1>19 DEF TypeOK, ArgsSound, Threads, syscall_waitpid, Enters, Leaves, Moves, At,
       table, monitor, queue
<1>20. ASSUME MonitorIdle PROVE TypeOK'
    BY <1>0, <1>j, <1>20 DEF TypeOK, JobThere, Threads, MonitorIdle, table, monitor, queue
<1>21. ASSUME MonitorTakes PROVE TypeOK'
    BY SMTT(30), <1>0, <1>j, <1>21 DEF TypeOK, JobThere, Threads, MonitorTakes, table, monitor, queue, Verdict
<1>22. ASSUME ExecFails PROVE TypeOK'
    BY <1>0, <1>j, <1>22 DEF TypeOK, JobThere, Threads, ExecFails, table, monitor, queue
<1>23. ASSUME MonitorKills PROVE TypeOK'
  <2>1. Job.pid \in Pids BY <1>j, <1>23 DEF MonitorKills, JobThere
  <2>2. next \in Tids /\ next' \in 0 .. MAX_THREADS BY <1>23 DEF MonitorKills, TypeOK, Tids
  <2>3. <<Job.pid, next>> \in Threads BY <2>1, <2>2 DEF Threads
  <2>4. /\ threads' \in [Pids -> SUBSET Tids] /\ pc' \in [Threads -> Places]
        /\ arg' \in [Threads -> Pids \cup {ANY}] /\ event_abrt' \subseteq Threads
    <3>1. \/ UNCHANGED <<threads, pc, arg>>
          \/ /\ threads' = [threads EXCEPT ![Job.pid] = @ \ {next}]
             /\ pc' = [pc EXCEPT ![<<Job.pid, next>>] = "none"]
             /\ arg' = [arg EXCEPT ![<<Job.pid, next>>] = ANY]
          BY ONLY <1>23 DEF MonitorKills
    <3>2. \/ UNCHANGED event_abrt
          \/ event_abrt' = event_abrt \cup {<<Job.pid, next>>}
          \/ event_abrt' = event_abrt \ {<<Job.pid, next>>}
          BY ONLY <1>23 DEF MonitorKills
    <3>3. threads' \in [Pids -> SUBSET Tids]
      <4>1. threads[Job.pid] \ {next} \in SUBSET Tids BY ONLY <2>1, TypeOK DEF TypeOK
      <4> QED BY ONLY <3>1, <4>1, TypeOK DEF TypeOK
    <3>4. pc' \in [Threads -> Places] BY ONLY <3>1, TypeOK DEF TypeOK, Places
    <3>5. arg' \in [Threads -> Pids \cup {ANY}] BY ONLY <3>1, TypeOK DEF TypeOK
    <3>6. event_abrt' \subseteq Threads BY ONLY <2>3, <3>2, TypeOK DEF TypeOK
    <3> QED BY <3>3, <3>4, <3>5, <3>6
  <2> QED BY ONLY <1>23, <2>2, <2>4, TypeOK DEF MonitorKills, TypeOK, queue
<1>24. ASSUME ExecCreates PROVE TypeOK'
    BY <1>0, <1>j, <1>24 DEF TypeOK, JobThere, Threads, ExecCreates, table, monitor, queue
<1>25. ASSUME ExitFrees PROVE TypeOK'
    BY <1>0, <1>j, <1>25 DEF TypeOK, JobThere, Threads, ExitFrees, table, monitor, queue
<1>26. ASSUME task_send_child_event PROVE TypeOK'
    BY <1>0, <1>j, <1>26 DEF TypeOK, JobThere, Threads, task_send_child_event, table, monitor, queue
<1>27. ASSUME ChildTrigger PROVE TypeOK'
    BY SMTT(30), <1>0, <1>j, <1>27 DEF TypeOK, JobThere, Threads, ChildTrigger, table, monitor, queue,
       Triggered
<1>28. ASSUME MonitorDone PROVE TypeOK'
    BY SMTT(30), <1>0, <1>j, <1>28 DEF TypeOK, JobThere, Threads, MonitorDone, table, monitor, queue, Served
<1>29. ASSUME MonitorAwaits PROVE TypeOK'
    BY <1>0, <1>j, <1>29 DEF TypeOK, JobThere, Threads, MonitorAwaits, table, monitor, queue,
       TakeToken, HasToken
<1> QED BY <1>1, <1>2, <1>3, <1>4, <1>5, <1>6, <1>7, <1>8, <1>9, <1>10, <1>11, <1>12, <1>13,
   <1>14, <1>15, <1>16, <1>17, <1>18, <1>19, <1>20, <1>21, <1>22, <1>23, <1>24, <1>25, <1>26,
   <1>27, <1>28, <1>29 DEF Next, Program, Continue, Monitor

(* Every step keeps ArgsSound. *)
LEMMA ArgsStep ==
    ASSUME TypeOK, ArgsSound, JobThere, Next
    PROVE  ArgsSound'
<1>0. \A t \in Threads : t[1] \in Pids BY DEF Threads
<1>1. ASSUME NEW t \in Threads, PcreateReserve(t) PROVE ArgsSound'
    BY <1>1, <1>0 DEF PcreateReserve, Enters, monitor, queue, TypeOK, ArgsSound, Sending, Creating
<1>2. ASSUME NEW t \in Threads, PcreateFail(t) PROVE ArgsSound'
    BY <1>2, <1>0 DEF PcreateFail, Leaves, At, monitor, queue, TypeOK, ArgsSound, Sending, Creating
<1>3. ASSUME NEW t \in Threads, PcreatePublish(t) PROVE ArgsSound'
    BY <1>3, <1>0 DEF PcreatePublish, Moves, At, monitor, queue, TypeOK, ArgsSound, Sending,
       Creating
<1>4. ASSUME NEW t \in Threads, syscall_fork(t) PROVE ArgsSound'
    BY <1>4, <1>0 DEF syscall_fork, At, monitor, queue, TypeOK, ArgsSound, Sending, Creating
<1>5. ASSUME NEW t \in Threads, exit(t) PROVE ArgsSound'
    BY <1>5, <1>0 DEF exit, Enters, table, monitor, queue, TypeOK, ArgsSound, Sending, Creating
<1>6. ASSUME NEW t \in Threads, execve(t) PROVE ArgsSound'
    BY <1>6, <1>0 DEF execve, Enters, table, monitor, queue, TypeOK, ArgsSound, Sending, Creating
<1>7. ASSUME NEW t \in Threads, userspace_send_request(t) PROVE ArgsSound'
    BY <1>7, <1>0 DEF userspace_send_request, table, monitor, TypeOK, ArgsSound, Sending,
       Creating, AfterSend
<1>8. ASSUME NEW t \in Threads, ExecveAborted(t) PROVE ArgsSound'
    BY <1>8, <1>0 DEF ExecveAborted, At, table, monitor, queue, TypeOK, ArgsSound, Sending, Creating
<1>9. ASSUME NEW t \in Threads, ExecveReturns(t) PROVE ArgsSound'
    BY <1>9, <1>0 DEF ExecveReturns, Leaves, At, table, monitor, queue, TypeOK, ArgsSound,
       Sending, Creating
<1>10. ASSUME NEW t \in Threads, WaitFound(t) PROVE ArgsSound'
  <2>1. child_events[t[1]] \in Seq(Pids) BY <1>0 DEF TypeOK
  <2>2. PICK i \in DOMAIN child_events[t[1]] :
             /\ pc' = [pc EXCEPT ![t] = "reap"]
             /\ arg' = [arg EXCEPT ![t] = child_events[t[1]][i]]
        BY <1>10 DEF WaitFound
  <2>3. child_events[t[1]][i] \in Pids BY <2>1
  <2> QED BY <2>2, <2>3 DEF TypeOK, ArgsSound, Sending, Creating
<1>11. ASSUME NEW t \in Threads, WaitNone(t) PROVE ArgsSound'
    BY <1>11, <1>0 DEF WaitNone, Leaves, At, table, monitor, queue, TypeOK, ArgsSound, Sending,
       Creating
<1>12. ASSUME NEW t \in Threads, WaitBlocks(t) PROVE ArgsSound'
    BY <1>12, <1>0 DEF WaitBlocks, Moves, At, table, monitor, queue, TypeOK, ArgsSound, Sending,
       Creating
<1>13. ASSUME NEW t \in Threads, WaitWoken(t) PROVE ArgsSound'
    BY <1>13, <1>0 DEF WaitWoken, Moves, At, monitor, queue, TypeOK, ArgsSound, Sending, Creating
<1>14. ASSUME NEW t \in Threads, WaitAborted(t) PROVE ArgsSound'
    BY <1>14, <1>0 DEF WaitAborted, Leaves, At, table, monitor, queue, TypeOK, ArgsSound, Sending,
       Creating
<1>15. ASSUME NEW t \in Threads, Reap(t) PROVE ArgsSound'
    BY <1>15, <1>0 DEF Reap, Leaves, At, monitor, queue, TypeOK, ArgsSound, Sending, Creating
<1>16. ASSUME NEW t \in Threads, NEW p \in Pids, kill(t, p) PROVE ArgsSound'
    BY <1>16, <1>0 DEF kill, Enters, table, monitor, queue, TypeOK, ArgsSound, Sending, Creating
<1>17. ASSUME NEW t \in Threads, NEW p \in Pids, KillHandled(t, p) PROVE ArgsSound'
    BY <1>17, <1>0 DEF KillHandled, monitor, queue, TypeOK, ArgsSound, Sending, Creating
<1>18. ASSUME NEW t \in Threads, NEW a \in {"default", "function"}, syscall_sigaction(t, a)
       PROVE  ArgsSound'
    BY <1>18, <1>0 DEF syscall_sigaction, monitor, queue, TypeOK, ArgsSound, Sending, Creating
<1>19. ASSUME NEW t \in Threads, NEW pid \in Pids \cup {ANY}, syscall_waitpid(t, pid)
       PROVE  ArgsSound'
    BY <1>19, <1>0 DEF syscall_waitpid, Enters, table, monitor, queue, TypeOK, ArgsSound, Sending,
       Creating
<1>20. ASSUME MonitorIdle PROVE ArgsSound'
    BY <1>20, <1>0 DEF MonitorIdle, table, queue, TypeOK, ArgsSound, Sending, Creating
<1>21. ASSUME MonitorTakes PROVE ArgsSound'
    BY <1>21, <1>0 DEF MonitorTakes, table, queue, TypeOK, ArgsSound, Sending, Creating
<1>22. ASSUME ExecFails PROVE ArgsSound'
    BY <1>22, <1>0 DEF ExecFails, table, queue, TypeOK, ArgsSound, Sending, Creating
<1>23. ASSUME MonitorKills PROVE ArgsSound'
    BY ZenonT(30), <1>23, <1>0 DEF MonitorKills, queue, TypeOK, ArgsSound, Sending, Creating
<1>24. ASSUME ExecCreates PROVE ArgsSound'
    BY <1>24, <1>0 DEF ExecCreates, queue, TypeOK, ArgsSound, Sending, Creating
<1>25. ASSUME ExitFrees PROVE ArgsSound'
    BY <1>25, <1>0 DEF ExitFrees, queue, TypeOK, ArgsSound, Sending, Creating
<1>26. ASSUME task_send_child_event PROVE ArgsSound'
    BY <1>26, <1>0 DEF task_send_child_event, queue, TypeOK, ArgsSound, Sending, Creating
<1>27. ASSUME ChildTrigger PROVE ArgsSound'
    BY <1>27, <1>0 DEF ChildTrigger, queue, TypeOK, ArgsSound, Sending, Creating
<1>28. ASSUME MonitorDone PROVE ArgsSound'
    BY <1>28, <1>0 DEF MonitorDone, table, TypeOK, ArgsSound, Sending, Creating
<1>29. ASSUME MonitorAwaits PROVE ArgsSound'
    BY <1>29, <1>0 DEF MonitorAwaits, table, TypeOK, ArgsSound, Sending, Creating
<1> QED BY ONLY Next, <1>1, <1>2, <1>3, <1>4, <1>5, <1>6, <1>7, <1>8, <1>9, <1>10, <1>11,
           <1>12, <1>13, <1>14, <1>15, <1>16, <1>17, <1>18, <1>19, <1>20, <1>21, <1>22,
           <1>23, <1>24, <1>25, <1>26, <1>27, <1>28, <1>29
    DEF Next, Program, Continue, Monitor

(* Every step keeps MainThreads. *)
LEMMA MainStep ==
    ASSUME TypeOK, ArgsSound, MainThreads, JobThere, Next
    PROVE  MainThreads'
<1>1. ASSUME NEW t \in Threads, PcreateReserve(t) PROVE MainThreads'
    BY <1>1 DEF PcreateReserve, Enters, monitor, queue, TypeOK, MainThreads, Ids, Threads
<1>2. ASSUME NEW t \in Threads, PcreateFail(t) PROVE MainThreads'
    BY <1>2 DEF PcreateFail, Leaves, At, monitor, queue, TypeOK, MainThreads, Ids, Threads
<1>3. ASSUME NEW t \in Threads, PcreatePublish(t) PROVE MainThreads'
    BY <1>3 DEF PcreatePublish, Moves, At, monitor, queue, TypeOK, MainThreads, Ids, Threads
<1>4. ASSUME NEW t \in Threads, syscall_fork(t) PROVE MainThreads'
    BY <1>4 DEF syscall_fork, At, monitor, queue, TypeOK, MainThreads, Ids, Threads
<1>5. ASSUME NEW t \in Threads, exit(t) PROVE MainThreads'
    BY <1>5 DEF exit, Enters, table, monitor, queue, TypeOK, MainThreads, Ids, Threads
<1>6. ASSUME NEW t \in Threads, execve(t) PROVE MainThreads'
    BY <1>6 DEF execve, Enters, table, monitor, queue, TypeOK, MainThreads, Ids, Threads
<1>7. ASSUME NEW t \in Threads, userspace_send_request(t) PROVE MainThreads'
  <2>1. t[2] = 0 BY <1>7 DEF userspace_send_request, MainThreads
  <2>2. Request(t) \in Requests /\ Request(t).tid = 0
        BY <1>7, <2>1, RequestTyped DEF userspace_send_request, Sending, Request
  <2>3. \A n \in Ids' : userspace_requests'[n].tid = 0
    <3>1. userspace_requests \in Seq(Requests) BY DEF TypeOK
    <3>2. userspace_requests' = Append(userspace_requests, Request(t))
          BY <1>7 DEF userspace_send_request
    <3> QED BY ONLY <2>2, <3>1, <3>2, AppendProperties, MainThreads DEF MainThreads, Ids
  <2>4. \A u \in Threads : pc'[u] \notin {"none", "user"} => u[2] = 0
        BY <1>7, <2>1 DEF userspace_send_request, TypeOK, MainThreads
  <2> QED BY <2>3, <2>4 DEF MainThreads
<1>8. ASSUME NEW t \in Threads, ExecveAborted(t) PROVE MainThreads'
    BY <1>8 DEF ExecveAborted, At, table, monitor, queue, TypeOK, MainThreads, Ids, Threads
<1>9. ASSUME NEW t \in Threads, ExecveReturns(t) PROVE MainThreads'
    BY <1>9 DEF ExecveReturns, Leaves, At, table, monitor, queue, TypeOK, MainThreads, Ids, Threads
<1>10. ASSUME NEW t \in Threads, WaitFound(t) PROVE MainThreads'
    BY <1>10 DEF WaitFound, At, monitor, queue, TypeOK, MainThreads, Ids, Threads
<1>11. ASSUME NEW t \in Threads, WaitNone(t) PROVE MainThreads'
    BY <1>11 DEF WaitNone, Leaves, At, table, monitor, queue, TypeOK, MainThreads, Ids, Threads
<1>12. ASSUME NEW t \in Threads, WaitBlocks(t) PROVE MainThreads'
    BY <1>12 DEF WaitBlocks, Moves, At, table, monitor, queue, TypeOK, MainThreads, Ids, Threads
<1>13. ASSUME NEW t \in Threads, WaitWoken(t) PROVE MainThreads'
    BY <1>13 DEF WaitWoken, Moves, At, monitor, queue, TypeOK, MainThreads, Ids, Threads
<1>14. ASSUME NEW t \in Threads, WaitAborted(t) PROVE MainThreads'
    BY <1>14 DEF WaitAborted, Leaves, At, table, monitor, queue, TypeOK, MainThreads, Ids, Threads
<1>15. ASSUME NEW t \in Threads, Reap(t) PROVE MainThreads'
    BY <1>15 DEF Reap, Leaves, At, monitor, queue, TypeOK, MainThreads, Ids, Threads
<1>16. ASSUME NEW t \in Threads, NEW p \in Pids, kill(t, p) PROVE MainThreads'
    BY <1>16 DEF kill, Enters, table, monitor, queue, TypeOK, MainThreads, Ids, Threads
<1>17. ASSUME NEW t \in Threads, NEW p \in Pids, KillHandled(t, p) PROVE MainThreads'
    BY <1>17 DEF KillHandled, monitor, queue, TypeOK, MainThreads, Ids, Threads
<1>18. ASSUME NEW t \in Threads, NEW a \in {"default", "function"}, syscall_sigaction(t, a)
       PROVE  MainThreads'
    BY <1>18 DEF syscall_sigaction, monitor, queue, TypeOK, MainThreads, Ids, Threads
<1>19. ASSUME NEW t \in Threads, NEW pid \in Pids \cup {ANY}, syscall_waitpid(t, pid)
       PROVE  MainThreads'
    BY <1>19 DEF syscall_waitpid, Enters, table, monitor, queue, TypeOK, MainThreads, Ids, Threads
<1>20. ASSUME MonitorIdle PROVE MainThreads'
    BY <1>20 DEF MonitorIdle, table, queue, TypeOK, MainThreads, Ids, Threads
<1>21. ASSUME MonitorTakes PROVE MainThreads'
    BY <1>21 DEF MonitorTakes, table, queue, TypeOK, MainThreads, Ids, Threads
<1>22. ASSUME ExecFails PROVE MainThreads'
  <2>1. Job.tid = 0 BY <1>22 DEF ExecFails, Job, MainThreads, Ids, TypeOK
  <2> QED BY <1>22, <2>1 DEF ExecFails, queue, TypeOK, MainThreads, Ids
<1>23. ASSUME MonitorKills PROVE MainThreads'
    BY <1>23 DEF MonitorKills, queue, TypeOK, MainThreads, Ids, Threads
<1>24. ASSUME ExecCreates PROVE MainThreads'
    BY <1>24 DEF ExecCreates, queue, TypeOK, MainThreads, Ids, Threads
<1>25. ASSUME ExitFrees PROVE MainThreads'
    BY <1>25 DEF ExitFrees, queue, TypeOK, MainThreads, Ids, Threads
<1>26. ASSUME task_send_child_event PROVE MainThreads'
    BY <1>26 DEF task_send_child_event, queue, TypeOK, MainThreads, Ids, Threads
<1>27. ASSUME ChildTrigger PROVE MainThreads'
    BY <1>27 DEF ChildTrigger, queue, TypeOK, MainThreads, Ids, Threads
<1>28. ASSUME MonitorDone PROVE MainThreads'
  <2>1. \A n \in Ids' : n + 1 \in Ids /\ userspace_requests'[n] = userspace_requests[n + 1]
        BY <1>28, HeadTailProperties DEF MonitorDone, Served, TypeOK, JobThere, Ids
  <2> QED BY <1>28, <2>1 DEF MonitorDone, MainThreads
<1>29. ASSUME MonitorAwaits PROVE MainThreads'
    BY <1>29 DEF MonitorAwaits, table, TypeOK, MainThreads, Ids, Threads
<1> QED BY ONLY Next, <1>1, <1>2, <1>3, <1>4, <1>5, <1>6, <1>7, <1>8, <1>9, <1>10, <1>11,
           <1>12, <1>13, <1>14, <1>15, <1>16, <1>17, <1>18, <1>19, <1>20, <1>21, <1>22,
           <1>23, <1>24, <1>25, <1>26, <1>27, <1>28, <1>29
    DEF Next, Program, Continue, Monitor

(* Every step keeps a token for every request. *)
LEMMA QueueStep ==
    ASSUME TypeOK, ArgsSound, JobThere, TokensCover, Next
    PROVE  JobThere' /\ TokensCover'
<1>1. ASSUME NEW t \in Threads, PcreateReserve(t) PROVE JobThere' /\ TokensCover'
    BY <1>1 DEF PcreateReserve, Enters, monitor, queue, TypeOK, JobThere, TokensCover,
       NoRequestForgotten
<1>2. ASSUME NEW t \in Threads, PcreateFail(t) PROVE JobThere' /\ TokensCover'
    BY <1>2 DEF PcreateFail, Leaves, At, monitor, queue, TypeOK, JobThere, TokensCover,
       NoRequestForgotten
<1>3. ASSUME NEW t \in Threads, PcreatePublish(t) PROVE JobThere' /\ TokensCover'
    BY <1>3 DEF PcreatePublish, Moves, At, monitor, queue, TypeOK, JobThere, TokensCover,
       NoRequestForgotten
<1>4. ASSUME NEW t \in Threads, syscall_fork(t) PROVE JobThere' /\ TokensCover'
    BY <1>4 DEF syscall_fork, At, monitor, queue, TypeOK, JobThere, TokensCover, NoRequestForgotten
<1>5. ASSUME NEW t \in Threads, exit(t) PROVE JobThere' /\ TokensCover'
    BY <1>5 DEF exit, Enters, table, monitor, queue, TypeOK, JobThere, TokensCover,
       NoRequestForgotten
<1>6. ASSUME NEW t \in Threads, execve(t) PROVE JobThere' /\ TokensCover'
    BY <1>6 DEF execve, Enters, table, monitor, queue, TypeOK, JobThere, TokensCover,
       NoRequestForgotten
<1>7. ASSUME NEW t \in Threads, userspace_send_request(t) PROVE JobThere' /\ TokensCover'
    BY <1>7, RequestTyped, AppendProperties DEF userspace_send_request, table, monitor, TypeOK,
       JobThere, TokensCover,
       NoRequestForgotten, LockFree, Sending
<1>8. ASSUME NEW t \in Threads, ExecveAborted(t) PROVE JobThere' /\ TokensCover'
    BY <1>8 DEF ExecveAborted, At, table, monitor, queue, TypeOK, JobThere, TokensCover,
       NoRequestForgotten
<1>9. ASSUME NEW t \in Threads, ExecveReturns(t) PROVE JobThere' /\ TokensCover'
    BY <1>9 DEF ExecveReturns, Leaves, At, table, monitor, queue, TypeOK, JobThere, TokensCover,
       NoRequestForgotten
<1>10. ASSUME NEW t \in Threads, WaitFound(t) PROVE JobThere' /\ TokensCover'
    BY <1>10 DEF WaitFound, At, monitor, queue, TypeOK, JobThere, TokensCover, NoRequestForgotten
<1>11. ASSUME NEW t \in Threads, WaitNone(t) PROVE JobThere' /\ TokensCover'
    BY <1>11 DEF WaitNone, Leaves, At, table, monitor, queue, TypeOK, JobThere, TokensCover,
       NoRequestForgotten
<1>12. ASSUME NEW t \in Threads, WaitBlocks(t) PROVE JobThere' /\ TokensCover'
    BY <1>12 DEF WaitBlocks, Moves, At, table, monitor, queue, TypeOK, JobThere, TokensCover,
       NoRequestForgotten
<1>13. ASSUME NEW t \in Threads, WaitWoken(t) PROVE JobThere' /\ TokensCover'
    BY <1>13 DEF WaitWoken, Moves, At, monitor, queue, TypeOK, JobThere, TokensCover,
       NoRequestForgotten
<1>14. ASSUME NEW t \in Threads, WaitAborted(t) PROVE JobThere' /\ TokensCover'
    BY <1>14 DEF WaitAborted, Leaves, At, table, monitor, queue, TypeOK, JobThere, TokensCover,
       NoRequestForgotten
<1>15. ASSUME NEW t \in Threads, Reap(t) PROVE JobThere' /\ TokensCover'
    BY <1>15 DEF Reap, Leaves, At, monitor, queue, TypeOK, JobThere, TokensCover, NoRequestForgotten
<1>16. ASSUME NEW t \in Threads, NEW p \in Pids, kill(t, p) PROVE JobThere' /\ TokensCover'
    BY <1>16 DEF kill, Enters, table, monitor, queue, TypeOK, JobThere, TokensCover,
       NoRequestForgotten
<1>17. ASSUME NEW t \in Threads, NEW p \in Pids, KillHandled(t, p) PROVE JobThere' /\ TokensCover'
    BY <1>17 DEF KillHandled, monitor, queue, TypeOK, JobThere, TokensCover, NoRequestForgotten
<1>18. ASSUME NEW t \in Threads, NEW a \in {"default", "function"}, syscall_sigaction(t, a)
       PROVE  JobThere' /\ TokensCover'
    BY <1>18 DEF syscall_sigaction, monitor, queue, TypeOK, JobThere, TokensCover,
       NoRequestForgotten
<1>19. ASSUME NEW t \in Threads, NEW pid \in Pids \cup {ANY}, syscall_waitpid(t, pid)
       PROVE  JobThere' /\ TokensCover'
    BY <1>19 DEF syscall_waitpid, Enters, table, monitor, queue, TypeOK, JobThere, TokensCover,
       NoRequestForgotten
<1>20. ASSUME MonitorIdle PROVE JobThere' /\ TokensCover'
    BY <1>20 DEF MonitorIdle, table, queue, TypeOK, JobThere, TokensCover, NoRequestForgotten
<1>21. ASSUME MonitorTakes PROVE JobThere' /\ TokensCover'
    BY <1>21 DEF MonitorTakes, table, queue, TypeOK, JobThere, TokensCover, NoRequestForgotten
<1>22. ASSUME ExecFails PROVE JobThere' /\ TokensCover'
    BY <1>22 DEF ExecFails, table, queue, TypeOK, JobThere, TokensCover, NoRequestForgotten
<1>23. ASSUME MonitorKills PROVE JobThere' /\ TokensCover'
    BY <1>23 DEF MonitorKills, queue, TypeOK, JobThere, TokensCover, NoRequestForgotten
<1>24. ASSUME ExecCreates PROVE JobThere' /\ TokensCover'
    BY <1>24 DEF ExecCreates, queue, TypeOK, JobThere, TokensCover, NoRequestForgotten
<1>25. ASSUME ExitFrees PROVE JobThere' /\ TokensCover'
    BY <1>25 DEF ExitFrees, queue, TypeOK, JobThere, TokensCover, NoRequestForgotten
<1>26. ASSUME task_send_child_event PROVE JobThere' /\ TokensCover'
    BY <1>26 DEF task_send_child_event, queue, TypeOK, JobThere, TokensCover, NoRequestForgotten
<1>27. ASSUME ChildTrigger PROVE JobThere' /\ TokensCover'
    BY <1>27 DEF ChildTrigger, queue, TypeOK, JobThere, TokensCover, NoRequestForgotten
<1>28. ASSUME MonitorDone PROVE JobThere' /\ TokensCover'
    BY <1>28 DEF MonitorDone, table, TypeOK, JobThere, TokensCover, NoRequestForgotten, Served
<1>29. ASSUME MonitorAwaits PROVE JobThere' /\ TokensCover'
    BY <1>29 DEF MonitorAwaits, table, TypeOK, JobThere, TokensCover, NoRequestForgotten, HasToken,
       TakeToken
<1> QED BY ONLY Next, <1>1, <1>2, <1>3, <1>4, <1>5, <1>6, <1>7, <1>8, <1>9, <1>10, <1>11,
           <1>12, <1>13, <1>14, <1>15, <1>16, <1>17, <1>18, <1>19, <1>20, <1>21, <1>22,
           <1>23, <1>24, <1>25, <1>26, <1>27, <1>28, <1>29
    DEF Next, Program, Continue, Monitor

(* A thread is its process and its number. *)
LEMMA SameThread ==
    ASSUME NEW t \in Threads, NEW u \in Threads, t[1] = u[1], t[2] = u[2]
    PROVE  t = u
  BY DEF Threads

(* No step puts a waiter to sleep over its event: the list is tested under the
   lock, and the event and its trigger are one critical section. *)
LEMMA WakeupStep ==
    ASSUME TypeOK, ArgsSound, MainThreads, JobThere, WakeupNotLost, Next
    PROVE  WakeupNotLost'
<1>0. \A t \in Threads : t[1] \in Pids BY DEF Threads
<1>1. ASSUME NEW t \in Threads, PcreateReserve(t) PROVE WakeupNotLost'
    BY SMTT(30), <1>1, <1>0 DEF PcreateReserve, Enters, monitor, queue, TypeOK, WakeupNotLost, NoMatch
<1>2. ASSUME NEW t \in Threads, PcreateFail(t) PROVE WakeupNotLost'
    BY <1>2, <1>0 DEF PcreateFail, Leaves, At, monitor, queue, TypeOK, WakeupNotLost, NoMatch
<1>3. ASSUME NEW t \in Threads, PcreatePublish(t) PROVE WakeupNotLost'
    BY SMTT(30), <1>3, <1>0 DEF PcreatePublish, Moves, At, monitor, queue, TypeOK, WakeupNotLost, NoMatch
<1>4. ASSUME NEW t \in Threads, syscall_fork(t) PROVE WakeupNotLost'
    BY <1>4, <1>0 DEF syscall_fork, At, monitor, queue, TypeOK, WakeupNotLost, NoMatch
<1>5. ASSUME NEW t \in Threads, exit(t) PROVE WakeupNotLost'
    BY <1>5, <1>0 DEF exit, Enters, table, monitor, queue, TypeOK, WakeupNotLost, NoMatch
<1>6. ASSUME NEW t \in Threads, execve(t) PROVE WakeupNotLost'
    BY <1>6, <1>0 DEF execve, Enters, table, monitor, queue, TypeOK, WakeupNotLost, NoMatch
<1>7. ASSUME NEW t \in Threads, userspace_send_request(t) PROVE WakeupNotLost'
    BY <1>7, <1>0 DEF userspace_send_request, table, monitor, TypeOK, WakeupNotLost, NoMatch,
       AfterSend
<1>8. ASSUME NEW t \in Threads, ExecveAborted(t) PROVE WakeupNotLost'
    BY <1>8, <1>0 DEF ExecveAborted, At, table, monitor, queue, TypeOK, WakeupNotLost, NoMatch
<1>9. ASSUME NEW t \in Threads, ExecveReturns(t) PROVE WakeupNotLost'
    BY <1>9, <1>0 DEF ExecveReturns, Leaves, At, table, monitor, queue, TypeOK, WakeupNotLost,
       NoMatch
<1>10. ASSUME NEW t \in Threads, WaitFound(t) PROVE WakeupNotLost'
  <2>1. \A u \in Threads : pc'[u] = "await" => pc[u] = "await" /\ u[1] # t[1]
    <3>1. t[2] = 0 BY <1>10 DEF MainThreads, WaitFound, At
    <3>2. \A u \in Threads : pc'[u] = "await" => pc[u] = "await" /\ u # t
          BY <1>10 DEF TypeOK, WaitFound, At
    <3> QED BY <3>1, <3>2, SameThread DEF MainThreads
  <2> QED BY <1>10, <2>1, <1>0 DEF TypeOK, WakeupNotLost, NoMatch, WaitFound, queue, monitor
<1>11. ASSUME NEW t \in Threads, WaitNone(t) PROVE WakeupNotLost'
    BY <1>11, <1>0 DEF WaitNone, Leaves, At, table, monitor, queue, TypeOK, WakeupNotLost, NoMatch
<1>12. ASSUME NEW t \in Threads, WaitBlocks(t) PROVE WakeupNotLost'
    BY <1>12, <1>0 DEF WaitBlocks, Moves, At, table, monitor, queue, TypeOK, WakeupNotLost, NoMatch
<1>13. ASSUME NEW t \in Threads, WaitWoken(t) PROVE WakeupNotLost'
  <2>1. \A u \in Threads : pc'[u] = "await" => pc[u] = "await" /\ u[1] # t[1]
    <3>1. t[2] = 0 BY <1>13 DEF MainThreads, WaitWoken, At
    <3>2. \A u \in Threads : pc'[u] = "await" => pc[u] = "await" /\ u # t
          BY <1>13 DEF TypeOK, WaitWoken, At, Moves
    <3> QED BY <3>1, <3>2, SameThread DEF MainThreads
  <2> QED BY <1>13, <2>1, <1>0 DEF TypeOK, WakeupNotLost, NoMatch, WaitWoken, Moves, queue, monitor
<1>14. ASSUME NEW t \in Threads, WaitAborted(t) PROVE WakeupNotLost'
    BY <1>14, <1>0 DEF WaitAborted, Leaves, At, table, monitor, queue, TypeOK, WakeupNotLost,
       NoMatch
<1>15. ASSUME NEW t \in Threads, Reap(t) PROVE WakeupNotLost'
    BY <1>15, <1>0 DEF Reap, Leaves, At, monitor, queue, TypeOK, WakeupNotLost, NoMatch
<1>16. ASSUME NEW t \in Threads, NEW p \in Pids, kill(t, p) PROVE WakeupNotLost'
    BY <1>16, <1>0 DEF kill, Enters, table, monitor, queue, TypeOK, WakeupNotLost, NoMatch
<1>17. ASSUME NEW t \in Threads, NEW p \in Pids, KillHandled(t, p) PROVE WakeupNotLost'
    BY <1>17, <1>0 DEF KillHandled, monitor, queue, TypeOK, WakeupNotLost, NoMatch
<1>18. ASSUME NEW t \in Threads, NEW a \in {"default", "function"}, syscall_sigaction(t, a)
       PROVE  WakeupNotLost'
    BY <1>18, <1>0 DEF syscall_sigaction, monitor, queue, TypeOK, WakeupNotLost, NoMatch
<1>19. ASSUME NEW t \in Threads, NEW pid \in Pids \cup {ANY}, syscall_waitpid(t, pid)
       PROVE  WakeupNotLost'
    BY <1>19, <1>0 DEF syscall_waitpid, Enters, table, monitor, queue, TypeOK, WakeupNotLost,
       NoMatch
<1>20. ASSUME MonitorIdle PROVE WakeupNotLost'
    BY <1>20, <1>0 DEF MonitorIdle, table, queue, TypeOK, WakeupNotLost, NoMatch
<1>21. ASSUME MonitorTakes PROVE WakeupNotLost'
    BY <1>21, <1>0 DEF MonitorTakes, table, queue, TypeOK, WakeupNotLost, NoMatch
<1>22. ASSUME ExecFails PROVE WakeupNotLost'
    BY <1>22, <1>0 DEF ExecFails, table, queue, TypeOK, WakeupNotLost, NoMatch
<1>23. ASSUME MonitorKills PROVE WakeupNotLost'
    BY <1>23, <1>0 DEF MonitorKills, queue, TypeOK, WakeupNotLost, NoMatch
<1>24. ASSUME ExecCreates PROVE WakeupNotLost'
    BY <1>24, <1>0 DEF ExecCreates, queue, TypeOK, WakeupNotLost, NoMatch
<1>25. ASSUME ExitFrees PROVE WakeupNotLost'
    BY <1>25, <1>0 DEF ExitFrees, queue, TypeOK, WakeupNotLost, NoMatch
<1>26. ASSUME task_send_child_event PROVE WakeupNotLost'
    BY <1>26, <1>0 DEF task_send_child_event, queue, TypeOK, WakeupNotLost, NoMatch
<1>27. ASSUME ChildTrigger PROVE WakeupNotLost'
    BY SMTT(30), <1>27, <1>0 DEF ChildTrigger, queue, TypeOK, WakeupNotLost, NoMatch, Triggered
<1>28. ASSUME MonitorDone PROVE WakeupNotLost'
    BY <1>28, <1>0 DEF MonitorDone, table, TypeOK, WakeupNotLost, NoMatch
<1>29. ASSUME MonitorAwaits PROVE WakeupNotLost'
    BY <1>29, <1>0 DEF MonitorAwaits, table, TypeOK, WakeupNotLost, NoMatch
<1> QED BY ONLY Next, <1>1, <1>2, <1>3, <1>4, <1>5, <1>6, <1>7, <1>8, <1>9, <1>10, <1>11,
           <1>12, <1>13, <1>14, <1>15, <1>16, <1>17, <1>18, <1>19, <1>20, <1>21, <1>22,
           <1>23, <1>24, <1>25, <1>26, <1>27, <1>28, <1>29
    DEF Next, Program, Continue, Monitor

-----------------------------------------------------------------------------
(* Until it is carried out the monitor's request counts. *)
LEMMA JobUnserved ==
    ASSUME TypeOK, userspace_requests # <<>>, ~HeadServed
    PROVE  /\ Job.type = "exit" => Ending(Job.pid)
           /\ Job.type # "exit" => Job.type = "execve" /\ Execing(Job.pid)
<1>1. 1 \in Ids /\ userspace_requests[1] = Job BY DEF TypeOK, Job, Ids
<1>2. 1 \in Unserved BY <1>1 DEF Unserved
<1>3. Job.type \in {"exit", "execve"} BY JobTyped DEF Requests
<1> QED BY <1>1, <1>2, <1>3 DEF Ending, Execing

(* What the monitor kills is neither creating a process nor freeing one.     *)
LEMMA KilledPlaces ==
    ASSUME Disciplined, BasicInv, FamilyInv, urm = "kill",
           NEW i \in Tids, i \in threads[Job.pid]
    PROVE  /\ pc[<<Job.pid, i>>] \notin Creating \cup {"reap"}
           /\ Job.type = "execve" => i = 0 /\ pc[<<Job.pid, i>>] = "execve"
<1>1. userspace_requests # <<>> /\ ~HeadServed BY DEF BasicInv, JobThere, HeadServed
<1>2. Job.pid \in Pids /\ <<Job.pid, i>> \in Threads
      BY <1>1, JobTyped DEF BasicInv, Threads
<1>3. CASE Job.type = "exit"
  <2>1. Ending(Job.pid) BY <1>1, <1>3, JobUnserved DEF BasicInv
  <2>2. /\ Children(Job.pid) = {}
        /\ \A t \in Threads : t[1] = Job.pid => pc[t] \notin Creating
        BY <1>2, <2>1 DEF FamilyInv, EndingSound
  <2>3. pc[<<Job.pid, i>>] # "reap" BY <1>2, <2>2 DEF FamilyInv, EventsSound
  <2> QED BY <1>2, <1>3, <2>2, <2>3
<1>4. CASE Job.type # "exit"
  <2>1. Execing(Job.pid) BY <1>1, <1>4, JobUnserved DEF BasicInv
  <2>2. Job.pid \notin Victims /\ pc[<<Job.pid, 0>>] \in {"execve", "none"}
        BY <1>2, <2>1 DEF FamilyInv, ExecSound, Disciplined
  <2>3. i = 0 /\ pc[<<Job.pid, i>>] # "none" BY <1>2, <2>2 DEF FamilyInv, ThreadsSound
  <2> QED BY <2>2, <2>3 DEF Creating
<1> QED BY <1>3, <1>4

(* A request reaches the end of the queue.                                   *)
LEMMA Sent ==
    ASSUME TypeOK, ArgsSound, NEW t \in Threads, userspace_send_request(t)
    PROVE  /\ Request(t) \in Requests
           /\ Len(userspace_requests) + 1 \in Ids'
           /\ userspace_requests'[Len(userspace_requests) + 1] = Request(t)
           /\ \A n \in Ids' :
                 \/ n \in Ids /\ userspace_requests'[n] = userspace_requests[n]
                 \/ n = Len(userspace_requests) + 1 /\ n \notin Ids
           /\ \A n \in Ids : n \in Ids' /\ userspace_requests'[n] = userspace_requests[n]
<1>1. Request(t) \in Requests BY RequestTyped DEF userspace_send_request, Sending
<1>2. userspace_requests \in Seq(Requests) BY DEF TypeOK
<1>3. userspace_requests' = Append(userspace_requests, Request(t))
      BY DEF userspace_send_request
<1> QED BY ONLY <1>1, <1>2, <1>3, AppendProperties DEF Ids

(* The served request leaves the front.                                      *)
LEMMA Shifted ==
    ASSUME TypeOK, JobThere, MonitorDone
    PROVE  /\ \A n \in Ids' : /\ n \in Nat /\ n + 1 \in Ids
                             /\ userspace_requests'[n] = userspace_requests[n + 1]
           /\ \A n \in Ids : n > 1 => /\ n - 1 \in Ids'
                                     /\ userspace_requests'[n - 1] = userspace_requests[n]
<1>1. userspace_requests \in Seq(Requests) /\ userspace_requests # <<>>
      BY DEF TypeOK, JobThere, MonitorDone
<1>2. userspace_requests' = Tail(userspace_requests) BY DEF MonitorDone, Served
<1> QED BY ONLY <1>1, <1>2, HeadTailProperties DEF Ids

(* Only a request and the end of one change the queue.                       *)
LEMMA QueueCases ==
    ASSUME TypeOK, Next
    PROVE  \/ UNCHANGED userspace_requests /\ Unserved' \subseteq Unserved
           \/ \E t \in Threads : userspace_send_request(t)
           \/ MonitorDone
<1>1. ASSUME NEW t \in Threads, Program(t) PROVE UNCHANGED <<queue, urm>>
      BY <1>1 DEF Program, PcreateReserve, exit, execve, kill, KillHandled, syscall_sigaction,
                  syscall_waitpid, queue, monitor
<1>2. ASSUME NEW t \in Threads, Continue(t) \/ PcreateFail(t) \/ WaitNone(t),
             ~userspace_send_request(t)
      PROVE  UNCHANGED <<queue, urm>>
      BY <1>2 DEF Continue, PcreateFail, PcreatePublish, syscall_fork, ExecveAborted,
                  ExecveReturns, WaitFound, WaitNone, WaitBlocks, WaitWoken, WaitAborted, Reap,
                  queue, monitor
<1>3. Monitor /\ ~MonitorDone => UNCHANGED userspace_requests /\ (HeadServed => HeadServed')
      BY DEF Monitor, MonitorIdle, MonitorTakes, ExecFails, MonitorKills, ExecCreates, ExitFrees,
             task_send_child_event, ChildTrigger, MonitorAwaits, queue, HeadServed
<1>4. UNCHANGED <<queue, urm>> => UNCHANGED userspace_requests /\ (HeadServed => HeadServed')
      BY DEF queue, HeadServed
<1>5. UNCHANGED userspace_requests /\ (HeadServed => HeadServed') => Unserved' \subseteq Unserved
      BY DEF Unserved, Ids
<1> QED BY <1>1, <1>2, <1>3, <1>4, <1>5 DEF Next

(* Requests are sent while the monitor does not hold the lock of the queue. *)
LEMMA SentUnserved ==
    ASSUME NEW t, userspace_send_request(t)
    PROVE  Unserved = Ids /\ Unserved' = Ids'
  BY DEF Unserved, HeadServed, userspace_send_request, LockFree, monitor

(* Where an unserved request comes from.                                     *)
LEMMA UnservedStep ==
    ASSUME TypeOK, ArgsSound, JobThere, Next, NEW n \in Unserved'
    PROVE  \/ \E m \in Unserved : userspace_requests'[n] = userspace_requests[m]
           \/ \E t \in Threads : userspace_send_request(t) /\ userspace_requests'[n] = Request(t)
<1>1. n \in Ids' /\ (n > 1 \/ ~HeadServed') BY DEF Unserved
<1>2. CASE UNCHANGED userspace_requests /\ Unserved' \subseteq Unserved
      BY <1>2
<1>3. ASSUME NEW t \in Threads, userspace_send_request(t)
      PROVE  \/ \E m \in Unserved : userspace_requests'[n] = userspace_requests[m]
             \/ userspace_requests'[n] = Request(t)
  <2>1. Unserved = Ids BY <1>3, SentUnserved
  <2> QED BY <1>1, <1>3, <2>1, Sent
<1>4. CASE MonitorDone
  <2>1. n \in Nat /\ n + 1 \in Ids /\ userspace_requests'[n] = userspace_requests[n + 1]
        BY <1>1, <1>4, Shifted
  <2>2. n > 0 BY <1>1, <1>4, TypeStep DEF Ids, TypeOK
  <2>3. n + 1 \in Unserved BY <2>1, <2>2 DEF Unserved
  <2> QED BY <2>1, <2>3
<1> QED BY <1>2, <1>3, <1>4, QueueCases

(* A request for an end is started by exit and kill only. *)
LEMMA AsksStep ==
    ASSUME TypeOK, ArgsSound, JobThere, NEW u \in Threads, NEW x \in Pids, Asks(u, x)', Next
    PROVE  Asks(u, x) \/ (exit(u) /\ x = u[1]) \/ kill(u, x)
<1>1. ASSUME NEW t \in Threads, PcreateReserve(t)
      PROVE  Asks(u, x) \/ (exit(u) /\ x = u[1]) \/ kill(u, x)
    BY <1>1 DEF PcreateReserve, Enters, monitor, queue, TypeOK, Asks
<1>2. ASSUME NEW t \in Threads, PcreateFail(t)
      PROVE  Asks(u, x) \/ (exit(u) /\ x = u[1]) \/ kill(u, x)
    BY <1>2 DEF PcreateFail, Leaves, At, monitor, queue, TypeOK, Asks
<1>3. ASSUME NEW t \in Threads, PcreatePublish(t)
      PROVE  Asks(u, x) \/ (exit(u) /\ x = u[1]) \/ kill(u, x)
    BY <1>3 DEF PcreatePublish, Moves, At, monitor, queue, TypeOK, Asks
<1>4. ASSUME NEW t \in Threads, syscall_fork(t)
      PROVE  Asks(u, x) \/ (exit(u) /\ x = u[1]) \/ kill(u, x)
    BY <1>4 DEF syscall_fork, At, monitor, queue, TypeOK, Asks
<1>5. ASSUME NEW t \in Threads, exit(t) PROVE Asks(u, x) \/ (exit(u) /\ x = u[1]) \/ kill(u, x)
    BY <1>5 DEF exit, Enters, table, monitor, queue, TypeOK, Asks
<1>6. ASSUME NEW t \in Threads, execve(t) PROVE Asks(u, x) \/ (exit(u) /\ x = u[1]) \/ kill(u, x)
    BY <1>6 DEF execve, Enters, table, monitor, queue, TypeOK, Asks
<1>7. ASSUME NEW t \in Threads, userspace_send_request(t)
      PROVE  Asks(u, x) \/ (exit(u) /\ x = u[1]) \/ kill(u, x)
    BY <1>7 DEF userspace_send_request, table, monitor, TypeOK, Asks, AfterSend
<1>8. ASSUME NEW t \in Threads, ExecveAborted(t)
      PROVE  Asks(u, x) \/ (exit(u) /\ x = u[1]) \/ kill(u, x)
    BY <1>8 DEF ExecveAborted, At, table, monitor, queue, TypeOK, Asks
<1>9. ASSUME NEW t \in Threads, ExecveReturns(t)
      PROVE  Asks(u, x) \/ (exit(u) /\ x = u[1]) \/ kill(u, x)
    BY <1>9 DEF ExecveReturns, Leaves, At, table, monitor, queue, TypeOK, Asks
<1>10. ASSUME NEW t \in Threads, WaitFound(t)
       PROVE  Asks(u, x) \/ (exit(u) /\ x = u[1]) \/ kill(u, x)
    BY <1>10 DEF WaitFound, At, monitor, queue, TypeOK, Asks
<1>11. ASSUME NEW t \in Threads, WaitNone(t)
       PROVE  Asks(u, x) \/ (exit(u) /\ x = u[1]) \/ kill(u, x)
    BY <1>11 DEF WaitNone, Leaves, At, table, monitor, queue, TypeOK, Asks
<1>12. ASSUME NEW t \in Threads, WaitBlocks(t)
       PROVE  Asks(u, x) \/ (exit(u) /\ x = u[1]) \/ kill(u, x)
    BY <1>12 DEF WaitBlocks, Moves, At, table, monitor, queue, TypeOK, Asks
<1>13. ASSUME NEW t \in Threads, WaitWoken(t)
       PROVE  Asks(u, x) \/ (exit(u) /\ x = u[1]) \/ kill(u, x)
    BY <1>13 DEF WaitWoken, Moves, At, monitor, queue, TypeOK, Asks
<1>14. ASSUME NEW t \in Threads, WaitAborted(t)
       PROVE  Asks(u, x) \/ (exit(u) /\ x = u[1]) \/ kill(u, x)
    BY <1>14 DEF WaitAborted, Leaves, At, table, monitor, queue, TypeOK, Asks
<1>15. ASSUME NEW t \in Threads, Reap(t) PROVE Asks(u, x) \/ (exit(u) /\ x = u[1]) \/ kill(u, x)
    BY <1>15 DEF Reap, Leaves, At, monitor, queue, TypeOK, Asks
<1>16. ASSUME NEW t \in Threads, NEW p \in Pids, kill(t, p)
       PROVE  Asks(u, x) \/ (exit(u) /\ x = u[1]) \/ kill(u, x)
    BY <1>16 DEF kill, Enters, table, monitor, queue, TypeOK, Asks
<1>17. ASSUME NEW t \in Threads, NEW p \in Pids, KillHandled(t, p)
       PROVE  Asks(u, x) \/ (exit(u) /\ x = u[1]) \/ kill(u, x)
    BY <1>17 DEF KillHandled, monitor, queue, TypeOK, Asks
<1>18. ASSUME NEW t \in Threads, NEW a \in {"default", "function"}, syscall_sigaction(t, a)
       PROVE  Asks(u, x) \/ (exit(u) /\ x = u[1]) \/ kill(u, x)
    BY <1>18 DEF syscall_sigaction, monitor, queue, TypeOK, Asks
<1>19. ASSUME NEW t \in Threads, NEW pid \in Pids \cup {ANY}, syscall_waitpid(t, pid)
       PROVE  Asks(u, x) \/ (exit(u) /\ x = u[1]) \/ kill(u, x)
    BY <1>19 DEF syscall_waitpid, Enters, table, monitor, queue, TypeOK, Asks
<1>20. ASSUME MonitorIdle PROVE Asks(u, x) \/ (exit(u) /\ x = u[1]) \/ kill(u, x)
    BY <1>20 DEF MonitorIdle, table, queue, TypeOK, Asks
<1>21. ASSUME MonitorTakes PROVE Asks(u, x) \/ (exit(u) /\ x = u[1]) \/ kill(u, x)
    BY <1>21 DEF MonitorTakes, table, queue, TypeOK, Asks
<1>22. ASSUME ExecFails PROVE Asks(u, x) \/ (exit(u) /\ x = u[1]) \/ kill(u, x)
    BY <1>22 DEF ExecFails, table, queue, TypeOK, Asks
<1>23. ASSUME MonitorKills PROVE Asks(u, x) \/ (exit(u) /\ x = u[1]) \/ kill(u, x)
    BY <1>23 DEF MonitorKills, queue, TypeOK, Asks
<1>24. ASSUME ExecCreates PROVE Asks(u, x) \/ (exit(u) /\ x = u[1]) \/ kill(u, x)
    BY <1>24 DEF ExecCreates, queue, TypeOK, Asks
<1>25. ASSUME ExitFrees PROVE Asks(u, x) \/ (exit(u) /\ x = u[1]) \/ kill(u, x)
    BY <1>25 DEF ExitFrees, queue, TypeOK, Asks
<1>26. ASSUME task_send_child_event PROVE Asks(u, x) \/ (exit(u) /\ x = u[1]) \/ kill(u, x)
    BY <1>26 DEF task_send_child_event, queue, TypeOK, Asks
<1>27. ASSUME ChildTrigger PROVE Asks(u, x) \/ (exit(u) /\ x = u[1]) \/ kill(u, x)
    BY <1>27 DEF ChildTrigger, queue, TypeOK, Asks
<1>28. ASSUME MonitorDone PROVE Asks(u, x) \/ (exit(u) /\ x = u[1]) \/ kill(u, x)
    BY <1>28 DEF MonitorDone, table, TypeOK, Asks
<1>29. ASSUME MonitorAwaits PROVE Asks(u, x) \/ (exit(u) /\ x = u[1]) \/ kill(u, x)
    BY <1>29 DEF MonitorAwaits, table, TypeOK, Asks
<1> QED BY ONLY Next, <1>1, <1>2, <1>3, <1>4, <1>5, <1>6, <1>7, <1>8, <1>9, <1>10, <1>11,
           <1>12, <1>13, <1>14, <1>15, <1>16, <1>17, <1>18, <1>19, <1>20, <1>21, <1>22,
           <1>23, <1>24, <1>25, <1>26, <1>27, <1>28, <1>29
    DEF Next, Program, Continue, Monitor

(* A process begins to end by exit or kill. *)
LEMMA EndingStep ==
    ASSUME TypeOK, ArgsSound, JobThere, Next, NEW p \in Pids, Ending(p)'
    PROVE  \/ Ending(p)
           \/ \E t \in Threads : (exit(t) /\ p = t[1]) \/ kill(t, p)
<1>1. ASSUME NEW t \in Threads, Asks(t, p)'
      PROVE  Ending(p) \/ (exit(t) /\ p = t[1]) \/ kill(t, p)
      BY <1>1, AsksStep DEF Ending
<1>2. ASSUME NEW n \in Unserved', userspace_requests'[n].type = "exit", userspace_requests'[n].pid = p
      PROVE  Ending(p)
  <2>1. CASE \E m \in Unserved : userspace_requests'[n] = userspace_requests[m]
        BY <1>2, <2>1 DEF Ending
  <2>2. ASSUME NEW t \in Threads, userspace_send_request(t), userspace_requests'[n] = Request(t)
        PROVE  Ending(p)
    <3>1. Request(t).type = "exit" /\ Request(t).pid = p BY <1>2, <2>2
    <3>2. pc[t] \in {"exit", "kill"} /\ arg[t] = p
          BY <2>2, <3>1 DEF Request, userspace_send_request
    <3> QED BY <3>2 DEF Ending, Asks
  <2> QED BY <2>1, <2>2, UnservedStep
<1> QED BY <1>1, <1>2 DEF Ending

(* An exec is pending from the moment its request is sent. *)
LEMMA ExecingStep ==
    ASSUME TypeOK, ArgsSound, JobThere, Next, NEW p \in Pids, Execing(p)'
    PROVE  \/ Execing(p)
           \/ \E t \in Threads : userspace_send_request(t) /\ pc[t] = "exec" /\ arg[t] = p
<1>1. PICK n \in Unserved' : userspace_requests'[n].type = "execve" /\ userspace_requests'[n].pid = p
      BY DEF Execing
<1>2. CASE \E m \in Unserved : userspace_requests'[n] = userspace_requests[m]
      BY <1>1, <1>2 DEF Execing
<1>3. ASSUME NEW t \in Threads, userspace_send_request(t), userspace_requests'[n] = Request(t)
      PROVE  pc[t] = "exec" /\ arg[t] = p
  <2>1. Request(t).type = "execve" /\ Request(t).pid = p BY <1>1, <1>3
  <2> QED BY <2>1 DEF Request
<1> QED BY <1>2, <1>3, UnservedStep

(* A process is created by the second half of task_pcreate. *)
LEMMA CreatedStep ==
    ASSUME TypeOK, ArgsSound, JobThere, NEW x \in Pids, Created(x)', Next
    PROVE  Created(x) \/ \E v \in Threads : PcreatePublish(v) /\ arg[v] = x
<1>1. ASSUME NEW t \in Threads, PcreateReserve(t)
      PROVE  Created(x) \/ \E v \in Threads : PcreatePublish(v) /\ arg[v] = x
    BY <1>1 DEF PcreateReserve, Enters, monitor, queue, TypeOK, Created
<1>2. ASSUME NEW t \in Threads, PcreateFail(t)
      PROVE  Created(x) \/ \E v \in Threads : PcreatePublish(v) /\ arg[v] = x
    BY <1>2 DEF PcreateFail, Leaves, At, monitor, queue, TypeOK, Created
<1>3. ASSUME NEW t \in Threads, PcreatePublish(t)
      PROVE  Created(x) \/ \E v \in Threads : PcreatePublish(v) /\ arg[v] = x
    BY <1>3 DEF PcreatePublish, Moves, At, monitor, queue, TypeOK, Created
<1>4. ASSUME NEW t \in Threads, syscall_fork(t)
      PROVE  Created(x) \/ \E v \in Threads : PcreatePublish(v) /\ arg[v] = x
    BY <1>4 DEF syscall_fork, At, monitor, queue, TypeOK, Created
<1>5. ASSUME NEW t \in Threads, exit(t)
      PROVE  Created(x) \/ \E v \in Threads : PcreatePublish(v) /\ arg[v] = x
    BY <1>5 DEF exit, Enters, table, monitor, queue, TypeOK, Created
<1>6. ASSUME NEW t \in Threads, execve(t)
      PROVE  Created(x) \/ \E v \in Threads : PcreatePublish(v) /\ arg[v] = x
    BY <1>6 DEF execve, Enters, table, monitor, queue, TypeOK, Created
<1>7. ASSUME NEW t \in Threads, userspace_send_request(t)
      PROVE  Created(x) \/ \E v \in Threads : PcreatePublish(v) /\ arg[v] = x
    BY <1>7 DEF userspace_send_request, table, monitor, TypeOK, Created, AfterSend
<1>8. ASSUME NEW t \in Threads, ExecveAborted(t)
      PROVE  Created(x) \/ \E v \in Threads : PcreatePublish(v) /\ arg[v] = x
    BY <1>8 DEF ExecveAborted, At, table, monitor, queue, TypeOK, Created
<1>9. ASSUME NEW t \in Threads, ExecveReturns(t)
      PROVE  Created(x) \/ \E v \in Threads : PcreatePublish(v) /\ arg[v] = x
    BY <1>9 DEF ExecveReturns, Leaves, At, table, monitor, queue, TypeOK, Created
<1>10. ASSUME NEW t \in Threads, WaitFound(t)
       PROVE  Created(x) \/ \E v \in Threads : PcreatePublish(v) /\ arg[v] = x
    BY <1>10 DEF WaitFound, At, monitor, queue, TypeOK, Created
<1>11. ASSUME NEW t \in Threads, WaitNone(t)
       PROVE  Created(x) \/ \E v \in Threads : PcreatePublish(v) /\ arg[v] = x
    BY <1>11 DEF WaitNone, Leaves, At, table, monitor, queue, TypeOK, Created
<1>12. ASSUME NEW t \in Threads, WaitBlocks(t)
       PROVE  Created(x) \/ \E v \in Threads : PcreatePublish(v) /\ arg[v] = x
    BY <1>12 DEF WaitBlocks, Moves, At, table, monitor, queue, TypeOK, Created
<1>13. ASSUME NEW t \in Threads, WaitWoken(t)
       PROVE  Created(x) \/ \E v \in Threads : PcreatePublish(v) /\ arg[v] = x
    BY <1>13 DEF WaitWoken, Moves, At, monitor, queue, TypeOK, Created
<1>14. ASSUME NEW t \in Threads, WaitAborted(t)
       PROVE  Created(x) \/ \E v \in Threads : PcreatePublish(v) /\ arg[v] = x
    BY <1>14 DEF WaitAborted, Leaves, At, table, monitor, queue, TypeOK, Created
<1>15. ASSUME NEW t \in Threads, Reap(t)
       PROVE  Created(x) \/ \E v \in Threads : PcreatePublish(v) /\ arg[v] = x
    BY <1>15 DEF Reap, Leaves, At, monitor, queue, TypeOK, Created
<1>16. ASSUME NEW t \in Threads, NEW p \in Pids, kill(t, p)
       PROVE  Created(x) \/ \E v \in Threads : PcreatePublish(v) /\ arg[v] = x
    BY <1>16 DEF kill, Enters, table, monitor, queue, TypeOK, Created
<1>17. ASSUME NEW t \in Threads, NEW p \in Pids, KillHandled(t, p)
       PROVE  Created(x) \/ \E v \in Threads : PcreatePublish(v) /\ arg[v] = x
    BY <1>17 DEF KillHandled, monitor, queue, TypeOK, Created
<1>18. ASSUME NEW t \in Threads, NEW a \in {"default", "function"}, syscall_sigaction(t, a)
       PROVE  Created(x) \/ \E v \in Threads : PcreatePublish(v) /\ arg[v] = x
    BY <1>18 DEF syscall_sigaction, monitor, queue, TypeOK, Created
<1>19. ASSUME NEW t \in Threads, NEW pid \in Pids \cup {ANY}, syscall_waitpid(t, pid)
       PROVE  Created(x) \/ \E v \in Threads : PcreatePublish(v) /\ arg[v] = x
    BY <1>19 DEF syscall_waitpid, Enters, table, monitor, queue, TypeOK, Created
<1>20. ASSUME MonitorIdle PROVE Created(x) \/ \E v \in Threads : PcreatePublish(v) /\ arg[v] = x
    BY <1>20 DEF MonitorIdle, table, queue, TypeOK, Created
<1>21. ASSUME MonitorTakes PROVE Created(x) \/ \E v \in Threads : PcreatePublish(v) /\ arg[v] = x
    BY <1>21 DEF MonitorTakes, table, queue, TypeOK, Created
<1>22. ASSUME ExecFails PROVE Created(x) \/ \E v \in Threads : PcreatePublish(v) /\ arg[v] = x
    BY <1>22 DEF ExecFails, table, queue, TypeOK, Created
<1>23. ASSUME MonitorKills PROVE Created(x) \/ \E v \in Threads : PcreatePublish(v) /\ arg[v] = x
    BY <1>23 DEF MonitorKills, queue, TypeOK, Created
<1>24. ASSUME ExecCreates PROVE Created(x) \/ \E v \in Threads : PcreatePublish(v) /\ arg[v] = x
    BY <1>24 DEF ExecCreates, queue, TypeOK, Created
<1>25. ASSUME ExitFrees PROVE Created(x) \/ \E v \in Threads : PcreatePublish(v) /\ arg[v] = x
    BY <1>25 DEF ExitFrees, queue, TypeOK, Created
<1>26. ASSUME task_send_child_event
       PROVE  Created(x) \/ \E v \in Threads : PcreatePublish(v) /\ arg[v] = x
    BY <1>26 DEF task_send_child_event, queue, TypeOK, Created
<1>27. ASSUME ChildTrigger PROVE Created(x) \/ \E v \in Threads : PcreatePublish(v) /\ arg[v] = x
    BY <1>27 DEF ChildTrigger, queue, TypeOK, Created
<1>28. ASSUME MonitorDone PROVE Created(x) \/ \E v \in Threads : PcreatePublish(v) /\ arg[v] = x
    BY <1>28 DEF MonitorDone, table, TypeOK, Created
<1>29. ASSUME MonitorAwaits PROVE Created(x) \/ \E v \in Threads : PcreatePublish(v) /\ arg[v] = x
    BY <1>29 DEF MonitorAwaits, table, TypeOK, Created
<1> QED BY ONLY Next, <1>1, <1>2, <1>3, <1>4, <1>5, <1>6, <1>7, <1>8, <1>9, <1>10, <1>11,
           <1>12, <1>13, <1>14, <1>15, <1>16, <1>17, <1>18, <1>19, <1>20, <1>21, <1>22,
           <1>23, <1>24, <1>25, <1>26, <1>27, <1>28, <1>29
    DEF Next, Program, Continue, Monitor

(* A pid without a process has no thread, no children and no request.        *)
LEMMA NoProcess ==
    ASSUME TypeOK, FamilyInv, NEW p \in Pids, process_table[p] # PROCESS
    PROVE  /\ p \notin held /\ p \notin {0, 1} /\ threads[p] = {} /\ Children(p) = {}
           /\ \A i \in Tids : pc[<<p, i>>] = "none"
           /\ ~Ending(p) /\ ~Execing(p) /\ ~Created(p)
<1>1. p \notin held /\ p \notin {0, 1} /\ threads[p] = {} BY DEF FamilyInv, ThreadsSound
<1>2. \A i \in Tids : pc[<<p, i>>] = "none" BY <1>1 DEF FamilyInv, ThreadsSound
<1>3. Children(p) = {} BY <1>1 DEF FamilyInv, FamilySound, Children
<1>4. ~Ending(p) BY <1>1 DEF FamilyInv, EndingSound
<1>5. ~Execing(p) BY <1>1 DEF FamilyInv, ExecSound
<1>6. ~Created(p) BY <1>1 DEF FamilyInv, CreationSound, Created
<1> QED BY <1>1, <1>2, <1>3, <1>4, <1>5, <1>6

(* The same of the pid that t is creating, before it is published.           *)
LEMMA Reserved ==
    ASSUME TypeOK, ArgsSound, FamilyInv, NEW t \in Threads, pc[t] = "pcreate"
    PROVE  /\ arg[t] \in Pids /\ process_table[arg[t]] = PLACEHOLDER
           /\ arg[t] \notin held /\ arg[t] \notin {0, 1} /\ threads[arg[t]] = {}
           /\ Children(arg[t]) = {} /\ \A i \in Tids : pc[<<arg[t], i>>] = "none"
           /\ ~Ending(arg[t]) /\ ~Execing(arg[t]) /\ ~Created(arg[t])
<1>1. arg[t] \in Pids BY DEF ArgsSound, Creating
<1>2. process_table[arg[t]] = PLACEHOLDER BY DEF FamilyInv, CreationSound
<1>3. process_table[arg[t]] # PROCESS BY <1>2, ProcessAssumption
<1> QED BY <1>1, <1>2, <1>3, NoProcess

(* And afterwards, before it has its thread.                                 *)
LEMMA Published ==
    ASSUME TypeOK, ArgsSound, FamilyInv, NEW t \in Threads, pc[t] = "fork"
    PROVE  /\ arg[t] \in Pids /\ arg[t] \in held /\ arg[t] \notin {0, 1}
           /\ process_table[arg[t]] = PROCESS /\ ppid[arg[t]] = 0
           /\ threads[arg[t]] = {} /\ \A i \in Tids : pc[<<arg[t], i>>] = "none"
           /\ ~Ending(arg[t]) /\ ~Execing(arg[t]) /\ Created(arg[t])
<1>1. arg[t] \in Pids BY DEF ArgsSound, Creating
<1>2. arg[t] \in held \ {0, 1} /\ threads[arg[t]] = {} /\ ppid[arg[t]] = 0
      BY DEF FamilyInv, CreationSound
<1>3. process_table[arg[t]] = PROCESS /\ \A i \in Tids : pc[<<arg[t], i>>] = "none"
      BY <1>1, <1>2 DEF FamilyInv, ThreadsSound
<1>4. Created(arg[t]) BY DEF Created
<1>5. ~Ending(arg[t]) BY <1>1, <1>4 DEF FamilyInv, EndingSound
<1>6. ~Execing(arg[t]) BY <1>1, <1>4 DEF FamilyInv, ExecSound
<1> QED BY <1>1, <1>2, <1>3, <1>4, <1>5, <1>6

(* exec begins: its process is there, its thread waits.                      *)
LEMMA JobExec ==
    ASSUME Disciplined, BasicInv, FamilyInv, userspace_requests # <<>>, ~HeadServed,
           Job.type = "execve"
    PROVE  /\ Job.pid \in Pids /\ Job.pid \in held /\ Job.pid # 0 /\ Job.pid \notin Victims
           /\ Execing(Job.pid) /\ ~Ending(Job.pid) /\ ~Created(Job.pid)
           /\ urm # "kill" => pc[<<Job.pid, 0>>] = "execve"
           /\ urm = "kill" /\ next = MAX_THREADS => threads[Job.pid] = {}
<1>1. Job.pid \in Pids /\ Execing(Job.pid) BY JobTyped, JobUnserved DEF BasicInv
<1>2. urm = "kill" /\ next = MAX_THREADS => threads[Job.pid] = {}
      BY <1>1, ProcessAssumption DEF FamilyInv, MonitorSound, BasicInv, TypeOK, Tids
<1> QED BY <1>1, <1>2 DEF FamilyInv, ExecSound, Disciplined

(* The end of a process: it is there, and has neither threads nor children
   when its parts are released.                                              *)
LEMMA JobExit ==
    ASSUME Disciplined, BasicInv, FamilyInv, userspace_requests # <<>>, ~HeadServed,
           Job.type = "exit"
    PROVE  /\ Job.pid \in Pids /\ Job.pid \in held /\ Job.pid # 0
           /\ Ending(Job.pid) /\ Children(Job.pid) = {} /\ ~Created(Job.pid)
           /\ \A t \in Threads : t[1] = Job.pid => pc[t] \notin Creating \cup {"reap"}
           /\ urm = "kill" /\ next = MAX_THREADS =>
                 threads[Job.pid] = {} /\ \A i \in Tids : pc[<<Job.pid, i>>] = "none"
           /\ urm = "kill" /\ fault = "none" => Job.pid # 1
<1>1. Job.pid \in Pids /\ Ending(Job.pid) BY JobTyped, JobUnserved DEF BasicInv
<1>2. /\ Job.pid \in held /\ Job.pid # 0 /\ Children(Job.pid) = {} /\ ~Created(Job.pid)
      /\ \A t \in Threads : t[1] = Job.pid => pc[t] \notin Creating
      BY <1>1 DEF FamilyInv, EndingSound
<1>3. \A t \in Threads : t[1] = Job.pid => pc[t] # "reap"
      BY <1>2 DEF FamilyInv, EventsSound
<1>4. urm = "kill" /\ next = MAX_THREADS => threads[Job.pid] = {}
      BY <1>1, ProcessAssumption DEF FamilyInv, MonitorSound, BasicInv, TypeOK, Tids
<1>5. threads[Job.pid] = {} => \A i \in Tids : pc[<<Job.pid, i>>] = "none"
      BY <1>1 DEF FamilyInv, ThreadsSound
<1>6. urm = "kill" /\ fault = "none" => Job.pid # 1
      BY DEF FamilyInv, MonitorSound, FamilySound
<1> QED BY <1>1, <1>2, <1>3, <1>4, <1>5, <1>6

(* Every step keeps ThreadsSound. *)
LEMMA ThreadsStep ==
    ASSUME Disciplined, BasicInv, FamilyInv, Next
    PROVE  ThreadsSound'
<1> USE ProcessAssumption DEF BasicInv
<1>0. TypeOK /\ ArgsSound /\ ThreadsSound BY DEF FamilyInv
<1>p. 0 \in Pids /\ 1 \in Pids /\ 0 \in Tids /\ \A t \in Threads : t[1] \in Pids /\ t[2] \in Tids /\ t = <<t[1], t[2]>>
      BY DEF Pids, Tids, Threads
<1>1. ASSUME NEW t \in Threads, PcreateReserve(t) PROVE ThreadsSound'
  <2>1. PICK q \in Pids : /\ FreePid(q) /\ Enters(t, "pcreate", q)
                          /\ process_table' = [process_table EXCEPT ![q] = PLACEHOLDER]
                          /\ UNCHANGED <<threads, held>>
        BY <1>1 DEF PcreateReserve
  <2>2. q \notin held BY <1>0, <2>1 DEF ThreadsSound, FreePid, IsFree
  <2>3. \A u \in Threads : pc'[u] = "none" <=> pc[u] = "none"
        BY <1>0, <2>1 DEF Enters, TypeOK
  <2> QED BY SMTT(30), <1>0, <1>p, <2>1, <2>2, <2>3 DEF ThreadsSound, TypeOK, Threads
<1>2. ASSUME NEW t \in Threads, PcreateFail(t) PROVE ThreadsSound'
  <2>1. arg[t] \notin held BY <1>0, <1>2, Reserved DEF PcreateFail, At
  <2>2. \A u \in Threads : pc'[u] = "none" <=> pc[u] = "none"
        BY <1>0, <1>2 DEF PcreateFail, At, Leaves, TypeOK
  <2> QED BY <1>0, <1>p, <1>2, <2>1, <2>2 DEF PcreateFail, ThreadsSound, TypeOK, Threads
<1>3. ASSUME NEW t \in Threads, PcreatePublish(t) PROVE ThreadsSound'
  <2>1. arg[t] \in Pids /\ arg[t] \notin {0, 1} /\ \A i \in Tids : pc[<<arg[t], i>>] = "none"
        BY <1>0, <1>3, Reserved DEF PcreatePublish, At
  <2>2. \A u \in Threads : pc'[u] = "none" <=> pc[u] = "none"
        BY <1>0, <1>3 DEF PcreatePublish, At, Moves, TypeOK
  <2>3. /\ process_table' = [process_table EXCEPT ![arg[t]] = PROCESS]
        /\ threads' = [threads EXCEPT ![arg[t]] = {}]
        /\ held' = held \cup {arg[t]}
        BY <1>3 DEF PcreatePublish
  <2> QED BY SMTT(30), <1>0, <1>p, <2>1, <2>2, <2>3 DEF ThreadsSound, TypeOK, Threads
<1>4. ASSUME NEW t \in Threads, syscall_fork(t) PROVE ThreadsSound'
  <2>1. /\ arg[t] \in Pids /\ arg[t] \in held /\ arg[t] \notin {0, 1}
        /\ \A i \in Tids : pc[<<arg[t], i>>] = "none"
        BY <1>0, <1>4, Published DEF syscall_fork, At
  <2>2. \A u \in Threads : u # <<arg[t], 0>> => (pc'[u] = "none" <=> pc[u] = "none")
        BY <1>0, <1>4 DEF syscall_fork, At, TypeOK
  <2>3. pc'[<<arg[t], 0>>] = "user" BY <1>0, <1>p, <1>4, <2>1 DEF syscall_fork, TypeOK, Threads
  <2>4. threads' = [threads EXCEPT ![arg[t]] = {0}] /\ UNCHANGED <<process_table, held>>
        BY <1>4 DEF syscall_fork
  <2>5. \A p \in Pids : threads'[p] = IF p = arg[t] THEN {0} ELSE threads[p]
        BY ONLY <1>0, <2>1, <2>4 DEF TypeOK
  <2>6. ASSUME NEW p \in Pids, NEW i \in Tids PROVE i \in threads'[p] <=> pc'[<<p, i>>] # "none"
    <3>1. <<p, i>> \in Threads BY DEF Threads
    <3>2. CASE p = arg[t] /\ i = 0 BY ONLY <2>3, <2>5, <2>6, <3>2
    <3>3. CASE p = arg[t] /\ i # 0 BY ONLY <2>1, <2>2, <2>5, <2>6, <3>1, <3>3
    <3>4. CASE p # arg[t] BY ONLY <1>0, <2>2, <2>5, <2>6, <3>1, <3>4 DEF ThreadsSound
    <3> QED BY <3>2, <3>3, <3>4
  <2> QED BY <1>0, <2>1, <2>4, <2>5, <2>6 DEF ThreadsSound
<1>5. ASSUME NEW t \in Threads, exit(t) PROVE ThreadsSound'
    BY <1>5, <1>0, <1>p DEF exit, Enters, table, monitor, queue, TypeOK, ThreadsSound, Threads
<1>6. ASSUME NEW t \in Threads, execve(t) PROVE ThreadsSound'
    BY <1>6, <1>0, <1>p DEF execve, Enters, table, monitor, queue, TypeOK, ThreadsSound, Threads
<1>7. ASSUME NEW t \in Threads, userspace_send_request(t) PROVE ThreadsSound'
    BY SMTT(30), <1>7, <1>0, <1>p DEF userspace_send_request, table, monitor, TypeOK, ThreadsSound, Threads,
       AfterSend
<1>8. ASSUME NEW t \in Threads, ExecveAborted(t) PROVE ThreadsSound'
    BY <1>8, <1>0, <1>p DEF ExecveAborted, At, table, monitor, queue, TypeOK, ThreadsSound, Threads
<1>9. ASSUME NEW t \in Threads, ExecveReturns(t) PROVE ThreadsSound'
    BY <1>9, <1>0, <1>p DEF ExecveReturns, Leaves, At, table, monitor, queue, TypeOK,
       ThreadsSound, Threads
<1>10. ASSUME NEW t \in Threads, WaitFound(t) PROVE ThreadsSound'
    BY SMTT(30), <1>10, <1>0, <1>p DEF WaitFound, At, monitor, queue, TypeOK, ThreadsSound, Threads
<1>11. ASSUME NEW t \in Threads, WaitNone(t) PROVE ThreadsSound'
    BY <1>11, <1>0, <1>p DEF WaitNone, Leaves, At, table, monitor, queue, TypeOK, ThreadsSound,
       Threads
<1>12. ASSUME NEW t \in Threads, WaitBlocks(t) PROVE ThreadsSound'
    BY <1>12, <1>0, <1>p DEF WaitBlocks, Moves, At, table, monitor, queue, TypeOK, ThreadsSound,
       Threads
<1>13. ASSUME NEW t \in Threads, WaitWoken(t) PROVE ThreadsSound'
    BY <1>13, <1>0, <1>p DEF WaitWoken, Moves, At, monitor, queue, TypeOK, ThreadsSound, Threads
<1>14. ASSUME NEW t \in Threads, WaitAborted(t) PROVE ThreadsSound'
    BY <1>14, <1>0, <1>p DEF WaitAborted, Leaves, At, table, monitor, queue, TypeOK, ThreadsSound,
       Threads
<1>15. ASSUME NEW t \in Threads, Reap(t) PROVE ThreadsSound'
    BY <1>15, <1>0, <1>p DEF Reap, Leaves, At, monitor, queue, TypeOK, ThreadsSound, Threads,
       FamilyInv, EventsSound
<1>16. ASSUME NEW t \in Threads, NEW p \in Pids, kill(t, p) PROVE ThreadsSound'
    BY <1>16, <1>0, <1>p DEF kill, Enters, table, monitor, queue, TypeOK, ThreadsSound, Threads
<1>17. ASSUME NEW t \in Threads, NEW p \in Pids, KillHandled(t, p) PROVE ThreadsSound'
    BY SMTT(30), <1>17, <1>0, <1>p DEF KillHandled, monitor, queue, TypeOK, ThreadsSound, Threads, Target,
       Disciplined
<1>18. ASSUME NEW t \in Threads, NEW a \in {"default", "function"}, syscall_sigaction(t, a)
       PROVE  ThreadsSound'
    BY <1>18, <1>0, <1>p DEF syscall_sigaction, monitor, queue, TypeOK, ThreadsSound, Threads
<1>19. ASSUME NEW t \in Threads, NEW pid \in Pids \cup {ANY}, syscall_waitpid(t, pid)
       PROVE  ThreadsSound'
    BY <1>19, <1>0, <1>p DEF syscall_waitpid, Enters, table, monitor, queue, TypeOK, ThreadsSound,
       Threads
<1>20. ASSUME MonitorIdle PROVE ThreadsSound'
    BY <1>20, <1>0, <1>p DEF MonitorIdle, table, queue, TypeOK, ThreadsSound, Threads
<1>21. ASSUME MonitorTakes PROVE ThreadsSound'
    BY <1>21, <1>0, <1>p DEF MonitorTakes, table, queue, TypeOK, ThreadsSound, Threads
<1>22. ASSUME ExecFails PROVE ThreadsSound'
  <2>1. Job.pid \in Pids /\ pc[<<Job.pid, 0>>] = "execve" /\ Job.tid = 0
        BY <1>22, JobExec DEF ExecFails, HeadServed, MainThreads, Ids, Job, TypeOK
  <2> QED BY SMTT(30), <1>22, <2>1, <1>0, <1>p DEF ExecFails, table, TypeOK, ThreadsSound, Threads
<1>23. ASSUME MonitorKills PROVE ThreadsSound'
  <2>1. Job.pid \in Pids /\ next \in Tids /\ <<Job.pid, next>> \in Threads
        BY SMTT(30), <1>23, JobTyped DEF MonitorKills, JobThere, TypeOK, Tids, Threads
  <2>2. \/ UNCHANGED <<threads, pc>>
        \/ /\ threads' = [threads EXCEPT ![Job.pid] = @ \ {next}]
           /\ pc' = [pc EXCEPT ![<<Job.pid, next>>] = "none"]
        BY <1>23 DEF MonitorKills
  <2>3. UNCHANGED <<held, process_table>> BY <1>23 DEF MonitorKills
  <2>4. CASE UNCHANGED <<threads, pc>> BY <2>3, <2>4, <1>0 DEF ThreadsSound
  <2>5. CASE /\ threads' = [threads EXCEPT ![Job.pid] = @ \ {next}]
             /\ pc' = [pc EXCEPT ![<<Job.pid, next>>] = "none"]
    <3>1. \A p \in Pids : threads'[p] = IF p = Job.pid THEN threads[p] \ {next} ELSE threads[p]
          BY ONLY <2>1, <2>5, <1>0 DEF TypeOK
    <3>2. \A u \in Threads : pc'[u] = IF u = <<Job.pid, next>> THEN "none" ELSE pc[u]
          BY ONLY <2>1, <2>5, <1>0 DEF TypeOK
    <3>3. ASSUME NEW p \in Pids, NEW i \in Tids PROVE i \in threads'[p] <=> pc'[<<p, i>>] # "none"
      <4>1. <<p, i>> \in Threads BY DEF Threads
      <4>2. CASE p = Job.pid /\ i = next BY ONLY <3>1, <3>2, <3>3, <4>1, <4>2
      <4>3. CASE p # Job.pid \/ i # next
        <5>1. pc'[<<p, i>>] = pc[<<p, i>>] BY ONLY <3>2, <4>1, <4>3
        <5>2. i \in threads'[p] <=> i \in threads[p] BY ONLY <3>1, <3>3, <4>3
        <5> QED BY ONLY <1>0, <3>3, <5>1, <5>2 DEF ThreadsSound
      <4> QED BY <4>2, <4>3
    <3> QED BY ONLY <2>1, <2>3, <3>1, <3>3, <1>0 DEF ThreadsSound
  <2> QED BY <2>2, <2>4, <2>5
<1>24. ASSUME ExecCreates PROVE ThreadsSound'
  <2>1. /\ Job.pid \in Pids /\ Job.pid \in held /\ Job.pid # 0 /\ Job.pid \notin Victims
        /\ threads[Job.pid] = {}
        BY <1>24, JobExec DEF ExecCreates, HeadServed, JobThere
  <2>2. /\ threads' = [threads EXCEPT ![Job.pid] = {0}]
        /\ pc' = [pc EXCEPT ![<<Job.pid, 0>>] = "user"]
    <3>1. PICK i \in Tids : /\ \A j \in 0 .. i - 1 : j \in threads[Job.pid]
                            /\ threads' = [threads EXCEPT ![Job.pid] = @ \cup {i}]
                            /\ pc' = [pc EXCEPT ![<<Job.pid, i>>] = "user"]
          BY <1>24 DEF ExecCreates
    <3>2. i = 0 BY <2>1, <3>1 DEF Tids
    <3> QED BY <2>1, <3>1, <3>2
  <2>3. UNCHANGED <<held, process_table>> BY <1>24 DEF ExecCreates
  <2> QED BY <2>1, <2>2, <2>3, <1>0, <1>p DEF TypeOK, ThreadsSound, Threads
<1>25. ASSUME ExitFrees PROVE ThreadsSound'
  <2>1. /\ Job.pid \in Pids /\ Job.pid # 0 /\ threads[Job.pid] = {} /\ Job.pid # 1
        BY <1>25, JobExit DEF ExitFrees, HeadServed, JobThere
  <2> QED BY <1>25, <2>1, <1>0 DEF ExitFrees, TypeOK, ThreadsSound
<1>26. ASSUME task_send_child_event PROVE ThreadsSound'
    BY <1>26, <1>0, <1>p DEF task_send_child_event, queue, TypeOK, ThreadsSound, Threads
<1>27. ASSUME ChildTrigger PROVE ThreadsSound'
    BY <1>27, <1>0, <1>p DEF ChildTrigger, queue, TypeOK, ThreadsSound, Threads
<1>28. ASSUME MonitorDone PROVE ThreadsSound'
    BY <1>28, <1>0, <1>p DEF MonitorDone, table, TypeOK, ThreadsSound, Threads
<1>29. ASSUME MonitorAwaits PROVE ThreadsSound'
    BY <1>29, <1>0, <1>p DEF MonitorAwaits, table, TypeOK, ThreadsSound, Threads
<1> QED BY ONLY Next, <1>1, <1>2, <1>3, <1>4, <1>5, <1>6, <1>7, <1>8, <1>9, <1>10, <1>11,
           <1>12, <1>13, <1>14, <1>15, <1>16, <1>17, <1>18, <1>19, <1>20, <1>21, <1>22,
           <1>23, <1>24, <1>25, <1>26, <1>27, <1>28, <1>29
    DEF Next, Program, Continue, Monitor

(* The steps of creators, and what every other step leaves alone.            *)
Creates == \E t \in Threads : PcreateReserve(t) \/ PcreateFail(t) \/ PcreatePublish(t) \/ syscall_fork(t)

(* The threads that create go on. *)
CreatorsStay ==
    \A u \in Threads : pc[u] \in Creating \/ pc'[u] \in Creating =>
        pc'[u] = pc[u] /\ arg'[u] = arg[u]

(* The processes they create stay untouched. *)
NewbornsStay ==
    /\ ppid' = ppid
    /\ \A u \in Threads : pc[u] = "fork" => arg[u] \in held' /\ threads'[arg[u]] = threads[arg[u]]
    /\ \A p \in Pids :
          \/ process_table'[p] = process_table[p]
          \/ process_table[p] = PROCESS /\ process_table'[p] = EMPTY /\ p \notin held

(* Who is no creator leaves the creators alone. *)
LEMMA CreatorsKept ==
    ASSUME Disciplined, BasicInv, FamilyInv, ~Creates, Next
    PROVE  CreatorsStay
<1> USE DEF BasicInv, Creating
<1>0. TypeOK /\ ArgsSound BY DEF FamilyInv
<1>1. ASSUME NEW t \in Threads, PcreateReserve(t) PROVE CreatorsStay
    BY <1>1 DEF Creates
<1>2. ASSUME NEW t \in Threads, PcreateFail(t) PROVE CreatorsStay
    BY <1>2 DEF Creates
<1>3. ASSUME NEW t \in Threads, PcreatePublish(t) PROVE CreatorsStay
    BY <1>3 DEF Creates
<1>4. ASSUME NEW t \in Threads, syscall_fork(t) PROVE CreatorsStay
    BY <1>4 DEF Creates
<1>5. ASSUME NEW t \in Threads, exit(t) PROVE CreatorsStay
    BY <1>5, <1>0 DEF exit, Enters, table, monitor, queue, TypeOK, CreatorsStay
<1>6. ASSUME NEW t \in Threads, execve(t) PROVE CreatorsStay
    BY <1>6, <1>0 DEF execve, Enters, table, monitor, queue, TypeOK, CreatorsStay
<1>7. ASSUME NEW t \in Threads, userspace_send_request(t) PROVE CreatorsStay
    BY <1>7, <1>0 DEF userspace_send_request, table, monitor, TypeOK, CreatorsStay, AfterSend
<1>8. ASSUME NEW t \in Threads, ExecveAborted(t) PROVE CreatorsStay
    BY <1>8, <1>0 DEF ExecveAborted, At, table, monitor, queue, TypeOK, CreatorsStay
<1>9. ASSUME NEW t \in Threads, ExecveReturns(t) PROVE CreatorsStay
    BY <1>9, <1>0 DEF ExecveReturns, Leaves, At, table, monitor, queue, TypeOK, CreatorsStay
<1>10. ASSUME NEW t \in Threads, WaitFound(t) PROVE CreatorsStay
    BY <1>10, <1>0 DEF WaitFound, At, monitor, queue, TypeOK, CreatorsStay
<1>11. ASSUME NEW t \in Threads, WaitNone(t) PROVE CreatorsStay
    BY <1>11, <1>0 DEF WaitNone, Leaves, At, table, monitor, queue, TypeOK, CreatorsStay
<1>12. ASSUME NEW t \in Threads, WaitBlocks(t) PROVE CreatorsStay
    BY <1>12, <1>0 DEF WaitBlocks, Moves, At, table, monitor, queue, TypeOK, CreatorsStay
<1>13. ASSUME NEW t \in Threads, WaitWoken(t) PROVE CreatorsStay
    BY <1>13, <1>0 DEF WaitWoken, Moves, At, monitor, queue, TypeOK, CreatorsStay
<1>14. ASSUME NEW t \in Threads, WaitAborted(t) PROVE CreatorsStay
    BY <1>14, <1>0 DEF WaitAborted, Leaves, At, table, monitor, queue, TypeOK, CreatorsStay
<1>15. ASSUME NEW t \in Threads, Reap(t) PROVE CreatorsStay
    BY <1>15, <1>0 DEF Reap, Leaves, At, monitor, queue, TypeOK, CreatorsStay
<1>16. ASSUME NEW t \in Threads, NEW p \in Pids, kill(t, p) PROVE CreatorsStay
    BY <1>16, <1>0 DEF kill, Enters, table, monitor, queue, TypeOK, CreatorsStay
<1>17. ASSUME NEW t \in Threads, NEW p \in Pids, KillHandled(t, p) PROVE CreatorsStay
  <2>1. PICK i \in Tids \ threads[p] : pc' = [pc EXCEPT ![<<p, i>>] = "user"]
        BY <1>17 DEF KillHandled
  <2>2. pc[<<p, i>>] = "none" BY <2>1 DEF FamilyInv, ThreadsSound
  <2> QED BY <1>17, <1>0, <2>1, <2>2 DEF KillHandled, TypeOK, CreatorsStay
<1>18. ASSUME NEW t \in Threads, NEW a \in {"default", "function"}, syscall_sigaction(t, a)
       PROVE  CreatorsStay
    BY <1>18, <1>0 DEF syscall_sigaction, monitor, queue, TypeOK, CreatorsStay
<1>19. ASSUME NEW t \in Threads, NEW pid \in Pids \cup {ANY}, syscall_waitpid(t, pid)
       PROVE  CreatorsStay
    BY <1>19, <1>0 DEF syscall_waitpid, Enters, table, monitor, queue, TypeOK, CreatorsStay
<1>20. ASSUME MonitorIdle PROVE CreatorsStay
    BY <1>20, <1>0 DEF MonitorIdle, table, queue, TypeOK, CreatorsStay
<1>21. ASSUME MonitorTakes PROVE CreatorsStay
    BY <1>21, <1>0 DEF MonitorTakes, table, queue, TypeOK, CreatorsStay
<1>22. ASSUME ExecFails PROVE CreatorsStay
  <2>1. Job.pid \in Pids /\ pc[<<Job.pid, 0>>] = "execve" /\ Job.tid = 0
        BY <1>22, JobExec DEF ExecFails, HeadServed, MainThreads, Ids, Job, TypeOK
  <2> QED BY <1>22, <1>0, <2>1 DEF ExecFails, TypeOK, CreatorsStay
<1>23. ASSUME MonitorKills PROVE CreatorsStay
  <2>1. CASE UNCHANGED <<pc, arg>> BY <2>1 DEF CreatorsStay
  <2>2. CASE /\ next \in threads[Job.pid]
             /\ pc' = [pc EXCEPT ![<<Job.pid, next>>] = "none"]
             /\ arg' = [arg EXCEPT ![<<Job.pid, next>>] = ANY]
    <3>1. next \in Tids BY <1>23, <1>0, ProcessAssumption DEF MonitorKills, TypeOK, Tids
    <3>2. pc[<<Job.pid, next>>] \notin Creating BY <1>23, <2>2, <3>1, KilledPlaces DEF MonitorKills
    <3> QED BY <1>0, <2>2, <3>2 DEF TypeOK, CreatorsStay
  <2> QED BY <1>23, <2>1, <2>2 DEF MonitorKills
<1>24. ASSUME ExecCreates PROVE CreatorsStay
  <2>1. Job.pid \in Pids /\ threads[Job.pid] = {}
        BY <1>24, JobExec DEF ExecCreates, HeadServed, JobThere
  <2>2. \A i \in Tids : pc[<<Job.pid, i>>] = "none" BY <2>1 DEF FamilyInv, ThreadsSound
  <2> QED BY <1>24, <1>0, <2>2 DEF ExecCreates, TypeOK, CreatorsStay
<1>25. ASSUME ExitFrees PROVE CreatorsStay
    BY <1>25, <1>0 DEF ExitFrees, queue, TypeOK, CreatorsStay
<1>26. ASSUME task_send_child_event PROVE CreatorsStay
    BY <1>26, <1>0 DEF task_send_child_event, queue, TypeOK, CreatorsStay
<1>27. ASSUME ChildTrigger PROVE CreatorsStay
    BY <1>27, <1>0 DEF ChildTrigger, queue, TypeOK, CreatorsStay
<1>28. ASSUME MonitorDone PROVE CreatorsStay
    BY <1>28, <1>0 DEF MonitorDone, table, TypeOK, CreatorsStay
<1>29. ASSUME MonitorAwaits PROVE CreatorsStay
    BY <1>29, <1>0 DEF MonitorAwaits, table, TypeOK, CreatorsStay
<1> QED BY ONLY Next, <1>1, <1>2, <1>3, <1>4, <1>5, <1>6, <1>7, <1>8, <1>9, <1>10, <1>11,
           <1>12, <1>13, <1>14, <1>15, <1>16, <1>17, <1>18, <1>19, <1>20, <1>21, <1>22,
           <1>23, <1>24, <1>25, <1>26, <1>27, <1>28, <1>29
    DEF Next, Program, Continue, Monitor

(* Who is no creator leaves the created processes alone. *)
LEMMA NewbornsKept ==
    ASSUME Disciplined, BasicInv, FamilyInv, ~Creates, Next
    PROVE  NewbornsStay
<1> USE DEF BasicInv, Creating
<1>0. TypeOK /\ ArgsSound BY DEF FamilyInv
<1>b. \A u \in Threads : pc[u] = "fork" => arg[u] \in Pids /\ arg[u] \in held /\ threads[arg[u]] = {}
      BY <1>0, Published
<1>1. ASSUME NEW t \in Threads, PcreateReserve(t) PROVE NewbornsStay
    BY <1>1 DEF Creates
<1>2. ASSUME NEW t \in Threads, PcreateFail(t) PROVE NewbornsStay
    BY <1>2 DEF Creates
<1>3. ASSUME NEW t \in Threads, PcreatePublish(t) PROVE NewbornsStay
    BY <1>3 DEF Creates
<1>4. ASSUME NEW t \in Threads, syscall_fork(t) PROVE NewbornsStay
    BY <1>4 DEF Creates
<1>5. ASSUME NEW t \in Threads, exit(t) PROVE NewbornsStay
    BY <1>5, <1>0, <1>b DEF exit, Enters, table, monitor, queue, TypeOK, NewbornsStay
<1>6. ASSUME NEW t \in Threads, execve(t) PROVE NewbornsStay
    BY <1>6, <1>0, <1>b DEF execve, Enters, table, monitor, queue, TypeOK, NewbornsStay
<1>7. ASSUME NEW t \in Threads, userspace_send_request(t) PROVE NewbornsStay
    BY <1>7, <1>0, <1>b DEF userspace_send_request, table, monitor, TypeOK, NewbornsStay
<1>8. ASSUME NEW t \in Threads, ExecveAborted(t) PROVE NewbornsStay
    BY <1>8, <1>0, <1>b DEF ExecveAborted, At, table, monitor, queue, TypeOK, NewbornsStay
<1>9. ASSUME NEW t \in Threads, ExecveReturns(t) PROVE NewbornsStay
    BY <1>9, <1>0, <1>b DEF ExecveReturns, Leaves, At, table, monitor, queue, TypeOK, NewbornsStay
<1>10. ASSUME NEW t \in Threads, WaitFound(t) PROVE NewbornsStay
    BY <1>10, <1>0, <1>b DEF WaitFound, At, monitor, queue, TypeOK, NewbornsStay
<1>11. ASSUME NEW t \in Threads, WaitNone(t) PROVE NewbornsStay
    BY <1>11, <1>0, <1>b DEF WaitNone, Leaves, At, table, monitor, queue, TypeOK, NewbornsStay
<1>12. ASSUME NEW t \in Threads, WaitBlocks(t) PROVE NewbornsStay
    BY <1>12, <1>0, <1>b DEF WaitBlocks, Moves, At, table, monitor, queue, TypeOK, NewbornsStay
<1>13. ASSUME NEW t \in Threads, WaitWoken(t) PROVE NewbornsStay
    BY <1>13, <1>0, <1>b DEF WaitWoken, Moves, At, monitor, queue, TypeOK, NewbornsStay
<1>14. ASSUME NEW t \in Threads, WaitAborted(t) PROVE NewbornsStay
    BY <1>14, <1>0, <1>b DEF WaitAborted, Leaves, At, table, monitor, queue, TypeOK, NewbornsStay
<1>15. ASSUME NEW t \in Threads, Reap(t) PROVE NewbornsStay
  <2>1. /\ arg[t] \in Pids /\ process_table[arg[t]] = PROCESS /\ arg[t] \notin held
        BY <1>15, <1>0 DEF Reap, At, ArgsSound, FamilyInv, EventsSound, Children
  <2> QED BY <1>15, <1>0, <1>b, <2>1 DEF Reap, TypeOK, NewbornsStay
<1>16. ASSUME NEW t \in Threads, NEW p \in Pids, kill(t, p) PROVE NewbornsStay
    BY <1>16, <1>0, <1>b DEF kill, Enters, table, monitor, queue, TypeOK, NewbornsStay
<1>17. ASSUME NEW t \in Threads, NEW p \in Pids, KillHandled(t, p) PROVE NewbornsStay
  <2>1. threads[p] # {} /\ p \in Pids BY <1>17 DEF KillHandled, Target, Disciplined
  <2> QED BY <1>17, <1>0, <1>b, <2>1 DEF KillHandled, TypeOK, NewbornsStay
<1>18. ASSUME NEW t \in Threads, NEW a \in {"default", "function"}, syscall_sigaction(t, a)
       PROVE  NewbornsStay
    BY <1>18, <1>0, <1>b DEF syscall_sigaction, monitor, queue, TypeOK, NewbornsStay
<1>19. ASSUME NEW t \in Threads, NEW pid \in Pids \cup {ANY}, syscall_waitpid(t, pid)
       PROVE  NewbornsStay
    BY <1>19, <1>0, <1>b DEF syscall_waitpid, Enters, table, monitor, queue, TypeOK, NewbornsStay
<1>20. ASSUME MonitorIdle PROVE NewbornsStay
    BY <1>20, <1>0, <1>b DEF MonitorIdle, table, queue, TypeOK, NewbornsStay
<1>21. ASSUME MonitorTakes PROVE NewbornsStay
    BY <1>21, <1>0, <1>b DEF MonitorTakes, table, queue, TypeOK, NewbornsStay
<1>22. ASSUME ExecFails PROVE NewbornsStay
    BY <1>22, <1>0, <1>b DEF ExecFails, table, queue, TypeOK, NewbornsStay
<1>23. ASSUME MonitorKills PROVE NewbornsStay
  <2>1. ~Created(Job.pid) /\ Job.pid \in Pids
    <3>1. userspace_requests # <<>> /\ ~HeadServed BY <1>23 DEF MonitorKills, JobThere, HeadServed
    <3> QED BY <3>1, JobUnserved, JobExit, JobExec
  <2>2. \A u \in Threads : pc[u] = "fork" => arg[u] # Job.pid BY <2>1 DEF Created
  <2> QED BY <1>23, <1>0, <1>b, <2>1, <2>2 DEF MonitorKills, TypeOK, NewbornsStay
<1>24. ASSUME ExecCreates PROVE NewbornsStay
  <2>1. ~Created(Job.pid) /\ Job.pid \in Pids
    <3>1. userspace_requests # <<>> /\ ~HeadServed BY <1>24 DEF ExecCreates, JobThere, HeadServed
    <3> QED BY <3>1, JobUnserved, JobExit, JobExec
  <2>2. \A u \in Threads : pc[u] = "fork" => arg[u] # Job.pid BY <2>1 DEF Created
  <2> QED BY <1>24, <1>0, <1>b, <2>1, <2>2 DEF ExecCreates, TypeOK, NewbornsStay
<1>25. ASSUME ExitFrees PROVE NewbornsStay
  <2>1. ~Created(Job.pid) /\ Job.pid \in Pids
    <3>1. userspace_requests # <<>> /\ ~HeadServed BY <1>25 DEF ExitFrees, JobThere, HeadServed
    <3> QED BY <3>1, JobUnserved, JobExit, JobExec
  <2>2. \A u \in Threads : pc[u] = "fork" => arg[u] # Job.pid BY <2>1 DEF Created
  <2> QED BY <1>25, <1>0, <1>b, <2>1, <2>2 DEF ExitFrees, TypeOK, NewbornsStay
<1>26. ASSUME task_send_child_event PROVE NewbornsStay
    BY <1>26, <1>0, <1>b DEF task_send_child_event, queue, TypeOK, NewbornsStay
<1>27. ASSUME ChildTrigger PROVE NewbornsStay
    BY <1>27, <1>0, <1>b DEF ChildTrigger, queue, TypeOK, NewbornsStay
<1>28. ASSUME MonitorDone PROVE NewbornsStay
    BY <1>28, <1>0, <1>b DEF MonitorDone, table, TypeOK, NewbornsStay
<1>29. ASSUME MonitorAwaits PROVE NewbornsStay
    BY <1>29, <1>0, <1>b DEF MonitorAwaits, table, TypeOK, NewbornsStay
<1> QED BY ONLY Next, <1>1, <1>2, <1>3, <1>4, <1>5, <1>6, <1>7, <1>8, <1>9, <1>10, <1>11,
           <1>12, <1>13, <1>14, <1>15, <1>16, <1>17, <1>18, <1>19, <1>20, <1>21, <1>22,
           <1>23, <1>24, <1>25, <1>26, <1>27, <1>28, <1>29
    DEF Next, Program, Continue, Monitor

(* Every step keeps CreationSound. *)
LEMMA CreationStep ==
    ASSUME Disciplined, BasicInv, FamilyInv, Next
    PROVE  CreationSound'
<1> USE ProcessAssumption DEF Creating
<1>0. TypeOK /\ ArgsSound /\ CreationSound BY DEF FamilyInv, BasicInv
<1>a. \A t \in Threads : pc[t] \in Creating => arg[t] \in Pids BY <1>0 DEF ArgsSound
<1>b. \A t \in Threads : pc[t] = "fork" => process_table[arg[t]] = PROCESS
      BY <1>0, Published
<1>1. CASE ~Creates
  <2>1. CreatorsStay /\ NewbornsStay BY <1>1, CreatorsKept, NewbornsKept
  <2>2. \A u \in Threads : pc[u] \in Creating \/ pc'[u] \in Creating => pc'[u] = pc[u] /\ arg'[u] = arg[u]
        BY <2>1 DEF CreatorsStay
  <2>3. \A p \in Pids : process_table'[p] = PLACEHOLDER <=> process_table[p] = PLACEHOLDER
        BY <2>1 DEF NewbornsStay
  <2>4. \A u \in Threads : pc[u] = "fork" =>
            /\ arg[u] \in held' \ {0, 1} /\ threads'[arg[u]] = {} /\ ppid'[arg[u]] = 0
        BY ONLY <1>0, <2>1 DEF NewbornsStay, CreationSound
  <2> QED BY ONLY <1>0, <1>a, <2>2, <2>3, <2>4 DEF CreationSound, Creating
<1>2. ASSUME NEW t \in Threads, PcreateReserve(t) PROVE CreationSound'
  <2>1. PICK q \in Pids : /\ FreePid(q) /\ Enters(t, "pcreate", q) /\ t[1] \in Forkers
                          /\ process_table' = [process_table EXCEPT ![q] = PLACEHOLDER]
                          /\ UNCHANGED <<threads, held, ppid>>
        BY <1>2 DEF PcreateReserve
  <2>2. process_table[q] \notin {PLACEHOLDER, PROCESS} BY <2>1 DEF FreePid, IsFree
  <2>3. \A u \in Threads : pc[u] \in Creating => arg[u] # q
        BY <1>0, <1>b, <2>2 DEF CreationSound
  <2>4. \A u \in Threads : /\ u # t => pc'[u] = pc[u] /\ arg'[u] = arg[u]
                           /\ u = t => pc'[u] = "pcreate" /\ arg'[u] = q /\ pc[u] = "user"
        BY ONLY <1>0, <2>1 DEF Enters, TypeOK
  <2>5. \A p \in Pids : process_table'[p] = IF p = q THEN PLACEHOLDER ELSE process_table[p]
        BY ONLY <1>0, <2>1 DEF TypeOK
  <2> QED BY ONLY t \in Threads, <1>0, <1>a, <2>1, <2>2, <2>3, <2>4, <2>5
          DEF CreationSound, Creating
<1>3. ASSUME NEW t \in Threads, PcreateFail(t) PROVE CreationSound'
  <2>1. pc[t] = "pcreate" /\ process_table[arg[t]] = PLACEHOLDER
        BY <1>0, <1>3 DEF PcreateFail, At, CreationSound
  <2>2. \A u \in Threads : /\ u # t => pc'[u] = pc[u] /\ arg'[u] = arg[u]
                           /\ pc'[t] = "user"
        BY <1>0, <1>3 DEF PcreateFail, Leaves, TypeOK
  <2>3. \A p \in Pids : process_table'[p] = IF p = arg[t] THEN EMPTY ELSE process_table[p]
        BY <1>0, <1>3 DEF PcreateFail, TypeOK
  <2>4. UNCHANGED <<threads, held, ppid>> BY <1>3 DEF PcreateFail
  <2>5. \A u \in Threads : pc'[u] \in Creating =>
            u # t /\ pc'[u] = pc[u] /\ arg'[u] = arg[u] /\ arg[u] # arg[t] /\ arg[u] \in Pids
        BY ONLY t \in Threads, <1>0, <1>a, <2>1, <2>2 DEF CreationSound, Creating
  <2>6. \A p \in Pids : process_table'[p] = PLACEHOLDER => p # arg[t] /\ process_table[p] = PLACEHOLDER
        BY <2>3
  <2>7. \A p \in Pids : process_table'[p] = PLACEHOLDER =>
            \E u \in Threads : pc'[u] = "pcreate" /\ arg'[u] = p
        BY ONLY <1>0, <2>2, <2>6 DEF CreationSound
  <2> QED BY ONLY <1>0, <2>3, <2>4, <2>5, <2>7 DEF CreationSound, Creating
<1>4. ASSUME NEW t \in Threads, PcreatePublish(t) PROVE CreationSound'
  <2>1. pc[t] = "pcreate" /\ process_table[arg[t]] = PLACEHOLDER /\ arg[t] \notin {0, 1}
        BY <1>0, <1>4, Reserved DEF PcreatePublish, At, CreationSound
  <2>2. \A u \in Threads : /\ u # t => pc'[u] = pc[u]
                           /\ arg'[u] = arg[u]
                           /\ pc'[t] = "fork"
        BY <1>0, <1>4 DEF PcreatePublish, Moves, TypeOK
  <2>3. \A p \in Pids : /\ process_table'[p] = IF p = arg[t] THEN PROCESS ELSE process_table[p]
                        /\ ppid'[p] = IF p = arg[t] THEN 0 ELSE ppid[p]
                        /\ threads'[p] = IF p = arg[t] THEN {} ELSE threads[p]
                        /\ p \in held' <=> p \in held \/ p = arg[t]
        BY <1>0, <1>4 DEF PcreatePublish, TypeOK
  <2> QED BY ONLY t \in Threads, ProcessAssumption, <1>0, <1>a, <1>b, <2>1, <2>2, <2>3
          DEF CreationSound, Creating
<1>5. ASSUME NEW t \in Threads, syscall_fork(t) PROVE CreationSound'
  <2>1. /\ pc[t] = "fork" /\ arg[t] \in Pids /\ <<arg[t], 0>> \in Threads
        /\ pc[<<arg[t], 0>>] = "none"
        BY <1>0, <1>5, Published DEF syscall_fork, At, Tids, Threads
  <2>2. \A u \in Threads : /\ u # t /\ pc[u] # "none" => pc'[u] = pc[u] /\ arg'[u] = arg[u]
                           /\ u # t /\ pc[u] = "none" => pc'[u] \in {"none", "user"}
                           /\ pc'[t] = "user"
        BY <1>0, <1>5, <2>1 DEF syscall_fork, TypeOK
  <2>3. \A p \in Pids : /\ ppid'[p] = IF p = arg[t] THEN t[1] ELSE ppid[p]
                        /\ threads'[p] = IF p = arg[t] THEN {0} ELSE threads[p]
        BY <1>0, <1>5 DEF syscall_fork, TypeOK
  <2>4. UNCHANGED <<process_table, held>> BY <1>5 DEF syscall_fork
  <2> QED BY ONLY t \in Threads, <1>0, <1>a, <2>1, <2>2, <2>3, <2>4 DEF CreationSound, Creating
<1> QED BY <1>1, <1>2, <1>3, <1>4, <1>5 DEF Creates

(* Every step keeps FamilySound. *)
LEMMA FamilyStep ==
    ASSUME Disciplined, BasicInv, FamilyInv, Next
    PROVE  FamilySound'
<1> USE ProcessAssumption
<1>0. TypeOK /\ ArgsSound /\ FamilySound /\ ThreadsSound /\ CreationSound BY DEF FamilyInv, BasicInv
<1>p. 0 \in Pids /\ 1 \in Pids /\ \A t \in Threads : t[1] \in Pids BY DEF Pids, Threads
<1>1. CASE ~Creates
  <2>1. CreatorsStay /\ NewbornsStay BY <1>1, CreatorsKept, NewbornsKept
  <2>2. \A p \in Pids : Created(p) => Created(p)'
        BY <2>1 DEF Created, CreatorsStay, Creating
  <2>3. ASSUME NEW p \in Pids, process_table'[p] = PROCESS
        PROVE  process_table[p] = PROCESS
        BY <2>1, <2>3 DEF NewbornsStay
  <2>4. ASSUME NEW p \in Pids, process_table'[p] = PROCESS, ppid[p] # 0
        PROVE  ppid[p] \in held'
    <3>1. ppid[p] \in held BY <1>0, <2>3, <2>4 DEF FamilySound
    <3>2. CASE UNCHANGED held BY <3>1, <3>2
    <3>3. CASE ExitFrees
      <4>1. /\ Job.pid \in Pids /\ Children(Job.pid) = {}
            /\ held' = held \ {Job.pid}
            BY <3>3, JobExit DEF ExitFrees, HeadServed, BasicInv, JobThere
      <4>2. p # 0 BY <1>0, <2>4 DEF FamilySound
      <4>3. ppid[p] # Job.pid BY <2>3, <2>4, <4>1, <4>2 DEF Children
      <4> QED BY <3>1, <4>1, <4>3
    <3>4. UNCHANGED held \/ ExitFrees
      <4>1. ASSUME NEW t \in Threads, Program(t) \/ Continue(t) \/ PcreateFail(t) \/ WaitNone(t)
            PROVE  UNCHANGED held
            BY <4>1, <1>1 DEF Program, Continue, Creates, exit, execve, kill, KillHandled,
               syscall_sigaction, syscall_waitpid, userspace_send_request, ExecveAborted,
               ExecveReturns, WaitFound, WaitNone, WaitBlocks, WaitWoken, WaitAborted, Reap, table
      <4>2. Monitor => UNCHANGED held \/ ExitFrees
            BY DEF Monitor, MonitorIdle, MonitorTakes, ExecFails, MonitorKills, ExecCreates,
               task_send_child_event, ChildTrigger, MonitorDone, MonitorAwaits, table
      <4> QED BY <4>1, <4>2 DEF Next
    <3> QED BY <3>2, <3>3, <3>4
  <2>5. ppid' = ppid BY <2>1 DEF NewbornsStay
  <2> QED BY ONLY <1>0, <2>2, <2>3, <2>4, <2>5 DEF FamilySound
<1>2. ASSUME NEW t \in Threads, PcreateReserve(t) PROVE FamilySound'
  <2>1. PICK q \in Pids : /\ FreePid(q) /\ Enters(t, "pcreate", q)
                          /\ process_table' = [process_table EXCEPT ![q] = PLACEHOLDER]
                          /\ UNCHANGED <<held, ppid>>
        BY <1>2 DEF PcreateReserve
  <2>2. \A p \in Pids : Created(p) => Created(p)'
        BY <1>0, <2>1 DEF Enters, TypeOK, Created
  <2>3. \A p \in Pids : process_table'[p] = PROCESS => process_table[p] = PROCESS
        BY <1>0, <2>1 DEF TypeOK
  <2> QED BY ONLY <1>0, <2>1, <2>2, <2>3 DEF FamilySound
<1>3. ASSUME NEW t \in Threads, PcreateFail(t) PROVE FamilySound'
  <2>1. \A p \in Pids : Created(p) => Created(p)'
        BY <1>0, <1>3 DEF PcreateFail, At, Leaves, TypeOK, Created
  <2>2. \A p \in Pids : process_table'[p] = PROCESS => process_table[p] = PROCESS
        BY <1>0, <1>3 DEF PcreateFail, TypeOK
  <2>3. UNCHANGED <<held, ppid>> BY <1>3 DEF PcreateFail
  <2> QED BY ONLY <1>0, <2>1, <2>2, <2>3 DEF FamilySound
<1>4. ASSUME NEW t \in Threads, PcreatePublish(t) PROVE FamilySound'
  <2>1. pc[t] = "pcreate" /\ arg[t] \in Pids /\ arg[t] \notin {0, 1}
        BY <1>0, <1>4, Reserved DEF PcreatePublish, At
  <2>2. pc'[t] = "fork" /\ arg'[t] = arg[t] BY <1>0, <1>4 DEF PcreatePublish, Moves, TypeOK
  <2>3. \A p \in Pids : Created(p) => Created(p)'
        BY <1>0, <1>4, <2>1 DEF PcreatePublish, Moves, TypeOK, Created
  <2>4. \A p \in Pids : /\ p # arg[t] => process_table'[p] = process_table[p] /\ ppid'[p] = ppid[p]
                        /\ p = arg[t] => ppid'[p] = 0
                        /\ p \in held => p \in held'
        BY <1>0, <1>4 DEF PcreatePublish, TypeOK
  <2>5. ppid \in [Pids -> Pids] BY <1>0 DEF TypeOK
  <2>6. ASSUME NEW p \in Pids, process_table'[p] = PROCESS
        PROVE  IF ppid'[p] = 0 THEN p < 2 \/ Created(p)' ELSE ppid'[p] \in held'
    <3>1. CASE p = arg[t] BY <2>2, <2>4, <3>1 DEF Created
    <3>2. CASE p # arg[t]
      <4>1. process_table[p] = PROCESS /\ ppid'[p] = ppid[p] /\ ppid[p] \in Pids
            BY <2>4, <2>5, <2>6, <3>2
      <4> QED BY ONLY <1>0, <2>3, <2>4, <2>6, <4>1 DEF FamilySound
    <3> QED BY <3>1, <3>2
  <2> QED BY ONLY <1>0, <1>p, <2>1, <2>4, <2>6 DEF FamilySound
<1>5. ASSUME NEW t \in Threads, syscall_fork(t) PROVE FamilySound'
  <2>1. pc[t] = "fork" /\ arg[t] \in Pids /\ arg[t] \notin {0, 1}
        /\ <<arg[t], 0>> \in Threads /\ pc[<<arg[t], 0>>] = "none"
        BY <1>0, <1>5, Published DEF syscall_fork, At, Tids, Threads
  <2>2. t[1] \in held /\ t[1] # 0
        BY <1>0, <1>p, <2>1 DEF ThreadsSound, Threads
  <2>3. \A p \in Pids : p # arg[t] /\ Created(p) => Created(p)'
        BY <1>0, <1>5, <2>1 DEF syscall_fork, TypeOK, Created
  <2>4. \A p \in Pids : /\ p # arg[t] => ppid'[p] = ppid[p]
                        /\ p = arg[t] => ppid'[p] = t[1]
        BY <1>0, <1>5 DEF syscall_fork, TypeOK
  <2>5. UNCHANGED <<process_table, held>> BY <1>5 DEF syscall_fork
  <2>6. ppid \in [Pids -> Pids] BY <1>0 DEF TypeOK
  <2> QED BY ONLY <1>0, <1>p, <2>1, <2>2, <2>3, <2>4, <2>5, <2>6 DEF FamilySound
<1> QED BY <1>1, <1>2, <1>3, <1>4, <1>5 DEF Creates

(* Nothing else happens in the step of a request.                            *)
LEMMA SentAlone ==
    ASSUME TypeOK, ArgsSound, NEW t \in Threads, userspace_send_request(t), NEW u, NEW p
    PROVE  ~exit(u) /\ ~kill(u, p) /\ ~PcreatePublish(u)
<1>1. Len(userspace_requests) + 1 \in Ids' BY Sent
<1>2. userspace_requests' # userspace_requests BY <1>1 DEF Ids, TypeOK
<1> QED BY <1>2 DEF exit, kill, PcreatePublish, queue

(* Who is asked to end: the process itself, or a victim. *)
AskedArgsSound ==
    \A t \in Threads : /\ pc[t] \in {"exit", "exec"} => arg[t] = t[1]
                       /\ pc[t] = "kill" => arg[t] \in Victims

(* Every step keeps AskedArgsSound. *)
LEMMA AskedArgs ==
    ASSUME TypeOK, ArgsSound, JobThere, AskedOnce, Next
    PROVE  AskedArgsSound'
<1>0. AskedArgsSound BY DEF AskedOnce, AskedArgsSound
<1>1. ASSUME NEW t \in Threads, PcreateReserve(t) PROVE AskedArgsSound'
    BY <1>0, <1>1 DEF PcreateReserve, Enters, monitor, queue, TypeOK, AskedArgsSound
<1>2. ASSUME NEW t \in Threads, PcreateFail(t) PROVE AskedArgsSound'
    BY <1>0, <1>2 DEF PcreateFail, Leaves, At, monitor, queue, TypeOK, AskedArgsSound
<1>3. ASSUME NEW t \in Threads, PcreatePublish(t) PROVE AskedArgsSound'
    BY <1>0, <1>3 DEF PcreatePublish, Moves, At, monitor, queue, TypeOK, AskedArgsSound
<1>4. ASSUME NEW t \in Threads, syscall_fork(t) PROVE AskedArgsSound'
    BY <1>0, <1>4 DEF syscall_fork, At, monitor, queue, TypeOK, AskedArgsSound
<1>5. ASSUME NEW t \in Threads, exit(t) PROVE AskedArgsSound'
    BY <1>0, <1>5 DEF exit, Enters, table, monitor, queue, TypeOK, AskedArgsSound
<1>6. ASSUME NEW t \in Threads, execve(t) PROVE AskedArgsSound'
    BY <1>0, <1>6 DEF execve, Enters, table, monitor, queue, TypeOK, AskedArgsSound
<1>7. ASSUME NEW t \in Threads, userspace_send_request(t) PROVE AskedArgsSound'
    BY <1>0, <1>7 DEF userspace_send_request, table, monitor, TypeOK, AskedArgsSound, AfterSend
<1>8. ASSUME NEW t \in Threads, ExecveAborted(t) PROVE AskedArgsSound'
    BY <1>0, <1>8 DEF ExecveAborted, At, table, monitor, queue, TypeOK, AskedArgsSound
<1>9. ASSUME NEW t \in Threads, ExecveReturns(t) PROVE AskedArgsSound'
    BY <1>0, <1>9 DEF ExecveReturns, Leaves, At, table, monitor, queue, TypeOK, AskedArgsSound
<1>10. ASSUME NEW t \in Threads, WaitFound(t) PROVE AskedArgsSound'
    BY <1>0, <1>10 DEF WaitFound, At, monitor, queue, TypeOK, AskedArgsSound
<1>11. ASSUME NEW t \in Threads, WaitNone(t) PROVE AskedArgsSound'
    BY <1>0, <1>11 DEF WaitNone, Leaves, At, table, monitor, queue, TypeOK, AskedArgsSound
<1>12. ASSUME NEW t \in Threads, WaitBlocks(t) PROVE AskedArgsSound'
    BY <1>0, <1>12 DEF WaitBlocks, Moves, At, table, monitor, queue, TypeOK, AskedArgsSound
<1>13. ASSUME NEW t \in Threads, WaitWoken(t) PROVE AskedArgsSound'
    BY <1>0, <1>13 DEF WaitWoken, Moves, At, monitor, queue, TypeOK, AskedArgsSound
<1>14. ASSUME NEW t \in Threads, WaitAborted(t) PROVE AskedArgsSound'
    BY <1>0, <1>14 DEF WaitAborted, Leaves, At, table, monitor, queue, TypeOK, AskedArgsSound
<1>15. ASSUME NEW t \in Threads, Reap(t) PROVE AskedArgsSound'
    BY <1>0, <1>15 DEF Reap, Leaves, At, monitor, queue, TypeOK, AskedArgsSound
<1>16. ASSUME NEW t \in Threads, NEW p \in Pids, kill(t, p) PROVE AskedArgsSound'
    BY <1>0, <1>16 DEF kill, Enters, table, monitor, queue, TypeOK, AskedArgsSound, Target
<1>17. ASSUME NEW t \in Threads, NEW p \in Pids, KillHandled(t, p) PROVE AskedArgsSound'
    BY <1>0, <1>17 DEF KillHandled, monitor, queue, TypeOK, AskedArgsSound
<1>18. ASSUME NEW t \in Threads, NEW a \in {"default", "function"}, syscall_sigaction(t, a)
       PROVE  AskedArgsSound'
    BY <1>0, <1>18 DEF syscall_sigaction, monitor, queue, TypeOK, AskedArgsSound
<1>19. ASSUME NEW t \in Threads, NEW pid \in Pids \cup {ANY}, syscall_waitpid(t, pid)
       PROVE  AskedArgsSound'
    BY <1>0, <1>19 DEF syscall_waitpid, Enters, table, monitor, queue, TypeOK, AskedArgsSound
<1>20. ASSUME MonitorIdle PROVE AskedArgsSound'
    BY <1>0, <1>20 DEF MonitorIdle, table, queue, TypeOK, AskedArgsSound
<1>21. ASSUME MonitorTakes PROVE AskedArgsSound'
    BY <1>0, <1>21 DEF MonitorTakes, table, queue, TypeOK, AskedArgsSound
<1>22. ASSUME ExecFails PROVE AskedArgsSound'
    BY <1>0, <1>22 DEF ExecFails, table, queue, TypeOK, AskedArgsSound
<1>23. ASSUME MonitorKills PROVE AskedArgsSound'
    BY <1>0, <1>23 DEF MonitorKills, queue, TypeOK, AskedArgsSound
<1>24. ASSUME ExecCreates PROVE AskedArgsSound'
    BY <1>0, <1>24 DEF ExecCreates, queue, TypeOK, AskedArgsSound
<1>25. ASSUME ExitFrees PROVE AskedArgsSound'
    BY <1>0, <1>25 DEF ExitFrees, queue, TypeOK, AskedArgsSound
<1>26. ASSUME task_send_child_event PROVE AskedArgsSound'
    BY <1>0, <1>26 DEF task_send_child_event, queue, TypeOK, AskedArgsSound
<1>27. ASSUME ChildTrigger PROVE AskedArgsSound'
    BY <1>0, <1>27 DEF ChildTrigger, queue, TypeOK, AskedArgsSound
<1>28. ASSUME MonitorDone PROVE AskedArgsSound'
    BY <1>0, <1>28 DEF MonitorDone, table, TypeOK, AskedArgsSound
<1>29. ASSUME MonitorAwaits PROVE AskedArgsSound'
    BY <1>0, <1>29 DEF MonitorAwaits, table, TypeOK, AskedArgsSound
<1> QED BY ONLY Next, <1>1, <1>2, <1>3, <1>4, <1>5, <1>6, <1>7, <1>8, <1>9, <1>10, <1>11,
           <1>12, <1>13, <1>14, <1>15, <1>16, <1>17, <1>18, <1>19, <1>20, <1>21, <1>22,
           <1>23, <1>24, <1>25, <1>26, <1>27, <1>28, <1>29
    DEF Next, Program, Continue, Monitor

(* Every step keeps AskedOnce. *)
LEMMA AskedOnceStep ==
    ASSUME Disciplined, BasicInv, FamilyInv, Next
    PROVE  AskedOnce'
<1> USE DEF BasicInv
<1>0. TypeOK /\ AskedOnce /\ ArgsSound BY DEF FamilyInv
<1>1. ASSUME NEW t \in Threads, NEW p \in Pids, Asks(t, p)', ~Asks(t, p)
      PROVE  /\ \A u \in Threads : ~Asks(u, p)
             /\ ~ExitAsked(p) /\ UNCHANGED userspace_requests
             /\ \A u \in Threads : u # t => ~Asks(u, p)'
  <2>1. (exit(t) /\ p = t[1]) \/ kill(t, p) BY <1>1, AsksStep
  <2>2. ~Doomed(p) BY <2>1 DEF exit, kill, Target, Disciplined
  <2>3. (\A u \in Threads : ~Asks(u, p)) /\ ~ExitAsked(p) BY <2>2 DEF Doomed, Asks
  <2>4. UNCHANGED userspace_requests BY <2>1 DEF exit, kill, queue
  <2>5. \A u \in Threads : u # t => pc'[u] = pc[u] /\ arg'[u] = arg[u]
        BY <2>1, <1>0 DEF exit, kill, Enters, TypeOK
  <2>6. \A u \in Threads : u # t => ~Asks(u, p)' BY <2>3, <2>5 DEF Asks
  <2> QED BY <2>3, <2>4, <2>6
<1>2. ASSUME NEW t \in Threads, NEW u \in Threads, NEW p \in Pids, Asks(t, p)', Asks(u, p)'
      PROVE  t = u
  <2>1. CASE Asks(t, p) /\ Asks(u, p) BY <1>0, <2>1 DEF AskedOnce
  <2>2. CASE ~Asks(t, p) BY <1>1, <1>2, <2>2
  <2>3. CASE ~Asks(u, p) BY <1>1, <1>2, <2>3
  <2> QED BY <2>1, <2>2, <2>3
<1>3. ASSUME NEW t \in Threads, NEW p \in Pids, Asks(t, p)' PROVE ~ExitAsked(p)'
  <2>1. CASE ~Asks(t, p) BY <1>1, <1>3, <2>1 DEF ExitAsked, ToSet
  <2>2. CASE Asks(t, p)
    <3>1. ~ExitAsked(p) BY <1>0, <2>2 DEF AskedOnce
    <3>2. \A n \in Ids : ~(userspace_requests[n].type = "exit" /\ userspace_requests[n].pid = p)
          BY <3>1 DEF ExitAsked, ToSet, Ids
    <3>3. CASE UNCHANGED userspace_requests BY <3>1, <3>3 DEF ExitAsked, ToSet
    <3>4. ASSUME NEW u \in Threads, userspace_send_request(u) PROVE ~ExitAsked(p)'
      <4>1. u # t
            BY <1>0, <1>3, <3>4 DEF userspace_send_request, AfterSend, Asks, TypeOK
      <4>2. ~Asks(u, p) BY <1>0, <2>2, <4>1 DEF AskedOnce
      <4>3. ~(Request(u).type = "exit" /\ Request(u).pid = p)
            BY <3>4, <4>2 DEF Request, Asks, userspace_send_request
      <4>4. \A n \in Ids' :
                \/ userspace_requests'[n] = Request(u)
                \/ n \in Ids /\ userspace_requests'[n] = userspace_requests[n]
        <5>1. /\ userspace_requests'[Len(userspace_requests) + 1] = Request(u)
              /\ \A n \in Ids' :
                   \/ n \in Ids /\ userspace_requests'[n] = userspace_requests[n]
                   \/ n = Len(userspace_requests) + 1
              BY <1>0, <3>4, Sent
        <5> QED BY ONLY <5>1
      <4> QED BY <3>2, <4>3, <4>4 DEF ExitAsked, ToSet, Ids
    <3>5. CASE MonitorDone
      <4>1. \A n \in Ids' : n + 1 \in Ids /\ userspace_requests'[n] = userspace_requests[n + 1]
            BY <1>0, <3>5, Shifted
      <4> QED BY <3>2, <4>1 DEF ExitAsked, ToSet, Ids
    <3> QED BY <1>0, <3>3, <3>4, <3>5, QueueCases
  <2> QED BY <2>1, <2>2
<1>4. ASSUME NEW m \in Ids', NEW n \in Ids',
             userspace_requests'[m].type = "exit", userspace_requests'[n].type = "exit",
             userspace_requests'[m].pid = userspace_requests'[n].pid
      PROVE  m = n
  <2>1. CASE UNCHANGED userspace_requests BY <1>0, <1>4, <2>1 DEF AskedOnce, Ids
  <2>2. ASSUME NEW t \in Threads, userspace_send_request(t) PROVE m = n
    <3>1. ASSUME NEW k \in Ids, userspace_requests[k].type = "exit",
                 userspace_requests[k].pid = Request(t).pid, Request(t).type = "exit"
          PROVE  FALSE
      <4>1. Asks(t, arg[t]) /\ arg[t] \in Pids /\ Request(t).pid = arg[t]
            BY <1>0, <2>2, <3>1 DEF Request, Asks, userspace_send_request, ArgsSound, Sending
      <4>2. ~ExitAsked(arg[t]) BY <1>0, <4>1 DEF AskedOnce
      <4> QED BY <3>1, <4>1, <4>2 DEF ExitAsked, ToSet, Ids
    <3>2. /\ userspace_requests'[Len(userspace_requests) + 1] = Request(t)
          /\ \A k \in Ids' : \/ k \in Ids /\ userspace_requests'[k] = userspace_requests[k]
                             \/ k = Len(userspace_requests) + 1
          BY <1>0, <2>2, Sent
    <3>3. CASE m \in Ids /\ n \in Ids /\ userspace_requests'[m] = userspace_requests[m]
               /\ userspace_requests'[n] = userspace_requests[n]
          BY <1>0, <1>4, <3>3 DEF AskedOnce
    <3>4. CASE m = Len(userspace_requests) + 1 BY <1>4, <3>1, <3>2, <3>4
    <3>5. CASE n = Len(userspace_requests) + 1 BY <1>4, <3>1, <3>2, <3>5
    <3> QED BY <3>2, <3>3, <3>4, <3>5
  <2>3. CASE MonitorDone
    <3>1. \A k \in Ids' : /\ k \in Nat /\ k + 1 \in Ids
                          /\ userspace_requests'[k] = userspace_requests[k + 1]
          BY <1>0, <2>3, Shifted
    <3>2. m + 1 = n + 1 BY <1>0, <1>4, <3>1 DEF AskedOnce
    <3> QED BY <3>1, <3>2
  <2> QED BY <1>0, <2>1, <2>2, <2>3, QueueCases
<1>5. \A t \in Threads : /\ pc'[t] \in {"exit", "exec"} => arg'[t] = t[1]
                         /\ pc'[t] = "kill" => arg'[t] \in Victims
      BY <1>0, AskedArgs DEF AskedArgsSound
<1> QED BY <1>2, <1>3, <1>4, <1>5 DEF AskedOnce

(* When the parts of a process are released, nobody else asks for its end.   *)
LEMMA EndedOnce ==
    ASSUME Disciplined, BasicInv, FamilyInv, ExitFrees, NEW p \in Pids, Ending(p)'
    PROVE  p # Job.pid
<1>0. TypeOK /\ AskedOnce /\ userspace_requests # <<>>
      BY DEF BasicInv, FamilyInv, ExitFrees, JobThere
<1>1. 1 \in Ids /\ userspace_requests[1] = Job /\ Job.type = "exit"
      BY <1>0 DEF TypeOK, Job, Ids, ExitFrees
<1>2. UNCHANGED <<userspace_requests, pc, arg>> /\ urm' = "notify" BY DEF ExitFrees, queue
<1>3. ASSUME NEW t \in Threads, Asks(t, p)' PROVE p # Job.pid
  <2>1. ~ExitAsked(p) BY <1>0, <1>2, <1>3 DEF Asks, AskedOnce
  <2> QED BY <1>1, <2>1 DEF ExitAsked, ToSet, Ids
<1>4. ASSUME NEW n \in Unserved', userspace_requests'[n].type = "exit",
             userspace_requests'[n].pid = p
      PROVE  p # Job.pid
  <2>1. n \in Ids /\ n # 1 BY <1>2, <1>4 DEF Unserved, Ids, HeadServed
  <2> QED BY <1>0, <1>1, <1>2, <1>4, <2>1 DEF AskedOnce
<1> QED BY <1>3, <1>4 DEF Ending

(* Who has children later, had them before or has just forked.               *)
LEMMA ChildrenStep ==
    ASSUME Disciplined, BasicInv, FamilyInv, Next, NEW p \in Pids \ {0}, NEW q \in Children(p)'
    PROVE  \/ q \in Children(p)
           \/ \E t \in Threads : syscall_fork(t) /\ t[1] = p
<1> USE ProcessAssumption
<1>0. TypeOK BY DEF BasicInv
<1>q. q \in Pids /\ process_table'[q] = PROCESS /\ ppid'[q] = p /\ q # 0 BY DEF Children
<1>1. CASE ~Creates
  <2>1. NewbornsStay BY <1>1, NewbornsKept
  <2>2. process_table[q] = PROCESS /\ ppid[q] = p BY <1>q, <2>1 DEF NewbornsStay
  <2> QED BY <1>q, <2>2 DEF Children
<1>2. ASSUME NEW t \in Threads, PcreateReserve(t) \/ PcreateFail(t) PROVE q \in Children(p)
  <2>1. /\ UNCHANGED ppid
        /\ \A x \in Pids : process_table'[x] = PROCESS => process_table[x] = PROCESS
        BY <1>0, <1>2 DEF PcreateReserve, PcreateFail, TypeOK
  <2> QED BY <1>q, <2>1 DEF Children
<1>3. ASSUME NEW t \in Threads, PcreatePublish(t) PROVE q \in Children(p)
  <2>1. \A x \in Pids : /\ x = arg[t] => ppid'[x] = 0
                        /\ x # arg[t] => process_table'[x] = process_table[x] /\ ppid'[x] = ppid[x]
        BY <1>0, <1>3 DEF PcreatePublish, TypeOK
  <2> QED BY <1>q, <2>1 DEF Children
<1>4. ASSUME NEW t \in Threads, syscall_fork(t) PROVE q \in Children(p) \/ t[1] = p
  <2>1. \A x \in Pids : /\ x = arg[t] => ppid'[x] = t[1]
                        /\ x # arg[t] => ppid'[x] = ppid[x]
        BY <1>0, <1>4 DEF syscall_fork, TypeOK
  <2>2. UNCHANGED process_table BY <1>4 DEF syscall_fork
  <2> QED BY <1>q, <2>1, <2>2 DEF Children
<1> QED BY <1>1, <1>2, <1>3, <1>4 DEF Creates

(* Only the monitor releases a process. *)
LEMMA HeldStep ==
    ASSUME TypeOK, Next, NEW p \in held
    PROVE  p \in held' \/ (ExitFrees /\ p = Job.pid)
<1>1. ASSUME NEW t \in Threads, Program(t) \/ Continue(t) \/ PcreateFail(t) \/ WaitNone(t)
      PROVE  p \in held'
      BY <1>1 DEF Program, Continue, PcreateReserve, PcreateFail, PcreatePublish, syscall_fork,
         exit, execve, kill, KillHandled, syscall_sigaction, syscall_waitpid,
         userspace_send_request, ExecveAborted, ExecveReturns, WaitFound, WaitNone, WaitBlocks,
         WaitWoken, WaitAborted, Reap, table
<1>2. Monitor => p \in held' \/ (ExitFrees /\ p = Job.pid)
      BY DEF Monitor, MonitorIdle, MonitorTakes, ExecFails, MonitorKills, ExecCreates, ExitFrees,
         task_send_child_event, ChildTrigger, MonitorDone, MonitorAwaits, table
<1> QED BY <1>1, <1>2 DEF Next

(* The main thread of a process that ends by itself does nothing else.       *)
LEMMA EndersStay ==
    ASSUME Disciplined, BasicInv, FamilyInv, NEW x \in Pids, Ending(x), x \notin Victims, Next
    PROVE  pc'[<<x, 0>>] \in {"exit", "halt", "none"}
<1> USE DEF BasicInv
<1>0. TypeOK /\ ArgsSound /\ <<x, 0>> \in Threads BY ProcessAssumption DEF Threads, Tids
<1>x. pc[<<x, 0>>] \in {"exit", "halt", "none"} BY DEF FamilyInv, EndingSound
<1>1. ASSUME NEW t \in Threads, PcreateReserve(t) PROVE pc'[<<x, 0>>] \in {"exit", "halt", "none"}
    BY <1>1, <1>0, <1>x DEF PcreateReserve, Enters, monitor, queue, TypeOK
<1>2. ASSUME NEW t \in Threads, PcreateFail(t) PROVE pc'[<<x, 0>>] \in {"exit", "halt", "none"}
    BY <1>2, <1>0, <1>x DEF PcreateFail, Leaves, At, monitor, queue, TypeOK
<1>3. ASSUME NEW t \in Threads, PcreatePublish(t) PROVE pc'[<<x, 0>>] \in {"exit", "halt", "none"}
    BY <1>3, <1>0, <1>x DEF PcreatePublish, Moves, At, monitor, queue, TypeOK
<1>4. ASSUME NEW t \in Threads, syscall_fork(t) PROVE pc'[<<x, 0>>] \in {"exit", "halt", "none"}
  <2>1. arg[t] \in Pids /\ arg[t] # x /\ pc[t] = "fork" BY <1>0, <1>4, Published DEF syscall_fork, At
  <2>2. <<arg[t], 0>> # <<x, 0>> /\ t # <<x, 0>> BY <1>x, <2>1
  <2> QED BY <1>0, <1>x, <1>4, <2>2 DEF syscall_fork, TypeOK
<1>5. ASSUME NEW t \in Threads, exit(t) PROVE pc'[<<x, 0>>] \in {"exit", "halt", "none"}
    BY <1>5, <1>0, <1>x DEF exit, Enters, table, monitor, queue, TypeOK
<1>6. ASSUME NEW t \in Threads, execve(t) PROVE pc'[<<x, 0>>] \in {"exit", "halt", "none"}
    BY <1>6, <1>0, <1>x DEF execve, Enters, table, monitor, queue, TypeOK
<1>7. ASSUME NEW t \in Threads, userspace_send_request(t)
      PROVE  pc'[<<x, 0>>] \in {"exit", "halt", "none"}
    BY <1>7, <1>0, <1>x DEF userspace_send_request, table, monitor, TypeOK, AfterSend
<1>8. ASSUME NEW t \in Threads, ExecveAborted(t) PROVE pc'[<<x, 0>>] \in {"exit", "halt", "none"}
    BY <1>8, <1>0, <1>x DEF ExecveAborted, At, table, monitor, queue, TypeOK
<1>9. ASSUME NEW t \in Threads, ExecveReturns(t) PROVE pc'[<<x, 0>>] \in {"exit", "halt", "none"}
    BY <1>9, <1>0, <1>x DEF ExecveReturns, Leaves, At, table, monitor, queue, TypeOK
<1>10. ASSUME NEW t \in Threads, WaitFound(t) PROVE pc'[<<x, 0>>] \in {"exit", "halt", "none"}
    BY <1>10, <1>0, <1>x DEF WaitFound, At, monitor, queue, TypeOK
<1>11. ASSUME NEW t \in Threads, WaitNone(t) PROVE pc'[<<x, 0>>] \in {"exit", "halt", "none"}
    BY <1>11, <1>0, <1>x DEF WaitNone, Leaves, At, table, monitor, queue, TypeOK
<1>12. ASSUME NEW t \in Threads, WaitBlocks(t) PROVE pc'[<<x, 0>>] \in {"exit", "halt", "none"}
    BY <1>12, <1>0, <1>x DEF WaitBlocks, Moves, At, table, monitor, queue, TypeOK
<1>13. ASSUME NEW t \in Threads, WaitWoken(t) PROVE pc'[<<x, 0>>] \in {"exit", "halt", "none"}
    BY <1>13, <1>0, <1>x DEF WaitWoken, Moves, At, monitor, queue, TypeOK
<1>14. ASSUME NEW t \in Threads, WaitAborted(t) PROVE pc'[<<x, 0>>] \in {"exit", "halt", "none"}
    BY <1>14, <1>0, <1>x DEF WaitAborted, Leaves, At, table, monitor, queue, TypeOK
<1>15. ASSUME NEW t \in Threads, Reap(t) PROVE pc'[<<x, 0>>] \in {"exit", "halt", "none"}
    BY <1>15, <1>0, <1>x DEF Reap, Leaves, At, monitor, queue, TypeOK
<1>16. ASSUME NEW t \in Threads, NEW p \in Pids, kill(t, p)
       PROVE  pc'[<<x, 0>>] \in {"exit", "halt", "none"}
    BY <1>16, <1>0, <1>x DEF kill, Enters, table, monitor, queue, TypeOK
<1>17. ASSUME NEW t \in Threads, NEW p \in Pids, KillHandled(t, p)
       PROVE  pc'[<<x, 0>>] \in {"exit", "halt", "none"}
    BY <1>17, <1>0, <1>x DEF KillHandled, monitor, queue, TypeOK, Target
<1>18. ASSUME NEW t \in Threads, NEW a \in {"default", "function"}, syscall_sigaction(t, a)
       PROVE  pc'[<<x, 0>>] \in {"exit", "halt", "none"}
    BY <1>18, <1>0, <1>x DEF syscall_sigaction, monitor, queue, TypeOK
<1>19. ASSUME NEW t \in Threads, NEW pid \in Pids \cup {ANY}, syscall_waitpid(t, pid)
       PROVE  pc'[<<x, 0>>] \in {"exit", "halt", "none"}
    BY <1>19, <1>0, <1>x DEF syscall_waitpid, Enters, table, monitor, queue, TypeOK
<1>20. ASSUME MonitorIdle PROVE pc'[<<x, 0>>] \in {"exit", "halt", "none"}
    BY <1>20, <1>0, <1>x DEF MonitorIdle, table, queue, TypeOK
<1>21. ASSUME MonitorTakes PROVE pc'[<<x, 0>>] \in {"exit", "halt", "none"}
    BY <1>21, <1>0, <1>x DEF MonitorTakes, table, queue, TypeOK
<1>22. ASSUME ExecFails PROVE pc'[<<x, 0>>] \in {"exit", "halt", "none"}
  <2>1. Job.pid # x /\ Job.pid \in Pids BY <1>22, JobExec DEF ExecFails, HeadServed
  <2> QED BY <1>0, <1>x, <1>22, <2>1 DEF ExecFails, TypeOK
<1>23. ASSUME MonitorKills PROVE pc'[<<x, 0>>] \in {"exit", "halt", "none"}
    BY <1>23, <1>0, <1>x DEF MonitorKills, queue, TypeOK
<1>24. ASSUME ExecCreates PROVE pc'[<<x, 0>>] \in {"exit", "halt", "none"}
  <2>1. Job.pid # x /\ Job.pid \in Pids BY <1>24, JobExec DEF ExecCreates, HeadServed, JobThere
  <2> QED BY <1>0, <1>x, <1>24, <2>1 DEF ExecCreates, TypeOK
<1>25. ASSUME ExitFrees PROVE pc'[<<x, 0>>] \in {"exit", "halt", "none"}
    BY <1>25, <1>0, <1>x DEF ExitFrees, queue, TypeOK
<1>26. ASSUME task_send_child_event PROVE pc'[<<x, 0>>] \in {"exit", "halt", "none"}
    BY <1>26, <1>0, <1>x DEF task_send_child_event, queue, TypeOK
<1>27. ASSUME ChildTrigger PROVE pc'[<<x, 0>>] \in {"exit", "halt", "none"}
    BY <1>27, <1>0, <1>x DEF ChildTrigger, queue, TypeOK
<1>28. ASSUME MonitorDone PROVE pc'[<<x, 0>>] \in {"exit", "halt", "none"}
    BY <1>28, <1>0, <1>x DEF MonitorDone, table, TypeOK
<1>29. ASSUME MonitorAwaits PROVE pc'[<<x, 0>>] \in {"exit", "halt", "none"}
    BY <1>29, <1>0, <1>x DEF MonitorAwaits, table, TypeOK
<1> QED BY ONLY Next, <1>1, <1>2, <1>3, <1>4, <1>5, <1>6, <1>7, <1>8, <1>9, <1>10, <1>11,
           <1>12, <1>13, <1>14, <1>15, <1>16, <1>17, <1>18, <1>19, <1>20, <1>21, <1>22,
           <1>23, <1>24, <1>25, <1>26, <1>27, <1>28, <1>29
    DEF Next, Program, Continue, Monitor

(* Every step keeps EndingSound. *)
LEMMA EndingSoundStep ==
    ASSUME Disciplined, BasicInv, FamilyInv, Next
    PROVE  EndingSound'
<1> USE DEF BasicInv
<1>0. TypeOK /\ ArgsSound /\ JobThere /\ ThreadsSound /\ CreationSound /\ MainThreads BY DEF FamilyInv
<1>t. \A t \in Threads : t[1] \in Pids /\ t[2] \in Tids /\ t = <<t[1], t[2]>> BY DEF Threads
<1> SUFFICES ASSUME NEW p \in Pids, Ending(p)'
             PROVE  /\ p \in held' \ {0} /\ Children(p)' = {} /\ ~Created(p)'
                    /\ \A t \in Threads : t[1] = p => pc'[t] \notin Creating
                    /\ p \notin Victims => pc'[<<p, 0>>] \in {"exit", "halt", "none"}
    BY DEF EndingSound
<1>1. CASE Ending(p)
  <2>1. /\ p \in held \ {0} /\ Children(p) = {} /\ ~Created(p)
        /\ \A t \in Threads : t[1] = p => pc[t] \notin Creating
        /\ p \notin Victims => pc[<<p, 0>>] \in {"exit", "halt", "none"}
        BY <1>1 DEF FamilyInv, EndingSound
  <2>2. p \in held' BY <1>0, <2>1, HeldStep, EndedOnce
  <2>3. Children(p)' = {}
    <3>1. ASSUME NEW q \in Children(p)' PROVE FALSE
      <4>1. PICK t \in Threads : syscall_fork(t) /\ t[1] = p BY <2>1, <3>1, ChildrenStep
      <4> QED BY <2>1, <4>1 DEF syscall_fork, At, Creating
    <3> QED BY <3>1
  <2>4. ~Created(p)'
    <3>1. ASSUME NEW v \in Threads, PcreatePublish(v), arg[v] = p PROVE FALSE
          BY <1>0, <1>1, <3>1, Reserved DEF PcreatePublish, At
    <3> QED BY <1>0, <2>1, <3>1, CreatedStep
  <2>5. ASSUME NEW t \in Threads, t[1] = p PROVE pc'[t] \notin Creating
    <3>1. CASE ~Creates BY <2>1, <2>5, <3>1, CreatorsKept DEF CreatorsStay
    <3>2. ASSUME NEW u \in Threads, PcreateFail(u) \/ PcreatePublish(u) \/ syscall_fork(u)
          PROVE  pc'[t] \notin Creating
          BY <1>0, <2>1, <2>5, <3>2 DEF PcreateFail, PcreatePublish, syscall_fork, At, Leaves,
             Moves, TypeOK, Creating
    <3>3. ASSUME NEW u \in Threads, PcreateReserve(u) PROVE pc'[t] \notin Creating
      <4>1. u[1] \in Forkers /\ u[2] = 0 /\ pc[u] = "user"
            BY <3>3 DEF PcreateReserve, Enters
      <4>2. u # t BY <1>t, <2>1, <2>5, <4>1 DEF Disciplined
      <4> QED BY <1>0, <2>1, <2>5, <3>3, <4>2 DEF PcreateReserve, Enters, TypeOK
    <3> QED BY <3>1, <3>2, <3>3 DEF Creates
  <2>6. p \notin Victims => pc'[<<p, 0>>] \in {"exit", "halt", "none"} BY <1>1, EndersStay
  <2> QED BY <2>1, <2>2, <2>3, <2>4, <2>5, <2>6
<1>2. ASSUME NEW t \in Threads, (exit(t) /\ p = t[1]) \/ kill(t, p), ~Ending(p)
      PROVE  /\ p \in held' \ {0} /\ Children(p)' = {} /\ ~Created(p)'
             /\ \A u \in Threads : u[1] = p => pc'[u] \notin Creating
             /\ p \notin Victims => pc'[<<p, 0>>] \in {"exit", "halt", "none"}
  <2>1. threads[p] # {}
    <3>1. CASE exit(t) /\ p = t[1]
          BY <1>0, <1>t, <3>1 DEF exit, Enters, ThreadsSound
    <3>2. CASE kill(t, p) BY <3>2 DEF kill, Target, Disciplined
    <3> QED BY <1>2, <3>1, <3>2
  <2>2. p \in held \ {0} BY <1>0, <2>1 DEF ThreadsSound
  <2>3. Children(p) = {} BY <1>2 DEF exit, kill, Target, Disciplined
  <2>4. UNCHANGED table BY <1>2 DEF exit, kill
  <2>5. ~Created(p)'
    <3>1. ~Created(p) BY <1>0, <2>1 DEF Created, CreationSound
    <3>2. \A v \in Threads : ~PcreatePublish(v)
      <4>1. ASSUME NEW v \in Threads, PcreatePublish(v) PROVE FALSE
        <5>1. arg[v] \in Pids /\ arg[v] \notin held BY <1>0, <4>1, Reserved DEF PcreatePublish, At
        <5> QED BY <2>4, <4>1, <5>1 DEF PcreatePublish, table
      <4> QED BY <4>1
    <3> QED BY <1>0, <3>1, <3>2, CreatedStep
  <2>6. ASSUME NEW u \in Threads, u[1] = p PROVE pc'[u] \notin Creating
    <3>1. u # t => pc'[u] = pc[u] BY <1>0, <1>2 DEF exit, kill, Enters, TypeOK
    <3>2. u = t => pc'[u] \in {"exit", "kill"} BY <1>0, <1>2 DEF exit, kill, Enters, TypeOK
    <3>3. CASE exit(t) /\ p = t[1]
      <4>1. t[2] = 0 BY <3>3 DEF exit, Enters
      <4>2. pc[u] \in Creating => u = t BY <1>0, <2>6, <3>3, <4>1, SameThread DEF MainThreads, Creating
      <4> QED BY <3>1, <3>2, <4>2 DEF Creating
    <3>4. CASE kill(t, p)
      <4>1. p \notin Forkers BY <3>4 DEF kill, Target, Disciplined
      <4>2. pc[u] \notin Creating BY <1>0, <2>6, <4>1 DEF CreationSound
      <4> QED BY <3>1, <3>2, <4>2 DEF Creating
    <3> QED BY <1>2, <3>3, <3>4
  <2>7. p \notin Victims => pc'[<<p, 0>>] \in {"exit", "halt", "none"}
    <3>1. CASE kill(t, p) BY <3>1 DEF kill, Target
    <3>2. CASE exit(t) /\ p = t[1]
      <4>1. t = <<p, 0>> BY <1>t, <3>2 DEF exit, Enters
      <4> QED BY <1>0, <3>2, <4>1 DEF exit, Enters, TypeOK
    <3> QED BY <1>2, <3>1, <3>2
  <2>8. p \in held' \ {0} /\ Children(p)' = {} BY <2>2, <2>3, <2>4 DEF table, Children
  <2> QED BY <2>5, <2>6, <2>7, <2>8
<1> QED BY <1>0, <1>1, <1>2, EndingStep

(* Only programs that may exec do. *)
ExecersKnown == \A t \in Threads : pc[t] = "exec" => t[1] \in Execvers

(* Every step keeps ExecersKnown. *)
LEMMA ExecersStep ==
    ASSUME TypeOK, ExecersKnown, Next
    PROVE  ExecersKnown'
<1>1. ASSUME NEW t \in Threads, PcreateReserve(t) PROVE ExecersKnown'
    BY <1>1 DEF PcreateReserve, Enters, monitor, queue, TypeOK, ExecersKnown
<1>2. ASSUME NEW t \in Threads, PcreateFail(t) PROVE ExecersKnown'
    BY <1>2 DEF PcreateFail, Leaves, At, monitor, queue, TypeOK, ExecersKnown
<1>3. ASSUME NEW t \in Threads, PcreatePublish(t) PROVE ExecersKnown'
    BY <1>3 DEF PcreatePublish, Moves, At, monitor, queue, TypeOK, ExecersKnown
<1>4. ASSUME NEW t \in Threads, syscall_fork(t) PROVE ExecersKnown'
    BY <1>4 DEF syscall_fork, At, monitor, queue, TypeOK, ExecersKnown
<1>5. ASSUME NEW t \in Threads, exit(t) PROVE ExecersKnown'
    BY <1>5 DEF exit, Enters, table, monitor, queue, TypeOK, ExecersKnown
<1>6. ASSUME NEW t \in Threads, execve(t) PROVE ExecersKnown'
    BY <1>6 DEF execve, Enters, table, monitor, queue, TypeOK, ExecersKnown
<1>7. ASSUME NEW t \in Threads, userspace_send_request(t) PROVE ExecersKnown'
    BY <1>7 DEF userspace_send_request, table, monitor, TypeOK, ExecersKnown, AfterSend
<1>8. ASSUME NEW t \in Threads, ExecveAborted(t) PROVE ExecersKnown'
    BY <1>8 DEF ExecveAborted, At, table, monitor, queue, TypeOK, ExecersKnown
<1>9. ASSUME NEW t \in Threads, ExecveReturns(t) PROVE ExecersKnown'
    BY <1>9 DEF ExecveReturns, Leaves, At, table, monitor, queue, TypeOK, ExecersKnown
<1>10. ASSUME NEW t \in Threads, WaitFound(t) PROVE ExecersKnown'
    BY <1>10 DEF WaitFound, At, monitor, queue, TypeOK, ExecersKnown
<1>11. ASSUME NEW t \in Threads, WaitNone(t) PROVE ExecersKnown'
    BY <1>11 DEF WaitNone, Leaves, At, table, monitor, queue, TypeOK, ExecersKnown
<1>12. ASSUME NEW t \in Threads, WaitBlocks(t) PROVE ExecersKnown'
    BY <1>12 DEF WaitBlocks, Moves, At, table, monitor, queue, TypeOK, ExecersKnown
<1>13. ASSUME NEW t \in Threads, WaitWoken(t) PROVE ExecersKnown'
    BY <1>13 DEF WaitWoken, Moves, At, monitor, queue, TypeOK, ExecersKnown
<1>14. ASSUME NEW t \in Threads, WaitAborted(t) PROVE ExecersKnown'
    BY <1>14 DEF WaitAborted, Leaves, At, table, monitor, queue, TypeOK, ExecersKnown
<1>15. ASSUME NEW t \in Threads, Reap(t) PROVE ExecersKnown'
    BY <1>15 DEF Reap, Leaves, At, monitor, queue, TypeOK, ExecersKnown
<1>16. ASSUME NEW t \in Threads, NEW p \in Pids, kill(t, p) PROVE ExecersKnown'
    BY <1>16 DEF kill, Enters, table, monitor, queue, TypeOK, ExecersKnown
<1>17. ASSUME NEW t \in Threads, NEW p \in Pids, KillHandled(t, p) PROVE ExecersKnown'
    BY <1>17 DEF KillHandled, monitor, queue, TypeOK, ExecersKnown
<1>18. ASSUME NEW t \in Threads, NEW a \in {"default", "function"}, syscall_sigaction(t, a)
       PROVE  ExecersKnown'
    BY <1>18 DEF syscall_sigaction, monitor, queue, TypeOK, ExecersKnown
<1>19. ASSUME NEW t \in Threads, NEW pid \in Pids \cup {ANY}, syscall_waitpid(t, pid)
       PROVE  ExecersKnown'
    BY <1>19 DEF syscall_waitpid, Enters, table, monitor, queue, TypeOK, ExecersKnown
<1>20. ASSUME MonitorIdle PROVE ExecersKnown'
    BY <1>20 DEF MonitorIdle, table, queue, TypeOK, ExecersKnown
<1>21. ASSUME MonitorTakes PROVE ExecersKnown'
    BY <1>21 DEF MonitorTakes, table, queue, TypeOK, ExecersKnown
<1>22. ASSUME ExecFails PROVE ExecersKnown'
    BY <1>22 DEF ExecFails, table, queue, TypeOK, ExecersKnown
<1>23. ASSUME MonitorKills PROVE ExecersKnown'
    BY <1>23 DEF MonitorKills, queue, TypeOK, ExecersKnown
<1>24. ASSUME ExecCreates PROVE ExecersKnown'
    BY <1>24 DEF ExecCreates, queue, TypeOK, ExecersKnown
<1>25. ASSUME ExitFrees PROVE ExecersKnown'
    BY <1>25 DEF ExitFrees, queue, TypeOK, ExecersKnown
<1>26. ASSUME task_send_child_event PROVE ExecersKnown'
    BY <1>26 DEF task_send_child_event, queue, TypeOK, ExecersKnown
<1>27. ASSUME ChildTrigger PROVE ExecersKnown'
    BY <1>27 DEF ChildTrigger, queue, TypeOK, ExecersKnown
<1>28. ASSUME MonitorDone PROVE ExecersKnown'
    BY <1>28 DEF MonitorDone, table, TypeOK, ExecersKnown
<1>29. ASSUME MonitorAwaits PROVE ExecersKnown'
    BY <1>29 DEF MonitorAwaits, table, TypeOK, ExecersKnown
<1> QED BY ONLY Next, <1>1, <1>2, <1>3, <1>4, <1>5, <1>6, <1>7, <1>8, <1>9, <1>10, <1>11,
           <1>12, <1>13, <1>14, <1>15, <1>16, <1>17, <1>18, <1>19, <1>20, <1>21, <1>22,
           <1>23, <1>24, <1>25, <1>26, <1>27, <1>28, <1>29
    DEF Next, Program, Continue, Monitor

(* The main thread of a process that execs waits, or has been killed.        *)
ExecWaits(p) ==
    \/ pc[<<p, 0>>] = "execve"
    \/ urm = "kill" /\ Job.pid = p /\ Job.type = "execve" /\ pc[<<p, 0>>] = "none"

(* When the new program is installed, no other exec of its process is pending. *)
LEMMA ExecedOnce ==
    ASSUME Disciplined, BasicInv, FamilyInv, NEW p \in Pids, Execing(p)',
           userspace_requests # <<>>, ~HeadServed, HeadServed', UNCHANGED userspace_requests,
           Job.type = "execve"
    PROVE  p # Job.pid
<1>1. PICK n \in Unserved' : userspace_requests[n].type = "execve" /\ userspace_requests[n].pid = p
      BY DEF Execing
<1>2. n \in Unserved /\ n # 1 BY <1>1 DEF Unserved, Ids
<1>3. 1 \in Unserved /\ userspace_requests[1] = Job BY DEF Unserved, Ids, Job, BasicInv, TypeOK
<1> QED BY <1>1, <1>2, <1>3 DEF FamilyInv, ExecSound

(* The main thread waits as long as the exec is pending. *)
LEMMA ExecersStay ==
    ASSUME Disciplined, BasicInv, FamilyInv, NEW x \in Pids, Execing(x), Execing(x)', Next
    PROVE  ExecWaits(x)'
<1> USE DEF BasicInv
<1>0. TypeOK /\ ArgsSound /\ <<x, 0>> \in Threads BY ProcessAssumption DEF Threads, Tids
<1>a. x \notin Victims BY DEF FamilyInv, ExecSound, Disciplined
<1>x. ExecWaits(x) BY DEF FamilyInv, ExecSound, ExecWaits
<1>1. ASSUME NEW t \in Threads, PcreateReserve(t) PROVE ExecWaits(x)'
    BY <1>1, <1>0, <1>x DEF PcreateReserve, Enters, monitor, queue, TypeOK, ExecWaits, Job
<1>2. ASSUME NEW t \in Threads, PcreateFail(t) PROVE ExecWaits(x)'
    BY <1>2, <1>0, <1>x DEF PcreateFail, Leaves, At, monitor, queue, TypeOK, ExecWaits, Job
<1>3. ASSUME NEW t \in Threads, PcreatePublish(t) PROVE ExecWaits(x)'
    BY <1>3, <1>0, <1>x DEF PcreatePublish, Moves, At, monitor, queue, TypeOK, ExecWaits, Job
<1>4. ASSUME NEW t \in Threads, syscall_fork(t) PROVE ExecWaits(x)'
  <2>1. arg[t] \in Pids /\ arg[t] # x /\ pc[t] = "fork" BY <1>0, <1>4, Published DEF syscall_fork, At
  <2>2. <<arg[t], 0>> # <<x, 0>> /\ t # <<x, 0>> BY <1>x, <2>1 DEF ExecWaits
  <2> QED BY <1>0, <1>x, <1>4, <2>2 DEF syscall_fork, TypeOK, ExecWaits, Job, queue, monitor
<1>5. ASSUME NEW t \in Threads, exit(t) PROVE ExecWaits(x)'
    BY <1>5, <1>0, <1>x DEF exit, Enters, table, monitor, queue, TypeOK, ExecWaits, Job
<1>6. ASSUME NEW t \in Threads, execve(t) PROVE ExecWaits(x)'
    BY <1>6, <1>0, <1>x DEF execve, Enters, table, monitor, queue, TypeOK, ExecWaits, Job
<1>7. ASSUME NEW t \in Threads, userspace_send_request(t) PROVE ExecWaits(x)'
    BY <1>7, <1>0, <1>x DEF userspace_send_request, table, monitor, TypeOK, ExecWaits, Job,
       AfterSend, LockFree
<1>8. ASSUME NEW t \in Threads, ExecveAborted(t) PROVE ExecWaits(x)'
    BY <1>8, <1>0, <1>x DEF ExecveAborted, At, table, monitor, queue, TypeOK, ExecWaits, Job
<1>9. ASSUME NEW t \in Threads, ExecveReturns(t) PROVE ExecWaits(x)'
    BY <1>9, <1>0, <1>x DEF ExecveReturns, Leaves, At, table, monitor, queue, TypeOK, ExecWaits, Job
<1>10. ASSUME NEW t \in Threads, WaitFound(t) PROVE ExecWaits(x)'
    BY <1>10, <1>0, <1>x DEF WaitFound, At, monitor, queue, TypeOK, ExecWaits, Job
<1>11. ASSUME NEW t \in Threads, WaitNone(t) PROVE ExecWaits(x)'
    BY <1>11, <1>0, <1>x DEF WaitNone, Leaves, At, table, monitor, queue, TypeOK, ExecWaits, Job
<1>12. ASSUME NEW t \in Threads, WaitBlocks(t) PROVE ExecWaits(x)'
    BY <1>12, <1>0, <1>x DEF WaitBlocks, Moves, At, table, monitor, queue, TypeOK, ExecWaits, Job
<1>13. ASSUME NEW t \in Threads, WaitWoken(t) PROVE ExecWaits(x)'
    BY <1>13, <1>0, <1>x DEF WaitWoken, Moves, At, monitor, queue, TypeOK, ExecWaits, Job
<1>14. ASSUME NEW t \in Threads, WaitAborted(t) PROVE ExecWaits(x)'
    BY <1>14, <1>0, <1>x DEF WaitAborted, Leaves, At, table, monitor, queue, TypeOK, ExecWaits, Job
<1>15. ASSUME NEW t \in Threads, Reap(t) PROVE ExecWaits(x)'
    BY <1>15, <1>0, <1>x DEF Reap, Leaves, At, monitor, queue, TypeOK, ExecWaits, Job
<1>16. ASSUME NEW t \in Threads, NEW p \in Pids, kill(t, p) PROVE ExecWaits(x)'
    BY <1>16, <1>0, <1>x DEF kill, Enters, table, monitor, queue, TypeOK, ExecWaits, Job
<1>17. ASSUME NEW t \in Threads, NEW p \in Pids, KillHandled(t, p) PROVE ExecWaits(x)'
    BY <1>17, <1>0, <1>x, <1>a DEF KillHandled, monitor, queue, TypeOK, ExecWaits, Job, Target
<1>18. ASSUME NEW t \in Threads, NEW a \in {"default", "function"}, syscall_sigaction(t, a)
       PROVE  ExecWaits(x)'
    BY <1>18, <1>0, <1>x DEF syscall_sigaction, monitor, queue, TypeOK, ExecWaits, Job
<1>19. ASSUME NEW t \in Threads, NEW pid \in Pids \cup {ANY}, syscall_waitpid(t, pid)
       PROVE  ExecWaits(x)'
    BY <1>19, <1>0, <1>x DEF syscall_waitpid, Enters, table, monitor, queue, TypeOK, ExecWaits, Job
<1>20. ASSUME MonitorIdle PROVE ExecWaits(x)'
    BY <1>20, <1>0, <1>x DEF MonitorIdle, table, queue, TypeOK, ExecWaits, Job
<1>21. ASSUME MonitorTakes PROVE ExecWaits(x)'
    BY <1>21, <1>x DEF MonitorTakes, ExecWaits
<1>22. ASSUME ExecFails PROVE ExecWaits(x)'
  <2>1. Job.pid # x
    <3>1. /\ userspace_requests # <<>> /\ ~HeadServed /\ HeadServed' /\ Job.type = "execve"
          /\ UNCHANGED userspace_requests
          BY <1>22 DEF ExecFails, HeadServed, JobThere, queue
    <3> QED BY <3>1, ExecedOnce
  <2>2. Job.pid \in Pids BY <1>22, JobTyped DEF ExecFails, JobThere
  <2> QED BY <1>0, <1>x, <1>22, <2>1, <2>2 DEF ExecFails, TypeOK, ExecWaits, queue
<1>23. ASSUME MonitorKills PROVE ExecWaits(x)'
  <2>1. Job.pid = x => Job.type = "execve"
    <3>1. userspace_requests # <<>> /\ ~HeadServed BY <1>23 DEF MonitorKills, JobThere, HeadServed
    <3>2. ~Ending(x) BY DEF FamilyInv, ExecSound
    <3> QED BY <1>0, <3>1, <3>2, JobUnserved, JobExit
  <2>2. Job' = Job /\ urm' = "kill" /\ urm = "kill" BY <1>23 DEF MonitorKills, Job, queue
  <2>3. \/ UNCHANGED pc
        \/ pc' = [pc EXCEPT ![<<Job.pid, next>>] = "none"]
        BY <1>23 DEF MonitorKills
  <2>4. CASE UNCHANGED pc BY <1>x, <2>2, <2>4 DEF ExecWaits
  <2>5. CASE pc' = [pc EXCEPT ![<<Job.pid, next>>] = "none"]
    <3>1. CASE <<Job.pid, next>> = <<x, 0>> BY <1>0, <2>1, <2>2, <2>5, <3>1 DEF ExecWaits, TypeOK
    <3>2. CASE <<Job.pid, next>> # <<x, 0>> BY <1>0, <1>x, <2>2, <2>5, <3>2 DEF ExecWaits, TypeOK
    <3> QED BY <3>1, <3>2
  <2> QED BY <2>3, <2>4, <2>5
<1>24. ASSUME ExecCreates PROVE ExecWaits(x)'
  <2>1. Job.pid # x
    <3>1. /\ userspace_requests # <<>> /\ ~HeadServed /\ HeadServed' /\ Job.type = "execve"
          /\ UNCHANGED userspace_requests
          BY <1>24 DEF ExecCreates, HeadServed, JobThere, queue
    <3> QED BY <3>1, ExecedOnce
  <2>2. Job.pid \in Pids BY <1>24, JobTyped DEF ExecCreates, JobThere
  <2> QED BY <1>0, <1>x, <1>24, <2>1, <2>2 DEF ExecCreates, TypeOK, ExecWaits, queue
<1>25. ASSUME ExitFrees PROVE ExecWaits(x)'
  <2>1. Ending(Job.pid) /\ Job.pid \in Pids BY <1>25, JobExit DEF ExitFrees, HeadServed, JobThere
  <2>2. Job.pid # x BY <2>1 DEF FamilyInv, ExecSound
  <2> QED BY <1>x, <1>25, <2>2 DEF ExitFrees, ExecWaits, Job, queue
<1>26. ASSUME task_send_child_event PROVE ExecWaits(x)'
    BY <1>26, <1>0, <1>x DEF task_send_child_event, queue, TypeOK, ExecWaits, Job
<1>27. ASSUME ChildTrigger PROVE ExecWaits(x)'
    BY <1>27, <1>0, <1>x DEF ChildTrigger, queue, TypeOK, ExecWaits, Job
<1>28. ASSUME MonitorDone PROVE ExecWaits(x)'
    BY <1>28, <1>0, <1>x DEF MonitorDone, table, TypeOK, ExecWaits, Job
<1>29. ASSUME MonitorAwaits PROVE ExecWaits(x)'
    BY <1>29, <1>0, <1>x DEF MonitorAwaits, table, TypeOK, ExecWaits, Job
<1> QED BY ONLY Next, <1>1, <1>2, <1>3, <1>4, <1>5, <1>6, <1>7, <1>8, <1>9, <1>10, <1>11,
           <1>12, <1>13, <1>14, <1>15, <1>16, <1>17, <1>18, <1>19, <1>20, <1>21, <1>22,
           <1>23, <1>24, <1>25, <1>26, <1>27, <1>28, <1>29
    DEF Next, Program, Continue, Monitor

(* Every step keeps ExecSound. *)
LEMMA ExecStep ==
    ASSUME Disciplined, BasicInv, FamilyInv, Next
    PROVE  ExecSound'
<1> USE DEF BasicInv
<1>0. TypeOK /\ ArgsSound /\ JobThere /\ ThreadsSound /\ AskedOnce /\ ExecSound /\ MainThreads
      BY DEF FamilyInv
<1>t. \A t \in Threads : t[1] \in Pids /\ t[2] \in Tids /\ t = <<t[1], t[2]>> BY DEF Threads
<1>1. ExecersKnown' BY <1>0, ExecersStep DEF ExecSound, ExecersKnown
<1>2. ASSUME NEW t \in Threads, userspace_send_request(t), pc[t] = "exec"
      PROVE  /\ t = <<arg[t], 0>> /\ arg[t] \in Pids \cap Execvers /\ arg[t] \in held \ {0}
             /\ ~Ending(arg[t]) /\ ~Execing(arg[t]) /\ ~Created(arg[t])
  <2>1. arg[t] = t[1] /\ t[2] = 0 /\ t[1] \in Execvers
        BY <1>0, <1>2 DEF AskedOnce, MainThreads, ExecSound
  <2>2. t = <<arg[t], 0>> /\ arg[t] \in Pids BY <1>t, <2>1
  <2>3. threads[arg[t]] # {} BY <1>0, <1>2, <1>t, <2>1 DEF ThreadsSound
  <2>4. arg[t] \in held \ {0} BY <1>0, <2>2, <2>3 DEF ThreadsSound
  <2>5. ~Ending(arg[t])
    <3>1. arg[t] \notin Victims BY <2>1 DEF Disciplined
    <3>2. pc[<<arg[t], 0>>] = "exec" BY <1>2, <2>2
    <3> QED BY <2>2, <3>1, <3>2 DEF FamilyInv, EndingSound
  <2>6. ~Execing(arg[t])
    <3>1. pc[<<arg[t], 0>>] = "exec" BY <1>2, <2>2
    <3> QED BY <1>0, <2>2, <3>1 DEF ExecSound
  <2>7. ~Created(arg[t]) BY <2>3 DEF Created, FamilyInv, CreationSound
  <2> QED BY <2>1, <2>2, <2>4, <2>5, <2>6, <2>7
<1>3. ASSUME NEW p \in Pids, Execing(p)'
      PROVE  /\ p \in Execvers /\ p \in held' \ {0} /\ ~Ending(p)' /\ ~Created(p)'
             /\ ExecWaits(p)'
  <2>1. CASE Execing(p)
    <3>1. p \in Execvers /\ p \in held \ {0} /\ ~Ending(p) /\ ~Created(p) /\ ExecWaits(p)
          BY <1>0, <2>1 DEF ExecSound, ExecWaits
    <3>2. p \in held'
      <4>1. ASSUME ExitFrees PROVE Job.pid # p
            BY <4>1, <3>1, JobExit DEF ExitFrees, HeadServed, JobThere
      <4> QED BY <1>0, <3>1, <4>1, HeldStep
    <3>3. ~Ending(p)'
      <4>1. ASSUME NEW t \in Threads, exit(t), p = t[1] PROVE FALSE
        <5>1. t = <<p, 0>> /\ pc[t] = "user" BY <1>t, <4>1 DEF exit, Enters
        <5> QED BY <3>1, <5>1 DEF ExecWaits
      <4>2. ASSUME NEW t \in Threads, kill(t, p) PROVE FALSE
            BY <3>1, <4>2 DEF kill, Target, Disciplined
      <4> QED BY <1>0, <3>1, <4>1, <4>2, EndingStep
    <3>4. ~Created(p)'
      <4>1. ASSUME NEW v \in Threads, PcreatePublish(v), arg[v] = p PROVE FALSE
            BY <1>0, <2>1, <4>1, Reserved DEF PcreatePublish, At
      <4> QED BY <1>0, <3>1, <4>1, CreatedStep
    <3>5. ExecWaits(p)' BY <1>3, <2>1, ExecersStay
    <3> QED BY <3>1, <3>2, <3>3, <3>4, <3>5
  <2>2. ASSUME NEW t \in Threads, userspace_send_request(t), pc[t] = "exec", arg[t] = p
        PROVE  /\ p \in Execvers /\ p \in held' \ {0} /\ ~Ending(p)' /\ ~Created(p)'
               /\ ExecWaits(p)'
    <3>1. /\ t = <<p, 0>> /\ p \in Execvers /\ p \in held \ {0}
          /\ ~Ending(p) /\ ~Created(p)
          BY <1>2, <2>2
    <3>2. p \in held' BY <2>2, <3>1 DEF userspace_send_request, table
    <3>3. ~Ending(p)' BY <1>0, <2>2, <3>1, EndingStep, SentAlone
    <3>4. ~Created(p)' BY <1>0, <2>2, <3>1, CreatedStep, SentAlone
    <3>5. ExecWaits(p)'
          BY <1>0, <2>2, <3>1 DEF userspace_send_request, AfterSend, ExecWaits, TypeOK
    <3> QED BY <3>1, <3>2, <3>3, <3>4, <3>5
  <2> QED BY <1>0, <1>3, <2>1, <2>2, ExecingStep
<1>4. ASSUME NEW m \in Unserved', NEW n \in Unserved',
             userspace_requests'[m].type = "execve", userspace_requests'[n].type = "execve",
             userspace_requests'[m].pid = userspace_requests'[n].pid
      PROVE  m = n
  <2>1. CASE UNCHANGED userspace_requests /\ Unserved' \subseteq Unserved
        BY <1>0, <1>4, <2>1 DEF ExecSound
  <2>2. ASSUME NEW t \in Threads, userspace_send_request(t) PROVE m = n
    <3>0. Unserved = Ids /\ Unserved' = Ids' BY <2>2, SentUnserved
    <3>1. ASSUME NEW k \in Ids, userspace_requests[k].type = "execve",
                 userspace_requests[k].pid = Request(t).pid, Request(t).type = "execve"
          PROVE  FALSE
      <4>1. pc[t] = "exec" /\ Request(t).pid = arg[t] BY <3>1 DEF Request
      <4>2. ~Execing(arg[t]) BY <1>2, <2>2, <4>1
      <4> QED BY <3>0, <3>1, <4>1, <4>2 DEF Execing
    <3>2. /\ userspace_requests'[Len(userspace_requests) + 1] = Request(t)
          /\ \A k \in Ids' : \/ k \in Ids /\ userspace_requests'[k] = userspace_requests[k]
                             \/ k = Len(userspace_requests) + 1
          BY <1>0, <2>2, Sent
    <3>3. CASE m \in Ids /\ n \in Ids /\ userspace_requests'[m] = userspace_requests[m]
               /\ userspace_requests'[n] = userspace_requests[n]
          BY <1>0, <1>4, <3>0, <3>3 DEF ExecSound
    <3>4. CASE m = Len(userspace_requests) + 1 BY <1>4, <3>0, <3>1, <3>2, <3>4
    <3>5. CASE n = Len(userspace_requests) + 1 BY <1>4, <3>0, <3>1, <3>2, <3>5
    <3> QED BY <3>0, <3>2, <3>3, <3>4, <3>5
  <2>3. CASE MonitorDone
    <3>1. \A k \in Ids' : /\ k \in Nat /\ k + 1 \in Ids
                          /\ userspace_requests'[k] = userspace_requests[k + 1]
          BY <1>0, <2>3, Shifted
    <3>2. TypeOK' BY <1>0, TypeStep
    <3>3. \A k \in Unserved' : k \in Ids' /\ k > 0 BY SMTT(30), <3>2 DEF Unserved, Ids, TypeOK
    <3>4. \A k \in Unserved' : k \in Nat /\ k + 1 \in Unserved BY <3>1, <3>3 DEF Unserved
    <3>5. m + 1 = n + 1 BY <1>0, <1>4, <3>1, <3>3, <3>4 DEF ExecSound
    <3> QED BY <3>4, <3>5
  <2> QED BY <1>0, <2>1, <2>2, <2>3, QueueCases
<1> QED BY <1>1, <1>3, <1>4 DEF ExecSound, ExecersKnown, ExecWaits

(* Every step keeps MonitorSound. *)
LEMMA MonitorStep ==
    ASSUME Disciplined, BasicInv, FamilyInv, Next
    PROVE  MonitorSound'
<1> USE DEF BasicInv
<1>0. TypeOK /\ ArgsSound /\ JobThere /\ MonitorSound BY DEF FamilyInv
<1>p. urm \in {"kill", "notify"} => userspace_requests # <<>> /\ Job.pid \in Pids
      BY <1>0, JobTyped DEF JobThere
<1>k. urm = "kill" => Ending(Job.pid) \/ Execing(Job.pid)
      BY <1>0, <1>p, JobUnserved DEF HeadServed
<1>1. ASSUME NEW t \in Threads, PcreateReserve(t) PROVE MonitorSound'
  <2>1. PICK q \in Pids : /\ IsFree(process_table[q])
                          /\ process_table' = [process_table EXCEPT ![q] = PLACEHOLDER]
        BY <1>1 DEF PcreateReserve, FreePid
  <2>2. process_table[q] # PROCESS BY <2>1, ProcessAssumption DEF IsFree
  <2>3. UNCHANGED <<ppid, threads, held, urm, next, parent, fault, userspace_requests>>
        BY <1>1 DEF PcreateReserve, queue, monitor
  <2> QED BY <1>0, <1>p, <2>1, <2>2, <2>3 DEF TypeOK, MonitorSound, Job
<1>2. ASSUME NEW t \in Threads, PcreateFail(t) PROVE MonitorSound'
  <2>1. pc[t] = "pcreate" /\ process_table[arg[t]] = PLACEHOLDER
        BY <1>2, <1>0, Reserved DEF PcreateFail, At
  <2> QED BY <1>2, <1>0, <1>p, <2>1, ProcessAssumption
          DEF PcreateFail, monitor, queue, TypeOK, MonitorSound, Job
<1>3. ASSUME NEW t \in Threads, PcreatePublish(t) PROVE MonitorSound'
  <2>1. /\ arg[t] \in Pids /\ process_table[arg[t]] # PROCESS
        /\ ~Ending(arg[t]) /\ ~Execing(arg[t])
        BY <1>3, <1>0, Reserved, ProcessAssumption DEF PcreatePublish, At
  <2>2. urm \in {"kill", "notify"} => arg[t] # Job.pid BY <1>0, <1>k, <2>1 DEF MonitorSound
  <2> QED BY <1>3, <1>0, <1>p, <2>2 DEF PcreatePublish, monitor, queue, TypeOK, MonitorSound, Job
<1>4. ASSUME NEW t \in Threads, syscall_fork(t) PROVE MonitorSound'
  <2>1. arg[t] \in Pids /\ arg[t] \in held /\ ~Ending(arg[t]) /\ ~Execing(arg[t])
        BY <1>4, <1>0, Published DEF syscall_fork, At
  <2>2. urm \in {"kill", "notify"} => arg[t] # Job.pid BY <1>0, <1>k, <2>1 DEF MonitorSound
  <2> QED BY <1>4, <1>0, <1>p, <2>2 DEF syscall_fork, monitor, queue, TypeOK, MonitorSound, Job
<1>5. ASSUME NEW t \in Threads, exit(t) PROVE MonitorSound'
    BY <1>5, <1>0, <1>p DEF exit, Enters, table, monitor, queue, TypeOK, MonitorSound, Job
<1>6. ASSUME NEW t \in Threads, execve(t) PROVE MonitorSound'
    BY <1>6, <1>0, <1>p DEF execve, Enters, table, monitor, queue, TypeOK, MonitorSound, Job
<1>7. ASSUME NEW t \in Threads, userspace_send_request(t) PROVE MonitorSound'
    BY <1>7, <1>0, <1>p DEF userspace_send_request, table, monitor, TypeOK, MonitorSound, Job,
       LockFree
<1>8. ASSUME NEW t \in Threads, ExecveAborted(t) PROVE MonitorSound'
    BY <1>8, <1>0, <1>p DEF ExecveAborted, At, table, monitor, queue, TypeOK, MonitorSound, Job
<1>9. ASSUME NEW t \in Threads, ExecveReturns(t) PROVE MonitorSound'
    BY <1>9, <1>0, <1>p DEF ExecveReturns, Leaves, At, table, monitor, queue, TypeOK,
       MonitorSound, Job
<1>10. ASSUME NEW t \in Threads, WaitFound(t) PROVE MonitorSound'
    BY <1>10, <1>0, <1>p DEF WaitFound, At, monitor, queue, TypeOK, MonitorSound, Job
<1>11. ASSUME NEW t \in Threads, WaitNone(t) PROVE MonitorSound'
    BY <1>11, <1>0, <1>p DEF WaitNone, Leaves, At, table, monitor, queue, TypeOK, MonitorSound, Job
<1>12. ASSUME NEW t \in Threads, WaitBlocks(t) PROVE MonitorSound'
    BY <1>12, <1>0, <1>p DEF WaitBlocks, Moves, At, table, monitor, queue, TypeOK, MonitorSound, Job
<1>13. ASSUME NEW t \in Threads, WaitWoken(t) PROVE MonitorSound'
    BY <1>13, <1>0, <1>p DEF WaitWoken, Moves, At, monitor, queue, TypeOK, MonitorSound, Job
<1>14. ASSUME NEW t \in Threads, WaitAborted(t) PROVE MonitorSound'
    BY <1>14, <1>0, <1>p DEF WaitAborted, Leaves, At, table, monitor, queue, TypeOK, MonitorSound,
       Job
<1>15. ASSUME NEW t \in Threads, Reap(t) PROVE MonitorSound'
  <2>1. arg[t] \in Pids /\ ~(urm = "notify" /\ Job.pid = arg[t])
        BY <1>15, <1>0 DEF Reap, At, ArgsSound, FamilyInv, EventsSound
  <2> QED BY <1>15, <1>0, <1>p, <2>1 DEF Reap, monitor, queue, TypeOK, MonitorSound, Job
<1>16. ASSUME NEW t \in Threads, NEW p \in Pids, kill(t, p) PROVE MonitorSound'
    BY <1>16, <1>0, <1>p DEF kill, Enters, table, monitor, queue, TypeOK, MonitorSound, Job
<1>17. ASSUME NEW t \in Threads, NEW p \in Pids, KillHandled(t, p) PROVE MonitorSound'
  <2>1. p \in Victims /\ ~ExitAsked(p) BY <1>17 DEF KillHandled, Target, Disciplined, Doomed
  <2>2. urm = "kill" => p # Job.pid
    <3>1. urm = "kill" /\ Job.type = "exit" => ExitAsked(Job.pid)
      <4>1. urm = "kill" => 1 \in DOMAIN userspace_requests /\ Job = userspace_requests[1]
            BY <1>0, <1>p DEF Job, TypeOK
      <4> QED BY <4>1 DEF ExitAsked, ToSet
    <3>2. urm = "kill" /\ Job.type # "exit" => Job.type = "execve"
          BY <1>0, <1>p, JobUnserved DEF HeadServed
    <3>3. urm = "kill" /\ Job.type = "execve" => Job.pid \notin Victims
          BY <1>p, JobExec DEF HeadServed
    <3> QED BY <2>1, <3>1, <3>2, <3>3
  <2> QED BY <1>17, <1>0, <1>p, <2>2 DEF KillHandled, monitor, queue, TypeOK, MonitorSound, Job
<1>18. ASSUME NEW t \in Threads, NEW a \in {"default", "function"}, syscall_sigaction(t, a)
       PROVE  MonitorSound'
    BY <1>18, <1>0, <1>p DEF syscall_sigaction, monitor, queue, TypeOK, MonitorSound, Job
<1>19. ASSUME NEW t \in Threads, NEW pid \in Pids \cup {ANY}, syscall_waitpid(t, pid)
       PROVE  MonitorSound'
    BY <1>19, <1>0, <1>p DEF syscall_waitpid, Enters, table, monitor, queue, TypeOK, MonitorSound,
       Job
<1>20. ASSUME MonitorIdle PROVE MonitorSound'
    BY <1>20, <1>0, <1>p DEF MonitorIdle, table, queue, TypeOK, MonitorSound, Job
<1>21. ASSUME MonitorTakes PROVE MonitorSound'
  <2>1. Job' = Job /\ UNCHANGED <<ppid, threads>> /\ urm' = "kill" /\ next' = 0
        BY <1>21 DEF MonitorTakes, Job, queue, table
  <2>2. fault' = "none" /\ Job.type = "exit" => ppid[Job.pid] # 0
        BY <1>21 DEF MonitorTakes, Verdict
  <2> QED BY <2>1, <2>2 DEF MonitorSound, Tids
<1>22. ASSUME ExecFails PROVE MonitorSound'
    BY <1>22, <1>0, <1>p DEF ExecFails, table, queue, TypeOK, MonitorSound, Job
<1>23. ASSUME MonitorKills PROVE MonitorSound'
  <2>1. /\ Job' = Job /\ UNCHANGED <<ppid, process_table, held, parent, fault, urm>>
        /\ urm = "kill" /\ next \in Nat
        BY <1>23, <1>0, ProcessAssumption DEF MonitorKills, Job, queue, TypeOK
  <2>2. ASSUME NEW i \in Tids, i < next' PROVE i \notin threads'[Job.pid]
    <3>1. CASE i < next /\ UNCHANGED threads BY <1>0, <2>1, <3>1 DEF MonitorSound
    <3>2. CASE next' = next + 1 /\ next \notin threads[Job.pid] /\ UNCHANGED threads
          BY <1>0, <2>1, <2>2, <3>2, ProcessAssumption DEF MonitorSound, Tids
    <3>3. CASE next' = next + 1 /\ threads' = [threads EXCEPT ![Job.pid] = @ \ {next}]
          BY <1>0, <1>p, <2>1, <2>2, <3>3, ProcessAssumption DEF MonitorSound, Tids, TypeOK
    <3> QED BY <1>23, <2>2, <3>1, <3>2, <3>3 DEF MonitorKills
  <2> QED BY <1>0, <2>1, <2>2 DEF MonitorSound
<1>24. ASSUME ExecCreates PROVE MonitorSound'
    BY <1>24, <1>0, <1>p DEF ExecCreates, queue, TypeOK, MonitorSound, Job
<1>25. ASSUME ExitFrees PROVE MonitorSound'
  <2>1. /\ Job.pid \in Pids /\ Job.pid \in held /\ ppid[Job.pid] # 0
        /\ urm' = "notify" /\ Job' = Job
        BY <1>25, <1>0, <1>p, JobExit DEF ExitFrees, HeadServed, MonitorSound, Job, queue
  <2>2. process_table[Job.pid] = PROCESS BY <2>1 DEF FamilyInv, ThreadsSound
  <2> QED BY <1>25, <2>1, <2>2 DEF ExitFrees, MonitorSound
<1>26. ASSUME task_send_child_event PROVE MonitorSound'
    BY <1>26, <1>0, <1>p DEF task_send_child_event, queue, TypeOK, MonitorSound, Job
<1>27. ASSUME ChildTrigger PROVE MonitorSound'
    BY <1>27, <1>0, <1>p DEF ChildTrigger, queue, TypeOK, MonitorSound, Job
<1>28. ASSUME MonitorDone PROVE MonitorSound'
    BY <1>28, <1>0, <1>p DEF MonitorDone, table, TypeOK, MonitorSound, Job
<1>29. ASSUME MonitorAwaits PROVE MonitorSound'
    BY <1>29, <1>0, <1>p DEF MonitorAwaits, table, TypeOK, MonitorSound, Job
<1> QED BY ONLY Next, <1>1, <1>2, <1>3, <1>4, <1>5, <1>6, <1>7, <1>8, <1>9, <1>10, <1>11,
           <1>12, <1>13, <1>14, <1>15, <1>16, <1>17, <1>18, <1>19, <1>20, <1>21, <1>22,
           <1>23, <1>24, <1>25, <1>26, <1>27, <1>28, <1>29
    DEF Next, Program, Continue, Monitor

(* No step uses a released process. *)
LEMMA FaultStep ==
    ASSUME Disciplined, BasicInv, FamilyInv, Next
    PROVE  FaultSound'
<1> USE DEF BasicInv
<1>0. TypeOK /\ JobThere /\ ThreadsSound /\ FamilySound /\ MonitorSound BY DEF FamilyInv
<1>1. CASE MonitorTakes
  <2>1. Job' = Job /\ fault' = Verdict(Job) BY <1>1 DEF MonitorTakes, Job, queue
  <2>2. userspace_requests # <<>> /\ ~HeadServed BY <1>1 DEF MonitorTakes, HeadServed
  <2>3. Job.pid \in Pids /\ Job.pid \in held /\ Job.pid # 0 /\ ~Created(Job.pid)
        BY <1>0, <2>2, JobUnserved, JobExit, JobExec
  <2>4. process_table[Job.pid] = PROCESS BY <1>0, <2>3 DEF ThreadsSound
  <2>5. Alive(Job.pid) BY <2>3, <2>4 DEF Alive
  <2>6. ppid[Job.pid] = 0 => Job.pid = 1 BY <1>0, <2>3, <2>4, ProcessAssumption DEF FamilySound, Pids
  <2> QED BY <2>1, <2>5, <2>6 DEF FaultSound, Verdict
<1>2. CASE task_send_child_event
  <2>1. parent \in held
        BY <1>0, <1>2, JobTyped DEF task_send_child_event, JobThere, MonitorSound, FamilySound
  <2>2. Alive(parent) BY <1>0, <2>1 DEF ThreadsSound, Alive
  <2> QED BY <1>2, <2>2 DEF task_send_child_event, FaultSound
<1>3. CASE fault' = "none" BY <1>3 DEF FaultSound
<1>4. fault' = "none" \/ MonitorTakes \/ task_send_child_event
  <2>1. ASSUME NEW t \in Threads, Program(t) \/ Continue(t) \/ PcreateFail(t) \/ WaitNone(t)
        PROVE  fault' = "none"
        BY <2>1 DEF Program, Continue, PcreateReserve, PcreateFail, PcreatePublish, syscall_fork,
           exit, execve, kill, KillHandled, syscall_sigaction, syscall_waitpid,
           userspace_send_request, ExecveAborted, ExecveReturns, WaitFound, WaitNone, WaitBlocks,
           WaitWoken, WaitAborted, Reap, Enters, At
  <2>2. Monitor => fault' = "none" \/ MonitorTakes \/ task_send_child_event
        BY DEF Monitor, MonitorIdle, ExecFails, MonitorKills, ExecCreates, ExitFrees,
           ChildTrigger, MonitorDone, MonitorAwaits
  <2> QED BY <2>1, <2>2 DEF Next
<1> QED BY <1>1, <1>2, <1>3, <1>4

(* The steps that move a child on from running to freed, and what every other
   step leaves alone.                                                        *)
Settles == (\E t \in Threads : WaitFound(t) \/ Reap(t)) \/ ExitFrees \/ task_send_child_event

(* The reapers go on. *)
ReapersStay ==
    \A u \in Threads : pc[u] = "reap" \/ pc'[u] = "reap" => pc'[u] = pc[u] /\ arg'[u] = arg[u]

(* The released processes stay in the table with their parents. *)
ZombiesStay ==
    /\ \A q \in Pids : process_table'[q] = PROCESS /\ q \notin held' <=>
                       process_table[q] = PROCESS /\ q \notin held
    /\ \A q \in Pids : process_table[q] = PROCESS /\ q \notin held => ppid'[q] = ppid[q]
    /\ urm = "notify" \/ urm' = "notify" => urm' = urm /\ userspace_requests' = userspace_requests

(* The lists stay, except those that fork initialises. *)
EventsStay ==
    /\ \A p \in held : child_events'[p] = child_events[p]
    /\ \A p \in held' \ held : child_events'[p] = <<>>

(* Such a step leaves the reapers alone. *)
LEMMA ReapersKept ==
    ASSUME Disciplined, BasicInv, FamilyInv, ~Settles, Next
    PROVE  ReapersStay
<1> USE DEF BasicInv
<1>0. TypeOK /\ ArgsSound /\ JobThere BY DEF FamilyInv
<1>1. ASSUME NEW t \in Threads, PcreateReserve(t) PROVE ReapersStay
    BY <1>1, <1>0 DEF PcreateReserve, Enters, monitor, queue, TypeOK, ReapersStay
<1>2. ASSUME NEW t \in Threads, PcreateFail(t) PROVE ReapersStay
    BY <1>2, <1>0 DEF PcreateFail, Leaves, At, monitor, queue, TypeOK, ReapersStay
<1>3. ASSUME NEW t \in Threads, PcreatePublish(t) PROVE ReapersStay
    BY <1>3, <1>0 DEF PcreatePublish, Moves, At, monitor, queue, TypeOK, ReapersStay
<1>4. ASSUME NEW t \in Threads, syscall_fork(t) PROVE ReapersStay
  <2>1. /\ arg[t] \in Pids /\ pc[<<arg[t], 0>>] = "none" /\ pc[t] = "fork"
        BY <1>4, <1>0, Published, ProcessAssumption DEF syscall_fork, At, Tids
  <2> QED BY <1>4, <1>0, <2>1 DEF syscall_fork, TypeOK, ReapersStay
<1>5. ASSUME NEW t \in Threads, exit(t) PROVE ReapersStay
    BY <1>5, <1>0 DEF exit, Enters, table, monitor, queue, TypeOK, ReapersStay
<1>6. ASSUME NEW t \in Threads, execve(t) PROVE ReapersStay
    BY <1>6, <1>0 DEF execve, Enters, table, monitor, queue, TypeOK, ReapersStay
<1>7. ASSUME NEW t \in Threads, userspace_send_request(t) PROVE ReapersStay
    BY <1>7, <1>0 DEF userspace_send_request, table, monitor, TypeOK, ReapersStay, AfterSend
<1>8. ASSUME NEW t \in Threads, ExecveAborted(t) PROVE ReapersStay
    BY <1>8, <1>0 DEF ExecveAborted, At, table, monitor, queue, TypeOK, ReapersStay
<1>9. ASSUME NEW t \in Threads, ExecveReturns(t) PROVE ReapersStay
    BY <1>9, <1>0 DEF ExecveReturns, Leaves, At, table, monitor, queue, TypeOK, ReapersStay
<1>10. ASSUME NEW t \in Threads, WaitFound(t) PROVE ReapersStay
    BY <1>10 DEF Settles
<1>11. ASSUME NEW t \in Threads, WaitNone(t) PROVE ReapersStay
    BY <1>11, <1>0 DEF WaitNone, Leaves, At, table, monitor, queue, TypeOK, ReapersStay
<1>12. ASSUME NEW t \in Threads, WaitBlocks(t) PROVE ReapersStay
    BY <1>12, <1>0 DEF WaitBlocks, Moves, At, table, monitor, queue, TypeOK, ReapersStay
<1>13. ASSUME NEW t \in Threads, WaitWoken(t) PROVE ReapersStay
    BY <1>13, <1>0 DEF WaitWoken, Moves, At, monitor, queue, TypeOK, ReapersStay
<1>14. ASSUME NEW t \in Threads, WaitAborted(t) PROVE ReapersStay
    BY <1>14, <1>0 DEF WaitAborted, Leaves, At, table, monitor, queue, TypeOK, ReapersStay
<1>15. ASSUME NEW t \in Threads, Reap(t) PROVE ReapersStay
    BY <1>15 DEF Settles
<1>16. ASSUME NEW t \in Threads, NEW p \in Pids, kill(t, p) PROVE ReapersStay
    BY <1>16, <1>0 DEF kill, Enters, table, monitor, queue, TypeOK, ReapersStay
<1>17. ASSUME NEW t \in Threads, NEW p \in Pids, KillHandled(t, p) PROVE ReapersStay
  <2>1. PICK i \in Tids \ threads[p] : pc' = [pc EXCEPT ![<<p, i>>] = "user"]
        BY <1>17 DEF KillHandled
  <2>2. pc[<<p, i>>] = "none" BY <2>1 DEF FamilyInv, ThreadsSound
  <2> QED BY <1>17, <1>0, <2>1, <2>2 DEF KillHandled, TypeOK, ReapersStay
<1>18. ASSUME NEW t \in Threads, NEW a \in {"default", "function"}, syscall_sigaction(t, a)
       PROVE  ReapersStay
    BY <1>18, <1>0 DEF syscall_sigaction, monitor, queue, TypeOK, ReapersStay
<1>19. ASSUME NEW t \in Threads, NEW pid \in Pids \cup {ANY}, syscall_waitpid(t, pid)
       PROVE  ReapersStay
    BY <1>19, <1>0 DEF syscall_waitpid, Enters, table, monitor, queue, TypeOK, ReapersStay
<1>20. ASSUME MonitorIdle PROVE ReapersStay
    BY <1>20, <1>0 DEF MonitorIdle, table, queue, TypeOK, ReapersStay
<1>21. ASSUME MonitorTakes PROVE ReapersStay
    BY <1>21, <1>0 DEF MonitorTakes, table, queue, TypeOK, ReapersStay
<1>22. ASSUME ExecFails PROVE ReapersStay
  <2>1. Job.pid \in Pids /\ pc[<<Job.pid, 0>>] = "execve" /\ Job.tid = 0
        BY <1>22, JobExec DEF ExecFails, HeadServed, MainThreads, Ids, Job, TypeOK
  <2> QED BY <1>22, <1>0, <2>1 DEF ExecFails, TypeOK, ReapersStay
<1>23. ASSUME MonitorKills PROVE ReapersStay
  <2>1. CASE UNCHANGED <<pc, arg>> BY <2>1 DEF ReapersStay
  <2>2. CASE /\ next \in threads[Job.pid]
             /\ pc' = [pc EXCEPT ![<<Job.pid, next>>] = "none"]
             /\ arg' = [arg EXCEPT ![<<Job.pid, next>>] = ANY]
    <3>1. next \in Tids BY <1>23, <1>0, ProcessAssumption DEF MonitorKills, TypeOK, Tids
    <3>2. pc[<<Job.pid, next>>] # "reap" BY <1>23, <2>2, <3>1, KilledPlaces DEF MonitorKills
    <3> QED BY <1>0, <2>2, <3>2 DEF TypeOK, ReapersStay
  <2> QED BY <1>23, <2>1, <2>2 DEF MonitorKills
<1>24. ASSUME ExecCreates PROVE ReapersStay
  <2>1. Job.pid \in Pids /\ threads[Job.pid] = {}
        BY <1>24, JobExec DEF ExecCreates, HeadServed, JobThere
  <2>2. \A i \in Tids : pc[<<Job.pid, i>>] = "none" BY <2>1 DEF FamilyInv, ThreadsSound
  <2> QED BY <1>24, <1>0, <2>2 DEF ExecCreates, TypeOK, ReapersStay
<1>25. ASSUME ExitFrees PROVE ReapersStay
    BY <1>25 DEF Settles
<1>26. ASSUME task_send_child_event PROVE ReapersStay
    BY <1>26 DEF Settles
<1>27. ASSUME ChildTrigger PROVE ReapersStay
    BY <1>27, <1>0 DEF ChildTrigger, queue, TypeOK, ReapersStay
<1>28. ASSUME MonitorDone PROVE ReapersStay
    BY <1>28, <1>0 DEF MonitorDone, table, TypeOK, ReapersStay
<1>29. ASSUME MonitorAwaits PROVE ReapersStay
    BY <1>29, <1>0 DEF MonitorAwaits, table, TypeOK, ReapersStay
<1> QED BY ONLY Next, <1>1, <1>2, <1>3, <1>4, <1>5, <1>6, <1>7, <1>8, <1>9, <1>10, <1>11,
           <1>12, <1>13, <1>14, <1>15, <1>16, <1>17, <1>18, <1>19, <1>20, <1>21, <1>22,
           <1>23, <1>24, <1>25, <1>26, <1>27, <1>28, <1>29
    DEF Next, Program, Continue, Monitor

(* Such a step leaves the released processes alone. *)
LEMMA ZombiesKept ==
    ASSUME Disciplined, BasicInv, FamilyInv, ~Settles, Next
    PROVE  ZombiesStay /\ EventsStay
<1> USE DEF BasicInv
<1>0. TypeOK /\ ArgsSound /\ JobThere BY DEF FamilyInv
<1>h. \A p \in held : process_table[p] = PROCESS BY DEF FamilyInv, ThreadsSound
<1>1. ASSUME NEW t \in Threads, PcreateReserve(t) PROVE ZombiesStay /\ EventsStay
  <2>1. PICK q \in Pids : /\ IsFree(process_table[q])
                          /\ process_table' = [process_table EXCEPT ![q] = PLACEHOLDER]
        BY <1>1 DEF PcreateReserve, FreePid
  <2>2. process_table[q] # PROCESS BY <2>1, ProcessAssumption DEF IsFree
  <2>3. UNCHANGED <<ppid, held, child_events, urm, userspace_requests>>
        BY <1>1 DEF PcreateReserve, queue, monitor
  <2> QED BY <1>0, <2>1, <2>2, <2>3, ProcessAssumption DEF TypeOK, ZombiesStay, EventsStay
<1>2. ASSUME NEW t \in Threads, PcreateFail(t) PROVE ZombiesStay /\ EventsStay
  <2>1. process_table[arg[t]] # PROCESS
        BY <1>2, <1>0, Reserved, ProcessAssumption DEF PcreateFail, At
  <2> QED BY <1>2, <1>0, <2>1, ProcessAssumption
          DEF PcreateFail, monitor, queue, TypeOK, ZombiesStay, EventsStay
<1>3. ASSUME NEW t \in Threads, PcreatePublish(t) PROVE ZombiesStay /\ EventsStay
  <2>1. arg[t] \in Pids /\ process_table[arg[t]] # PROCESS /\ arg[t] \notin held
        BY <1>3, <1>0, Reserved, ProcessAssumption DEF PcreatePublish, At
  <2> QED BY <1>3, <1>0, <2>1 DEF PcreatePublish, monitor, queue, TypeOK, ZombiesStay, EventsStay
<1>4. ASSUME NEW t \in Threads, syscall_fork(t) PROVE ZombiesStay /\ EventsStay
  <2>1. arg[t] \in held BY <1>4, <1>0, Published DEF syscall_fork, At
  <2> QED BY <1>4, <1>0, <2>1 DEF syscall_fork, monitor, queue, TypeOK, ZombiesStay, EventsStay
<1>5. ASSUME NEW t \in Threads, exit(t) PROVE ZombiesStay /\ EventsStay
    BY <1>5, <1>0 DEF exit, Enters, table, monitor, queue, TypeOK, ZombiesStay, EventsStay
<1>6. ASSUME NEW t \in Threads, execve(t) PROVE ZombiesStay /\ EventsStay
    BY <1>6, <1>0 DEF execve, Enters, table, monitor, queue, TypeOK, ZombiesStay, EventsStay
<1>7. ASSUME NEW t \in Threads, userspace_send_request(t) PROVE ZombiesStay /\ EventsStay
    BY <1>7, <1>0 DEF userspace_send_request, table, monitor, TypeOK, ZombiesStay, EventsStay,
       LockFree
<1>8. ASSUME NEW t \in Threads, ExecveAborted(t) PROVE ZombiesStay /\ EventsStay
    BY <1>8, <1>0 DEF ExecveAborted, At, table, monitor, queue, TypeOK, ZombiesStay, EventsStay
<1>9. ASSUME NEW t \in Threads, ExecveReturns(t) PROVE ZombiesStay /\ EventsStay
    BY <1>9, <1>0 DEF ExecveReturns, Leaves, At, table, monitor, queue, TypeOK, ZombiesStay,
       EventsStay
<1>10. ASSUME NEW t \in Threads, WaitFound(t) PROVE ZombiesStay /\ EventsStay
    BY <1>10 DEF Settles
<1>11. ASSUME NEW t \in Threads, WaitNone(t) PROVE ZombiesStay /\ EventsStay
    BY <1>11, <1>0 DEF WaitNone, Leaves, At, table, monitor, queue, TypeOK, ZombiesStay, EventsStay
<1>12. ASSUME NEW t \in Threads, WaitBlocks(t) PROVE ZombiesStay /\ EventsStay
    BY <1>12, <1>0 DEF WaitBlocks, Moves, At, table, monitor, queue, TypeOK, ZombiesStay, EventsStay
<1>13. ASSUME NEW t \in Threads, WaitWoken(t) PROVE ZombiesStay /\ EventsStay
    BY <1>13, <1>0 DEF WaitWoken, Moves, At, monitor, queue, TypeOK, ZombiesStay, EventsStay
<1>14. ASSUME NEW t \in Threads, WaitAborted(t) PROVE ZombiesStay /\ EventsStay
    BY <1>14, <1>0 DEF WaitAborted, Leaves, At, table, monitor, queue, TypeOK, ZombiesStay,
       EventsStay
<1>15. ASSUME NEW t \in Threads, Reap(t) PROVE ZombiesStay /\ EventsStay
    BY <1>15 DEF Settles
<1>16. ASSUME NEW t \in Threads, NEW p \in Pids, kill(t, p) PROVE ZombiesStay /\ EventsStay
    BY <1>16, <1>0 DEF kill, Enters, table, monitor, queue, TypeOK, ZombiesStay, EventsStay
<1>17. ASSUME NEW t \in Threads, NEW p \in Pids, KillHandled(t, p) PROVE ZombiesStay /\ EventsStay
    BY <1>17, <1>0 DEF KillHandled, monitor, queue, TypeOK, ZombiesStay, EventsStay
<1>18. ASSUME NEW t \in Threads, NEW a \in {"default", "function"}, syscall_sigaction(t, a)
       PROVE  ZombiesStay /\ EventsStay
    BY <1>18, <1>0 DEF syscall_sigaction, monitor, queue, TypeOK, ZombiesStay, EventsStay
<1>19. ASSUME NEW t \in Threads, NEW pid \in Pids \cup {ANY}, syscall_waitpid(t, pid)
       PROVE  ZombiesStay /\ EventsStay
    BY <1>19, <1>0 DEF syscall_waitpid, Enters, table, monitor, queue, TypeOK, ZombiesStay,
       EventsStay
<1>20. ASSUME MonitorIdle PROVE ZombiesStay /\ EventsStay
    BY <1>20, <1>0 DEF MonitorIdle, table, queue, TypeOK, ZombiesStay, EventsStay
<1>21. ASSUME MonitorTakes PROVE ZombiesStay /\ EventsStay
    BY <1>21, <1>0 DEF MonitorTakes, table, queue, TypeOK, ZombiesStay, EventsStay
<1>22. ASSUME ExecFails PROVE ZombiesStay /\ EventsStay
    BY <1>22, <1>0 DEF ExecFails, table, queue, TypeOK, ZombiesStay, EventsStay
<1>23. ASSUME MonitorKills PROVE ZombiesStay /\ EventsStay
    BY <1>23, <1>0 DEF MonitorKills, queue, TypeOK, ZombiesStay, EventsStay
<1>24. ASSUME ExecCreates PROVE ZombiesStay /\ EventsStay
    BY <1>24, <1>0 DEF ExecCreates, queue, TypeOK, ZombiesStay, EventsStay
<1>25. ASSUME ExitFrees PROVE ZombiesStay /\ EventsStay
    BY <1>25 DEF Settles
<1>26. ASSUME task_send_child_event PROVE ZombiesStay /\ EventsStay
    BY <1>26 DEF Settles
<1>27. ASSUME ChildTrigger PROVE ZombiesStay /\ EventsStay
    BY <1>27, <1>0 DEF ChildTrigger, queue, TypeOK, ZombiesStay, EventsStay
<1>28. ASSUME MonitorDone PROVE ZombiesStay /\ EventsStay
    BY <1>28, <1>0 DEF MonitorDone, table, TypeOK, ZombiesStay, EventsStay
<1>29. ASSUME MonitorAwaits PROVE ZombiesStay /\ EventsStay
    BY <1>29, <1>0 DEF MonitorAwaits, table, TypeOK, ZombiesStay, EventsStay
<1> QED BY ONLY Next, <1>1, <1>2, <1>3, <1>4, <1>5, <1>6, <1>7, <1>8, <1>9, <1>10, <1>11,
           <1>12, <1>13, <1>14, <1>15, <1>16, <1>17, <1>18, <1>19, <1>20, <1>21, <1>22,
           <1>23, <1>24, <1>25, <1>26, <1>27, <1>28, <1>29
    DEF Next, Program, Continue, Monitor

-----------------------------------------------------------------------------
(* The released children of p that have been reported and not taken. *)
Told(p) ==
    {q \in Children(p) : /\ q \notin held
                         /\ ~(urm = "notify" /\ Job.pid = q)
                         /\ \A t \in Threads : ~(pc[t] = "reap" /\ arg[t] = q)}

(* They are the list of p, each once. *)
Listed(p) == ToSet(child_events[p]) = Told(p) /\ IsInjective(child_events[p])

(* ChildEventsExact in these terms, now and after a step. *)
LEMMA ExactIsListed == ChildEventsExact <=> (fault = "none" => \A p \in held \ {0} : Listed(p))
  BY DEF ChildEventsExact, Listed, Told

LEMMA ExactIsListedLater ==
    ChildEventsExact' <=> (fault' = "none" => \A p \in held' \ {0} : Listed(p)')
  BY DEF ChildEventsExact, Listed, Told

(* Taking an element from a list without repetitions. *)
LEMMA Removed ==
    ASSUME NEW S, NEW s \in Seq(S), IsInjective(s), NEW i \in DOMAIN s
    PROVE  ToSet(Without(s, i)) = ToSet(s) \ {s[i]} /\ IsInjective(Without(s, i))
<1> DEFINE r == Without(s, i)
<1>0. i \in 1 .. Len(s) /\ Len(s) \in Nat /\ DOMAIN s = 1 .. Len(s) OBVIOUS
<1>1. /\ r \in Seq(S) /\ DOMAIN r = 1 .. Len(s) - 1
      /\ \A k \in 1 .. Len(s) - 1 : r[k] = IF k < i THEN s[k] ELSE s[k + 1]
  <2> DEFINE a == SubSeq(s, 1, i - 1)
             b == SubSeq(s, i + 1, Len(s))
  <2>1. a \in Seq(S) /\ Len(a) = i - 1 /\ \A k \in 1 .. i - 1 : a[k] = s[k]
        BY <1>0
  <2>2. b \in Seq(S) /\ Len(b) = Len(s) - i /\ \A k \in 1 .. Len(s) - i : b[k] = s[i + k]
        BY <1>0
  <2>3. r = a \o b BY DEF Without, RemoveAt
  <2> HIDE DEF a, b, r
  <2>4. r \in Seq(S) /\ Len(r) = Len(s) - 1
    <3>1. a \o b \in Seq(S) /\ Len(a \o b) = Len(a) + Len(b) BY ONLY <2>1, <2>2, ConcatProperties
    <3> QED BY ONLY <1>0, <2>1, <2>2, <2>3, <3>1
  <2>5. ASSUME NEW k \in 1 .. Len(s) - 1 PROVE r[k] = IF k < i THEN s[k] ELSE s[k + 1]
    <3>1. CASE k < i BY <1>0, <2>1, <2>2, <2>3, <3>1
    <3>2. CASE k >= i
      <4>1. k - (i - 1) \in 1 .. Len(s) - i /\ i + (k - (i - 1)) = k + 1 BY <1>0, <3>2
      <4>2. r[k] = b[k - (i - 1)] BY SMTT(30), <1>0, <2>1, <2>2, <2>3, <3>2
      <4> QED BY <1>0, <2>2, <3>2, <4>1, <4>2
    <3> QED BY <1>0, <3>1, <3>2
  <2> QED BY <2>4, <2>5
<1> HIDE DEF r
<1> DEFINE h(k) == IF k < i THEN k ELSE k + 1
<1>h. \A k \in DOMAIN r : h(k) \in DOMAIN s /\ h(k) # i /\ r[k] = s[h(k)] BY <1>0, <1>1
<1>g. \A k, l \in DOMAIN r : h(k) = h(l) => k = l BY <1>0, <1>1
<1> HIDE DEF h
<1>2. IsInjective(r) BY <1>h, <1>g DEF IsInjective
<1>3. \A k \in DOMAIN r : r[k] \in ToSet(s) \ {s[i]}
      BY <1>h DEF ToSet, IsInjective
<1>4. ASSUME NEW k \in DOMAIN s, k # i PROVE s[k] \in ToSet(r)
  <2>1. CASE k < i BY <1>0, <1>1, <1>4, <2>1 DEF ToSet
  <2>2. CASE k > i
    <3>1. k - 1 \in DOMAIN r /\ r[k - 1] = s[k] BY <1>0, <1>1, <1>4, <2>2
    <3> QED BY <3>1 DEF ToSet
  <2> QED BY <1>0, <1>4, <2>1, <2>2
<1>5. ToSet(r) = ToSet(s) \ {s[i]} BY <1>3, <1>4 DEF ToSet
<1> QED BY <1>2, <1>5 DEF r

(* Adding a new element to a list without repetitions. *)
LEMMA Appended ==
    ASSUME NEW S, NEW s \in Seq(S), IsInjective(s), NEW x \in S, x \notin ToSet(s)
    PROVE  ToSet(Append(s, x)) = ToSet(s) \cup {x} /\ IsInjective(Append(s, x))
<1> DEFINE r == Append(s, x)
<1>0. Len(s) \in Nat /\ DOMAIN s = 1 .. Len(s) OBVIOUS
<1>1. /\ DOMAIN r = 1 .. Len(s) + 1 /\ r[Len(s) + 1] = x
      /\ \A k \in 1 .. Len(s) : r[k] = s[k]
      BY <1>0, AppendProperties
<1> HIDE DEF r
<1>2. \A k \in 1 .. Len(s) : s[k] # x BY <1>0 DEF ToSet
<1>3. IsInjective(r) BY <1>0, <1>1, <1>2 DEF IsInjective
<1>4. \A k \in DOMAIN r : r[k] \in ToSet(s) \cup {x} BY <1>0, <1>1 DEF ToSet
<1>5. \A k \in DOMAIN s : s[k] \in ToSet(r) BY <1>0, <1>1 DEF ToSet
<1>6. x \in ToSet(r) BY <1>0, <1>1 DEF ToSet
<1>7. ToSet(r) = ToSet(s) \cup {x} BY <1>4, <1>5, <1>6 DEF ToSet
<1> QED BY <1>3, <1>7 DEF r

(* A child stays where it is on its way to being freed.                      *)
LEMMA ToldKept ==
    ASSUME ReapersStay, ZombiesStay, NEW p \in Pids, NEW q \in Pids
    PROVE  q \in Told(p)' <=> q \in Told(p)
<1>1. q \in Children(p)' /\ q \notin held' <=> q \in Children(p) /\ q \notin held
      BY DEF Children, ZombiesStay
<1>2. urm' = "notify" /\ Job.pid' = q <=> urm = "notify" /\ Job.pid = q
      BY DEF ZombiesStay, Job
<1>3. \A t \in Threads : pc'[t] = "reap" /\ arg'[t] = q <=> pc[t] = "reap" /\ arg[t] = q
      BY DEF ReapersStay
<1> QED BY <1>1, <1>2, <1>3 DEF Told

(* After a fault nothing happens. *)
LEMMA Running == ASSUME Next PROVE fault = "none"
<1>1. ASSUME NEW t \in Threads, Program(t) \/ Continue(t) \/ PcreateFail(t) \/ WaitNone(t)
      PROVE  fault = "none"
      BY <1>1 DEF Program, Continue, PcreateReserve, PcreateFail, PcreatePublish, syscall_fork,
         exit, execve, kill, KillHandled, syscall_sigaction, syscall_waitpid,
         userspace_send_request, ExecveAborted, ExecveReturns, WaitFound, WaitNone, WaitBlocks,
         WaitWoken, WaitAborted, Reap, Enters, At
<1>2. Monitor => fault = "none"
      BY DEF Monitor, MonitorIdle, MonitorTakes, ExecFails, MonitorKills, ExecCreates, ExitFrees,
         task_send_child_event, ChildTrigger, MonitorDone, MonitorAwaits
<1> QED BY <1>1, <1>2 DEF Next

(* The first part of EventsSound. *)
ReapersSound ==
    \A t \in Threads : pc[t] = "reap" =>
       /\ arg[t] \in Children(t[1]) /\ arg[t] \notin held
       /\ ~(urm = "notify" /\ Job.pid = arg[t])

(* Every step keeps ReapersSound. *)
LEMMA ReapersStep ==
    ASSUME Disciplined, BasicInv, FamilyInv, Next
    PROVE  ReapersSound'
<1> USE DEF BasicInv
<1>0. TypeOK /\ ArgsSound /\ JobThere /\ MainThreads /\ ThreadsSound /\ ReapersSound
      BY DEF FamilyInv, EventsSound, ReapersSound
<1>t. \A t \in Threads : t[1] \in Pids /\ t[2] \in Tids /\ t = <<t[1], t[2]>> BY DEF Threads
<1>l. \A p \in held \ {0} : Listed(p) BY Running, ExactIsListed DEF FamilyInv, EventsSound
<1>1. CASE ~Settles
  <2>1. ReapersStay /\ ZombiesStay BY <1>1, ReapersKept, ZombiesKept
  <2> QED BY <1>0, <1>t, <2>1 DEF ReapersSound, ReapersStay, ZombiesStay, Children, Job
<1>2. ASSUME NEW t \in Threads, WaitFound(t) PROVE ReapersSound'
  <2>1. PICK i \in DOMAIN child_events[t[1]] :
             /\ pc' = [pc EXCEPT ![t] = "reap"]
             /\ arg' = [arg EXCEPT ![t] = child_events[t[1]][i]]
        BY <1>2 DEF WaitFound
  <2>2. t[1] \in held \ {0} BY <1>0, <1>2, <1>t DEF WaitFound, At, ThreadsSound
  <2>3. child_events[t[1]][i] \in Told(t[1]) BY <1>l, <2>2 DEF Listed, ToSet
  <2>4. UNCHANGED <<process_table, ppid, held, urm, userspace_requests>>
        BY <1>2 DEF WaitFound, queue, monitor
  <2>5. \A u \in Threads : /\ u = t => arg'[u] \in Told(t[1])
                           /\ u # t => pc'[u] = pc[u] /\ arg'[u] = arg[u]
        BY <1>0, <2>1, <2>3 DEF TypeOK
  <2> QED BY <1>0, <2>4, <2>5 DEF ReapersSound, Told, Children, Job
<1>3. ASSUME NEW t \in Threads, Reap(t) PROVE ReapersSound'
  <2>1. \A u \in Threads : pc'[u] = "reap" => u # t /\ pc[u] = "reap" /\ arg'[u] = arg[u]
        BY <1>0, <1>3 DEF Reap, Leaves, TypeOK
  <2>2. pc[t] = "reap" /\ t[2] = 0 /\ ppid[arg[t]] = t[1]
        BY <1>0, <1>3 DEF Reap, At, MainThreads, ReapersSound, Children
  <2>3. \A u \in Threads : pc'[u] = "reap" => arg[u] # arg[t]
        BY <1>0, <1>t, <2>1, <2>2 DEF MainThreads, ReapersSound, Children
  <2>4. /\ UNCHANGED <<ppid, held, urm, userspace_requests>>
        /\ \A q \in Pids : q # arg[t] => process_table'[q] = process_table[q]
        BY <1>0, <1>3 DEF Reap, queue, monitor, TypeOK
  <2> QED BY <1>0, <2>1, <2>3, <2>4 DEF ReapersSound, Children, Job
<1>4. CASE ExitFrees
  <2>1. Job.pid \in held BY <1>4, JobExit DEF ExitFrees, HeadServed, JobThere
  <2> QED BY <1>0, <1>4, <2>1 DEF ExitFrees, queue, ReapersSound, Children, Job
<1>5. CASE task_send_child_event
      BY <1>0, <1>5 DEF task_send_child_event, queue, ReapersSound, Children, Job
<1> QED BY <1>1, <1>2, <1>3, <1>4, <1>5 DEF Settles

(* Every step keeps the lists of the parents exact. *)
LEMMA ListedStep ==
    ASSUME Disciplined, BasicInv, FamilyInv, Next, fault' = "none", NEW p \in held' \ {0}
    PROVE  Listed(p)'
<1> USE DEF BasicInv
<1>0. /\ TypeOK /\ ArgsSound /\ JobThere /\ MainThreads /\ ThreadsSound /\ ReapersSound
      /\ FamilySound /\ MonitorSound
      BY DEF FamilyInv, EventsSound, ReapersSound
<1>t. \A t \in Threads : t[1] \in Pids /\ t[2] \in Tids /\ t = <<t[1], t[2]>> BY DEF Threads
<1>l. \A x \in held \ {0} : Listed(x) BY Running, ExactIsListed DEF FamilyInv, EventsSound
<1>p. p \in Pids /\ held \subseteq Pids BY TypeStep DEF TypeOK
<1>s. Told(p) \subseteq Pids /\ Told(p)' \subseteq Pids BY DEF Told, Children
<1>1. CASE ~Settles
  <2>1. ReapersStay /\ ZombiesStay /\ EventsStay BY <1>1, ReapersKept, ZombiesKept
  <2>2. Told(p)' = Told(p) BY <1>p, <1>s, <2>1, ToldKept
  <2>3. CASE p \in held
    <3>1. child_events'[p] = child_events[p] BY <2>1, <2>3 DEF EventsStay
    <3> QED BY <1>l, <2>2, <2>3, <3>1 DEF Listed
  <2>4. CASE p \notin held
    <3>1. child_events'[p] = <<>> BY <2>1, <2>4 DEF EventsStay
    <3>2. Told(p) = {} BY <1>0, <2>4 DEF Told, Children, FamilySound
    <3> QED BY <2>2, <3>1, <3>2 DEF Listed, ToSet, IsInjective
  <2> QED BY <2>3, <2>4
<1>2. ASSUME NEW t \in Threads, WaitFound(t) PROVE Listed(p)'
  <2>1. PICK i \in DOMAIN child_events[t[1]] :
             /\ pc' = [pc EXCEPT ![t] = "reap"]
             /\ arg' = [arg EXCEPT ![t] = child_events[t[1]][i]]
             /\ child_events' = [child_events EXCEPT ![t[1]] = Without(child_events[t[1]], i)]
        BY <1>2 DEF WaitFound
  <2> DEFINE x == child_events[t[1]][i]
  <2>2. t[1] \in held \ {0} BY <1>0, <1>2, <1>t DEF WaitFound, At, ThreadsSound
  <2>3. x \in Told(t[1]) BY <1>l, <2>2 DEF Listed, ToSet
  <2>4. UNCHANGED <<process_table, ppid, held, urm, userspace_requests>> /\ pc[t] = "scan"
        BY <1>2 DEF WaitFound, queue, monitor, At
  <2>5. \A u \in Threads : /\ u = t => pc'[u] = "reap" /\ arg'[u] = x
                           /\ u # t => pc'[u] = pc[u] /\ arg'[u] = arg[u]
        BY <1>0, <2>1 DEF TypeOK
  <2>6. \A q \in Pids : q \in Told(p)' <=> q \in Told(p) /\ q # x
    <3> HIDE DEF x
    <3>1. \A q \in Pids : (\A u \in Threads : ~(pc'[u] = "reap" /\ arg'[u] = q)) <=>
                          (\A u \in Threads : ~(pc[u] = "reap" /\ arg[u] = q)) /\ q # x
          BY <2>4, <2>5
    <3>2. Children(p)' = Children(p) /\ Job' = Job BY <2>4 DEF Children, Job
    <3> QED BY <2>4, <3>1, <3>2 DEF Told
  <2>7. CASE p = t[1]
    <3>1. child_events[p] \in Seq(Pids) /\ child_events'[p] = Without(child_events[p], i)
          BY <1>0, <1>t, <2>1, <2>7 DEF TypeOK
    <3>2. IsInjective(child_events[p]) /\ ToSet(child_events[p]) = Told(p)
          BY <1>l, <2>2, <2>7 DEF Listed
    <3>3. /\ ToSet(child_events'[p]) = ToSet(child_events[p]) \ {x}
          /\ IsInjective(child_events'[p])
          BY <2>1, <2>7, <3>1, <3>2, Removed
    <3>4. Told(p)' = Told(p) \ {x} BY <1>s, <2>6
    <3> QED BY <3>2, <3>3, <3>4 DEF Listed
  <2>8. CASE p # t[1]
    <3>1. x \notin Told(p) BY <2>3, <2>8 DEF Told, Children
    <3>2. Told(p)' = Told(p) BY <1>s, <2>6, <3>1
    <3>3. child_events'[p] = child_events[p] BY <1>0, <1>p, <2>1, <2>8 DEF TypeOK
    <3> QED BY <1>l, <2>4, <3>2, <3>3 DEF Listed
  <2> QED BY <2>7, <2>8
<1>3. ASSUME NEW t \in Threads, Reap(t) PROVE Listed(p)'
  <2>1. \A u \in Threads : /\ u = t => pc'[u] = "user"
                           /\ u # t => pc'[u] = pc[u] /\ arg'[u] = arg[u]
        BY <1>0, <1>3 DEF Reap, Leaves, TypeOK
  <2>2. pc[t] = "reap" BY <1>3 DEF Reap, At
  <2>3. /\ UNCHANGED <<ppid, held, urm, userspace_requests, child_events>>
        /\ \A q \in Pids : /\ q # arg[t] => process_table'[q] = process_table[q]
                           /\ q = arg[t] => process_table'[q] = EMPTY
        BY <1>0, <1>3 DEF Reap, queue, monitor, TypeOK
  <2>4. \A q \in Pids : q \in Told(p)' <=> q \in Told(p)
    <3>1. ASSUME NEW q \in Pids, q = arg[t] PROVE q \notin Told(p) /\ q \notin Told(p)'
      <4>1. process_table'[q] # PROCESS BY <2>3, <3>1, ProcessAssumption
      <4> QED BY <2>2, <3>1, <4>1 DEF Told, Children
    <3>2. ASSUME NEW q \in Pids, q # arg[t] PROVE q \in Told(p)' <=> q \in Told(p)
      <4>1. q \in Children(p)' <=> q \in Children(p) BY <2>3, <3>2 DEF Children
      <4>2. \A u \in Threads : pc'[u] = "reap" /\ arg'[u] = q <=> pc[u] = "reap" /\ arg[u] = q
            BY <2>1, <2>2, <3>2
      <4> QED BY <2>3, <4>1, <4>2 DEF Told, Job
    <3> QED BY <3>1, <3>2
  <2>5. Told(p)' = Told(p) BY <1>s, <2>4
  <2> QED BY <1>l, <2>3, <2>5 DEF Listed
<1>4. CASE ExitFrees
  <2>1. Job.pid \in held /\ urm = "kill" BY <1>4, JobExit DEF ExitFrees, HeadServed, JobThere
  <2>2. /\ UNCHANGED <<process_table, ppid, pc, arg, userspace_requests, child_events>>
        /\ held' = held \ {Job.pid} /\ urm' = "notify"
        BY <1>4 DEF ExitFrees, queue
  <2>3. Told(p)' = Told(p) BY <2>1, <2>2 DEF Told, Children, Job
  <2> QED BY <1>l, <2>2, <2>3 DEF Listed
<1>5. CASE task_send_child_event
  <2> DEFINE x == Job.pid
  <2>1. /\ urm = "notify" /\ urm' = "trigger"
        /\ UNCHANGED <<process_table, ppid, held, pc, arg, userspace_requests>>
        /\ child_events' = [child_events EXCEPT ![parent] = Append(@, x)]
        BY <1>5 DEF task_send_child_event, queue
  <2>2. x \in Pids BY <1>0, <2>1, JobTyped DEF JobThere
  <2>3. /\ process_table[x] = PROCESS /\ x \notin held /\ x # 0
        /\ parent = ppid[x] /\ parent # 0 /\ parent \in held
        BY <1>0, <2>1, <2>2 DEF MonitorSound, FamilySound, ThreadsSound
  <2>4. \A u \in Threads : ~(pc[u] = "reap" /\ arg[u] = x) BY <1>0, <2>1 DEF ReapersSound
  <2>5. \A q \in Pids : q \in Told(p)' <=> q \in Told(p) \/ (q = x /\ p = parent)
    <3>1. Children(p)' = Children(p) /\ Job' = Job BY <2>1 DEF Children, Job
    <3>2. x \in Children(p) <=> p = parent BY <2>2, <2>3 DEF Children
    <3> QED BY <2>1, <2>3, <2>4, <3>1, <3>2 DEF Told
  <2>6. CASE p = parent
    <3>1. child_events[p] \in Seq(Pids) /\ child_events'[p] = Append(child_events[p], x)
          BY <1>0, <1>p, <2>1, <2>6 DEF TypeOK
    <3>2. IsInjective(child_events[p]) /\ ToSet(child_events[p]) = Told(p)
          BY <1>l, <2>3, <2>6 DEF Listed
    <3>3. x \notin Told(p) BY <2>1 DEF Told
    <3>4. /\ ToSet(child_events'[p]) = ToSet(child_events[p]) \cup {x}
          /\ IsInjective(child_events'[p])
          BY <2>2, <3>1, <3>2, <3>3, Appended
    <3>5. Told(p)' = Told(p) \cup {x} BY <1>s, <2>2, <2>5, <2>6
    <3> QED BY <3>2, <3>4, <3>5 DEF Listed
  <2>7. CASE p # parent
    <3>1. Told(p)' = Told(p) BY <1>s, <2>5, <2>7
    <3>2. child_events'[p] = child_events[p] BY <1>0, <1>p, <2>1, <2>7 DEF TypeOK
    <3> QED BY <1>l, <2>1, <3>1, <3>2 DEF Listed
  <2> QED BY <2>6, <2>7
<1> QED BY <1>1, <1>2, <1>3, <1>4, <1>5 DEF Settles

-----------------------------------------------------------------------------
(* BasicInv is inductive. *)
LEMMA BasicNext == BasicInv /\ [Next]_vars => BasicInv'
<1> SUFFICES ASSUME BasicInv, [Next]_vars PROVE BasicInv' OBVIOUS
<1> USE DEF BasicInv
<1>1. CASE Next BY <1>1, TypeStep, ArgsStep, MainStep, QueueStep, WakeupStep
<1>2. CASE UNCHANGED vars
      BY <1>2 DEF vars, TypeOK, ArgsSound, MainThreads, JobThere, TokensCover, NoRequestForgotten,
         WakeupNotLost, NoMatch, Ids
<1> QED BY <1>1, <1>2

(* FamilyInv holds initially. *)
LEMMA FamilyInit == Init => FamilyInv
<1> SUFFICES ASSUME Init PROVE FamilyInv OBVIOUS
<1> USE ProcessAssumption DEF Init
<1>0. /\ 0 \in Pids /\ 1 \in Pids /\ \A p \in Pids : p \in Nat
      /\ 0 \in Tids /\ Ids = {} /\ <<1, 0>> \in Threads
      BY DEF Pids, Tids, Ids, Threads
<1>1. \A t \in Threads : pc[t] \in {"none", "user"} OBVIOUS
<1>2. ThreadsSound BY <1>0 DEF ThreadsSound, Threads
<1>3. CreationSound BY <1>0, <1>1 DEF CreationSound, Creating
<1>4. FamilySound BY <1>0 DEF FamilySound
<1>5. \A p \in Pids : ~Ending(p) /\ ~Execing(p)
      BY <1>0, <1>1 DEF Ending, Execing, Unserved, Asks
<1>6. EndingSound /\ ExecSound BY <1>0, <1>1, <1>5 DEF EndingSound, ExecSound, Unserved
<1>7. AskedOnce BY <1>0, <1>1 DEF AskedOnce, Asks
<1>8. MonitorSound /\ FaultSound BY DEF MonitorSound, FaultSound
<1>9. EventsSound
  <2>1. ASSUME NEW p \in held \ {0} PROVE Listed(p)
    <3>1. Told(p) = {} BY <1>0, <2>1 DEF Told, Children
    <3>2. child_events[p] = <<>> BY <1>0, <2>1
    <3> QED BY <3>1, <3>2 DEF Listed, ToSet, IsInjective
  <2>2. ChildEventsExact BY <2>1, ExactIsListed
  <2> QED BY <1>1, <2>2 DEF EventsSound
<1> QED BY <1>2, <1>3, <1>4, <1>6, <1>7, <1>8, <1>9 DEF FamilyInv

(* FamilyInv is inductive relative to BasicInv. *)
LEMMA FamilyNext ==
    ASSUME Disciplined
    PROVE  BasicInv /\ FamilyInv /\ [Next]_vars => FamilyInv'
<1> SUFFICES ASSUME BasicInv, FamilyInv, [Next]_vars PROVE FamilyInv' OBVIOUS
<1>1. CASE Next
  <2>1. EventsSound'
    <3>1. ChildEventsExact'
      <4>1. fault' = "none" => \A p \in held' \ {0} : Listed(p)' BY <1>1, ListedStep
      <4> QED BY <4>1, ExactIsListedLater
    <3> QED BY <1>1, <3>1, ReapersStep DEF EventsSound, ReapersSound
  <2> QED BY <1>1, <2>1, ThreadsStep, CreationStep, FamilyStep, EndingSoundStep, AskedOnceStep,
             ExecStep, MonitorStep, FaultStep DEF FamilyInv
<1>2. CASE UNCHANGED vars
  <2> USE <1>2 DEF FamilyInv, vars
  <2>1. ThreadsSound' BY DEF ThreadsSound
  <2>2. CreationSound' BY DEF CreationSound
  <2>3. Unserved' = Unserved /\ Ids' = Ids /\ Job' = Job BY DEF Unserved, Ids, HeadServed, Job
  <2>4. \A p \in Pids : /\ (Ending(p)' <=> Ending(p)) /\ (Execing(p)' <=> Execing(p))
                        /\ (Created(p)' <=> Created(p)) /\ Children(p)' = Children(p)
                        /\ (ExitAsked(p)' <=> ExitAsked(p))
        BY <2>3 DEF Ending, Execing, Created, Children, Asks, ExitAsked
  <2>5. FamilySound' BY <2>4 DEF FamilySound
  <2>6. EndingSound' BY <2>4 DEF EndingSound
  <2>7. AskedOnce' BY <2>3, <2>4 DEF AskedOnce, Asks
  <2>8. ExecSound' BY <2>3, <2>4 DEF ExecSound
  <2>9. MonitorSound' /\ FaultSound' BY <2>3 DEF MonitorSound, FaultSound
  <2>10. EventsSound'
    <3>1. ChildEventsExact' BY DEF EventsSound, ChildEventsExact, Children, Job
    <3> QED BY <2>3, <3>1 DEF EventsSound, Children
  <2> QED BY <2>1, <2>2, <2>5, <2>6, <2>7, <2>8, <2>9, <2>10
<1> QED BY <1>1, <1>2

-----------------------------------------------------------------------------
(* The inductive invariants of every behaviour, and of those of disciplined
   programs.                                                                 *)
LEMMA BasicAlways == Spec => []BasicInv
<1>1. Init => BasicInv BY TypeInit DEF BasicInv
<1> QED BY <1>1, BasicNext, PTL DEF Spec

LEMMA FamilyAlways ==
    ASSUME Disciplined PROVE Spec => []FamilyInv
<1>1. BasicInv /\ FamilyInv /\ [Next]_vars => FamilyInv' BY FamilyNext
<1> QED BY <1>1, FamilyInit, BasicAlways, PTL DEF Spec

(* userspace_request_monitor serves one request per token and never sleeps on
   a queue, whatever the programs do.                                        *)
THEOREM RequestsServed == Spec => []NoRequestForgotten
<1>1. BasicInv => NoRequestForgotten BY DEF BasicInv, TokensCover
<1> QED BY <1>1, BasicAlways, PTL

(* A thread that sleeps in waitpid while an event for it is in the list of
   its process has a token, or the monitor is about to give it one, whatever
   the programs do.                                                          *)
THEOREM WaitersWoken == Spec => []WakeupNotLost
<1>1. BasicInv => WakeupNotLost BY DEF BasicInv
<1> QED BY <1>1, BasicAlways, PTL

(* Of disciplined programs, every child that has ended and been reported is in
   its parent's list once, and nothing else is.                              *)
THEOREM ChildrenReportedOnce ==
    ASSUME Disciplined PROVE Spec => []ChildEventsExact
<1>1. FamilyInv => ChildEventsExact BY DEF FamilyInv, EventsSound
<1> QED BY <1>1, FamilyAlways, PTL

(* task_pcreate and fork of disciplined programs reserve a pid for one creator. *)
THEOREM PidsReservedOnce ==
    ASSUME Disciplined PROVE Spec => []PidsApart
<1>1. ASSUME TypeOK, ArgsSound, CreationSound PROVE PidsApart
  <2>1. ASSUME NEW p \in Pids
        PROVE  process_table[p] = PLACEHOLDER <=>
                 Cardinality({t \in Threads : pc[t] = "pcreate" /\ arg[t] = p}) = 1
    <3> DEFINE C == {t \in Threads : pc[t] = "pcreate" /\ arg[t] = p}
    <3>1. CASE process_table[p] = PLACEHOLDER
      <4>1. PICK t \in Threads : pc[t] = "pcreate" /\ arg[t] = p
            BY <1>1, <3>1 DEF CreationSound
      <4>2. C = {t} BY <1>1, <4>1 DEF CreationSound, Creating
      <4> QED BY <3>1, <4>2, FS_Singleton
    <3>2. CASE process_table[p] # PLACEHOLDER
      <4>1. C = {} BY <1>1, <3>2 DEF CreationSound
      <4> QED BY <3>2, <4>1, FS_EmptySet
    <3> QED BY <3>1, <3>2
  <2> QED BY <1>1, <2>1 DEF PidsApart, CreationSound, Creating
<1>2. BasicInv /\ FamilyInv => PidsApart BY <1>1 DEF BasicInv, FamilyInv
<1> QED BY <1>2, BasicAlways, FamilyAlways, PTL
=============================================================================
