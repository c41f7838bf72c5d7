--------------------------- MODULE SchedulerProofs ---------------------------
(***************************************************************************)
(* Theorems about Scheduler, for any number of CPUs, threads, processes,    *)
(* events and table sizes.  TypeCorrect: every variable keeps its type.     *)
(* TablesCorrect: the task table and the thread tables stay consistent      *)
(* across creation, failure, fork and kill.  TokensTakenOnce: no event goes *)
(* below zero.  CpusSoundWithoutKills, CpusSoundOnOneCpu: what a CPU runs   *)
(* is live, locked and on its own page map.  ScanAlwaysFindsNearest: the    *)
(* loop of task_get_next returns the nearest eligible thread.               *)
(***************************************************************************)
EXTENDS Scheduler, FiniteSetTheorems, NaturalsInduction, WellFoundedInduction, TLAPS

(* TypeOK is not inductive by itself: an await, a creation or a kill
   under way must have its locals set.                                                     *)
KillPcs == {"kill", "kill_retry", "kill_ipi"}

JobsTyped ==
    \A t \in Threads : /\ pc[t] = "take" => taking[t] \in Events
                       /\ pc[t] = "create" => creating[t] \in CreateJobs
                       /\ pc[t] \in KillPcs => killing[t] \in KillJobs

TypeInv == TypeOK /\ JobsTyped

(* Every variable has its type and every operation in flight its locals in
   the initial state (init_sched and kmain).                                *)
LEMMA TypeInit == Init => TypeInv
<1> SUFFICES ASSUME Init PROVE TypeInv OBVIOUS
<1> USE SchedulerAssumption
<1>1. 0 \in Slots BY DEF Slots
<1>2. /\ task_table \in [Slots -> Entry]
      /\ threads \in [Procs -> [Tids -> Entry]]
      BY DEF Init, Entry
<1>3. /\ task_count \in Int /\ task_id \in [Threads -> Slots]
      /\ current_task \in [Cpus -> Slots \cup {NoTask}]
      /\ cr3 \in [Cpus -> Procs]
      /\ active_on_cpu \in [Threads -> Cpus \cup {NoCpu}]
      BY <1>1 DEF Init
<1>4. /\ event_ptr \in [Threads -> Events \cup {NoEvent}]
      /\ taking \in [Threads -> Events \cup {NoEvent}]
      /\ current_thread \in [Threads -> Threads \cup {NoThread}]
      /\ event \in [Events -> Int]
      /\ pc \in [Threads -> PcValues]
      /\ creating \in [Threads -> CreateJobs \cup {NoJob}]
      /\ killing \in [Threads -> KillJobs \cup {NoJob}]
      BY DEF Init, PcValues
<1>5. JobsTyped BY DEF Init, JobsTyped, KillPcs
<1> QED BY <1>2, <1>3, <1>4, <1>5 DEF Init, TypeInv, TypeOK

(* A thread that executes names the CPU it executes on (task_resched stores
   active_on_cpu at every switch).                                          *)
LEMMA ExecutingCpu ==
    ASSUME NEW t \in Threads, Executing(t)
    PROVE  active_on_cpu[t] \in Cpus
  BY DEF Executing, Runs

(* Writing one entry of one process's thread table changes that entry only. *)
LEMMA SetThreadEntry ==
    ASSUME NEW th \in [Procs -> [Tids -> Entry]],
           NEW p \in Procs, NEW i \in Tids, NEW x \in Entry
    PROVE  /\ [th EXCEPT ![p][i] = x] \in [Procs -> [Tids -> Entry]]
           /\ \A q \in Procs, j \in Tids :
                 [th EXCEPT ![p][i] = x][q][j] = IF q = p /\ j = i THEN x ELSE th[q][j]
  OBVIOUS

(* The switches of task_resched and the interrupts keep the types.          *)
LEMMA TypeCpuSteps ==
    ASSUME TypeInv, NEW c \in Cpus,
           task_resched(c) \/ ScanPastEnd(c) \/ ipi_abortexec(c)
    PROVE  TypeInv'
<1> USE SchedulerAssumption DEF TypeInv, TypeOK, JobsTyped, tableVars, cpuVars, killVars
<1>1. CASE \E s \in Slots : Dispatch(c, s)
  <2>1. PICK s \in Slots : Dispatch(c, s) BY <1>1
  <2>2. task_table[s] \in Threads BY <2>1 DEF Dispatch, task_get_next, Eligible
  <2>3. /\ current_task' \in [Cpus -> Slots \cup {NoTask}]
        /\ aborting' \subseteq Cpus /\ forced' \subseteq Threads
        BY <2>1 DEF Dispatch
  <2>4. locked' \subseteq Threads BY <2>1, <2>2 DEF Dispatch, HeldWithout
  <2>5. active_on_cpu' \in [Threads -> Cpus \cup {NoCpu}]
        BY <2>1 DEF Dispatch, Deactivate
  <2>6. cr3' \in [Cpus -> Procs] BY <2>1, <2>2 DEF Dispatch, NextCr3
  <2>7. event' \in [Events -> Int] /\ event_ptr' \in [Threads -> Events \cup {NoEvent}]
        BY <2>1, <2>2 DEF Dispatch
  <2>8. UNCHANGED <<tableVars, killVars, in_syscall, event_abrt, asleep, taking,
                    current_thread, pc, creating, panicked>>
        BY <2>1 DEF Dispatch
  <2> QED BY <2>3, <2>4, <2>5, <2>6, <2>7, <2>8
<1>2. CASE GoIdle(c)
  <2>1. /\ current_task' \in [Cpus -> Slots \cup {NoTask}]
        /\ aborting' \subseteq Cpus /\ forced' \subseteq Threads
        /\ locked' \subseteq Threads
        BY <1>2 DEF GoIdle, HeldWithout
  <2>2. active_on_cpu' \in [Threads -> Cpus \cup {NoCpu}]
        BY <1>2 DEF GoIdle, Deactivate
  <2>3. cr3' \in [Cpus -> Procs] BY <1>2 DEF GoIdle
  <2> QED BY <1>2, <2>1, <2>2, <2>3 DEF GoIdle
<1>3. CASE ReschedFault(c) BY <1>3 DEF ReschedFault
<1>4. CASE ScanPastEnd(c) BY <1>4 DEF ScanPastEnd
<1>5. CASE ipi_abortexec(c) BY <1>5 DEF ipi_abortexec
<1> QED BY <1>1, <1>2, <1>3, <1>4, <1>5 DEF task_resched

(* Awaiting, sleeping and crossing the syscall boundary keep the types.     *)
LEMMA TypeThreadSteps ==
    ASSUME TypeInv, NEW t \in Threads,
           \/ \E e \in Events : AwaitSeen(t, e) \/ AwaitNull(t, e)
           \/ \E e \in Events, u \in Threads : AwaitBlock(t, e, u) \/ ExecveAborted(t, e, u)
           \/ AwaitTake(t) \/ AwaitYield(t) \/ Awoken(t) \/ relaxed_sleep(t)
           \/ enter_syscall(t) \/ EnterAborted(t) \/ leave_syscall(t) \/ LeaveDone(t)
           \/ ExitNull(t) \/ \E u \in Threads : syscall_exit(t, u)
           \/ SleepOver(t)
    PROVE  TypeInv'
<1> USE SchedulerAssumption
    DEF TypeInv, TypeOK, JobsTyped, tableVars, cpuVars, killVars, PcValues, KillPcs,
        force_resched
<1>1. CASE \E e \in Events : AwaitSeen(t, e) BY <1>1 DEF AwaitSeen
<1>2. CASE \E e \in Events, u \in Threads : AwaitBlock(t, e, u) BY <1>2 DEF AwaitBlock
<1>3. CASE \E e \in Events, u \in Threads : ExecveAborted(t, e, u) BY <1>3 DEF ExecveAborted
<1>4. CASE AwaitTake(t) BY <1>4 DEF AwaitTake
<1>5. CASE AwaitYield(t) BY <1>5 DEF AwaitYield
<1>6. CASE Awoken(t) BY <1>6 DEF Awoken
<1>7. CASE relaxed_sleep(t) BY <1>7 DEF relaxed_sleep
<1>8. CASE enter_syscall(t) BY <1>8 DEF enter_syscall
<1>9. CASE EnterAborted(t) BY <1>9 DEF EnterAborted
<1>10. CASE leave_syscall(t) BY <1>10 DEF leave_syscall
<1>11. CASE \E u \in Threads : syscall_exit(t, u) BY <1>11 DEF syscall_exit
<1>12. CASE SleepOver(t) BY <1>12 DEF SleepOver
<1>13. CASE \E e \in Events : AwaitNull(t, e) BY <1>13 DEF AwaitNull
<1>14. CASE LeaveDone(t) BY <1>14 DEF LeaveDone
<1>15. CASE ExitNull(t) BY <1>15 DEF ExitNull
<1> QED BY <1>1, <1>2, <1>3, <1>4, <1>5, <1>6, <1>7, <1>8, <1>9, <1>10, <1>11, <1>12,
           <1>13, <1>14, <1>15

(* Creation, failed creation and fork keep the types.                       *)
LEMMA TypeCreateSteps ==
    ASSUME TypeInv, NEW t \in Threads,
           \/ \E n \in Threads, i \in Tids : TcreateNoSlot(t, n, i)
           \/ \E n \in Threads, i \in Tids, s \in Slots : TcreateReserve(t, n, i, s)
           \/ \E n \in Threads, s \in Slots : syscall_fork(t, n, s)
           \/ TcreateFail(t) \/ TcreatePublish(t)
    PROVE  TypeInv'
<1> USE SchedulerAssumption
    DEF TypeInv, TypeOK, tableVars, cpuVars, killVars
<1>1. CASE \E n \in Threads, i \in Tids : TcreateNoSlot(t, n, i)
  <2>1. PICK n \in Threads, i \in Tids : TcreateNoSlot(t, n, i) BY <1>1
  <2>2. threads' \in [Procs -> [Tids -> Entry]] BY <2>1 DEF TcreateNoSlot, Entry
  <2> QED BY <2>1, <2>2 DEF TcreateNoSlot, JobsTyped
<1>2. CASE \E n \in Threads, i \in Tids, s \in Slots : TcreateReserve(t, n, i, s)
  <2>1. PICK n \in Threads, i \in Tids, s \in Slots : TcreateReserve(t, n, i, s)
        BY <1>2
  <2>2. /\ threads' \in [Procs -> [Tids -> Entry]]
        /\ task_table' \in [Slots -> Entry]
        BY <2>1 DEF TcreateReserve, Entry
  <2>3. /\ creating' = [creating EXCEPT ![t] = [new |-> n, tid |-> i, task |-> s]]
        /\ [new |-> n, tid |-> i, task |-> s] \in CreateJobs
        BY <2>1 DEF TcreateReserve, CreateJobs
  <2>4. creating' \in [Threads -> CreateJobs \cup {NoJob}] BY <2>3
  <2>5. pc' \in [Threads -> PcValues] BY <2>1 DEF TcreateReserve, PcValues
  <2>6. JobsTyped' BY <2>1, <2>3 DEF TcreateReserve, JobsTyped, KillPcs
  <2> QED BY <2>1, <2>2, <2>4, <2>5, <2>6 DEF TcreateReserve
<1>3. CASE \E n \in Threads, s \in Slots : syscall_fork(t, n, s)
  <2>1. PICK n \in Threads, s \in Slots : syscall_fork(t, n, s) BY <1>3
  <2>2. /\ threads' \in [Procs -> [Tids -> Entry]]
        /\ task_table' \in [Slots -> Entry]
        /\ task_count' \in Int
        BY <2>1 DEF syscall_fork, Entry
  <2>3. FreshThread(n, s) BY <2>1 DEF syscall_fork
  <2>4. /\ pc' \in [Threads -> PcValues]
        /\ pc' = [pc EXCEPT ![n] = "user"]
        BY <2>1 DEF syscall_fork, PcValues
  <2>5. JobsTyped'
        BY <2>1, <2>3, <2>4 DEF syscall_fork, FreshThread, JobsTyped, KillPcs
  <2> QED BY <2>1, <2>2, <2>3, <2>4, <2>5
          DEF syscall_fork, FreshThread, FreshTaskId, FreshLock
<1>4. CASE TcreateFail(t)
  <2>1. creating[t] \in CreateJobs BY <1>4 DEF TcreateFail, JobsTyped
  <2>2. creating[t].new \in Threads /\ creating[t].tid \in Tids /\ creating[t].task \in Slots
        BY <2>1 DEF CreateJobs
  <2>3. /\ threads' \in [Procs -> [Tids -> Entry]]
        /\ task_table' \in [Slots -> Entry]
        BY <1>4, <2>2 DEF TcreateFail, Entry
  <2>4. pc' \in [Threads -> PcValues] BY <1>4, <2>2 DEF TcreateFail, PcValues
  <2>5. JobsTyped' BY <1>4, <2>2 DEF TcreateFail, JobsTyped, KillPcs
  <2> QED BY <1>4, <2>3, <2>4, <2>5 DEF TcreateFail
<1>5. CASE TcreatePublish(t)
  <2>1. creating[t] \in CreateJobs BY <1>5 DEF TcreatePublish, JobsTyped
  <2>2. creating[t].new \in Threads /\ creating[t].tid \in Tids /\ creating[t].task \in Slots
        BY <2>1 DEF CreateJobs
  <2>3. /\ threads' \in [Procs -> [Tids -> Entry]]
        /\ task_table' \in [Slots -> Entry]
        /\ task_count' \in Int
    <3>1. ProcOf[creating[t].new] \in Procs /\ creating[t].new \in Entry BY <2>2 DEF Entry
    <3>2. threads' = [threads EXCEPT ![ProcOf[creating[t].new]][creating[t].tid] = creating[t].new]
          BY <1>5 DEF TcreatePublish
    <3>3. threads' \in [Procs -> [Tids -> Entry]] BY ZenonT(30), <2>2, <3>1, <3>2, SetThreadEntry
    <3>4. task_table' = [task_table EXCEPT ![creating[t].task] = creating[t].new]
          BY <1>5 DEF TcreatePublish
    <3>5. task_table' \in [Slots -> Entry] BY <2>2, <3>1, <3>4
    <3>6. task_count' \in Int BY <1>5 DEF TcreatePublish
    <3> QED BY <3>3, <3>5, <3>6
  <2>4. FreshThread(creating[t].new, creating[t].task) BY <1>5 DEF TcreatePublish
  <2>5. pc' \in [Threads -> PcValues] BY <1>5, <2>2 DEF TcreatePublish, PcValues
  <2>6. JobsTyped'
        BY <1>5, <2>2, <2>4 DEF TcreatePublish, FreshThread, JobsTyped, KillPcs
  <2> QED BY <1>5, <2>2, <2>3, <2>4, <2>5, <2>6
          DEF TcreatePublish, FreshThread, FreshTaskId, FreshLock
<1> QED BY <1>1, <1>2, <1>3, <1>4, <1>5

(* The steps of task_tkill keep the types.                                  *)
LEMMA TypeKillSteps ==
    ASSUME TypeInv, NEW k \in Threads,
           \/ \E v \in Threads, i \in Tids : KillBegin(k, v, i)
           \/ KillWait(k) \/ KillRetry(k) \/ KillSendIpi(k) \/ KillFinish(k)
    PROVE  TypeInv'
<1> USE SchedulerAssumption
    DEF TypeInv, TypeOK, tableVars, cpuVars, killVars, force_resched
<1>1. CASE \E v \in Threads, i \in Tids : KillBegin(k, v, i)
  <2>1. PICK v \in Threads, i \in Tids : KillBegin(k, v, i) BY <1>1
  <2> DEFINE j == [pid |-> ProcOf[v], tid |-> i, thread |-> v, cpu |-> active_on_cpu[v]]
  <2>2. j \in KillJobs BY DEF KillJobs
  <2>3. killing' = [killing EXCEPT ![k] = j] BY <2>1 DEF KillBegin
  <2>4. pc' \in [Threads -> PcValues] BY <2>1 DEF KillBegin, PcValues
  <2> HIDE DEF j
  <2>5. killing' \in [Threads -> KillJobs \cup {NoJob}] BY <2>2, <2>3
  <2>6. JobsTyped' BY <2>1, <2>2, <2>3 DEF KillBegin, JobsTyped, KillPcs
  <2> QED BY <2>1, <2>4, <2>5, <2>6 DEF KillBegin
<1>2. CASE KillWait(k)
  BY <1>2 DEF KillWait, JobsTyped, KillPcs, PcValues
<1>3. CASE KillRetry(k)
  BY <1>3 DEF KillRetry, JobsTyped, KillPcs, PcValues
<1>4. CASE KillSendIpi(k)
  <2>1. killing[k] \in KillJobs BY <1>4 DEF KillSendIpi, JobsTyped, KillPcs
  <2>2. killing[k].cpu \in Cpus
        BY <1>4, <2>1 DEF KillSendIpi, OtherCpu, KillJobs
  <2> QED BY <1>4, <2>2 DEF KillSendIpi, JobsTyped, KillPcs, PcValues
<1>5. CASE KillFinish(k)
  <2>1. killing[k] \in KillJobs BY <1>5 DEF KillFinish, KillReady, JobsTyped, KillPcs
  <2>2. killing[k].pid \in Procs /\ killing[k].tid \in Tids BY <2>1 DEF KillJobs
  <2>3. active_on_cpu[k] \in Cpus BY <1>5, ExecutingCpu DEF KillFinish
  <2> DEFINE v == threads[killing[k].pid][killing[k].tid]
  <2>4. v \in Threads BY <1>5 DEF KillFinish
  <2>5. /\ threads' \in [Procs -> [Tids -> Entry]]
        /\ task_table' \in [Slots -> Entry]
        /\ task_count' \in Int
    <3>1. EMPTY \in Entry BY DEF Entry
    <3>2. ForgetThread(killing[k].pid, killing[k].tid, v) BY <1>5 DEF KillFinish
    <3> HIDE DEF v
    <3>3. threads' \in [Procs -> [Tids -> Entry]]
          BY <2>2, <3>1, <3>2, SetThreadEntry DEF ForgetThread
    <3>4. task_table' \in [Slots -> Entry] BY <2>4, <3>1, <3>2 DEF ForgetThread
    <3>5. task_count' \in Int BY <3>2 DEF ForgetThread
    <3> QED BY <3>3, <3>4, <3>5
  <2>6. /\ current_task' \in [Cpus -> Slots \cup {NoTask}]
        /\ cr3' \in [Cpus -> Procs]
        /\ aborting' \subseteq Cpus
        BY <1>5, <2>3 DEF KillFinish
  <2>7. pc' = [[pc EXCEPT ![k] = "sys"] EXCEPT ![v] = "none"] BY <1>5 DEF KillFinish
  <2> HIDE DEF v
  <2>8. pc' \in [Threads -> PcValues] BY <2>4, <2>7 DEF PcValues
  <2>9. JobsTyped' BY <1>5, <2>4, <2>7 DEF KillFinish, JobsTyped, KillPcs
  <2> QED BY <1>5, <2>5, <2>6, <2>8, <2>9 DEF KillFinish
<1> QED BY <1>1, <1>2, <1>3, <1>4, <1>5

(* TypeInv is inductive.                                                    *)
LEMMA TypeStep == TypeInv /\ [Next]_vars => TypeInv'
<1> SUFFICES ASSUME TypeInv, [Next]_vars PROVE TypeInv' OBVIOUS
<1>1. CASE \E t \in Threads : ThreadStep(t) \/ SleepOver(t)
  BY <1>1, TypeThreadSteps, TypeCreateSteps, TypeKillSteps DEF ThreadStep
<1>2. CASE \E c \in Cpus : task_resched(c) \/ ScanPastEnd(c) \/ ipi_abortexec(c)
  BY <1>2, TypeCpuSteps
<1>3. CASE \E e \in Events : event_trigger(e)
  BY <1>3 DEF event_trigger, TypeInv, TypeOK, JobsTyped, tableVars, cpuVars, killVars
<1>4. CASE UNCHANGED vars
  BY <1>4 DEF vars, TypeInv, TypeOK, JobsTyped
<1> QED BY <1>1, <1>2, <1>3, <1>4 DEF Next

(* Every variable keeps its type, whatever the CPUs, threads and interrupts
   do: in particular a CPU number sent an IPI is one, and the entries a
   creation or a kill goes back to are indices of the tables.               *)
THEOREM TypeCorrect == Spec => []TypeOK
<1>1. Init => TypeInv BY TypeInit
<1>2. TypeInv /\ [Next]_vars => TypeInv' BY TypeStep
<1>3. TypeInv => TypeOK BY DEF TypeInv
<1> QED BY <1>1, <1>2, <1>3, PTL DEF Spec

-----------------------------------------------------------------------------
(***************************************************************************)
(* The tables.  The five properties of Scheduler about them are not         *)
(* inductive; the parts below add why a creation and a kill keep what they  *)
(* read under an earlier acquisition of scheduler_lock.                     *)
(***************************************************************************)

(* A thread in the task table has been published and not been removed.      *)
TableLive == \A s \in Slots : task_table[s] \in Threads =>
                 pc[task_table[s]] \notin {"none", "new"}

(* A creation owns its two entries and its thread_t, alone.                 *)
CreatorsOwn ==
    \A t \in Threads : pc[t] = "create" =>
        /\ task_table[creating[t].task] = PLACEHOLDER
        /\ threads[ProcOf[creating[t].new]][creating[t].tid] = PLACEHOLDER
        /\ pc[creating[t].new] = "new"

CreatorsApart ==
    \A t, u \in Threads : pc[t] = "create" /\ pc[u] = "create" /\ t # u =>
        /\ creating[t].task # creating[u].task
        /\ creating[t].new # creating[u].new
        /\ \/ creating[t].tid # creating[u].tid
           \/ ProcOf[creating[t].new] # ProcOf[creating[u].new]

ReservedOwned ==
    /\ \A s \in Slots : task_table[s] = PLACEHOLDER =>
          \E t \in Threads : pc[t] = "create" /\ creating[t].task = s
    /\ \A p \in Procs, i \in Tids : threads[p][i] = PLACEHOLDER =>
          \E t \in Threads : /\ pc[t] = "create" /\ creating[t].tid = i
                            /\ ProcOf[creating[t].new] = p

(* Who kills whom when no thread moves while it reads CURRENT_THREAD: the
   request monitor kills user threads, any other thread itself.              *)
MayTarget(k, v) == k = v \/ (k = Urm /\ v \in Victims)

(* A kill under way is one of those, and its victim's entry stays.           *)
KillersSound ==
    \A k \in Threads : pc[k] \in KillPcs =>
        /\ threads[killing[k].pid][killing[k].tid] = killing[k].thread
        /\ ProcOf[killing[k].thread] = killing[k].pid
        /\ MayTarget(k, killing[k].thread)

(* scheduler_lock is held across steps by the one thread in those steps.    *)
HolderKills == \A k \in Threads : pc[k] \in {"kill", "kill_ipi"} <=> holder = k

(* A user thread in the body of a syscall is marked so; execve, which gives
   the mark up early, does not come back to the body.                        *)
SyscallMarked ==
    \A t \in Threads : ProcOf[t] # 0 /\ pc[t] \in {"sys", "take", "create"} \cup KillPcs
        => t \in in_syscall

(* A victim found outside a syscall stays outside while the lock is held.   *)
VictimOutside ==
    \A k \in Threads : pc[k] = "kill_ipi" => killing[k].thread \notin in_syscall

(* A thread_t that is not in use is not marked, so a new one starts clear.   *)
UnusedOutside == \A t \in Threads : pc[t] \in {"none", "new"} => t \notin in_syscall

FlightInv == /\ UnusedOutside
             /\ TableLive /\ CreatorsOwn /\ CreatorsApart /\ ReservedOwned
             /\ KillersSound /\ HolderKills /\ SyscallMarked /\ VictimOutside

TableInv == FlightInv /\ TaskCountExact /\ TableDense /\ TablesAgree

(* The slots of the task table that hold a thread, which task_count counts.  *)
Used(table) == {s \in Slots : table[s] \in Threads}

(* The number of used slots after one entry is written.                      *)
LEMMA CountUsed ==
    ASSUME NEW old, NEW new, NEW s \in Slots,
           \A r \in Slots : r # s => new[r] = old[r]
    PROVE  /\ Cardinality(Used(old)) \in Nat
           /\ (old[s] \in Threads <=> new[s] \in Threads) =>
                 Cardinality(Used(new)) = Cardinality(Used(old))
           /\ old[s] \notin Threads /\ new[s] \in Threads =>
                 Cardinality(Used(new)) = Cardinality(Used(old)) + 1
           /\ old[s] \in Threads /\ new[s] \notin Threads =>
                 Cardinality(Used(new)) = Cardinality(Used(old)) - 1
<1>1. IsFiniteSet(Slots) BY SchedulerAssumption, FS_Interval DEF Slots
<1>2. IsFiniteSet(Used(old)) BY <1>1, FS_Subset DEF Used
<1>3. Cardinality(Used(old)) \in Nat BY <1>2, FS_CardinalityType
<1>4. ASSUME old[s] \in Threads <=> new[s] \in Threads PROVE Used(new) = Used(old)
  BY <1>4 DEF Used
<1>5. ASSUME old[s] \notin Threads, new[s] \in Threads
      PROVE  Cardinality(Used(new)) = Cardinality(Used(old)) + 1
  <2>1. Used(new) = Used(old) \cup {s} /\ s \notin Used(old) BY <1>5 DEF Used
  <2> QED BY <1>2, <2>1, FS_AddElement
<1>6. ASSUME old[s] \in Threads, new[s] \notin Threads
      PROVE  Cardinality(Used(new)) = Cardinality(Used(old)) - 1
  <2>1. Used(new) = Used(old) \ {s} /\ s \in Used(old) BY <1>6 DEF Used
  <2> QED BY <1>2, <2>1, FS_RemoveElement
<1> QED BY <1>3, <1>4, <1>5, <1>6

(* kmain() leaves one thread in both tables and nothing under way.           *)
LEMMA TableInit == Init => TableInv
<1> SUFFICES ASSUME Init PROVE TableInv OBVIOUS
<1> USE SchedulerAssumption
<1>1. 0 \in Slots /\ 0 \in Tids BY DEF Slots, Tids
<1>2. \A s \in Slots : task_table[s] = IF s = 0 THEN Kmain ELSE NULL BY DEF Init
<1>3. \A p \in Procs, i \in Tids :
         threads[p][i] = IF p = 0 /\ i = 0 THEN Kmain ELSE NULL
      BY DEF Init
<1>4. \A t \in Threads : pc[t] = IF t = Kmain THEN "sys" ELSE "none" BY DEF Init
<1>5. TableLive /\ ReservedOwned BY <1>2, <1>3, <1>4 DEF TableLive, ReservedOwned
<1>6. /\ CreatorsOwn /\ CreatorsApart /\ KillersSound /\ HolderKills
      /\ SyscallMarked /\ VictimOutside /\ UnusedOutside
      BY <1>4 DEF Init, CreatorsOwn, CreatorsApart, KillersSound, HolderKills,
                  SyscallMarked, VictimOutside, UnusedOutside, KillPcs
<1>7. TableDense BY <1>2 DEF TableDense, Slots
<1>8. TablesAgree
  <2>1. task_id[Kmain] = 0 BY DEF Init
  <2> QED BY <1>1, <1>2, <1>3, <2>1 DEF TablesAgree
<1>9. TaskCountExact
  <2>1. {s \in Slots : task_table[s] \in Threads} = {0} BY <1>1, <1>2
  <2>2. Cardinality({0}) = 1 BY FS_Singleton
  <2> QED BY <2>1, <2>2 DEF TaskCountExact, Init
<1> QED BY <1>5, <1>6, <1>7, <1>8, <1>9 DEF TableInv, FlightInv

(* A step that changes none of the variables of TableInv: every switch of
   task_resched, every interrupt, trigger and tick of the clock.             *)
LEMMA TableFrame ==
    ASSUME TableInv,
           UNCHANGED <<tableVars, pc, creating, killing, holder, in_syscall>>
    PROVE  TableInv'
  BY DEF TableInv, FlightInv, TableLive, CreatorsOwn, CreatorsApart, ReservedOwned,
         KillersSound, HolderKills, SyscallMarked, VictimOutside, UnusedOutside,
         TaskCountExact, TableDense, TablesAgree, tableVars, MayTarget

(* A step in which thread t moves between places that are neither a creation
   nor a kill, and at most its own in_syscall mark changes, set only while
   scheduler_lock is free.                                                   *)
LEMMA TableLocal ==
    ASSUME TypeInv, TableInv, NEW t \in Threads, NEW x,
           UNCHANGED <<tableVars, creating, killing, holder>>,
           pc' = [pc EXCEPT ![t] = x],
           pc[t] \notin {"none", "new", "create"} \cup KillPcs,
           x \notin {"none", "new", "create"} \cup KillPcs,
           \A u \in Threads : u # t => (u \in in_syscall' <=> u \in in_syscall),
           t \in in_syscall' => t \in in_syscall \/ LockFree,
           ProcOf[t] # 0 /\ x \in {"sys", "take"} => t \in in_syscall'
    PROVE  TableInv'
<1> USE SchedulerAssumption DEF TableInv, FlightInv, KillPcs
<1>1. \A u \in Threads : pc'[u] = IF u = t THEN x ELSE pc[u] BY DEF TypeInv, TypeOK
<1>2. TaskCountExact' /\ TableDense' /\ TablesAgree'
      BY DEF TaskCountExact, TableDense, TablesAgree, tableVars
<1>3. TableLive' BY <1>1 DEF TableLive, tableVars
<1>4. CreatorsOwn'
  <2>1. \A u \in Threads : pc[u] = "create" => creating[u].new \in Threads
        BY DEF TypeInv, JobsTyped, CreateJobs
  <2> QED BY <1>1, <2>1 DEF CreatorsOwn, tableVars
<1>5. CreatorsApart' BY <1>1 DEF CreatorsApart
<1>6. ReservedOwned' BY <1>1 DEF ReservedOwned, tableVars
<1>7. KillersSound' BY <1>1 DEF KillersSound, tableVars, MayTarget
<1>8. HolderKills' BY <1>1 DEF HolderKills
<1>9. SyscallMarked' BY <1>1 DEF SyscallMarked
<1>10. UnusedOutside' BY <1>1 DEF UnusedOutside
<1>11. VictimOutside'
  <2>1. \A k \in Threads : pc[k] = "kill_ipi" => killing[k].thread \in Threads /\ holder = k
        BY DEF TypeInv, JobsTyped, KillJobs, HolderKills
  <2> QED BY <1>1, <2>1 DEF VictimOutside, LockFree
<1> QED BY <1>2, <1>3, <1>4, <1>5, <1>6, <1>7, <1>8, <1>9, <1>10, <1>11

(* Awaiting, sleeping and crossing the syscall boundary keep the tables.    *)
LEMMA TableThreadSteps ==
    ASSUME ~Migrates, TypeInv, TableInv, NEW t \in Threads,
           \/ \E e \in Events : AwaitSeen(t, e) \/ AwaitNull(t, e)
           \/ \E e \in Events, u \in Threads : AwaitBlock(t, e, u) \/ ExecveAborted(t, e, u)
           \/ AwaitTake(t) \/ AwaitYield(t) \/ Awoken(t) \/ relaxed_sleep(t)
           \/ enter_syscall(t) \/ EnterAborted(t) \/ leave_syscall(t) \/ LeaveDone(t)
           \/ ExitNull(t) \/ \E u \in Threads : syscall_exit(t, u)
           \/ SleepOver(t)
    PROVE  TableInv'
<1> USE DEF tableVars, cpuVars, killVars, force_resched, KillPcs
<1>0. SyscallMarked BY DEF TableInv, FlightInv
<1>1. CASE \E e \in Events : AwaitSeen(t, e)
  BY <1>0, <1>1, TableLocal DEF AwaitSeen, SyscallMarked
<1>2. CASE \E e \in Events, u \in Threads : AwaitBlock(t, e, u)
  BY <1>0, <1>2, TableLocal DEF AwaitBlock, SyscallMarked
<1>3. CASE \E e \in Events, u \in Threads : ExecveAborted(t, e, u)
  <2>1. PICK x \in {"yield", "bail"} : pc' = [pc EXCEPT ![t] = x]
        BY <1>3 DEF ExecveAborted
  <2> QED BY <1>3, <2>1, TableLocal DEF ExecveAborted
<1>4. CASE AwaitTake(t) BY <1>0, <1>4, TableLocal DEF AwaitTake, SyscallMarked
<1>5. CASE AwaitYield(t) BY <1>0, <1>5, TableLocal DEF AwaitYield, SyscallMarked
<1>6. CASE Awoken(t) BY <1>0, <1>6, TableLocal DEF Awoken, IsKernel
<1>7. CASE relaxed_sleep(t) BY <1>0, <1>7, TableLocal DEF relaxed_sleep, IsKernel
<1>8. CASE enter_syscall(t) BY <1>8, TableLocal DEF enter_syscall
<1>9. CASE EnterAborted(t) BY <1>9, TableLocal DEF EnterAborted
<1>10. CASE leave_syscall(t) BY <1>10, TableLocal DEF leave_syscall
<1>11. CASE \E u \in Threads : syscall_exit(t, u)
  BY <1>11, TableLocal DEF syscall_exit, Me
<1>12. CASE SleepOver(t) BY <1>12, TableFrame DEF SleepOver
<1>13. CASE \E e \in Events : AwaitNull(t, e) BY <1>13 DEF AwaitNull, MeNull
<1>14. CASE LeaveDone(t) BY <1>14, TableLocal DEF LeaveDone
<1>15. CASE ExitNull(t) BY <1>15 DEF ExitNull, MeNull
<1> QED BY <1>1, <1>2, <1>3, <1>4, <1>5, <1>6, <1>7, <1>8, <1>9, <1>10, <1>11, <1>12,
           <1>13, <1>14, <1>15

(* The locals of a task_tkill under way are indices of the tables.           *)
LEMMA KillJobTyped ==
    ASSUME TypeInv, NEW k \in Threads, pc[k] \in KillPcs
    PROVE  /\ killing[k].pid \in Procs /\ killing[k].tid \in Tids
           /\ killing[k].thread \in Threads
  BY DEF TypeInv, JobsTyped, KillJobs

(* So are those of a task_tcreate.                                           *)
LEMMA CreateJobTyped ==
    ASSUME TypeInv, NEW t \in Threads, pc[t] = "create"
    PROVE  /\ creating[t].new \in Threads /\ creating[t].tid \in Tids
           /\ creating[t].task \in Slots
           /\ ProcOf[creating[t].new] \in Procs
  BY SchedulerAssumption DEF TypeInv, JobsTyped, CreateJobs

(* task_tkill up to the removal: only the killer moves, and it takes or
   gives back scheduler_lock.                                                *)
LEMMA TableKillMoves ==
    ASSUME ~Migrates, TypeInv, TableInv, NEW k \in Threads,
           \/ \E v \in Threads, i \in Tids : KillBegin(k, v, i)
           \/ KillWait(k) \/ KillRetry(k) \/ KillSendIpi(k)
    PROVE  TableInv'
<1> USE SchedulerAssumption
    DEF TableInv, FlightInv, KillPcs, tableVars, cpuVars, killVars, force_resched
<1>a. \A u \in Threads : pc[u] = "create" => creating[u].new \in Threads
      BY CreateJobTyped
<1>b. \A u \in Threads : pc[u] \in KillPcs => killing[u].thread \in Threads
      BY KillJobTyped
<1>1. CASE \E v \in Threads, i \in Tids : KillBegin(k, v, i)
  <2>1. PICK v \in Threads, i \in Tids : KillBegin(k, v, i) BY <1>1
  <2>2. /\ \A u \in Threads : pc'[u] = IF u = k THEN "kill" ELSE pc[u]
        /\ pc[k] = "sys" /\ holder = NoThread /\ holder' = k
        /\ UNCHANGED <<tableVars, in_syscall, creating>>
        BY <2>1 DEF KillBegin, LockFree, TypeInv, TypeOK
  <2>3. /\ \A u \in Threads : u # k => killing'[u] = killing[u]
        /\ killing'[k].pid = ProcOf[v] /\ killing'[k].tid = i /\ killing'[k].thread = v
        /\ threads[ProcOf[v]][i] = v /\ MayTarget(k, v)
        BY <2>1 DEF KillBegin, MayKill, Me, MayTarget, TypeInv, TypeOK
  <2>5. TaskCountExact' /\ TableDense' /\ TablesAgree'
        BY <2>2 DEF TaskCountExact, TableDense, TablesAgree
  <2>6. /\ TableLive' /\ CreatorsApart' /\ ReservedOwned' /\ UnusedOutside'
        BY <2>2 DEF TableLive, CreatorsApart, ReservedOwned, UnusedOutside
  <2>7. CreatorsOwn' BY <1>a, <2>2 DEF CreatorsOwn
  <2>8. KillersSound' BY <2>2, <2>3 DEF KillersSound, MayTarget
  <2>9. HolderKills' BY <2>2 DEF HolderKills
  <2>10. SyscallMarked' BY <2>2 DEF SyscallMarked
  <2>11. VictimOutside' BY <2>2, <2>3 DEF VictimOutside
  <2> QED BY <2>5, <2>6, <2>7, <2>8, <2>9, <2>10, <2>11
<1>2. ASSUME KillWait(k) \/ KillRetry(k) \/ KillSendIpi(k)
      PROVE  TableInv'
  <2>1. PICK x \in KillPcs : \A u \in Threads : pc'[u] = IF u = k THEN x ELSE pc[u]
        BY <1>2 DEF KillWait, KillRetry, KillSendIpi, TypeInv, TypeOK
  <2>2. /\ pc[k] \in KillPcs
        /\ UNCHANGED <<tableVars, killing, in_syscall, creating>>
        BY <1>2 DEF KillWait, KillRetry, KillSendIpi
  <2>3. TaskCountExact' /\ TableDense' /\ TablesAgree'
        BY <2>2 DEF TaskCountExact, TableDense, TablesAgree
  <2>4. /\ TableLive' /\ CreatorsApart' /\ ReservedOwned' /\ UnusedOutside'
        BY <2>1, <2>2 DEF TableLive, CreatorsApart, ReservedOwned, UnusedOutside
  <2>5. CreatorsOwn' BY <1>a, <2>1, <2>2 DEF CreatorsOwn
  <2>6. KillersSound' BY <2>1, <2>2 DEF KillersSound, MayTarget
  <2>7. SyscallMarked' BY <2>1, <2>2 DEF SyscallMarked
  <2>8. HolderKills'
        BY <1>2 DEF HolderKills, KillWait, KillRetry, KillSendIpi, LockFree, TypeInv, TypeOK
  <2>9. VictimOutside'
        BY <1>2 DEF VictimOutside, KillWait, KillRetry, KillSendIpi, TypeInv, TypeOK
  <2> QED BY <2>3, <2>4, <2>5, <2>6, <2>7, <2>8, <2>9
<1> QED BY <1>1, <1>2

(* What task_tkill removes is the victim it chose, it was outside any
   syscall, and no creation of its own was under way.                        *)
LEMMA VictimRemovable ==
    ASSUME TypeInv, TableInv, NEW k \in Threads, KillFinish(k)
    PROVE  LET v == threads[killing[k].pid][killing[k].tid] IN
           /\ v = killing[k].thread /\ v \in Threads
           /\ v \notin in_syscall
           /\ pc[v] \notin {"none", "new", "create"}
           /\ task_table[task_id[v]] = v
           /\ ProcOf[v] = killing[k].pid
           /\ pc[k] \in {"kill", "kill_ipi"} /\ holder = k
<1> DEFINE v == threads[killing[k].pid][killing[k].tid]
<1>1. pc[k] \in {"kill", "kill_ipi"} /\ pc[k] \in KillPcs
      BY DEF KillFinish, KillReady, KillPcs
<1>2. v = killing[k].thread /\ v \in Threads /\ MayTarget(k, v) /\ ProcOf[v] = killing[k].pid
      BY <1>1, KillJobTyped DEF TableInv, FlightInv, KillersSound
<1>3. v \notin in_syscall
      BY <1>2 DEF KillFinish, KillReady, TableInv, FlightInv, VictimOutside
<1>4. task_table[task_id[v]] = v /\ task_id[v] \in Slots
      BY <1>1, <1>2, KillJobTyped DEF TableInv, TablesAgree, TypeInv, TypeOK
<1>5. pc[v] \notin {"none", "new"} BY <1>2, <1>4 DEF TableInv, FlightInv, TableLive
<1>6. pc[v] # "create"
  <2>1. CASE ProcOf[v] # 0
    BY <1>2, <1>3, <2>1 DEF TableInv, FlightInv, SyscallMarked
  <2>2. CASE ProcOf[v] = 0
    BY <1>1, <1>2, <2>2, SchedulerAssumption DEF MayTarget
  <2> QED BY <2>1, <2>2
<1>7. holder = k BY <1>1 DEF TableInv, FlightInv, HolderKills
<1> QED BY <1>1, <1>2, <1>3, <1>4, <1>5, <1>6, <1>7

(* The removal at the end of task_tkill keeps the tables consistent.         *)
LEMMA TableKillFinish ==
    ASSUME TypeInv, TableInv, NEW k \in Threads, KillFinish(k)
    PROVE  TableInv'
<1> DEFINE p == killing[k].pid
           i == killing[k].tid
           v == threads[p][i]
           s == task_id[v]
<1> USE SchedulerAssumption DEF TableInv, FlightInv
<1>1. /\ v = killing[k].thread /\ v \in Threads /\ v \notin in_syscall
      /\ pc[v] \notin {"none", "new", "create"} /\ ProcOf[v] = p
      /\ task_table[s] = v /\ holder = k /\ pc[k] \in {"kill", "kill_ipi"}
      BY VictimRemovable
<1>2. p \in Procs /\ i \in Tids /\ s \in Slots
      BY <1>1, KillJobTyped DEF KillPcs, TypeInv, TypeOK
<1>3. MayTarget(k, v) BY <1>1 DEF KillersSound, KillPcs
<1>4. ForgetThread(p, i, v) BY DEF KillFinish
<1>5. \A r \in Slots : task_table'[r] = IF r = s THEN EMPTY ELSE task_table[r]
      BY <1>2, <1>4 DEF ForgetThread, TypeInv, TypeOK
<1>6. \A q \in Procs, j \in Tids :
         threads'[q][j] = IF q = p /\ j = i THEN EMPTY ELSE threads[q][j]
  <2>1. EMPTY \in Entry /\ threads \in [Procs -> [Tids -> Entry]]
        BY DEF Entry, TypeInv, TypeOK
  <2>2. threads' = [threads EXCEPT ![p][i] = EMPTY] BY <1>4 DEF ForgetThread
  <2> HIDE DEF p, i
  <2> QED BY <1>2, <2>1, <2>2, SetThreadEntry
<1>7. pc' = [[pc EXCEPT ![k] = "sys"] EXCEPT ![v] = "none"] BY DEF KillFinish
<1>8. /\ UNCHANGED <<task_id, in_syscall, creating>>
      /\ holder' = NoThread
      /\ killing' = [killing EXCEPT ![k] = NoJob]
      BY DEF KillFinish
<1>a. pc \in [Threads -> PcValues] /\ killing \in [Threads -> KillJobs \cup {NoJob}]
      /\ task_id \in [Threads -> Slots]
      BY DEF TypeInv, TypeOK
<1>b. \A u \in Threads : pc[u] = "create" =>
         creating[u].new \in Threads /\ creating[u].task \in Slots
         /\ creating[u].tid \in Tids /\ ProcOf[creating[u].new] \in Procs
      BY CreateJobTyped
<1>c. \A u \in Threads : pc[u] \in KillPcs =>
         killing[u].thread \in Threads /\ killing[u].pid \in Procs /\ killing[u].tid \in Tids
      BY KillJobTyped
<1>d. threads[p][i] = v /\ task_id[v] = s OBVIOUS
<1> HIDE DEF p, i, v, s
<1>9. \A u \in Threads : pc'[u] = IF u = v THEN "none" ELSE IF u = k THEN "sys" ELSE pc[u]
      BY <1>1, <1>7, <1>a
<1>e. \A r \in Slots : task_table[r] = v => r = s BY <1>1, <1>d DEF TablesAgree
<1>10. TableLive' BY <1>1, <1>5, <1>9, <1>e DEF TableLive
<1>11. CreatorsOwn' /\ CreatorsApart' /\ ReservedOwned'
  <2>1. \A u \in Threads : pc'[u] = "create" <=> pc[u] = "create" BY <1>1, <1>9
  <2>2. \A u \in Threads : pc[u] = "new" => pc'[u] = "new" BY <1>1, <1>9
  <2>3. CreatorsOwn' BY <1>1, <1>5, <1>6, <1>8, <1>b, <1>d, <2>1, <2>2 DEF CreatorsOwn
  <2>4. CreatorsApart' BY <1>8, <2>1 DEF CreatorsApart
  <2>5. \A r \in Slots : task_table'[r] = PLACEHOLDER => task_table[r] = PLACEHOLDER
        BY <1>5
  <2>6. \A q \in Procs, j \in Tids :
           threads'[q][j] = PLACEHOLDER => threads[q][j] = PLACEHOLDER
        BY <1>6
  <2>7. ReservedOwned' BY <1>8, <2>1, <2>5, <2>6 DEF ReservedOwned
  <2> QED BY <2>3, <2>4, <2>7
<1>12. KillersSound'
  <2> SUFFICES ASSUME NEW u \in Threads, pc'[u] \in KillPcs
               PROVE  /\ threads'[killing'[u].pid][killing'[u].tid] = killing'[u].thread
                      /\ ProcOf[killing'[u].thread] = killing'[u].pid
                      /\ MayTarget(u, killing'[u].thread)
      BY DEF KillersSound, MayTarget
  <2>1. u # k /\ u # v /\ pc[u] \in KillPcs /\ killing'[u] = killing[u]
        BY <1>8, <1>9, <1>a DEF KillPcs
  <2>2. /\ threads[killing[u].pid][killing[u].tid] = killing[u].thread
        /\ ProcOf[killing[u].thread] = killing[u].pid /\ MayTarget(u, killing[u].thread)
        BY <2>1 DEF KillersSound
  <2>3. killing[u].thread # v
    <3> SUFFICES ASSUME killing[u].thread = v PROVE FALSE OBVIOUS
    <3>1. u = Urm /\ v \in Victims BY <2>1, <2>2 DEF MayTarget
    <3>2. k = v BY <1>3, <2>1, <3>1 DEF MayTarget
    <3>3. ProcOf[v] # 0 BY <3>1
    <3> QED BY <1>1, <3>2, <3>3 DEF SyscallMarked, KillPcs
  <2>4. ~(killing[u].pid = p /\ killing[u].tid = i) BY <1>d, <2>2, <2>3
  <2>5. threads'[killing[u].pid][killing[u].tid] = threads[killing[u].pid][killing[u].tid]
        BY <1>6, <1>c, <2>1, <2>4
  <2> QED BY <2>1, <2>2, <2>5
<1>13. HolderKills' BY <1>1, <1>8, <1>9 DEF HolderKills
<1>14. SyscallMarked'
  <2>1. k # v => ProcOf[k] = 0 BY <1>3 DEF MayTarget
  <2> QED BY <1>1, <1>8, <1>9, <2>1 DEF SyscallMarked, KillPcs
<1>15. VictimOutside' BY <1>1, <1>8, <1>9, <1>a DEF VictimOutside
<1>16. UnusedOutside' BY <1>1, <1>8, <1>9 DEF UnusedOutside
<1>17. TaskCountExact'
  <2>1. task_count' = task_count - 1 BY <1>4 DEF ForgetThread
  <2>2. task_table[s] \in Threads /\ task_table'[s] \notin Threads BY <1>1, <1>2, <1>5
  <2>3. Cardinality(Used(task_table')) = Cardinality(Used(task_table)) - 1
        BY <1>2, <1>5, <2>2, CountUsed
  <2> QED BY <2>1, <2>3 DEF TaskCountExact, Used
<1>18. TableDense' BY <1>1, <1>2, <1>5 DEF TableDense, Slots
<1>19. TablesAgree' BY <1>1, <1>2, <1>5, <1>6, <1>8, <1>a, <1>d, <1>e DEF TablesAgree
<1> QED BY <1>10, <1>11, <1>12, <1>13, <1>14, <1>15, <1>16, <1>17, <1>18, <1>19

(* A step that keeps every thread entry of the thread tables keeps the
   victims of the kills under way.                                           *)
LEMMA KillersKept ==
    ASSUME TypeInv, KillersSound,
           \A q \in Procs, j \in Tids : threads[q][j] \in Threads =>
              threads'[q][j] = threads[q][j],
           \A u \in Threads : pc'[u] \in KillPcs => pc[u] \in KillPcs,
           killing' = killing
    PROVE  KillersSound'
<1> SUFFICES ASSUME NEW k \in Threads, pc'[k] \in KillPcs
             PROVE  /\ threads'[killing[k].pid][killing[k].tid] = killing[k].thread
                    /\ ProcOf[killing[k].thread] = killing[k].pid
                    /\ MayTarget(k, killing[k].thread)
    BY DEF KillersSound, MayTarget
<1>1. pc[k] \in KillPcs OBVIOUS
<1>2. /\ threads[killing[k].pid][killing[k].tid] = killing[k].thread
      /\ ProcOf[killing[k].thread] = killing[k].pid /\ MayTarget(k, killing[k].thread)
      BY <1>1 DEF KillersSound
<1>3. /\ killing[k].pid \in Procs /\ killing[k].tid \in Tids
      /\ killing[k].thread \in Threads
      BY <1>1, KillJobTyped
<1>4. threads'[killing[k].pid][killing[k].tid] = threads[killing[k].pid][killing[k].tid]
      BY <1>2, <1>3
<1> QED BY <1>2, <1>4

(* A step that keeps the thread entries of both tables and the task ids
   keeps their agreement.                                                    *)
LEMMA AgreeKept ==
    ASSUME TypeInv, TablesAgree, task_id' = task_id,
           \A r \in Slots : task_table[r] \in Threads \/ task_table'[r] \in Threads =>
              task_table'[r] = task_table[r],
           \A q \in Procs, j \in Tids :
              threads[q][j] \in Threads \/ threads'[q][j] \in Threads =>
              threads'[q][j] = threads[q][j]
    PROVE  TablesAgree'
<1>0. task_id \in [Threads -> Slots] /\ ProcOf \in [Threads -> Procs]
      BY SchedulerAssumption DEF TypeInv, TypeOK
<1>1. ASSUME NEW r \in Slots, task_table'[r] \in Threads
      PROVE  /\ task_id'[task_table'[r]] = r
             /\ \E i \in Tids : threads'[ProcOf[task_table'[r]]][i] = task_table'[r]
  <2>1. task_table'[r] = task_table[r] BY <1>1
  <2>2. task_id[task_table[r]] = r BY <1>1, <2>1 DEF TablesAgree
  <2>3. PICK i \in Tids : threads[ProcOf[task_table[r]]][i] = task_table[r]
        BY <1>1, <2>1 DEF TablesAgree
  <2>4. ProcOf[task_table[r]] \in Procs BY <1>0, <1>1, <2>1
  <2>5. threads'[ProcOf[task_table[r]]][i] = task_table[r] BY <1>1, <2>1, <2>3, <2>4
  <2> QED BY <2>1, <2>2, <2>5
<1>2. ASSUME NEW q \in Procs, NEW i \in Tids, threads'[q][i] \in Threads
      PROVE  /\ ProcOf[threads'[q][i]] = q
             /\ task_table'[task_id'[threads'[q][i]]] = threads'[q][i]
             /\ \A j \in Tids : threads'[q][j] = threads'[q][i] => j = i
  <2>1. threads'[q][i] = threads[q][i] BY <1>2
  <2>2. /\ ProcOf[threads[q][i]] = q
        /\ task_table[task_id[threads[q][i]]] = threads[q][i]
        BY <1>2, <2>1 DEF TablesAgree
  <2>3. task_id[threads[q][i]] \in Slots BY <1>0, <1>2, <2>1
  <2>4. task_table'[task_id[threads[q][i]]] = threads[q][i] BY <1>2, <2>1, <2>2, <2>3
  <2>5. ASSUME NEW j \in Tids, threads'[q][j] = threads'[q][i] PROVE j = i
    <3>1. threads[q][j] = threads[q][i] BY <1>2, <2>1, <2>5
    <3> QED BY <1>2, <2>1, <3>1 DEF TablesAgree
  <2> QED BY <2>1, <2>2, <2>4, <2>5
<1> QED BY <1>1, <1>2 DEF TablesAgree

(* A creation that the step leaves alone still owns what it reserved.        *)
LEMMA CreatorKept ==
    ASSUME TypeInv, CreatorsOwn, NEW u \in Threads, pc[u] = "create",
           creating'[u] = creating[u],
           task_table'[creating[u].task] = task_table[creating[u].task],
           threads'[ProcOf[creating[u].new]][creating[u].tid]
              = threads[ProcOf[creating[u].new]][creating[u].tid],
           \A w \in Threads : w = creating[u].new => pc'[w] = pc[w]
    PROVE  /\ task_table'[creating'[u].task] = PLACEHOLDER
           /\ threads'[ProcOf[creating'[u].new]][creating'[u].tid] = PLACEHOLDER
           /\ pc'[creating'[u].new] = "new"
  BY CreateJobTyped DEF CreatorsOwn

(* First critical section of task_tcreate, and its early return.             *)
LEMMA TableReserve ==
    ASSUME TypeInv, TableInv, NEW t \in Threads, NEW n \in Threads, NEW i \in Tids,
           TcreateNoSlot(t, n, i) \/ \E s \in Slots : TcreateReserve(t, n, i, s)
    PROVE  TableInv'
<1> DEFINE p == ProcOf[n]
<1> USE SchedulerAssumption DEF TableInv, FlightInv, tableVars, cpuVars, killVars
<1>1. p \in Procs OBVIOUS
<1>2. \A x \in {EMPTY, PLACEHOLDER} : \A q \in Procs, j \in Tids :
         [threads EXCEPT ![p][i] = x][q][j] = IF q = p /\ j = i THEN x ELSE threads[q][j]
      BY SetThreadEntry DEF Entry, TypeInv, TypeOK
<1>3. pc \in [Threads -> PcValues] /\ task_table \in [Slots -> Entry]
      /\ creating \in [Threads -> CreateJobs \cup {NoJob}]
      BY DEF TypeInv, TypeOK
<1>4. \A u \in Threads : pc[u] = "create" =>
         creating[u].new \in Threads /\ creating[u].task \in Slots
         /\ creating[u].tid \in Tids /\ ProcOf[creating[u].new] \in Procs
      BY CreateJobTyped
<1>6. threads[p][i] \in {NULL, EMPTY}
      BY DEF TcreateNoSlot, TcreateReserve, FirstFree, IsFree
<1> HIDE DEF p
<1>7. CASE TcreateNoSlot(t, n, i)
  <2>1. \A q \in Procs, j \in Tids :
           threads'[q][j] = IF q = p /\ j = i THEN EMPTY ELSE threads[q][j]
        BY <1>2, <1>7 DEF TcreateNoSlot, p
  <2>2. UNCHANGED <<task_table, task_count, task_id, pc, creating, killing, holder,
                    in_syscall>>
        BY <1>7 DEF TcreateNoSlot
  <2>3. TaskCountExact' /\ TableDense' /\ TableLive' /\ CreatorsApart' /\ HolderKills'
        /\ SyscallMarked' /\ VictimOutside' /\ UnusedOutside'
        BY <2>2 DEF TaskCountExact, TableDense, TableLive, CreatorsApart, HolderKills,
                    SyscallMarked, VictimOutside, UnusedOutside
  <2>a. \A q \in Procs, j \in Tids : threads[q][j] \notin {NULL, EMPTY} =>
           threads'[q][j] = threads[q][j]
        BY <1>6, <2>1
  <2>b. \A q \in Procs, j \in Tids : threads'[q][j] \notin {NULL, EMPTY} =>
           threads'[q][j] = threads[q][j]
        BY <2>1
  <2> HIDE DEF FlightInv
  <2>4. CreatorsOwn'
    <3> SUFFICES ASSUME NEW u \in Threads, pc[u] = "create"
                 PROVE  threads'[ProcOf[creating[u].new]][creating[u].tid]
                           = threads[ProcOf[creating[u].new]][creating[u].tid]
        BY <2>2, CreatorKept DEF CreatorsOwn, FlightInv
    <3>1. threads[ProcOf[creating[u].new]][creating[u].tid] = PLACEHOLDER
          BY DEF CreatorsOwn, FlightInv
    <3> QED BY <1>4, <2>a, <3>1
  <2>5. ReservedOwned'
    <3>1. \A q \in Procs, j \in Tids :
             threads'[q][j] = PLACEHOLDER => threads[q][j] = PLACEHOLDER
          BY <2>b
    <3>2. ReservedOwned BY DEF FlightInv
    <3>3. task_table' = task_table /\ pc' = pc /\ creating' = creating BY <2>2
    <3> HIDE DEF TableInv
    <3> QED BY <3>1, <3>2, <3>3 DEF ReservedOwned
  <2>6. KillersSound'
    <3>1. \A q \in Procs, j \in Tids : threads[q][j] \in Threads =>
             threads'[q][j] = threads[q][j]
          BY <2>a
    <3>2. killing' = killing /\ pc' = pc /\ KillersSound BY <2>2 DEF FlightInv
    <3> QED BY <3>1, <3>2, KillersKept
  <2>7. TablesAgree' BY <2>a, <2>b, <2>2, AgreeKept
  <2> USE DEF FlightInv
  <2> QED BY <2>3, <2>4, <2>5, <2>6, <2>7
<1>8. ASSUME NEW s \in Slots, TcreateReserve(t, n, i, s) PROVE TableInv'
  <2>1. \A q \in Procs, j \in Tids :
           threads'[q][j] = IF q = p /\ j = i THEN PLACEHOLDER ELSE threads[q][j]
        BY <1>2, <1>8 DEF TcreateReserve, p
  <2>2. /\ task_table[s] \in {NULL, EMPTY}
        /\ \A r \in Slots : r < s => task_table[r] \notin {NULL, EMPTY}
        BY <1>3, <1>8 DEF TcreateReserve, FirstFree, IsFree
  <2>3. \A r \in Slots : task_table'[r] = IF r = s THEN PLACEHOLDER ELSE task_table[r]
        BY <1>3, <1>8 DEF TcreateReserve
  <2>4. /\ pc[t] = "sys" /\ pc[n] = "none"
        /\ \A u \in Threads :
              pc'[u] = IF u = t THEN "create" ELSE IF u = n THEN "new" ELSE pc[u]
        BY <1>3, <1>8 DEF TcreateReserve
  <2>5. /\ \A u \in Threads : u # t => creating'[u] = creating[u]
        /\ creating'[t].new = n /\ creating'[t].tid = i /\ creating'[t].task = s
        BY <1>3, <1>8 DEF TcreateReserve
  <2>6. UNCHANGED <<task_count, task_id, killing, holder, in_syscall>>
        BY <1>8 DEF TcreateReserve
  <2>a. \A q \in Procs, j \in Tids : threads[q][j] \notin {NULL, EMPTY} =>
           threads'[q][j] = threads[q][j]
        BY <1>6, <2>1
  <2>7. TableLive' BY <2>3, <2>4 DEF TableLive
  <2>8. CreatorsOwn'
    <3> SUFFICES ASSUME NEW u \in Threads, pc'[u] = "create"
                 PROVE  /\ task_table'[creating'[u].task] = PLACEHOLDER
                        /\ threads'[ProcOf[creating'[u].new]][creating'[u].tid] = PLACEHOLDER
                        /\ pc'[creating'[u].new] = "new"
        BY DEF CreatorsOwn
    <3>1. CASE u = t BY <3>1, <1>1, <2>1, <2>3, <2>4, <2>5 DEF p
    <3>2. CASE u # t
      <4>1. pc[u] = "create" /\ creating'[u] = creating[u] BY <3>2, <2>4, <2>5
      <4>2. /\ task_table[creating[u].task] = PLACEHOLDER /\ creating[u].task \in Slots
            /\ threads[ProcOf[creating[u].new]][creating[u].tid] = PLACEHOLDER
            /\ pc[creating[u].new] = "new" /\ creating[u].new \in Threads
            BY <4>1, <1>4 DEF CreatorsOwn
      <4>3. threads'[ProcOf[creating[u].new]][creating[u].tid] = PLACEHOLDER
            BY <4>1, <4>2, <1>4, <2>a
      <4> QED BY <4>1, <4>2, <4>3, <2>3, <2>4
    <3> QED BY <3>1, <3>2
  <2>9. CreatorsApart'
    <3>1. \A u \in Threads : u # t /\ pc'[u] = "create" =>
             /\ pc[u] = "create" /\ creating'[u] = creating[u]
             /\ creating[u].task # s /\ creating[u].new # n
             /\ creating[u].tid # i \/ ProcOf[creating[u].new] # p
          BY <1>6, <2>2, <2>4, <2>5 DEF CreatorsOwn
    <3> QED BY <2>5, <3>1 DEF CreatorsApart, p
  <2>10. ReservedOwned'
    <3>1. \A u \in Threads : pc[u] = "create" => pc'[u] = "create" /\ creating'[u] = creating[u]
          BY <2>4, <2>5
    <3>2. \A r \in Slots : task_table'[r] = PLACEHOLDER =>
             \E u \in Threads : pc'[u] = "create" /\ creating'[u].task = r
      <4> SUFFICES ASSUME NEW r \in Slots, task_table'[r] = PLACEHOLDER
                   PROVE  \E u \in Threads : pc'[u] = "create" /\ creating'[u].task = r
          OBVIOUS
      <4>1. CASE r = s BY <4>1, <2>4, <2>5
      <4>2. CASE r # s BY <4>2, <2>3, <3>1 DEF ReservedOwned
      <4> QED BY <4>1, <4>2
    <3>3. \A q \in Procs, j \in Tids : threads'[q][j] = PLACEHOLDER =>
             \E u \in Threads : /\ pc'[u] = "create" /\ creating'[u].tid = j
                                /\ ProcOf[creating'[u].new] = q
      <4> SUFFICES ASSUME NEW q \in Procs, NEW j \in Tids, threads'[q][j] = PLACEHOLDER
                   PROVE  \E u \in Threads : /\ pc'[u] = "create" /\ creating'[u].tid = j
                                             /\ ProcOf[creating'[u].new] = q
          OBVIOUS
      <4>1. CASE q = p /\ j = i BY <4>1, <2>4, <2>5 DEF p
      <4>2. CASE ~(q = p /\ j = i) BY <4>2, <2>1, <3>1 DEF ReservedOwned
      <4> QED BY <4>1, <4>2
    <3> QED BY <3>2, <3>3 DEF ReservedOwned
  <2>11. KillersSound'
    <3>1. \A u \in Threads : pc'[u] \in KillPcs => pc[u] \in KillPcs BY <2>4 DEF KillPcs
    <3> QED BY <2>a, <2>6, <3>1, KillersKept
  <2>12. HolderKills' /\ VictimOutside' /\ UnusedOutside'
        BY <2>4, <2>6 DEF HolderKills, VictimOutside, UnusedOutside
  <2>13. SyscallMarked' BY <2>4, <2>6 DEF SyscallMarked, KillPcs
  <2>14. TaskCountExact'
    <3>1. Cardinality(Used(task_table')) = Cardinality(Used(task_table))
          BY <2>2, <2>3, CountUsed
    <3> QED BY <2>6, <3>1 DEF TaskCountExact, Used
  <2>15. TableDense' BY <2>2, <2>3 DEF TableDense, Slots
  <2>16. TablesAgree'
    <3>1. \A q \in Procs, j \in Tids : threads'[q][j] \in Threads =>
             threads'[q][j] = threads[q][j]
          BY <2>1
    <3>2. \A r \in Slots : task_table[r] \in Threads => task_table'[r] = task_table[r]
          BY <2>2, <2>3
    <3>3. \A r \in Slots : task_table'[r] \in Threads => task_table[r] = task_table'[r]
          BY <2>3
    <3> QED BY <2>a, <2>6, <3>1, <3>2, <3>3, AgreeKept
  <2> QED BY <2>7, <2>8, <2>9, <2>10, <2>11, <2>12, <2>13, <2>14, <2>15, <2>16
<1> QED BY <1>7, <1>8

(* Thread n, in neither table before, enters slot s and entry i of its
   process; the other thread entries stay.                                   *)
Enters(n, i, s) ==
    /\ pc[n] \in {"none", "new"}
    /\ task_id' = [task_id EXCEPT ![n] = s]
    /\ task_table'[s] = n /\ threads'[ProcOf[n]][i] = n
    /\ task_table[s] \notin Threads /\ threads[ProcOf[n]][i] \notin Threads
    /\ \A r \in Slots : r # s /\ (task_table[r] \in Threads \/ task_table'[r] \in Threads)
          => task_table'[r] = task_table[r]
    /\ \A q \in Procs, j \in Tids : ~(q = ProcOf[n] /\ j = i) /\
          (threads[q][j] \in Threads \/ threads'[q][j] \in Threads)
          => threads'[q][j] = threads[q][j]

(* The tables agree when a thread has entered both with its task id set.     *)
LEMMA AgreeEnter ==
    ASSUME TypeInv, TableLive, TablesAgree,
           NEW n \in Threads, NEW i \in Tids, NEW s \in Slots, Enters(n, i, s)
    PROVE  TablesAgree'
<1> USE DEF Enters
<1>0. /\ task_id \in [Threads -> Slots] /\ ProcOf \in [Threads -> Procs]
      /\ \A u \in Threads : task_id'[u] = IF u = n THEN s ELSE task_id[u]
      BY SchedulerAssumption DEF TypeInv, TypeOK
<1>1. \A r \in Slots : task_table[r] # n BY DEF TableLive
<1>2. \A q \in Procs, j \in Tids : threads[q][j] # n BY <1>0, <1>1 DEF TablesAgree
<1>3. ASSUME NEW r \in Slots, task_table'[r] \in Threads
      PROVE  /\ task_id'[task_table'[r]] = r
             /\ \E j \in Tids : threads'[ProcOf[task_table'[r]]][j] = task_table'[r]
  <2>1. CASE r = s BY <2>1, <1>0
  <2>2. CASE r # s
    <3>1. task_table'[r] = task_table[r] BY <1>3, <2>2
    <3>2. task_id[task_table[r]] = r BY <1>3, <3>1 DEF TablesAgree
    <3>3. PICK j \in Tids : threads[ProcOf[task_table[r]]][j] = task_table[r]
          BY <1>3, <3>1 DEF TablesAgree
    <3>4. ProcOf[task_table[r]] \in Procs BY <1>0, <1>3, <3>1
    <3>5. ~(ProcOf[task_table[r]] = ProcOf[n] /\ j = i) BY <1>3, <3>1, <3>3
    <3>6. threads'[ProcOf[task_table[r]]][j] = task_table[r] BY <1>3, <3>1, <3>3, <3>4, <3>5
    <3> QED BY <1>0, <1>1, <1>3, <3>1, <3>2, <3>6
  <2> QED BY <2>1, <2>2
<1>4. ASSUME NEW q \in Procs, NEW j \in Tids, threads'[q][j] \in Threads
      PROVE  /\ ProcOf[threads'[q][j]] = q
             /\ task_table'[task_id'[threads'[q][j]]] = threads'[q][j]
             /\ \A l \in Tids : threads'[q][l] = threads'[q][j] => l = j
  <2>1. CASE q = ProcOf[n] /\ j = i
    <3>1. ASSUME NEW l \in Tids, threads'[q][l] = n, l # i PROVE FALSE
      BY <1>2, <2>1, <3>1
    <3> QED BY <2>1, <1>0, <3>1
  <2>2. CASE ~(q = ProcOf[n] /\ j = i)
    <3>1. threads'[q][j] = threads[q][j] BY <1>4, <2>2
    <3>2. /\ ProcOf[threads[q][j]] = q
          /\ task_table[task_id[threads[q][j]]] = threads[q][j]
          BY <1>4, <3>1 DEF TablesAgree
    <3>3. threads[q][j] # n /\ task_id[threads[q][j]] \in Slots BY <1>0, <1>2, <1>4, <3>1
    <3>4. task_table'[task_id[threads[q][j]]] = threads[q][j] BY <1>4, <3>1, <3>2, <3>3
    <3>5. ASSUME NEW l \in Tids, threads'[q][l] = threads'[q][j] PROVE l = j
      <4>1. ~(q = ProcOf[n] /\ l = i) BY <3>1, <3>3, <3>5
      <4>2. threads[q][l] = threads[q][j] BY <1>4, <3>1, <3>5, <4>1
      <4> QED BY <1>4, <3>1, <4>2 DEF TablesAgree
    <3> QED BY <1>0, <1>4, <3>1, <3>2, <3>3, <3>4, <3>5
  <2> QED BY <2>1, <2>2
<1> QED BY <1>3, <1>4 DEF TablesAgree

(* Second critical section of task_tcreate: x is what both entries become,
   EMPTY on failure and the new thread on success.                           *)
LEMMA TableEndCreate ==
    ASSUME TypeInv, TableInv, NEW t \in Threads, TcreateFail(t) \/ TcreatePublish(t)
    PROVE  TableInv'
<1> DEFINE n == creating[t].new
           i == creating[t].tid
           s == creating[t].task
           p == ProcOf[n]
           x == task_table'[s]
<1> USE SchedulerAssumption DEF TableInv, FlightInv, tableVars, cpuVars, killVars
<1>1. pc[t] = "create" BY DEF TcreateFail, TcreatePublish
<1>2. n \in Threads /\ i \in Tids /\ s \in Slots /\ p \in Procs BY <1>1, CreateJobTyped
<1>3. task_table[s] = PLACEHOLDER /\ threads[p][i] = PLACEHOLDER /\ pc[n] = "new"
      BY <1>1 DEF CreatorsOwn
<1>4. /\ pc \in [Threads -> PcValues] /\ task_table \in [Slots -> Entry]
      /\ creating \in [Threads -> CreateJobs \cup {NoJob}]
      BY DEF TypeInv, TypeOK
<1>5. \/ TcreateFail(t) /\ x = EMPTY
      \/ TcreatePublish(t) /\ x = n
      BY <1>2, <1>4 DEF TcreateFail, TcreatePublish
<1>6. \A r \in Slots : task_table'[r] = IF r = s THEN x ELSE task_table[r]
      BY <1>2, <1>4 DEF TcreateFail, TcreatePublish
<1>7. \A q \in Procs, j \in Tids :
         threads'[q][j] = IF q = p /\ j = i THEN x ELSE threads[q][j]
  <2>1. x \in Entry /\ threads \in [Procs -> [Tids -> Entry]]
        BY <1>2, <1>5 DEF Entry, TypeInv, TypeOK
  <2>2. threads' = [threads EXCEPT ![p][i] = x]
        BY <1>5 DEF TcreateFail, TcreatePublish
  <2> HIDE DEF p, i, x
  <2> QED BY <1>2, <2>1, <2>2, SetThreadEntry
<1>8. PICK y \in {"none", "sys", "user"} :
         /\ \A u \in Threads : pc'[u] = IF u = n THEN y ELSE IF u = t THEN "sys" ELSE pc[u]
         /\ y = "none" <=> x = EMPTY
         /\ y = "sys" => ProcOf[n] = 0
  <2>1. CASE TcreateFail(t)
    BY <2>1, <1>1, <1>2, <1>3, <1>4, <1>5 DEF TcreateFail
  <2>2. CASE TcreatePublish(t)
    BY <2>2, <1>1, <1>2, <1>3, <1>4, <1>5 DEF TcreatePublish, IsKernel
  <2> QED BY <2>1, <2>2
<1>9. \A u \in Threads : u # t => creating'[u] = creating[u]
      BY <1>4 DEF TcreateFail, TcreatePublish
<1>10. UNCHANGED <<killing, holder>> BY DEF TcreateFail, TcreatePublish, FreshThread
<1>11. in_syscall' = in_syscall
  <2>1. n \notin in_syscall BY <1>2, <1>3 DEF UnusedOutside
  <2>2. CASE TcreateFail(t) BY <2>2 DEF TcreateFail
  <2>3. CASE TcreatePublish(t)
    <3>1. FreshThread(n, s) BY <2>3 DEF TcreatePublish
    <3> HIDE DEF n, s
    <3> QED BY <2>1, <3>1 DEF FreshThread
  <2> QED BY <2>2, <2>3
<1>12. x = EMPTY \/ x = n BY <1>5
<1>13. \A u \in Threads : pc[u] = "create" => 
          creating[u].new \in Threads /\ creating[u].task \in Slots
          /\ creating[u].tid \in Tids /\ ProcOf[creating[u].new] \in Procs
      BY CreateJobTyped
<1>14. \A u \in Threads : pc'[u] = "create" =>
          /\ u # t /\ u # n /\ pc[u] = "create" /\ creating'[u] = creating[u]
          /\ creating[u].task # s /\ creating[u].new # n
          /\ ~(ProcOf[creating[u].new] = p /\ creating[u].tid = i)
      BY <1>1, <1>8, <1>9 DEF CreatorsApart
<1>15. p = ProcOf[n] OBVIOUS
<1>16. TableLive'
  <2>1. \A r \in Slots : task_table[r] # n BY <1>2, <1>3 DEF TableLive
  <2> QED BY <1>2, <1>6, <1>8, <1>12, <2>1 DEF TableLive
<1>17. CreatorsOwn'
  <2> SUFFICES ASSUME NEW u \in Threads, pc'[u] = "create"
               PROVE  /\ task_table'[creating[u].task] = task_table[creating[u].task]
                      /\ threads'[ProcOf[creating[u].new]][creating[u].tid]
                            = threads[ProcOf[creating[u].new]][creating[u].tid]
                      /\ \A w \in Threads : w = creating[u].new => pc'[w] = pc[w]
      BY <1>14, CreatorKept DEF CreatorsOwn
  <2>1. pc[creating[u].new] = "new" BY <1>14 DEF CreatorsOwn
  <2>2. creating[u].new # t /\ creating[u].new # n BY <1>1, <1>14, <2>1
  <2> HIDE DEF p, i, x, n, s
  <2> QED BY <1>6, <1>7, <1>8, <1>13, <1>14, <2>2
<1> HIDE DEF n, i, s, p, x
<1>18. CreatorsApart' BY <1>14 DEF CreatorsApart
<1>19. ReservedOwned'
  <2>1. \A u \in Threads : pc[u] = "create" /\ u # t => pc'[u] = "create" /\ creating'[u] = creating[u]
        BY <1>3, <1>8, <1>9
  <2>2. \A r \in Slots : task_table'[r] = PLACEHOLDER => task_table[r] = PLACEHOLDER /\ r # s
        BY <1>2, <1>6, <1>12
  <2>3. \A q \in Procs, j \in Tids : threads'[q][j] = PLACEHOLDER =>
           threads[q][j] = PLACEHOLDER /\ ~(q = p /\ j = i)
        BY <1>2, <1>7, <1>12
  <2>4. \A r \in Slots : task_table'[r] = PLACEHOLDER =>
           \E u \in Threads : pc'[u] = "create" /\ creating'[u].task = r
        BY <2>1, <2>2 DEF ReservedOwned, s
  <2>5. \A q \in Procs, j \in Tids : threads'[q][j] = PLACEHOLDER =>
           \E u \in Threads : /\ pc'[u] = "create" /\ creating'[u].tid = j
                              /\ ProcOf[creating'[u].new] = q
        BY <2>1, <2>3 DEF ReservedOwned, i, p, n
  <2> QED BY <2>4, <2>5 DEF ReservedOwned
<1>20. KillersSound'
  <2>1. \A u \in Threads : pc'[u] \in KillPcs => pc[u] \in KillPcs BY <1>8 DEF KillPcs
  <2>2. \A q \in Procs, j \in Tids : threads[q][j] \in Threads =>
           threads'[q][j] = threads[q][j]
        BY <1>3, <1>7
  <2> QED BY <1>10, <2>1, <2>2, KillersKept
<1>21. HolderKills' BY <1>1, <1>3, <1>8, <1>10 DEF HolderKills
<1>22. VictimOutside' BY <1>1, <1>3, <1>8, <1>10, <1>11 DEF VictimOutside
<1>23. UnusedOutside' BY <1>2, <1>3, <1>8, <1>11 DEF UnusedOutside
<1>24. SyscallMarked' BY <1>1, <1>3, <1>8, <1>11 DEF SyscallMarked, KillPcs
<1>25. TableDense' BY <1>2, <1>3, <1>6, <1>12 DEF TableDense, Slots
<1>26. TaskCountExact'
  <2>1. CASE TcreateFail(t)
    <3>1. Cardinality(Used(task_table')) = Cardinality(Used(task_table))
      <4>1. task_table[s] \notin Threads /\ task_table'[s] \notin Threads
            BY <2>1, <1>2, <1>3, <1>4, <1>6 DEF TcreateFail, s
      <4> QED BY <1>2, <1>6, <4>1, CountUsed
    <3> QED BY <2>1, <3>1 DEF TcreateFail, TaskCountExact, Used
  <2>2. CASE TcreatePublish(t)
    <3>1. Cardinality(Used(task_table')) = Cardinality(Used(task_table)) + 1
      <4>1. task_table[s] \notin Threads /\ task_table'[s] \in Threads
            BY <2>2, <1>2, <1>3, <1>4, <1>6 DEF TcreatePublish, s, n
      <4> QED BY <1>2, <1>6, <4>1, CountUsed
    <3> QED BY <2>2, <3>1 DEF TcreatePublish, TaskCountExact, Used
  <2> QED BY <2>1, <2>2
<1>27. TablesAgree'
  <2>1. CASE TcreateFail(t)
    <3>1. task_id' = task_id /\ x \notin Threads
          BY <2>1, <1>2, <1>4 DEF TcreateFail, x, s
    <3>2. \A r \in Slots : task_table[r] \in Threads \/ task_table'[r] \in Threads =>
             task_table'[r] = task_table[r]
          BY <1>3, <1>6, <3>1
    <3>3. \A q \in Procs, j \in Tids :
             threads[q][j] \in Threads \/ threads'[q][j] \in Threads =>
             threads'[q][j] = threads[q][j]
          BY <1>3, <1>7, <3>1
    <3> QED BY <3>1, <3>2, <3>3, AgreeKept
  <2>2. CASE TcreatePublish(t)
    <3>1. task_id' = [task_id EXCEPT ![n] = s] /\ x = n
          BY <2>2, <1>2, <1>4 DEF TcreatePublish, FreshThread, FreshTaskId, x, s, n
    <3>2. task_table'[s] = n /\ threads'[ProcOf[n]][i] = n
          BY <1>2, <1>6, <1>7, <1>15, <3>1
    <3>3. task_table[s] \notin Threads /\ threads[ProcOf[n]][i] \notin Threads
          BY <1>3, <1>15
    <3>4. \A q \in Procs, j \in Tids : ~(q = ProcOf[n] /\ j = i) /\
             (threads[q][j] \in Threads \/ threads'[q][j] \in Threads)
             => threads'[q][j] = threads[q][j]
          BY <1>7, <1>15
    <3>5. \A r \in Slots : r # s /\ (task_table[r] \in Threads \/ task_table'[r] \in Threads)
             => task_table'[r] = task_table[r]
          BY <1>6
    <3>6. Enters(n, i, s) BY <1>3, <3>1, <3>2, <3>3, <3>4, <3>5 DEF Enters
    <3> QED BY <1>2, <3>6, AgreeEnter
  <2> QED BY <2>1, <2>2
<1> QED BY <1>16, <1>17, <1>18, <1>19, <1>20, <1>21, <1>22, <1>23, <1>24, <1>25, <1>26, <1>27

(* syscall_fork enters its child in both tables at once, over a thread table
   without threads or reservations.                                          *)
LEMMA TableFork ==
    ASSUME TypeInv, TableInv, NEW t \in Threads, NEW n \in Threads, NEW s \in Slots,
           syscall_fork(t, n, s)
    PROVE  TableInv'
<1> DEFINE p == ProcOf[n]
<1> USE SchedulerAssumption DEF TableInv, FlightInv, tableVars, cpuVars, killVars
<1>1. p \in Procs /\ 0 \in Tids BY DEF Tids
<1>2. /\ pc \in [Threads -> PcValues] /\ task_table \in [Slots -> Entry]
      /\ threads \in [Procs -> [Tids -> Entry]]
      BY DEF TypeInv, TypeOK
<1>3. pc[n] = "none" /\ n \notin in_syscall /\ ProcOf[n] # 0
      BY DEF syscall_fork, UnusedOutside, IsKernel
<1>4. FreshThread(n, s) BY DEF syscall_fork
<1>5. \A u \in Threads : pc'[u] = IF u = n THEN "user" ELSE pc[u]
      BY <1>2 DEF syscall_fork
<1>6. UNCHANGED <<creating, killing, holder>> BY DEF syscall_fork
<1>7. in_syscall' = in_syscall
      BY <1>3, <1>4 DEF FreshThread
<1>8. \A j \in Tids : threads[p][j] \in {NULL, EMPTY} BY DEF syscall_fork, IsFree
<1>9. /\ task_table[s] \in {NULL, EMPTY}
      /\ \A r \in Slots : r < s => task_table[r] \notin {NULL, EMPTY}
      BY <1>2 DEF syscall_fork, FirstFree, IsFree
<1>10. \A r \in Slots : task_table'[r] = IF r = s THEN n ELSE task_table[r]
      BY <1>2 DEF syscall_fork
<1>11. \A q \in Procs, j \in Tids :
          threads'[q][j] = IF q # p THEN threads[q][j] ELSE IF j = 0 THEN n ELSE NULL
      BY <1>1, <1>2 DEF syscall_fork
<1>12. \A u \in Threads : pc[u] = "create" =>
          creating[u].new \in Threads /\ creating[u].task \in Slots
          /\ creating[u].tid \in Tids /\ ProcOf[creating[u].new] \in Procs
      BY CreateJobTyped
<1>13. p = ProcOf[n] OBVIOUS
<1> HIDE DEF p
<1>14. \A q \in Procs, j \in Tids : threads[q][j] \notin {NULL, EMPTY} =>
          threads'[q][j] = threads[q][j]
      BY <1>8, <1>11
<1>15. TableLive' BY <1>3, <1>5, <1>10 DEF TableLive
<1>16. CreatorsOwn'
  <2> SUFFICES ASSUME NEW u \in Threads, pc[u] = "create"
               PROVE  /\ task_table'[creating[u].task] = task_table[creating[u].task]
                      /\ threads'[ProcOf[creating[u].new]][creating[u].tid]
                            = threads[ProcOf[creating[u].new]][creating[u].tid]
                      /\ \A w \in Threads : w = creating[u].new => pc'[w] = pc[w]
      BY <1>5, <1>6, CreatorKept DEF CreatorsOwn
  <2>1. /\ task_table[creating[u].task] = PLACEHOLDER
        /\ threads[ProcOf[creating[u].new]][creating[u].tid] = PLACEHOLDER
        /\ pc[creating[u].new] = "new"
        BY DEF CreatorsOwn
  <2>2. task_table'[creating[u].task] = task_table[creating[u].task]
        BY <1>9, <1>10, <1>12, <2>1
  <2>3. threads'[ProcOf[creating[u].new]][creating[u].tid]
           = threads[ProcOf[creating[u].new]][creating[u].tid]
        BY <1>12, <1>14, <2>1
  <2>4. creating[u].new # n BY <1>3, <2>1
  <2> QED BY <1>5, <2>2, <2>3, <2>4
<1>17. CreatorsApart' BY <1>5, <1>6 DEF CreatorsApart
<1>18. ReservedOwned'
  <2>1. \A u \in Threads : pc[u] = "create" => pc'[u] = "create" BY <1>3, <1>5
  <2>2. \A r \in Slots : task_table'[r] = PLACEHOLDER => task_table[r] = PLACEHOLDER
        BY <1>10
  <2>3. \A q \in Procs, j \in Tids :
           threads'[q][j] = PLACEHOLDER => threads[q][j] = PLACEHOLDER
        BY <1>11
  <2>4. ReservedOwned BY DEF FlightInv
  <2>5. creating' = creating BY <1>6
  <2> HIDE DEF TableInv, FlightInv
  <2>6. ASSUME NEW r \in Slots, task_table'[r] = PLACEHOLDER
        PROVE  \E u \in Threads : pc'[u] = "create" /\ creating'[u].task = r
    <3>1. PICK u \in Threads : pc[u] = "create" /\ creating[u].task = r
          BY <2>2, <2>4, <2>6 DEF ReservedOwned
    <3> QED BY <2>1, <2>5, <3>1
  <2>7. ASSUME NEW q \in Procs, NEW j \in Tids, threads'[q][j] = PLACEHOLDER
        PROVE  \E u \in Threads : /\ pc'[u] = "create" /\ creating'[u].tid = j
                                  /\ ProcOf[creating'[u].new] = q
    <3>1. PICK u \in Threads : /\ pc[u] = "create" /\ creating[u].tid = j
                               /\ ProcOf[creating[u].new] = q
          BY <2>3, <2>4, <2>7 DEF ReservedOwned
    <3> QED BY <2>1, <2>5, <3>1
  <2> QED BY <2>6, <2>7 DEF ReservedOwned
<1>19. KillersSound'
  <2>1. \A u \in Threads : pc'[u] \in KillPcs => pc[u] \in KillPcs BY <1>5 DEF KillPcs
  <2>2. \A q \in Procs, j \in Tids : threads[q][j] \in Threads =>
           threads'[q][j] = threads[q][j]
        BY <1>14
  <2> QED BY <1>6, <2>1, <2>2, KillersKept
<1>20. HolderKills' BY <1>3, <1>5, <1>6 DEF HolderKills
<1>21. VictimOutside' BY <1>5, <1>6, <1>7 DEF VictimOutside
<1>22. UnusedOutside' BY <1>5, <1>7 DEF UnusedOutside
<1>23. SyscallMarked' BY <1>5, <1>7 DEF SyscallMarked, KillPcs
<1>24. TableDense' BY <1>9, <1>10 DEF TableDense, Slots
<1>25. TaskCountExact'
  <2>1. Cardinality(Used(task_table')) = Cardinality(Used(task_table)) + 1
        BY <1>9, <1>10, CountUsed
  <2>2. task_count' = task_count + 1 BY DEF syscall_fork
  <2> QED BY <2>1, <2>2 DEF TaskCountExact, Used
<1>26. TablesAgree'
  <2>1. Enters(n, 0, s)
    <3>1. task_id' = [task_id EXCEPT ![n] = s] BY <1>4 DEF FreshThread, FreshTaskId
    <3>2. task_table'[s] = n /\ threads'[ProcOf[n]][0] = n BY <1>1, <1>10, <1>11, <1>13
    <3>3. task_table[s] \notin Threads /\ threads[ProcOf[n]][0] \notin Threads
          BY <1>1, <1>8, <1>9, <1>13
    <3>4. \A q \in Procs, j \in Tids : ~(q = ProcOf[n] /\ j = 0) /\
             (threads[q][j] \in Threads \/ threads'[q][j] \in Threads)
             => threads'[q][j] = threads[q][j]
          BY <1>8, <1>11, <1>13
    <3> QED BY <1>3, <1>10, <3>1, <3>2, <3>3, <3>4 DEF Enters
  <2> QED BY <1>1, <2>1, AgreeEnter
<1> QED BY <1>15, <1>16, <1>17, <1>18, <1>19, <1>20, <1>21, <1>22, <1>23, <1>24, <1>25, <1>26

(* TableInv is inductive relative to TypeInv.                                *)
LEMMA TableStep ==
    ASSUME ~Migrates
    PROVE  TypeInv /\ TableInv /\ [Next]_vars => TableInv'
<1> SUFFICES ASSUME TypeInv, TableInv, [Next]_vars PROVE TableInv' OBVIOUS
<1>1. ASSUME NEW t \in Threads, ThreadStep(t) \/ SleepOver(t) PROVE TableInv'
  BY <1>1, TableThreadSteps, TableReserve, TableEndCreate, TableFork, TableKillMoves,
     TableKillFinish DEF ThreadStep
<1>2. ASSUME NEW c \in Cpus, task_resched(c) \/ ScanPastEnd(c) \/ ipi_abortexec(c)
      PROVE  TableInv'
  <2>1. UNCHANGED <<tableVars, pc, creating, killing, holder, in_syscall>>
        BY <1>2 DEF task_resched, Dispatch, GoIdle, ReschedFault, ScanPastEnd,
                    ipi_abortexec, killVars
  <2> QED BY <2>1, TableFrame
<1>3. CASE \E e \in Events : event_trigger(e)
  BY <1>3, TableFrame DEF event_trigger, killVars
<1>4. CASE UNCHANGED vars
  BY <1>4, TableFrame DEF vars, tableVars
<1> QED BY <1>1, <1>2, <1>3, <1>4 DEF Next

(* What TableInv says of the properties of Scheduler.                        *)
LEMMA TableInvImplies ==
    TypeInv /\ TableInv =>
        TaskCountExact /\ TableDense /\ TablesAgree /\ PlaceholdersOwned /\ VictimStays
<1> SUFFICES ASSUME TypeInv, TableInv PROVE PlaceholdersOwned /\ VictimStays
    BY DEF TableInv
<1>1. PlaceholdersOwned
  BY DEF TableInv, FlightInv, PlaceholdersOwned, ReservedOwned, CreatorsOwn, CreatorsApart
<1>2. VictimStays BY DEF TableInv, FlightInv, VictimStays, KillersSound, KillPcs
<1> QED BY <1>1, <1>2

(* The scheduler's tables stay consistent for any number of CPUs, threads,
   processes and slots: task_count is exact, NULL entries come last, both
   tables list the same threads once, reservations have one owner, and the
   victim of a task_tkill stays in its entry until it is removed.            *)
THEOREM TablesCorrect ==
    ASSUME ~Migrates
    PROVE  Spec => [](TaskCountExact /\ TableDense /\ TablesAgree /\ PlaceholdersOwned /\ VictimStays)
<1>1. Init => TypeInv /\ TableInv BY TypeInit, TableInit
<1>2. TypeInv /\ TableInv /\ [Next]_vars => (TypeInv /\ TableInv)'
      BY TypeStep, TableStep
<1>3. TypeInv /\ TableInv =>
         TaskCountExact /\ TableDense /\ TablesAgree /\ PlaceholdersOwned /\ VictimStays
      BY TableInvImplies
<1> QED BY <1>1, <1>2, <1>3, PTL DEF Spec

(* task_tkill frees no thread inside a syscall: in_syscall was read before
   the acknowledgement was awaited, but scheduler_lock stays held since.     *)
THEOREM KillSparesSyscalls ==
    ASSUME ~Migrates
    PROVE  Spec => NeverFreedInSyscall
<1>1. Init => TypeInv /\ TableInv BY TypeInit, TableInit
<1>2. TypeInv /\ TableInv /\ [Next]_vars => (TypeInv /\ TableInv)'
      BY TypeStep, TableStep
<1>3. ASSUME TypeInv, TableInv, [Next]_vars
      PROVE  [\A t \in Threads : pc[t] # "none" /\ pc'[t] = "none" => t \notin in_syscall]_vars
  <2>1. SUFFICES ASSUME Next, NEW t \in Threads, pc[t] # "none", pc'[t] = "none"
                 PROVE  t \notin in_syscall
        BY <1>3
  <2>2. pc \in [Threads -> PcValues] BY <1>3 DEF TypeInv, TypeOK
  <2>3. ASSUME NEW u \in Threads, KillFinish(u) PROVE t \notin in_syscall
    <3> DEFINE v == threads[killing[u].pid][killing[u].tid]
    <3>1. v \in Threads /\ v \notin in_syscall BY <1>3, <2>3, VictimRemovable
    <3>2. pc' = [[pc EXCEPT ![u] = "sys"] EXCEPT ![v] = "none"] BY <2>3 DEF KillFinish
    <3> HIDE DEF v
    <3>3. t = v BY <2>1, <2>2, <3>1, <3>2
    <3> QED BY <3>1, <3>3
  <2>4. ASSUME NEW u \in Threads, TcreateFail(u) PROVE t \notin in_syscall
    <3>1. creating[u].new \in Threads /\ pc[creating[u].new] = "new"
          BY <1>3, <2>4, CreateJobTyped DEF TcreateFail, TableInv, FlightInv, CreatorsOwn
    <3>2. t = creating[u].new BY <2>1, <2>2, <2>4, <3>1 DEF TcreateFail
    <3> QED BY <1>3, <3>1, <3>2 DEF TableInv, FlightInv, UnusedOutside
  <2>5. ASSUME NEW u \in Threads, TcreatePublish(u) PROVE FALSE
    <3>1. creating[u].new \in Threads BY <1>3, <2>5, CreateJobTyped DEF TcreatePublish
    <3> QED BY <2>1, <2>2, <2>5, <3>1 DEF TcreatePublish
  <2>6. ASSUME NEW u \in Threads, ThreadStep(u) \/ SleepOver(u), ~KillFinish(u),
               ~TcreateFail(u), ~TcreatePublish(u)
        PROVE  FALSE
    BY <2>1, <2>2, <2>6
       DEF ThreadStep, SleepOver, AwaitSeen, AwaitBlock, ExecveAborted, AwaitTake,
           AwaitNull, AwaitYield, Awoken, relaxed_sleep, enter_syscall, EnterAborted,
           leave_syscall, LeaveDone, syscall_exit, ExitNull, TcreateNoSlot, TcreateReserve, syscall_fork, KillBegin, KillWait,
           KillRetry, KillSendIpi, force_resched
  <2>7. ASSUME NEW c \in Cpus, task_resched(c) \/ ScanPastEnd(c) \/ ipi_abortexec(c)
        PROVE  FALSE
    BY <2>1, <2>7 DEF task_resched, Dispatch, GoIdle, ReschedFault, ScanPastEnd, ipi_abortexec
  <2>8. ASSUME NEW e \in Events, event_trigger(e) PROVE FALSE
    BY <2>1, <2>8 DEF event_trigger
  <2> QED BY <2>1, <2>3, <2>4, <2>5, <2>6, <2>7, <2>8 DEF Next
<1> QED BY <1>1, <1>2, <1>3, PTL DEF Spec, NeverFreedInSyscall

-----------------------------------------------------------------------------
(***************************************************************************)
(* Events.  A thread that waits is not also about to decrement.             *)
(***************************************************************************)

(* The threads that execute no code of their own.                            *)
Off == {t \in Threads : ~Executing(t)}

(* event_ptr and an await under way name an event the thread awaits; a thread
   that names an event and is not being aborted is on its way to yield(), or
   past it and not yet dispatched.                                           *)
AwaitsSound ==
    \A t \in Threads :
        /\ event_ptr[t] # NoEvent => t \in Waiters[event_ptr[t]]
        /\ pc[t] = "take" => t \in Waiters[taking[t]]
        /\ event_ptr[t] # NoEvent /\ t \notin event_abrt =>
              pc[t] = "yield" \/ (pc[t] = "awoken" /\ t \in Off)

(* The victim of a task_tkill under way is marked.                           *)
VictimsAborted == \A k \in Threads : pc[k] \in KillPcs => killing[k].thread \in event_abrt

(* Only one thread awaits event e.                                           *)
Sole(e) == \A t, u \in Waiters[e] : t = u

(* The token that event_await has seen is still there when it takes it.      *)
TokensSound ==
    /\ NoPhantomToken
    /\ \A t \in Threads : pc[t] = "take" /\ Sole(taking[t]) => event[taking[t]] > 0

TokenInv == AwaitsSound /\ VictimsAborted /\ TokensSound

(* The initial state.                                                        *)
LEMMA TokenInit == Init => TokenInv
<1> SUFFICES ASSUME Init PROVE TokenInv OBVIOUS
<1>1. AwaitsSound BY DEF Init, AwaitsSound
<1>2. VictimsAborted BY DEF Init, VictimsAborted, KillPcs
<1>3. TokensSound BY DEF Init, TokensSound, NoPhantomToken
<1> QED BY <1>1, <1>2, <1>3 DEF TokenInv

(* No CPU starts a thread in a step that leaves the CPUs alone.              *)
LEMMA OffKept ==
    ASSUME UNCHANGED <<task_table, current_task, active_on_cpu>>, forced \subseteq forced',
           panicked => panicked'
    PROVE  Off \subseteq Off'
  BY DEF Off, Executing, Runs

(* A switch starts the thread it picks and no other.                         *)
LEMMA OffDispatch ==
    ASSUME TypeInv, NEW c \in Cpus, NEW s \in Slots, Dispatch(c, s)
    PROVE  Off \ {task_table[s]} \subseteq Off'
<1> SUFFICES ASSUME NEW u \in Off, u # task_table[s], Executing(u)' PROVE FALSE
    BY DEF Off
<1>0. NoCpu \notin Cpus /\ u \in Threads BY SchedulerAssumption DEF NoCpu, Off
<1>1. PICK d \in Cpus : Runs(d, u)' BY DEF Executing
<1>2. current_task' = [current_task EXCEPT ![c] = s] /\ UNCHANGED <<task_table, panicked>>
      /\ active_on_cpu'[u] = Deactivate(c, u) /\ forced' = forced \ Outgoing(c)
      BY <1>0 DEF Dispatch, tableVars
<1>3. u \notin Outgoing(c) /\ active_on_cpu[u] = d BY <1>0, <1>1, <1>2 DEF Runs, Deactivate
<1>4. d # c /\ current_task'[d] = current_task[d] BY <1>1, <1>2 DEF Runs, TypeInv, TypeOK
<1>5. Runs(d, u) BY <1>1, <1>2, <1>3, <1>4 DEF Runs
<1>6. u \notin forced /\ ~panicked BY <1>2, <1>3 DEF Executing
<1> QED BY <1>5, <1>6 DEF Off, Executing

(* Neither does a CPU that goes idle start any, or one that is interrupted.  *)
LEMMA OffIdle ==
    ASSUME TypeInv, NEW c \in Cpus, GoIdle(c) \/ ipi_abortexec(c)
    PROVE  Off \subseteq Off'
<1> SUFFICES ASSUME NEW u \in Off, Executing(u)' PROVE FALSE
    BY DEF Off
<1>0. NoCpu \notin Cpus /\ u \in Threads BY SchedulerAssumption DEF NoCpu, Off
<1>1. PICK d \in Cpus : Runs(d, u)' BY DEF Executing
<1>2. /\ current_task' = [current_task EXCEPT ![c] = NoTask] /\ UNCHANGED <<task_table, panicked>>
      /\ \/ active_on_cpu'[u] = Deactivate(c, u) /\ forced' = forced \ Outgoing(c)
         \/ UNCHANGED <<active_on_cpu, forced>>
      BY <1>0 DEF GoIdle, ipi_abortexec, tableVars
<1>3. active_on_cpu[u] = d /\ (u \in forced => u \in forced')
      BY <1>0, <1>1, <1>2 DEF Runs, Deactivate
<1>4. d # c /\ current_task'[d] = current_task[d] BY <1>1, <1>2 DEF Runs, TypeInv, TypeOK
<1>5. Runs(d, u) BY <1>1, <1>2, <1>3, <1>4 DEF Runs
<1> QED BY <1>2, <1>3, <1>5 DEF Off, Executing

(* A thread dispatched while it awaits takes its token; the switch of another
   keeps the tokens.                                                         *)
LEMMA TokenCpuSteps ==
    ASSUME TypeInv, TokenInv, NEW c \in Cpus,
           task_resched(c) \/ ScanPastEnd(c) \/ ipi_abortexec(c)
    PROVE  TokenInv'
<1> USE DEF TokenInv
<1>1. ASSUME NEW s \in Slots, Dispatch(c, s) PROVE TokenInv'
  <2> DEFINE t == task_table[s]
             takes == event_ptr[t] # NoEvent /\ t \notin event_abrt
  <2>0. t \in Threads /\ ~Blocked(t) BY <1>1 DEF Dispatch, task_get_next, Eligible
  <2>1. /\ UNCHANGED <<pc, taking, event_abrt, killing>>
        /\ event' = IF takes THEN [event EXCEPT ![event_ptr[t]] = @ - 1] ELSE event
        /\ event_ptr' = IF takes THEN [event_ptr EXCEPT ![t] = NoEvent] ELSE event_ptr
        BY <1>1 DEF Dispatch, killVars
  <2>2. Off \ {t} \subseteq Off' BY <1>1, OffDispatch
  <2> HIDE DEF t
  <2>3. AwaitsSound' BY <2>0, <2>1, <2>2 DEF AwaitsSound, TypeInv, TypeOK
  <2>4. VictimsAborted' BY <2>1 DEF VictimsAborted
  <2>5. CASE ~takes BY <2>1, <2>3, <2>4, <2>5 DEF TokensSound, NoPhantomToken
  <2>6. CASE takes
    <3> DEFINE e == event_ptr[t]
    <3>1. e \in Events /\ t \in Waiters[e] /\ event[e] # 0 /\ pc[t] # "take"
          BY <2>0, <2>6 DEF AwaitsSound, Blocked, TypeInv, TypeOK
    <3>2. \A x \in Events : event'[x] = IF x = e THEN event[x] - 1 ELSE event[x]
          BY <2>1, <2>6 DEF TypeInv, TypeOK
    <3>3. \A x \in Events : event[x] \in Int BY DEF TypeInv, TypeOK
    <3> HIDE DEF e
    <3>4. NoPhantomToken' BY <3>1, <3>2, <3>3 DEF TokensSound, NoPhantomToken
    <3>5. ASSUME NEW u \in Threads, pc'[u] = "take", Sole(taking'[u])
          PROVE  event'[taking'[u]] > 0
      <4>1. pc[u] = "take" /\ taking[u] \in Events /\ u \in Waiters[taking[u]] /\ u # t
            BY <2>1, <3>1, <3>5 DEF AwaitsSound, TypeInv, JobsTyped
      <4>2. taking[u] # e BY <2>1, <3>1, <3>5, <4>1 DEF Sole
      <4> QED BY <2>1, <3>2, <3>5, <4>1, <4>2 DEF TokensSound
    <3> QED BY <2>3, <2>4, <3>4, <3>5 DEF TokensSound
  <2> QED BY <2>5, <2>6
<1>2. ASSUME UNCHANGED <<pc, taking, event_abrt, killing, event, event_ptr>>,
             Off \subseteq Off'
      PROVE  TokenInv'
      BY <1>2 DEF AwaitsSound, VictimsAborted, TokensSound, NoPhantomToken
<1>3. CASE GoIdle(c) \/ ipi_abortexec(c)
      BY <1>2, <1>3, OffIdle DEF GoIdle, ipi_abortexec, killVars
<1>4. CASE ReschedFault(c) \/ ScanPastEnd(c)
  <2>1. Off \subseteq Off' BY <1>4, OffKept DEF ReschedFault, ScanPastEnd, tableVars, cpuVars
  <2> QED BY <1>2, <1>4, <2>1 DEF ReschedFault, ScanPastEnd, killVars
<1> QED BY <1>1, <1>3, <1>4 DEF task_resched

(* A thread that goes on neither awaits nor takes, unless its await does so. *)
LEMMA TokenLocal ==
    ASSUME TypeInv, TokenInv, NEW t \in Threads, NEW x,
           Executing(t), pc' = [pc EXCEPT ![t] = x], pc[t] # "yield",
           x \notin {"take"} \cup KillPcs,
           Off \subseteq Off',
           UNCHANGED <<taking, killing, event_ptr, event_abrt, event>>
    PROVE  TokenInv'
<1> USE DEF TokenInv
<1>1. \A u \in Threads : pc'[u] = IF u = t THEN x ELSE pc[u] BY DEF TypeInv, TypeOK
<1>2. t \notin Off BY DEF Off
<1>3. AwaitsSound' BY <1>1, <1>2 DEF AwaitsSound
<1>4. VictimsAborted' BY <1>1 DEF VictimsAborted
<1>5. TokensSound' BY <1>1 DEF TokensSound, NoPhantomToken
<1> QED BY <1>3, <1>4, <1>5

(* event_await: what it reads is there when it takes it, and what it
   publishes is taken by the dispatch or by itself, never by both.           *)
LEMMA TokenAwaits ==
    ASSUME ~Migrates, TypeInv, TokenInv, NEW t \in Threads,
           \/ \E e \in Events : AwaitSeen(t, e) \/ AwaitNull(t, e)
           \/ \E e \in Events, u \in Threads : AwaitBlock(t, e, u) \/ ExecveAborted(t, e, u)
           \/ AwaitTake(t) \/ AwaitYield(t)
    PROVE  TokenInv'
<1> USE DEF TokenInv
<1>0. \A e \in Events : event[e] \in Int BY DEF TypeInv, TypeOK
<1>1. ASSUME NEW e \in Events, AwaitSeen(t, e) PROVE TokenInv'
  <2>1. /\ Off \subseteq Off' /\ t \notin Off
        /\ UNCHANGED <<killing, event_ptr, event_abrt, event>>
        /\ pc[t] = "sys" /\ t \in Waiters[e] /\ event[e] # 0
        BY <1>1, OffKept DEF AwaitSeen, tableVars, cpuVars, killVars, Off
  <2>2. /\ \A u \in Threads : pc'[u] = IF u = t THEN "take" ELSE pc[u]
        /\ \A u \in Threads : taking'[u] = IF u = t THEN e ELSE taking[u]
        BY <1>1 DEF AwaitSeen, TypeInv, TypeOK
  <2>3. AwaitsSound' BY <2>1, <2>2 DEF AwaitsSound
  <2>4. VictimsAborted' BY <2>1, <2>2 DEF VictimsAborted, KillPcs
  <2>5. TokensSound' BY <1>0, <2>1, <2>2 DEF TokensSound, NoPhantomToken, Sole
  <2> QED BY <2>3, <2>4, <2>5
<1>2. CASE \E e \in Events : AwaitNull(t, e) BY <1>2 DEF AwaitNull, MeNull
<1>3. ASSUME NEW e \in Events, NEW u \in Threads, AwaitBlock(t, e, u) PROVE TokenInv'
  <2>1. /\ Off \subseteq Off' /\ u = t
        /\ UNCHANGED <<killing, taking, event_abrt, event>>
        /\ pc[t] = "sys" /\ t \in Waiters[e]
        BY <1>3, OffKept DEF AwaitBlock, Me, tableVars, cpuVars, killVars
  <2>2. /\ \A v \in Threads : pc'[v] = IF v = t THEN "yield" ELSE pc[v]
        /\ \A v \in Threads : event_ptr'[v] = IF v = t THEN e ELSE event_ptr[v]
        BY <1>3, <2>1 DEF AwaitBlock, TypeInv, TypeOK
  <2>3. AwaitsSound' BY <2>1, <2>2 DEF AwaitsSound
  <2>4. VictimsAborted' BY <2>1, <2>2 DEF VictimsAborted, KillPcs
  <2>5. TokensSound' BY <2>1, <2>2 DEF TokensSound, NoPhantomToken
  <2> QED BY <2>3, <2>4, <2>5
<1>4. ASSUME NEW e \in Events, NEW u \in Threads, ExecveAborted(t, e, u) PROVE TokenInv'
  <2>1. /\ Off \subseteq Off' /\ u = t /\ t \notin Off
        /\ UNCHANGED <<killing, taking, event_abrt>>
        /\ pc[t] = "awoken" /\ t \in Waiters[e]
        BY <1>4, OffKept DEF ExecveAborted, Me, tableVars, cpuVars, killVars, Off
  <2>2. PICK x \in {"yield", "bail"} : pc' = [pc EXCEPT ![t] = x]
        BY <1>4 DEF ExecveAborted
  <2>3. \A v \in Threads : pc'[v] = IF v = t THEN x ELSE pc[v]
        BY <2>2 DEF TypeInv, TypeOK
  <2>4. CASE event_ptr' = [event_ptr EXCEPT ![u] = e] /\ x = "yield" /\ UNCHANGED event
    <3>1. \A v \in Threads : event_ptr'[v] = IF v = t THEN e ELSE event_ptr[v]
          BY <2>1, <2>4 DEF TypeInv, TypeOK
    <3>2. AwaitsSound' BY <2>1, <2>3, <2>4, <3>1 DEF AwaitsSound
    <3>3. VictimsAborted' BY <2>1, <2>3 DEF VictimsAborted, KillPcs
    <3>4. TokensSound' BY <2>1, <2>3, <2>4 DEF TokensSound, NoPhantomToken
    <3> QED BY <3>2, <3>3, <3>4
  <2>5. CASE /\ event[e] # 0 /\ event' = [event EXCEPT ![e] = @ - 1]
             /\ x = "bail" /\ UNCHANGED event_ptr
    <3>1. \A d \in Events : event'[d] = IF d = e THEN event[d] - 1 ELSE event[d]
          BY <2>5 DEF TypeInv, TypeOK
    <3>2. AwaitsSound' BY <2>1, <2>3, <2>5 DEF AwaitsSound
    <3>3. VictimsAborted' BY <2>1, <2>3 DEF VictimsAborted, KillPcs
    <3>4. NoPhantomToken' BY <1>0, <2>5, <3>1 DEF TokensSound, NoPhantomToken
    <3>5. ASSUME NEW v \in Threads, pc'[v] = "take", Sole(taking'[v])
          PROVE  event'[taking'[v]] > 0
      <4>1. v # t /\ pc[v] = "take" /\ taking[v] \in Events /\ v \in Waiters[taking[v]]
            BY <2>3, <2>5, <3>5 DEF AwaitsSound, TypeInv, JobsTyped
      <4>2. taking[v] # e BY <2>1, <3>5, <4>1 DEF Sole
      <4> QED BY <2>1, <3>1, <3>5, <4>1, <4>2 DEF TokensSound
    <3> QED BY <3>2, <3>3, <3>4, <3>5 DEF TokensSound
  <2>6. \/ event_ptr' = [event_ptr EXCEPT ![u] = e] /\ x = "yield" /\ UNCHANGED event
        \/ /\ event[e] # 0 /\ event' = [event EXCEPT ![e] = @ - 1]
           /\ x = "bail" /\ UNCHANGED event_ptr
        BY <1>4, <2>3 DEF ExecveAborted, TypeInv, TypeOK
  <2> QED BY <2>4, <2>5, <2>6
<1>5. CASE AwaitTake(t)
  <2> DEFINE e == taking[t]
  <2>1. /\ Off \subseteq Off' /\ t \notin Off
        /\ UNCHANGED <<killing, event_ptr, event_abrt>> /\ pc[t] = "take"
        BY <1>5, OffKept DEF AwaitTake, tableVars, cpuVars, killVars, Off
  <2>2. e \in Events /\ t \in Waiters[e] BY <2>1 DEF AwaitsSound, TypeInv, JobsTyped
  <2>3. /\ \A u \in Threads : pc'[u] = IF u = t THEN "sys" ELSE pc[u]
        /\ \A u \in Threads : taking'[u] = IF u = t THEN NoEvent ELSE taking[u]
        /\ \A d \in Events : event'[d] = IF d = e THEN event[d] - 1 ELSE event[d]
        BY <1>5, <2>2 DEF AwaitTake, TypeInv, TypeOK
  <2> HIDE DEF e
  <2>4. AwaitsSound' BY <2>1, <2>3 DEF AwaitsSound
  <2>5. VictimsAborted' BY <2>1, <2>3 DEF VictimsAborted, KillPcs
  <2>6. Sole(e) => event[e] > 0 BY <2>1 DEF TokensSound, e
  <2>7. NoPhantomToken' BY <1>0, <2>2, <2>3, <2>6 DEF TokensSound, NoPhantomToken, Sole
  <2>8. ASSUME NEW v \in Threads, pc'[v] = "take", Sole(taking'[v])
        PROVE  event'[taking'[v]] > 0
    <3>1. v # t /\ pc[v] = "take" /\ taking[v] \in Events /\ v \in Waiters[taking[v]]
          BY <2>3, <2>8 DEF AwaitsSound, TypeInv, JobsTyped
    <3>2. taking[v] # e BY <2>2, <2>3, <2>8, <3>1 DEF Sole
    <3> QED BY <2>3, <2>8, <3>1, <3>2 DEF TokensSound
  <2> QED BY <2>4, <2>5, <2>7, <2>8 DEF TokensSound
<1>6. CASE AwaitYield(t)
  <2>1. /\ Off \subseteq Off' /\ t \in Off' /\ pc[t] = "yield"
        /\ UNCHANGED <<killing, taking, event_ptr, event_abrt, event>>
        BY <1>6, OffKept DEF AwaitYield, force_resched, tableVars, cpuVars, killVars, Off, Executing
  <2>2. \A u \in Threads : pc'[u] = IF u = t THEN "awoken" ELSE pc[u]
        BY <1>6 DEF AwaitYield, force_resched, TypeInv, TypeOK
  <2>3. AwaitsSound' BY <2>1, <2>2 DEF AwaitsSound
  <2>4. VictimsAborted' BY <2>1, <2>2 DEF VictimsAborted, KillPcs
  <2>5. TokensSound' BY <2>1, <2>2 DEF TokensSound, NoPhantomToken
  <2> QED BY <2>3, <2>4, <2>5
<1> QED BY <1>1, <1>2, <1>3, <1>4, <1>5, <1>6

(* The other steps of a thread outside creation and kill.                    *)
LEMMA TokenThreadSteps ==
    ASSUME ~Migrates, TypeInv, TokenInv, NEW t \in Threads,
           \/ Awoken(t) \/ relaxed_sleep(t) \/ enter_syscall(t) \/ EnterAborted(t)
           \/ leave_syscall(t) \/ LeaveDone(t) \/ ExitNull(t)
           \/ \E u \in Threads : syscall_exit(t, u)
           \/ SleepOver(t)
    PROVE  TokenInv'
<1> USE DEF tableVars, cpuVars, killVars, force_resched, KillPcs
<1>1. CASE Awoken(t) BY <1>1, OffKept, TokenLocal DEF Awoken
<1>2. CASE relaxed_sleep(t) BY <1>2, OffKept, TokenLocal DEF relaxed_sleep
<1>3. CASE enter_syscall(t) BY <1>3, OffKept, TokenLocal DEF enter_syscall
<1>4. CASE EnterAborted(t) BY <1>4, OffKept, TokenLocal DEF EnterAborted
<1>5. CASE leave_syscall(t) BY <1>5, OffKept, TokenLocal DEF leave_syscall
<1>6. CASE LeaveDone(t) BY <1>6, OffKept, TokenLocal DEF LeaveDone
<1>7. CASE ExitNull(t) BY <1>7 DEF ExitNull, MeNull
<1>8. ASSUME NEW u \in Threads, syscall_exit(t, u) PROVE TokenInv'
  <2>1. Off \subseteq Off' BY <1>8, OffKept DEF syscall_exit
  <2>2. /\ Executing(t) /\ pc[t] = "sys" /\ pc' = [pc EXCEPT ![t] = "hlt"]
        /\ UNCHANGED <<taking, killing, event_ptr, event_abrt, event>>
        BY <1>8 DEF syscall_exit
  <2> QED BY <2>1, <2>2, TokenLocal
<1>9. CASE SleepOver(t)
  <2>1. Off \subseteq Off' BY <1>9, OffKept DEF SleepOver
  <2> QED BY <1>9, <2>1 DEF SleepOver, TokenInv, AwaitsSound, VictimsAborted, TokensSound, NoPhantomToken
<1> QED BY <1>1, <1>2, <1>3, <1>4, <1>5, <1>6, <1>7, <1>8, <1>9

(* A new thread starts without an event and unmarked.                        *)
LEMMA TokenFresh ==
    ASSUME TypeInv, TokenInv, NEW n \in Threads, NEW s \in Slots, NEW t \in Threads,
           FreshThread(n, s), pc[n] \in {"none", "new"}, pc[t] \notin {"yield", "none", "new"},
           Executing(t), UNCHANGED <<current_task, event, killing, panicked>>,
           task_table' = [task_table EXCEPT ![s] = n],
           \A u \in Threads : pc'[u] = IF u = n THEN pc'[n]
                                       ELSE IF u = t THEN "sys" ELSE pc[u],
           pc'[n] \in {"sys", "user"},
           \A k \in Threads : pc[k] \in KillPcs => killing[k].thread # n
    PROVE  TokenInv'
<1> USE DEF TokenInv
<1>0. NoCpu \notin Cpus /\ t # n /\ t \notin Off BY SchedulerAssumption DEF NoCpu, Off
<1>1. /\ \A u \in Threads : active_on_cpu'[u] = IF u = n THEN NoCpu ELSE active_on_cpu[u]
      /\ \A u \in Threads : event_ptr'[u] = IF u = n THEN NoEvent ELSE event_ptr[u]
      /\ \A u \in Threads : taking'[u] = IF u = n THEN NoEvent ELSE taking[u]
      /\ event_abrt' = event_abrt \ {n} /\ forced' = forced \ {n}
      BY DEF FreshThread, TypeInv, TypeOK
<1>2. \A r \in Slots : task_table'[r] = IF r = s THEN n ELSE task_table[r]
      BY DEF TypeInv, TypeOK
<1>3. Off \subseteq Off'
  <2> SUFFICES ASSUME NEW u \in Off, Executing(u)' PROVE FALSE BY DEF Off
  <2>1. PICK d \in Cpus : Runs(d, u)' BY DEF Executing
  <2>2. u # n BY <1>0, <1>1, <2>1 DEF Runs, Off
  <2>3. current_task[d] \in Slots BY <2>1 DEF Runs, TypeInv, TypeOK
  <2>4. Runs(d, u) BY <1>1, <1>2, <2>1, <2>2, <2>3 DEF Runs, Off
  <2> QED BY <1>1, <2>2, <2>4 DEF Executing, Off
<1>4. AwaitsSound' BY <1>0, <1>1, <1>3 DEF AwaitsSound
<1>5. VictimsAborted' BY <1>1 DEF VictimsAborted, KillPcs
<1>6. TokensSound' BY <1>1 DEF TokensSound, NoPhantomToken
<1> QED BY <1>4, <1>5, <1>6

(* The victim of a kill under way is in the tables: it is no new thread.     *)
LEMMA VictimKnown ==
    ASSUME TypeInv, TableInv, NEW k \in Threads, pc[k] \in KillPcs
    PROVE  /\ killing[k].thread \in Threads
           /\ pc[killing[k].thread] \notin {"none", "new"}
<1>1. killing[k] \in KillJobs BY DEF TypeInv, JobsTyped
<1>2. killing[k].pid \in Procs /\ killing[k].tid \in Tids /\ killing[k].thread \in Threads
      BY <1>1 DEF KillJobs
<1>3. threads[killing[k].pid][killing[k].tid] = killing[k].thread
      BY DEF TableInv, FlightInv, KillersSound
<1>4. task_table[task_id[killing[k].thread]] = killing[k].thread
      BY <1>2, <1>3 DEF TableInv, TablesAgree
<1> QED BY <1>2, <1>4 DEF TableInv, FlightInv, TableLive, TypeInv, TypeOK

(* Creating threads keeps the tokens.                                        *)
LEMMA TokenCreates ==
    ASSUME TypeInv, TableInv, TokenInv, NEW t \in Threads,
           \/ \E n \in Threads, i \in Tids :
                TcreateNoSlot(t, n, i) \/ \E s \in Slots : TcreateReserve(t, n, i, s)
           \/ \E n \in Threads, s \in Slots : syscall_fork(t, n, s)
           \/ TcreateFail(t) \/ TcreatePublish(t)
    PROVE  TokenInv'
<1> USE DEF TokenInv
<1>r. \A s \in Slots : task_table' = [task_table EXCEPT ![s] = PLACEHOLDER]
                    \/ task_table' = [task_table EXCEPT ![s] = EMPTY]
         => (UNCHANGED <<current_task, active_on_cpu, forced, panicked>> => Off \subseteq Off')
  <2> SUFFICES ASSUME NEW s \in Slots, NEW x \in {PLACEHOLDER, EMPTY},
                      task_table' = [task_table EXCEPT ![s] = x],
                      UNCHANGED <<current_task, active_on_cpu, forced, panicked>>,
                      NEW u \in Off, Executing(u)'
               PROVE  FALSE
      BY DEF Off
  <2>1. PICK d \in Cpus : Runs(d, u)' BY DEF Executing
  <2>2. current_task[d] \in Slots BY <2>1 DEF Runs, TypeInv, TypeOK
  <2>3. Runs(d, u) BY <2>1, <2>2, SchedulerAssumption DEF Runs, Off, TypeInv, TypeOK
  <2> QED BY <2>3 DEF Executing, Off
<1>k. \A k \in Threads : pc[k] \in KillPcs => killing[k].thread \in Threads
                           /\ pc[killing[k].thread] \notin {"none", "new"}
      BY VictimKnown
<1>1. ASSUME NEW n \in Threads, NEW i \in Tids, TcreateNoSlot(t, n, i) PROVE TokenInv'
  <2>1. Off \subseteq Off' BY <1>1, OffKept DEF TcreateNoSlot, cpuVars
  <2> QED BY <1>1, <2>1 DEF TcreateNoSlot, killVars, AwaitsSound, VictimsAborted, TokensSound,
                            NoPhantomToken
<1>2. ASSUME NEW n \in Threads, NEW i \in Tids, NEW s \in Slots, TcreateReserve(t, n, i, s)
      PROVE  TokenInv'
  <2>1. Off \subseteq Off' BY <1>2, <1>r DEF TcreateReserve, cpuVars
  <2>2. /\ \A u \in Threads : pc'[u] = IF u = n THEN "new" ELSE IF u = t THEN "create" ELSE pc[u]
        /\ UNCHANGED <<taking, killing, event, event_ptr, event_abrt>>
        /\ pc[n] = "none" /\ pc[t] = "sys"
        BY <1>2 DEF TcreateReserve, killVars, TypeInv, TypeOK
  <2>3. AwaitsSound' BY <2>1, <2>2 DEF AwaitsSound
  <2>4. VictimsAborted' /\ TokensSound'
        BY <2>2 DEF VictimsAborted, TokensSound, NoPhantomToken, KillPcs
  <2> QED BY <2>3, <2>4
<1>3. CASE TcreateFail(t)
  <2> DEFINE n == creating[t].new
  <2>0. n \in Threads /\ creating[t].task \in Slots /\ pc[n] = "new"
        BY <1>3, CreateJobTyped DEF TcreateFail, TableInv, FlightInv, CreatorsOwn
  <2>1. Off \subseteq Off' BY <1>3, <1>r, <2>0 DEF TcreateFail, cpuVars
  <2>2. /\ \A u \in Threads : pc'[u] = IF u = n THEN "none" ELSE IF u = t THEN "sys" ELSE pc[u]
        /\ UNCHANGED <<taking, killing, event, event_ptr, event_abrt>>
        /\ pc[t] = "create"
        BY <1>3, <2>0 DEF TcreateFail, killVars, TypeInv, TypeOK
  <2> HIDE DEF n
  <2>3. AwaitsSound' BY <2>0, <2>1, <2>2 DEF AwaitsSound
  <2>4. VictimsAborted' /\ TokensSound'
        BY <2>2 DEF VictimsAborted, TokensSound, NoPhantomToken, KillPcs
  <2> QED BY <2>3, <2>4
<1>4. CASE TcreatePublish(t)
  <2> DEFINE n == creating[t].new
             s == creating[t].task
  <2>0. n \in Threads /\ s \in Slots /\ pc[n] = "new"
        BY <1>4, CreateJobTyped DEF TcreatePublish, TableInv, FlightInv, CreatorsOwn
  <2>1. /\ FreshThread(n, s) /\ Executing(t) /\ pc[t] = "create"
        /\ UNCHANGED <<current_task, event, killing, panicked>>
        /\ task_table' = [task_table EXCEPT ![s] = n]
        /\ pc' = [pc EXCEPT ![t] = "sys", ![n] = IF IsKernel(n) THEN "sys" ELSE "user"]
        BY <1>4 DEF TcreatePublish, killVars
  <2> HIDE DEF n, s
  <2>2. /\ \A u \in Threads : pc'[u] = IF u = n THEN pc'[n] ELSE IF u = t THEN "sys" ELSE pc[u]
        /\ pc'[n] \in {"sys", "user"}
        BY <2>0, <2>1 DEF TypeInv, TypeOK
  <2>3. \A k \in Threads : pc[k] \in KillPcs => killing[k].thread # n BY <1>k, <2>0
  <2> QED BY <2>0, <2>1, <2>2, <2>3, TokenFresh
<1>5. ASSUME NEW n \in Threads, NEW s \in Slots, syscall_fork(t, n, s) PROVE TokenInv'
  <2>1. /\ FreshThread(n, s) /\ Executing(t) /\ pc[t] = "sys" /\ pc[n] = "none"
        /\ UNCHANGED <<current_task, event, killing, panicked>>
        /\ task_table' = [task_table EXCEPT ![s] = n]
        /\ pc' = [pc EXCEPT ![n] = "user"]
        BY <1>5 DEF syscall_fork, killVars
  <2>2. /\ \A u \in Threads : pc'[u] = IF u = n THEN pc'[n] ELSE IF u = t THEN "sys" ELSE pc[u]
        /\ pc'[n] \in {"sys", "user"}
        BY <2>1 DEF TypeInv, TypeOK
  <2>3. \A k \in Threads : pc[k] \in KillPcs => killing[k].thread # n BY <1>k, <2>1
  <2> QED BY <2>1, <2>2, <2>3, TokenFresh
<1> QED BY <1>1, <1>2, <1>3, <1>4, <1>5

(* A kill marks its victim, which keeps its event pointer and takes no token
   until it is freed.                                                        *)
LEMMA TokenKills ==
    ASSUME TypeInv, TableInv, TokenInv, NEW k \in Threads,
           \/ \E v \in Threads, i \in Tids : KillBegin(k, v, i)
           \/ KillWait(k) \/ KillRetry(k) \/ KillSendIpi(k) \/ KillFinish(k)
    PROVE  TokenInv'
<1> USE DEF TokenInv, KillPcs
<1>1. ASSUME NEW v \in Threads, NEW i \in Tids, KillBegin(k, v, i) PROVE TokenInv'
  <2>1. /\ Off \subseteq Off' /\ k \notin Off /\ pc[k] = "sys"
        /\ UNCHANGED <<taking, event_ptr, event>> /\ event_abrt' = event_abrt \cup {v}
        BY <1>1, OffKept DEF KillBegin, tableVars, cpuVars, Off
  <2>2. /\ \A u \in Threads : pc'[u] = IF u = k THEN "kill" ELSE pc[u]
        /\ \A u \in Threads : u # k => killing'[u] = killing[u]
        /\ killing'[k].thread = v
        BY <1>1 DEF KillBegin, TypeInv, TypeOK
  <2>3. AwaitsSound' BY <2>1, <2>2 DEF AwaitsSound
  <2>4. VictimsAborted' BY <2>1, <2>2 DEF VictimsAborted
  <2>5. TokensSound' BY <2>1, <2>2 DEF TokensSound, NoPhantomToken
  <2> QED BY <2>3, <2>4, <2>5
<1>2. CASE KillWait(k) \/ KillRetry(k) \/ KillSendIpi(k)
  <2>1. /\ Off \subseteq Off' /\ pc[k] \in KillPcs /\ k \notin Off
        /\ UNCHANGED <<taking, event_ptr, event, event_abrt, killing>>
        BY <1>2, OffKept DEF KillWait, KillRetry, KillSendIpi, force_resched, tableVars, cpuVars,
                             Off
  <2>2. PICK x \in KillPcs : pc' = [pc EXCEPT ![k] = x]
        BY <1>2 DEF KillWait, KillRetry, KillSendIpi, force_resched
  <2>3. \A u \in Threads : pc'[u] = IF u = k THEN x ELSE pc[u] BY <2>2 DEF TypeInv, TypeOK
  <2>4. AwaitsSound' BY <2>1, <2>3 DEF AwaitsSound
  <2>5. VictimsAborted' BY <2>1, <2>3 DEF VictimsAborted
  <2>6. TokensSound' BY <2>1, <2>3 DEF TokensSound, NoPhantomToken
  <2> QED BY <2>4, <2>5, <2>6
<1>3. CASE KillFinish(k)
  <2> DEFINE j == killing[k]
             v == threads[j.pid][j.tid]
  <2>0. v = j.thread /\ v \in Threads /\ pc[k] \in KillPcs BY <1>3, VictimRemovable
  <2>1. /\ pc' = [[pc EXCEPT ![k] = "sys"] EXCEPT ![v] = "none"]
        /\ task_table' = [task_table EXCEPT ![task_id[v]] = EMPTY]
        /\ \/ current_task' = current_task
           \/ current_task' = [current_task EXCEPT ![active_on_cpu[k]] = NoTask]
        /\ killing' = [killing EXCEPT ![k] = NoJob]
        /\ UNCHANGED <<active_on_cpu, event_ptr, event, event_abrt, taking, forced, panicked>>
        /\ Executing(k)
        BY <1>3 DEF KillFinish, ForgetThread
  <2>2. v \in event_abrt BY <2>0 DEF VictimsAborted
  <2> HIDE DEF v, j
  <2>3. /\ \A u \in Threads : pc'[u] = IF u = v THEN "none" ELSE IF u = k THEN "sys" ELSE pc[u]
        /\ \A u \in Threads : u # k => killing'[u] = killing[u]
        BY <2>0, <2>1 DEF TypeInv, TypeOK
  <2>4. Off \subseteq Off'
    <3> SUFFICES ASSUME NEW u \in Off, Executing(u)' PROVE FALSE BY DEF Off
    <3>1. PICK d \in Cpus : Runs(d, u)' BY DEF Executing
    <3>2. current_task'[d] = current_task[d] /\ current_task[d] \in Slots
          BY <2>1, <3>1 DEF Runs, TypeInv, TypeOK
    <3>3. task_table[current_task[d]] = u
          BY <2>1, <3>1, <3>2, SchedulerAssumption DEF Runs, Off, TypeInv, TypeOK
    <3>4. Runs(d, u) BY <2>1, <3>1, <3>2, <3>3 DEF Runs
    <3> QED BY <2>1, <3>4 DEF Executing, Off
  <2>5. k \notin Off /\ UNCHANGED <<event_ptr, event, event_abrt, taking>> BY <2>1 DEF Off
  <2>6. AwaitsSound' BY ONLY TokenInv, <2>0, <2>2, <2>3, <2>4, <2>5 DEF TokenInv, AwaitsSound, KillPcs
  <2>7. VictimsAborted' BY ONLY TokenInv, <2>3, <2>5 DEF TokenInv, VictimsAborted, KillPcs
  <2>8. TokensSound' BY ONLY TokenInv, <2>3, <2>5 DEF TokenInv, TokensSound, NoPhantomToken
  <2> QED BY <2>6, <2>7, <2>8
<1> QED BY <1>1, <1>2, <1>3

(* TokenInv is inductive relative to TypeInv and TableInv.                   *)
LEMMA TokenStep ==
    ASSUME ~Migrates
    PROVE  TypeInv /\ TableInv /\ TokenInv /\ [Next]_vars => TokenInv'
<1> SUFFICES ASSUME TypeInv, TableInv, TokenInv, [Next]_vars PROVE TokenInv' OBVIOUS
<1>1. ASSUME NEW t \in Threads, ThreadStep(t) \/ SleepOver(t) PROVE TokenInv'
  BY <1>1, TokenAwaits, TokenThreadSteps, TokenCreates, TokenKills DEF ThreadStep
<1>2. ASSUME NEW c \in Cpus, task_resched(c) \/ ScanPastEnd(c) \/ ipi_abortexec(c)
      PROVE  TokenInv'
  BY <1>2, TokenCpuSteps
<1>3. ASSUME NEW e \in Events, event_trigger(e) PROVE TokenInv'
  <2>1. Off \subseteq Off' BY <1>3, OffKept DEF event_trigger, tableVars, cpuVars
  <2>2. UNCHANGED <<pc, taking, killing, event_ptr, event_abrt>>
        BY <1>3 DEF event_trigger, killVars
  <2>3. \A d \in Events : event[d] \in Int /\ event'[d] >= event[d]
        BY <1>3 DEF event_trigger, TypeInv, TypeOK
  <2>4. \A d \in Events : event'[d] \in Int BY <1>3 DEF event_trigger, TypeInv, TypeOK
  <2>5. AwaitsSound' /\ VictimsAborted'
        BY <2>1, <2>2 DEF TokenInv, AwaitsSound, VictimsAborted
  <2>6. TokensSound'
    <3>1. NoPhantomToken' BY <2>3, <2>4 DEF TokenInv, TokensSound, NoPhantomToken
    <3>2. \A t \in Threads : pc[t] = "take" => taking[t] \in Events BY DEF TypeInv, JobsTyped
    <3> QED BY <2>2, <2>3, <2>4, <3>1, <3>2 DEF TokenInv, TokensSound
  <2> QED BY <2>5, <2>6 DEF TokenInv
<1>4. CASE UNCHANGED vars
  <2>1. Off \subseteq Off' BY <1>4, OffKept DEF vars
  <2> QED BY <1>4, <2>1 DEF vars, TokenInv, AwaitsSound, VictimsAborted, TokensSound,
                            NoPhantomToken
<1> QED BY <1>1, <1>2, <1>3, <1>4 DEF Next

(* No event that one thread awaits is ever decremented below zero: the test
   and the decrement of event_await are apart, task_resched takes tokens in
   between, and still every token is taken once, across kills.               *)
THEOREM TokensTakenOnce ==
    ASSUME ~Migrates
    PROVE  Spec => []NoPhantomToken
<1>1. Init => TypeInv /\ TableInv /\ TokenInv BY TypeInit, TableInit, TokenInit
<1>2. TypeInv /\ TableInv /\ TokenInv /\ [Next]_vars => (TypeInv /\ TableInv /\ TokenInv)'
      BY TypeStep, TableStep, TokenStep
<1>3. TokenInv => NoPhantomToken BY DEF TokenInv, TokensSound
<1> QED BY <1>1, <1>2, <1>3, PTL DEF Spec

-----------------------------------------------------------------------------
(***************************************************************************)
(* The CPUs.  Kills between CPUs break these properties (the killed_runs    *)
(* run); without kills, or on one CPU, they hold.                           *)
(***************************************************************************)

(* Nobody calls task_tkill.                                                  *)
NoKills == Victims = {} /\ SelfKillers = {}

OneCpu == \A c, d \in Cpus : c = d

(* The part of TableInv that creation keeps although threads move between
   CPUs while they read CURRENT_THREAD.                                      *)
SlotInv ==
    /\ \A s \in Slots : task_table[s] \in Threads =>
          task_id[task_table[s]] = s /\ pc[task_table[s]] \notin {"none", "new"}
    /\ \A t \in Threads : pc[t] = "create" =>
          task_table[creating[t].task] = PLACEHOLDER /\ pc[creating[t].new] = "new"
    /\ \A t, u \in Threads : pc[t] = "create" /\ pc[u] = "create" /\ t # u =>
          creating[t].task # creating[u].task /\ creating[t].new # creating[u].new

Quiet == \A t \in Threads : pc[t] \notin KillPcs

(* What a CPU runs is in the table, locked by it, on its own page map; a
   thread in the table that is locked or names a CPU is run by that CPU.     *)
CpuSound ==
    /\ \A c \in Cpus : current_task[c] # NoTask =>
          /\ task_table[current_task[c]] \in Threads
          /\ task_table[current_task[c]] \in locked
          /\ active_on_cpu[task_table[current_task[c]]] = c
          /\ cr3[c] = ProcOf[task_table[current_task[c]]]
    /\ \A s \in Slots : task_table[s] \in Threads =>
          /\ task_table[s] \in locked => active_on_cpu[task_table[s]] \in Cpus
          /\ \A c \in Cpus : active_on_cpu[task_table[s]] = c => current_task[c] = s

(* No CPU is interrupted, and a kill of another thread finds it on no CPU.   *)
KillsHere ==
    /\ ipi = {}
    /\ \A k \in Threads : pc[k] \in KillPcs =>
          (killing[k].cpu = NoCpu <=> killing[k].thread # k)

(* The tables allow what the CPUs need.                                      *)
LEMMA TableSlots == TypeInv /\ TableInv => SlotInv
  BY DEF TableInv, FlightInv, SlotInv, TableLive, TablesAgree, CreatorsOwn, CreatorsApart

LEMMA SlotInit == Init => SlotInv /\ Quiet /\ CpuSound /\ KillsHere
<1> SUFFICES ASSUME Init PROVE SlotInv /\ Quiet /\ CpuSound /\ KillsHere OBVIOUS
<1> USE SchedulerAssumption DEF Init
<1>1. SlotInv /\ Quiet BY DEF SlotInv, Quiet, KillPcs
<1>2. CpuSound BY DEF CpuSound, NoCpu
<1>3. KillsHere BY DEF KillsHere, KillPcs
<1> QED BY <1>1, <1>2, <1>3

(* A step of a thread outside creation and kill.                             *)
LEMMA SlotLocal ==
    ASSUME TypeInv, SlotInv, Quiet, NEW t \in Threads, NEW x,
           UNCHANGED <<task_table, task_id, creating>>,
           pc' = [pc EXCEPT ![t] = x],
           pc[t] \notin {"none", "new"}, x \notin {"none", "new", "create"} \cup KillPcs
    PROVE  SlotInv' /\ Quiet'
<1>1. \A u \in Threads : pc'[u] = IF u = t THEN x ELSE pc[u] BY DEF TypeInv, TypeOK
<1>2. \A u \in Threads : pc[u] = "create" => creating[u].new \in Threads
      BY CreateJobTyped
<1> QED BY <1>1, <1>2 DEF SlotInv, Quiet

(* Without kills every step keeps the slots.                                 *)
LEMMA SlotStep ==
    ASSUME NoKills, TypeInv, SlotInv, Quiet, [Next]_vars
    PROVE  SlotInv' /\ Quiet'
<1> USE SchedulerAssumption DEF tableVars, cpuVars, killVars, force_resched, KillPcs
<1>0. ASSUME UNCHANGED <<task_table, task_id, creating, pc>> PROVE SlotInv' /\ Quiet'
      BY <1>0 DEF SlotInv, Quiet
<1>1. ASSUME NEW t \in Threads,
             \/ \E e \in Events : AwaitSeen(t, e) \/ AwaitNull(t, e)
             \/ AwaitTake(t) \/ AwaitYield(t) \/ Awoken(t) \/ relaxed_sleep(t)
             \/ enter_syscall(t) \/ EnterAborted(t) \/ leave_syscall(t) \/ LeaveDone(t)
      PROVE  SlotInv' /\ Quiet'
  <2>1. CASE \E e \in Events : AwaitSeen(t, e) \/ AwaitNull(t, e)
        BY <2>1, SlotLocal DEF AwaitSeen, AwaitNull
  <2>2. CASE AwaitTake(t) BY <2>2, SlotLocal DEF AwaitTake
  <2>3. CASE AwaitYield(t) BY <2>3, SlotLocal DEF AwaitYield
  <2>4. CASE Awoken(t) BY <2>4, SlotLocal DEF Awoken
  <2>5. CASE relaxed_sleep(t) BY <2>5, SlotLocal DEF relaxed_sleep
  <2>6. CASE enter_syscall(t) BY <2>6, SlotLocal DEF enter_syscall
  <2>7. CASE EnterAborted(t) BY <2>7, SlotLocal DEF EnterAborted
  <2>8. CASE leave_syscall(t) BY <2>8, SlotLocal DEF leave_syscall
  <2>9. CASE LeaveDone(t) BY <2>9, SlotLocal DEF LeaveDone
  <2> QED BY <1>1, <2>1, <2>2, <2>3, <2>4, <2>5, <2>6, <2>7, <2>8, <2>9
<1>2. ASSUME NEW t \in Threads, NEW e \in Events, NEW u \in Threads,
             AwaitBlock(t, e, u) \/ ExecveAborted(t, e, u)
      PROVE  SlotInv' /\ Quiet'
  <2>1. PICK x \in {"yield", "bail"} : pc' = [pc EXCEPT ![t] = x]
        BY <1>2 DEF AwaitBlock, ExecveAborted
  <2> QED BY <1>2, <2>1, SlotLocal DEF AwaitBlock, ExecveAborted
<1>3. ASSUME NEW t \in Threads, NEW u \in Threads, syscall_exit(t, u) PROVE SlotInv' /\ Quiet'
      BY <1>3, SlotLocal DEF syscall_exit
<1>4. ASSUME NEW t \in Threads, ExitNull(t) \/ SleepOver(t) PROVE SlotInv' /\ Quiet'
      BY <1>0, <1>4 DEF ExitNull, SleepOver
<1>5. ASSUME NEW t \in Threads, NEW n \in Threads, NEW i \in Tids, TcreateNoSlot(t, n, i)
      PROVE  SlotInv' /\ Quiet'
      BY <1>0, <1>5 DEF TcreateNoSlot
<1>c. \A u \in Threads : pc[u] = "create" => creating[u].new \in Threads /\ creating[u].task \in Slots
      BY CreateJobTyped
<1>6. ASSUME NEW t \in Threads, NEW n \in Threads, NEW i \in Tids, NEW s \in Slots,
             TcreateReserve(t, n, i, s)
      PROVE  SlotInv' /\ Quiet'
  <2>1. /\ \A u \in Threads : pc'[u] = IF u = n THEN "new" ELSE IF u = t THEN "create" ELSE pc[u]
        /\ \A r \in Slots : task_table'[r] = IF r = s THEN PLACEHOLDER ELSE task_table[r]
        /\ pc[n] = "none" /\ pc[t] = "sys" /\ UNCHANGED task_id /\ IsFree(task_table[s])
        BY <1>6 DEF TcreateReserve, FirstFree, TypeInv, TypeOK
  <2>2. /\ \A u \in Threads : u # t => creating'[u] = creating[u]
        /\ creating'[t].new = n /\ creating'[t].task = s
        BY <1>6 DEF TcreateReserve, TypeInv, TypeOK
  <2>3. Quiet' BY <2>1 DEF Quiet
  <2>4. \A u \in Threads : pc[u] = "create" => creating[u].task # s /\ creating[u].new # n
        BY <2>1 DEF SlotInv, IsFree
  <2>5. SlotInv' BY <1>c, <2>1, <2>2, <2>4 DEF SlotInv
  <2> QED BY <2>3, <2>5
<1>7. ASSUME NEW t \in Threads, TcreateFail(t) PROVE SlotInv' /\ Quiet'
  <2> DEFINE n == creating[t].new
             s == creating[t].task
  <2>0. n \in Threads /\ s \in Slots /\ pc[n] = "new" /\ pc[t] = "create"
        BY <1>7, <1>c DEF TcreateFail, SlotInv
  <2>1. /\ \A u \in Threads : pc'[u] = IF u = n THEN "none" ELSE IF u = t THEN "sys" ELSE pc[u]
        /\ \A r \in Slots : task_table'[r] = IF r = s THEN EMPTY ELSE task_table[r]
        /\ UNCHANGED task_id /\ \A u \in Threads : u # t => creating'[u] = creating[u]
        BY <1>7, <2>0 DEF TcreateFail, TypeInv, TypeOK
  <2> HIDE DEF n, s
  <2>2. \A u \in Threads : pc[u] = "create" /\ u # t => creating[u].task # s /\ creating[u].new # n
        BY <2>0 DEF SlotInv, n, s
  <2>3. Quiet' BY <2>1 DEF Quiet
  <2>4. SlotInv' BY <1>c, <2>0, <2>1, <2>2 DEF SlotInv
  <2> QED BY <2>3, <2>4
<1>8. ASSUME NEW t \in Threads, TcreatePublish(t) PROVE SlotInv' /\ Quiet'
  <2> DEFINE n == creating[t].new
             s == creating[t].task
             x == IF IsKernel(n) THEN "sys" ELSE "user"
  <2>0. /\ n \in Threads /\ s \in Slots /\ pc[n] = "new" /\ pc[t] = "create"
        /\ task_table[s] = PLACEHOLDER
        BY <1>8, <1>c DEF TcreatePublish, SlotInv
  <2>1. /\ \A u \in Threads : pc'[u] = IF u = n THEN x ELSE IF u = t THEN "sys" ELSE pc[u]
        /\ \A r \in Slots : task_table'[r] = IF r = s THEN n ELSE task_table[r]
        /\ \A u \in Threads : task_id'[u] = IF u = n THEN s ELSE task_id[u]
        /\ \A u \in Threads : u # t => creating'[u] = creating[u]
        BY <1>8, <2>0 DEF TcreatePublish, FreshThread, FreshTaskId, TypeInv, TypeOK
  <2>2. x \in {"sys", "user"} OBVIOUS
  <2> HIDE DEF n, s, x
  <2>3. \A u \in Threads : pc[u] = "create" /\ u # t => creating[u].task # s /\ creating[u].new # n
        BY <2>0 DEF SlotInv, n, s
  <2>4. Quiet' BY <2>1, <2>2 DEF Quiet
  <2>5. SlotInv' BY <1>c, <2>0, <2>1, <2>2, <2>3 DEF SlotInv
  <2> QED BY <2>4, <2>5
<1>9. ASSUME NEW t \in Threads, NEW n \in Threads, NEW s \in Slots, syscall_fork(t, n, s)
      PROVE  SlotInv' /\ Quiet'
  <2>1. /\ \A u \in Threads : pc'[u] = IF u = n THEN "user" ELSE pc[u]
        /\ \A r \in Slots : task_table'[r] = IF r = s THEN n ELSE task_table[r]
        /\ \A u \in Threads : task_id'[u] = IF u = n THEN s ELSE task_id[u]
        /\ UNCHANGED creating /\ pc[n] = "none" /\ IsFree(task_table[s])
        BY <1>9 DEF syscall_fork, FreshThread, FreshTaskId, FirstFree, TypeInv, TypeOK
  <2>2. Quiet' BY <2>1 DEF Quiet
  <2>3. \A u \in Threads : pc[u] = "create" => creating[u].task # s /\ creating[u].new # n
        BY <2>1 DEF SlotInv, IsFree
  <2>4. SlotInv' BY <1>c, <2>1, <2>3 DEF SlotInv
  <2> QED BY <2>2, <2>4
<1>10. ASSUME NEW t \in Threads,
              \/ \E v \in Threads, i \in Tids : KillBegin(t, v, i)
              \/ KillWait(t) \/ KillRetry(t) \/ KillSendIpi(t) \/ KillFinish(t)
       PROVE  FALSE
       BY <1>10 DEF Quiet, NoKills, KillBegin, MayKill, KillWait, KillRetry, KillSendIpi,
                    KillFinish, KillReady
<1>11. ASSUME NEW c \in Cpus, task_resched(c) \/ ScanPastEnd(c) \/ ipi_abortexec(c)
       PROVE  SlotInv' /\ Quiet'
       BY <1>0, <1>11 DEF task_resched, Dispatch, GoIdle, ReschedFault, ScanPastEnd, ipi_abortexec
<1>12. CASE \E e \in Events : event_trigger(e) BY <1>0, <1>12 DEF event_trigger
<1>13. CASE UNCHANGED vars BY <1>0, <1>13 DEF vars
<1> QED BY <1>1, <1>2, <1>3, <1>4, <1>5, <1>6, <1>7, <1>8, <1>9, <1>10, <1>11, <1>12, <1>13
       DEF Next, ThreadStep

(* A step that leaves the CPUs, the threads in the table and the kills alone. *)
LEMMA CpuFrame ==
    ASSUME TypeInv, CpuSound, KillsHere,
           UNCHANGED <<current_task, cr3, locked, active_on_cpu, ipi, killing>>,
           \A s \in Slots : task_table[s] \in Threads \/ task_table'[s] \in Threads
                               => task_table'[s] = task_table[s],
           \A k \in Threads : pc'[k] \in KillPcs => pc[k] \in KillPcs
    PROVE  CpuSound' /\ KillsHere'
<1>1. \A c \in Cpus : current_task[c] # NoTask => current_task[c] \in Slots
      BY DEF TypeInv, TypeOK
<1> QED BY <1>1 DEF CpuSound, KillsHere

(* The switches of task_resched.                                             *)
LEMMA CpuSwitches ==
    ASSUME TypeInv, SlotInv, CpuSound, KillsHere, NEW c \in Cpus,
           task_resched(c) \/ ScanPastEnd(c) \/ ipi_abortexec(c)
    PROVE  CpuSound' /\ KillsHere'
<1> USE SchedulerAssumption DEF NoCpu
<1>0. /\ NoCpu \notin Cpus /\ NoTask \notin Slots
      /\ \A d \in Cpus : current_task[d] # NoTask => current_task[d] \in Slots
      BY DEF TypeInv, TypeOK, NoTask, Slots
<1>o. Outgoing(c) = IF current_task[c] = NoTask THEN {} ELSE {task_table[current_task[c]]}
      BY DEF Outgoing
<1>1. ASSUME NEW s \in Slots, Dispatch(c, s) PROVE CpuSound' /\ KillsHere'
  <2> DEFINE t == task_table[s]
  <2>1. /\ t \in Threads /\ t \notin locked \ Outgoing(c)
        /\ \A d \in Cpus : current_task'[d] = IF d = c THEN s ELSE current_task[d]
        /\ locked' = (locked \ Outgoing(c)) \cup {t}
        /\ \A u \in Threads : active_on_cpu'[u] = IF u = t THEN c
                                                  ELSE IF u \in Outgoing(c) THEN NoCpu
                                                  ELSE active_on_cpu[u]
        /\ \A d \in Cpus : cr3'[d] = IF d = c THEN NextCr3(c, t) ELSE cr3[d]
        /\ UNCHANGED <<task_table, ipi, killing, pc>>
        BY <1>1 DEF Dispatch, task_get_next, Eligible, HeldWithout, Deactivate, tableVars, killVars,
                    TypeInv, TypeOK
  <2>2. NextCr3(c, t) = ProcOf[t]
    <3>1. CASE current_task[c] = NoTask BY <1>o, <3>1 DEF NextCr3
    <3>2. CASE current_task[c] # NoTask BY <1>o, <3>2 DEF NextCr3, CpuSound
    <3> QED BY <3>1, <3>2
  <2>3. task_id[t] = s BY <2>1 DEF SlotInv
  <2>4. ASSUME NEW d \in Cpus, d # c, current_task[d] # NoTask
        PROVE  task_table[current_task[d]] \notin Outgoing(c) \cup {t}
    <3>1. task_table[current_task[d]] \notin Outgoing(c) BY <1>o, <2>4 DEF CpuSound
    <3> QED BY <2>1, <2>4, <3>1 DEF CpuSound
  <2> HIDE DEF t
  <2>5. ASSUME NEW d \in Cpus, current_task'[d] # NoTask
        PROVE  /\ task_table'[current_task'[d]] \in Threads
               /\ task_table'[current_task'[d]] \in locked'
               /\ active_on_cpu'[task_table'[current_task'[d]]] = d
               /\ cr3'[d] = ProcOf[task_table'[current_task'[d]]]
    <3>1. CASE d = c BY <2>1, <2>2, <3>1 DEF t
    <3>2. CASE d # c BY <2>1, <2>4, <2>5, <3>2 DEF CpuSound
    <3> QED BY <3>1, <3>2
  <2>6. ASSUME NEW r \in Slots, task_table'[r] \in Threads
        PROVE  /\ task_table'[r] \in locked' => active_on_cpu'[task_table'[r]] \in Cpus
               /\ \A d \in Cpus : active_on_cpu'[task_table'[r]] = d => current_task'[d] = r
    <3> DEFINE u == task_table[r]
    <3>1. u \in Threads /\ u = task_table'[r] /\ task_id[u] = r BY <2>1, <2>6 DEF SlotInv
    <3>2. CASE u = t BY <1>0, <2>1, <2>3, <3>1, <3>2
    <3>3. CASE u # t /\ u \in Outgoing(c) BY <1>0, <2>1, <3>1, <3>3
    <3>4. CASE u # t /\ u \notin Outgoing(c)
      <4>1. active_on_cpu'[u] = active_on_cpu[u] /\ (u \in locked' => u \in locked)
            BY <2>1, <3>1, <3>4
      <4>2. \A d \in Cpus : active_on_cpu[u] = d => current_task[d] = r /\ d # c
            BY <1>0, <1>o, <3>1, <3>4 DEF CpuSound
      <4> QED BY <2>1, <3>1, <4>1, <4>2 DEF CpuSound
    <3> QED BY <3>2, <3>3, <3>4
  <2>7. KillsHere' BY <2>1 DEF KillsHere
  <2> QED BY <2>5, <2>6, <2>7 DEF CpuSound
<1>2. CASE GoIdle(c)
  <2>1. /\ \A d \in Cpus : current_task'[d] = IF d = c THEN NoTask ELSE current_task[d]
        /\ locked' = locked \ Outgoing(c)
        /\ \A u \in Threads : active_on_cpu'[u] = IF u \in Outgoing(c) THEN NoCpu
                                                  ELSE active_on_cpu[u]
        /\ \A d \in Cpus : cr3'[d] = IF d = c THEN 0 ELSE cr3[d]
        /\ UNCHANGED <<task_table, ipi, killing, pc>>
        BY <1>2 DEF GoIdle, HeldWithout, Deactivate, tableVars, killVars, TypeInv, TypeOK
  <2>2. ASSUME NEW d \in Cpus, d # c, current_task[d] # NoTask
        PROVE  task_table[current_task[d]] \notin Outgoing(c)
        BY <1>o, <2>2 DEF CpuSound
  <2>3. ASSUME NEW d \in Cpus, current_task'[d] # NoTask
        PROVE  /\ task_table'[current_task'[d]] \in Threads
               /\ task_table'[current_task'[d]] \in locked'
               /\ active_on_cpu'[task_table'[current_task'[d]]] = d
               /\ cr3'[d] = ProcOf[task_table'[current_task'[d]]]
        BY <2>1, <2>2, <2>3 DEF CpuSound
  <2>4. ASSUME NEW r \in Slots, task_table'[r] \in Threads
        PROVE  /\ task_table'[r] \in locked' => active_on_cpu'[task_table'[r]] \in Cpus
               /\ \A d \in Cpus : active_on_cpu'[task_table'[r]] = d => current_task'[d] = r
    <3> DEFINE u == task_table[r]
    <3>1. u \in Threads /\ u = task_table'[r] BY <2>1, <2>4
    <3>2. CASE u \in Outgoing(c) BY <1>0, <2>1, <3>1, <3>2
    <3>3. CASE u \notin Outgoing(c)
      <4>1. \A d \in Cpus : active_on_cpu[u] = d => current_task[d] = r /\ d # c
            BY <1>0, <1>o, <3>1, <3>3 DEF CpuSound
      <4> QED BY <2>1, <3>1, <3>3, <4>1 DEF CpuSound
    <3> QED BY <3>2, <3>3
  <2>5. KillsHere' BY <2>1 DEF KillsHere
  <2> QED BY <2>3, <2>4, <2>5 DEF CpuSound
<1>3. CASE ReschedFault(c) \/ ScanPastEnd(c)
      BY <1>3, CpuFrame DEF ReschedFault, ScanPastEnd, tableVars, cpuVars, killVars
<1>4. CASE ipi_abortexec(c) BY <1>4 DEF ipi_abortexec, KillsHere
<1> QED BY <1>1, <1>2, <1>3, <1>4 DEF task_resched

(* A new thread is on no CPU.                                                *)
LEMMA CpuFresh ==
    ASSUME TypeInv, SlotInv, CpuSound, KillsHere, NEW n \in Threads, NEW s \in Slots,
           FreshThread(n, s), pc[n] \in {"none", "new"}, task_table[s] \notin Threads,
           task_table' = [task_table EXCEPT ![s] = n],
           UNCHANGED <<current_task, cr3, ipi, killing>>,
           \A k \in Threads : pc'[k] \in KillPcs => pc[k] \in KillPcs
    PROVE  CpuSound' /\ KillsHere'
<1>0. /\ NoCpu \notin Cpus
      /\ \A d \in Cpus : current_task[d] # NoTask => current_task[d] \in Slots
      BY SchedulerAssumption DEF TypeInv, TypeOK, NoCpu
<1>1. /\ \A r \in Slots : task_table'[r] = IF r = s THEN n ELSE task_table[r]
      /\ \A u \in Threads : active_on_cpu'[u] = IF u = n THEN NoCpu ELSE active_on_cpu[u]
      /\ locked' = locked \ {n}
      BY DEF FreshThread, FreshLock, TypeInv, TypeOK
<1>2. \A r \in Slots : task_table[r] # n BY DEF SlotInv
<1>3. ASSUME NEW d \in Cpus, current_task'[d] # NoTask
      PROVE  /\ task_table'[current_task'[d]] \in Threads
             /\ task_table'[current_task'[d]] \in locked'
             /\ active_on_cpu'[task_table'[current_task'[d]]] = d
             /\ cr3'[d] = ProcOf[task_table'[current_task'[d]]]
  <2>1. current_task[d] \in Slots /\ current_task[d] # s BY <1>0, <1>3 DEF CpuSound
  <2> QED BY <1>1, <1>2, <1>3, <2>1 DEF CpuSound
<1>4. ASSUME NEW r \in Slots, task_table'[r] \in Threads
      PROVE  /\ task_table'[r] \in locked' => active_on_cpu'[task_table'[r]] \in Cpus
             /\ \A d \in Cpus : active_on_cpu'[task_table'[r]] = d => current_task'[d] = r
  <2>1. CASE r = s BY <1>0, <1>1, <2>1
  <2>2. CASE r # s BY <1>1, <1>2, <1>4, <2>2 DEF CpuSound
  <2> QED BY <2>1, <2>2
<1>5. KillsHere' BY DEF KillsHere
<1> QED BY <1>3, <1>4, <1>5 DEF CpuSound

(* Threads that await, sleep, enter or leave a syscall or create others keep
   the CPUs.                                                                 *)
LEMMA CpuThreadSteps ==
    ASSUME TypeInv, SlotInv, CpuSound, KillsHere, NEW t \in Threads, ThreadStep(t) \/ SleepOver(t),
           ~(\E v \in Threads, i \in Tids : KillBegin(t, v, i)),
           ~KillWait(t), ~KillRetry(t), ~KillSendIpi(t), ~KillFinish(t)
    PROVE  CpuSound' /\ KillsHere'
<1> USE SchedulerAssumption DEF tableVars, cpuVars, killVars, force_resched, KillPcs
<1>p. pc \in [Threads -> PcValues] BY DEF TypeInv, TypeOK
<1>1. ASSUME NEW x, pc' = [pc EXCEPT ![t] = x] \/ UNCHANGED pc, x \notin KillPcs,
             UNCHANGED <<task_table, current_task, cr3, locked, active_on_cpu, ipi, killing>>
      PROVE  CpuSound' /\ KillsHere'
  <2>1. \A k \in Threads : pc'[k] \in KillPcs => pc[k] \in KillPcs BY <1>1, <1>p
  <2> QED BY <1>1, <2>1, CpuFrame
<1>2. CASE \E e \in Events : AwaitSeen(t, e) \/ AwaitNull(t, e)
      BY <1>1, <1>2 DEF AwaitSeen, AwaitNull
<1>3. ASSUME NEW e \in Events, NEW u \in Threads, AwaitBlock(t, e, u)
      PROVE  CpuSound' /\ KillsHere'
  <2>1. UNCHANGED <<task_table, current_task, cr3, locked, active_on_cpu, ipi, killing>>
        BY <1>3 DEF AwaitBlock
  <2>2. PICK x \in {"yield"} : pc' = [pc EXCEPT ![t] = x] BY <1>3 DEF AwaitBlock
  <2> QED BY <1>1, <2>1, <2>2
<1>4. ASSUME NEW e \in Events, NEW u \in Threads, ExecveAborted(t, e, u)
      PROVE  CpuSound' /\ KillsHere'
  <2>1. PICK x \in {"yield", "bail"} : pc' = [pc EXCEPT ![t] = x]
        BY <1>4 DEF ExecveAborted
  <2> QED BY <1>1, <1>4, <2>1 DEF ExecveAborted
<1>5. CASE AwaitTake(t) \/ AwaitYield(t)
      BY <1>1, <1>5 DEF AwaitTake, AwaitYield
<1>6. CASE Awoken(t)
  <2>1. PICK x \in {"sys", "bail"} : pc' = [pc EXCEPT ![t] = x] BY <1>6 DEF Awoken
  <2> QED BY <1>1, <1>6, <2>1 DEF Awoken
<1>7. CASE relaxed_sleep(t) \/ enter_syscall(t) \/ EnterAborted(t)
      BY <1>1, <1>7 DEF relaxed_sleep, enter_syscall, EnterAborted
<1>8. CASE leave_syscall(t) \/ LeaveDone(t)
      BY <1>1, <1>8 DEF leave_syscall, LeaveDone
<1>15. CASE ExitNull(t) \/ SleepOver(t)
  <2>1. UNCHANGED <<task_table, current_task, cr3, locked, active_on_cpu, ipi, killing, pc>>
        BY <1>15 DEF ExitNull, SleepOver
  <2> QED BY <2>1, CpuFrame
<1>9. CASE \E u \in Threads : syscall_exit(t, u) BY <1>1, <1>9 DEF syscall_exit
<1>10. CASE \E n \in Threads, i \in Tids : TcreateNoSlot(t, n, i)
      BY <1>1, <1>10 DEF TcreateNoSlot
<1>11. ASSUME NEW n \in Threads, NEW i \in Tids, NEW s \in Slots, TcreateReserve(t, n, i, s)
      PROVE  CpuSound' /\ KillsHere'
  <2>1. \A r \in Slots : task_table[r] \in Threads \/ task_table'[r] \in Threads
                            => task_table'[r] = task_table[r]
        BY <1>11 DEF TcreateReserve, FirstFree, IsFree, TypeInv, TypeOK
  <2>2. \A k \in Threads : pc'[k] \in KillPcs => pc[k] \in KillPcs
        BY <1>11, <1>p DEF TcreateReserve
  <2> QED BY <1>11, <2>1, <2>2, CpuFrame DEF TcreateReserve
<1>12. CASE TcreateFail(t)
  <2>0. /\ creating[t].task \in Slots /\ creating[t].new \in Threads
        /\ task_table[creating[t].task] = PLACEHOLDER
        BY <1>12, CreateJobTyped DEF TcreateFail, SlotInv
  <2>1. \A r \in Slots : task_table[r] \in Threads \/ task_table'[r] \in Threads
                            => task_table'[r] = task_table[r]
        BY <1>12, <2>0 DEF TcreateFail, TypeInv, TypeOK
  <2>2. \A k \in Threads : pc'[k] \in KillPcs => pc[k] \in KillPcs
        BY <1>12, <1>p, <2>0 DEF TcreateFail
  <2> QED BY <1>12, <2>1, <2>2, CpuFrame DEF TcreateFail
<1>13. CASE TcreatePublish(t)
  <2> DEFINE n == creating[t].new
             s == creating[t].task
  <2>0. /\ s \in Slots /\ n \in Threads /\ pc[n] = "new" /\ task_table[s] \notin Threads
        BY <1>13, CreateJobTyped DEF TcreatePublish, SlotInv
  <2>1. /\ FreshThread(n, s) /\ task_table' = [task_table EXCEPT ![s] = n]
        /\ UNCHANGED <<current_task, cr3, ipi, killing>>
        BY <1>13 DEF TcreatePublish
  <2>2. \A k \in Threads : pc'[k] \in KillPcs => pc[k] \in KillPcs
        BY <1>13, <1>p, <2>0 DEF TcreatePublish
  <2> QED BY <2>0, <2>1, <2>2, CpuFresh
<1>14. ASSUME NEW n \in Threads, NEW s \in Slots, syscall_fork(t, n, s)
      PROVE  CpuSound' /\ KillsHere'
  <2>1. /\ FreshThread(n, s) /\ task_table' = [task_table EXCEPT ![s] = n] /\ pc[n] = "none"
        /\ UNCHANGED <<current_task, cr3, ipi, killing>> /\ task_table[s] \notin Threads
        BY <1>14 DEF syscall_fork, FirstFree, IsFree
  <2>2. \A k \in Threads : pc'[k] \in KillPcs => pc[k] \in KillPcs
        BY <1>14, <1>p DEF syscall_fork
  <2> QED BY <2>1, <2>2, CpuFresh
<1> QED BY <1>2, <1>3, <1>4, <1>5, <1>6, <1>7, <1>8, <1>9, <1>10, <1>11, <1>12, <1>13, <1>14, <1>15
       DEF ThreadStep

(* On one CPU a kill finds its victim off the CPU, or is the killer's own.   *)
LEMMA CpuKills ==
    ASSUME OneCpu, TypeInv, TableInv, SlotInv, CpuSound, KillsHere, NEW k \in Threads,
           \/ \E v \in Threads, i \in Tids : KillBegin(k, v, i)
           \/ KillWait(k) \/ KillRetry(k) \/ KillSendIpi(k) \/ KillFinish(k)
    PROVE  CpuSound' /\ KillsHere'
<1> USE SchedulerAssumption DEF tableVars, cpuVars, force_resched, KillPcs
<1>0. /\ NoCpu \notin Cpus
      /\ \A d \in Cpus : current_task[d] # NoTask => current_task[d] \in Slots
      BY DEF TypeInv, TypeOK, NoCpu
<1>c. PICK c \in Cpus : Runs(c, k)
      BY DEF KillBegin, KillWait, KillRetry, KillSendIpi, KillFinish, Executing
<1>k. /\ current_task[c] \in Slots /\ task_table[current_task[c]] = k /\ active_on_cpu[k] = c
      /\ task_id[k] = current_task[c]
      BY <1>0, <1>c DEF Runs, SlotInv
<1>1. ASSUME NEW v \in Threads, NEW i \in Tids, KillBegin(k, v, i) PROVE CpuSound' /\ KillsHere'
  <2>1. /\ UNCHANGED <<task_table, current_task, cr3, locked, active_on_cpu, ipi>>
        /\ \A u \in Threads : u # k => killing'[u] = killing[u]
        /\ killing'[k].thread = v /\ killing'[k].cpu = active_on_cpu[v]
        /\ \A u \in Threads : pc'[u] = IF u = k THEN "kill" ELSE pc[u]
        /\ threads[ProcOf[v]][i] = v
        BY <1>1 DEF KillBegin, TypeInv, TypeOK
  <2>2. CpuSound' BY <2>1 DEF CpuSound
  <2>3. active_on_cpu[v] = NoCpu <=> v # k
    <3>1. task_table[task_id[v]] = v /\ task_id[v] \in Slots
          BY <2>1 DEF TableInv, TablesAgree, TypeInv, TypeOK
    <3>2. \A d \in Cpus : active_on_cpu[v] = d => v = k
          BY <1>k, <3>1 DEF CpuSound, OneCpu
    <3> QED BY <1>0, <1>k, <3>2 DEF TypeInv, TypeOK
  <2>4. KillsHere' BY <2>1, <2>3 DEF KillsHere
  <2> QED BY <2>2, <2>4
<1>2. CASE KillWait(k) \/ KillRetry(k)
  <2>1. UNCHANGED <<task_table, current_task, cr3, locked, active_on_cpu, ipi, killing>>
        BY <1>2 DEF KillWait, KillRetry
  <2>2. \A u \in Threads : pc'[u] \in KillPcs => pc[u] \in KillPcs
        BY <1>2 DEF KillWait, KillRetry, TypeInv, TypeOK
  <2> QED BY <2>1, <2>2, CpuFrame
<1>3. ~KillSendIpi(k)
  <2>1. pc[k] = "kill" => killing[k].cpu \in Cpus \cup {NoCpu} BY DEF TypeInv, JobsTyped, KillJobs
  <2> QED BY <1>k, <2>1 DEF KillSendIpi, OtherCpu, OneCpu
<1>4. CASE KillFinish(k)
  <2> DEFINE j == killing[k]
             v == threads[j.pid][j.tid]
             s == task_id[v]
  <2>0. v = j.thread /\ v \in Threads /\ task_table[s] = v /\ pc[k] \in KillPcs
        BY <1>4, VictimRemovable
  <2>1. j.cpu \in Cpus \cup {NoCpu} BY <2>0 DEF TypeInv, JobsTyped, KillJobs
  <2>2. j.cpu = c <=> v = k
        BY <1>0, <2>0, <2>1 DEF KillsHere, OneCpu
  <2>3. s \in Slots BY <2>0 DEF TypeInv, TypeOK
  <2>4. /\ \A u \in Threads : pc'[u] = IF u = v THEN "none" ELSE IF u = k THEN "sys" ELSE pc[u]
        /\ \A u \in Threads : u # k => killing'[u] = killing[u]
        /\ \A r \in Slots : task_table'[r] = IF r = s THEN EMPTY ELSE task_table[r]
        /\ UNCHANGED <<locked, active_on_cpu, ipi>>
        BY <1>4, <2>0, <2>3 DEF KillFinish, ForgetThread, TypeInv, TypeOK
  <2>5. /\ \A d \in Cpus : current_task'[d] = IF v = k THEN NoTask ELSE current_task[d]
        /\ v # k => UNCHANGED cr3
    <3>1. /\ current_task' = IF j.cpu = c THEN [current_task EXCEPT ![c] = NoTask] ELSE current_task
          /\ cr3' = IF j.cpu = c THEN [cr3 EXCEPT ![c] = 0] ELSE cr3
          BY <1>4, <1>k DEF KillFinish
    <3> QED BY <2>2, <3>1 DEF OneCpu, TypeInv, TypeOK
  <2> HIDE DEF v, s, j
  <2>6. ASSUME NEW d \in Cpus, current_task'[d] # NoTask
        PROVE  /\ task_table'[current_task'[d]] \in Threads
               /\ task_table'[current_task'[d]] \in locked'
               /\ active_on_cpu'[task_table'[current_task'[d]]] = d
               /\ cr3'[d] = ProcOf[task_table'[current_task'[d]]]
    <3>1. v # k /\ d = c /\ current_task'[d] = current_task[c] BY <2>5, <2>6 DEF OneCpu
    <3>2. current_task[c] # s BY <1>k, <2>0, <3>1
    <3> QED BY <1>k, <2>4, <2>5, <2>6, <3>1, <3>2 DEF CpuSound
  <2>7. ASSUME NEW r \in Slots, task_table'[r] \in Threads
        PROVE  /\ task_table'[r] \in locked' => active_on_cpu'[task_table'[r]] \in Cpus
               /\ \A d \in Cpus : active_on_cpu'[task_table'[r]] = d => current_task'[d] = r
    <3>1. r # s /\ task_table'[r] = task_table[r] BY <2>4, <2>7
    <3>2. \A d \in Cpus : active_on_cpu[task_table[r]] = d => current_task[d] = r /\ v # k
      <4> SUFFICES ASSUME NEW d \in Cpus, active_on_cpu[task_table[r]] = d
                   PROVE  current_task[d] = r /\ v # k
          OBVIOUS
      <4>1. current_task[d] = r BY <2>7, <3>1 DEF CpuSound
      <4>2. d = c BY DEF OneCpu
      <4>3. v = k => s = r BY <1>k, <4>1, <4>2 DEF s
      <4> QED BY <3>1, <4>1, <4>3
    <3> QED BY <2>4, <2>5, <2>7, <3>1, <3>2 DEF CpuSound
  <2>8. KillsHere' BY <2>4 DEF KillsHere
  <2> QED BY <2>6, <2>7, <2>8 DEF CpuSound
<1> QED BY <1>1, <1>2, <1>3, <1>4

(* What CpuSound says of the properties of Scheduler.                        *)
LEMMA CpuImplies ==
    ASSUME TypeInv, CpuSound
    PROVE  RunsOnlyLive /\ NoLockLeaked /\ OwnAddressSpace
<1>1. RunsOnlyLive BY DEF RunsOnlyLive, CpuSound
<1>2. NoLockLeaked
  <2>1. locked \subseteq Threads BY DEF TypeInv, TypeOK
  <2> QED BY <2>1 DEF NoLockLeaked, CpuSound
<1>3. OwnAddressSpace BY DEF OwnAddressSpace, CpuSound, Runs
<1> QED BY <1>1, <1>2, <1>3

(* Every other step, in both cases.                                          *)
LEMMA CpuOther ==
    ASSUME TypeInv, CpuSound, KillsHere,
           UNCHANGED vars \/ \E e \in Events : event_trigger(e)
    PROVE  CpuSound' /\ KillsHere'
<1>1. UNCHANGED <<task_table, current_task, cr3, locked, active_on_cpu, ipi, killing, pc>>
      BY DEF vars, event_trigger, tableVars, cpuVars, killVars
<1> QED BY <1>1, CpuFrame

(* While nobody is killed, a CPU runs only threads in the table, with their
   lock, on the page map of their process, no thread runs on two CPUs and no
   lock is left behind, on any number of CPUs and wherever threads move.     *)
THEOREM CpusSoundWithoutKills ==
    ASSUME NoKills
    PROVE  Spec => [](RunsOnlyLive /\ NoLockLeaked /\ OwnAddressSpace)
<1> DEFINE Inv == TypeInv /\ SlotInv /\ Quiet /\ CpuSound /\ KillsHere
<1>1. Init => Inv BY TypeInit, SlotInit
<1>2. Inv /\ [Next]_vars => Inv'
  <2> SUFFICES ASSUME Inv, [Next]_vars PROVE CpuSound' /\ KillsHere'
      BY TypeStep, SlotStep
  <2>1. ASSUME NEW t \in Threads, ThreadStep(t) \/ SleepOver(t) PROVE CpuSound' /\ KillsHere'
    <3>1. /\ ~(\E v \in Threads, i \in Tids : KillBegin(t, v, i))
          /\ ~KillWait(t) /\ ~KillRetry(t) /\ ~KillSendIpi(t) /\ ~KillFinish(t)
          BY DEF Quiet, KillPcs, NoKills, KillBegin, MayKill, KillWait, KillRetry, KillSendIpi,
                 KillFinish, KillReady
    <3> QED BY <2>1, <3>1, CpuThreadSteps
  <2>2. ASSUME NEW c \in Cpus, task_resched(c) \/ ScanPastEnd(c) \/ ipi_abortexec(c)
        PROVE  CpuSound' /\ KillsHere'
        BY <2>2, CpuSwitches
  <2> QED BY <2>1, <2>2, CpuOther DEF Next
<1>3. Inv => RunsOnlyLive /\ NoLockLeaked /\ OwnAddressSpace BY CpuImplies
<1> QED BY <1>1, <1>2, <1>3, PTL DEF Spec

(* On one CPU the same holds whatever is killed: task_tkill waits for the
   victim's syscall under the lock, and the victim is then on no CPU or is
   the killer, which abort_thread_exec takes off its CPU.                    *)
THEOREM CpusSoundOnOneCpu ==
    ASSUME OneCpu, ~Migrates
    PROVE  Spec => [](RunsOnlyLive /\ NoLockLeaked /\ OwnAddressSpace)
<1> DEFINE Inv == TypeInv /\ TableInv /\ CpuSound /\ KillsHere
<1>1. Init => Inv BY TypeInit, TableInit, SlotInit
<1>2. Inv /\ [Next]_vars => Inv'
  <2> SUFFICES ASSUME Inv, [Next]_vars PROVE CpuSound' /\ KillsHere'
      BY TypeStep, TableStep
  <2>0. SlotInv BY TableSlots
  <2>1. ASSUME NEW t \in Threads, ThreadStep(t) \/ SleepOver(t) PROVE CpuSound' /\ KillsHere'
        BY <2>0, <2>1, CpuThreadSteps, CpuKills
  <2>2. ASSUME NEW c \in Cpus, task_resched(c) \/ ScanPastEnd(c) \/ ipi_abortexec(c)
        PROVE  CpuSound' /\ KillsHere'
        BY <2>0, <2>2, CpuSwitches
  <2> QED BY <2>1, <2>2, CpuOther DEF Next
<1>3. Inv => RunsOnlyLive /\ NoLockLeaked /\ OwnAddressSpace BY CpuImplies
<1> QED BY <1>1, <1>2, <1>3, PTL DEF Spec

-----------------------------------------------------------------------------
(***************************************************************************)
(* The loop of task_get_next                                                *)
(***************************************************************************)

(* A set of numbers that contains 0 and the successor of each member below m
   contains every number up to m.                                            *)
LEMMA ReachesAll ==
    ASSUME NEW m \in Nat, NEW S, 0 \in S, \A k \in 0 .. m - 1 : k \in S => k + 1 \in S
    PROVE  \A k \in 0 .. m : k \in S
<1> SUFFICES ASSUME NEW j \in 0 .. m, j \notin S PROVE FALSE OBVIOUS
<1> DEFINE Less == {ss \in Nat \X Nat : ss[1] < ss[2]}
           Rest == {k \in 0 .. m : k \notin S}
<1>1. IsWellFoundedOn(Less, Nat) BY NatLessThanWellFounded, Zenon DEF OpToRel
<1>2. Rest \subseteq Nat /\ Rest # {} OBVIOUS
<1>3. PICK x \in Rest : \A y \in Rest : ~ (<<y, x>> \in Less)
  <2> HIDE DEF Less, Rest
  <2> QED BY <1>1, <1>2, WFMin
<1>4. \A y \in Rest : ~ (y < x) BY <1>2, <1>3
<1>5. x \in 0 .. m /\ x \notin S /\ x # 0 BY <1>3
<1>6. x - 1 \in 0 .. m - 1 /\ x - 1 < x BY <1>5
<1>7. x - 1 \in S BY <1>4, <1>6
<1> QED BY <1>5, <1>6, <1>7

(* The state of the loop when it enters the iteration after loop.            *)
Advance(loop, held) == IF Ended(loop) THEN loop ELSE Iterate(loop, held)
Start(from) == [at |-> from + 1, visited |-> 0, found |-> NoTask]

(* The scan is the sequence of states that starts at Start and advances.     *)
LEMMA ScanUnfolds ==
    ASSUME NEW from, NEW held
    PROVE  \E f : /\ Scanned(from, held) = f[MAX_TASKS]
                  /\ f[0] = Start(from)
                  /\ \A k \in 0 .. MAX_TASKS - 1 : f[k + 1] = Advance(f[k], held)
<1> DEFINE Fix(f, m) ==
             f = [k \in 0 .. m |-> IF k = 0 THEN Start(from) ELSE Advance(f[k - 1], held)]
           S == {m \in Nat : \E f : Fix(f, m)}
<1>0. MAX_TASKS \in Nat BY SchedulerAssumption
<1>1. 0 \in S
  <2>1. Fix([k \in 0 .. 0 |-> Start(from)], 0) OBVIOUS
  <2> HIDE DEF Fix
  <2> QED BY <2>1
<1>2. \A m \in 0 .. MAX_TASKS - 1 : m \in S => m + 1 \in S
  <2> SUFFICES ASSUME NEW m \in Nat, NEW f, Fix(f, m) PROVE m + 1 \in S BY <1>0
  <2> DEFINE g == [k \in 0 .. m + 1 |-> IF k <= m THEN f[k] ELSE Advance(f[m], held)]
  <2>1. \A k \in 0 .. m : f[k] = IF k = 0 THEN Start(from) ELSE Advance(f[k - 1], held)
        BY Zenon
  <2>2. \A k \in 0 .. m + 1 : g[k] = IF k = 0 THEN Start(from) ELSE Advance(g[k - 1], held)
    <3> SUFFICES ASSUME NEW k \in 0 .. m + 1
                 PROVE  g[k] = IF k = 0 THEN Start(from) ELSE Advance(g[k - 1], held)
        OBVIOUS
    <3> HIDE DEF Fix
    <3>1. CASE k = 0 BY <2>1, <3>1
    <3>2. CASE k \in 1 .. m
      <4>1. g[k] = f[k] /\ g[k - 1] = f[k - 1] BY <3>2
      <4> QED BY <2>1, <3>2, <4>1
    <3>3. CASE k = m + 1
      <4>1. g[k] = Advance(f[m], held) /\ g[k - 1] = f[m] BY <3>3
      <4> QED BY <3>3, <4>1
    <3> QED BY <3>1, <3>2, <3>3
  <2>3. Fix(g, m + 1)
    <3> DEFINE h == [k \in 0 .. m + 1 |-> IF k = 0 THEN Start(from) ELSE Advance(g[k - 1], held)]
    <3>1. \A k \in 0 .. m + 1 : g[k] = h[k] BY <2>2, Zenon
    <3>2. DOMAIN g = 0 .. m + 1 /\ DOMAIN h = 0 .. m + 1
          /\ g = [k \in DOMAIN g |-> g[k]] /\ h = [k \in DOMAIN h |-> h[k]]
          OBVIOUS
    <3>3. g = h
      <4> HIDE DEF g, h
      <4> QED BY <3>1, <3>2
    <3> QED BY <3>3, Zenon
  <2> HIDE DEF Fix, g
  <2> QED BY <2>3
<1>3. MAX_TASKS \in S
  <2> HIDE DEF S
  <2> QED BY <1>0, <1>1, <1>2, ReachesAll
<1>4. PICK g : Fix(g, MAX_TASKS) BY <1>3
<1> HIDE DEF S
<1>5. g = [k \in 0 .. MAX_TASKS |->
              IF k = 0 THEN [at |-> from + 1, visited |-> 0, found |-> NoTask]
              ELSE IF Ended(g[k - 1]) THEN g[k - 1] ELSE Iterate(g[k - 1], held)]
      BY <1>4, Zenon DEF Start, Advance
<1> DEFINE scan[k \in 0 .. MAX_TASKS] ==
               IF k = 0 THEN [at |-> from + 1, visited |-> 0, found |-> NoTask]
               ELSE IF Ended(scan[k - 1]) THEN scan[k - 1] ELSE Iterate(scan[k - 1], held)
<1>6. Scanned(from, held) = scan[MAX_TASKS] BY DEF Scanned
<1>7. scan = [k \in 0 .. MAX_TASKS |->
                 IF k = 0 THEN [at |-> from + 1, visited |-> 0, found |-> NoTask]
                 ELSE IF Ended(scan[k - 1]) THEN scan[k - 1] ELSE Iterate(scan[k - 1], held)]
      BY <1>5, Zenon
<1> HIDE DEF scan, Fix
<1>8. scan[0] = Start(from) BY <1>0, <1>7 DEF Start
<1>9. \A k \in 0 .. MAX_TASKS - 1 : scan[k + 1] = Advance(scan[k], held)
  <2> SUFFICES ASSUME NEW k \in 0 .. MAX_TASKS - 1 PROVE scan[k + 1] = Advance(scan[k], held)
      OBVIOUS
  <2>1. k + 1 \in 0 .. MAX_TASKS /\ k + 1 # 0 /\ (k + 1) - 1 = k BY <1>0
  <2> QED BY <1>7, <2>1 DEF Advance
<1> QED BY <1>6, <1>8, <1>9

(* A scan that has looked at the slots of S without finding an eligible
   thread has counted the threads among them.                                *)
Searched(loop, held, S) ==
    /\ loop = [at |-> loop.at, visited |-> loop.visited, found |-> NoTask]
    /\ \A s \in S : ~Eligible(s, held)
    /\ loop.visited = Cardinality(Used(task_table) \cap S)

(* Slots a scan from behind `from' has looked at when it comes to slot `at',
   before and after it has gone back to slot 0.                              *)
Before(from, at) == {s \in Slots : from < s /\ s < at}
Behind(from, at) == {s \in Slots : from < s \/ s < at}

(* Where the loop can be after k iterations: in its first pass, back from
   slot 0, through with all slots, or at the nearest eligible one.           *)
LoopSound(from, held, k, loop) ==
    \/ /\ loop.at = from + 1 + k /\ loop.at <= MAX_TASKS
       /\ Searched(loop, held, Before(from, loop.at))
    \/ /\ loop.at \in 0 .. from + 1 /\ loop.at >= from + 1 + k - MAX_TASKS
       /\ Searched(loop, held, Behind(from, loop.at))
    \/ Searched(loop, held, Slots)
    \/ /\ loop.found \in Slots
       /\ task_get_next(from, held, loop.found)

(* A scan that has seen every thread ends, and one that ends so has seen
   every thread.                                                             *)
LEMMA SearchedEnds ==
    ASSUME TypeOK, TaskCountExact, NEW loop, NEW held, NEW S \in SUBSET Slots,
           Searched(loop, held, S)
    PROVE  Ended(loop) <=> Used(task_table) \subseteq S
<1> DEFINE U == Used(task_table)
<1>1. IsFiniteSet(U) /\ task_count = Cardinality(U)
  <2>1. IsFiniteSet(Slots) BY SchedulerAssumption, FS_Interval DEF Slots
  <2>2. U \subseteq Slots BY DEF Used
  <2> QED BY <2>1, <2>2, FS_Subset DEF TaskCountExact, Used
<1>2. Ended(loop) <=> Cardinality(U \cap S) >= Cardinality(U)
  <2>1. loop.found = NoTask /\ loop.visited = Cardinality(U \cap S) BY DEF Searched
  <2> QED BY <1>1, <2>1 DEF Ended
<1> HIDE DEF U
<1>3. /\ IsFiniteSet(U \cap S) /\ Cardinality(U \cap S) <= Cardinality(U)
      /\ Cardinality(U \cap S) = Cardinality(U) => U \cap S = U
      /\ Cardinality(U) \in Nat /\ Cardinality(U \cap S) \in Nat
  <2>1. U \cap S \subseteq U OBVIOUS
  <2>2. IsFiniteSet(U \cap S) /\ Cardinality(U \cap S) <= Cardinality(U)
        /\ (Cardinality(U \cap S) = Cardinality(U) => U \cap S = U)
        BY <1>1, <2>1, FS_Subset
  <2> QED BY <1>1, <2>2, FS_CardinalityType
<1>4. U \subseteq S => U \cap S = U OBVIOUS
<1>5. Used(task_table) = U BY DEF U
<1> QED BY <1>2, <1>3, <1>4, <1>5

(* What one look at slot s that finds nothing adds.                          *)
LEMMA SearchedAdds ==
    ASSUME TypeOK, NEW loop, NEW held, NEW S \in SUBSET Slots, NEW s \in Slots \ S,
           Searched(loop, held, S), ~Eligible(s, held), NEW at
    PROVE  Searched([loop EXCEPT !.at = at, !.visited = Visited(loop.visited, s)],
                    held, S \cup {s})
<1> DEFINE U == Used(task_table)
           next == [loop EXCEPT !.at = at, !.visited = Visited(loop.visited, s)]
<1>1. next = [at |-> at, visited |-> Visited(loop.visited, s), found |-> NoTask]
  <2>1. PICK a, v : loop = [at |-> a, visited |-> v, found |-> NoTask] BY DEF Searched
  <2>2. \A w : [loop EXCEPT !.at = at, !.visited = w]
                 = [at |-> at, visited |-> w, found |-> NoTask]
    <3> DEFINE moved == [loop EXCEPT !.at = at]
    <3>1. moved = [at |-> at, visited |-> v, found |-> NoTask] BY <2>1
    <3> HIDE DEF moved
    <3>2. \A w : [moved EXCEPT !.visited = w] = [at |-> at, visited |-> w, found |-> NoTask]
          BY <3>1
    <3> QED BY <3>2 DEF moved
  <2> QED BY <2>2
<1>2. Visited(loop.visited, s) = Cardinality(U \cap (S \cup {s}))
  <2>1. IsFiniteSet(U \cap S)
    <3>1. IsFiniteSet(Slots) BY SchedulerAssumption, FS_Interval DEF Slots
    <3>2. U \cap S \subseteq Slots OBVIOUS
    <3> QED BY <3>1, <3>2, FS_Subset
  <2>2. loop.visited = Cardinality(U \cap S) BY DEF Searched
  <2>3. CASE task_table[s] \in Threads
    <3>1. U \cap (S \cup {s}) = (U \cap S) \cup {s} BY <2>3 DEF Used
    <3>2. Cardinality((U \cap S) \cup {s}) = Cardinality(U \cap S) + 1
          BY <2>1, FS_AddElement
    <3> QED BY <2>2, <2>3, <3>1, <3>2 DEF Visited
  <2>4. CASE task_table[s] \notin Threads
    <3>1. U \cap (S \cup {s}) = U \cap S BY <2>4 DEF Used
    <3> QED BY <2>2, <2>4, <3>1 DEF Visited
  <2> QED BY <2>3, <2>4
<1>3. \A r \in S \cup {s} : ~Eligible(r, held) BY DEF Searched
<1> HIDE DEF next
<1>4. next.at = at /\ next.visited = Visited(loop.visited, s) BY <1>1
<1>5. Searched(next, held, S \cup {s}) BY <1>1, <1>2, <1>3, <1>4 DEF Searched
<1> QED BY <1>5 DEF next

(* NULL entries may be added to what has been looked at.                     *)
LEMMA SearchedMore ==
    ASSUME NEW loop, NEW held, NEW S \in SUBSET Slots, NEW T \in SUBSET Slots,
           Searched(loop, held, S), S \subseteq T,
           \A s \in T \ S : task_table[s] \notin Threads
    PROVE  Searched(loop, held, T)
<1>1. Used(task_table) \cap S = Used(task_table) \cap T BY DEF Used
<1>2. \A s \in T : ~Eligible(s, held) BY DEF Searched, Eligible
<1> QED BY <1>1, <1>2 DEF Searched

(* The slot an iteration looks at, and where the next one goes on.            *)
SlotOf(loop) ==
    IF loop.at = MAX_TASKS THEN 0 ELSE IF task_table[loop.at] = NULL THEN 0 ELSE loop.at
Onward(s) == IF s + 1 = MAX_TASKS THEN 0 ELSE s + 1

(* Looking at slot s after the slots of S: the loop ends at s if s is
   eligible and goes on otherwise.                                           *)
LEMMA LookAt ==
    ASSUME TypeOK, NEW loop, NEW held, NEW S \in SUBSET Slots, NEW s \in Slots \ S,
           NEW from, Searched(loop, held, S),
           s = SlotOf(loop),
           \A r \in Slots \ S : r # s => Ahead(from, s) < Ahead(from, r)
    PROVE  \/ /\ Iterate(loop, held).found \in Slots
              /\ task_get_next(from, held, Iterate(loop, held).found)
           \/ /\ Iterate(loop, held).at = Onward(s)
              /\ Searched(Iterate(loop, held), held, S \cup {s})
<1> DEFINE next == Iterate(loop, held)
           on == Onward(s)
<1>1. PICK a, v : loop = [at |-> a, visited |-> v, found |-> NoTask] BY DEF Searched
<1>2. CASE Eligible(s, held)
  <2>1. next = [loop EXCEPT !.found = s] BY <1>2 DEF Iterate, SlotOf
  <2>2. next.found = s BY <1>1, <2>1
  <2>3. \A r \in S : ~Eligible(r, held) BY DEF Searched
  <2>4. task_get_next(from, held, s) BY <1>2, <2>3 DEF task_get_next
  <2> QED BY <2>2, <2>4
<1>3. CASE ~Eligible(s, held)
  <2>1. next = [loop EXCEPT !.at = on, !.visited = Visited(loop.visited, s)]
        BY <1>3, Zenon DEF Iterate, SlotOf, Onward
  <2>2. Searched(next, held, S \cup {s})
    <3> HIDE DEF next, on
    <3> QED BY <1>3, <2>1, SearchedAdds
  <2>3. next.at = on
    <3> HIDE DEF next, on
    <3>1. \A w : [loop EXCEPT !.at = on, !.visited = w].at = on BY <1>1
    <3> QED BY <2>1, <3>1
  <2> QED BY <2>2, <2>3
<1> QED BY <1>2, <1>3

LEMMA LoopStep ==
    ASSUME TypeOK, TaskCountExact, TableDense, NEW held,
           NEW from \in Slots \cup {NoTask}, from # NoTask => task_table[from] \in Threads,
           NEW k \in 0 .. MAX_TASKS - 1, NEW loop, LoopSound(from, held, k, loop)
    PROVE  LoopSound(from, held, k + 1, Advance(loop, held))
<1> DEFINE next == Iterate(loop, held)
<1>0. /\ MAX_TASKS \in Nat \ {0} /\ from \in Int /\ from >= -1 /\ from < MAX_TASKS
      /\ k \in Nat /\ k < MAX_TASKS
      BY SchedulerAssumption DEF Slots, NoTask
<1>1. CASE loop.found \in Slots /\ task_get_next(from, held, loop.found)
  <2>1. Ended(loop) BY <1>1 DEF Ended, Slots, NoTask
  <2> QED BY <1>1, <2>1 DEF Advance, LoopSound
<1>2. CASE Searched(loop, held, Slots)
  <2>1. Ended(loop) BY <1>2, SearchedEnds DEF Used
  <2> QED BY <1>2, <2>1 DEF Advance, LoopSound
<1> DEFINE Next1(S, s) == /\ s \in Slots \ S
                          /\ s = SlotOf(loop)
                          /\ \A r \in Slots \ S : r # s => Ahead(from, s) < Ahead(from, r)
<1>3. ASSUME NEW S \in SUBSET Slots, NEW s, Next1(S, s), Searched(loop, held, S)
      PROVE  \/ LoopSound(from, held, k + 1, next)
             \/ /\ next.at = Onward(s)
                /\ Searched(next, held, S \cup {s})
  <2>1. s \in Slots \ S BY <1>3
  <2>2. \/ next.found \in Slots /\ task_get_next(from, held, next.found)
        \/ /\ next.at = Onward(s)
           /\ Searched(next, held, S \cup {s})
    <3>1. s = SlotOf(loop) /\ \A r \in Slots \ S : r # s => Ahead(from, s) < Ahead(from, r)
          BY <1>3
    <3> HIDE DEF Next1
    <3> QED BY <1>3, <2>1, <3>1, LookAt
  <2> HIDE DEF next
  <2> QED BY <2>2 DEF LoopSound
<1> HIDE DEF Next1
<1>4. ASSUME loop.at \in 0 .. from + 1, loop.at >= from + 1 + k - MAX_TASKS,
             Searched(loop, held, Behind(from, loop.at))
      PROVE  LoopSound(from, held, k + 1, Advance(loop, held))
  <2> DEFINE at == loop.at
             S == Behind(from, at)
  <2>0. at \in Nat BY <1>4
  <2>1. S \in SUBSET Slots BY DEF Behind
  <2>2. CASE at = from + 1
    <3>1. S = Slots BY <1>0, <2>0, <2>2 DEF Behind, Slots
    <3> QED BY <1>2, <1>4, <3>1
  <2>3. CASE at # from + 1
    <3>1. at \in Slots /\ at <= from BY <1>0, <1>4, <2>3 DEF Slots
    <3>2. task_table[at] # NULL /\ from \in Slots
      <4>1. from \in Slots /\ task_table[from] \in Threads BY <1>0, <3>1 DEF Slots, NoTask
      <4>2. task_table[from] # NULL BY <4>1, SchedulerAssumption
      <4> QED BY <3>1, <4>1, <4>2 DEF TableDense, Slots
    <3>3. Next1(S, at)
      <4>1. at # MAX_TASKS BY <3>1, <1>0 DEF Slots
      <4>2. at \in Slots \ S BY <1>0, <3>1 DEF Behind, Slots
      <4>3. \A r \in Slots \ S : r # at => Ahead(from, at) < Ahead(from, r)
            BY <1>0, <3>1 DEF Behind, Slots, Ahead
      <4> QED BY <3>2, <4>1, <4>2, <4>3 DEF Next1, SlotOf
    <3>4. S \cup {at} = Behind(from, at + 1) BY <1>0, <3>1 DEF Behind, Slots
    <3>5. ~Ended(loop) => LoopSound(from, held, k + 1, next)
      <4>1. CASE next.at = at + 1 /\ Searched(next, held, S \cup {at})
        <5>1. at + 1 \in 0 .. from + 1 /\ at + 1 >= from + 1 + (k + 1) - MAX_TASKS
              BY <1>0, <1>4, <3>1
        <5> QED BY <3>4, <4>1, <5>1 DEF LoopSound
      <4>2. CASE at + 1 = MAX_TASKS /\ Searched(next, held, S \cup {at})
        <5>1. S \cup {at} = Slots BY <1>0, <3>1, <4>2 DEF Behind, Slots
        <5> QED BY <4>2, <5>1 DEF LoopSound
      <4> HIDE DEF S, at
      <4>3. Searched(loop, held, S) BY <1>4 DEF S, at
      <4> QED BY <1>3, <2>1, <3>3, <4>1, <4>2, <4>3 DEF Onward
    <3>6. Ended(loop) => LoopSound(from, held, k + 1, loop)
      <4> SUFFICES ASSUME Ended(loop) PROVE LoopSound(from, held, k + 1, loop) OBVIOUS
      <4>1. Used(task_table) \subseteq S BY <1>4, <2>1, SearchedEnds
      <4>2. Searched(loop, held, Slots)
        <5>1. \A s \in Slots \ S : task_table[s] \notin Threads BY <4>1 DEF Used
        <5> QED BY <1>4, <2>1, <5>1, SearchedMore
      <4> QED BY <4>2 DEF LoopSound
    <3> QED BY <3>5, <3>6 DEF Advance
  <2> QED BY <2>2, <2>3
<1>5. ASSUME loop.at = from + 1 + k, loop.at <= MAX_TASKS,
             Searched(loop, held, Before(from, loop.at))
      PROVE  LoopSound(from, held, k + 1, Advance(loop, held))
  <2> DEFINE at == loop.at
             S == Before(from, at)
  <2>0. at \in Nat /\ at >= from + 1 BY <1>0, <1>5
  <2>1. S \in SUBSET Slots BY DEF Before
  <2>2. CASE Ended(loop)
    <3>1. Used(task_table) \subseteq S BY <1>5, <2>1, <2>2, SearchedEnds
    <3>2. Searched(loop, held, Slots)
      <4>1. \A s \in Slots \ S : task_table[s] \notin Threads BY <3>1 DEF Used
      <4> QED BY <1>5, <2>1, <4>1, SearchedMore
    <3> QED BY <1>2, <3>2
  <2>3. CASE ~Ended(loop) /\ at \in Slots /\ task_table[at] # NULL
    <3>1. Next1(S, at)
      <4>1. at # MAX_TASKS BY <2>3, <1>0 DEF Slots
      <4>2. at \in Slots \ S BY <1>0, <2>3 DEF Before, Slots
      <4>3. \A r \in Slots \ S : r # at => Ahead(from, at) < Ahead(from, r)
            BY <1>0, <2>0, <2>3 DEF Before, Slots, Ahead
      <4> QED BY <2>3, <4>1, <4>2, <4>3 DEF Next1, SlotOf
    <3>2. S \cup {at} = Before(from, at + 1) BY <1>0, <2>0, <2>3 DEF Before, Slots
    <3>3. LoopSound(from, held, k + 1, next)
      <4>1. CASE next.at = at + 1 /\ Searched(next, held, S \cup {at})
        <5>1. at + 1 = from + 1 + (k + 1) /\ at + 1 <= MAX_TASKS
              BY <1>0, <1>5, <2>3 DEF Slots
        <5> QED BY <3>2, <4>1, <5>1 DEF LoopSound
      <4>2. CASE at + 1 = MAX_TASKS /\ next.at = 0 /\ Searched(next, held, S \cup {at})
        <5>1. S \cup {at} = Behind(from, 0) BY <1>0, <2>0, <4>2 DEF Before, Behind, Slots
        <5>2. 0 \in 0 .. from + 1 /\ 0 >= from + 1 + (k + 1) - MAX_TASKS
              BY <1>0, <1>5, <4>2
        <5> QED BY <4>2, <5>1, <5>2 DEF LoopSound
      <4> HIDE DEF S, at
      <4>3. Searched(loop, held, S) BY <1>5 DEF S, at
      <4> QED BY <1>3, <2>1, <3>1, <4>1, <4>2, <4>3 DEF Onward
    <3> QED BY <2>3, <3>3 DEF Advance
  <2>4. CASE ~Ended(loop) /\ ~(at \in Slots /\ task_table[at] # NULL)
    <3> DEFINE B == Behind(from, 0)
    <3>0. at = MAX_TASKS \/ (at \in Slots /\ task_table[at] = NULL)
          BY <1>0, <1>5, <2>0, <2>4 DEF Slots
    <3>1. Searched(loop, held, B)
      <4>1. S \subseteq B /\ B \in SUBSET Slots BY <1>0, <2>0 DEF Before, Behind, Slots
      <4>2. \A s \in B \ S : task_table[s] = NULL
        <5> SUFFICES ASSUME NEW s \in B \ S PROVE task_table[s] = NULL OBVIOUS
        <5>1. s \in Slots /\ s >= at /\ s \in Nat BY <1>0, <2>0 DEF Before, Behind, Slots
        <5>2. at # MAX_TASKS BY <1>0, <5>1 DEF Slots
        <5> QED BY <2>0, <3>0, <5>1, <5>2 DEF TableDense
      <4>3. \A s \in B \ S : task_table[s] \notin Threads BY <4>2, SchedulerAssumption
      <4> QED BY <1>5, <2>1, <4>1, <4>3, SearchedMore
    <3>2. from # NoTask
      <4> SUFFICES ASSUME from = NoTask PROVE FALSE OBVIOUS
      <4>1. B = Slots BY <1>0 DEF Behind, Slots, NoTask
      <4> QED BY <2>4, <3>1, <4>1, SearchedEnds DEF Used
    <3>3. Next1(B, 0)
      <4>1. 0 \in Slots \ B BY <1>0, <3>2 DEF Behind, Slots, NoTask
      <4>2. \A r \in Slots \ B : r # 0 => Ahead(from, 0) < Ahead(from, r)
            BY <1>0, <3>2 DEF Behind, Slots, NoTask, Ahead
      <4> QED BY <3>0, <4>1, <4>2 DEF Next1, SlotOf
    <3>4. B \cup {0} = Behind(from, 1) BY <1>0, <3>2 DEF Behind, Slots, NoTask
    <3>5. LoopSound(from, held, k + 1, next)
      <4>1. CASE next.at = 1 /\ Searched(next, held, B \cup {0})
        <5>1. 1 \in 0 .. from + 1 /\ 1 >= from + 1 + (k + 1) - MAX_TASKS
              BY <1>0, <1>5, <3>2 DEF NoTask
        <5> QED BY <3>4, <4>1, <5>1 DEF LoopSound
      <4>2. CASE MAX_TASKS = 1 /\ Searched(next, held, B \cup {0})
        <5>1. B \cup {0} = Slots BY <1>0, <3>2, <4>2 DEF Behind, Slots, NoTask
        <5> QED BY <4>2, <5>1 DEF LoopSound
      <4>3. B \in SUBSET Slots BY DEF Behind
      <4> HIDE DEF B
      <4> QED BY <1>0, <1>3, <3>1, <3>3, <4>1, <4>2, <4>3 DEF Onward
    <3> QED BY <2>4, <3>5 DEF Advance
  <2> QED BY <2>2, <2>3, <2>4
<1> QED BY <1>1, <1>2, <1>4, <1>5 DEF LoopSound

(* With a dense table and an exact count the scan is as it should be.        *)
LEMMA ScanSound ==
    ASSUME TypeOK, TaskCountExact, TableDense PROVE ScanFindsNearest
<1> SUFFICES ASSUME NEW c \in Cpus, CanResched(c)
             PROVE  LET loop == Scanned(current_task[c], HeldWithout(c))
                    IN  /\ Ended(loop)
                        /\ IF loop.found = NoTask THEN \A s \in Slots : ~Eligible(s, HeldWithout(c))
                           ELSE task_get_next(current_task[c], HeldWithout(c), loop.found)
    BY DEF ScanFindsNearest
<1> DEFINE from == current_task[c]
           held == HeldWithout(c)
           loop == Scanned(from, held)
<1>0. MAX_TASKS \in Nat \ {0} BY SchedulerAssumption
<1>1. from \in Slots \cup {NoTask} BY DEF TypeOK
<1>2. from # NoTask => task_table[from] \in Threads BY DEF CanResched, Outgoing
<1> HIDE DEF from, held
<1>3. PICK f : /\ loop = f[MAX_TASKS] /\ f[0] = Start(from)
               /\ \A k \in 0 .. MAX_TASKS - 1 : f[k + 1] = Advance(f[k], held)
      BY ScanUnfolds
<1> HIDE DEF loop
<1>4. LoopSound(from, held, 0, f[0])
  <2>1. Start(from).at = from + 1 /\ Start(from).visited = 0
        /\ Start(from) = [at |-> from + 1, visited |-> 0, found |-> NoTask]
        BY DEF Start
  <2>2. from + 1 <= MAX_TASKS /\ from + 1 = from + 1 + 0
        BY <1>0, <1>1 DEF Slots, NoTask
  <2>3. Before(from, from + 1) = {} BY <1>0, <1>1 DEF Before, Slots, NoTask
  <2>4. Cardinality(Used(task_table) \cap {}) = 0
    <3>1. Used(task_table) \cap {} = {} OBVIOUS
    <3> QED BY <3>1, FS_EmptySet
  <2>5. Searched(Start(from), held, {}) BY <2>1, <2>4 DEF Searched
  <2> QED BY <1>3, <2>1, <2>2, <2>3, <2>5 DEF LoopSound
<1>5. LoopSound(from, held, MAX_TASKS, loop)
  <2> DEFINE K == {k \in 0 .. MAX_TASKS : LoopSound(from, held, k, f[k])}
  <2>1. 0 \in K BY <1>0, <1>4
  <2>2. \A k \in 0 .. MAX_TASKS - 1 : k \in K => k + 1 \in K
    <3> SUFFICES ASSUME NEW k \in 0 .. MAX_TASKS - 1, k \in K PROVE k + 1 \in K OBVIOUS
    <3>1. LoopSound(from, held, k + 1, Advance(f[k], held))
          BY <1>1, <1>2, LoopStep
    <3> QED BY <1>0, <1>3, <3>1
  <2> HIDE DEF K
  <2>3. MAX_TASKS \in K BY <1>0, <2>1, <2>2, ReachesAll
  <2> QED BY <1>3, <2>3 DEF K
<1>6. ASSUME NEW S \in SUBSET Slots, Searched(loop, held, S), Used(task_table) \subseteq S
      PROVE  Ended(loop) /\ loop.found = NoTask /\ \A s \in Slots : ~Eligible(s, held)
  <2>1. Ended(loop) BY <1>6, SearchedEnds
  <2>2. loop.found = NoTask BY <1>6 DEF Searched
  <2>3. \A s \in Slots : ~Eligible(s, held) BY <1>6 DEF Searched, Eligible, Used
  <2> QED BY <2>1, <2>2, <2>3
<1>7. Used(task_table) \subseteq Slots BY DEF Used
<1>8. CASE /\ loop.at = from + 1 + MAX_TASKS /\ loop.at <= MAX_TASKS
           /\ Searched(loop, held, Before(from, loop.at))
  <2>1. Before(from, loop.at) = Slots BY <1>0, <1>1, <1>8 DEF Before, Slots, NoTask
  <2> QED BY <1>6, <1>7, <1>8, <2>1 DEF from, held, loop
<1>9. CASE /\ loop.at \in 0 .. from + 1 /\ loop.at >= from + 1 + MAX_TASKS - MAX_TASKS
           /\ Searched(loop, held, Behind(from, loop.at))
  <2>1. Behind(from, loop.at) = Slots BY <1>0, <1>1, <1>9 DEF Behind, Slots, NoTask
  <2> QED BY <1>6, <1>7, <1>9, <2>1 DEF from, held, loop
<1>10. CASE Searched(loop, held, Slots) BY <1>6, <1>7, <1>10 DEF from, held, loop
<1>11. CASE loop.found \in Slots /\ task_get_next(from, held, loop.found)
  BY <1>11 DEF from, held, loop, Ended, Slots, NoTask
<1> QED BY <1>5, <1>8, <1>9, <1>10, <1>11 DEF LoopSound

(* The loop of task_get_next ends within one round and returns the eligible
   thread nearest ahead, in every table that creations, failures, forks and
   kills can leave.                                                          *)
THEOREM ScanAlwaysFindsNearest ==
    ASSUME ~Migrates
    PROVE  Spec => []ScanFindsNearest
<1>1. Init => TypeInv /\ TableInv BY TypeInit, TableInit
<1>2. TypeInv /\ TableInv /\ [Next]_vars => (TypeInv /\ TableInv)'
      BY TypeStep, TableStep
<1>3. TypeInv /\ TableInv => ScanFindsNearest
      BY ScanSound DEF TypeInv, TableInv
<1> QED BY <1>1, <1>2, <1>3, PTL DEF Spec
=============================================================================
