-------------------------- MODULE DescriptorsProofs --------------------------
(***************************************************************************)
(* Theorems about Descriptors, for any number of processes, threads,        *)
(* handles, descriptors and pipes.  The counts of descriptors and pipes are *)
(* exact, and bytes keep their order within a page, as long as no two       *)
(* threads close the same descriptor at once, whatever else races.  As long *)
(* as no two threads read the same pipe either, a reader is never left      *)
(* asleep over what it waits for.  When the calls that use a descriptor     *)
(* without the lock of the table run apart from the other calls of their    *)
(* process, no two threads close the same descriptor, every descriptor has  *)
(* exactly one owner and no call meets a descriptor that is gone.           *)
(***************************************************************************)
EXTENDS Descriptors, FiniteSetTheorems, SequenceTheorems, TLAPS

UserThreads == Procs \X Tids

(* The calls that change handles, by what they have looked up. *)
Closing == {"close", "dup2", "exit"}
ByHandle == {"read", "write", "stat", "close", "dup2", "dupfd", "setfl"}
Dups == {"dup2", "dupfd", "fork"}

(* Places in which a thread has an entry of file_descriptors or of pipes. *)
FdPlaces == {"copied", "pipe", "op", "wait", "unref", "put"}
PipePlaces == {"op", "wait", "unref"}

(* The places of a close that has its descriptor and has not removed it. *)
Closers == {"close", "copied", "remove"}

(* Where a thread is fits the call it makes and what the call has found. *)
JobSound(t) ==
    LET j == job[t] IN
    /\ pc[t] = "user" => j = NoJob
    /\ t = Urm => j.call \in {"none", "exit"} /\ pc[t] \in Closers \cup {"user", "pipe", "op", "unref", "closed", "exit"}
    /\ t # Urm => j.call # "exit" /\ pc[t] # "exit"
    /\ pc[t] = "lock" => j.call \in Calls /\ j.fd = -1 /\ j.old = -1
    /\ pc[t] # "user" => j.call # "none"
    /\ j.call \in ByHandle => j.h \in Handles
    /\ j.call = "fork" /\ pc[t] = "lock" => j.h = 0 /\ j.new = 0
    /\ pc[t] = "find" => j.call = "dupfd" /\ j.fd \in Fds
    /\ pc[t] = "fd" => j.fd \in Fds /\ j.call \notin {"open", "close", "exit"}
    /\ pc[t] \in {"pipe", "op", "unref"} =>
          /\ j.intern \in Pipes /\ j.call \notin {"open", "stat"}
          /\ j.fd = -1 => j.call \in Closing
          /\ j.fd # -1 => j.call \notin {"close", "exit"}
    /\ pc[t] = "wait" => j.call = "read" /\ j.fd \in Fds /\ j.intern \in Pipes
    /\ pc[t] = "put" => j.fd \in Fds /\ j.call \notin {"open", "close", "exit"}
    /\ pc[t] = "create" => j.fd \in Fds /\ j.call \in Dups
    /\ pc[t] = "store" => j.fd \in Fds /\ j.call = "dup2"
    /\ pc[t] \in Closers => j.fd \in Fds /\ j.call \in Closing
    /\ pc[t] = "closed" => j.fd = -1 /\ j.call \in Closing
    /\ pc[t] = "fork" => j.call = "fork"
    /\ pc[t] = "exit" => j.call = "exit"
    /\ j.call = "exit" /\ pc[t] # "exit" => j.h \in Handles
    /\ j.call = "fork" /\ pc[t] \notin {"lock", "fork"} => j.h \in Handles
    /\ j.call = "fork" /\ pc[t] # "lock" => j.new \in Procs
    /\ j.call = "dup2" => j.new \in Handles
    /\ j.call = "dup2" /\ pc[t] # "lock" => j.old \in Fds
    /\ j.call = "dupfd" /\ pc[t] \notin {"lock", "find"} => j.new \in Handles

JobsSound == \A t \in Threads : JobSound(t)

(* The threads that have descriptor d, or pipe i. *)
FdUsers(d) == {t \in Threads : Fd(t) = d /\ pc[t] \in FdPlaces}
PipeUsers(i) == {t \in Threads : job[t].intern = i /\ pc[t] \in PipePlaces}

One(b) == IF b THEN 1 ELSE 0

(* The references to a descriptor are counted, and whoever has one knows what
   it is for. *)
FdRefs(d) ==
    LET e == file_descriptors[d] IN
    /\ e = NULL => FdUsers(d) = {}
    /\ e # NULL => e.refcount > 0 /\ e.refcount = One(e.present) + Cardinality(FdUsers(d))
    /\ \A t \in FdUsers(d) : e.intern = job[t].intern

(* So are those to a pipe, and it is in the array while it has ends. *)
PipeRefs(i) ==
    LET e == pipes[i] IN
    /\ e = NULL => PipeUsers(i) = {}
    /\ e # NULL => /\ e.refs > 0 /\ e.refs = One(e.present) + leaked[i] + Cardinality(PipeUsers(i))
                   /\ e.present <=> e.refcount > 0

RefsSound == (\A d \in Fds : FdRefs(d)) /\ (\A i \in Pipes : PipeRefs(i))

(* The ends of a pipe: its descriptors, the duplicates that are counted but
   have no descriptor yet, the closes that have none any more. *)
OpenEnds(i) == {d \in Fds : Present(file_descriptors[d]) /\ file_descriptors[d].intern = i}
DupEnds(i) ==
    {t \in Threads : IsDup(t) /\ job[t].intern = i /\ ~IsClose(t) /\ pc[t] \in {"unref", "put", "create"}}
CloseEnds(i) == {t \in Threads : pc[t] \in {"pipe", "op"} /\ IsClose(t) /\ job[t].intern = i}
Ends(i) == Cardinality(OpenEnds(i)) + Cardinality(DupEnds(i)) + Cardinality(CloseEnds(i))

EndsOf(i) == IF Present(pipes[i]) THEN pipes[i].refcount ELSE 0
EndsSound == \A i \in Pipes : Ends(i) = EndsOf(i)

(* As long as the order is kept, the buffer holds the next bytes in order. *)
BytesOK(i) ==
    LET e == pipes[i] IN
    e # NULL =>
        /\ e.order # "garbled"
        /\ e.order = "kept" =>
              e.sent = e.got + Len(e.buffer) /\ \A k \in 1 .. Len(e.buffer) : e.buffer[k] = e.got + k
BytesSound == \A i \in Pipes : BytesOK(i)

(* The two arrays. *)
ArraysTyped ==
    /\ file_descriptors \in [Fds -> Descriptors \cup {NULL}]
    /\ pipes \in [Pipes -> PipeTs \cup {NULL}] /\ leaked \in [Pipes -> Nat]
ArraysSound == ArraysTyped /\ RefsSound /\ EndsSound /\ BytesSound

(* A close that has copied its descriptor finds it in its place until it has
   removed it. *)
ClosersSound ==
    \A t \in Threads : pc[t] \in {"copied", "remove"} =>
        Present(file_descriptors[Fd(t)]) /\ file_descriptors[Fd(t)].intern = job[t].intern

(* No two threads close the same descriptor at once. *)
OneCloser ==
    \A t, u \in Threads :
        pc[t] \in {"copied", "remove"} /\ pc[u] \in {"copied", "remove"} /\ Fd(t) = Fd(u) => t = u

CountsInv ==
    /\ TypeOK /\ running \subseteq UserThreads /\ JobsSound
    /\ RefsSound /\ EndsSound /\ BytesSound /\ ClosersSound

-----------------------------------------------------------------------------
(* The handles, descriptors and pipes there are. *)
LEMMA Bounds ==
    /\ 0 \in Handles /\ Handles \subseteq Nat /\ Handles \subseteq 0 .. MAX_FILE_HANDLES
    /\ Fds \subseteq Nat /\ -1 \notin Fds /\ Pipes \subseteq Nat /\ FILE \notin Pipes
    /\ \A h \in Handles : h + 1 \in 0 .. MAX_FILE_HANDLES
    /\ NoJob \in Jobs /\ Urm \in Threads /\ Urm \notin UserThreads
    /\ Threads = UserThreads \cup {Urm}
    /\ \A t \in UserThreads : t[1] \in Procs /\ t[2] \in Tids
  BY DescriptorsAssumption DEF Handles, Fds, Pipes, NoJob, Jobs, Urm, Threads, UserThreads, Calls

(* There are finitely many threads and descriptors. *)
LEMMA Finite == IsFiniteSet(Threads) /\ IsFiniteSet(Fds)
<1>1. IsFiniteSet(Procs \X Tids) BY FS_Product, DescriptorsAssumption
<1>2. IsFiniteSet({Urm}) BY FS_Singleton
<1>3. IsFiniteSet(Threads) BY <1>1, <1>2, FS_Union DEF Threads
<1>4. MaxFds \in Nat BY DescriptorsAssumption
<1>5. IsFiniteSet(Fds) BY <1>4, FS_Interval DEF Fds
<1> QED BY <1>3, <1>5

(* A thread begins a call. *)
LEMMA EnterCases ==
    ASSUME NEW t \in Threads, Program(t)
    PROVE  \E call \in Calls, h \in Handles, new \in Handles, n \in Nat :
               Enter(t, call, h, new, n) /\ (call = "fork" => h = 0 /\ new = 0)
<1> USE Bounds
<1>1. CASE \E h \in Handles : \E call \in {"stat", "close", "dupfd"} : Enter(t, call, h, 0, 0)
    BY <1>1 DEF Calls
<1>2. CASE \E h \in Handles : \E call \in {"read", "write"}, n \in Counts : Enter(t, call, h, 0, n)
    BY <1>2, DescriptorsAssumption DEF Calls
<1>3. CASE \E h \in Handles : \E new \in Handles : Enter(t, "dup2", h, new, 0) BY <1>3 DEF Calls
<1>4. CASE \E h \in Handles : \E n \in {0, 1} : Enter(t, "setfl", h, 0, n) BY <1>4 DEF Calls
<1>5. CASE \E call \in {"open", "fork"} : Enter(t, call, 0, 0, 0) BY <1>5 DEF Calls
<1>6. CASE \E n \in {0, 1} : Enter(t, "pipe", 0, 0, n) BY <1>6 DEF Calls
<1> QED BY <1>1, <1>2, <1>3, <1>4, <1>5, <1>6 DEF Program

-----------------------------------------------------------------------------
(* A thread goes to a place of its call with new locals. *)
Goto(t, place, j) == pc' = [pc EXCEPT ![t] = place] /\ job' = [job EXCEPT ![t] = j]

(* A step of thread t: the others stay where they are. *)
Acts(t) == \A u \in Threads \ {t} : pc'[u] = pc[u] /\ job'[u] = job[u]

(* What a step of thread t does to places and locals. *)
JobStep(t) ==
    /\ pc' \in [Threads -> Places] /\ job' \in [Threads -> Jobs]
    /\ Acts(t) /\ JobSound(t)'

(* A step of one thread leaves the places and locals of the others. *)
LEMMA GotoActs ==
    ASSUME TypeOK, NEW t \in Threads, NEW place \in Places, NEW j \in Jobs, Goto(t, place, j)
    PROVE  /\ Acts(t) /\ pc'[t] = place /\ job'[t] = j
           /\ pc' \in [Threads -> Places] /\ job' \in [Threads -> Jobs]
  BY DEF TypeOK, Acts, Goto

(* A call that returns. *)
LEMMA ReturnJob ==
    ASSUME TypeOK, NEW t \in Threads, Returns(t)
    PROVE  JobStep(t) /\ pc'[t] = "user" /\ job'[t] = NoJob
<1>1. Goto(t, "user", NoJob) BY DEF Returns, Goes, Goto
<1>2. NoJob \in Jobs /\ "user" \in Places BY Bounds DEF Places
<1>3. pc'[t] = "user" /\ job'[t] = NoJob BY <1>1, <1>2, GotoActs
<1>4. JobSound(t)' BY <1>3 DEF JobSound, Closers, NoJob, ByHandle, Calls, Closing, Dups
<1> QED BY <1>1, <1>2, <1>3, <1>4, GotoActs DEF JobStep

(* What a thread knows in a state. *)
LEMMA Known ==
    ASSUME TypeOK, JobsSound, NEW t \in Threads
    PROVE  /\ job[t] \in Jobs /\ pc[t] \in Places /\ JobSound(t)
           /\ t # Urm => t \in UserThreads /\ t[1] \in Procs
  BY Bounds DEF TypeOK, JobsSound

(* What a call looks up in the table of its process is a descriptor. *)
LEMMA LookedUp ==
    ASSUME TypeOK, NEW t \in UserThreads, job[t].h \in Handles
    PROVE  Handle(t) \in Fds \cup {-1}
<1>1. t[1] \in Procs BY Bounds
<1> QED BY <1>1 DEF TypeOK, Handle

(* The calls up to their first use of a descriptor. *)
LEMMA EnterJob ==
    ASSUME TypeOK, NEW t \in Threads, NEW call \in Calls, NEW h \in Handles, NEW new \in Handles,
           NEW n \in Nat, call = "fork" => h = 0 /\ new = 0, running \subseteq UserThreads,
           Enter(t, call, h, new, n)
    PROVE  /\ JobStep(t) /\ t # Urm
           /\ pc'[t] = "lock" /\ job'[t] = [NoJob EXCEPT !.call = call, !.h = h, !.new = new, !.n = n]
<1> DEFINE j == [NoJob EXCEPT !.call = call, !.h = h, !.new = new, !.n = n]
<1>1. j \in Jobs BY Bounds DEF Jobs, NoJob
<1>2. Goto(t, "lock", j) /\ "lock" \in Places BY DEF Enter, Goes, Goto, Places
<1>3. pc'[t] = "lock" /\ job'[t] = j BY <1>1, <1>2, GotoActs
<1>4. t # Urm BY Bounds DEF Enter
<1>5. JobSound(t)'
    BY <1>3, <1>4 DEF JobSound, Closers, NoJob, ByHandle, Calls, Closing, Dups
<1> QED BY <1>1, <1>2, <1>3, <1>4, <1>5, GotoActs DEF JobStep

(* read, write, stat and close have looked their descriptor up. *)
LEMMA LocksJob ==
    ASSUME TypeOK, JobsSound, NEW t \in Threads, NEW call \in {"read", "write", "stat", "close"},
           NEW place \in {"fd", "close"}, (place = "close") = (call = "close"), Locks(t, call, place)
    PROVE  /\ JobStep(t) /\ t # Urm /\ Handle(t) \in Fds
           /\ pc'[t] = place /\ job'[t] = [job[t] EXCEPT !.fd = Handle(t)]
<1> DEFINE j == [job[t] EXCEPT !.fd = Handle(t)]
<1>1. job[t] \in Jobs /\ pc[t] = "lock" /\ JobSound(t) /\ job[t].call = call
      BY Known DEF Locks, Calling, At
<1>2. t # Urm /\ t \in UserThreads BY <1>1, Known DEF JobSound, Closers
<1>3. job[t].h \in Handles BY <1>1 DEF JobSound, Closers, ByHandle
<1>4. Handle(t) \in Fds BY <1>2, <1>3, LookedUp DEF Locks
<1>5. j \in Jobs BY <1>1, <1>4 DEF Jobs
<1>6. Goto(t, place, j) /\ place \in Places BY <1>1 DEF Locks, Goes, Goto, Places, TypeOK
<1>7. pc'[t] = place /\ job'[t] = j BY <1>5, <1>6, GotoActs
<1>8. JobSound(t)' BY <1>1, <1>2, <1>3, <1>4, <1>7 DEF JobSound, Closers, Jobs, ByHandle, Calls, Closing, Dups
<1> QED BY <1>2, <1>4, <1>5, <1>6, <1>7, <1>8, GotoActs DEF JobStep

(* open returns at once. *)
LEMMA OpenJob ==
    ASSUME TypeOK, JobsSound, NEW t \in Threads, syscall_open(t)
    PROVE  JobStep(t) /\ t # Urm /\ pc'[t] = "user" /\ job'[t] = NoJob
<1>1. JobSound(t) /\ pc[t] = "lock" BY Known DEF syscall_open, Calling, At
<1>2. t # Urm BY <1>1 DEF JobSound, Closers
<1> QED BY <1>2, ReturnJob DEF syscall_open

(* pipe has its two descriptors. *)
LEMMA PipeJob ==
    ASSUME TypeOK, JobsSound, NEW t \in Threads, NEW r \in Fds, NEW w \in Fds,
           Calling(t, {"pipe"}), Goes(t, "fd"),
           job' = [job EXCEPT ![t].fd = r, ![t].old = w]
    PROVE  /\ JobStep(t) /\ t # Urm
           /\ pc'[t] = "fd" /\ job'[t] = [job[t] EXCEPT !.fd = r, !.old = w]
<1> DEFINE j == [job[t] EXCEPT !.fd = r, !.old = w]
<1>1. job[t] \in Jobs /\ pc[t] = "lock" /\ JobSound(t) /\ job[t].call = "pipe"
      BY Known DEF Calling, At
<1>2. t # Urm BY <1>1 DEF JobSound, Closers
<1>3. j \in Jobs BY <1>1 DEF Jobs
<1>4. Goto(t, "fd", j) /\ "fd" \in Places BY <1>1 DEF Goes, Goto, Places, TypeOK, Jobs
<1>5. pc'[t] = "fd" /\ job'[t] = j BY <1>3, <1>4, GotoActs
<1>6. /\ job'[t].call = "pipe" /\ job'[t].fd = r /\ job'[t].old = w /\ job'[t].h = job[t].h
      /\ job'[t].new = job[t].new
      BY ONLY <1>1, <1>5 DEF Jobs
<1>7. JobSound(t)' BY <1>2, <1>5, <1>6 DEF JobSound, Closers, ByHandle, Calls, Closing, Dups
<1> QED BY <1>2, <1>3, <1>4, <1>5, <1>7, GotoActs DEF JobStep

(* dup2 goes on with the old descriptor, or closes the one in its place. *)
LEMMA Dup2Job ==
    ASSUME TypeOK, JobsSound, NEW t \in Threads, syscall_dup2(t)
    PROVE  LET old == Handle(t)
               was == file_handles[t[1]][job[t].new]
           IN  /\ JobStep(t) /\ t # Urm /\ old \in Fds /\ was \in Fds \cup {-1}
               /\ old = was => pc'[t] = "user" /\ job'[t] = NoJob
               /\ old # was =>
                     /\ pc'[t] = IF was = -1 THEN "fd" ELSE "close"
                     /\ job'[t] = [job[t] EXCEPT !.old = old, !.fd = IF was = -1 THEN old ELSE was]
<1> DEFINE old == Handle(t)
           was == file_handles[t[1]][job[t].new]
           j == [job[t] EXCEPT !.old = old, !.fd = IF was = -1 THEN old ELSE was]
           place == IF was = -1 THEN "fd" ELSE "close"
<1>1. job[t] \in Jobs /\ pc[t] = "lock" /\ JobSound(t) /\ job[t].call = "dup2"
      BY Known DEF syscall_dup2, Calling, At
<1>2. t # Urm /\ t \in UserThreads /\ t[1] \in Procs BY <1>1, Known DEF JobSound, Closers
<1>3. job[t].h \in Handles /\ job[t].new \in Handles BY <1>1 DEF JobSound, Closers, ByHandle
<1>4. old \in Fds BY <1>2, <1>3, LookedUp DEF syscall_dup2
<1>5. was \in Fds \cup {-1} BY <1>2, <1>3 DEF TypeOK
<1>6. CASE old = was BY <1>2, <1>4, <1>5, <1>6, ReturnJob DEF syscall_dup2
<1>7. CASE old # was
  <2>1. j \in Jobs BY <1>1, <1>4, <1>5 DEF Jobs
  <2>2. place \in Places BY DEF Places
  <2>3. Goto(t, place, j) BY <1>1, <1>7 DEF syscall_dup2, Goes, Goto, TypeOK, Jobs
  <2>4. pc'[t] = place /\ job'[t] = j BY <2>1, <2>2, <2>3, GotoActs
  <2>5. JobSound(t)'
        BY <1>1, <1>2, <1>3, <1>4, <1>5, <2>4 DEF JobSound, Closers, Jobs, ByHandle, Calls, Closing, Dups
  <2> QED BY <1>2, <1>4, <1>5, <1>7, <2>1, <2>2, <2>3, <2>4, <2>5, GotoActs DEF JobStep
<1> QED BY <1>6, <1>7

(* fcntl has looked its descriptor up. *)
LEMMA FcntlJob ==
    ASSUME TypeOK, JobsSound, NEW t \in Threads, syscall_fcntl(t)
    PROVE  /\ JobStep(t) /\ t # Urm /\ Handle(t) \in Fds
           /\ pc'[t] = IF job[t].call = "dupfd" THEN "find" ELSE "fd"
           /\ job'[t] = [job[t] EXCEPT !.fd = Handle(t)]
<1> DEFINE j == [job[t] EXCEPT !.fd = Handle(t)]
           place == IF job[t].call = "dupfd" THEN "find" ELSE "fd"
<1>1. job[t] \in Jobs /\ pc[t] = "lock" /\ JobSound(t) /\ job[t].call \in {"setfl", "dupfd"}
      BY Known DEF syscall_fcntl, Calling, At
<1>2. t # Urm /\ t \in UserThreads BY <1>1, Known DEF JobSound, Closers
<1>3. job[t].h \in Handles BY <1>1 DEF JobSound, Closers, ByHandle
<1>4. Handle(t) \in Fds BY <1>2, <1>3, LookedUp DEF syscall_fcntl
<1>5. j \in Jobs BY <1>1, <1>4 DEF Jobs
<1>6. Goto(t, place, j) /\ place \in Places BY <1>1 DEF syscall_fcntl, Goes, Goto, Places, TypeOK
<1>7. pc'[t] = place /\ job'[t] = j BY <1>5, <1>6, GotoActs
<1>8. JobSound(t)' BY <1>1, <1>2, <1>3, <1>4, <1>7 DEF JobSound, Closers, Jobs, ByHandle, Calls, Closing, Dups
<1> QED BY <1>2, <1>4, <1>5, <1>6, <1>7, <1>8, GotoActs DEF JobStep

(* F_DUPFD has found a free handle. *)
LEMMA DupfdJob ==
    ASSUME TypeOK, JobsSound, NEW t \in Threads, At(t, "find"), NEW h \in Handles,
           job' = [job EXCEPT ![t].new = h], Goes(t, "fd")
    PROVE  JobStep(t) /\ pc'[t] = "fd" /\ job'[t] = [job[t] EXCEPT !.new = h]
<1> DEFINE j == [job[t] EXCEPT !.new = h]
<1>1. job[t] \in Jobs /\ pc[t] = "find" /\ JobSound(t) BY Known DEF At
<1>2. t # Urm BY <1>1 DEF JobSound, Closers
<1>3. j \in Jobs BY <1>1, Bounds DEF Jobs
<1>4. Goto(t, "fd", j) /\ "fd" \in Places BY <1>1 DEF Goes, Goto, Places, TypeOK
<1>5. pc'[t] = "fd" /\ job'[t] = j BY <1>3, <1>4, GotoActs
<1>6. JobSound(t)' BY <1>1, <1>2, <1>5 DEF JobSound, Closers, Jobs, ByHandle, Calls, Closing, Dups
<1> QED BY <1>3, <1>4, <1>5, <1>6, GotoActs DEF JobStep

(* fork has a process for the child. *)
LEMMA ForkBeginsJob ==
    ASSUME TypeOK, JobsSound, NEW t \in Threads, ForkBegins(t), NEW c \in Procs,
           job' = [job EXCEPT ![t].new = c]
    PROVE  JobStep(t) /\ t # Urm /\ pc'[t] = "fork" /\ job'[t] = [job[t] EXCEPT !.new = c]
<1> DEFINE j == [job[t] EXCEPT !.new = c]
<1>1. job[t] \in Jobs /\ pc[t] = "lock" /\ JobSound(t) /\ job[t].call = "fork"
      BY Known DEF At, ForkBegins
<1>2. t # Urm BY <1>1 DEF JobSound, Closers
<1>3. j \in Jobs BY <1>1, DescriptorsAssumption DEF Jobs
<1>4. Goto(t, "fork", j) /\ "fork" \in Places BY <1>1 DEF ForkBegins, Goes, Goto, Places, TypeOK
<1>5. pc'[t] = "fork" /\ job'[t] = j BY <1>3, <1>4, GotoActs
<1>6. JobSound(t)' BY <1>1, <1>2, <1>5 DEF JobSound, Closers, Jobs, ByHandle, Calls, Closing, Dups
<1> QED BY <1>2, <1>3, <1>4, <1>5, <1>6, GotoActs DEF JobStep

(* fork copies a handle or goes on to the next one. *)
LEMMA ForkCopiesJob ==
    ASSUME TypeOK, JobsSound, NEW t \in Threads, ForkCopies(t)
    PROVE  /\ JobStep(t) /\ t # Urm /\ Handle(t) \in Fds \cup {-1}
           /\ Handle(t) = -1 => pc'[t] = "fork" /\ job'[t] = [job[t] EXCEPT !.h = @ + 1]
           /\ Handle(t) # -1 => pc'[t] = "fd" /\ job'[t] = [job[t] EXCEPT !.fd = Handle(t)]
<1>1. job[t] \in Jobs /\ pc[t] = "fork" /\ JobSound(t) /\ job[t].call = "fork" /\ job[t].h \in Handles
      BY Known DEF At, ForkCopies, JobSound
<1>2. t # Urm /\ t \in UserThreads BY <1>1, Known DEF JobSound, Closers
<1>3. Handle(t) \in Fds \cup {-1} BY <1>1, <1>2, LookedUp
<1>4. CASE Handle(t) = -1
  <2> DEFINE j == [job[t] EXCEPT !.h = @ + 1]
  <2>1. job[t].h + 1 \in 0 .. MAX_FILE_HANDLES BY <1>1, Bounds
  <2>2. j \in Jobs BY <1>1, <2>1 DEF Jobs
  <2>3. Goto(t, "fork", j) /\ "fork" \in Places BY <1>1, <1>4 DEF ForkCopies, Goto, Places, TypeOK, Jobs
  <2>4. pc'[t] = "fork" /\ job'[t] = j BY <2>2, <2>3, GotoActs
  <2>5. JobSound(t)' BY <1>1, <1>2, <2>4 DEF JobSound, Closers, Jobs, ByHandle, Calls, Closing, Dups
  <2> QED BY <1>2, <1>3, <1>4, <2>2, <2>3, <2>4, <2>5, GotoActs DEF JobStep
<1>5. CASE Handle(t) # -1
  <2> DEFINE j == [job[t] EXCEPT !.fd = Handle(t)]
  <2>2. j \in Jobs BY <1>1, <1>3 DEF Jobs
  <2>3. Goto(t, "fd", j) /\ "fd" \in Places BY <1>1, <1>5 DEF ForkCopies, Goes, Goto, Places, TypeOK
  <2>4. pc'[t] = "fd" /\ job'[t] = j BY <2>2, <2>3, GotoActs
  <2>5. JobSound(t)' BY <1>1, <1>2, <1>3, <1>5, <2>4 DEF JobSound, Closers, Jobs, ByHandle, Calls, Closing, Dups
  <2> QED BY <1>2, <1>3, <1>5, <2>2, <2>3, <2>4, <2>5, GotoActs DEF JobStep
<1> QED BY <1>4, <1>5

(* The use of a descriptor. *)
LEMMA FdGetJob ==
    ASSUME TypeOK, JobsSound, NEW t \in Threads, FdGet(t)
    PROVE  LET d == file_descriptors[Fd(t)] IN
           /\ JobStep(t) /\ t # Urm /\ Fd(t) \in Fds /\ pc[t] = "fd"
           /\ Present(d) =>
                /\ d \in Descriptors
                /\ pc'[t] = IF d.intern = FILE \/ job[t].call = "stat" THEN "put" ELSE "pipe"
                /\ job'[t] = [job[t] EXCEPT !.intern = d.intern]
           /\ ~Present(d) => UNCHANGED <<pc, job>>
<1> DEFINE d == file_descriptors[Fd(t)]
           j == [job[t] EXCEPT !.intern = d.intern]
           place == IF d.intern = FILE \/ job[t].call = "stat" THEN "put" ELSE "pipe"
<1>1. job[t] \in Jobs /\ pc[t] = "fd" /\ JobSound(t) BY Known DEF FdGet, At
<1>2. Fd(t) \in Fds /\ t # Urm BY <1>1 DEF JobSound, Closers, Fd
<1>3. CASE Present(d)
  <2>1. d \in Descriptors BY <1>2, <1>3 DEF TypeOK, Present
  <2>2. d.intern \in Pipes \cup {FILE} BY <2>1 DEF Descriptors
  <2>3. j \in Jobs BY <1>1, <2>2 DEF Jobs
  <2>4. Goto(t, place, j) /\ place \in Places BY <1>1, <1>3 DEF FdGet, Goes, Goto, Places, TypeOK
  <2>5. pc'[t] = place /\ job'[t] = j BY <2>3, <2>4, GotoActs
  <2>6. JobSound(t)'
        BY <1>1, <1>2, <2>2, <2>5, Bounds DEF JobSound, Closers, Jobs, ByHandle, Calls, Closing, Dups, Fd
  <2> QED BY <1>1, <1>2, <1>3, <2>1, <2>3, <2>4, <2>5, <2>6, GotoActs DEF JobStep
<1>4. CASE ~Present(d)
  <2>1. UNCHANGED <<pc, job>> BY <1>4 DEF FdGet
  <2>2. JobSound(t)' BY <1>1, <2>1 DEF JobSound, Closers
  <2> QED BY <1>1, <1>2, <1>4, <2>1, <2>2 DEF JobStep, Acts, TypeOK
<1> QED BY <1>3, <1>4

(* A step within a call that leaves the locals as they are. *)
LEMMA PlaceJob ==
    ASSUME TypeOK, JobsSound, NEW t \in Threads, NEW place \in Places, Goes(t, place), UNCHANGED job
    PROVE  /\ pc' \in [Threads -> Places] /\ job' \in [Threads -> Jobs]
           /\ Acts(t) /\ pc'[t] = place /\ job'[t] = job[t]
  BY DEF TypeOK, Acts, Goes

(* The pipe is taken from the array, or is not there. *)
LEMMA PipeGetJob ==
    ASSUME TypeOK, JobsSound, NEW t \in Threads, PipeGet(t)
    PROVE  /\ JobStep(t) /\ job'[t] = job[t] /\ pc[t] = "pipe" /\ job[t].intern \in Pipes
           /\ pc'[t] = IF Present(Pipe(t)) THEN "op" ELSE "pipe"
<1>1. job[t] \in Jobs /\ pc[t] = "pipe" /\ JobSound(t) BY Known DEF PipeGet, At
<1>2. job[t].intern \in Pipes BY <1>1 DEF JobSound, Closers
<1>3. CASE Present(Pipe(t))
  <2>1. Goes(t, "op") /\ UNCHANGED job BY <1>3 DEF PipeGet
  <2>2. "op" \in Places BY DEF Places
  <2>3. Acts(t) /\ pc'[t] = "op" /\ job'[t] = job[t] BY <2>1, <2>2, PlaceJob
  <2>4. JobSound(t)' BY <1>1, <2>3 DEF JobSound, Closers
  <2> QED BY <1>1, <1>2, <1>3, <2>1, <2>2, <2>3, <2>4, PlaceJob DEF JobStep
<1>4. CASE ~Present(Pipe(t))
  <2>1. UNCHANGED <<pc, job>> BY <1>4 DEF PipeGet
  <2>2. JobSound(t)' BY <1>1, <2>1 DEF JobSound, Closers
  <2> QED BY <1>1, <1>2, <1>4, <2>1, <2>2 DEF JobStep, Acts, TypeOK
<1> QED BY <1>3, <1>4

(* The operations on a pipe, up to the release of its lock. *)
LEMMA DoneJob ==
    ASSUME TypeOK, JobsSound, NEW t \in Threads, pc[t] = "op", NEW e, PipeDone(t, e)
    PROVE  /\ JobStep(t) /\ job'[t] = job[t] /\ job[t].intern \in Pipes
           /\ pc'[t] = "unref"
<1>1. job[t] \in Jobs /\ JobSound(t) BY Known
<1>2. job[t].intern \in Pipes BY <1>1 DEF JobSound, Closers
<1>3. Goes(t, "unref") /\ UNCHANGED job /\ "unref" \in Places BY DEF PipeDone, Places
<1>4. Acts(t) /\ pc'[t] = "unref" /\ job'[t] = job[t] BY <1>3, PlaceJob
<1>5. JobSound(t)' BY <1>1, <1>4 DEF JobSound, Closers
<1> QED BY <1>2, <1>3, <1>4, <1>5, PlaceJob DEF JobStep

(* Only reads sleep. *)
LEMMA BlocksJob ==
    ASSUME TypeOK, JobsSound, NEW t \in Threads, PipeBlocks(t)
    PROVE  /\ JobStep(t) /\ job'[t] = job[t] /\ job[t].intern \in Pipes
           /\ pc[t] = "op" /\ pc'[t] = "wait" /\ job[t].call = "read" /\ job[t].fd \in Fds
<1>1. job[t] \in Jobs /\ JobSound(t) /\ pc[t] = "op" /\ job[t].call = "read"
      BY Known DEF PipeBlocks, Operates, At
<1>2. job[t].intern \in Pipes /\ job[t].fd \in Fds BY <1>1 DEF JobSound, Closers, Jobs, Closing
<1>3. Goes(t, "wait") /\ UNCHANGED job /\ "wait" \in Places BY DEF PipeBlocks, Places
<1>4. Acts(t) /\ pc'[t] = "wait" /\ job'[t] = job[t] BY <1>3, PlaceJob
<1>5. JobSound(t)' BY <1>1, <1>2, <1>4 DEF JobSound, Closers
<1> QED BY <1>1, <1>2, <1>3, <1>4, <1>5, PlaceJob DEF JobStep

(* A reader that wakes has the pipe again. *)
LEMMA WokenJob ==
    ASSUME TypeOK, JobsSound, NEW t \in Threads, pc[t] = "wait", NEW place \in {"op", "put"},
           Goes(t, place), UNCHANGED job
    PROVE  /\ JobStep(t) /\ job'[t] = job[t] /\ job[t].intern \in Pipes /\ job[t].fd \in Fds
           /\ pc'[t] = place /\ job[t].call = "read"
<1>1. job[t] \in Jobs /\ JobSound(t) BY Known
<1>2. job[t].intern \in Pipes /\ job[t].fd \in Fds /\ job[t].call = "read" BY <1>1 DEF JobSound, Closers
<1>3. place \in Places BY DEF Places
<1>4. Acts(t) /\ pc'[t] = place /\ job'[t] = job[t] BY <1>3, PlaceJob
<1>5. JobSound(t)' BY <1>1, <1>2, <1>4, Bounds DEF JobSound, Closers
<1> QED BY <1>2, <1>3, <1>4, <1>5, PlaceJob DEF JobStep

(* The close of an end, the last one or not. *)
LEMMA CloseJob ==
    ASSUME TypeOK, JobsSound, NEW t \in Threads, pipe_close(t)
    PROVE  /\ JobStep(t) /\ job'[t] = job[t] /\ job[t].intern \in Pipes
           /\ pc[t] = "op" /\ job[t].fd = -1 /\ job[t].call \in Closing
           /\ pc'[t] = IF Pipe(t).refcount > 1 THEN "unref" ELSE "closed"
<1>1. job[t] \in Jobs /\ JobSound(t) /\ pc[t] = "op" /\ job[t].fd = -1
      BY Known DEF pipe_close, At, IsClose, Fd
<1>2. job[t].intern \in Pipes /\ job[t].call \in Closing BY <1>1 DEF JobSound, Closers
<1>3. CASE Pipe(t).refcount > 1
  <2>1. PICK e : PipeDone(t, e) BY <1>3 DEF pipe_close
  <2> QED BY <1>1, <1>2, <1>3, <2>1, DoneJob
<1>4. CASE ~(Pipe(t).refcount > 1)
  <2>1. Goes(t, "closed") /\ UNCHANGED job /\ "closed" \in Places BY <1>4 DEF pipe_close, Places
  <2>2. Acts(t) /\ pc'[t] = "closed" /\ job'[t] = job[t] BY <2>1, PlaceJob
  <2>3. JobSound(t)' BY <1>1, <1>2, <2>2 DEF JobSound, Closers
  <2> QED BY <1>1, <1>2, <1>4, <2>1, <2>2, <2>3, PlaceJob DEF JobStep
<1> QED BY <1>3, <1>4

(* The reference to the pipe is given back. *)
LEMMA PipeUnrefJob ==
    ASSUME TypeOK, JobsSound, NEW t \in Threads, PipeUnref(t)
    PROVE  /\ JobStep(t) /\ job'[t] = job[t] /\ job[t].intern \in Pipes /\ pc[t] = "unref"
           /\ pc'[t] = IF job[t].fd = -1 THEN "closed" ELSE "put"
<1>1. job[t] \in Jobs /\ JobSound(t) /\ pc[t] = "unref" BY Known DEF PipeUnref, At
<1>2. job[t].intern \in Pipes BY <1>1 DEF JobSound, Closers
<1> DEFINE place == IF job[t].fd = -1 THEN "closed" ELSE "put"
<1>3. Goes(t, place) /\ UNCHANGED job /\ place \in Places
      BY <1>1 DEF PipeUnref, Places, IsClose, Fd
<1>4. Acts(t) /\ pc'[t] = place /\ job'[t] = job[t] BY <1>3, PlaceJob
<1>5. JobSound(t)' BY <1>1, <1>2, <1>4 DEF JobSound, Closers, Jobs, Closing
<1> QED BY <1>1, <1>2, <1>3, <1>4, <1>5, PlaceJob DEF JobStep

(* The reference to the descriptor is given back, and the call goes on. *)
LEMMA FdUnrefJob ==
    ASSUME TypeOK, JobsSound, NEW t \in Threads, FdUnref(t)
    PROVE  /\ JobStep(t) /\ job[t].fd \in Fds /\ t # Urm /\ pc[t] = "put"
           /\ job[t].call \in Dups => pc'[t] = "create" /\ job'[t] = job[t]
           /\ job[t].call \notin Dups =>
                 IF job[t].call = "pipe" /\ job[t].old # -1
                 THEN pc'[t] = "fd" /\ job'[t] = [job[t] EXCEPT !.fd = job[t].old, !.old = -1]
                 ELSE pc'[t] = "user" /\ job'[t] = NoJob
<1>1. job[t] \in Jobs /\ JobSound(t) /\ pc[t] = "put" BY Known DEF FdUnref, At
<1>2. job[t].fd \in Fds /\ t # Urm BY <1>1 DEF JobSound, Closers
<1>3. CASE job[t].call \in Dups
  <2>1. Goes(t, "create") /\ UNCHANGED job /\ "create" \in Places BY <1>3 DEF FdUnref, Places, IsDup, Dups
  <2>2. Acts(t) /\ pc'[t] = "create" /\ job'[t] = job[t] BY <2>1, PlaceJob
  <2>3. JobSound(t)' BY <1>1, <1>2, <1>3, <2>2 DEF JobSound, Closers
  <2> QED BY <1>1, <1>2, <1>3, <2>1, <2>2, <2>3, PlaceJob DEF JobStep
<1>4. CASE job[t].call \notin Dups /\ job[t].call = "pipe" /\ job[t].old # -1
  <2> DEFINE j == [job[t] EXCEPT !.fd = job[t].old, !.old = -1]
  <2>1. job' = [job EXCEPT ![t].fd = job[t].old, ![t].old = -1] /\ Goes(t, "fd")
        BY <1>4 DEF FdUnref, IsDup, Dups
  <2>2. j \in Jobs BY <1>1 DEF Jobs
  <2>3. Goto(t, "fd", j) /\ "fd" \in Places BY <1>1, <2>1 DEF Goes, Goto, Places, TypeOK, Jobs
  <2>4. pc'[t] = "fd" /\ job'[t] = j BY <2>2, <2>3, GotoActs
  <2>5. job'[t].call = "pipe" /\ job'[t].fd \in Fds BY <1>1, <1>4, <2>4 DEF Jobs
  <2>6. JobSound(t)' BY <1>2, <2>4, <2>5 DEF JobSound, Closers, ByHandle, Calls, Closing, Dups
  <2> QED BY <1>1, <1>2, <1>4, <2>2, <2>3, <2>4, <2>6, GotoActs DEF JobStep
<1>5. CASE job[t].call \notin Dups /\ ~(job[t].call = "pipe" /\ job[t].old # -1)
  <2>1. Returns(t) BY <1>5 DEF FdUnref, IsDup, Dups
  <2> QED BY <1>1, <1>2, <1>5, <2>1, ReturnJob
<1> QED BY <1>3, <1>4, <1>5

(* The duplicate is created, and each caller of dup goes its own way. *)
LEMMA CreateJob ==
    ASSUME TypeOK, JobsSound, NEW t \in Threads, FdCreate(t)
    PROVE  /\ JobStep(t) /\ job[t].fd \in Fds /\ t # Urm /\ pc[t] = "create" /\ job[t].call \in Dups
           /\ file_descriptors[Fd(t)] = NULL => UNCHANGED <<pc, job>>
           /\ file_descriptors[Fd(t)] # NULL => \E d \in Fds :
                 /\ fd_create(d, job[t].intern)
                 /\ job[t].call = "dup2" =>
                       /\ pc'[t] = "store" /\ job'[t] = [job[t] EXCEPT !.fd = d]
                       /\ UNCHANGED <<file_handles, file_handles_lock>>
                 /\ job[t].call = "dupfd" =>
                       /\ pc'[t] = "user" /\ job'[t] = NoJob /\ ReleasesIfHeld(t)
                       /\ file_handles' = [file_handles EXCEPT ![t[1]][job[t].new] = d]
                 /\ job[t].call = "fork" =>
                       /\ pc'[t] = "fork" /\ job'[t] = [job[t] EXCEPT !.h = @ + 1]
                       /\ file_handles' = [file_handles EXCEPT ![job[t].new][job[t].h] = d]
                       /\ UNCHANGED file_handles_lock
<1>1. job[t] \in Jobs /\ JobSound(t) /\ pc[t] = "create" BY Known DEF FdCreate, At
<1>2. job[t].fd \in Fds /\ t # Urm /\ job[t].call \in Dups BY <1>1 DEF JobSound, Closers
<1>3. CASE file_descriptors[Fd(t)] = NULL
  <2>1. UNCHANGED <<pc, job>> BY <1>3 DEF FdCreate
  <2>2. JobSound(t)' BY <1>1, <2>1 DEF JobSound, Closers
  <2> QED BY <1>1, <1>2, <1>3, <2>1, <2>2 DEF JobStep, Acts, TypeOK
<1>4. CASE file_descriptors[Fd(t)] # NULL
  <2>0. PICK d \in Fds :
          /\ fd_create(d, job[t].intern)
          /\ CASE job[t].call = "dup2" ->
                    /\ job' = [job EXCEPT ![t].fd = d]
                    /\ Goes(t, "store") /\ UNCHANGED <<file_handles, file_handles_lock>>
               [] job[t].call = "dupfd" ->
                    /\ file_handles' = [file_handles EXCEPT ![t[1]][job[t].new] = d]
                    /\ Returns(t) /\ ReleasesIfHeld(t)
               [] job[t].call = "fork" ->
                    /\ file_handles' = [file_handles EXCEPT ![job[t].new][job[t].h] = d]
                    /\ job' = [job EXCEPT ![t].h = @ + 1]
                    /\ Goes(t, "fork") /\ UNCHANGED file_handles_lock
        BY <1>4 DEF FdCreate
  <2>1. CASE job[t].call = "dup2"
    <3> DEFINE j == [job[t] EXCEPT !.fd = d]
    <3>1. job' = [job EXCEPT ![t].fd = d] /\ Goes(t, "store") /\ UNCHANGED <<file_handles, file_handles_lock>>
          BY <2>0, <2>1
    <3>2. j \in Jobs BY <1>1 DEF Jobs
    <3>3. Goto(t, "store", j) /\ "store" \in Places BY <1>1, <3>1 DEF Goes, Goto, Places, TypeOK
    <3>4. pc'[t] = "store" /\ job'[t] = j BY <3>2, <3>3, GotoActs
    <3>5. JobSound(t)'
          BY ONLY <1>1, <1>2, <2>1, <3>4, d \in Fds DEF JobSound, Closers, Jobs, ByHandle, Calls, Closing, Dups
    <3> QED BY <1>1, <1>2, <1>4, <2>0, <2>1, <3>1, <3>2, <3>3, <3>4, <3>5, GotoActs DEF JobStep
  <2>2. CASE job[t].call = "dupfd"
    <3>1. Returns(t) /\ ReleasesIfHeld(t) /\ file_handles' = [file_handles EXCEPT ![t[1]][job[t].new] = d]
          BY <2>0, <2>2
    <3> QED BY <1>1, <1>2, <1>4, <2>0, <2>2, <3>1, ReturnJob
  <2>3. CASE job[t].call = "fork"
    <3> DEFINE j == [job[t] EXCEPT !.h = @ + 1]
    <3>1. /\ job' = [job EXCEPT ![t].h = @ + 1] /\ Goes(t, "fork") /\ UNCHANGED file_handles_lock
          /\ file_handles' = [file_handles EXCEPT ![job[t].new][job[t].h] = d]
          BY <2>0, <2>3
    <3>2. job[t].h \in Handles /\ job[t].new \in Procs BY <1>1, <2>3 DEF JobSound, Closers
    <3>3. j \in Jobs BY <1>1, <3>2, Bounds DEF Jobs
    <3>4. Goto(t, "fork", j) /\ "fork" \in Places BY <1>1, <3>1 DEF Goes, Goto, Places, TypeOK, Jobs
    <3>5. pc'[t] = "fork" /\ job'[t] = j BY <3>3, <3>4, GotoActs
    <3>6. JobSound(t)'
          BY ONLY <1>1, <1>2, <2>3, <3>2, <3>5 DEF JobSound, Closers, Jobs, ByHandle, Calls, Closing, Dups
    <3> QED BY <1>1, <1>2, <1>4, <2>0, <2>3, <3>1, <3>3, <3>4, <3>5, <3>6, GotoActs DEF JobStep
  <2> QED BY <1>2, <2>1, <2>2, <2>3 DEF Dups
<1> QED BY <1>3, <1>4

(* dup2 stores its descriptor and returns. *)
LEMMA StoresJob ==
    ASSUME TypeOK, JobsSound, NEW t \in Threads, Dup2Stores(t)
    PROVE  /\ JobStep(t) /\ t # Urm /\ pc[t] = "store" /\ job[t].call = "dup2"
           /\ job[t].fd \in Fds /\ job[t].new \in Handles
           /\ pc'[t] = "user" /\ job'[t] = NoJob
<1>1. JobSound(t) /\ pc[t] = "store" BY Known DEF Dup2Stores, At
<1>2. t # Urm /\ job[t].call = "dup2" /\ job[t].fd \in Fds /\ job[t].new \in Handles
      BY <1>1 DEF JobSound, Closers
<1> QED BY <1>1, <1>2, ReturnJob DEF Dup2Stores

(* close has its copy of the descriptor, or finds none. *)
LEMMA CopiesJob ==
    ASSUME TypeOK, JobsSound, NEW t \in Threads, close(t)
    PROVE  LET d == file_descriptors[Fd(t)] IN
           /\ JobStep(t) /\ Fd(t) \in Fds /\ pc[t] = "close" /\ job[t].call \in Closing
           /\ Present(d) =>
                /\ d \in Descriptors /\ pc'[t] = "copied"
                /\ job'[t] = [job[t] EXCEPT !.intern = d.intern]
           /\ ~Present(d) => UNCHANGED <<pc, job>>
<1> DEFINE d == file_descriptors[Fd(t)]
           j == [job[t] EXCEPT !.intern = d.intern]
<1>1. job[t] \in Jobs /\ pc[t] = "close" /\ JobSound(t) BY Known DEF close, At
<1>2. Fd(t) \in Fds /\ job[t].call \in Closing BY <1>1 DEF JobSound, Closers, Fd
<1>3. CASE Present(d)
  <2>1. d \in Descriptors BY <1>2, <1>3 DEF TypeOK, Present
  <2>2. d.intern \in Pipes \cup {FILE} BY <2>1 DEF Descriptors
  <2>3. j \in Jobs BY <1>1, <2>2 DEF Jobs
  <2>4. Goto(t, "copied", j) /\ "copied" \in Places BY <1>1, <1>3 DEF close, Goes, Goto, Places, TypeOK, Jobs
  <2>5. pc'[t] = "copied" /\ job'[t] = j BY <2>3, <2>4, GotoActs
  <2>6. JobSound(t)'
        BY <1>1, <1>2, <2>2, <2>5 DEF JobSound, Closers, Jobs, ByHandle, Calls, Closing, Dups, Fd
  <2> QED BY <1>1, <1>2, <1>3, <2>1, <2>3, <2>4, <2>5, <2>6, GotoActs DEF JobStep
<1>4. CASE ~Present(d)
  <2>1. UNCHANGED <<pc, job>> BY <1>4 DEF close
  <2>2. JobSound(t)' BY <1>1, <2>1 DEF JobSound
  <2> QED BY <1>1, <1>2, <1>4, <2>1, <2>2 DEF JobStep, Acts, TypeOK
<1> QED BY <1>3, <1>4

(* It gives its reference back. *)
LEMMA CloseUnrefJob ==
    ASSUME TypeOK, JobsSound, NEW t \in Threads, CloseUnref(t)
    PROVE  /\ JobStep(t) /\ Fd(t) \in Fds /\ pc[t] = "copied" /\ job[t].call \in Closing
           /\ pc'[t] = "remove" /\ job'[t] = job[t]
<1>1. job[t] \in Jobs /\ pc[t] = "copied" /\ JobSound(t) BY Known DEF CloseUnref, At
<1>2. Fd(t) \in Fds /\ job[t].call \in Closing BY <1>1 DEF JobSound, Closers, Fd
<1>3. Goes(t, "remove") /\ UNCHANGED job /\ "remove" \in Places BY DEF CloseUnref, Places
<1>4. Acts(t) /\ pc'[t] = "remove" /\ job'[t] = job[t] BY <1>3, PlaceJob
<1>5. JobSound(t)' BY <1>1, <1>4 DEF JobSound, Closers
<1> QED BY <1>1, <1>2, <1>3, <1>4, <1>5, PlaceJob DEF JobStep

(* It removes the descriptor. *)
LEMMA LeavesJob ==
    ASSUME TypeOK, JobsSound, NEW t \in Threads, CloseRemoves(t)
    PROVE  /\ JobStep(t) /\ Fd(t) \in Fds /\ pc[t] = "remove" /\ job[t].call \in Closing
           /\ pc'[t] = IF job[t].intern = FILE THEN "closed" ELSE "pipe"
           /\ job'[t] = [job[t] EXCEPT !.fd = -1]
<1> DEFINE j == [job[t] EXCEPT !.fd = -1]
           place == IF job[t].intern = FILE THEN "closed" ELSE "pipe"
<1>1. job[t] \in Jobs /\ pc[t] = "remove" /\ JobSound(t) BY Known DEF CloseRemoves, At
<1>2. Fd(t) \in Fds /\ job[t].call \in Closing BY <1>1 DEF JobSound, Closers, Fd
<1>3. j \in Jobs BY <1>1 DEF Jobs
<1>4. Goto(t, place, j) /\ place \in Places BY <1>1 DEF CloseRemoves, Goes, Goto, Places, TypeOK, Jobs
<1>5. pc'[t] = place /\ job'[t] = j BY <1>3, <1>4, GotoActs
<1>6. JobSound(t)'
      BY <1>1, <1>2, <1>5 DEF JobSound, Closers, Jobs, ByHandle, Calls, Closing, Dups, Fd
<1> QED BY <1>1, <1>2, <1>3, <1>4, <1>5, <1>6, GotoActs DEF JobStep

(* After a close its callers go on. *)
LEMMA ClosedJob ==
    ASSUME TypeOK, JobsSound, NEW t \in Threads, Closed(t)
    PROVE  /\ JobStep(t) /\ pc[t] = "closed" /\ job[t].call \in Closing /\ job[t].fd = -1
           /\ job[t].call = "close" =>
                 /\ t # Urm /\ job[t].h \in Handles /\ ReleasesIfHeld(t)
                 /\ file_handles' = [file_handles EXCEPT ![t[1]][job[t].h] = -1]
                 /\ pc'[t] = "user" /\ job'[t] = NoJob
           /\ job[t].call = "dup2" =>
                 /\ t # Urm /\ UNCHANGED <<file_handles, file_handles_lock>>
                 /\ pc'[t] = "fd" /\ job'[t] = [job[t] EXCEPT !.fd = job[t].old]
           /\ job[t].call = "exit" =>
                 /\ t = Urm /\ UNCHANGED <<file_handles, file_handles_lock>>
                 /\ pc'[t] = "exit" /\ job'[t] = [job[t] EXCEPT !.h = @ + 1]
<1>1. job[t] \in Jobs /\ JobSound(t) /\ pc[t] = "closed" BY Known DEF Closed, At
<1>2. job[t].fd = -1 /\ job[t].call \in Closing BY <1>1 DEF JobSound, Closers
<1>3. CASE job[t].call = "close"
  <2>1. Returns(t) /\ ReleasesIfHeld(t) /\ file_handles' = [file_handles EXCEPT ![t[1]][job[t].h] = -1]
        BY <1>3 DEF Closed
  <2>2. t # Urm /\ job[t].h \in Handles BY <1>1, <1>3 DEF JobSound, Closers, ByHandle
  <2> QED BY <1>1, <1>2, <1>3, <2>1, <2>2, ReturnJob
<1>4. CASE job[t].call = "dup2"
  <2> DEFINE j == [job[t] EXCEPT !.fd = job[t].old]
  <2>1. /\ job' = [job EXCEPT ![t].fd = job[t].old] /\ Goes(t, "fd")
        /\ UNCHANGED <<file_handles, file_handles_lock>>
        BY <1>4 DEF Closed
  <2>2. t # Urm /\ job[t].old \in Fds BY <1>1, <1>4 DEF JobSound, Closers
  <2>3. j \in Jobs BY <1>1 DEF Jobs
  <2>4. Goto(t, "fd", j) /\ "fd" \in Places BY <1>1, <2>1 DEF Goes, Goto, Places, TypeOK
  <2>5. pc'[t] = "fd" /\ job'[t] = j BY <2>3, <2>4, GotoActs
  <2>6. JobSound(t)' BY ONLY <1>1, <1>4, <2>2, <2>5 DEF JobSound, Closers, Jobs, ByHandle, Calls, Closing, Dups
  <2> QED BY <1>1, <1>2, <1>4, <2>1, <2>2, <2>3, <2>4, <2>5, <2>6, GotoActs DEF JobStep
<1>5. CASE job[t].call = "exit"
  <2> DEFINE j == [job[t] EXCEPT !.h = @ + 1]
  <2>1. /\ job' = [job EXCEPT ![t].h = @ + 1] /\ Goes(t, "exit")
        /\ UNCHANGED <<file_handles, file_handles_lock>>
        BY <1>5 DEF Closed
  <2>2. t = Urm /\ job[t].h \in Handles BY <1>1, <1>5 DEF JobSound, Closers
  <2>3. j \in Jobs BY <1>1, <2>2, Bounds DEF Jobs
  <2>4. Goto(t, "exit", j) /\ "exit" \in Places BY <1>1, <2>1 DEF Goes, Goto, Places, TypeOK, Jobs
  <2>5. pc'[t] = "exit" /\ job'[t] = j BY <2>3, <2>4, GotoActs
  <2>6. JobSound(t)' BY ONLY <1>1, <1>5, <2>2, <2>5 DEF JobSound, Closers, Jobs, ByHandle, Calls, Closing, Dups
  <2> QED BY <1>1, <1>2, <1>5, <2>1, <2>2, <2>3, <2>4, <2>5, <2>6, GotoActs DEF JobStep
<1> QED BY <1>2, <1>3, <1>4, <1>5 DEF Closing

(* The monitor reaches the next handle of its victim. *)
LEMMA ExitClosesJob ==
    ASSUME TypeOK, JobsSound, ExitCloses
    PROVE  LET h == job[Urm].h
               d == file_handles[victim][h]
           IN  /\ JobStep(Urm) /\ h \in Handles /\ d \in Fds \cup {-1} /\ victim \in Procs
               /\ d = -1 => pc'[Urm] = "exit" /\ job'[Urm] = [job[Urm] EXCEPT !.call = "exit", !.h = @ + 1]
               /\ d # -1 => pc'[Urm] = "close" /\ job'[Urm] = [job[Urm] EXCEPT !.call = "exit", !.fd = d]
<1> DEFINE h == job[Urm].h
           d == file_handles[victim][h]
<1>1. /\ job[Urm] \in Jobs /\ JobSound(Urm) /\ pc[Urm] \in {"user", "exit"} /\ h \in Handles /\ Urm \in Threads
      /\ victim \in Procs
      BY Bounds, Known DEF ExitCloses, TypeOK
<1>2. d \in Fds \cup {-1} BY <1>1 DEF TypeOK
<1>3. CASE d = -1
  <2> DEFINE j == [job[Urm] EXCEPT !.call = "exit", !.h = @ + 1]
  <2>1. job' = [job EXCEPT ![Urm].call = "exit", ![Urm].h = @ + 1] /\ Goes(Urm, "exit")
        BY <1>3 DEF ExitCloses
  <2>2. j \in Jobs BY <1>1, Bounds DEF Jobs
  <2>3. Goto(Urm, "exit", j) /\ "exit" \in Places BY <1>1, <2>1 DEF Goes, Goto, Places, TypeOK, Jobs
  <2>4. pc'[Urm] = "exit" /\ job'[Urm] = j BY <1>1, <2>2, <2>3, GotoActs
  <2>5. JobSound(Urm)' BY ONLY <1>1, <2>4 DEF JobSound, Closers, Jobs, ByHandle, Calls, Closing, Dups
  <2> QED BY <1>1, <1>2, <1>3, <2>2, <2>3, <2>4, <2>5, GotoActs DEF JobStep
<1>4. CASE d # -1
  <2> DEFINE j == [job[Urm] EXCEPT !.call = "exit", !.fd = d]
  <2>1. job' = [job EXCEPT ![Urm].call = "exit", ![Urm].fd = d] /\ Goes(Urm, "close")
        BY <1>4 DEF ExitCloses
  <2>2. j \in Jobs BY <1>1, <1>2 DEF Jobs
  <2>3. Goto(Urm, "close", j) /\ "close" \in Places BY <1>1, <2>1 DEF Goes, Goto, Places, TypeOK, Jobs
  <2>4. pc'[Urm] = "close" /\ job'[Urm] = j BY <1>1, <2>2, <2>3, GotoActs
  <2>5. JobSound(Urm)' BY ONLY <1>1, <1>2, <1>4, <2>4 DEF JobSound, Closers, Jobs, ByHandle, Calls, Closing, Dups
  <2> QED BY <1>1, <1>2, <1>4, <2>2, <2>3, <2>4, <2>5, GotoActs DEF JobStep
<1> QED BY <1>3, <1>4

(* A step of a thread within a call. *)
LEMMA ContinueJob ==
    ASSUME TypeOK, JobsSound, NEW t \in Threads, Continue(t)
    PROVE  JobStep(t)
<1>1. CASE Refused(t) BY <1>1, ReturnJob DEF Refused
<1>2. CASE syscall_read(t) BY <1>2, LocksJob DEF syscall_read
<1>3. CASE syscall_write(t) BY <1>3, LocksJob DEF syscall_write
<1>4. CASE syscall_close(t) BY <1>4, LocksJob DEF syscall_close
<1>5. CASE syscall_stat(t) BY <1>5, LocksJob DEF syscall_stat
<1>6. CASE syscall_pipe(t)
  <2>1. PICK i \in Pipes, r, w \in Fds, hr, hw \in Handles :
            /\ First(i, FreePipes) /\ First(r, FreeFds) /\ First(w, FreeFds \ {r})
            /\ First(hr, FreeHandles(t[1])) /\ First(hw, FreeHandles(t[1]) \ {hr})
            /\ pipes' = [pipes EXCEPT ![i] = NewPipe]
            /\ leaked' = [leaked EXCEPT ![i] = 0]
            /\ file_descriptors' = [d \in Fds |->
                   IF d \in {r, w} THEN [refcount |-> 1, present |-> TRUE, intern |-> i]
                   ELSE file_descriptors[d]]
            /\ file_handles' = [file_handles EXCEPT ![t[1]][hr] = r, ![t[1]][hw] = w]
            /\ job' = [job EXCEPT ![t].fd = r, ![t].old = w]
        BY <1>6 DEF syscall_pipe
  <2>2. Calling(t, {"pipe"}) /\ Goes(t, "fd") BY <1>6 DEF syscall_pipe
  <2> QED BY <2>1, <2>2, PipeJob
<1>7. CASE fcntl_dupfd(t) BY <1>7, ReturnJob, DupfdJob DEF fcntl_dupfd
<1>8. CASE ForkBegins(t)
  <2>1. PICK c \in FreeProcs : job' = [job EXCEPT ![t].new = c] BY <1>8 DEF ForkBegins
  <2>2. c \in Procs BY DEF FreeProcs
  <2> QED BY <1>8, <2>1, <2>2, ForkBeginsJob
<1>9. CASE ForkEnds(t) BY <1>9, ReturnJob DEF ForkEnds
<1>10. CASE pipe_read(t) BY <1>10, DoneJob DEF pipe_read, Operates, At
<1>11. CASE pipe_write(t) BY <1>11, DoneJob DEF pipe_write, Operates, At
<1>12. CASE pipe_setflflags(t) BY <1>12, DoneJob DEF pipe_setflflags, Operates, At
<1>13. CASE pipe_dup(t) BY <1>13, DoneJob DEF pipe_dup, Operates, At
<1>14. CASE PipeWoken(t) BY <1>14, WokenJob DEF PipeWoken, At
<1>15. CASE PipeAborted(t) BY <1>15, WokenJob DEF PipeAborted, At
<1>16. CASE syscall_open(t) \/ syscall_dup2(t) \/ syscall_fcntl(t) \/ ForkCopies(t)
       BY <1>16, OpenJob, Dup2Job, FcntlJob, ForkCopiesJob
<1>17. CASE FdGet(t) \/ PipeGet(t) \/ PipeBlocks(t) \/ pipe_close(t) \/ PipeUnref(t)
       BY <1>17, FdGetJob, PipeGetJob, BlocksJob, CloseJob, PipeUnrefJob
<1>18. CASE FdUnref(t) \/ FdCreate(t) \/ Dup2Stores(t) \/ Closed(t)
       BY <1>18, FdUnrefJob, CreateJob, StoresJob, ClosedJob
<1>19. CASE close(t) \/ CloseUnref(t) \/ CloseRemoves(t)
       BY <1>19, CopiesJob, CloseUnrefJob, LeavesJob
<1> QED
    BY <1>1, <1>2, <1>3, <1>4, <1>5, <1>6, <1>7, <1>8, <1>9, <1>10, <1>11, <1>12, <1>13,
       <1>14, <1>15, <1>16, <1>17, <1>18, <1>19 DEF Continue

(* Every step is one of a thread, or leaves places and locals as they are. *)
LEMMA JobsStep ==
    ASSUME TypeOK, JobsSound, running \subseteq UserThreads, Next
    PROVE  /\ (\E t \in Threads : JobStep(t)) \/ UNCHANGED <<pc, job>>
           /\ JobsSound' /\ pc' \in [Threads -> Places] /\ job' \in [Threads -> Jobs]
<1>1. ASSUME NEW t \in Threads, Program(t) PROVE JobStep(t)
      BY <1>1, EnterCases, EnterJob
<1>2. ASSUME NEW t \in Threads, Continue(t) PROVE JobStep(t) BY <1>2, ContinueJob
<1>3. ASSUME Monitor PROVE JobStep(Urm) \/ UNCHANGED <<pc, job>>
  <2>1. CASE MonitorKills BY <2>1 DEF MonitorKills
  <2>2. CASE ExitCloses BY <2>2, ExitClosesJob
  <2>3. CASE ExitEnds BY <2>3, ReturnJob, Bounds DEF ExitEnds
  <2> QED BY <1>3, <2>1, <2>2, <2>3 DEF Monitor
<1>4. ASSUME NEW p \in Procs, HandlerStarts(p) \/ ExitBegins(p) PROVE UNCHANGED <<pc, job>>
      BY <1>4 DEF HandlerStarts, ExitBegins
<1>5. (\E t \in Threads : JobStep(t)) \/ UNCHANGED <<pc, job>>
      BY <1>1, <1>2, <1>3, <1>4, Bounds DEF Next
<1>6. ASSUME NEW t \in Threads, JobStep(t)
      PROVE  JobsSound' /\ pc' \in [Threads -> Places] /\ job' \in [Threads -> Jobs]
  <2>1. ASSUME NEW u \in Threads \ {t} PROVE JobSound(u)'
    <3>1. pc'[u] = pc[u] /\ job'[u] = job[u] /\ JobSound(u) BY <1>6 DEF JobStep, Acts, JobsSound
    <3> QED BY <3>1 DEF JobSound, Closers
  <2> QED BY <1>6, <2>1 DEF JobStep, JobsSound
<1>7. ASSUME UNCHANGED <<pc, job>>
      PROVE  JobsSound' /\ pc' \in [Threads -> Places] /\ job' \in [Threads -> Jobs]
  <2>1. ASSUME NEW u \in Threads PROVE JobSound(u)'
    <3>1. pc'[u] = pc[u] /\ job'[u] = job[u] /\ JobSound(u) BY <1>7 DEF JobsSound
    <3> QED BY <3>1 DEF JobSound, Closers
  <2> QED BY <1>7, <2>1 DEF JobsSound, TypeOK
<1> QED BY <1>5, <1>6, <1>7

-----------------------------------------------------------------------------
(* A set of threads that one thread may enter or leave. *)
LEMMA CountStep ==
    ASSUME NEW X, IsFiniteSet(X), NEW S \in SUBSET X, NEW T \in SUBSET X, NEW t \in X,
           \A u \in X \ {t} : u \in S <=> u \in T
    PROVE  /\ Cardinality(S) \in Nat /\ Cardinality(T) \in Nat
           /\ Cardinality(T) + One(t \in S) = Cardinality(S) + One(t \in T)
           /\ t \in S => Cardinality(S) > 0
<1>1. IsFiniteSet(S) /\ IsFiniteSet(T) BY FS_Subset
<1>2. Cardinality(S) \in Nat /\ Cardinality(T) \in Nat BY <1>1, FS_CardinalityType
<1>3. CASE t \in S /\ t \notin T
  <2>1. T = S \ {t} BY <1>3
  <2>2. Cardinality(T) = Cardinality(S) - 1 BY <1>1, <1>3, <2>1, FS_RemoveElement
  <2> QED BY <1>2, <1>3, <2>2 DEF One
<1>4. CASE t \notin S /\ t \in T
  <2>1. T = S \cup {t} BY <1>4
  <2>2. Cardinality(T) = Cardinality(S) + 1 BY <1>1, <1>4, <2>1, FS_AddElement
  <2> QED BY <1>2, <1>4, <2>2 DEF One
<1>5. CASE (t \in S) <=> (t \in T)
  <2>1. T = S BY <1>5
  <2>2. t \in S => Cardinality(S) > 0
    <3>1. ASSUME t \in S PROVE Cardinality(S \ {t}) = Cardinality(S) - 1
          BY <1>1, <3>1, FS_RemoveElement
    <3>2. Cardinality(S \ {t}) \in Nat BY <1>1, FS_Subset, FS_CardinalityType
    <3> QED BY <1>2, <3>1, <3>2
  <2> QED BY <1>2, <1>5, <2>1, <2>2 DEF One
<1> QED BY <1>3, <1>4, <1>5

(* How a step of thread t changes the sets of users. *)
LEMMA FdUsersStep ==
    ASSUME NEW t \in Threads, Acts(t), NEW d
    PROVE  /\ Cardinality(FdUsers(d)) \in Nat /\ Cardinality(FdUsers(d)') \in Nat
           /\ Cardinality(FdUsers(d)') + One(t \in FdUsers(d)) = Cardinality(FdUsers(d)) + One(t \in FdUsers(d)')
           /\ t \in FdUsers(d) => Cardinality(FdUsers(d)) > 0
           /\ \A u \in Threads \ {t} : u \in FdUsers(d) <=> u \in FdUsers(d)'
<1>1. FdUsers(d) \in SUBSET Threads /\ FdUsers(d)' \in SUBSET Threads BY DEF FdUsers
<1>2. \A u \in Threads \ {t} : u \in FdUsers(d) <=> u \in FdUsers(d)' BY DEF FdUsers, Acts, Fd
<1> QED BY ONLY <1>1, <1>2, t \in Threads, Finite, CountStep

(* The same for the users of a pipe. *)
LEMMA PipeUsersStep ==
    ASSUME NEW t \in Threads, Acts(t), NEW i
    PROVE  /\ Cardinality(PipeUsers(i)) \in Nat /\ Cardinality(PipeUsers(i)') \in Nat
           /\ Cardinality(PipeUsers(i)') + One(t \in PipeUsers(i)) = Cardinality(PipeUsers(i)) + One(t \in PipeUsers(i)')
           /\ t \in PipeUsers(i) => Cardinality(PipeUsers(i)) > 0
           /\ \A u \in Threads \ {t} : u \in PipeUsers(i) <=> u \in PipeUsers(i)'
<1>1. PipeUsers(i) \in SUBSET Threads /\ PipeUsers(i)' \in SUBSET Threads BY DEF PipeUsers
<1>2. \A u \in Threads \ {t} : u \in PipeUsers(i) <=> u \in PipeUsers(i)' BY DEF PipeUsers, Acts
<1> QED BY ONLY <1>1, <1>2, t \in Threads, Finite, CountStep

(* The same for the duplicates under way. *)
LEMMA DupEndsStep ==
    ASSUME NEW t \in Threads, Acts(t), NEW i
    PROVE  /\ Cardinality(DupEnds(i)) \in Nat /\ Cardinality(DupEnds(i)') \in Nat
           /\ Cardinality(DupEnds(i)') + One(t \in DupEnds(i)) = Cardinality(DupEnds(i)) + One(t \in DupEnds(i)')
           /\ t \in DupEnds(i) => Cardinality(DupEnds(i)) > 0
<1>1. DupEnds(i) \in SUBSET Threads /\ DupEnds(i)' \in SUBSET Threads BY DEF DupEnds
<1>2. \A u \in Threads \ {t} : u \in DupEnds(i) <=> u \in DupEnds(i)'
      BY DEF DupEnds, Acts, IsDup, IsClose, Fd
<1> QED BY ONLY <1>1, <1>2, t \in Threads, Finite, CountStep

(* The same for the closes under way. *)
LEMMA CloseEndsStep ==
    ASSUME NEW t \in Threads, Acts(t), NEW i
    PROVE  /\ Cardinality(CloseEnds(i)) \in Nat /\ Cardinality(CloseEnds(i)') \in Nat
           /\ Cardinality(CloseEnds(i)') + One(t \in CloseEnds(i)) = Cardinality(CloseEnds(i)) + One(t \in CloseEnds(i)')
           /\ t \in CloseEnds(i) => Cardinality(CloseEnds(i)) > 0
<1>1. CloseEnds(i) \in SUBSET Threads /\ CloseEnds(i)' \in SUBSET Threads BY DEF CloseEnds
<1>2. \A u \in Threads \ {t} : u \in CloseEnds(i) <=> u \in CloseEnds(i)'
      BY DEF CloseEnds, Acts, IsClose, Fd
<1> QED BY ONLY <1>1, <1>2, t \in Threads, Finite, CountStep

(* One descriptor may become an end of the pipe or cease to be one. *)
LEMMA OpenEndsStep ==
    ASSUME NEW d \in Fds, NEW i, \A b \in Fds \ {d} : file_descriptors'[b] = file_descriptors[b]
    PROVE  /\ Cardinality(OpenEnds(i)) \in Nat /\ Cardinality(OpenEnds(i)') \in Nat
           /\ Cardinality(OpenEnds(i)') + One(d \in OpenEnds(i)) = Cardinality(OpenEnds(i)) + One(d \in OpenEnds(i)')
           /\ d \in OpenEnds(i) => Cardinality(OpenEnds(i)) > 0
<1>1. OpenEnds(i) \in SUBSET Fds /\ OpenEnds(i)' \in SUBSET Fds BY DEF OpenEnds
<1>2. \A b \in Fds \ {d} : b \in OpenEnds(i) <=> b \in OpenEnds(i)' BY DEF OpenEnds, Present
<1> QED BY ONLY <1>1, <1>2, d \in Fds, Finite, CountStep

(* What a step of thread t does to the descriptor d: nothing, a reference that
   is taken or given back, a new descriptor, or one that leaves the array. *)
FdStep(t, d) ==
    LET e == file_descriptors[d]
        new == file_descriptors'[d]
        was == t \in FdUsers(d)
        is == t \in FdUsers(d)'
    IN  \/ new = e /\ (was <=> is) /\ (is => job'[t].intern = job[t].intern)
        \/ Present(e) /\ ~was /\ is /\ job'[t].intern = e.intern /\ new = [e EXCEPT !.refcount = @ + 1]
        \/ was /\ ~is /\ new = UnrefFd(e)
        \/ /\ e = NULL /\ ~is
           /\ \E i \in Pipes \cup {FILE} : new = [refcount |-> 1, present |-> TRUE, intern |-> i]
        \/ Present(e) /\ ~was /\ ~is /\ new = UnrefFd([e EXCEPT !.present = FALSE])

(* The references to d stay counted. *)
LEMMA FdRefsStep ==
    ASSUME NEW t \in Threads, Acts(t), NEW d \in Fds, FdRefs(d),
           file_descriptors[d] \in Descriptors \cup {NULL}, FdStep(t, d)
    PROVE  FdRefs(d)' /\ file_descriptors'[d] \in Descriptors \cup {NULL}
<1> DEFINE e == file_descriptors[d]
           new == file_descriptors'[d]
           U == FdUsers(d)
           V == FdUsers(d)'
<1>1. /\ Cardinality(U) \in Nat /\ Cardinality(V) \in Nat
      /\ Cardinality(V) + One(t \in U) = Cardinality(U) + One(t \in V)
      /\ t \in U => Cardinality(U) > 0
      /\ \A u \in Threads \ {t} : u \in U <=> u \in V
      BY FdUsersStep
<1>2. /\ e = NULL => U = {}
      /\ e # NULL => e \in Descriptors /\ e.refcount > 0 /\ e.refcount = One(e.present) + Cardinality(U)
      /\ \A u \in U : e.intern = job[u].intern
      BY DEF FdRefs
<1>3. \A u \in Threads \ {t} : job'[u] = job[u] BY DEF Acts
<1>4. U \subseteq Threads /\ V \subseteq Threads BY DEF FdUsers
<1>5. SUFFICES /\ new \in Descriptors \cup {NULL}
               /\ new = NULL => V = {}
               /\ new # NULL => new.refcount > 0 /\ new.refcount = One(new.present) + Cardinality(V)
               /\ \A u \in V : new.intern = job'[u].intern
      BY DEF FdRefs
<1>6. Cardinality(V) = 0 => V = {}
  <2>1. IsFiniteSet(V) BY <1>4, Finite, FS_Subset
  <2> QED BY <2>1, FS_EmptySet
<1> HIDE DEF U, V
<1>7. CASE new = e /\ (t \in U <=> t \in V) /\ (t \in V => job'[t].intern = job[t].intern)
  <2>1. U = V BY <1>1, <1>4, <1>7
  <2>2. \A u \in V : new.intern = job'[u].intern BY <1>2, <1>3, <1>4, <1>7, <2>1
  <2> QED BY <1>2, <1>7, <2>1, <2>2
<1>8. CASE Present(e) /\ t \notin U /\ t \in V /\ job'[t].intern = e.intern /\ new = [e EXCEPT !.refcount = @ + 1]
  <2>1. e \in Descriptors /\ e # NULL BY <1>2, <1>8 DEF Present
  <2>2. new \in Descriptors /\ new.refcount = e.refcount + 1 /\ new.present = e.present /\ new.intern = e.intern
        BY <1>8, <2>1 DEF Descriptors
  <2>3. \A u \in V : new.intern = job'[u].intern BY <1>1, <1>2, <1>3, <1>4, <1>8, <2>2
  <2>4. new # NULL BY <2>2, NullAssumption
  <2>5. Cardinality(V) = Cardinality(U) + 1 BY <1>1, <1>8 DEF One
  <2>6. e.present \in BOOLEAN /\ e.refcount \in Nat BY <2>1 DEF Descriptors
  <2> QED BY <1>1, <1>2, <2>1, <2>2, <2>3, <2>4, <2>5, <2>6 DEF One
<1>9. CASE t \in U /\ t \notin V /\ new = UnrefFd(e)
  <2>1. e \in Descriptors /\ e # NULL BY <1>2, <1>9
  <2>2. e.present \in BOOLEAN /\ e.refcount \in Nat BY <2>1 DEF Descriptors
  <2>3. Cardinality(U) = Cardinality(V) + 1 BY <1>1, <1>9 DEF One
  <2>4. CASE e.refcount = 1
    <3>1. new = NULL BY <1>9, <2>4 DEF UnrefFd
    <3>2. Cardinality(V) = 0 BY <1>1, <1>2, <2>1, <2>2, <2>3, <2>4 DEF One
    <3> QED BY <1>6, <3>1, <3>2
  <2>5. CASE e.refcount # 1
    <3>1. new = [e EXCEPT !.refcount = @ - 1] BY <1>9, <2>1, <2>5 DEF UnrefFd
    <3>2. e.refcount - 1 \in Nat /\ e.refcount - 1 > 0 BY <1>2, <2>1, <2>2, <2>5
    <3>3. new \in Descriptors /\ new.refcount = e.refcount - 1 /\ new.present = e.present /\ new.intern = e.intern
          BY <2>1, <3>1, <3>2 DEF Descriptors
    <3>4. \A u \in V : new.intern = job'[u].intern BY <1>1, <1>2, <1>3, <1>4, <1>9, <3>3
    <3>5. new # NULL BY <3>3, NullAssumption
    <3> QED BY <1>1, <1>2, <2>1, <2>2, <2>3, <3>2, <3>3, <3>4, <3>5 DEF One
  <2> QED BY <2>4, <2>5
<1>10. CASE /\ e = NULL /\ t \notin V
            /\ \E i \in Pipes \cup {FILE} : new = [refcount |-> 1, present |-> TRUE, intern |-> i]
  <2>1. U = {} BY <1>2, <1>10
  <2>2. V = {} BY <1>1, <1>4, <1>10, <2>1
  <2>3. new \in Descriptors /\ new.refcount = 1 /\ new.present = TRUE BY <1>10 DEF Descriptors
  <2>4. Cardinality(V) = 0 BY <2>2, FS_EmptySet
  <2>5. new # NULL BY <2>3, NullAssumption
  <2> QED BY <2>2, <2>3, <2>4, <2>5 DEF One
<1>11. CASE Present(e) /\ t \notin U /\ t \notin V /\ new = UnrefFd([e EXCEPT !.present = FALSE])
  <2> DEFINE f == [e EXCEPT !.present = FALSE]
  <2>1. e \in Descriptors /\ e # NULL /\ e.present BY <1>2, <1>11 DEF Present
  <2>2. e.refcount \in Nat BY <2>1 DEF Descriptors
  <2>3. U = V BY <1>1, <1>4, <1>11
  <2>4. f \in Descriptors /\ f.refcount = e.refcount /\ f.present = FALSE /\ f.intern = e.intern
        BY <2>1 DEF Descriptors
  <2>5. e.refcount = 1 + Cardinality(U) /\ f # NULL BY <1>2, <2>1, <2>4, NullAssumption DEF One
  <2>6. CASE e.refcount = 1
    <3>1. new = NULL BY <1>11, <2>4, <2>6 DEF UnrefFd
    <3>2. Cardinality(V) = 0 BY <1>1, <2>3, <2>5, <2>6
    <3> QED BY <1>6, <3>1, <3>2
  <2>7. CASE e.refcount # 1
    <3>1. new = [f EXCEPT !.refcount = @ - 1] BY <1>11, <2>4, <2>5, <2>7 DEF UnrefFd
    <3>2. e.refcount - 1 \in Nat /\ e.refcount - 1 > 0 BY <1>1, <2>2, <2>5, <2>7
    <3>3. new \in Descriptors /\ new.refcount = e.refcount - 1 /\ new.present = FALSE /\ new.intern = e.intern
          BY <2>4, <3>1, <3>2 DEF Descriptors
    <3>4. \A u \in V : new.intern = job'[u].intern BY <1>1, <1>2, <1>3, <1>4, <1>11, <3>3
    <3>5. new # NULL BY <3>3, NullAssumption
    <3> QED BY <1>1, <2>2, <2>3, <2>5, <3>2, <3>3, <3>4, <3>5 DEF One
  <2> QED BY <2>6, <2>7
<1> QED BY <1>7, <1>8, <1>9, <1>10, <1>11 DEF FdStep, U, V

(* What a step of thread t does to the pipe i. *)
PipeStep(t, i) ==
    LET e == pipes[i]
        new == pipes'[i]
        was == t \in PipeUsers(i)
        is == t \in PipeUsers(i)'
    IN  \/ new = e /\ leaked'[i] = leaked[i] /\ (was <=> is)
        \/ /\ was /\ is /\ leaked'[i] = leaked[i]
           /\ new \in PipeTs /\ new.refs = e.refs /\ new.present = e.present
           /\ new.refcount > 0 <=> e.refcount > 0
        \/ Present(e) /\ ~was /\ is /\ new = [e EXCEPT !.refs = @ + 1] /\ leaked'[i] = leaked[i]
        \/ was /\ ~is /\ new = UnrefPipe(e) /\ leaked'[i] = leaked[i]
        \/ /\ was /\ ~is /\ leaked'[i] = leaked[i] + 1
           /\ new \in PipeTs /\ new.refs = e.refs /\ new.present = e.present /\ new.refcount = e.refcount
        \/ e = NULL /\ ~is /\ new = NewPipe /\ leaked'[i] = 0
        \/ /\ Present(e) /\ was /\ ~is /\ leaked'[i] = leaked[i]
           /\ new = IF e.refs = 2 THEN NULL ELSE [e EXCEPT !.refcount = 0, !.present = FALSE, !.refs = @ - 2]

(* Each of the steps on a pipe keeps its references counted. *)
LEMMA PipeRefsStep ==
    ASSUME NEW t \in Threads, Acts(t), NEW i \in Pipes, PipeRefs(i), leaked[i] \in Nat,
           pipes[i] \in PipeTs \cup {NULL}, PipeStep(t, i)
    PROVE  PipeRefs(i)' /\ pipes'[i] \in PipeTs \cup {NULL} /\ leaked'[i] \in Nat
<1> DEFINE e == pipes[i]
           new == pipes'[i]
           U == PipeUsers(i)
           V == PipeUsers(i)'
<1>1. /\ Cardinality(U) \in Nat /\ Cardinality(V) \in Nat
      /\ Cardinality(V) + One(t \in U) = Cardinality(U) + One(t \in V)
      /\ t \in U => Cardinality(U) > 0
      /\ \A u \in Threads \ {t} : u \in U <=> u \in V
      BY PipeUsersStep
<1>2. /\ e = NULL => U = {}
      /\ e # NULL => /\ e \in PipeTs /\ e.refs > 0
                     /\ e.refs = One(e.present) + leaked[i] + Cardinality(U)
                     /\ e.present <=> e.refcount > 0
      BY DEF PipeRefs
<1>4. U \subseteq Threads /\ V \subseteq Threads BY DEF PipeUsers
<1>5. SUFFICES /\ new \in PipeTs \cup {NULL} /\ leaked'[i] \in Nat
               /\ new = NULL => V = {}
               /\ new # NULL => /\ new.refs > 0 /\ new.refs = One(new.present) + leaked'[i] + Cardinality(V)
                                /\ new.present <=> new.refcount > 0
      BY DEF PipeRefs
<1>6. Cardinality(V) = 0 => V = {}
  <2>1. IsFiniteSet(V) BY <1>4, Finite, FS_Subset
  <2> QED BY <2>1, FS_EmptySet
<1>0. e \in PipeTs => e.refs \in Nat /\ e.present \in BOOLEAN /\ e.refcount \in Nat BY DEF PipeTs
<1> HIDE DEF U, V
<1>7. CASE new = e /\ leaked'[i] = leaked[i] /\ (t \in U <=> t \in V)
  <2>1. U = V BY <1>1, <1>4, <1>7
  <2> QED BY <1>2, <1>7, <2>1
<1>8. CASE /\ t \in U /\ t \in V /\ leaked'[i] = leaked[i]
           /\ new \in PipeTs /\ new.refs = e.refs /\ new.present = e.present
           /\ new.refcount > 0 <=> e.refcount > 0
  <2>1. U = V BY <1>1, <1>4, <1>8
  <2>2. e # NULL BY <1>2, <1>8
  <2>3. new # NULL BY <1>8, NullAssumption
  <2> QED BY <1>2, <1>8, <2>1, <2>2, <2>3
<1>9. CASE Present(e) /\ t \notin U /\ t \in V /\ new = [e EXCEPT !.refs = @ + 1] /\ leaked'[i] = leaked[i]
  <2>1. e \in PipeTs /\ e # NULL BY <1>2, <1>9 DEF Present
  <2>0. PICK n \in Nat : n = e.refs + 1 BY <1>0, <2>1
  <2>2. new \in PipeTs /\ new.refs = e.refs + 1 /\ new.present = e.present /\ new.refcount = e.refcount
    <3>1. new = [e EXCEPT !.refs = n] BY <1>9, <2>0
    <3> QED BY ONLY <2>0, <2>1, <3>1 DEF PipeTs
  <2>3. new # NULL BY <2>2, NullAssumption
  <2>4. Cardinality(V) = Cardinality(U) + 1 BY <1>1, <1>9 DEF One
  <2> QED BY <1>0, <1>1, <1>2, <1>9, <2>1, <2>2, <2>3, <2>4 DEF One
<1>10. CASE t \in U /\ t \notin V /\ new = UnrefPipe(e) /\ leaked'[i] = leaked[i]
  <2>1. e \in PipeTs /\ e # NULL BY <1>2, <1>10
  <2>2. Cardinality(U) = Cardinality(V) + 1 BY <1>1, <1>10 DEF One
  <2>3. CASE e.refs = 1
    <3>1. new = NULL BY <1>10, <2>3 DEF UnrefPipe
    <3>2. Cardinality(V) = 0 BY <1>0, <1>1, <1>2, <2>1, <2>2, <2>3 DEF One
    <3> QED BY <1>6, <1>10, <3>1, <3>2
  <2>4. CASE e.refs # 1
    <3>1. new = [e EXCEPT !.refs = @ - 1] BY <1>10, <2>1, <2>4 DEF UnrefPipe
    <3>2. e.refs - 1 \in Nat /\ e.refs - 1 > 0 BY <1>0, <1>2, <2>1, <2>4
    <3>3. new \in PipeTs /\ new.refs = e.refs - 1 /\ new.present = e.present /\ new.refcount = e.refcount
          BY <2>1, <3>1, <3>2 DEF PipeTs
    <3>4. new # NULL BY <3>3, NullAssumption
    <3> QED BY <1>0, <1>1, <1>2, <1>10, <2>1, <2>2, <3>2, <3>3, <3>4 DEF One
  <2> QED BY <2>3, <2>4
<1>11. CASE /\ t \in U /\ t \notin V /\ leaked'[i] = leaked[i] + 1
            /\ new \in PipeTs /\ new.refs = e.refs /\ new.present = e.present /\ new.refcount = e.refcount
  <2>1. e \in PipeTs /\ e # NULL /\ new # NULL BY <1>2, <1>11, NullAssumption
  <2>2. Cardinality(U) = Cardinality(V) + 1 BY <1>1, <1>11 DEF One
  <2> QED BY <1>0, <1>1, <1>2, <1>11, <2>1, <2>2 DEF One
<1>12. CASE e = NULL /\ t \notin V /\ new = NewPipe /\ leaked'[i] = 0
  <2>1. U = {} BY <1>2, <1>12
  <2>2. V = {} BY <1>1, <1>4, <1>12, <2>1
  <2>3. new \in PipeTs /\ new.refs = 1 /\ new.present = TRUE /\ new.refcount = 2
        BY <1>12 DEF PipeTs, NewPipe, Orders
  <2>4. Cardinality(V) = 0 BY <2>2, FS_EmptySet
  <2> QED BY <1>12, <2>2, <2>3, <2>4, NullAssumption DEF One
<1>13. CASE /\ Present(e) /\ t \in U /\ t \notin V /\ leaked'[i] = leaked[i]
            /\ new = IF e.refs = 2 THEN NULL ELSE [e EXCEPT !.refcount = 0, !.present = FALSE, !.refs = @ - 2]
  <2>1. e \in PipeTs /\ e # NULL /\ e.present BY <1>2, <1>13 DEF Present
  <2>2. Cardinality(U) = Cardinality(V) + 1 BY <1>1, <1>13 DEF One
  <2>3. e.refs = 2 + leaked[i] + Cardinality(V) BY <1>0, <1>1, <1>2, <2>1, <2>2 DEF One
  <2>4. CASE e.refs = 2
    <3>1. Cardinality(V) = 0 BY <1>1, <2>3, <2>4
    <3> QED BY <1>6, <1>13, <2>4, <3>1
  <2>5. CASE e.refs # 2
    <3>1. e.refs - 2 \in Nat /\ e.refs - 2 > 0 BY <1>1, <2>3, <2>5
    <3>2. new \in PipeTs /\ new.refs = e.refs - 2 /\ new.present = FALSE /\ new.refcount = 0
      <4>1. PICK n \in Nat : n = e.refs - 2 BY <3>1
      <4>2. new = [e EXCEPT !.refcount = 0, !.present = FALSE, !.refs = n] BY <1>13, <2>5, <4>1
      <4>a. PICK f \in PipeTs : f = e BY <2>1
      <4>b. PICK g : g = new OBVIOUS
      <4>c. g = [f EXCEPT !.refcount = 0, !.present = FALSE, !.refs = n] BY <4>2, <4>a, <4>b
      <4>3. g \in PipeTs /\ g.refs = n /\ g.present = FALSE /\ g.refcount = 0
            BY ONLY f \in PipeTs, n \in Nat, <4>c DEF PipeTs
      <4> QED BY <4>1, <4>3, <4>b
    <3>3. new # NULL BY <3>2, NullAssumption
    <3> QED BY <1>1, <1>13, <2>3, <3>1, <3>2, <3>3 DEF One
  <2> QED BY <2>4, <2>5
<1> QED BY <1>7, <1>8, <1>9, <1>10, <1>11, <1>12, <1>13 DEF PipeStep, U, V

(* Whether thread t is counted, in terms of its place and its locals. *)
LEMMA Member ==
    ASSUME NEW t \in Threads
    PROVE  /\ \A d : t \in FdUsers(d) <=> job[t].fd = d /\ pc[t] \in FdPlaces
           /\ \A d : t \in FdUsers(d)' <=> job'[t].fd = d /\ pc'[t] \in FdPlaces
           /\ \A i : t \in PipeUsers(i) <=> job[t].intern = i /\ pc[t] \in PipePlaces
           /\ \A i : t \in PipeUsers(i)' <=> job'[t].intern = i /\ pc'[t] \in PipePlaces
           /\ \A i : t \in DupEnds(i) <=>
                 /\ job[t].call \in Dups /\ job[t].intern = i
                 /\ pc[t] \in {"put", "create"} \/ (pc[t] = "unref" /\ job[t].fd # -1)
           /\ \A i : t \in DupEnds(i)' <=>
                 /\ job'[t].call \in Dups /\ job'[t].intern = i
                 /\ pc'[t] \in {"put", "create"} \/ (pc'[t] = "unref" /\ job'[t].fd # -1)
           /\ \A i : t \in CloseEnds(i) <=>
                 pc[t] \in {"pipe", "op"} /\ job[t].fd = -1 /\ job[t].intern = i
           /\ \A i : t \in CloseEnds(i)' <=>
                 pc'[t] \in {"pipe", "op"} /\ job'[t].fd = -1 /\ job'[t].intern = i
  BY DEF FdUsers, PipeUsers, DupEnds, CloseEnds, Fd, IsDup, IsClose, Dups

(* The ends of a pipe change by one thread and one descriptor. *)
LEMMA EndsStep ==
    ASSUME NEW t \in Threads, Acts(t), NEW i \in Pipes, Ends(i) = EndsOf(i),
           NEW a \in Fds, \A b \in Fds \ {a} : file_descriptors'[b] = file_descriptors[b],
           EndsOf(i) \in Nat, EndsOf(i)' \in Nat,
           One(a \in OpenEnds(i)') + One(t \in DupEnds(i)') + One(t \in CloseEnds(i)') + EndsOf(i)
               = One(a \in OpenEnds(i)) + One(t \in DupEnds(i)) + One(t \in CloseEnds(i)) + EndsOf(i)'
    PROVE  (Ends(i) = EndsOf(i))'
<1>1. /\ Cardinality(DupEnds(i)) \in Nat /\ Cardinality(DupEnds(i)') \in Nat
      /\ Cardinality(DupEnds(i)') + One(t \in DupEnds(i)) = Cardinality(DupEnds(i)) + One(t \in DupEnds(i)')
      BY DupEndsStep
<1>2. /\ Cardinality(CloseEnds(i)) \in Nat /\ Cardinality(CloseEnds(i)') \in Nat
      /\ Cardinality(CloseEnds(i)') + One(t \in CloseEnds(i)) = Cardinality(CloseEnds(i)) + One(t \in CloseEnds(i)')
      BY CloseEndsStep
<1>3. /\ Cardinality(OpenEnds(i)) \in Nat /\ Cardinality(OpenEnds(i)') \in Nat
      /\ Cardinality(OpenEnds(i)') + One(a \in OpenEnds(i)) = Cardinality(OpenEnds(i)) + One(a \in OpenEnds(i)')
      BY OpenEndsStep
<1>4. /\ One(a \in OpenEnds(i)) \in Nat /\ One(t \in DupEnds(i)) \in Nat /\ One(t \in CloseEnds(i)) \in Nat
      /\ One(a \in OpenEnds(i)') \in Nat /\ One(t \in DupEnds(i)') \in Nat /\ One(t \in CloseEnds(i)') \in Nat
      BY DEF One
<1>5. Cardinality(OpenEnds(i)) + Cardinality(DupEnds(i)) + Cardinality(CloseEnds(i)) = EndsOf(i) BY DEF Ends
<1>6. Cardinality(OpenEnds(i)') + Cardinality(DupEnds(i)') + Cardinality(CloseEnds(i)') = EndsOf(i)'
      BY <1>1, <1>2, <1>3, <1>4, <1>5
<1> QED BY <1>6 DEF Ends

(* The count of ends is a number. *)
LEMMA EndsOfNat ==
    ASSUME NEW i \in Pipes, pipes[i] \in PipeTs \cup {NULL}
    PROVE  EndsOf(i) \in Nat
  BY DEF EndsOf, Present, PipeTs

(* A step on one descriptor. *)
LEMMA FdOnly ==
    ASSUME ArraysSound, NEW t \in Threads, Acts(t), UNCHANGED <<pipes, leaked>>,
           NEW a \in Fds, NEW x, file_descriptors' = [file_descriptors EXCEPT ![a] = x], FdStep(t, a),
           \A d \in Fds \ {a} : t \notin FdUsers(d) /\ t \notin FdUsers(d)',
           \A i \in Pipes : t \in PipeUsers(i) <=> t \in PipeUsers(i)',
           \A i \in Pipes :
               One(a \in OpenEnds(i)') + One(t \in DupEnds(i)') + One(t \in CloseEnds(i)')
                   = One(a \in OpenEnds(i)) + One(t \in DupEnds(i)) + One(t \in CloseEnds(i))
    PROVE  ArraysSound'
<1>1. \A d \in Fds \ {a} : file_descriptors'[d] = file_descriptors[d] BY DEF ArraysSound, ArraysTyped
<1>2. ASSUME NEW d \in Fds PROVE FdRefs(d)' /\ file_descriptors'[d] \in Descriptors \cup {NULL}
  <2>1. FdStep(t, d) BY <1>1 DEF FdStep
  <2>2. FdRefs(d) /\ file_descriptors[d] \in Descriptors \cup {NULL}
        BY DEF ArraysSound, ArraysTyped, RefsSound
  <2> QED BY <2>1, <2>2, FdRefsStep
<1>3. ASSUME NEW i \in Pipes PROVE PipeRefs(i)'
  <2>1. PipeStep(t, i) BY DEF PipeStep
  <2>2. PipeRefs(i) /\ pipes[i] \in PipeTs \cup {NULL} /\ leaked[i] \in Nat
        BY DEF ArraysSound, ArraysTyped, RefsSound
  <2> QED BY <2>1, <2>2, PipeRefsStep
<1>4. ASSUME NEW i \in Pipes PROVE (Ends(i) = EndsOf(i))'
  <2>1. EndsOf(i)' = EndsOf(i) BY DEF EndsOf
  <2>2. EndsOf(i) \in Nat BY EndsOfNat DEF ArraysSound, ArraysTyped
  <2>3. Ends(i) = EndsOf(i) BY DEF ArraysSound, EndsSound
  <2>4. One(a \in OpenEnds(i)') + One(t \in DupEnds(i)') + One(t \in CloseEnds(i)')
            = One(a \in OpenEnds(i)) + One(t \in DupEnds(i)) + One(t \in CloseEnds(i))
        OBVIOUS
  <2> QED BY <1>1, <2>1, <2>2, <2>3, <2>4, EndsStep
<1>5. file_descriptors' = [d \in Fds |-> file_descriptors'[d]] BY DEF ArraysSound, ArraysTyped
<1>6. ArraysTyped' BY <1>2, <1>5 DEF ArraysSound, ArraysTyped
<1>7. BytesSound' BY DEF ArraysSound, BytesSound, BytesOK
<1> QED BY <1>2, <1>3, <1>4, <1>6, <1>7 DEF ArraysSound, RefsSound, EndsSound

(* A step on one pipe, which its thread keeps or gives back. *)
LEMMA PipeOnly ==
    ASSUME ArraysSound, NEW t \in Threads, Acts(t), UNCHANGED file_descriptors, job'[t] = job[t],
           NEW k \in Pipes, job[t].intern = k, NEW x, pipes' = [pipes EXCEPT ![k] = x],
           leaked' = [i \in Pipes |-> leaked'[i]], \A i \in Pipes \ {k} : leaked'[i] = leaked[i],
           PipeStep(t, k), BytesOK(k)',
           \A d \in Fds : t \in FdUsers(d) <=> t \in FdUsers(d)',
           One(t \in DupEnds(k)') + One(t \in CloseEnds(k)') + EndsOf(k)
               = One(t \in DupEnds(k)) + One(t \in CloseEnds(k)) + EndsOf(k)'
    PROVE  ArraysSound'
<1>1. \A i \in Pipes \ {k} : pipes'[i] = pipes[i] BY DEF ArraysSound, ArraysTyped
<1>2. ASSUME NEW i \in Pipes \ {k}
      PROVE  /\ t \notin PipeUsers(i) /\ t \notin PipeUsers(i)' /\ t \notin DupEnds(i) /\ t \notin DupEnds(i)'
             /\ t \notin CloseEnds(i) /\ t \notin CloseEnds(i)'
      BY Member
<1>3. ASSUME NEW d \in Fds PROVE FdRefs(d)'
  <2>1. FdStep(t, d) BY DEF FdStep
  <2>2. FdRefs(d) /\ file_descriptors[d] \in Descriptors \cup {NULL}
        BY DEF ArraysSound, ArraysTyped, RefsSound
  <2> QED BY <2>1, <2>2, FdRefsStep
<1>4. ASSUME NEW i \in Pipes PROVE PipeRefs(i)' /\ pipes'[i] \in PipeTs \cup {NULL} /\ leaked'[i] \in Nat
  <2>1. PipeStep(t, i)
    <3>1. CASE i = k BY <3>1
    <3>2. CASE i # k BY <1>1, <1>2, <3>2 DEF PipeStep
    <3> QED BY <3>1, <3>2
  <2>2. PipeRefs(i) /\ pipes[i] \in PipeTs \cup {NULL} /\ leaked[i] \in Nat
        BY DEF ArraysSound, ArraysTyped, RefsSound
  <2> QED BY <2>1, <2>2, PipeRefsStep
<1>5. ASSUME NEW i \in Pipes PROVE (Ends(i) = EndsOf(i))'
  <2>1. EndsOf(i) \in Nat BY EndsOfNat DEF ArraysSound, ArraysTyped
  <2>2. EndsOf(i)' \in Nat BY <1>4 DEF EndsOf, Present, PipeTs
  <2>3. Ends(i) = EndsOf(i) BY DEF ArraysSound, EndsSound
  <2>4. PICK a \in Fds : TRUE BY DescriptorsAssumption DEF Fds
  <2>5. OpenEnds(i)' = OpenEnds(i) BY DEF OpenEnds
  <2>6. One(t \in DupEnds(i)') + One(t \in CloseEnds(i)') + EndsOf(i)
            = One(t \in DupEnds(i)) + One(t \in CloseEnds(i)) + EndsOf(i)'
    <3>1. CASE i = k BY <3>1
    <3>2. CASE i # k
      <4>1. EndsOf(i)' = EndsOf(i) BY <1>1, <3>2 DEF EndsOf
      <4> QED BY <1>2, <3>2, <4>1 DEF One
    <3> QED BY <3>1, <3>2
  <2>7. \A b : One(b) \in Nat BY DEF One
  <2>8. One(a \in OpenEnds(i)') + One(t \in DupEnds(i)') + One(t \in CloseEnds(i)') + EndsOf(i)
            = One(a \in OpenEnds(i)) + One(t \in DupEnds(i)) + One(t \in CloseEnds(i)) + EndsOf(i)'
        BY ONLY <2>1, <2>2, <2>5, <2>6, <2>7
  <2> QED BY <2>1, <2>2, <2>3, <2>8, EndsStep
<1>6. pipes' = [i \in Pipes |-> pipes'[i]] BY DEF ArraysSound, ArraysTyped
<1>7. ArraysTyped' BY <1>4, <1>6 DEF ArraysSound, ArraysTyped
<1>8. BytesSound' BY <1>1 DEF ArraysSound, BytesSound, BytesOK
<1> QED BY <1>3, <1>4, <1>5, <1>7, <1>8 DEF ArraysSound, RefsSound, EndsSound

(* A step that leaves places, locals and arrays as they are. *)
LEMMA ArraysSame ==
    ASSUME ArraysSound, UNCHANGED <<pc, job, file_descriptors, pipes, leaked>>
    PROVE  ArraysSound'
<1>1. ASSUME NEW d \in Fds PROVE FdRefs(d)'
  <2>1. FdUsers(d)' = FdUsers(d) BY DEF FdUsers, Fd
  <2> QED BY <2>1 DEF ArraysSound, RefsSound, FdRefs
<1>2. ASSUME NEW i \in Pipes PROVE PipeRefs(i)'
  <2>1. PipeUsers(i)' = PipeUsers(i) BY DEF PipeUsers
  <2> QED BY <2>1 DEF ArraysSound, RefsSound, PipeRefs
<1>3. ASSUME NEW i \in Pipes PROVE (Ends(i) = EndsOf(i))'
  <2>1. OpenEnds(i)' = OpenEnds(i) /\ EndsOf(i)' = EndsOf(i) BY DEF OpenEnds, EndsOf
  <2>2. DupEnds(i)' = DupEnds(i) /\ CloseEnds(i)' = CloseEnds(i) BY DEF DupEnds, CloseEnds, IsDup, IsClose, Fd
  <2> QED BY <2>1, <2>2 DEF ArraysSound, EndsSound, Ends
<1>4. BytesSound' BY DEF ArraysSound, BytesSound, BytesOK
<1>5. ArraysTyped' BY DEF ArraysSound, ArraysTyped
<1> QED BY <1>1, <1>2, <1>3, <1>4, <1>5 DEF ArraysSound, RefsSound, EndsSound

(* A step of a thread that has neither descriptor nor pipe. *)
LEMMA ArraysQuiet ==
    ASSUME ArraysSound, NEW t \in Threads, Acts(t), UNCHANGED <<file_descriptors, pipes, leaked>>,
           pc[t] \notin FdPlaces \cup {"create"}, pc'[t] \notin FdPlaces \cup {"create"}
    PROVE  ArraysSound'
<1>1. /\ \A d \in Fds : t \notin FdUsers(d) /\ t \notin FdUsers(d)'
      /\ \A i \in Pipes : t \notin PipeUsers(i) /\ t \notin PipeUsers(i)'
      /\ \A i \in Pipes : t \notin DupEnds(i) /\ t \notin DupEnds(i)'
      /\ \A i \in Pipes : t \notin CloseEnds(i) /\ t \notin CloseEnds(i)'
      BY Member DEF FdPlaces, PipePlaces
<1>2. PICK a \in Fds : TRUE BY DescriptorsAssumption DEF Fds
<1>3. file_descriptors' = [file_descriptors EXCEPT ![a] = file_descriptors[a]]
      BY DEF ArraysSound, ArraysTyped
<1>4. FdStep(t, a) BY <1>1 DEF FdStep
<1>5. \A i \in Pipes : OpenEnds(i)' = OpenEnds(i) BY DEF OpenEnds
<1>6. \A i \in Pipes :
          One(a \in OpenEnds(i)') + One(t \in DupEnds(i)') + One(t \in CloseEnds(i)')
              = One(a \in OpenEnds(i)) + One(t \in DupEnds(i)) + One(t \in CloseEnds(i))
      BY <1>1, <1>5 DEF One
<1> QED BY <1>1, <1>3, <1>4, <1>6, FdOnly

-----------------------------------------------------------------------------
(***************************************************************************)
(* The arrays, action by action                                             *)
(***************************************************************************)

(* A descriptor that is made takes a free entry. *)
LEMMA Created ==
    ASSUME ArraysTyped, NEW a \in Fds, NEW k \in Pipes \cup {FILE}, fd_create(a, k)
    PROVE  /\ file_descriptors[a] = NULL
           /\ file_descriptors' = [file_descriptors EXCEPT ![a] = [refcount |-> 1, present |-> TRUE, intern |-> k]]
           /\ file_descriptors'[a] = [refcount |-> 1, present |-> TRUE, intern |-> k]
           /\ Present(file_descriptors'[a]) /\ file_descriptors'[a].intern = k
<1>1. file_descriptors[a] = NULL BY DEF fd_create, First, FreeFds
<1>2. file_descriptors' = [file_descriptors EXCEPT ![a] = [refcount |-> 1, present |-> TRUE, intern |-> k]]
      BY DEF fd_create
<1>3. file_descriptors'[a] = [refcount |-> 1, present |-> TRUE, intern |-> k] BY <1>2 DEF ArraysTyped
<1>4. [refcount |-> 1, present |-> TRUE, intern |-> k] # NULL
  <2>1. [refcount |-> 1, present |-> TRUE, intern |-> k] \in Descriptors BY DEF Descriptors
  <2> QED BY <2>1, NullAssumption
<1> QED BY <1>1, <1>2, <1>3, <1>4 DEF Present

(* open adds a descriptor of a file. *)
LEMMA OpenArrays ==
    ASSUME TypeOK, JobsSound, ArraysSound, NEW t \in Threads, syscall_open(t)
    PROVE  ArraysSound'
<1>1. PICK a \in Fds : fd_create(a, FILE) BY DEF syscall_open
<1>2. Acts(t) /\ pc[t] = "lock" /\ pc'[t] = "user" /\ UNCHANGED <<pipes, leaked>>
      BY OpenJob DEF syscall_open, Calling, At, JobStep
<1>3. /\ \A d \in Fds : t \notin FdUsers(d) /\ t \notin FdUsers(d)'
      /\ \A i \in Pipes : t \notin PipeUsers(i) /\ t \notin PipeUsers(i)'
      /\ \A i \in Pipes : t \notin DupEnds(i) /\ t \notin DupEnds(i)'
      /\ \A i \in Pipes : t \notin CloseEnds(i) /\ t \notin CloseEnds(i)'
      BY <1>2, Member DEF FdPlaces, PipePlaces
<1>4. /\ file_descriptors[a] = NULL
      /\ file_descriptors' = [file_descriptors EXCEPT ![a] = [refcount |-> 1, present |-> TRUE, intern |-> FILE]]
      /\ file_descriptors'[a] = [refcount |-> 1, present |-> TRUE, intern |-> FILE]
      /\ file_descriptors'[a].intern = FILE
      BY <1>1, Created DEF ArraysSound
<1>5. FdStep(t, a) BY <1>3, <1>4 DEF FdStep
<1>6. \A i \in Pipes : a \notin OpenEnds(i) /\ a \notin OpenEnds(i)'
      BY <1>4, Bounds DEF OpenEnds, Present
<1>7. \A i \in Pipes :
          One(a \in OpenEnds(i)') + One(t \in DupEnds(i)') + One(t \in CloseEnds(i)')
              = One(a \in OpenEnds(i)) + One(t \in DupEnds(i)) + One(t \in CloseEnds(i))
      BY <1>3, <1>6 DEF One
<1> QED BY <1>2, <1>3, <1>4, <1>5, <1>7, FdOnly

(* dynarray_getelem of a descriptor counts its caller. *)
LEMMA FdGetArrays ==
    ASSUME TypeOK, JobsSound, ArraysSound, NEW t \in Threads, FdGet(t)
    PROVE  ArraysSound'
<1>0. PICK a \in Fds : Fd(t) = a BY FdGetJob
<1> DEFINE e == file_descriptors[a]
<1>1. JobStep(t) /\ a \in Fds /\ pc[t] = "fd" /\ UNCHANGED <<pipes, leaked>> BY <1>0, FdGetJob DEF FdGet
<1>2. job[t] \in Jobs BY Known
<1>3. CASE Present(e)
  <2>1. /\ e \in Descriptors
        /\ pc'[t] = IF e.intern = FILE \/ job[t].call = "stat" THEN "put" ELSE "pipe"
        /\ job'[t] = [job[t] EXCEPT !.intern = e.intern]
        BY <1>0, <1>3, FdGetJob
  <2>2. job'[t].fd = a /\ job'[t].call = job[t].call /\ job'[t].intern = e.intern
        BY <1>0, <1>2, <2>1 DEF Jobs, Fd
  <2>3. file_descriptors' = [file_descriptors EXCEPT ![a] = [e EXCEPT !.refcount = @ + 1]]
        BY <1>0, <1>1, <1>3 DEF FdGet, ArraysSound, ArraysTyped
  <2>4. file_descriptors'[a] = [e EXCEPT !.refcount = @ + 1]
        BY <1>1, <2>3 DEF ArraysSound, ArraysTyped
  <2>5. /\ \A d \in Fds : t \notin FdUsers(d) /\ (t \in FdUsers(d)' <=> d = a)
        /\ \A i \in Pipes : t \notin PipeUsers(i) /\ t \notin PipeUsers(i)'
        /\ \A i \in Pipes : t \notin DupEnds(i) /\ t \notin CloseEnds(i)
        BY <1>1, <2>1, <2>2, Member DEF FdPlaces, PipePlaces
  <2>6. \A i \in Pipes : t \notin DupEnds(i)' /\ t \notin CloseEnds(i)'
    <3>1. a # -1 /\ FILE \notin Pipes BY Bounds
    <3>2. \A i \in Pipes : t \notin CloseEnds(i)' BY <2>2, <3>1, Member
    <3>3. \A i \in Pipes : t \notin DupEnds(i)'
      <4>1. pc'[t] = "pipe" \/ (pc'[t] = "put" /\ job'[t].intern = FILE) \/ job'[t].call = "stat" BY <2>1, <2>2
      <4> QED BY <3>1, <4>1, Member DEF Dups
    <3> QED BY <3>2, <3>3
  <2>7. FdStep(t, a) BY <1>1, <1>3, <2>2, <2>4, <2>5 DEF FdStep
  <2>8. \A i \in Pipes : a \in OpenEnds(i) <=> a \in OpenEnds(i)'
    <3>1. file_descriptors'[a].intern = e.intern /\ file_descriptors'[a].present = e.present
          BY <2>1, <2>4 DEF Descriptors
    <3>2. file_descriptors'[a] # NULL
      <4>1. [e EXCEPT !.refcount = @ + 1] \in Descriptors BY <2>1 DEF Descriptors
      <4> QED BY <2>4, <4>1, NullAssumption
    <3> QED BY <1>1, <1>3, <3>1, <3>2 DEF OpenEnds, Present
  <2>9. \A i \in Pipes :
          One(a \in OpenEnds(i)') + One(t \in DupEnds(i)') + One(t \in CloseEnds(i)')
              = One(a \in OpenEnds(i)) + One(t \in DupEnds(i)) + One(t \in CloseEnds(i))
        BY <2>5, <2>6, <2>8 DEF One
  <2> QED BY <1>1, <2>3, <2>5, <2>7, <2>9, FdOnly DEF JobStep
<1>4. CASE ~Present(e)
  <2>1. UNCHANGED <<pc, job, file_descriptors>> BY <1>0, <1>4 DEF FdGet
  <2> QED BY <1>1, <2>1, ArraysQuiet DEF JobStep, FdPlaces
<1> QED BY <1>3, <1>4

(* An entry that a thread has stays in its place when the thread gives it back,
   unless it had left the array before. *)
LEMMA Unreferenced ==
    ASSUME ArraysSound, NEW t \in Threads, NEW a \in Fds, t \in FdUsers(a)
    PROVE  LET e == file_descriptors[a]
               new == UnrefFd(e)
           IN  /\ Present(e) <=> Present(new)
               /\ Present(e) => e \in Descriptors /\ new.intern = e.intern
<1> DEFINE e == file_descriptors[a]
           new == UnrefFd(e)
<1>1. FdRefs(a) /\ e \in Descriptors \cup {NULL} BY DEF ArraysSound, RefsSound, ArraysTyped
<1>2. e # NULL /\ e \in Descriptors /\ e.refcount = One(e.present) + Cardinality(FdUsers(a))
      BY <1>1 DEF FdRefs
<1>3. Cardinality(FdUsers(a)) \in Nat /\ Cardinality(FdUsers(a)) > 0
  <2>1. FdUsers(a) \in SUBSET Threads BY DEF FdUsers
  <2> QED BY ONLY <2>1, t \in FdUsers(a), t \in Threads, Finite, CountStep
<1>4. e.refcount \in Nat /\ e.present \in BOOLEAN BY <1>2 DEF Descriptors
<1>5. CASE e.refcount = 1
  <2>1. ~e.present BY <1>2, <1>3, <1>4, <1>5 DEF One
  <2>2. new = NULL BY <1>5 DEF UnrefFd
  <2> QED BY <2>1, <2>2 DEF Present
<1>6. CASE e.refcount # 1
  <2>1. new = [e EXCEPT !.refcount = @ - 1] BY <1>2, <1>6 DEF UnrefFd
  <2>2. new.intern = e.intern /\ new.present = e.present BY <1>2, <2>1 DEF Descriptors
  <2>3. e.refcount - 1 \in Nat BY <1>2, <1>3, <1>4 DEF One
  <2>4. [e EXCEPT !.refcount = @ - 1] \in Descriptors BY <1>2, <2>3 DEF Descriptors
  <2>5. new # NULL BY <2>1, <2>4, NullAssumption
  <2> QED BY <1>2, <2>2, <2>5 DEF Present
<1> QED BY <1>5, <1>6

(* dynarray_unref of a descriptor gives the reference back. *)
LEMMA FdUnrefArrays ==
    ASSUME TypeOK, JobsSound, ArraysSound, NEW t \in Threads, FdUnref(t)
    PROVE  ArraysSound'
<1>0. PICK a \in Fds : job[t].fd = a BY FdUnrefJob
<1> DEFINE e == file_descriptors[a]
<1>1. JobStep(t) /\ a \in Fds /\ pc[t] = "put" /\ UNCHANGED <<pipes, leaked>> BY <1>0, FdUnrefJob DEF FdUnref
<1>2. job[t] \in Jobs BY Known
<1>3. file_descriptors' = [file_descriptors EXCEPT ![a] = UnrefFd(e)] BY <1>0 DEF FdUnref, Fd, ArraysSound, ArraysTyped
<1>4. file_descriptors'[a] = UnrefFd(e) BY <1>1, <1>3 DEF ArraysSound, ArraysTyped
<1>5. \/ pc'[t] \in {"fd", "user"} /\ job[t].call \notin Dups
      \/ pc'[t] = "create" /\ job'[t] = job[t] /\ job[t].call \in Dups
      BY FdUnrefJob
<1>6. /\ \A d \in Fds : t \notin FdUsers(d)' /\ (t \in FdUsers(d) <=> d = a)
      /\ \A i \in Pipes : t \notin PipeUsers(i) /\ t \notin PipeUsers(i)'
      /\ \A i \in Pipes : t \notin CloseEnds(i) /\ t \notin CloseEnds(i)'
      BY <1>0, <1>1, <1>5, Member, Bounds DEF FdPlaces, PipePlaces
<1>7. \A i \in Pipes : t \in DupEnds(i) <=> t \in DupEnds(i)' BY <1>1, <1>5, Member
<1>8. FdStep(t, a) BY <1>1, <1>4, <1>6 DEF FdStep
<1>9. \A i \in Pipes : a \in OpenEnds(i) <=> a \in OpenEnds(i)'
  <2>1. /\ Present(e) <=> Present(UnrefFd(e))
        /\ Present(e) => UnrefFd(e).intern = e.intern
        BY <1>6, Unreferenced
  <2> QED BY <1>4, <2>1 DEF OpenEnds
<1>10. \A i \in Pipes :
          One(a \in OpenEnds(i)') + One(t \in DupEnds(i)') + One(t \in CloseEnds(i)')
              = One(a \in OpenEnds(i)) + One(t \in DupEnds(i)) + One(t \in CloseEnds(i))
       BY <1>6, <1>7, <1>9 DEF One
<1> QED BY <1>1, <1>3, <1>6, <1>8, <1>10, FdOnly DEF JobStep

(* The duplicate that was counted as an end becomes a descriptor. *)
LEMMA CreateArrays ==
    ASSUME TypeOK, JobsSound, ArraysSound, NEW t \in Threads, FdCreate(t)
    PROVE  ArraysSound'
<1>0. PICK k \in Pipes \cup {FILE} : job[t].intern = k BY Known DEF Jobs
<1>1. JobStep(t) /\ pc[t] = "create" /\ job[t].call \in Dups /\ UNCHANGED <<pipes, leaked>>
      BY CreateJob DEF FdCreate
<1>2. job[t] \in Jobs BY Known
<1>3. CASE file_descriptors[Fd(t)] # NULL
  <2>1. PICK a \in Fds : fd_create(a, k) BY <1>0, <1>3, CreateJob
  <2>2. pc'[t] \in {"store", "user", "fork"} BY <1>1, <1>3, CreateJob DEF Dups
  <2>3. k \in Pipes \cup {FILE} BY <1>2 DEF Jobs
  <2>4. /\ \A d \in Fds : t \notin FdUsers(d)' /\ t \notin FdUsers(d)
        /\ \A i \in Pipes : t \notin PipeUsers(i) /\ t \notin PipeUsers(i)'
        /\ \A i \in Pipes : t \notin CloseEnds(i) /\ t \notin CloseEnds(i)'
        /\ \A i \in Pipes : t \notin DupEnds(i)' /\ (t \in DupEnds(i) <=> i = k)
        BY <1>0, <1>1, <2>2, Member DEF FdPlaces, PipePlaces
  <2>5. /\ file_descriptors[a] = NULL
        /\ file_descriptors' = [file_descriptors EXCEPT ![a] = [refcount |-> 1, present |-> TRUE, intern |-> k]]
        /\ file_descriptors'[a] = [refcount |-> 1, present |-> TRUE, intern |-> k]
        /\ Present(file_descriptors'[a]) /\ file_descriptors'[a].intern = k
        BY <2>1, <2>3, Created DEF ArraysSound
  <2>6. FdStep(t, a) BY <2>3, <2>4, <2>5 DEF FdStep
  <2>7. \A i \in Pipes : a \notin OpenEnds(i) /\ (a \in OpenEnds(i)' <=> i = k)
        BY <2>5 DEF OpenEnds, Present
  <2>8. \A i \in Pipes :
          One(a \in OpenEnds(i)') + One(t \in DupEnds(i)') + One(t \in CloseEnds(i)')
              = One(a \in OpenEnds(i)) + One(t \in DupEnds(i)) + One(t \in CloseEnds(i))
        BY <2>4, <2>7 DEF One
  <2> QED BY <1>1, <2>4, <2>5, <2>6, <2>8, FdOnly DEF JobStep
<1>4. CASE file_descriptors[Fd(t)] = NULL
  <2>1. UNCHANGED <<pc, job, file_descriptors>> BY <1>4 DEF FdCreate
  <2> QED BY <1>1, <2>1, ArraysSame
<1> QED BY <1>3, <1>4

(* close counts itself while it copies the descriptor. *)
LEMMA CopiesArrays ==
    ASSUME TypeOK, JobsSound, ArraysSound, NEW t \in Threads, close(t)
    PROVE  ArraysSound'
<1>0. PICK a \in Fds : Fd(t) = a BY CopiesJob
<1> DEFINE e == file_descriptors[a]
<1>1. JobStep(t) /\ a \in Fds /\ pc[t] = "close" /\ UNCHANGED <<pipes, leaked>> BY <1>0, CopiesJob DEF close
<1>2. job[t] \in Jobs BY Known
<1>3. CASE Present(e)
  <2>1. e \in Descriptors /\ pc'[t] = "copied" /\ job'[t] = [job[t] EXCEPT !.intern = e.intern]
        BY <1>0, <1>3, CopiesJob
  <2>2. job'[t].fd = a /\ job'[t].call = job[t].call /\ job'[t].intern = e.intern
        BY <1>0, <1>2, <2>1 DEF Jobs, Fd
  <2>3. file_descriptors' = [file_descriptors EXCEPT ![a] = [e EXCEPT !.refcount = @ + 1]]
        BY <1>0, <1>1, <1>3 DEF close, ArraysSound, ArraysTyped
  <2>4. file_descriptors'[a] = [e EXCEPT !.refcount = @ + 1]
        BY <1>1, <2>3 DEF ArraysSound, ArraysTyped
  <2>5. /\ \A d \in Fds : t \notin FdUsers(d) /\ (t \in FdUsers(d)' <=> d = a)
        /\ \A i \in Pipes : t \notin PipeUsers(i) /\ t \notin PipeUsers(i)'
        /\ \A i \in Pipes : t \notin DupEnds(i) /\ t \notin DupEnds(i)'
        /\ \A i \in Pipes : t \notin CloseEnds(i) /\ t \notin CloseEnds(i)'
        BY <1>1, <2>1, <2>2, Member DEF FdPlaces, PipePlaces
  <2>6. FdStep(t, a) BY <1>1, <1>3, <2>2, <2>4, <2>5 DEF FdStep
  <2>7. \A i \in Pipes : a \in OpenEnds(i) <=> a \in OpenEnds(i)'
    <3>1. file_descriptors'[a].intern = e.intern /\ file_descriptors'[a].present = e.present
          BY <2>1, <2>4 DEF Descriptors
    <3>2. file_descriptors'[a] # NULL
      <4>1. [e EXCEPT !.refcount = @ + 1] \in Descriptors BY <2>1 DEF Descriptors
      <4> QED BY <2>4, <4>1, NullAssumption
    <3> QED BY <1>1, <1>3, <3>1, <3>2 DEF OpenEnds, Present
  <2>8. \A i \in Pipes :
          One(a \in OpenEnds(i)') + One(t \in DupEnds(i)') + One(t \in CloseEnds(i)')
              = One(a \in OpenEnds(i)) + One(t \in DupEnds(i)) + One(t \in CloseEnds(i))
        BY <2>5, <2>7 DEF One
  <2> QED BY <1>1, <2>3, <2>5, <2>6, <2>8, FdOnly DEF JobStep
<1>4. CASE ~Present(e)
  <2>1. UNCHANGED <<pc, job, file_descriptors>> BY <1>0, <1>4 DEF close
  <2> QED BY <1>1, <2>1, ArraysQuiet DEF JobStep, FdPlaces
<1> QED BY <1>3, <1>4

(* close gives its reference back. *)
LEMMA CloseUnrefArrays ==
    ASSUME TypeOK, JobsSound, ArraysSound, NEW t \in Threads, CloseUnref(t)
    PROVE  ArraysSound'
<1>0. PICK a \in Fds : Fd(t) = a BY CloseUnrefJob
<1> DEFINE e == file_descriptors[a]
<1>1. /\ JobStep(t) /\ pc[t] = "copied" /\ pc'[t] = "remove" /\ job'[t] = job[t]
      /\ UNCHANGED <<pipes, leaked>>
      BY CloseUnrefJob DEF CloseUnref
<1>2. file_descriptors' = [file_descriptors EXCEPT ![a] = UnrefFd(e)]
      BY <1>0 DEF CloseUnref, ArraysSound, ArraysTyped
<1>3. file_descriptors'[a] = UnrefFd(e) BY <1>2 DEF ArraysSound, ArraysTyped
<1>4. /\ \A d \in Fds : t \notin FdUsers(d)' /\ (t \in FdUsers(d) <=> d = a)
      /\ \A i \in Pipes : t \notin PipeUsers(i) /\ t \notin PipeUsers(i)'
      /\ \A i \in Pipes : t \notin DupEnds(i) /\ t \notin DupEnds(i)'
      /\ \A i \in Pipes : t \notin CloseEnds(i) /\ t \notin CloseEnds(i)'
      BY <1>0, <1>1, Member DEF FdPlaces, PipePlaces, Fd
<1>5. FdStep(t, a) BY <1>3, <1>4 DEF FdStep
<1>6. \A i \in Pipes : a \in OpenEnds(i) <=> a \in OpenEnds(i)'
  <2>1. /\ Present(e) <=> Present(UnrefFd(e))
        /\ Present(e) => UnrefFd(e).intern = e.intern
        BY <1>4, Unreferenced
  <2> QED BY <1>3, <2>1 DEF OpenEnds
<1>7. \A i \in Pipes :
          One(a \in OpenEnds(i)') + One(t \in DupEnds(i)') + One(t \in CloseEnds(i)')
              = One(a \in OpenEnds(i)) + One(t \in DupEnds(i)) + One(t \in CloseEnds(i))
      BY <1>4, <1>6 DEF One
<1> QED BY <1>1, <1>2, <1>4, <1>5, <1>7, FdOnly DEF JobStep

(* A descriptor that is removed leaves its end to the close under way. *)
LEMMA LeavesArrays ==
    ASSUME TypeOK, JobsSound, ArraysSound, ClosersSound, NEW t \in Threads, CloseRemoves(t)
    PROVE  ArraysSound'
<1>0. PICK a \in Fds : Fd(t) = a BY LeavesJob
<1> DEFINE e == file_descriptors[a]
<1>1. JobStep(t) /\ a \in Fds /\ pc[t] = "remove" /\ UNCHANGED <<pipes, leaked>>
      BY <1>0, LeavesJob DEF CloseRemoves
<1>2. job[t] \in Jobs BY Known
<1>3. Present(e) /\ e.intern = job[t].intern /\ e \in Descriptors /\ e # NULL
  <2>1. Present(e) /\ e.intern = job[t].intern BY <1>0, <1>1 DEF ClosersSound
  <2> QED BY <2>1 DEF Present, ArraysSound, ArraysTyped
<1>4. /\ pc'[t] = IF e.intern = FILE THEN "closed" ELSE "pipe"
      /\ job'[t] = [job[t] EXCEPT !.fd = -1]
      BY <1>3, LeavesJob
<1>5. job'[t].fd = -1 /\ job'[t].call = job[t].call /\ job'[t].intern = e.intern
      BY <1>2, <1>3, <1>4 DEF Jobs
<1> DEFINE f == [e EXCEPT !.present = FALSE]
<1>6. file_descriptors' = [file_descriptors EXCEPT ![a] = UnrefFd(f)] BY <1>0, <1>3 DEF CloseRemoves
<1>7. file_descriptors'[a] = UnrefFd(f) BY <1>1, <1>6 DEF ArraysSound, ArraysTyped
<1>8. /\ \A d \in Fds : t \notin FdUsers(d) /\ t \notin FdUsers(d)'
      /\ \A i \in Pipes : t \notin PipeUsers(i) /\ t \notin PipeUsers(i)'
      /\ \A i \in Pipes : t \notin DupEnds(i) /\ t \notin DupEnds(i)'
  <2>1. -1 \notin Fds /\ pc'[t] \in {"closed", "pipe"} BY <1>4, Bounds
  <2>2. \A d \in Fds : t \notin FdUsers(d) /\ t \notin FdUsers(d)' BY <1>1, <1>5, <2>1, Member DEF FdPlaces
  <2> QED BY <1>1, <2>1, <2>2, Member DEF PipePlaces
<1>9. \A i \in Pipes : t \notin CloseEnds(i) /\ (t \in CloseEnds(i)' <=> i = e.intern)
  <2>1. FILE \notin Pipes BY Bounds
  <2>2. e.intern # FILE => pc'[t] = "pipe" BY <1>4
  <2>3. \A i \in Pipes : t \notin CloseEnds(i) BY <1>1, Member
  <2>4. \A i \in Pipes : t \in CloseEnds(i)' => i = e.intern BY <1>5, Member
  <2>5. ASSUME NEW i \in Pipes, i = e.intern PROVE t \in CloseEnds(i)' BY <1>5, <2>1, <2>2, <2>5, Member
  <2> QED BY <2>3, <2>4, <2>5
<1>10. FdStep(t, a) BY <1>1, <1>3, <1>7, <1>8 DEF FdStep
<1>11. \A i \in Pipes : a \notin OpenEnds(i)' /\ (a \in OpenEnds(i) <=> i = e.intern)
  <2>1. f.refcount = e.refcount /\ f.present = FALSE /\ [f EXCEPT !.refcount = @ - 1].present = FALSE
        BY <1>3 DEF Descriptors
  <2>2. ~Present(file_descriptors'[a]) BY <1>7, <2>1 DEF UnrefFd, Present
  <2> QED BY <1>1, <1>3, <2>2 DEF OpenEnds
<1>12. \A i \in Pipes :
          One(a \in OpenEnds(i)') + One(t \in DupEnds(i)') + One(t \in CloseEnds(i)')
              = One(a \in OpenEnds(i)) + One(t \in DupEnds(i)) + One(t \in CloseEnds(i))
      BY <1>8, <1>9, <1>11 DEF One
<1> QED BY <1>1, <1>6, <1>8, <1>10, <1>12, FdOnly DEF JobStep

(* dynarray_getelem of a pipe counts its caller. *)
LEMMA PipeGetArrays ==
    ASSUME TypeOK, JobsSound, ArraysSound, NEW t \in Threads, PipeGet(t)
    PROVE  ArraysSound'
<1>0. PICK k \in Pipes : job[t].intern = k BY PipeGetJob
<1> DEFINE e == pipes[k]
<1>1. JobStep(t) /\ job'[t] = job[t] /\ pc[t] = "pipe" /\ k \in Pipes
      /\ pc'[t] = (IF Present(e) THEN "op" ELSE "pipe") /\ UNCHANGED <<file_descriptors, leaked>>
      BY <1>0, PipeGetJob DEF PipeGet, Pipe
<1>2. CASE Present(e)
  <2>1. e \in PipeTs /\ e # NULL BY <1>1, <1>2 DEF Present, ArraysSound, ArraysTyped
  <2>0. PICK n \in Nat : n = e.refs + 1 BY <2>1 DEF PipeTs
  <2> DEFINE new == [e EXCEPT !.refs = n]
  <2>2. pipes' = [pipes EXCEPT ![k] = new] BY <1>0, <1>1, <1>2, <2>0 DEF PipeGet, Pipe, ArraysSound, ArraysTyped
  <2>3. pipes'[k] = new BY <1>1, <2>2 DEF ArraysSound, ArraysTyped
  <2>4. /\ new.present = e.present /\ new.refcount = e.refcount /\ new.order = e.order /\ new.sent = e.sent
        /\ new.got = e.got /\ new.buffer = e.buffer /\ new.refs = n /\ new \in PipeTs
        BY <2>1 DEF PipeTs
  <2>5. new # NULL BY <2>4, NullAssumption
  <2>6. /\ \A d \in Fds : t \in FdUsers(d) <=> t \in FdUsers(d)'
        /\ t \notin PipeUsers(k) /\ t \in PipeUsers(k)'
        /\ t \notin DupEnds(k) /\ t \notin DupEnds(k)'
        /\ t \in CloseEnds(k) <=> t \in CloseEnds(k)'
        BY <1>0, <1>1, <1>2, Member DEF FdPlaces, PipePlaces
  <2>7. PipeStep(t, k) BY <1>1, <1>2, <2>0, <2>3, <2>6 DEF PipeStep
  <2>8. EndsOf(k)' = EndsOf(k) BY <2>1, <2>3, <2>4, <2>5 DEF EndsOf, Present
  <2>9. BytesOK(k)' BY <1>1, <2>1, <2>3, <2>4 DEF ArraysSound, BytesSound, BytesOK
  <2>10. leaked' = [i \in Pipes |-> leaked'[i]] /\ \A i \in Pipes : leaked'[i] = leaked[i]
         BY <1>1 DEF ArraysSound, ArraysTyped
  <2>11. One(t \in DupEnds(k)') + One(t \in CloseEnds(k)') + EndsOf(k)
            = One(t \in DupEnds(k)) + One(t \in CloseEnds(k)) + EndsOf(k)'
         BY <2>6, <2>8 DEF One
  <2> QED BY <1>0, <1>1, <2>2, <2>6, <2>7, <2>9, <2>10, <2>11, PipeOnly DEF JobStep
<1>3. CASE ~Present(e)
  <2>1. UNCHANGED <<pc, job, pipes>> BY <1>0, <1>3 DEF PipeGet, Pipe
  <2> QED BY <1>1, <2>1, ArraysSame
<1> QED BY <1>2, <1>3

(* The pipe a thread has. *)
LEMMA Used ==
    ASSUME JobsSound, TypeOK, ArraysSound, NEW t \in Threads, pc[t] \in PipePlaces
    PROVE  LET e == pipes[job[t].intern] IN
           /\ job[t].intern \in Pipes /\ e \in PipeTs /\ e # NULL /\ t \in PipeUsers(job[t].intern)
           /\ e.present <=> e.refcount > 0
           /\ e.refs > One(e.present)
<1> DEFINE k == job[t].intern
           e == pipes[k]
<1>1. JobSound(t) /\ job[t] \in Jobs BY Known
<1>2. k \in Pipes BY <1>1 DEF JobSound, PipePlaces
<1>3. PipeRefs(k) /\ e \in PipeTs \cup {NULL} /\ leaked[k] \in Nat
      BY <1>2 DEF ArraysSound, ArraysTyped, RefsSound
<1>4. t \in PipeUsers(k) BY Member
<1>5. e # NULL /\ e \in PipeTs BY <1>3, <1>4 DEF PipeRefs
<1>6. Cardinality(PipeUsers(k)) \in Nat /\ Cardinality(PipeUsers(k)) > 0
  <2>1. PipeUsers(k) \in SUBSET Threads BY DEF PipeUsers
  <2> QED BY ONLY <2>1, <1>4, t \in Threads, Finite, CountStep
<1>7. e.refs > One(e.present)
  <2>1. e.refs = One(e.present) + leaked[k] + Cardinality(PipeUsers(k)) BY <1>3, <1>5 DEF PipeRefs
  <2> QED BY <1>3, <1>6, <2>1 DEF One
<1> QED BY <1>2, <1>3, <1>4, <1>5, <1>7 DEF PipeRefs

(* An operation that keeps the pipe's references and its own place. *)
LEMMA DoneArrays ==
    ASSUME TypeOK, JobsSound, ArraysSound, NEW t \in Threads, pc[t] = "op", NEW new \in PipeTs,
           PipeDone(t, new),
           LET e == pipes[job[t].intern] IN
           /\ new.refs = e.refs /\ new.present = e.present /\ e.refcount > 0 /\ new.refcount > 0
           /\ new.order # "garbled"
           /\ new.order = "kept" =>
                 /\ new.sent = new.got + Len(new.buffer)
                 /\ \A i \in 1 .. Len(new.buffer) : new.buffer[i] = new.got + i
           /\ new.refcount = IF job[t].fd = -1 THEN e.refcount - 1
                             ELSE IF job[t].call \in Dups THEN e.refcount + 1 ELSE e.refcount
    PROVE  ArraysSound'
<1>0. PICK k \in Pipes : job[t].intern = k BY DoneJob
<1> DEFINE e == pipes[k]
<1>1. /\ JobStep(t) /\ job'[t] = job[t] /\ k \in Pipes /\ pc'[t] = "unref"
      /\ UNCHANGED <<file_descriptors, leaked>>
      BY <1>0, DoneJob DEF PipeDone
<1>2. e \in PipeTs /\ e # NULL /\ t \in PipeUsers(k) /\ (e.present <=> e.refcount > 0)
      BY <1>0, Used DEF PipePlaces
<1>3. pipes' = [pipes EXCEPT ![k] = new] BY <1>0 DEF PipeDone
<1>4. pipes'[k] = new /\ new # NULL BY <1>1, <1>3, NullAssumption DEF ArraysSound, ArraysTyped
<1>5. /\ \A d \in Fds : t \in FdUsers(d) <=> t \in FdUsers(d)'
      /\ t \in PipeUsers(k)'
      /\ t \notin DupEnds(k) /\ (t \in DupEnds(k)' <=> job[t].call \in Dups /\ job[t].fd # -1)
      /\ (t \in CloseEnds(k) <=> job[t].fd = -1) /\ t \notin CloseEnds(k)'
      BY <1>0, <1>1, Member DEF FdPlaces, PipePlaces
<1>6. leaked' = [i \in Pipes |-> leaked'[i]] /\ \A i \in Pipes : leaked'[i] = leaked[i]
      BY <1>1 DEF ArraysSound, ArraysTyped
<1>7. PipeStep(t, k) BY <1>0, <1>1, <1>2, <1>4, <1>5, <1>6 DEF PipeStep
<1>8. EndsOf(k) = e.refcount /\ EndsOf(k)' = new.refcount /\ e.refcount \in Nat
  <2>1. e.refcount \in Nat BY <1>2 DEF PipeTs
  <2> QED BY <1>0, <1>2, <1>4, <2>1 DEF EndsOf, Present
<1>9. BytesOK(k)' BY <1>0, <1>4 DEF BytesOK
<1>10. One(t \in DupEnds(k)') + One(t \in CloseEnds(k)') + EndsOf(k)
            = One(t \in DupEnds(k)) + One(t \in CloseEnds(k)) + EndsOf(k)'
       BY <1>0, <1>5, <1>8 DEF One
<1> QED BY <1>0, <1>1, <1>3, <1>5, <1>6, <1>7, <1>9, <1>10, PipeOnly DEF JobStep

(* What a read leaves in the buffer. *)
LEMMA MovedSeq ==
    ASSUME NEW buffer \in Seq(Nat), NEW count \in Nat, count <= Len(buffer)
    PROVE  /\ Moved(buffer, count) \in Seq(Nat) /\ Len(Moved(buffer, count)) = Len(buffer) - count
           /\ \A i \in 1 .. Len(buffer) - count :
                 Moved(buffer, count)[i] = IF i <= count THEN buffer[i + count] ELSE buffer[i]
<1>1. Len(buffer) - count \in Nat BY LenProperties
<1>2. \A i \in 1 .. Len(buffer) - count :
          /\ i \in 1 .. Len(buffer) /\ i + count \in 1 .. Len(buffer)
          /\ (IF i <= count THEN buffer[i + count] ELSE buffer[i]) \in Nat
      BY LenProperties
<1>3. Moved(buffer, count) \in [1 .. Len(buffer) - count -> Nat] BY <1>2 DEF Moved
<1> QED BY <1>1, <1>2, <1>3 DEF Moved

(* A read takes the next bytes, or leaves the order short. *)
LEMMA ReadArrays ==
    ASSUME TypeOK, JobsSound, ArraysSound, NEW t \in Threads, pipe_read(t)
    PROVE  ArraysSound'
<1>0. pc[t] = "op" /\ job[t].call = "read" /\ job[t].fd # -1 BY DEF pipe_read, Operates, At, IsClose, Fd
<1>1. PICK e \in PipeTs : e = pipes[job[t].intern] BY <1>0, Used DEF PipePlaces
<1>2. PICK n \in Nat : n = job[t].n BY Known DEF Jobs
<1>3. e.buffer \in Seq(Nat) /\ Len(e.buffer) \in Nat /\ e.got \in Nat /\ e.order \in Orders
      BY LenProperties DEF PipeTs
<1>4. PICK size \in Nat : size = Len(e.buffer) BY <1>3
<1>5. PICK count \in Nat : count = (IF n <= size THEN n ELSE size) /\ count <= size OBVIOUS
<1> DEFINE order == IF e.order = "kept" /\ ~InOrder(e, count) THEN "garbled"
                    ELSE IF e.order = "kept" /\ size - count > count THEN "short" ELSE e.order
<1>6. e.refcount > 0 /\ PipeDone(t, [e EXCEPT !.buffer = Moved(e.buffer, count), !.got = e.got + count, !.order = order])
      BY <1>0, <1>1, <1>2, <1>4, <1>5 DEF pipe_read, Operates, Pipe
<1>7. /\ Moved(e.buffer, count) \in Seq(Nat) /\ Len(Moved(e.buffer, count)) = size - count
      /\ \A i \in 1 .. size - count :
            Moved(e.buffer, count)[i] = IF i <= count THEN e.buffer[i + count] ELSE e.buffer[i]
      BY <1>3, <1>4, <1>5, MovedSeq
<1>8. /\ e.order # "garbled"
      /\ e.order = "kept" => e.sent = e.got + size /\ \A i \in 1 .. size : e.buffer[i] = e.got + i
  <2>1. BytesOK(job[t].intern) /\ e # NULL BY <1>0, <1>1, Used, NullAssumption DEF ArraysSound, BytesSound, PipePlaces
  <2> QED BY <1>1, <1>4, <2>1 DEF BytesOK
<1>9. order = (IF e.order = "kept" /\ size - count > count THEN "short" ELSE e.order)
  <2>1. e.order = "kept" => InOrder(e, count) BY <1>5, <1>8 DEF InOrder
  <2> QED BY <2>1
<1>10. order \in Orders /\ e.got + count \in Nat BY <1>3, <1>9 DEF Orders
<1>a. PICK b \in Seq(Nat), g \in Nat, o \in Orders :
          b = Moved(e.buffer, count) /\ g = e.got + count /\ o = order
      BY <1>7, <1>10
<1> DEFINE new == [e EXCEPT !.buffer = b, !.got = g, !.order = o]
<1>b. PipeDone(t, new) BY <1>6, <1>a
<1> HIDE DEF order
<1>c. /\ new \in PipeTs /\ new.refs = e.refs /\ new.present = e.present /\ new.refcount = e.refcount
      /\ new.sent = e.sent /\ new.buffer = b /\ new.got = g /\ new.order = o
      BY ONLY e \in PipeTs, b \in Seq(Nat), g \in Nat, o \in Orders DEF PipeTs
<1>11. /\ new \in PipeTs /\ new.refs = e.refs /\ new.present = e.present /\ new.refcount = e.refcount
       /\ new.sent = e.sent /\ new.buffer = Moved(e.buffer, count) /\ new.got = e.got + count /\ new.order = order
       BY <1>a, <1>c
<1> HIDE DEF new
<1>12. new.order # "garbled" BY <1>8, <1>9, <1>11
<1>13. ASSUME new.order = "kept"
       PROVE  /\ new.sent = new.got + Len(new.buffer)
              /\ \A i \in 1 .. Len(new.buffer) : new.buffer[i] = new.got + i
  <2>1. e.order = "kept" /\ size - count <= count BY <1>9, <1>11, <1>13
  <2>2. e.sent = e.got + size /\ \A i \in 1 .. size : e.buffer[i] = e.got + i BY <1>8, <2>1
  <2>3. Len(new.buffer) = size - count BY <1>7, <1>11
  <2>4. new.sent = new.got + Len(new.buffer) BY <1>3, <1>11, <2>2, <2>3
  <2>5. ASSUME NEW i \in 1 .. size - count PROVE new.buffer[i] = new.got + i
    <3>1. i <= count /\ i + count \in 1 .. size BY <2>1
    <3>2. new.buffer[i] = e.buffer[i + count] BY <1>7, <1>11, <3>1
    <3>3. e.buffer[i + count] = e.got + (i + count) BY <2>2, <3>1
    <3> QED BY <1>3, <1>11, <3>2, <3>3
  <2> QED BY <2>3, <2>4, <2>5
<1>14. job[t].call \notin Dups BY <1>0 DEF Dups
<1> QED BY <1>0, <1>1, <1>6, <1>b, <1>11, <1>12, <1>13, <1>14, DoneArrays

(* A write appends the next bytes. *)
LEMMA WriteArrays ==
    ASSUME TypeOK, JobsSound, ArraysSound, NEW t \in Threads, pipe_write(t)
    PROVE  ArraysSound'
<1>0. pc[t] = "op" /\ job[t].call = "write" /\ job[t].fd # -1 BY DEF pipe_write, Operates, At, IsClose, Fd
<1>1. PICK e \in PipeTs : e = pipes[job[t].intern] BY <1>0, Used DEF PipePlaces
<1>2. PICK n \in Nat : n = job[t].n BY Known DEF Jobs
<1>3. /\ e.buffer \in Seq(Nat) /\ Len(e.buffer) \in Nat /\ e.got \in Nat /\ e.sent \in Nat /\ e.event \in Nat
      BY LenProperties DEF PipeTs
<1>4. PICK size \in Nat : size = Len(e.buffer) BY <1>3
<1> DEFINE bytes == [i \in 1 .. n |-> IF size + i <= PageBytes THEN e.sent + i ELSE 0]
           buffer == e.buffer \o bytes
           order == IF e.order = "kept" /\ size + n > PageBytes THEN "overrun" ELSE e.order
<1>5. /\ e.refcount > 0
      /\ PipeDone(t, [e EXCEPT !.sent = e.sent + n, !.event = e.event + 1, !.buffer = buffer, !.order = order])
      BY <1>0, <1>1, <1>2, <1>4 DEF pipe_write, Operates, Pipe, Appended
<1>6. /\ bytes \in Seq(Nat) /\ Len(bytes) = n
      /\ size + n <= PageBytes => \A i \in 1 .. n : bytes[i] = e.sent + i
  <2>1. bytes \in [1 .. n -> Nat] BY <1>3
  <2>2. PageBytes \in Nat BY DescriptorsAssumption
  <2> QED BY <2>1, <2>2
<1> HIDE DEF bytes
<1>7. /\ buffer \in Seq(Nat) /\ Len(buffer) = size + n
      /\ \A i \in 1 .. size + n : buffer[i] = IF i <= size THEN e.buffer[i] ELSE bytes[i - size]
      BY <1>3, <1>4, <1>6, ConcatProperties
<1> HIDE DEF buffer
<1>8. /\ e.order # "garbled"
      /\ e.order = "kept" => e.sent = e.got + size /\ \A i \in 1 .. size : e.buffer[i] = e.got + i
  <2>1. BytesOK(job[t].intern) /\ e # NULL BY <1>0, <1>1, Used, NullAssumption DEF ArraysSound, BytesSound, PipePlaces
  <2> QED BY <1>1, <1>4, <2>1 DEF BytesOK
<1>d. order \in Orders /\ order # "garbled" /\ (order = "kept" => e.order = "kept" /\ size + n <= PageBytes)
  <2>1. e.order \in Orders /\ PageBytes \in Nat BY DescriptorsAssumption DEF PipeTs
  <2> QED BY <1>8, <2>1 DEF Orders
<1> HIDE DEF order
<1>e. e.sent + n \in Nat /\ e.event + 1 \in Nat BY <1>3
<1>a. PICK b \in Seq(Nat), m \in Nat, v \in Nat, o \in Orders :
          b = buffer /\ m = e.sent + n /\ v = e.event + 1 /\ o = order
      BY ONLY <1>7, <1>d, <1>e
<1> DEFINE new == [e EXCEPT !.sent = m, !.event = v, !.buffer = b, !.order = o]
<1>b. PipeDone(t, new) BY <1>5, <1>a
<1>c. /\ new \in PipeTs /\ new.refs = e.refs /\ new.present = e.present /\ new.refcount = e.refcount
      /\ new.sent = m /\ new.buffer = b /\ new.got = e.got /\ new.order = o
      BY ONLY e \in PipeTs, b \in Seq(Nat), m \in Nat, v \in Nat, o \in Orders DEF PipeTs
<1>9. /\ new \in PipeTs /\ new.refs = e.refs /\ new.present = e.present /\ new.refcount = e.refcount
      /\ new.sent = e.sent + n /\ new.buffer = buffer /\ new.got = e.got /\ new.order = order
      BY <1>a, <1>c
<1> HIDE DEF new
<1>10. ASSUME new.order = "kept"
       PROVE  /\ new.sent = new.got + Len(new.buffer)
              /\ \A i \in 1 .. Len(new.buffer) : new.buffer[i] = new.got + i
  <2>0. e.order = "kept" /\ size + n <= PageBytes BY <1>9, <1>d, <1>10
  <2>1. e.sent = e.got + size /\ \A i \in 1 .. size : e.buffer[i] = e.got + i BY <1>8, <2>0
  <2>2. Len(new.buffer) = size + n BY <1>7, <1>9
  <2>3. new.sent = new.got + Len(new.buffer) BY <1>3, <1>9, <2>1, <2>2
  <2>4. ASSUME NEW i \in 1 .. size + n PROVE new.buffer[i] = new.got + i
    <3>1. CASE i <= size
      <4>1. i \in 1 .. size BY <1>3, <3>1
      <4>2. new.buffer[i] = e.buffer[i] BY <1>7, <1>9, <3>1
      <4> QED BY <1>9, <2>1, <4>1, <4>2
    <3>2. CASE ~(i <= size)
      <4>1. i - size \in 1 .. n BY <3>2
      <4>2. new.buffer[i] = bytes[i - size] BY <1>7, <1>9, <3>2
      <4>3. bytes[i - size] = e.sent + (i - size) BY <1>6, <2>0, <4>1
      <4> QED BY <1>3, <1>9, <2>1, <4>2, <4>3
    <3> QED BY <3>1, <3>2
  <2> QED BY <2>2, <2>3, <2>4
<1>11. job[t].call \notin Dups BY <1>0 DEF Dups
<1>12. new.order # "garbled" BY <1>9, <1>d
<1> QED BY <1>0, <1>1, <1>5, <1>b, <1>9, <1>10, <1>11, <1>12, DoneArrays

(* The flags do not matter, and a duplicate is one more end. *)
LEMMA SetArrays ==
    ASSUME TypeOK, JobsSound, ArraysSound, NEW t \in Threads, pipe_setflflags(t) \/ pipe_dup(t)
    PROVE  ArraysSound'
<1> DEFINE e == pipes[job[t].intern]
<1>1. pc[t] = "op" /\ e.refcount > 0 /\ job[t].fd # -1
      BY DEF pipe_setflflags, pipe_dup, Operates, At, Pipe, IsClose, Fd
<1>2. e \in PipeTs /\ e # NULL /\ job[t].intern \in Pipes BY <1>1, Used DEF PipePlaces
<1>3. BytesOK(job[t].intern) BY <1>2 DEF ArraysSound, BytesSound
<1>4. CASE pipe_setflflags(t)
  <2> DEFINE new == [e EXCEPT !.flflags = (job[t].n > 0)]
  <2>1. PipeDone(t, new) /\ job[t].call \notin Dups BY <1>4 DEF pipe_setflflags, Pipe, Operates, Dups
  <2>2. (job[t].n > 0) \in BOOLEAN OBVIOUS
  <2>3. new \in PipeTs BY <1>2, <2>2 DEF PipeTs
  <2>4. /\ new.refs = e.refs /\ new.present = e.present /\ new.refcount = e.refcount /\ new.sent = e.sent
        /\ new.buffer = e.buffer /\ new.got = e.got /\ new.order = e.order
        BY <1>2 DEF PipeTs
  <2> HIDE DEF new
  <2> QED BY <1>1, <1>2, <1>3, <2>1, <2>3, <2>4, DoneArrays DEF BytesOK
<1>5. CASE pipe_dup(t)
  <2>2. PICK n \in Nat : n = e.refcount + 1 /\ n > 0 BY <1>2 DEF PipeTs
  <2> DEFINE new == [e EXCEPT !.refcount = n]
  <2>1. PipeDone(t, new) /\ job[t].call \in Dups BY <1>5, <2>2 DEF pipe_dup, Pipe, Operates, Dups
  <2>3. new \in PipeTs BY <1>2 DEF PipeTs
  <2>4. /\ new.refs = e.refs /\ new.present = e.present /\ new.refcount = e.refcount + 1 /\ new.sent = e.sent
        /\ new.buffer = e.buffer /\ new.got = e.got /\ new.order = e.order
        BY <1>2, <2>2 DEF PipeTs
  <2>5. new.refcount > 0 BY <2>2, <2>4
  <2> HIDE DEF new
  <2> QED BY <1>1, <1>2, <1>3, <2>1, <2>3, <2>4, <2>5, DoneArrays DEF BytesOK
<1> QED BY <1>4, <1>5

(* A reader that falls asleep keeps its reference. *)
LEMMA BlocksArrays ==
    ASSUME TypeOK, JobsSound, ArraysSound, NEW t \in Threads, PipeBlocks(t)
    PROVE  ArraysSound'
<1>0. PICK k \in Pipes : job[t].intern = k BY BlocksJob
<1>1. /\ JobStep(t) /\ job'[t] = job[t] /\ k \in Pipes /\ pc[t] = "op" /\ pc'[t] = "wait"
      /\ job[t].call = "read" /\ job[t].fd \in Fds /\ UNCHANGED <<file_descriptors, pipes, leaked>>
      BY <1>0, BlocksJob DEF PipeBlocks, arrays
<1>2. pipes' = [pipes EXCEPT ![k] = pipes[k]] BY <1>1 DEF ArraysSound, ArraysTyped
<1>3. leaked' = [i \in Pipes |-> leaked'[i]] /\ \A i \in Pipes : leaked'[i] = leaked[i]
      BY <1>1 DEF ArraysSound, ArraysTyped
<1>4. /\ \A d \in Fds : t \in FdUsers(d) <=> t \in FdUsers(d)'
      /\ t \in PipeUsers(k) /\ t \in PipeUsers(k)'
      /\ t \notin DupEnds(k) /\ t \notin DupEnds(k)' /\ t \notin CloseEnds(k) /\ t \notin CloseEnds(k)'
      BY <1>0, <1>1, Member, Bounds DEF FdPlaces, PipePlaces
<1>5. PipeStep(t, k) BY <1>1, <1>3, <1>4 DEF PipeStep
<1>6. EndsOf(k)' = EndsOf(k) BY <1>1 DEF EndsOf
<1>7. BytesOK(k)' BY <1>1 DEF ArraysSound, BytesSound, BytesOK
<1>8. One(t \in DupEnds(k)') + One(t \in CloseEnds(k)') + EndsOf(k)
            = One(t \in DupEnds(k)) + One(t \in CloseEnds(k)) + EndsOf(k)'
      BY <1>4, <1>6 DEF One
<1> QED BY <1>0, <1>1, <1>2, <1>3, <1>4, <1>5, <1>7, <1>8, PipeOnly DEF JobStep

(* A reader that wakes takes a token and nothing else. *)
LEMMA WokenArrays ==
    ASSUME TypeOK, JobsSound, ArraysSound, NEW t \in Threads, PipeWoken(t)
    PROVE  ArraysSound'
<1>0. PICK k \in Pipes : job[t].intern = k BY WokenJob DEF PipeWoken, At
<1> DEFINE e == pipes[k]
<1>1. pc[t] = "wait" /\ e.event > 0 /\ Goes(t, "op") /\ UNCHANGED <<file_descriptors, leaked, job>>
      BY <1>0 DEF PipeWoken, At, Pipe
<1>2. /\ JobStep(t) /\ job'[t] = job[t] /\ k \in Pipes /\ pc'[t] = "op" /\ job[t].call = "read"
      /\ job[t].fd \in Fds
      BY <1>0, <1>1, WokenJob
<1>3. e \in PipeTs /\ e # NULL /\ t \in PipeUsers(k) BY <1>0, <1>1, Used DEF PipePlaces
<1>6. PICK n \in Nat : n = e.event - 1 BY <1>1, <1>3 DEF PipeTs
<1> DEFINE new == [e EXCEPT !.event = n]
<1>4. pipes' = [pipes EXCEPT ![k] = new] BY <1>0, <1>2, <1>6 DEF PipeWoken, ArraysSound, ArraysTyped
<1>5. pipes'[k] = new BY <1>2, <1>4 DEF ArraysSound, ArraysTyped
<1>7. new \in PipeTs BY <1>3 DEF PipeTs
<1>8. /\ new.refs = e.refs /\ new.present = e.present /\ new.refcount = e.refcount /\ new.sent = e.sent
      /\ new.buffer = e.buffer /\ new.got = e.got /\ new.order = e.order
      BY <1>3 DEF PipeTs
<1> HIDE DEF new
<1>9. leaked' = [i \in Pipes |-> leaked'[i]] /\ \A i \in Pipes : leaked'[i] = leaked[i]
      BY <1>1 DEF ArraysSound, ArraysTyped
<1>10. /\ \A d \in Fds : t \in FdUsers(d) <=> t \in FdUsers(d)'
       /\ t \in PipeUsers(k)'
       /\ t \notin DupEnds(k) /\ t \notin DupEnds(k)' /\ t \notin CloseEnds(k) /\ t \notin CloseEnds(k)'
       BY <1>0, <1>1, <1>2, Member, Bounds DEF FdPlaces, PipePlaces
<1>11. PipeStep(t, k) BY <1>2, <1>3, <1>5, <1>7, <1>8, <1>9, <1>10 DEF PipeStep
<1>12. new # NULL BY <1>7, NullAssumption
<1>13. EndsOf(k)' = EndsOf(k) BY <1>3, <1>5, <1>8, <1>12 DEF EndsOf, Present
<1>14. BytesOK(k)' BY <1>2, <1>3, <1>5, <1>8 DEF ArraysSound, BytesSound, BytesOK
<1>15. One(t \in DupEnds(k)') + One(t \in CloseEnds(k)') + EndsOf(k)
            = One(t \in DupEnds(k)) + One(t \in CloseEnds(k)) + EndsOf(k)'
       BY <1>10, <1>13 DEF One
<1> QED BY <1>0, <1>1, <1>2, <1>4, <1>9, <1>10, <1>11, <1>14, <1>15, PipeOnly DEF JobStep

(* A read that is interrupted leaks its reference, and may lose a token. *)
LEMMA AbortedArrays ==
    ASSUME TypeOK, JobsSound, ArraysSound, NEW t \in Threads, PipeAborted(t)
    PROVE  ArraysSound'
<1>0. PICK k \in Pipes : job[t].intern = k BY WokenJob DEF PipeAborted, At
<1> DEFINE e == pipes[k]
<1>1. /\ pc[t] = "wait" /\ Goes(t, "put") /\ UNCHANGED <<file_descriptors, job>>
      /\ leaked' = [leaked EXCEPT ![k] = @ + 1]
      BY <1>0 DEF PipeAborted, At
<1>2. /\ JobStep(t) /\ job'[t] = job[t] /\ k \in Pipes /\ pc'[t] = "put" /\ job[t].call = "read"
      /\ job[t].fd \in Fds
      BY <1>0, <1>1, WokenJob
<1>3. e \in PipeTs /\ e # NULL BY <1>0, <1>1, Used DEF PipePlaces
<1>4. PICK new \in PipeTs :
          /\ pipes' = [pipes EXCEPT ![k] = new]
          /\ new.refs = e.refs /\ new.present = e.present /\ new.refcount = e.refcount /\ new.sent = e.sent
          /\ new.buffer = e.buffer /\ new.got = e.got /\ new.order = e.order
  <2>1. CASE UNCHANGED pipes
    <3>1. pipes' = [pipes EXCEPT ![k] = e] BY <2>1 DEF ArraysSound, ArraysTyped
    <3> QED BY <1>3, <3>1
  <2>2. CASE e.event > 0 /\ pipes' = [pipes EXCEPT ![k].event = @ - 1]
    <3>1. PICK n \in Nat : n = e.event - 1 BY <1>3, <2>2 DEF PipeTs
    <3> DEFINE f == [e EXCEPT !.event = n]
    <3>2. pipes' = [pipes EXCEPT ![k] = f] BY <2>2, <3>1 DEF ArraysSound, ArraysTyped
    <3>3. /\ f \in PipeTs /\ f.refs = e.refs /\ f.present = e.present /\ f.refcount = e.refcount
          /\ f.sent = e.sent /\ f.buffer = e.buffer /\ f.got = e.got /\ f.order = e.order
          BY <1>3 DEF PipeTs
    <3> HIDE DEF f
    <3> QED BY <3>2, <3>3
  <2> QED BY <1>0, <2>1, <2>2 DEF PipeAborted, Pipe
<1>5. pipes'[k] = new /\ new # NULL BY <1>2, <1>4, NullAssumption DEF ArraysSound, ArraysTyped
<1>6. /\ leaked' = [i \in Pipes |-> leaked'[i]] /\ \A i \in Pipes \ {k} : leaked'[i] = leaked[i]
      /\ leaked'[k] = leaked[k] + 1
      BY <1>1, <1>2 DEF ArraysSound, ArraysTyped
<1>7. /\ \A d \in Fds : t \in FdUsers(d) <=> t \in FdUsers(d)'
      /\ t \in PipeUsers(k) /\ t \notin PipeUsers(k)'
      /\ t \notin DupEnds(k) /\ t \notin DupEnds(k)' /\ t \notin CloseEnds(k) /\ t \notin CloseEnds(k)'
      BY <1>0, <1>1, <1>2, Member, Bounds DEF FdPlaces, PipePlaces, Dups
<1>8. PipeStep(t, k) BY <1>4, <1>5, <1>6, <1>7 DEF PipeStep
<1>9. EndsOf(k)' = EndsOf(k) BY <1>3, <1>4, <1>5 DEF EndsOf, Present
<1>10. BytesOK(k)' BY <1>2, <1>3, <1>4, <1>5 DEF ArraysSound, BytesSound, BytesOK
<1>11. One(t \in DupEnds(k)') + One(t \in CloseEnds(k)') + EndsOf(k)
            = One(t \in DupEnds(k)) + One(t \in CloseEnds(k)) + EndsOf(k)'
      BY <1>7, <1>9 DEF One
<1> QED BY <1>0, <1>1, <1>2, <1>4, <1>6, <1>7, <1>8, <1>10, <1>11, PipeOnly DEF JobStep

(* dynarray_unref of a pipe gives the reference back. *)
LEMMA PipeUnrefArrays ==
    ASSUME TypeOK, JobsSound, ArraysSound, NEW t \in Threads, PipeUnref(t)
    PROVE  ArraysSound'
<1>0. PICK k \in Pipes : job[t].intern = k BY PipeUnrefJob
<1> DEFINE e == pipes[k]
           new == UnrefPipe(e)
<1>1. /\ JobStep(t) /\ job'[t] = job[t] /\ k \in Pipes /\ pc[t] = "unref"
      /\ pc'[t] = (IF job[t].fd = -1 THEN "closed" ELSE "put") /\ UNCHANGED <<file_descriptors, leaked>>
      BY <1>0, PipeUnrefJob DEF PipeUnref
<1>2. e \in PipeTs /\ e # NULL /\ t \in PipeUsers(k) /\ e.refs > One(e.present)
      BY <1>0, <1>1, Used DEF PipePlaces
<1>3. pipes' = [pipes EXCEPT ![k] = new] BY <1>0, <1>1 DEF PipeUnref, ArraysSound, ArraysTyped
<1>4. pipes'[k] = new BY <1>1, <1>3 DEF ArraysSound, ArraysTyped
<1>5. leaked' = [i \in Pipes |-> leaked'[i]] /\ \A i \in Pipes : leaked'[i] = leaked[i]
      BY <1>1 DEF ArraysSound, ArraysTyped
<1>6. /\ \A d \in Fds : t \in FdUsers(d) <=> t \in FdUsers(d)'
      /\ t \notin PipeUsers(k)'
      /\ t \in DupEnds(k) <=> t \in DupEnds(k)'
      /\ t \notin CloseEnds(k) /\ t \notin CloseEnds(k)'
      BY <1>0, <1>1, Member, Bounds DEF FdPlaces, PipePlaces
<1>7. PipeStep(t, k) BY <1>2, <1>4, <1>5, <1>6 DEF PipeStep
<1>8. e.refs \in Nat /\ e.present \in BOOLEAN BY <1>2 DEF PipeTs
<1>9. EndsOf(k)' = EndsOf(k) /\ BytesOK(k)'
  <2>1. CASE e.refs = 1
    <3>1. ~e.present BY <1>2, <1>8, <2>1 DEF One
    <3>2. pipes'[k] = NULL BY <1>4, <2>1 DEF UnrefPipe
    <3> QED BY <3>1, <3>2 DEF EndsOf, Present, BytesOK
  <2>2. CASE e.refs # 1
    <3>2. PICK n \in Nat : n = e.refs - 1 BY <1>2, <1>8 DEF One
    <3>1. new = [e EXCEPT !.refs = n] BY <1>2, <2>2, <3>2 DEF UnrefPipe
    <3>3. new \in PipeTs BY <1>2, <3>1 DEF PipeTs
    <3>4. new # NULL BY <3>3, NullAssumption
    <3>5. /\ new.present = e.present /\ new.refcount = e.refcount /\ new.sent = e.sent
          /\ new.buffer = e.buffer /\ new.got = e.got /\ new.order = e.order
          BY <1>2, <3>1 DEF PipeTs
    <3>6. EndsOf(k)' = EndsOf(k) BY <1>2, <1>4, <3>4, <3>5 DEF EndsOf, Present
    <3>7. BytesOK(k)' BY <1>1, <1>2, <1>4, <3>5 DEF ArraysSound, BytesSound, BytesOK
    <3> QED BY <3>6, <3>7
  <2> QED BY <2>1, <2>2
<1>10. One(t \in DupEnds(k)') + One(t \in CloseEnds(k)') + EndsOf(k)
            = One(t \in DupEnds(k)) + One(t \in CloseEnds(k)) + EndsOf(k)'
       BY <1>6, <1>9 DEF One
<1> QED BY <1>0, <1>1, <1>3, <1>5, <1>6, <1>7, <1>9, <1>10, PipeOnly DEF JobStep

(* A close takes an end away, and with the last one the pipe leaves the array. *)
LEMMA CloseArrays ==
    ASSUME TypeOK, JobsSound, ArraysSound, NEW t \in Threads, pipe_close(t)
    PROVE  ArraysSound'
<1>0. PICK k \in Pipes : job[t].intern = k BY CloseJob
<1> DEFINE e == pipes[k]
<1>1. /\ JobStep(t) /\ job'[t] = job[t] /\ k \in Pipes /\ pc[t] = "op" /\ job[t].fd = -1
      /\ pc'[t] = (IF e.refcount > 1 THEN "unref" ELSE "closed") /\ e.refcount > 0
      BY <1>0, CloseJob DEF pipe_close, Pipe
<1>2. e \in PipeTs /\ e # NULL /\ t \in PipeUsers(k) /\ e.refs > One(e.present) /\ e.present
      BY <1>0, <1>1, Used DEF PipePlaces
<1>3. e.refs \in Nat /\ e.refcount \in Nat /\ e.event \in Nat BY <1>2 DEF PipeTs
<1>4. BytesOK(k) BY <1>1 DEF ArraysSound, BytesSound
<1>5. CASE e.refcount > 1
  <2>2. PICK n \in Nat, v \in Nat : n = e.refcount - 1 /\ n > 0 /\ v = e.event + 1 BY <1>3, <1>5
  <2> DEFINE new == [e EXCEPT !.refcount = n, !.event = v]
  <2>1. PipeDone(t, new) BY <1>0, <1>5, <2>2 DEF pipe_close, Pipe
  <2>3. new \in PipeTs BY <1>2 DEF PipeTs
  <2>4. /\ new.refs = e.refs /\ new.present = e.present /\ new.refcount = n /\ new.sent = e.sent
        /\ new.buffer = e.buffer /\ new.got = e.got /\ new.order = e.order
        BY <1>2 DEF PipeTs
  <2> HIDE DEF new
  <2>5. /\ new.order # "garbled"
        /\ new.order = "kept" =>
              /\ new.sent = new.got + Len(new.buffer)
              /\ \A i \in 1 .. Len(new.buffer) : new.buffer[i] = new.got + i
        BY <1>2, <1>4, <2>4 DEF BytesOK
  <2>6. new.refcount > 0 /\ new.refcount = e.refcount - 1 /\ new.refs = e.refs /\ new.present = e.present
        BY <2>2, <2>4
  <2>7. pipes[job[t].intern] = e BY <1>0
  <2> HIDE DEF e
  <2> QED BY <1>1, <2>1, <2>3, <2>5, <2>6, <2>7, DoneArrays
<1>6. CASE ~(e.refcount > 1)
  <2> DEFINE new == IF e.refs = 2 THEN NULL ELSE [e EXCEPT !.refcount = 0, !.present = FALSE, !.refs = @ - 2]
  <2>1. pipes' = [pipes EXCEPT ![k] = new] /\ UNCHANGED <<file_descriptors, leaked>>
        BY <1>0, <1>6 DEF pipe_close, Pipe
  <2>2. pipes'[k] = new BY <1>1, <2>1 DEF ArraysSound, ArraysTyped
  <2>3. leaked' = [i \in Pipes |-> leaked'[i]] /\ \A i \in Pipes : leaked'[i] = leaked[i]
        BY <2>1 DEF ArraysSound, ArraysTyped
  <2>4. /\ \A d \in Fds : t \notin FdUsers(d) /\ t \notin FdUsers(d)'
        /\ t \notin PipeUsers(k)'
        /\ t \notin DupEnds(k) /\ t \notin DupEnds(k)'
        /\ t \in CloseEnds(k) /\ t \notin CloseEnds(k)'
        BY <1>0, <1>1, <1>6, Member, Bounds DEF FdPlaces, PipePlaces
  <2>5. PipeStep(t, k) BY <1>2, <2>2, <2>3, <2>4 DEF PipeStep, Present
  <2>6. ~Present(pipes'[k])
    <3>1. [e EXCEPT !.refcount = 0, !.present = FALSE, !.refs = @ - 2].present = FALSE
          BY <1>2 DEF PipeTs
    <3> QED BY <2>2, <3>1 DEF Present
  <2>7. EndsOf(k)' = 0 BY <2>6 DEF EndsOf
  <2>8. EndsOf(k) = 1 BY <1>1, <1>2, <1>3, <1>6 DEF EndsOf, Present
  <2>9. BytesOK(k)'
    <3>1. CASE e.refs = 2 BY <2>2, <3>1 DEF BytesOK
    <3>2. CASE e.refs # 2
      <4>1. /\ new.sent = e.sent /\ new.buffer = e.buffer /\ new.got = e.got /\ new.order = e.order
            BY <1>2, <3>2 DEF PipeTs
      <4> QED BY <1>2, <1>4, <2>2, <4>1 DEF BytesOK
    <3> QED BY <3>1, <3>2
  <2>10. One(t \in DupEnds(k)') + One(t \in CloseEnds(k)') + EndsOf(k)
            = One(t \in DupEnds(k)) + One(t \in CloseEnds(k)) + EndsOf(k)'
         BY <2>4, <2>7, <2>8 DEF One
  <2> QED BY <1>0, <1>1, <2>1, <2>3, <2>4, <2>5, <2>9, <2>10, PipeOnly DEF JobStep
<1> QED BY <1>5, <1>6

(* A new pipe has two ends, its two descriptors. *)
LEMMA PipeArrays ==
    ASSUME TypeOK, JobsSound, ArraysSound, NEW t \in Threads, syscall_pipe(t)
    PROVE  ArraysSound'
<1>1. PICK k \in Pipes, r, w \in Fds, hr, hw \in Handles :
          /\ First(k, FreePipes) /\ First(r, FreeFds) /\ First(w, FreeFds \ {r})
          /\ First(hr, FreeHandles(t[1])) /\ First(hw, FreeHandles(t[1]) \ {hr})
          /\ pipes' = [pipes EXCEPT ![k] = NewPipe]
          /\ leaked' = [leaked EXCEPT ![k] = 0]
          /\ file_descriptors' = [d \in Fds |->
                 IF d \in {r, w} THEN [refcount |-> 1, present |-> TRUE, intern |-> k]
                 ELSE file_descriptors[d]]
          /\ file_handles' = [file_handles EXCEPT ![t[1]][hr] = r, ![t[1]][hw] = w]
          /\ job' = [job EXCEPT ![t].fd = r, ![t].old = w]
      BY DEF syscall_pipe
<1>2. pipes[k] = NULL /\ file_descriptors[r] = NULL /\ file_descriptors[w] = NULL /\ r # w
      BY <1>1 DEF First, FreePipes, FreeFds
<1>3. Calling(t, {"pipe"}) /\ Goes(t, "fd") BY DEF syscall_pipe
<1>4. JobStep(t) /\ pc'[t] = "fd" /\ pc[t] = "lock" BY <1>1, <1>3, PipeJob DEF Calling, At
<1>5. Acts(t) BY <1>4 DEF JobStep
<1>6. /\ \A d \in Fds : t \notin FdUsers(d) /\ t \notin FdUsers(d)'
      /\ \A i \in Pipes : t \notin PipeUsers(i) /\ t \notin PipeUsers(i)'
      /\ \A i \in Pipes : t \notin DupEnds(i) /\ t \notin DupEnds(i)'
      /\ \A i \in Pipes : t \notin CloseEnds(i) /\ t \notin CloseEnds(i)'
      BY <1>4, Member DEF FdPlaces, PipePlaces
<1>7. /\ \A i \in Pipes \ {k} : pipes'[i] = pipes[i] /\ leaked'[i] = leaked[i]
      /\ pipes'[k] = NewPipe /\ leaked'[k] = 0
      /\ pipes' = [i \in Pipes |-> pipes'[i]] /\ leaked' = [i \in Pipes |-> leaked'[i]]
      BY <1>1 DEF ArraysSound, ArraysTyped
<1>8. /\ \A d \in Fds \ {r, w} : file_descriptors'[d] = file_descriptors[d]
      /\ \A d \in {r, w} : file_descriptors'[d] = [refcount |-> 1, present |-> TRUE, intern |-> k]
      /\ file_descriptors' = [d \in Fds |-> file_descriptors'[d]]
      BY <1>1
<1>9. ASSUME NEW d \in Fds PROVE FdRefs(d)' /\ file_descriptors'[d] \in Descriptors \cup {NULL}
  <2>1. FdStep(t, d) BY <1>2, <1>6, <1>8 DEF FdStep
  <2>2. FdRefs(d) /\ file_descriptors[d] \in Descriptors \cup {NULL}
        BY DEF ArraysSound, ArraysTyped, RefsSound
  <2> QED BY <1>5, <2>1, <2>2, FdRefsStep
<1>10. ASSUME NEW i \in Pipes PROVE PipeRefs(i)' /\ pipes'[i] \in PipeTs \cup {NULL} /\ leaked'[i] \in Nat
  <2>1. PipeStep(t, i) BY <1>2, <1>6, <1>7 DEF PipeStep
  <2>2. PipeRefs(i) /\ pipes[i] \in PipeTs \cup {NULL} /\ leaked[i] \in Nat
        BY DEF ArraysSound, ArraysTyped, RefsSound
  <2> QED BY <1>5, <2>1, <2>2, PipeRefsStep
<1>11. NewPipe # NULL /\ NewPipe.present /\ NewPipe.refcount = 2 /\ NewPipe.order = "kept"
       /\ NewPipe.sent = 0 /\ NewPipe.got = 0 /\ NewPipe.buffer = <<>>
  <2>1. NewPipe \in PipeTs BY DEF NewPipe, PipeTs, Orders
  <2> QED BY <2>1, NullAssumption DEF NewPipe
<1>12. \A d \in {r, w} : Present(file_descriptors'[d]) /\ file_descriptors'[d].intern = k
  <2>1. [refcount |-> 1, present |-> TRUE, intern |-> k] \in Descriptors BY DEF Descriptors
  <2>2. [refcount |-> 1, present |-> TRUE, intern |-> k] # NULL BY <2>1, NullAssumption
  <2> QED BY <1>8, <2>2 DEF Present
<1>13. ASSUME NEW i \in Pipes PROVE (Ends(i) = EndsOf(i))'
  <2>1. /\ Cardinality(DupEnds(i)) \in Nat /\ Cardinality(CloseEnds(i)) \in Nat
        /\ Cardinality(DupEnds(i)') = Cardinality(DupEnds(i))
        /\ Cardinality(CloseEnds(i)') = Cardinality(CloseEnds(i))
        BY <1>5, <1>6, DupEndsStep, CloseEndsStep DEF One
  <2>2. Ends(i) = EndsOf(i) BY DEF ArraysSound, EndsSound
  <2>3. IsFiniteSet(OpenEnds(i)) /\ Cardinality(OpenEnds(i)) \in Nat
    <3>1. OpenEnds(i) \subseteq Fds BY DEF OpenEnds
    <3> QED BY <3>1, Finite, FS_Subset, FS_CardinalityType
  <2>4. CASE i = k
    <3>1. EndsOf(k) = 0 BY <1>2 DEF EndsOf, Present
    <3>2. Cardinality(OpenEnds(k)) = 0 /\ Cardinality(DupEnds(k)) = 0 /\ Cardinality(CloseEnds(k)) = 0
          BY <2>1, <2>2, <2>3, <2>4, <3>1 DEF Ends
    <3>3. OpenEnds(k) = {} BY <2>3, <2>4, <3>2, FS_EmptySet
    <3>4. OpenEnds(k)' = {r, w}
      <4>1. \A d \in Fds \ {r, w} : d \notin OpenEnds(k)' BY <1>8, <3>3 DEF OpenEnds, Present
      <4>2. r \in OpenEnds(k)' /\ w \in OpenEnds(k)' BY <1>12 DEF OpenEnds
      <4>3. OpenEnds(k)' \subseteq Fds BY DEF OpenEnds
      <4> QED BY <4>1, <4>2, <4>3
    <3>5. Cardinality({r, w}) = 2
      <4>1. {r, w} = {w} \cup {r} OBVIOUS
      <4>2. IsFiniteSet({w}) /\ Cardinality({w}) = 1 BY FS_Singleton
      <4>3. Cardinality({w} \cup {r}) = Cardinality({w}) + 1 BY <1>2, <4>2, FS_AddElement
      <4> QED BY <4>1, <4>2, <4>3
    <3>6. EndsOf(k)' = 2 BY <1>7, <1>11 DEF EndsOf, Present
    <3> QED BY <2>1, <2>4, <3>2, <3>4, <3>5, <3>6 DEF Ends
  <2>5. CASE i # k
    <3>1. EndsOf(i)' = EndsOf(i) BY <1>7, <2>5 DEF EndsOf
    <3>2. OpenEnds(i)' = OpenEnds(i)
      <4>1. \A d \in Fds : d \in OpenEnds(i)' <=> d \in OpenEnds(i)
            BY <1>2, <1>8, <1>12, <2>5 DEF OpenEnds, Present
      <4> QED BY <4>1 DEF OpenEnds
    <3> QED BY <2>1, <2>2, <3>1, <3>2 DEF Ends
  <2> QED BY <2>4, <2>5
<1>14. ArraysTyped' BY <1>7, <1>8, <1>9, <1>10 DEF ArraysTyped
<1>15. BytesSound' BY <1>7, <1>11 DEF ArraysSound, BytesSound, BytesOK
<1> QED BY <1>9, <1>10, <1>13, <1>14, <1>15 DEF ArraysSound, RefsSound, EndsSound

(* Every step keeps the arrays. *)
LEMMA ArraysStep ==
    ASSUME TypeOK, JobsSound, running \subseteq UserThreads, ArraysSound, ClosersSound, Next
    PROVE  ArraysSound'
<1>1. ASSUME NEW t \in Threads, Program(t) PROVE ArraysSound'
  <2>1. JobStep(t) /\ pc'[t] = "lock" BY <1>1, EnterCases, EnterJob
  <2>2. pc[t] = "user" /\ UNCHANGED <<file_descriptors, pipes, leaked>>
        BY <1>1, EnterCases DEF Enter, At, arrays
  <2> QED BY <2>1, <2>2, ArraysQuiet DEF JobStep, FdPlaces
<1>2. ASSUME NEW t \in Threads, Continue(t) PROVE ArraysSound'
  <2>1. CASE Refused(t)
    <3>1. JobStep(t) /\ pc'[t] = "user" BY <2>1, ReturnJob DEF Refused
    <3>2. pc[t] = "lock" /\ UNCHANGED <<file_descriptors, pipes, leaked>>
          BY <2>1 DEF Refused, Calling, At, arrays
    <3> QED BY <3>1, <3>2, ArraysQuiet DEF JobStep, FdPlaces
  <2>2. CASE syscall_read(t) \/ syscall_write(t) \/ syscall_close(t) \/ syscall_stat(t)
    <3>1. JobStep(t) /\ pc'[t] \in {"fd", "close"}
          BY <2>2, LocksJob DEF syscall_read, syscall_write, syscall_close, syscall_stat
    <3>2. pc[t] = "lock" /\ UNCHANGED <<file_descriptors, pipes, leaked>>
          BY <2>2 DEF syscall_read, syscall_write, syscall_close, syscall_stat, Locks, Calling, At, arrays
    <3> QED BY <3>1, <3>2, ArraysQuiet DEF JobStep, FdPlaces
  <2>3. CASE syscall_dup2(t)
    <3>1. JobStep(t) /\ pc'[t] \in {"user", "fd", "close"} BY <2>3, Dup2Job
    <3>2. pc[t] = "lock" /\ UNCHANGED <<file_descriptors, pipes, leaked>>
          BY <2>3 DEF syscall_dup2, Calling, At, arrays
    <3> QED BY <3>1, <3>2, ArraysQuiet DEF JobStep, FdPlaces
  <2>4. CASE syscall_fcntl(t)
    <3>1. JobStep(t) /\ pc'[t] \in {"find", "fd"} BY <2>4, FcntlJob
    <3>2. pc[t] = "lock" /\ UNCHANGED <<file_descriptors, pipes, leaked>>
          BY <2>4 DEF syscall_fcntl, Calling, At, arrays
    <3> QED BY <3>1, <3>2, ArraysQuiet DEF JobStep, FdPlaces
  <2>5. CASE fcntl_dupfd(t)
    <3>1. JobStep(t) /\ pc'[t] \in {"user", "fd"} BY <2>5, ReturnJob, DupfdJob DEF fcntl_dupfd
    <3>2. pc[t] = "find" /\ UNCHANGED <<file_descriptors, pipes, leaked>>
          BY <2>5 DEF fcntl_dupfd, At, arrays
    <3> QED BY <3>1, <3>2, ArraysQuiet DEF JobStep, FdPlaces
  <2>6. CASE ForkBegins(t)
    <3>1. PICK c \in FreeProcs : job' = [job EXCEPT ![t].new = c] BY <2>6 DEF ForkBegins
    <3>2. c \in Procs BY DEF FreeProcs
    <3>3. JobStep(t) /\ pc'[t] = "fork" BY <2>6, <3>1, <3>2, ForkBeginsJob
    <3>4. pc[t] = "lock" /\ UNCHANGED <<file_descriptors, pipes, leaked>>
          BY <2>6 DEF ForkBegins, At, arrays
    <3> QED BY <3>3, <3>4, ArraysQuiet DEF JobStep, FdPlaces
  <2>7. CASE ForkCopies(t)
    <3>1. JobStep(t) /\ pc'[t] \in {"fork", "fd"} BY <2>7, ForkCopiesJob
    <3>2. pc[t] = "fork" /\ UNCHANGED <<file_descriptors, pipes, leaked>>
          BY <2>7 DEF ForkCopies, At, arrays
    <3> QED BY <3>1, <3>2, ArraysQuiet DEF JobStep, FdPlaces
  <2>8. CASE ForkEnds(t)
    <3>1. JobStep(t) /\ pc'[t] = "user" BY <2>8, ReturnJob DEF ForkEnds
    <3>2. pc[t] = "fork" /\ UNCHANGED <<file_descriptors, pipes, leaked>>
          BY <2>8 DEF ForkEnds, At, arrays
    <3> QED BY <3>1, <3>2, ArraysQuiet DEF JobStep, FdPlaces
  <2>9. CASE Dup2Stores(t)
    <3>1. JobStep(t) /\ pc'[t] = "user" /\ pc[t] = "store" BY <2>9, StoresJob
    <3>2. UNCHANGED <<file_descriptors, pipes, leaked>> BY <2>9 DEF Dup2Stores, arrays
    <3> QED BY <3>1, <3>2, ArraysQuiet DEF JobStep, FdPlaces
  <2>10. CASE Closed(t)
    <3>1. JobStep(t) /\ pc'[t] \in {"user", "fd", "exit"} /\ pc[t] = "closed" BY <2>10, ClosedJob DEF Closing
    <3>2. UNCHANGED <<file_descriptors, pipes, leaked>> BY <2>10 DEF Closed, arrays
    <3> QED BY <3>1, <3>2, ArraysQuiet DEF JobStep, FdPlaces
  <2> QED
      BY <1>2, <2>1, <2>2, <2>3, <2>4, <2>5, <2>6, <2>7, <2>8, <2>9, <2>10, OpenArrays, PipeArrays,
         FdGetArrays, PipeGetArrays, ReadArrays, BlocksArrays, WokenArrays, AbortedArrays, WriteArrays,
         SetArrays, CloseArrays, PipeUnrefArrays, FdUnrefArrays, CreateArrays,
         CopiesArrays, CloseUnrefArrays, LeavesArrays DEF Continue
<1>3. ASSUME UNCHANGED <<pc, job, file_descriptors, pipes, leaked>> PROVE ArraysSound' BY <1>3, ArraysSame
<1>4. ASSUME Monitor PROVE ArraysSound'
  <2>1. CASE MonitorKills BY <1>3, <2>1 DEF MonitorKills, arrays
  <2>2. CASE ExitCloses
    <3>1. JobStep(Urm) /\ pc'[Urm] \in {"exit", "close"} BY <2>2, ExitClosesJob
    <3>2. pc[Urm] \in {"user", "exit"} /\ UNCHANGED <<file_descriptors, pipes, leaked>>
          BY <2>2 DEF ExitCloses, arrays
    <3> QED BY <3>1, <3>2, ArraysQuiet, Bounds DEF JobStep, FdPlaces
  <2>3. CASE ExitEnds
    <3>1. JobStep(Urm) /\ pc'[Urm] = "user" BY <2>3, ReturnJob, Bounds DEF ExitEnds
    <3>2. pc[Urm] = "exit" /\ UNCHANGED <<file_descriptors, pipes, leaked>>
          BY <2>3 DEF ExitEnds, At, arrays
    <3> QED BY <3>1, <3>2, ArraysQuiet, Bounds DEF JobStep, FdPlaces
  <2> QED BY <1>4, <2>1, <2>2, <2>3 DEF Monitor
<1>5. ASSUME NEW p \in Procs, HandlerStarts(p) \/ ExitBegins(p) PROVE ArraysSound'
      BY <1>3, <1>5 DEF HandlerStarts, ExitBegins, arrays
<1> QED BY <1>1, <1>2, <1>4, <1>5 DEF Next

(* A descriptor that is in its place stays there. *)
Keeps(a) ==
    Present(file_descriptors[a]) =>
        Present(file_descriptors'[a]) /\ file_descriptors'[a].intern = file_descriptors[a].intern

(* Only the last step of its close takes a descriptor out of its place. *)
LEMMA PresentKept ==
    ASSUME TypeOK, JobsSound, ArraysSound, NEW t \in Threads, Continue(t), NEW a \in Fds,
           ~(CloseRemoves(t) /\ Fd(t) = a)
    PROVE  Keeps(a)
<1>0. file_descriptors \in [Fds -> Descriptors \cup {NULL}] BY DEF TypeOK
<1>a. UNCHANGED file_descriptors => Keeps(a) BY DEF Keeps
<1>1. CASE \/ Refused(t) \/ syscall_dup2(t) \/ syscall_fcntl(t) \/ ForkCopies(t) \/ ForkEnds(t) \/ PipeGet(t)
           \/ PipeBlocks(t) \/ PipeWoken(t) \/ PipeAborted(t) \/ PipeUnref(t) \/ fcntl_dupfd(t) \/ ForkBegins(t)
           \/ Dup2Stores(t) \/ Closed(t)
      BY <1>1, <1>a DEF Refused, syscall_dup2, syscall_fcntl, ForkCopies, ForkEnds, PipeGet, PipeBlocks,
         PipeWoken, PipeAborted, PipeUnref, fcntl_dupfd, ForkBegins, Dup2Stores, Closed, arrays
<1>2. CASE \/ pipe_read(t) \/ pipe_write(t) \/ pipe_setflflags(t) \/ pipe_dup(t) \/ pipe_close(t)
           \/ syscall_read(t) \/ syscall_write(t) \/ syscall_close(t) \/ syscall_stat(t)
      BY <1>2, <1>a DEF pipe_read, pipe_write, pipe_setflflags, pipe_dup, pipe_close, PipeDone,
         syscall_read, syscall_write, syscall_close, syscall_stat, Locks, arrays
<1>3. ASSUME NEW d \in Fds, NEW i, fd_create(d, i) PROVE Keeps(a)
      BY <1>0, <1>3 DEF fd_create, First, FreeFds, Keeps, Present
<1>4. CASE syscall_open(t) BY <1>3, <1>4 DEF syscall_open
<1>5. CASE FdCreate(t) BY <1>3, <1>5, <1>a DEF FdCreate
<1>6. CASE syscall_pipe(t)
  <2>1. PICK i \in Pipes, r, w \in Fds, hr, hw \in Handles :
            /\ First(i, FreePipes) /\ First(r, FreeFds) /\ First(w, FreeFds \ {r})
            /\ First(hr, FreeHandles(t[1])) /\ First(hw, FreeHandles(t[1]) \ {hr})
            /\ pipes' = [pipes EXCEPT ![i] = NewPipe]
            /\ leaked' = [leaked EXCEPT ![i] = 0]
            /\ file_descriptors' = [d \in Fds |->
                   IF d \in {r, w} THEN [refcount |-> 1, present |-> TRUE, intern |-> i]
                   ELSE file_descriptors[d]]
            /\ file_handles' = [file_handles EXCEPT ![t[1]][hr] = r, ![t[1]][hw] = w]
            /\ job' = [job EXCEPT ![t].fd = r, ![t].old = w]
        BY <1>6 DEF syscall_pipe
  <2> QED BY <2>1 DEF First, FreeFds, Keeps, Present
<1>7. ASSUME file_descriptors' = [file_descriptors EXCEPT ![Fd(t)].refcount = @ + 1] PROVE Keeps(a)
  <2>1. SUFFICES ASSUME Present(file_descriptors[a])
                 PROVE  Present(file_descriptors'[a]) /\ file_descriptors'[a].intern = file_descriptors[a].intern
        BY DEF Keeps
  <2>2. PICK e \in Descriptors : e = file_descriptors[a] BY <1>0, <2>1 DEF Present
  <2> DEFINE f == [e EXCEPT !.refcount = @ + 1]
  <2>3. f \in Descriptors /\ f.present = e.present /\ f.intern = e.intern BY DEF Descriptors
  <2>4. f # NULL BY <2>3, NullAssumption
  <2>5. file_descriptors'[a] = e \/ file_descriptors'[a] = f BY <1>0, <1>7, <2>2
  <2> HIDE DEF f
  <2> QED BY <2>1, <2>2, <2>3, <2>4, <2>5 DEF Present
<1>8. CASE FdGet(t) \/ close(t) BY <1>7, <1>8, <1>a DEF FdGet, close
<1>9. CASE FdUnref(t) \/ CloseUnref(t)
  <2>1. pc[t] \in FdPlaces /\ Fd(t) \in Fds /\ t \in FdUsers(Fd(t))
    <3>1. JobSound(t) /\ pc[t] \in {"put", "copied"} BY <1>9, Known DEF FdUnref, CloseUnref, At
    <3> QED BY <3>1 DEF JobSound, Closers, FdUsers, FdPlaces, Fd
  <2>2. file_descriptors' = [file_descriptors EXCEPT ![Fd(t)] = UnrefFd(@)] BY <1>9 DEF FdUnref, CloseUnref
  <2>3. CASE Fd(t) = a
    <3>1. file_descriptors'[a] = UnrefFd(file_descriptors[a]) BY <1>0, <2>2, <2>3
    <3>2. t \in FdUsers(a) BY <2>1, <2>3
    <3> QED BY <3>1, <3>2, Unreferenced DEF Keeps
  <2>4. CASE Fd(t) # a BY <1>0, <2>2, <2>4 DEF Keeps
  <2> QED BY <2>3, <2>4
<1>10. CASE CloseRemoves(t) /\ Fd(t) # a BY <1>0, <1>10 DEF CloseRemoves, Keeps
<1> QED BY <1>1, <1>2, <1>4, <1>5, <1>6, <1>8, <1>9, <1>10 DEF Continue

(* Only close brings a thread where it has a copy. *)
LEMMA LandsInClose ==
    ASSUME TypeOK, JobsSound, NEW t \in Threads, Continue(t), pc'[t] \in {"copied", "remove"}
    PROVE  close(t) \/ CloseUnref(t)
<1>0. pc \in [Threads -> Places] BY DEF TypeOK
<1>1. CASE \/ Refused(t) \/ syscall_dup2(t) \/ syscall_fcntl(t) \/ ForkCopies(t) \/ ForkEnds(t) \/ PipeGet(t)
           \/ PipeBlocks(t) \/ PipeWoken(t) \/ PipeAborted(t) \/ PipeUnref(t) \/ fcntl_dupfd(t) \/ ForkBegins(t)
           \/ Dup2Stores(t)
      BY <1>0, <1>1 DEF Refused, syscall_dup2, syscall_fcntl, ForkCopies, ForkEnds, PipeGet, PipeBlocks,
         PipeWoken, PipeAborted, PipeUnref, fcntl_dupfd, ForkBegins, Dup2Stores, Returns, Goes, At
<1>2. CASE \/ pipe_read(t) \/ pipe_write(t) \/ pipe_setflflags(t) \/ pipe_dup(t) \/ pipe_close(t)
           \/ syscall_read(t) \/ syscall_write(t) \/ syscall_close(t) \/ syscall_stat(t)
      BY <1>0, <1>2 DEF pipe_read, pipe_write, pipe_setflflags, pipe_dup, pipe_close, PipeDone,
         syscall_read, syscall_write, syscall_close, syscall_stat, Locks, Goes
<1>3. CASE syscall_open(t) \/ syscall_pipe(t) \/ FdGet(t) \/ FdUnref(t) \/ CloseRemoves(t)
      BY <1>0, <1>3 DEF syscall_open, syscall_pipe, FdGet, FdUnref, CloseRemoves, Returns, Goes, At
<1>4. CASE FdCreate(t) BY <1>4, CreateJob DEF Dups
<1>5. CASE Closed(t) BY <1>5, ClosedJob DEF Closing
<1> QED BY <1>1, <1>2, <1>3, <1>4, <1>5 DEF Continue

(* As long as no two threads close the same descriptor at once, a close that
   has copied its descriptor finds it in its place. *)
LEMMA ClosersStep ==
    ASSUME TypeOK, JobsSound, running \subseteq UserThreads, ArraysSound, ClosersSound, OneCloser, Next
    PROVE  ClosersSound'
<1>1. SUFFICES ASSUME NEW u \in Threads, pc'[u] \in {"copied", "remove"}
               PROVE  Present(file_descriptors'[job'[u].fd]) /\ file_descriptors'[job'[u].fd].intern = job'[u].intern
      BY DEF ClosersSound, Fd
<1>2. ASSUME UNCHANGED file_descriptors, pc'[u] = pc[u], job'[u] = job[u]
      PROVE  Present(file_descriptors'[job'[u].fd]) /\ file_descriptors'[job'[u].fd].intern = job'[u].intern
      BY <1>1, <1>2 DEF ClosersSound, Fd
<1>3. CASE \E t \in Threads : Program(t)
  <2>1. PICK t \in Threads : Program(t) BY <1>3
  <2>2. JobStep(t) /\ pc'[t] = "lock" BY <2>1, EnterCases, EnterJob
  <2>3. UNCHANGED file_descriptors BY <2>1, EnterCases DEF Enter, arrays
  <2> QED BY <1>1, <1>2, <2>2, <2>3 DEF JobStep, Acts
<1>4. CASE \E t \in Threads : Continue(t)
  <2>1. PICK t \in Threads : Continue(t) BY <1>4
  <2>2. CASE u # t
    <3>1. pc'[u] = pc[u] /\ job'[u] = job[u] BY <2>1, <2>2, ContinueJob DEF JobStep, Acts
    <3>2. PICK a \in Fds : a = job[u].fd BY <1>1, <3>1, Known DEF JobSound, Closers
    <3>3. Present(file_descriptors[a]) /\ file_descriptors[a].intern = job[u].intern
          BY <1>1, <3>1, <3>2 DEF ClosersSound, Fd
    <3>4. ~(CloseRemoves(t) /\ Fd(t) = a) BY <1>1, <2>2, <3>1, <3>2 DEF OneCloser, Fd, CloseRemoves, At
    <3>5. Keeps(a) BY <2>1, <3>4, PresentKept
    <3> QED BY <3>1, <3>2, <3>3, <3>5 DEF Keeps
  <2>3. CASE u = t /\ close(t)
    <3>1. PICK a \in Fds : a = Fd(t) BY <2>3, CopiesJob
    <3>2. Present(file_descriptors[a]) BY <1>1, <2>3, <3>1, CopiesJob
    <3>3. job'[t] = [job[t] EXCEPT !.intern = file_descriptors[a].intern] BY <2>3, <3>1, <3>2, CopiesJob
    <3>4. job'[t].fd = a /\ job'[t].intern = file_descriptors[a].intern
      <4>1. job[t] \in Jobs BY Known
      <4> QED BY <3>1, <3>3, <4>1 DEF Jobs, Fd
    <3>5. Keeps(a) BY <2>1, <2>3, PresentKept DEF close, CloseRemoves, At
    <3> QED BY <2>3, <3>2, <3>4, <3>5 DEF Keeps
  <2>4. CASE u = t /\ CloseUnref(t)
    <3>1. PICK a \in Fds : a = Fd(t) BY <2>4, CloseUnrefJob
    <3>2. pc[t] = "copied" /\ job'[t] = job[t] BY <2>4, CloseUnrefJob
    <3>3. Present(file_descriptors[a]) /\ file_descriptors[a].intern = job[t].intern
          BY <3>1, <3>2 DEF ClosersSound
    <3>4. Keeps(a) BY <2>1, <3>2, PresentKept DEF CloseRemoves, At
    <3> QED BY <2>4, <3>1, <3>2, <3>3, <3>4 DEF Keeps, Fd
  <2> QED BY <1>1, <2>1, <2>2, <2>3, <2>4, LandsInClose
<1>5. CASE Monitor
  <2>1. CASE MonitorKills BY <1>2, <2>1 DEF MonitorKills, arrays
  <2>2. CASE ExitCloses
    <3>1. JobStep(Urm) /\ pc'[Urm] \in {"exit", "close"} /\ UNCHANGED file_descriptors
          BY <2>2, ExitClosesJob DEF ExitCloses, arrays
    <3> QED BY <1>1, <1>2, <3>1 DEF JobStep, Acts
  <2>3. CASE ExitEnds
    <3>1. JobStep(Urm) /\ pc'[Urm] = "user" /\ UNCHANGED file_descriptors
          BY <2>3, ReturnJob, Bounds DEF ExitEnds, arrays
    <3> QED BY <1>1, <1>2, <3>1 DEF JobStep, Acts
  <2> QED BY <1>5, <2>1, <2>2, <2>3 DEF Monitor
<1>6. CASE \E p \in Procs : HandlerStarts(p) \/ ExitBegins(p)
      BY <1>2, <1>6 DEF HandlerStarts, ExitBegins, arrays
<1> QED BY <1>3, <1>4, <1>5, <1>6 DEF Next

-----------------------------------------------------------------------------
(***************************************************************************)
(* The handles, their locks, and the processes                              *)
(***************************************************************************)
HandlesTyped ==
    /\ file_handles \in [Procs -> [Handles -> Fds \cup {-1}]]
    /\ file_handles_lock \in [Procs -> Threads \cup {NoThread}]
PeopleTyped ==
    /\ program \in Programs /\ alive \subseteq Procs /\ running \subseteq UserThreads
    /\ event_abrt \subseteq Threads /\ victim \in Procs \cup {0} /\ next \in Nat /\ fault \in BOOLEAN

(* A handle that is set, a lock that is taken or released. *)
LEMMA HandleSet ==
    ASSUME HandlesTyped, NEW p \in Procs, NEW h \in Handles, NEW d \in Fds \cup {-1}
    PROVE  [file_handles EXCEPT ![p][h] = d] \in [Procs -> [Handles -> Fds \cup {-1}]]
  BY DEF HandlesTyped

(* A lock that is taken or released is still a lock. *)
LEMMA LockSet ==
    ASSUME HandlesTyped, NEW t \in Threads
    PROVE  /\ \A p \in Procs : [file_handles_lock EXCEPT ![p] = t] \in [Procs -> Threads \cup {NoThread}]
           /\ ReleasesIfHeld(t) => file_handles_lock' \in [Procs -> Threads \cup {NoThread}]
  BY DEF HandlesTyped, ReleasesIfHeld

(* Every step keeps the types of the tables and their locks. *)
LEMMA HandlesStep ==
    ASSUME TypeOK, JobsSound, NEW t \in Threads, Continue(t)
    PROVE  HandlesTyped'
<1>0. HandlesTyped BY DEF TypeOK, HandlesTyped
<1>a. job[t] \in Jobs /\ JobSound(t) /\ (t # Urm => t[1] \in Procs) BY Known
<1>b. UNCHANGED <<file_handles, file_handles_lock>> => HandlesTyped' BY <1>0 DEF HandlesTyped
<1>1. CASE \/ Refused(t) \/ syscall_dup2(t) \/ syscall_fcntl(t) \/ ForkCopies(t) \/ ForkEnds(t) \/ FdGet(t)
           \/ PipeGet(t) \/ PipeBlocks(t) \/ PipeWoken(t) \/ PipeAborted(t) \/ PipeUnref(t) \/ close(t)
           \/ CloseUnref(t) \/ CloseRemoves(t)
      BY <1>1, <1>b DEF Refused, syscall_dup2, syscall_fcntl, ForkCopies, ForkEnds, FdGet, PipeGet, PipeBlocks,
         PipeWoken, PipeAborted, PipeUnref, close, CloseUnref, CloseRemoves
<1>2. CASE pipe_read(t) \/ pipe_write(t) \/ pipe_setflflags(t) \/ pipe_dup(t) \/ pipe_close(t)
      BY <1>2, <1>b DEF pipe_read, pipe_write, pipe_setflflags, pipe_dup, pipe_close, PipeDone
<1>3. CASE syscall_read(t) \/ syscall_write(t) \/ syscall_close(t) \/ syscall_stat(t)
  <2>1. PICK call \in {"read", "write", "stat", "close"}, place \in {"fd", "close"} : Locks(t, call, place)
        BY <1>3 DEF syscall_read, syscall_write, syscall_close, syscall_stat
  <2>2. t # Urm BY <1>3, LocksJob DEF syscall_read, syscall_write, syscall_close, syscall_stat
  <2>3. UNCHANGED file_handles /\ file_handles_lock' = [file_handles_lock EXCEPT ![t[1]] = t]
        BY <2>1 DEF Locks
  <2> QED BY <1>0, <1>a, <2>2, <2>3, LockSet DEF HandlesTyped
<1>4. CASE syscall_open(t)
  <2>1. PICK h \in Handles, d \in Fds : file_handles' = [file_handles EXCEPT ![t[1]][h] = d]
        BY <1>4 DEF syscall_open
  <2>2. t # Urm /\ UNCHANGED file_handles_lock BY <1>4, OpenJob DEF syscall_open
  <2> QED BY <1>0, <1>a, <2>1, <2>2, HandleSet DEF HandlesTyped
<1>5. CASE syscall_pipe(t)
  <2>1. PICK i \in Pipes, r, w \in Fds, hr, hw \in Handles :
            /\ First(i, FreePipes) /\ First(r, FreeFds) /\ First(w, FreeFds \ {r})
            /\ First(hr, FreeHandles(t[1])) /\ First(hw, FreeHandles(t[1]) \ {hr})
            /\ pipes' = [pipes EXCEPT ![i] = NewPipe]
            /\ leaked' = [leaked EXCEPT ![i] = 0]
            /\ file_descriptors' = [d \in Fds |->
                   IF d \in {r, w} THEN [refcount |-> 1, present |-> TRUE, intern |-> i]
                   ELSE file_descriptors[d]]
            /\ file_handles' = [file_handles EXCEPT ![t[1]][hr] = r, ![t[1]][hw] = w]
            /\ job' = [job EXCEPT ![t].fd = r, ![t].old = w]
        BY <1>5 DEF syscall_pipe
  <2>2. t # Urm /\ UNCHANGED file_handles_lock BY <1>5, <2>1, PipeJob DEF syscall_pipe
  <2>3. file_handles' \in [Procs -> [Handles -> Fds \cup {-1}]]
        BY ONLY <1>0, <1>a, <2>1, <2>2 DEF HandlesTyped
  <2> QED BY <1>0, <2>2, <2>3 DEF HandlesTyped
<1>6. CASE fcntl_dupfd(t)
  <2>1. t # Urm BY <1>6, <1>a DEF fcntl_dupfd, At, JobSound
  <2>2. /\ UNCHANGED file_handles
        /\ UNCHANGED file_handles_lock \/ file_handles_lock' = [file_handles_lock EXCEPT ![t[1]] = t]
        BY <1>6 DEF fcntl_dupfd
  <2> QED BY <1>0, <1>a, <2>1, <2>2, LockSet DEF HandlesTyped
<1>7. CASE ForkBegins(t)
  <2>1. PICK c \in Procs : file_handles' = [file_handles EXCEPT ![c] = [h \in Handles |-> -1]]
        BY <1>7 DEF ForkBegins, FreeProcs
  <2>2. UNCHANGED file_handles_lock BY <1>7 DEF ForkBegins
  <2> QED BY <1>0, <2>1, <2>2 DEF HandlesTyped
<1>8. CASE FdUnref(t)
  <2>1. UNCHANGED file_handles /\ (UNCHANGED file_handles_lock \/ ReleasesIfHeld(t)) BY <1>8 DEF FdUnref
  <2> QED BY <1>0, <2>1, LockSet DEF HandlesTyped
<1>9. CASE FdCreate(t)
  <2>1. t # Urm /\ job[t].call \in Dups /\ pc[t] = "create" BY <1>9, CreateJob
  <2>2. CASE file_descriptors[Fd(t)] = NULL BY <1>9, <1>b, <2>2 DEF FdCreate
  <2>3. CASE file_descriptors[Fd(t)] # NULL
    <3>1. PICK d \in Fds :
              /\ job[t].call = "dup2" => UNCHANGED <<file_handles, file_handles_lock>>
              /\ job[t].call = "dupfd" =>
                    ReleasesIfHeld(t) /\ file_handles' = [file_handles EXCEPT ![t[1]][job[t].new] = d]
              /\ job[t].call = "fork" =>
                    /\ file_handles' = [file_handles EXCEPT ![job[t].new][job[t].h] = d]
                    /\ UNCHANGED file_handles_lock
          BY <1>9, <2>3, CreateJob
    <3>2. CASE job[t].call = "dup2" BY <1>b, <3>1, <3>2
    <3>3. CASE job[t].call = "dupfd"
      <4>1. job[t].new \in Handles /\ t[1] \in Procs BY <1>a, <2>1, <3>3 DEF JobSound
      <4>2. file_handles' \in [Procs -> [Handles -> Fds \cup {-1}]] BY <1>0, <3>1, <3>3, <4>1, HandleSet
      <4>3. file_handles_lock' \in [Procs -> Threads \cup {NoThread}] BY <1>0, <3>1, <3>3, LockSet
      <4> QED BY <4>2, <4>3 DEF HandlesTyped
    <3>4. CASE job[t].call = "fork"
      <4>1. job[t].new \in Procs /\ job[t].h \in Handles BY <1>a, <2>1, <3>4 DEF JobSound
      <4> QED BY <1>0, <3>1, <3>4, <4>1, HandleSet DEF HandlesTyped
    <3> QED BY <2>1, <3>2, <3>3, <3>4 DEF Dups
  <2> QED BY <2>2, <2>3
<1>10. CASE Dup2Stores(t)
  <2>1. t # Urm /\ job[t].fd \in Fds /\ job[t].new \in Handles BY <1>10, StoresJob
  <2>2. file_handles' = [file_handles EXCEPT ![t[1]][job[t].new] = job[t].fd] /\ UNCHANGED file_handles_lock
        BY <1>10 DEF Dup2Stores, Fd
  <2> QED BY <1>0, <1>a, <2>1, <2>2, HandleSet DEF HandlesTyped
<1>11. CASE Closed(t)
  <2>1. CASE job[t].call = "close"
    <3>1. /\ t # Urm /\ job[t].h \in Handles /\ ReleasesIfHeld(t)
          /\ file_handles' = [file_handles EXCEPT ![t[1]][job[t].h] = -1]
          BY <1>11, <2>1, ClosedJob
    <3> QED BY <1>0, <1>a, <3>1, HandleSet, LockSet DEF HandlesTyped
  <2>2. CASE job[t].call # "close" BY <1>11, <1>b, <2>2, ClosedJob DEF Closing
  <2> QED BY <2>1, <2>2
<1> QED BY <1>1, <1>2, <1>3, <1>4, <1>5, <1>6, <1>7, <1>8, <1>9, <1>10, <1>11 DEF Continue

(* Every step keeps the types of what is known about processes and threads. *)
LEMMA PeopleStep ==
    ASSUME TypeOK, JobsSound, PeopleTyped, Next
    PROVE  PeopleTyped'
<1>1. UNCHANGED people /\ fault' \in BOOLEAN => PeopleTyped' BY DEF PeopleTyped, people
<1>2. ASSUME NEW t \in Threads, Program(t) PROVE PeopleTyped'
      BY <1>1, <1>2, EnterCases DEF Enter, PeopleTyped
<1>3. ASSUME NEW t \in Threads, Continue(t), ~ForkEnds(t) PROVE UNCHANGED people /\ fault' \in BOOLEAN
  <2>0. fault \in BOOLEAN BY DEF PeopleTyped
  <2>1. CASE \/ Refused(t) \/ syscall_dup2(t) \/ syscall_fcntl(t) \/ ForkCopies(t) \/ FdGet(t)
             \/ PipeGet(t) \/ PipeBlocks(t) \/ PipeWoken(t) \/ PipeAborted(t) \/ PipeUnref(t) \/ close(t)
             \/ CloseUnref(t) \/ CloseRemoves(t)
        BY <2>0, <2>1 DEF Refused, syscall_dup2, syscall_fcntl, ForkCopies, FdGet, PipeGet, PipeBlocks,
           PipeWoken, PipeAborted, PipeUnref, close, CloseUnref, CloseRemoves
  <2>2. CASE pipe_read(t) \/ pipe_write(t) \/ pipe_setflflags(t) \/ pipe_dup(t) \/ pipe_close(t)
        BY <2>0, <2>2 DEF pipe_read, pipe_write, pipe_setflflags, pipe_dup, pipe_close, PipeDone
  <2>3. CASE syscall_read(t) \/ syscall_write(t) \/ syscall_close(t) \/ syscall_stat(t)
        BY <2>0, <2>3 DEF syscall_read, syscall_write, syscall_close, syscall_stat, Locks
  <2>4. CASE syscall_open(t) \/ syscall_pipe(t) \/ fcntl_dupfd(t) \/ ForkBegins(t)
        BY <2>0, <2>4 DEF syscall_open, syscall_pipe, fcntl_dupfd, ForkBegins
  <2>5. CASE FdUnref(t) \/ FdCreate(t) \/ Dup2Stores(t) \/ Closed(t)
        BY <2>0, <2>5 DEF FdUnref, FdCreate, Dup2Stores, Closed
  <2> QED BY <1>3, <2>1, <2>2, <2>3, <2>4, <2>5 DEF Continue
<1>4. ASSUME NEW t \in Threads, ForkEnds(t) PROVE PeopleTyped'
  <2>1. JobSound(t) /\ pc[t] = "fork" BY <1>4, Known DEF ForkEnds, At
  <2>2. job[t].new \in Procs BY <2>1 DEF JobSound
  <2>3. <<job[t].new, 0>> \in UserThreads BY <2>2, DescriptorsAssumption DEF UserThreads
  <2> QED BY <1>4, <2>2, <2>3 DEF ForkEnds, PeopleTyped
<1>5. ASSUME NEW p \in Procs, HandlerStarts(p) PROVE PeopleTyped'
  <2>1. PICK i \in Tids : running' = running \cup {<<p, i>>} BY <1>5 DEF HandlerStarts
  <2>2. <<p, i>> \in UserThreads BY DEF UserThreads
  <2> QED BY <1>5, <2>1, <2>2 DEF HandlerStarts, PeopleTyped
<1>6. ASSUME NEW p \in Procs, ExitBegins(p) PROVE PeopleTyped'
      BY <1>6 DEF ExitBegins, PeopleTyped
<1>7. ASSUME MonitorKills PROVE PeopleTyped'
  <2>1. running' \subseteq running /\ event_abrt' \subseteq event_abrt \cup running
        /\ (next' = next \/ next' = next + 1) /\ UNCHANGED <<program, alive, victim, fault>>
        BY <1>7 DEF MonitorKills
  <2>2. running \subseteq Threads BY Bounds DEF PeopleTyped
  <2> QED BY <2>1, <2>2 DEF PeopleTyped
<1>8. ASSUME ExitCloses PROVE PeopleTyped' BY <1>1, <1>8 DEF ExitCloses, PeopleTyped
<1>9. ASSUME ExitEnds PROVE PeopleTyped' BY <1>9 DEF ExitEnds, PeopleTyped
<1> QED BY <1>1, <1>2, <1>3, <1>4, <1>5, <1>6, <1>7, <1>8, <1>9 DEF Next, Monitor

-----------------------------------------------------------------------------
(* The type, part by part. *)
LEMMA TypeParts ==
    /\ TypeOK /\ running \subseteq UserThreads <=>
          /\ HandlesTyped /\ ArraysTyped /\ PeopleTyped
          /\ pc \in [Threads -> Places] /\ job \in [Threads -> Jobs]
    /\ (TypeOK /\ running \subseteq UserThreads <=>
          /\ HandlesTyped /\ ArraysTyped /\ PeopleTyped
          /\ pc \in [Threads -> Places] /\ job \in [Threads -> Jobs])'
<1>1. running \subseteq UserThreads => running \subseteq Threads BY Bounds
<1>2. running' \subseteq UserThreads => running' \subseteq Threads BY Bounds
<1> QED BY <1>1, <1>2 DEF TypeOK, HandlesTyped, ArraysTyped, PeopleTyped

(* The counts, the jobs and the bytes are kept by every step. *)
LEMMA CountsStep ==
    ASSUME CountsInv, OneCloser, [Next]_vars
    PROVE  CountsInv'
<1>0. /\ TypeOK /\ running \subseteq UserThreads /\ JobsSound /\ ArraysSound /\ PeopleTyped /\ HandlesTyped
      /\ ClosersSound
      BY TypeParts DEF CountsInv, ArraysSound
<1>1. CASE Next
  <2>1. JobsSound' /\ pc' \in [Threads -> Places] /\ job' \in [Threads -> Jobs] BY <1>0, <1>1, JobsStep
  <2>2. ArraysSound' BY <1>0, <1>1, ArraysStep
  <2>3. PeopleTyped' BY <1>0, <1>1, PeopleStep
  <2>4. HandlesTyped'
    <3>1. UNCHANGED <<file_handles, file_handles_lock>> => HandlesTyped' BY <1>0 DEF HandlesTyped
    <3>2. ASSUME NEW t \in Threads, Program(t) PROVE HandlesTyped' BY <3>1, <3>2, EnterCases DEF Enter
    <3>3. ASSUME NEW p \in Procs, HandlerStarts(p) \/ ExitBegins(p) PROVE HandlesTyped'
          BY <3>1, <3>3 DEF HandlerStarts, ExitBegins
    <3>4. CASE ExitEnds
      <4>1. /\ file_handles' = [file_handles EXCEPT ![victim] = [h \in Handles |-> -1]]
            /\ UNCHANGED file_handles_lock
            BY <3>4 DEF ExitEnds
      <4> QED BY <1>0, <4>1 DEF HandlesTyped
    <3>5. CASE MonitorKills \/ ExitCloses BY <3>1, <3>5 DEF MonitorKills, ExitCloses
    <3> QED BY <1>0, <1>1, <3>2, <3>3, <3>4, <3>5, HandlesStep DEF Next, Monitor
  <2>5. ClosersSound' BY <1>0, <1>1, ClosersStep
  <2> QED BY <2>1, <2>2, <2>3, <2>4, <2>5, TypeParts DEF CountsInv, ArraysSound
<1>2. CASE UNCHANGED vars
  <2>1. TypeOK' /\ running' \subseteq UserThreads BY <1>0, <1>2 DEF TypeOK, vars
  <2>2. JobsSound' BY <1>0, <1>2 DEF JobsSound, JobSound, vars
  <2>3. RefsSound' /\ EndsSound' /\ BytesSound' BY <1>0, <1>2, ArraysSame DEF vars, ArraysSound
  <2>4. ClosersSound' BY <1>0, <1>2 DEF ClosersSound, Fd, vars
  <2> QED BY <2>1, <2>2, <2>3, <2>4 DEF CountsInv
<1> QED BY <1>1, <1>2

(* At first there is nothing to count. *)
LEMMA CountsInit == Init => CountsInv
<1> SUFFICES ASSUME Init PROVE CountsInv OBVIOUS
<1>1. TypeOK /\ running \subseteq UserThreads
  <2>1. <<1, 0>> \in UserThreads BY DescriptorsAssumption DEF UserThreads
  <2>2. NoJob \in Jobs /\ "user" \in Places /\ UserThreads \subseteq Threads BY Bounds DEF Places
  <2> QED BY <2>1, <2>2, DescriptorsAssumption DEF Init, TypeOK
<1>2. \A t \in Threads : pc[t] = "user" /\ job[t] = NoJob BY DEF Init
<1>3. JobsSound BY <1>2 DEF JobsSound, JobSound, Closers, NoJob, ByHandle, Calls, Closing, Dups
<1>4. /\ \A d \in Fds : file_descriptors[d] = NULL
      /\ \A i \in Pipes : pipes[i] = NULL
      BY DEF Init
<1>5. RefsSound /\ BytesSound
      BY <1>2, <1>4 DEF RefsSound, FdRefs, PipeRefs, FdUsers, PipeUsers, FdPlaces, PipePlaces, BytesSound, BytesOK
<1>6. ASSUME NEW i \in Pipes PROVE Ends(i) = EndsOf(i)
  <2>1. OpenEnds(i) = {} BY <1>4 DEF OpenEnds, Present
  <2>2. DupEnds(i) = {} /\ CloseEnds(i) = {} BY <1>2 DEF DupEnds, CloseEnds
  <2>3. Cardinality({}) = 0 BY FS_EmptySet
  <2> QED BY <1>4, <2>1, <2>2, <2>3 DEF Ends, EndsOf, Present
<1>7. ClosersSound BY <1>2 DEF ClosersSound
<1> QED BY <1>1, <1>3, <1>5, <1>6, <1>7 DEF CountsInv, EndsSound

(* The counts say what the properties ask. *)
LEMMA CountsImplied == CountsInv => CountsExact /\ BytesInOrder /\ TypeOK
<1> SUFFICES ASSUME CountsInv PROVE CountsExact /\ BytesInOrder /\ TypeOK OBVIOUS
<1>1. EndsCounted
  <2>1. ASSUME NEW i \in Pipes, Present(pipes[i]) PROVE pipes[i].refcount = Ends(i)
        BY <2>1 DEF CountsInv, EndsSound, EndsOf
  <2> QED BY <2>1 DEF EndsCounted, Ends, OpenEnds, DupEnds, CloseEnds
<1>2. RefsExact
  <2>1. ASSUME NEW d \in Fds, file_descriptors[d] # NULL
        PROVE  file_descriptors[d].refcount =
                   (IF file_descriptors[d].present THEN 1 ELSE 0)
                   + Cardinality({t \in Threads : Fd(t) = d /\ pc[t] \in {"copied", "pipe", "op", "wait", "unref", "put"}})
        BY <2>1 DEF CountsInv, RefsSound, FdRefs, FdUsers, FdPlaces, One
  <2>2. ASSUME NEW i \in Pipes, pipes[i] # NULL
        PROVE  pipes[i].refs =
                   (IF pipes[i].present THEN 1 ELSE 0) + leaked[i]
                   + Cardinality({t \in Threads : job[t].intern = i /\ pc[t] \in {"op", "wait", "unref"}})
        BY <2>2 DEF CountsInv, RefsSound, PipeRefs, PipeUsers, PipePlaces, One
  <2> QED BY <2>1, <2>2 DEF RefsExact
<1>3. BytesInOrder BY DEF CountsInv, BytesSound, BytesOK, BytesInOrder
<1> QED BY <1>1, <1>2, <1>3 DEF CountsExact, CountsInv

(* As long as no two threads close the same descriptor at once (fd.c: close
   looks it up, gives it back and removes it in three critical sections), and
   whatever else the programs do: the counts of ends of every pipe and of
   references to every descriptor and pipe are exact; what is read is what was
   written in order until a read is short or a pipe holds more than a page;
   and all state keeps its type. *)
THEOREM CountsAlwaysExact == Spec /\ []OneCloser => [](CountsExact /\ BytesInOrder /\ TypeOK)
<1>1. Init => CountsInv BY CountsInit
<1>2. CountsInv /\ OneCloser /\ [Next]_vars => CountsInv' BY CountsStep
<1>3. CountsInv => CountsExact /\ BytesInOrder /\ TypeOK BY CountsImplied
<1> QED BY <1>1, <1>2, <1>3, PTL DEF Spec

-----------------------------------------------------------------------------
(***************************************************************************)
(* Readers asleep                                                           *)
(***************************************************************************)

(* No two threads read from the same pipe at once.  With two, a token that was
   meant for one is taken by the other. *)
OneReader ==
    \A t, u \in Threads :
        /\ job[t].call = "read" /\ job[u].call = "read"
        /\ job[t].intern \in Pipes /\ job[t].intern = job[u].intern
        => t = u

(* A thread falls asleep only in PipeBlocks. *)
LEMMA FallsAsleep ==
    ASSUME TypeOK, JobsSound, NEW t \in Threads, Continue(t), pc'[t] = "wait"
    PROVE  PipeBlocks(t)
<1>1. CASE Refused(t) BY <1>1, ReturnJob DEF Refused
<1>2. CASE syscall_read(t) \/ syscall_write(t) \/ syscall_close(t) \/ syscall_stat(t)
      BY <1>2, LocksJob DEF syscall_read, syscall_write, syscall_close, syscall_stat
<1>3. CASE syscall_pipe(t)
  <2>1. Goes(t, "fd") BY <1>3 DEF syscall_pipe
  <2> QED BY <2>1 DEF Goes, TypeOK
<1>4. CASE fcntl_dupfd(t) BY <1>4, ReturnJob, DupfdJob DEF fcntl_dupfd
<1>5. CASE ForkBegins(t) \/ ForkEnds(t)
  <2>1. pc'[t] \in {"fork", "user"} BY <1>5 DEF ForkBegins, ForkEnds, Returns, Goes, TypeOK
  <2> QED BY <2>1
<1>6. CASE pipe_read(t) \/ pipe_write(t) \/ pipe_setflflags(t) \/ pipe_dup(t)
      BY <1>6, DoneJob DEF pipe_read, pipe_write, pipe_setflflags, pipe_dup, Operates, At
<1>7. CASE PipeWoken(t) BY <1>7, WokenJob DEF PipeWoken, At
<1>8. CASE PipeAborted(t) BY <1>8, WokenJob DEF PipeAborted, At
<1>9. CASE FdGet(t) BY <1>9, FdGetJob
<1>10. CASE FdUnref(t) BY <1>10, FdUnrefJob
<1>11. CASE FdCreate(t) BY <1>11, CreateJob DEF Dups
<1>12. CASE close(t) \/ CloseUnref(t) \/ CloseRemoves(t) BY <1>12, CopiesJob, CloseUnrefJob, LeavesJob
<1>13. CASE Closed(t) BY <1>13, ClosedJob DEF Closing
<1> QED
    BY <1>1, <1>2, <1>3, <1>4, <1>5, <1>6, <1>7, <1>8, <1>9, <1>10, <1>11, <1>12, <1>13, OpenJob, Dup2Job,
       FcntlJob, ForkCopiesJob, PipeGetJob, CloseJob, PipeUnrefJob, StoresJob DEF Continue

(* What others do to the pipe over which t is asleep: they leave the bytes, the
   tokens and its being alone as they are, or they add a token. *)
LEMMA OthersWake ==
    ASSUME CountsInv, OneReader, NEW t \in Threads, NEW u \in Threads, t # u, pc[t] = "wait", Continue(u),
           pipes'[job[t].intern] # NULL
    PROVE  LET e == pipes[job[t].intern]
               new == pipes'[job[t].intern]
           IN  \/ new.event > 0
               \/ new.buffer = e.buffer /\ new.event = e.event /\ (new.refcount = 1 => e.refcount = 1)
<1> DEFINE k == job[t].intern
           e == pipes[k]
           new == pipes'[k]
<1>0. TypeOK /\ JobsSound /\ ArraysSound BY TypeParts DEF CountsInv, ArraysSound
<1>1. k \in Pipes /\ e \in PipeTs /\ e # NULL BY <1>0, Used DEF PipePlaces
<1>2. job[t].call = "read" BY <1>0, Known DEF JobSound
<1>3. pipes \in [Pipes -> PipeTs \cup {NULL}] BY <1>0 DEF TypeOK
<1>4. e.event \in Nat /\ e.refcount \in Nat BY <1>1 DEF PipeTs
<1>5. CASE UNCHANGED pipes BY <1>5
<1>6. CASE syscall_pipe(u)
  <2>1. PICK i \in Pipes, r, w \in Fds, hr, hw \in Handles :
            /\ First(i, FreePipes) /\ First(r, FreeFds) /\ First(w, FreeFds \ {r})
            /\ First(hr, FreeHandles(u[1])) /\ First(hw, FreeHandles(u[1]) \ {hr})
            /\ pipes' = [pipes EXCEPT ![i] = NewPipe]
            /\ leaked' = [leaked EXCEPT ![i] = 0]
            /\ file_descriptors' = [d \in Fds |->
                   IF d \in {r, w} THEN [refcount |-> 1, present |-> TRUE, intern |-> i]
                   ELSE file_descriptors[d]]
            /\ file_handles' = [file_handles EXCEPT ![u[1]][hr] = r, ![u[1]][hw] = w]
            /\ job' = [job EXCEPT ![u].fd = r, ![u].old = w]
        BY <1>6 DEF syscall_pipe
  <2>2. i # k BY <1>1, <2>1 DEF First, FreePipes
  <2> QED BY <1>1, <1>3, <2>1, <2>2
<1>7. ASSUME NEW x, pipes' = [pipes EXCEPT ![job[u].intern] = x],
             job[u].intern = k =>
                \/ x.event > 0
                \/ x.buffer = e.buffer /\ x.event = e.event /\ (x.refcount = 1 => e.refcount = 1)
      PROVE  \/ new.event > 0
             \/ new.buffer = e.buffer /\ new.event = e.event /\ (new.refcount = 1 => e.refcount = 1)
  <2>1. CASE job[u].intern = k
    <3>1. new = x BY <1>1, <1>3, <1>7, <2>1
    <3> QED BY <1>7, <2>1, <3>1
  <2>2. CASE job[u].intern # k
    <3>1. new = e BY <1>1, <1>3, <1>7, <2>2
    <3> QED BY <3>1
  <2> QED BY <2>1, <2>2
<1>8. CASE pipe_read(u) \/ PipeWoken(u) \/ PipeAborted(u)
  <2>1. job[u].call = "read"
    <3>1. CASE pipe_read(u) BY <3>1 DEF pipe_read, Operates
    <3>2. CASE PipeWoken(u) \/ PipeAborted(u) BY <1>0, <3>2, Known DEF PipeWoken, PipeAborted, At, JobSound
    <3> QED BY <1>8, <3>1, <3>2
  <2>2. job[u].intern # k BY <1>1, <1>2, <2>1 DEF OneReader
  <2>3. new = e
    <3>1. CASE pipe_read(u) BY <1>1, <1>3, <2>2, <3>1 DEF pipe_read, PipeDone
    <3>2. CASE PipeWoken(u) BY <1>1, <1>3, <2>2, <3>2 DEF PipeWoken
    <3>3. CASE PipeAborted(u) BY <1>1, <1>3, <2>2, <3>3 DEF PipeAborted
    <3> QED BY <1>8, <3>1, <3>2, <3>3
  <2> QED BY <2>3
<1>9. CASE PipeGet(u)
  <2>1. CASE Present(Pipe(u))
    <3> DEFINE x == [pipes[job[u].intern] EXCEPT !.refs = @ + 1]
    <3>1. job[u].intern \in Pipes BY <1>0, <1>9, PipeGetJob
    <3>2. pipes' = [pipes EXCEPT ![job[u].intern] = x] BY <1>3, <1>9, <2>1, <3>1 DEF PipeGet
    <3>3. [e EXCEPT !.refs = @ + 1].buffer = e.buffer /\ [e EXCEPT !.refs = @ + 1].event = e.event
          /\ [e EXCEPT !.refs = @ + 1].refcount = e.refcount
          BY <1>1 DEF PipeTs
    <3> HIDE DEF k
    <3> QED BY <1>7, <3>2, <3>3
  <2>2. CASE ~Present(Pipe(u)) BY <1>5, <1>9, <2>2 DEF PipeGet
  <2> QED BY <2>1, <2>2
<1>10. CASE pipe_write(u)
  <2> DEFINE f == pipes[job[u].intern]
             x == [f EXCEPT !.sent = @ + job[u].n, !.event = @ + 1, !.buffer = Appended(f, job[u].n),
                       !.order = IF @ = "kept" /\ Len(f.buffer) + job[u].n > PageBytes THEN "overrun" ELSE @]
  <2>1. pipes' = [pipes EXCEPT ![job[u].intern] = x] BY <1>10 DEF pipe_write, PipeDone, Pipe
  <2>2. job[u].intern = k => x.event = e.event + 1 BY <1>1 DEF PipeTs
  <2> HIDE DEF x
  <2> QED BY <1>4, <1>7, <2>1, <2>2
<1>11. CASE pipe_setflflags(u)
  <2> DEFINE f == pipes[job[u].intern]
             x == [f EXCEPT !.flflags = (job[u].n > 0)]
  <2>1. pipes' = [pipes EXCEPT ![job[u].intern] = x] BY <1>11 DEF pipe_setflflags, PipeDone, Pipe
  <2>2. job[u].intern = k => x.event = e.event /\ x.buffer = e.buffer /\ x.refcount = e.refcount
        BY <1>1 DEF PipeTs
  <2> HIDE DEF x
  <2> QED BY <1>4, <1>7, <2>1, <2>2
<1>12. CASE pipe_dup(u)
  <2> DEFINE f == pipes[job[u].intern]
             x == [f EXCEPT !.refcount = @ + 1]
  <2>1. pipes' = [pipes EXCEPT ![job[u].intern] = x] /\ f.refcount > 0
        BY <1>12 DEF pipe_dup, PipeDone, Pipe, Operates
  <2>2. job[u].intern = k => x.event = e.event /\ x.buffer = e.buffer /\ x.refcount = e.refcount + 1
        BY <1>1 DEF PipeTs
  <2>3. job[u].intern = k => x.refcount # 1 BY <1>4, <2>1, <2>2
  <2> HIDE DEF x
  <2> QED BY <1>4, <1>7, <2>1, <2>2, <2>3
<1>13. CASE pipe_close(u)
  <2> DEFINE f == pipes[job[u].intern]
             one == [f EXCEPT !.refcount = @ - 1, !.event = @ + 1]
             last == [f EXCEPT !.refcount = 0, !.present = FALSE, !.refs = @ - 2]
  <2>1. CASE f.refcount > 1
    <3>1. pipes' = [pipes EXCEPT ![job[u].intern] = one] BY <1>13, <2>1 DEF pipe_close, PipeDone, Pipe
    <3>2. job[u].intern = k => one.event = e.event + 1 BY <1>1 DEF PipeTs
    <3> HIDE DEF one
    <3> QED BY <1>4, <1>7, <3>1, <3>2
  <2>2. CASE ~(f.refcount > 1)
    <3> DEFINE x == IF f.refs = 2 THEN NULL ELSE last
    <3>1. pipes' = [pipes EXCEPT ![job[u].intern] = x] BY <1>13, <2>2 DEF pipe_close, Pipe
    <3>2. job[u].intern = k => x = last BY <1>1, <1>3, <3>1
    <3>3. job[u].intern = k => last.event = e.event /\ last.buffer = e.buffer /\ last.refcount = 0
          BY <1>1 DEF PipeTs
    <3> HIDE DEF x, last
    <3> QED BY <1>7, <3>1, <3>2, <3>3
  <2> QED BY <2>1, <2>2
<1>14. CASE PipeUnref(u)
  <2> DEFINE f == pipes[job[u].intern]
             x == UnrefPipe(f)
             less == [f EXCEPT !.refs = @ - 1]
  <2>1. pipes' = [pipes EXCEPT ![job[u].intern] = x]
    <3>1. job[u].intern \in Pipes BY <1>0, <1>14, PipeUnrefJob
    <3> QED BY <1>3, <1>14, <3>1 DEF PipeUnref
  <2>2. job[u].intern = k => x = less BY <1>1, <1>3, <2>1 DEF UnrefPipe
  <2>3. job[u].intern = k => less.event = e.event /\ less.buffer = e.buffer /\ less.refcount = e.refcount
        BY <1>1 DEF PipeTs
  <2> HIDE DEF x, less
  <2> QED BY <1>7, <2>1, <2>2, <2>3
<1>15. CASE \/ Refused(u) \/ syscall_open(u) \/ syscall_dup2(u) \/ syscall_fcntl(u) \/ fcntl_dupfd(u)
            \/ ForkBegins(u) \/ ForkCopies(u) \/ ForkEnds(u) \/ FdGet(u) \/ PipeBlocks(u)
            \/ FdUnref(u) \/ FdCreate(u) \/ Dup2Stores(u) \/ close(u) \/ CloseUnref(u) \/ CloseRemoves(u)
            \/ Closed(u)
       BY <1>5, <1>15 DEF Refused, syscall_open, syscall_dup2, syscall_fcntl, fcntl_dupfd, ForkBegins,
          ForkCopies, ForkEnds, FdGet, PipeBlocks, FdUnref, FdCreate, Dup2Stores, close, CloseUnref,
          CloseRemoves, Closed, arrays
<1>16. CASE syscall_read(u) \/ syscall_write(u) \/ syscall_close(u) \/ syscall_stat(u)
       BY <1>5, <1>16 DEF syscall_read, syscall_write, syscall_close, syscall_stat, Locks, arrays
<1> QED BY <1>6, <1>8, <1>9, <1>10, <1>11, <1>12, <1>13, <1>14, <1>15, <1>16 DEF Continue

(* No step leaves a reader asleep over what it waits for. *)
LEMMA ReaderStep ==
    ASSUME CountsInv, CountsInv', OneReader, ReaderWoken, [Next]_vars
    PROVE  ReaderWoken'
<1>0. TypeOK /\ JobsSound /\ ArraysSound /\ running \subseteq UserThreads
      BY TypeParts DEF CountsInv, ArraysSound
<1>1. SUFFICES ASSUME NEW t \in Threads, pc'[t] = "wait",
                      \/ job'[t].n <= Len(pipes'[job'[t].intern].buffer)
                      \/ pipes'[job'[t].intern].refcount = 1
               PROVE  pipes'[job'[t].intern].event > 0
      BY DEF ReaderWoken, Pipe
<1>2. CASE UNCHANGED <<pc, job, pipes>> BY <1>1, <1>2 DEF ReaderWoken, Pipe
<1>3. ASSUME NEW u \in Threads, Program(u) PROVE pipes'[job'[t].intern].event > 0
  <2>1. JobStep(u) /\ pc'[u] = "lock" BY <1>0, <1>3, EnterCases, EnterJob
  <2>2. UNCHANGED pipes BY <1>3, EnterCases DEF Enter, arrays
  <2>3. pc'[t] = pc[t] /\ job'[t] = job[t] BY <1>1, <2>1 DEF JobStep, Acts
  <2> QED BY <1>1, <2>2, <2>3 DEF ReaderWoken, Pipe
<1>4. ASSUME NEW u \in Threads, Continue(u) PROVE pipes'[job'[t].intern].event > 0
  <2>1. CASE u = t
    <3>1. PipeBlocks(t) BY <1>0, <1>1, <1>4, <2>1, FallsAsleep
    <3>2. ~Enough(t) /\ UNCHANGED <<pipes, job>> BY <3>1 DEF PipeBlocks, arrays
    <3> QED BY <1>1, <3>2 DEF Enough, Pipe
  <2>2. CASE u # t
    <3>2. pc'[t] = pc[t] /\ job'[t] = job[t] BY <1>0, <1>4, <2>2, ContinueJob DEF JobStep, Acts
    <3>3. pipes'[job[t].intern] # NULL
      <4>1. PICK k \in Pipes : k = job[t].intern BY <1>0, <1>1, <3>2, Known DEF JobSound
      <4>2. t \in PipeUsers(k)' BY <1>1, <3>2, <4>1 DEF PipeUsers, PipePlaces
      <4>3. PipeRefs(k)' BY <4>1 DEF CountsInv, RefsSound
      <4>4. pipes'[k] # NULL BY <4>2, <4>3 DEF PipeRefs
      <4> QED BY <4>1, <4>4
    <3>4. \/ pipes'[job[t].intern].event > 0
          \/ /\ pipes'[job[t].intern].buffer = Pipe(t).buffer /\ pipes'[job[t].intern].event = Pipe(t).event
             /\ pipes'[job[t].intern].refcount = 1 => Pipe(t).refcount = 1
          BY <1>1, <1>4, <2>2, <3>2, <3>3, OthersWake DEF Pipe
    <3> QED BY <1>1, <3>2, <3>4 DEF ReaderWoken
  <2> QED BY <2>1, <2>2
<1>5. CASE Monitor
  <2>1. CASE MonitorKills BY <1>2, <2>1 DEF MonitorKills, arrays
  <2>2. CASE ExitCloses \/ ExitEnds
    <3>1. Acts(Urm) /\ pc'[Urm] \in {"exit", "close", "user"} /\ UNCHANGED pipes
          BY <1>0, <2>2, ExitClosesJob, ReturnJob, Bounds DEF ExitEnds, ExitCloses, JobStep, arrays
    <3>2. pc'[t] = pc[t] /\ job'[t] = job[t] BY <1>1, <3>1 DEF Acts
    <3> QED BY <1>1, <3>1, <3>2 DEF ReaderWoken, Pipe
  <2> QED BY <1>5, <2>1, <2>2 DEF Monitor
<1>6. ASSUME NEW p \in Procs, HandlerStarts(p) \/ ExitBegins(p) PROVE pipes'[job'[t].intern].event > 0
      BY <1>2, <1>6 DEF HandlerStarts, ExitBegins, arrays
<1>7. CASE UNCHANGED vars BY <1>2, <1>7 DEF vars
<1> QED BY <1>3, <1>4, <1>5, <1>6, <1>7 DEF Next

(* As long as no two threads read from the same pipe or close the same
   descriptor at once, a reader asleep on a pipe that holds what it wants, or
   whose other end is closed, has a token waiting: writes and closes in any
   order, and duplicates in between, lose no wake-up. *)
THEOREM ReadersWoken == Spec /\ []OneReader /\ []OneCloser => []ReaderWoken
<1>1. Init => CountsInv BY CountsInit
<1>2. CountsInv /\ OneCloser /\ [Next]_vars => CountsInv' BY CountsStep
<1>3. Init => ReaderWoken BY DEF Init, ReaderWoken
<1>4. CountsInv /\ CountsInv' /\ OneReader /\ ReaderWoken /\ [Next]_vars => ReaderWoken' BY ReaderStep
<1> QED BY <1>1, <1>2, <1>3, <1>4, PTL DEF Spec

-----------------------------------------------------------------------------
(***************************************************************************)
(* Owners of descriptors, when calls that use a descriptor without the lock *)
(* of the table do not run beside other calls of their process              *)
(***************************************************************************)

(* Threads in calls belong to processes that are alive, and the monitor closes
   handles when the victim has no threads. *)
ThreadsSound ==
    /\ running \subseteq UserThreads
    /\ \A t \in running : t[1] \in alive
    /\ \A t \in UserThreads : pc[t] # "user" => t \in running
    /\ victim # 0 => victim \in alive /\ \A i \in Tids : i < next => <<victim, i>> \notin running
    /\ pc[Urm] # "user" => victim # 0 /\ next \notin Tids

(* Of two threads of a process in calls, none is in one that uses descriptors
   without the lock. *)
CallsApart ==
    \A t, u \in UserThreads : t # u /\ t[1] = u[1] /\ pc[t] # "user" /\ pc[u] # "user" =>
        job[t].call \notin Unlocked

(* The lock of the table is held from the look-up to the return. *)
Holds(t) ==
    \/ job[t].call \in {"read", "write", "stat", "close"} /\ pc[t] \notin {"user", "lock"}
    \/ job[t].call = "dupfd" /\ pc[t] \notin {"user", "lock", "find"}
LocksSound == \A t \in UserThreads : Holds(t) => file_handles_lock[t[1]] = t

(* A process that fork creates is not alive yet, has one creator, and has the
   handles fork has copied; a process that does not exist has none. *)
Forking(t) == job[t].call = "fork" /\ pc[t] # "lock"
ForksSound ==
    /\ \A t \in UserThreads : Forking(t) => job[t].new \notin alive
    /\ \A t, u \in UserThreads : Forking(t) /\ Forking(u) /\ job[t].new = job[u].new => t = u
    /\ \A p \in Procs \ alive, h \in Handles :
          (\A t \in UserThreads : Forking(t) /\ job[t].new = p => job[t].h <= h) => file_handles[p][h] = -1

(* What a call has looked up stays in the table of its process. *)
LookupSound(t) ==
    LET j == job[t]
        table == file_handles[t[1]]
    IN
    /\ j.call \in {"read", "write", "stat", "setfl", "dupfd", "fork"} /\ j.fd # -1
          /\ pc[t] \notin {"lock", "fork"} => table[j.h] = j.fd
    /\ j.call = "close" /\ pc[t] \in Closers => table[j.h] = j.fd
    /\ j.call = "dup2" /\ pc[t] # "lock" => j.h # j.new /\ table[j.h] = j.old
    /\ j.call = "dup2" /\ pc[t] \in Closers => table[j.new] = j.fd
    /\ j.call = "dup2" /\ pc[t] \notin Closers \cup {"lock", "store"} /\ j.fd # -1 => j.fd = j.old
    /\ j.call = "dupfd" /\ pc[t] \notin {"lock", "find"} => table[j.new] = -1
    /\ j.call = "pipe" /\ pc[t] # "lock" =>
          /\ \E h \in Handles : table[h] = j.fd
          /\ j.old # -1 => \E h \in Handles : table[h] = j.old

LookupsSound ==
    /\ \A t \in UserThreads : LookupSound(t)
    /\ pc[Urm] \in Closers => file_handles[victim][job[Urm].h] = job[Urm].fd

(* Thread t is about to clear or to overwrite handle h of process p, or to store
   descriptor d there. *)
StaleBy(t, p, h) ==
    \/ t[1] = p /\ job[t].call = "close" /\ job[t].h = h /\ IsClose(t)
    \/ /\ t[1] = p /\ job[t].call = "dup2" /\ job[t].new = h
       /\ pc[t] \notin {"user", "lock", "close", "copied", "remove"}
    \/ t = Urm /\ victim = p /\ job[t].call = "exit" /\ (job[t].h > h \/ (job[t].h = h /\ IsClose(t)))
StoresAt(t, p, h, d) == pc[t] = "store" /\ t[1] = p /\ job[t].new = h /\ job[t].fd = d

(* Handle h of process p owns descriptor d, or will. *)
Owns(p, h, d) ==
    \/ file_handles[p][h] = d /\ \A t \in Threads : ~StaleBy(t, p, h)
    \/ \E t \in Threads : StoresAt(t, p, h, d)

(* Every descriptor in the array has one owner, and every handle's is there. *)
OwnersSound ==
    /\ \A d \in Fds, p, q \in Procs, h, k \in Handles :
          Owns(p, h, d) /\ Owns(q, k, d) => p = q /\ h = k
    /\ \A d \in Fds : Present(file_descriptors[d]) <=> \E p \in Procs, h \in Handles : Owns(p, h, d)

OwnersInv ==
    /\ ThreadsSound /\ CallsApart /\ LocksSound /\ ForksSound /\ LookupsSound /\ OwnersSound
    /\ ~fault

(* The process whose handles a thread works on. *)
Proc(t) == IF t = Urm THEN victim ELSE t[1]

(* The other threads on the handles of thread t's process are outside calls, or
   have not begun theirs. *)
Alone(t) == \A u \in Threads \ {t} : Proc(u) = Proc(t) => pc[u] \in {"user", "lock"}

(* A thread that continues is in a call, and has the lock or needs none. *)
LEMMA ContinueBusy ==
    ASSUME NEW t \in Threads, Continue(t)
    PROVE  /\ pc[t] # "user" /\ ~fault
           /\ pc[t] = "lock" => LockFree(t[1]) \/ job[t].call = "fork"
<1>1. CASE Refused(t) BY <1>1 DEF Refused, Calling, At
<1>2. CASE syscall_read(t) \/ syscall_write(t) \/ syscall_close(t) \/ syscall_stat(t)
      BY <1>2 DEF syscall_read, syscall_write, syscall_close, syscall_stat, Locks, Calling, At
<1>3. CASE syscall_open(t) \/ syscall_pipe(t) \/ syscall_dup2(t) \/ syscall_fcntl(t) \/ fcntl_dupfd(t)
      BY <1>3 DEF syscall_open, syscall_pipe, syscall_dup2, syscall_fcntl, fcntl_dupfd, Calling, At
<1>4. CASE ForkBegins(t) \/ ForkCopies(t) \/ ForkEnds(t)
      BY <1>4 DEF ForkBegins, ForkCopies, ForkEnds, At
<1>5. CASE FdGet(t) \/ PipeGet(t) \/ PipeWoken(t) \/ PipeAborted(t) \/ pipe_close(t) \/ PipeUnref(t)
           \/ FdUnref(t) \/ FdCreate(t) \/ Dup2Stores(t) \/ close(t) \/ CloseUnref(t) \/ CloseRemoves(t)
           \/ Closed(t)
      BY <1>5 DEF FdGet, PipeGet, PipeWoken, PipeAborted, pipe_close, PipeUnref, FdUnref, FdCreate,
                  Dup2Stores, close, CloseUnref, CloseRemoves, Closed, At
<1>6. CASE pipe_read(t) \/ PipeBlocks(t) \/ pipe_write(t) \/ pipe_setflflags(t) \/ pipe_dup(t)
      BY <1>6 DEF pipe_read, PipeBlocks, pipe_write, pipe_setflflags, pipe_dup, Operates, At
<1> QED BY <1>1, <1>2, <1>3, <1>4, <1>5, <1>6 DEF Continue

(* When the monitor closes handles, the threads of its victim are gone. *)
LEMMA VictimGone ==
    ASSUME TypeOK, ThreadsSound, victim # 0, next \notin Tids, NEW t \in UserThreads, t[1] = victim
    PROVE  pc[t] = "user" /\ t \notin running
<1>1. t[2] \in Tids /\ t = <<victim, t[2]>> BY Bounds DEF UserThreads
<1>2. next \in Nat /\ t[2] \in Nat BY <1>1, DescriptorsAssumption DEF TypeOK
<1>3. 0 .. t[2] \subseteq Tids BY <1>1, DescriptorsAssumption
<1>4. t[2] < next BY <1>2, <1>3
<1>5. t \notin running BY <1>1, <1>4 DEF ThreadsSound
<1> QED BY <1>5 DEF ThreadsSound

(* A user thread in a call other than with the lock free is in one that needs no
   lock, or holds it. *)
LEMMA HoldsLock ==
    ASSUME TypeOK, JobsSound, NEW t \in UserThreads, pc[t] \notin {"user", "lock"}, job[t].call \notin Unlocked
    PROVE  Holds(t)
<1>1. t \in Threads /\ t # Urm BY Bounds
<1>2. job[t] \in Jobs /\ pc[t] \in Places /\ JobSound(t) BY <1>1, Known
<1>3. job[t].call \in Calls BY <1>1, <1>2 DEF JobSound, Jobs
<1>4. job[t].call # "open" BY <1>1, <1>2, <1>3 DEF JobSound, Places, Closing, Dups, Closers
<1> QED BY <1>3, <1>4 DEF Holds, Calls, Unlocked

(* A thread in a call that has the lock, or needs none, is alone. *)
LEMMA BusyAlone ==
    ASSUME CountsInv, OwnersInv, NEW t \in Threads, pc[t] # "user",
           pc[t] = "lock" => LockFree(t[1]) \/ job[t].call = "fork"
    PROVE  Alone(t)
<1> USE DEF CountsInv, OwnersInv
<1>1. SUFFICES ASSUME NEW u \in Threads \ {t}, Proc(u) = Proc(t), pc[u] \notin {"user", "lock"}
               PROVE  FALSE
      BY DEF Alone
<1>2. pc[t] # "user" /\ (pc[t] = "lock" => LockFree(t[1]) \/ job[t].call = "fork") OBVIOUS
<1>3. CASE t = Urm
  <2>1. victim # 0 /\ next \notin Tids BY <1>2, <1>3 DEF ThreadsSound
  <2>2. u \in UserThreads /\ u[1] = victim BY <1>1, <1>3, Bounds DEF Proc
  <2> QED BY <1>1, <2>1, <2>2, VictimGone
<1>4. CASE u = Urm
  <2>1. victim # 0 /\ next \notin Tids BY <1>1, <1>4 DEF ThreadsSound
  <2>2. t \in UserThreads /\ t[1] = victim BY <1>1, <1>4, Bounds DEF Proc
  <2> QED BY <1>2, <2>1, <2>2, VictimGone
<1>5. CASE t # Urm /\ u # Urm
  <2>1. t \in UserThreads /\ u \in UserThreads /\ t[1] = u[1] /\ t # u BY <1>1, <1>5, Bounds DEF Proc
  <2>2. job[t].call \notin Unlocked /\ job[u].call \notin Unlocked BY <1>1, <1>2, <2>1 DEF CallsApart
  <2>3. Holds(u) BY <1>1, <2>1, <2>2, HoldsLock
  <2>4. file_handles_lock[t[1]] = u BY <2>1, <2>3 DEF LocksSound
  <2>5. u # NoThread BY <1>1, DescriptorsAssumption
  <2>6. CASE pc[t] = "lock" BY <1>2, <2>2, <2>4, <2>5, <2>6 DEF LockFree, Unlocked
  <2>7. CASE pc[t] # "lock"
    <3>1. Holds(t) BY <1>2, <2>1, <2>2, <2>7, HoldsLock
    <3> QED BY <2>1, <2>4, <3>1 DEF LocksSound
  <2> QED BY <2>6, <2>7
<1> QED BY <1>3, <1>4, <1>5

(* The steps of a call are taken by a thread that is alone. *)
LEMMA ContinueAlone ==
    ASSUME CountsInv, OwnersInv, NEW t \in Threads, Continue(t)
    PROVE  Alone(t)
BY BusyAlone, ContinueBusy

(* So are those of the monitor that closes handles. *)
LEMMA MonitorAlone ==
    ASSUME CountsInv, OwnersInv, victim # 0, next \notin Tids
    PROVE  Alone(Urm)
<1>1. SUFFICES ASSUME NEW u \in Threads \ {Urm}, Proc(u) = Proc(Urm) PROVE pc[u] = "user"
      BY DEF Alone
<1>2. u \in UserThreads /\ u[1] = victim BY <1>1, Bounds DEF Proc
<1> QED BY <1>2, VictimGone DEF CountsInv, OwnersInv

(* What thread t alone makes of handle h of its process. *)
OwnsBy(t, p, h, d) ==
    \/ file_handles[p][h] = d /\ ~StaleBy(t, p, h)
    \/ StoresAt(t, p, h, d)

(* A thread works on handles of its own process, within a call. *)
LEMMA StaleBusy ==
    ASSUME JobsSound, NEW t \in Threads, NEW p \in Procs, NEW h, NEW d, StaleBy(t, p, h) \/ StoresAt(t, p, h, d)
    PROVE  Proc(t) = p /\ pc[t] \notin {"user", "lock"}
<1>1. JobSound(t) BY DEF JobsSound
<1>2. Urm[1] = 0 /\ 0 \notin Procs BY DescriptorsAssumption DEF Urm
<1>3. CASE StoresAt(t, p, h, d) BY <1>2, <1>3 DEF StoresAt, Proc
<1>4. CASE StaleBy(t, p, h)
  <2>1. Proc(t) = p BY <1>2, <1>4 DEF StaleBy, Proc
  <2>2. job[t].call # "none" BY <1>4 DEF StaleBy
  <2>3. pc[t] # "user" BY <1>1, <2>2 DEF JobSound, NoJob
  <2>4. pc[t] # "lock" BY <1>1, <1>4 DEF JobSound, StaleBy, IsClose, Calls
  <2> QED BY <2>1, <2>3, <2>4
<1> QED BY <1>3, <1>4

(* The same after a step. *)
LEMMA StaleBusyNext ==
    ASSUME JobsSound', NEW t \in Threads, NEW p \in Procs, NEW h, NEW d,
           StaleBy(t, p, h)' \/ StoresAt(t, p, h, d)', victim' = victim
    PROVE  Proc(t) = p /\ pc'[t] \notin {"user", "lock"}
<1>1. JobSound(t)' BY DEF JobsSound
<1>2. Urm[1] = 0 /\ 0 \notin Procs BY DescriptorsAssumption DEF Urm
<1>3. CASE StoresAt(t, p, h, d)' BY <1>2, <1>3 DEF StoresAt, Proc
<1>4. CASE StaleBy(t, p, h)'
  <2>1. Proc(t) = p BY <1>2, <1>4 DEF StaleBy, Proc
  <2>2. job'[t].call # "none" BY <1>4 DEF StaleBy
  <2>3. pc'[t] # "user" BY <1>1, <2>2 DEF JobSound, NoJob
  <2>4. pc'[t] # "lock" BY <1>1, <1>4 DEF JobSound, StaleBy, IsClose, Calls
  <2> QED BY <2>1, <2>3, <2>4
<1> QED BY <1>3, <1>4

(* A thread that is alone decides who owns what in its process. *)
LEMMA OwnsAlone ==
    ASSUME JobsSound, NEW t \in Threads, Alone(t), NEW h, NEW d, NEW p \in Procs, p = Proc(t)
    PROVE  Owns(p, h, d) <=> OwnsBy(t, p, h, d)
<1>1. ASSUME NEW u \in Threads \ {t} PROVE ~StaleBy(u, p, h) /\ ~StoresAt(u, p, h, d)
      BY StaleBusy DEF Alone
<1> QED BY <1>1 DEF Owns, OwnsBy

(* A step of a thread that is alone leaves the others' claims as they are. *)
LEMMA ClaimsKept ==
    ASSUME NEW t \in Threads, Acts(t), victim' = victim, NEW u \in Threads \ {t}, NEW p, NEW h, NEW d
    PROVE  /\ StaleBy(u, p, h)' <=> StaleBy(u, p, h)
           /\ StoresAt(u, p, h, d)' <=> StoresAt(u, p, h, d)
<1>1. pc'[u] = pc[u] /\ job'[u] = job[u] BY DEF Acts
<1> QED BY <1>1 DEF StaleBy, StoresAt, IsClose, Fd

(* In other processes nothing changes that is not in the table. *)
LEMMA OwnsElsewhere ==
    ASSUME JobsSound, JobsSound', NEW t \in Threads, Acts(t), victim' = victim, NEW p \in Procs, p # Proc(t),
           NEW h, NEW d, file_handles'[p][h] = file_handles[p][h]
    PROVE  Owns(p, h, d)' <=> Owns(p, h, d)
<1>1. \A u \in Threads \ {t} : /\ StaleBy(u, p, h)' <=> StaleBy(u, p, h)
                               /\ StoresAt(u, p, h, d)' <=> StoresAt(u, p, h, d)
      BY ClaimsKept
<1>2. ~StaleBy(t, p, h) /\ ~StoresAt(t, p, h, d) BY StaleBusy
<1>4. ~StaleBy(t, p, h)' /\ ~StoresAt(t, p, h, d)' BY StaleBusyNext
<1>5. Owns(p, h, d) <=> \/ file_handles[p][h] = d /\ \A u \in Threads \ {t} : ~StaleBy(u, p, h)
                        \/ \E u \in Threads \ {t} : StoresAt(u, p, h, d)
      BY <1>2 DEF Owns
<1>6. Owns(p, h, d)' <=> \/ file_handles'[p][h] = d /\ \A u \in Threads \ {t} : ~StaleBy(u, p, h)'
                         \/ \E u \in Threads \ {t} : StoresAt(u, p, h, d)'
      BY <1>4 DEF Owns
<1> QED BY <1>1, <1>5, <1>6

(* The same after a step. *)
LEMMA OwnsAloneNext ==
    ASSUME JobsSound', NEW t \in Threads, Acts(t), victim' = victim, Alone(t), NEW h, NEW d, NEW p \in Procs,
           p = Proc(t)
    PROVE  Owns(p, h, d)' <=> OwnsBy(t, p, h, d)'
<1>1. ASSUME NEW u \in Threads \ {t} PROVE ~StaleBy(u, p, h)' /\ ~StoresAt(u, p, h, d)'
  <2>1. Proc(u) = p => pc'[u] \in {"user", "lock"} BY DEF Alone, Acts
  <2> QED BY <2>1, StaleBusyNext
<1> QED BY <1>1 DEF Owns, OwnsBy

-----------------------------------------------------------------------------
(* A step that changes no owner. *)
LEMMA OwnersQuiet ==
    ASSUME OwnersSound,
           \A d \in Fds : Present(file_descriptors'[d]) <=> Present(file_descriptors[d]),
           \A p \in Procs, h \in Handles, d \in Fds : Owns(p, h, d)' <=> Owns(p, h, d)
    PROVE  OwnersSound'
<1>1. \A d \in Fds, p, q \in Procs, h, k \in Handles : Owns(p, h, d)' /\ Owns(q, k, d)' => p = q /\ h = k
      BY DEF OwnersSound
<1>2. \A d \in Fds : Present(file_descriptors[d])' <=> \E p \in Procs, h \in Handles : Owns(p, h, d)'
      BY DEF OwnersSound, Present
<1> QED BY <1>1, <1>2 DEF OwnersSound

(* A step that gives new descriptors an owner each. *)
LEMMA OwnersGain ==
    ASSUME OwnersSound, NEW G \in SUBSET (Procs \X Handles \X Fds),
           \A x, y \in G : x[3] = y[3] => x = y,
           \A x \in G : ~Present(file_descriptors[x[3]]),
           \A d \in Fds : Present(file_descriptors'[d]) <=> Present(file_descriptors[d]) \/ \E x \in G : x[3] = d,
           \A p \in Procs, h \in Handles, d \in Fds : Owns(p, h, d)' <=> Owns(p, h, d) \/ <<p, h, d>> \in G
    PROVE  OwnersSound'
<1>1. ASSUME NEW d \in Fds, NEW p \in Procs, NEW q \in Procs, NEW h \in Handles, NEW k \in Handles,
             Owns(p, h, d)', Owns(q, k, d)'
      PROVE  p = q /\ h = k
  <2>1. CASE Owns(p, h, d) /\ Owns(q, k, d) BY <2>1 DEF OwnersSound
  <2>2. CASE <<p, h, d>> \in G /\ <<q, k, d>> \in G BY <2>2
  <2>3. CASE Owns(p, h, d) /\ <<q, k, d>> \in G BY <2>3 DEF OwnersSound
  <2>4. CASE Owns(q, k, d) /\ <<p, h, d>> \in G BY <2>4 DEF OwnersSound
  <2> QED BY <1>1, <2>1, <2>2, <2>3, <2>4
<1>2. ASSUME NEW d \in Fds
      PROVE  Present(file_descriptors'[d]) <=> \E p \in Procs, h \in Handles : Owns(p, h, d)'
  <2>1. CASE \E x \in G : x[3] = d
    <3>1. PICK x \in G : x[3] = d BY <2>1
    <3>2. x[1] \in Procs /\ x[2] \in Handles /\ <<x[1], x[2], d>> \in G BY <3>1
    <3> QED BY <2>1, <3>2
  <2>2. CASE ~\E x \in G : x[3] = d
    <3>1. \A p \in Procs, h \in Handles : <<p, h, d>> \notin G BY <2>2
    <3> QED BY <2>2, <3>1 DEF OwnersSound
  <2> QED BY <2>1, <2>2
<1>3. \A d \in Fds : Present(file_descriptors[d])' <=> \E p \in Procs, h \in Handles : Owns(p, h, d)'
      BY <1>2 DEF Present
<1> QED BY <1>1, <1>3 DEF OwnersSound

(* A step that takes a descriptor from its owner. *)
LEMMA OwnersLoss ==
    ASSUME OwnersSound, NEW e,
           \A d \in Fds : Present(file_descriptors'[d]) <=> Present(file_descriptors[d]) /\ d # e,
           \A p \in Procs, h \in Handles, d \in Fds : Owns(p, h, d)' <=> Owns(p, h, d) /\ d # e
    PROVE  OwnersSound'
<1>1. \A d \in Fds, p, q \in Procs, h, k \in Handles : Owns(p, h, d)' /\ Owns(q, k, d)' => p = q /\ h = k
      BY DEF OwnersSound
<1>2. \A d \in Fds : Present(file_descriptors[d])' <=> \E p \in Procs, h \in Handles : Owns(p, h, d)'
      BY DEF OwnersSound, Present
<1> QED BY <1>1, <1>2 DEF OwnersSound

(* A step of thread t, alone on the handles of process p, which is alive. *)
Steps(t, p) ==
    /\ Acts(t) /\ Alone(t) /\ UNCHANGED people /\ p = Proc(t) /\ p \in alive
    /\ t # Urm => t \in running
    /\ t = Urm => victim # 0 /\ next \notin Tids

(* Handles of other processes stay, but for the child's that fork has reached. *)
OthersKept(t, p) ==
    \A q \in Procs \ {p} :
        \/ file_handles'[q] = file_handles[q]
        \/ /\ Forking(t) /\ q = job[t].new
           /\ \A k \in Handles : k < job'[t].h \/ file_handles'[q][k] = file_handles[q][k]

(* Threads, processes and the monitor. *)
LEMMA ThreadsKept ==
    ASSUME ThreadsSound, NEW t \in Threads, NEW p, Steps(t, p)
    PROVE  ThreadsSound'
<1>1. ASSUME NEW u \in UserThreads, pc'[u] # "user" PROVE u \in running
  <2>1. CASE u = t BY <2>1, Bounds DEF Steps
  <2>2. CASE u # t
    <3>1. pc'[u] = pc[u] BY <2>2, Bounds DEF Steps, Acts
    <3> QED BY <1>1, <3>1 DEF ThreadsSound
  <2> QED BY <2>1, <2>2
<1>2. pc'[Urm] # "user" => victim # 0 /\ next \notin Tids
  <2>1. CASE t = Urm BY <2>1 DEF Steps
  <2>2. CASE t # Urm
    <3>1. pc'[Urm] = pc[Urm] BY <2>2, Bounds DEF Steps, Acts
    <3> QED BY <3>1 DEF ThreadsSound
  <2> QED BY <2>1, <2>2
<1> QED BY <1>1, <1>2 DEF ThreadsSound, Steps, people

(* Calls that need to be apart are. *)
LEMMA ApartKept ==
    ASSUME CallsApart, NEW t \in Threads, Acts(t), pc[t] # "user",
           pc'[t] = "user" \/ job'[t].call = job[t].call
    PROVE  CallsApart'
<1>1. ASSUME NEW v \in UserThreads, NEW u \in UserThreads, v # u, v[1] = u[1], pc'[v] # "user", pc'[u] # "user"
      PROVE  job'[v].call \notin Unlocked
  <2>1. v \in Threads /\ u \in Threads BY Bounds
  <2>2. pc[v] # "user" /\ pc[u] # "user" /\ job'[v].call = job[v].call BY <1>1, <2>1 DEF Acts
  <2> QED BY <1>1, <2>2 DEF CallsApart
<1> QED BY <1>1 DEF CallsApart

(* The locks of the tables. *)
LEMMA LocksKept ==
    ASSUME LocksSound, NEW t \in Threads, Acts(t),
           \A u \in UserThreads \ {t} : file_handles_lock[u[1]] = u => file_handles_lock'[u[1]] = u,
           t # Urm /\ Holds(t)' => file_handles_lock'[t[1]] = t
    PROVE  LocksSound'
<1>1. ASSUME NEW u \in UserThreads, Holds(u)' PROVE file_handles_lock'[u[1]] = u
  <2>1. CASE u = t BY <1>1, <2>1, Bounds
  <2>2. CASE u # t
    <3>1. pc'[u] = pc[u] /\ job'[u] = job[u] BY <2>2, Bounds DEF Acts
    <3>2. Holds(u) BY <1>1, <3>1 DEF Holds
    <3> QED BY <2>2, <3>2 DEF LocksSound
  <2> QED BY <2>1, <2>2
<1> QED BY <1>1 DEF LocksSound

(* The children that fork makes. *)
LEMMA ForksKept ==
    ASSUME ForksSound, TypeOK, TypeOK', JobsSound, NEW t \in Threads, NEW p \in Procs, Steps(t, p), OthersKept(t, p),
           Forking(t)' <=> Forking(t),
           Forking(t) => job'[t].new = job[t].new /\ job[t].h <= job'[t].h
    PROVE  ForksSound'
<1>1. alive' = alive /\ Acts(t) /\ p \in alive BY DEF Steps, people
<1>2. \A u \in UserThreads \ {t} : job'[u] = job[u] /\ (Forking(u)' <=> Forking(u))
      BY <1>1, Bounds DEF Acts, Forking
<1>3. \A u \in UserThreads : (Forking(u)' <=> Forking(u)) /\ (Forking(u) => job'[u].new = job[u].new)
      BY <1>2, Bounds
<1>4. ASSUME NEW q \in Procs \ alive, NEW h \in Handles,
             \A u \in UserThreads : Forking(u)' /\ job'[u].new = q => job'[u].h <= h
      PROVE  file_handles'[q][h] = -1
  <2>0. job[t] \in Jobs /\ job'[t] \in Jobs BY DEF TypeOK
  <2>1. job[t].h \in Nat /\ job'[t].h \in Nat /\ h \in Nat
        BY <2>0, Bounds, DescriptorsAssumption DEF Jobs
  <2>2. ASSUME NEW u \in UserThreads, Forking(u), job[u].new = q PROVE job[u].h <= h
    <3>1. job'[u].h <= h BY <1>3, <1>4, <2>2
    <3>2. CASE u = t BY <2>1, <2>2, <3>1, <3>2
    <3>3. CASE u # t BY <1>2, <3>1, <3>3
    <3> QED BY <3>2, <3>3
  <2>3. file_handles[q][h] = -1 BY <2>2 DEF ForksSound
  <2>4. q # p BY <1>1
  <2>5. CASE file_handles'[q] = file_handles[q] BY <2>3, <2>5
  <2>6. CASE /\ Forking(t) /\ q = job[t].new
             /\ \A k \in Handles : k < job'[t].h \/ file_handles'[q][k] = file_handles[q][k]
    <3>0. t \in UserThreads \/ t = Urm BY Bounds
    <3>1. CASE t \in UserThreads
      <4>1. job'[t].h <= h BY <1>3, <1>4, <2>6, <3>1
      <4> QED BY <2>1, <2>3, <2>6, <4>1
    <3>2. CASE t = Urm BY <2>6, <3>2 DEF JobsSound, JobSound, Forking
    <3> QED BY <3>0, <3>1, <3>2
  <2> QED BY <2>4, <2>5, <2>6 DEF OthersKept
<1>5. \A u \in UserThreads : Forking(u)' => job'[u].new \notin alive BY <1>3 DEF ForksSound
<1>6. \A u, v \in UserThreads : Forking(u)' /\ Forking(v)' /\ job'[u].new = job'[v].new => u = v
      BY <1>3 DEF ForksSound
<1> QED BY <1>1, <1>4, <1>5, <1>6 DEF ForksSound

(* A thread that has looked nothing up yet. *)
LEMMA LookupIdle ==
    ASSUME NEW t \in Threads, JobSound(t), pc[t] \in {"user", "lock"}
    PROVE  LookupSound(t)
<1>1. CASE pc[t] = "user"
  <2>1. job[t].call = "none" BY <1>1 DEF JobSound, NoJob
  <2> QED BY <2>1 DEF LookupSound
<1>2. CASE pc[t] = "lock" BY <1>2 DEF LookupSound, JobSound, Closers
<1> QED BY <1>1, <1>2

(* The same after a step. *)
LEMMA LookupIdleNext ==
    ASSUME NEW t \in Threads, JobSound(t)', pc'[t] \in {"user", "lock"}
    PROVE  LookupSound(t)'
<1>1. CASE pc'[t] = "user"
  <2>1. job'[t].call = "none" BY <1>1 DEF JobSound, NoJob
  <2> QED BY <2>1 DEF LookupSound
<1>2. CASE pc'[t] = "lock" BY <1>2 DEF LookupSound, JobSound, Closers
<1> QED BY <1>1, <1>2

(* No thread of a process that fork is creating is in a call. *)
LEMMA ChildIdle ==
    ASSUME TypeOK, ThreadsSound, ForksSound, NEW t \in UserThreads, Forking(t), NEW u \in Threads,
           Proc(u) = job[t].new, job[t].new \in Procs
    PROVE  pc[u] = "user"
<1>1. job[t].new \notin alive BY DEF ForksSound
<1>2. 0 \notin Procs BY DescriptorsAssumption
<1>3. CASE u = Urm BY <1>1, <1>2, <1>3 DEF ThreadsSound, Proc
<1>4. CASE u # Urm
  <2>1. u \in UserThreads /\ u[1] = job[t].new BY <1>4, Bounds DEF Proc
  <2> QED BY <1>1, <2>1 DEF ThreadsSound
<1> QED BY <1>3, <1>4

(* What the other threads have looked up is still there. *)
LEMMA LookupsKept ==
    ASSUME TypeOK, JobsSound, JobsSound', ThreadsSound, ForksSound, LookupsSound,
           NEW t \in Threads, NEW p \in Procs, Steps(t, p), OthersKept(t, p),
           t # Urm => LookupSound(t)',
           t = Urm /\ pc'[Urm] \in Closers => file_handles'[p][job'[Urm].h] = job'[Urm].fd
    PROVE  LookupsSound'
<1>0. Acts(t) /\ Alone(t) /\ p = Proc(t) /\ victim' = victim BY DEF Steps, people
<1>1. ASSUME NEW u \in Threads \ {t}
      PROVE  pc'[u] = pc[u] /\ job'[u] = job[u] /\ JobSound(u)'
      BY <1>0, <1>1 DEF Acts, JobsSound
<1>2. ASSUME NEW u \in Threads \ {t}, pc[u] \notin {"user", "lock"}, Proc(u) \in Procs
      PROVE  file_handles'[Proc(u)] = file_handles[Proc(u)]
  <2>1. Proc(u) # p BY <1>0, <1>2 DEF Alone
  <2>2. ASSUME Forking(t), Proc(u) = job[t].new PROVE FALSE
    <3>1. t # Urm BY <2>2 DEF Forking, JobsSound, JobSound
    <3>2. t \in UserThreads BY <3>1, Bounds
    <3> QED BY <1>2, <2>2, <3>2, ChildIdle
  <2> QED BY <1>2, <2>1, <2>2 DEF OthersKept
<1>3. ASSUME NEW u \in UserThreads PROVE LookupSound(u)'
  <2>1. u \in Threads /\ u # Urm /\ u[1] \in Procs /\ Proc(u) = u[1] BY Bounds DEF Proc
  <2>2. CASE u = t BY <2>1, <2>2
  <2>3. CASE u # t /\ pc[u] \in {"user", "lock"} BY <1>1, <2>1, <2>3, LookupIdleNext
  <2>4. CASE u # t /\ pc[u] \notin {"user", "lock"}
    <3>1. file_handles'[u[1]] = file_handles[u[1]] BY <1>2, <2>1, <2>4
    <3>2. pc'[u] = pc[u] /\ job'[u] = job[u] BY <1>1, <2>1, <2>4
    <3>3. LookupSound(u) BY DEF LookupsSound
    <3> QED BY <3>1, <3>2, <3>3 DEF LookupSound
  <2> QED BY <2>2, <2>3, <2>4
<1>4. ASSUME pc'[Urm] \in Closers PROVE file_handles'[victim][job'[Urm].h] = job'[Urm].fd
  <2>1. CASE t = Urm BY <1>0, <1>4, <2>1 DEF Proc
  <2>2. CASE t # Urm
    <3>1. pc[Urm] \in Closers /\ job'[Urm] = job[Urm] /\ Urm \in Threads \ {t} BY <1>1, <1>4, <2>2, Bounds
    <3>2. victim \in Procs BY <3>1 DEF ThreadsSound, TypeOK, Closers
    <3>3. file_handles'[victim] = file_handles[victim] BY <1>2, <3>1, <3>2 DEF Proc, Closers
    <3> QED BY <3>1, <3>3 DEF LookupsSound
  <2> QED BY <2>1, <2>2
<1> QED BY <1>0, <1>3, <1>4 DEF LookupsSound

(* The parts together, for a step within a call. *)
LEMMA StepSound ==
    ASSUME CountsInv, CountsInv', OwnersInv, NEW t \in Threads, NEW p \in Procs, Steps(t, p), OthersKept(t, p),
           pc[t] # "user" \/ t = Urm,
           pc'[t] = "user" \/ job'[t].call = job[t].call \/ t = Urm,
           \A u \in UserThreads \ {t} : file_handles_lock[u[1]] = u => file_handles_lock'[u[1]] = u,
           t # Urm /\ Holds(t)' => file_handles_lock'[t[1]] = t,
           Forking(t)' <=> Forking(t),
           Forking(t) => job'[t].new = job[t].new /\ job[t].h <= job'[t].h,
           t # Urm => LookupSound(t)',
           t = Urm /\ pc'[Urm] \in Closers => file_handles'[p][job'[Urm].h] = job'[Urm].fd,
           OwnersSound', ~fault'
    PROVE  OwnersInv'
<1> USE DEF CountsInv, OwnersInv
<1>1. ThreadsSound' BY ThreadsKept
<1>2. CallsApart'
  <2>1. CASE t = Urm
    <3>1. \A u \in UserThreads : pc'[u] = pc[u] /\ job'[u] = job[u] BY <2>1, Bounds DEF Steps, Acts
    <3> QED BY <3>1 DEF CallsApart
  <2>2. CASE t # Urm BY <2>2, ApartKept DEF Steps
  <2> QED BY <2>1, <2>2
<1>3. LocksSound' BY LocksKept DEF Steps
<1>4. ForksSound' BY ForksKept
<1>5. LookupsSound' BY LookupsKept
<1> QED BY <1>1, <1>2, <1>3, <1>4, <1>5

(* Who owns what, when the step is one of thread t. *)
LEMMA LocalQuiet ==
    ASSUME JobsSound, JobsSound', OwnersSound, NEW t \in Threads, NEW p \in Procs, Steps(t, p),
           \A q \in Procs \ {p} : file_handles'[q] = file_handles[q],
           \A d \in Fds : Present(file_descriptors'[d]) <=> Present(file_descriptors[d]),
           \A h \in Handles, d \in Fds : OwnsBy(t, p, h, d)' <=> OwnsBy(t, p, h, d)
    PROVE  OwnersSound'
<1>1. Acts(t) /\ Alone(t) /\ victim' = victim /\ p = Proc(t) BY DEF Steps, people
<1>2. ASSUME NEW q \in Procs, NEW h \in Handles, NEW d \in Fds PROVE Owns(q, h, d)' <=> Owns(q, h, d)
  <2>1. CASE q = p BY <1>1, <2>1, OwnsAlone, OwnsAloneNext
  <2>2. CASE q # p BY <1>1, <2>2, OwnsElsewhere
  <2> QED BY <2>1, <2>2
<1> QED BY <1>2, OwnersQuiet

(* The step gives new descriptors an owner each. *)
LEMMA LocalGain ==
    ASSUME JobsSound, JobsSound', OwnersSound, NEW t \in Threads, NEW p \in Procs, Steps(t, p),
           NEW G \in SUBSET ({p} \X Handles \X Fds),
           \A x, y \in G : x[3] = y[3] => x = y,
           \A x \in G : ~Present(file_descriptors[x[3]]),
           \A q \in Procs \ {p} : file_handles'[q] = file_handles[q],
           \A d \in Fds : Present(file_descriptors'[d]) <=> Present(file_descriptors[d]) \/ \E x \in G : x[3] = d,
           \A h \in Handles, d \in Fds : OwnsBy(t, p, h, d)' <=> OwnsBy(t, p, h, d) \/ <<p, h, d>> \in G
    PROVE  OwnersSound'
<1>1. Acts(t) /\ Alone(t) /\ victim' = victim /\ p = Proc(t) BY DEF Steps, people
<1>2. ASSUME NEW q \in Procs, NEW h \in Handles, NEW d \in Fds
      PROVE  Owns(q, h, d)' <=> Owns(q, h, d) \/ <<q, h, d>> \in G
  <2>1. CASE q = p BY <1>1, <2>1, OwnsAlone, OwnsAloneNext
  <2>2. CASE q # p BY <1>1, <2>2, OwnsElsewhere
  <2> QED BY <2>1, <2>2
<1>3. G \in SUBSET (Procs \X Handles \X Fds) OBVIOUS
<1> QED BY <1>2, <1>3, OwnersGain

(* The step takes a descriptor from its owner. *)
LEMMA LocalLoss ==
    ASSUME JobsSound, JobsSound', OwnersSound, NEW t \in Threads, NEW p \in Procs, Steps(t, p),
           NEW k \in Handles, NEW e \in Fds, OwnsBy(t, p, k, e),
           \A q \in Procs \ {p} : file_handles'[q] = file_handles[q],
           \A d \in Fds : Present(file_descriptors'[d]) <=> Present(file_descriptors[d]) /\ d # e,
           \A h \in Handles, d \in Fds : OwnsBy(t, p, h, d)' <=> OwnsBy(t, p, h, d) /\ d # e
    PROVE  OwnersSound'
<1>1. Acts(t) /\ Alone(t) /\ victim' = victim /\ p = Proc(t) BY DEF Steps, people
<1>2. ASSUME NEW q \in Procs, NEW h \in Handles, NEW d \in Fds PROVE Owns(q, h, d)' <=> Owns(q, h, d) /\ d # e
  <2>1. CASE q = p BY <1>1, <2>1, OwnsAlone, OwnsAloneNext
  <2>2. CASE q # p
    <3>1. Owns(p, k, e) BY <1>1, OwnsAlone
    <3>2. ~Owns(q, h, e) BY <2>2, <3>1 DEF OwnersSound
    <3> QED BY <1>1, <2>2, <3>2, OwnsElsewhere
  <2> QED BY <2>1, <2>2
<1> QED BY <1>2, OwnersLoss

-----------------------------------------------------------------------------
(* The steps of a call belong to a process that is alive. *)
LEMMA ContinueSteps ==
    ASSUME CountsInv, OwnersInv, NEW t \in Threads, Continue(t), Acts(t), UNCHANGED people
    PROVE  \E p \in Procs : Steps(t, p)
<1> USE DEF CountsInv, OwnersInv
<1>1. Alone(t) /\ pc[t] # "user" BY ContinueAlone, ContinueBusy
<1>2. CASE t = Urm
  <2>1. victim # 0 /\ next \notin Tids /\ victim \in alive BY <1>1, <1>2 DEF ThreadsSound
  <2>2. victim \in Procs BY <2>1 DEF TypeOK
  <2> QED BY <1>1, <1>2, <2>1, <2>2 DEF Steps, Proc
<1>3. CASE t # Urm
  <2>1. t \in UserThreads /\ t[1] \in Procs BY <1>3, Bounds
  <2>2. t \in running /\ t[1] \in alive BY <1>1, <2>1 DEF ThreadsSound
  <2> QED BY <1>1, <1>3, <2>1, <2>2 DEF Steps, Proc
<1> QED BY <1>2, <1>3

(* The place of thread t in the table and what it has looked up there. *)
LEMMA OwnsLookedUp ==
    ASSUME CountsInv, OwnersInv, NEW t \in Threads, NEW p \in Procs, p = Proc(t),
           pc[t] \in FdPlaces \cup {"fd", "close", "remove", "create"}, Fd(t) # -1
    PROVE  Fd(t) \in Fds /\ \E h \in Handles : OwnsBy(t, p, h, Fd(t))
<1> USE DEF CountsInv, OwnersInv
<1>1. JobSound(t) /\ job[t] \in Jobs BY Known
<1>2. Fd(t) \in Fds BY <1>1 DEF Fd, Jobs
<1>3. CASE t = Urm
  <2>1. pc[t] \in Closers
        BY <1>1, <1>2, <1>3, Bounds DEF JobSound, FdPlaces, Fd, Closers
  <2>2. job[t].call = "exit" /\ job[t].h \in Handles BY <1>1, <1>3, <2>1 DEF JobSound, Closers
  <2>3. file_handles[victim][job[t].h] = Fd(t) /\ p = victim BY <1>3, <2>1 DEF LookupsSound, Fd, Proc
  <2>4. job[t].h \in Nat BY <2>2, Bounds
  <2>5. ~StaleBy(t, p, job[t].h) BY <2>1, <2>2, <2>4 DEF StaleBy, IsClose, Closers
  <2> QED BY <1>2, <2>2, <2>3, <2>5 DEF OwnsBy
<1>4. CASE t # Urm
  <2>1. t \in UserThreads /\ p = t[1] BY <1>4, Bounds DEF Proc
  <2>2. LookupSound(t) BY <2>1 DEF LookupsSound
  <2>3. CASE job[t].call \in {"read", "write", "stat", "setfl", "dupfd", "fork"}
    <3>1. file_handles[p][job[t].h] = Fd(t) BY <2>1, <2>2, <2>3 DEF LookupSound, Fd, FdPlaces
    <3>2. job[t].h \in Handles BY <1>1, <2>3 DEF JobSound, ByHandle, FdPlaces
    <3>3. ~StaleBy(t, p, job[t].h) BY <1>4, <2>3 DEF StaleBy
    <3> QED BY <1>2, <3>1, <3>2, <3>3 DEF OwnsBy
  <2>4. CASE job[t].call = "close"
    <3>1. pc[t] \in Closers BY <1>1, <1>2, <2>4, Bounds DEF JobSound, FdPlaces, Fd, Dups, Closers
    <3>2. file_handles[p][job[t].h] = Fd(t) BY <2>1, <2>2, <2>4, <3>1 DEF LookupSound, Fd
    <3>3. job[t].h \in Handles BY <1>1, <2>4 DEF JobSound, ByHandle
    <3>4. ~StaleBy(t, p, job[t].h) BY <1>4, <2>4, <3>1 DEF StaleBy, IsClose, Closers
    <3> QED BY <1>2, <3>2, <3>3, <3>4 DEF OwnsBy
  <2>5. CASE job[t].call = "dup2"
    <3>1. job[t].h \in Handles /\ job[t].new \in Handles BY <1>1, <2>5 DEF JobSound, ByHandle
    <3>2. job[t].h # job[t].new /\ file_handles[p][job[t].h] = job[t].old
          BY <2>1, <2>2, <2>5 DEF LookupSound, FdPlaces
    <3>3. CASE pc[t] \in Closers
      <4>1. file_handles[p][job[t].new] = Fd(t) BY <2>1, <2>2, <2>5, <3>3 DEF LookupSound, Fd
      <4>2. ~StaleBy(t, p, job[t].new) BY <1>4, <2>5, <3>3 DEF StaleBy, Closers
      <4> QED BY <1>2, <3>1, <4>1, <4>2 DEF OwnsBy
    <3>4. CASE pc[t] \notin Closers
      <4>1. Fd(t) = job[t].old BY <2>2, <2>5, <3>4 DEF LookupSound, Fd, FdPlaces
      <4>2. ~StaleBy(t, p, job[t].h) BY <1>4, <2>5, <3>2 DEF StaleBy
      <4> QED BY <1>2, <3>1, <3>2, <4>1, <4>2 DEF OwnsBy
    <3> QED BY <3>3, <3>4
  <2>6. CASE job[t].call = "pipe"
    <3>1. PICK h \in Handles : file_handles[p][h] = Fd(t)
          BY <2>1, <2>2, <2>6 DEF LookupSound, Fd, FdPlaces
    <3>2. ~StaleBy(t, p, h) BY <1>4, <2>6 DEF StaleBy
    <3> QED BY <1>2, <3>1, <3>2 DEF OwnsBy
  <2>7. job[t].call \in Calls /\ job[t].call # "open"
        BY <1>1, <1>4 DEF JobSound, Jobs, FdPlaces, Closing, Dups, Closers
  <2> QED BY <2>3, <2>4, <2>5, <2>6, <2>7 DEF Calls
<1> QED BY <1>3, <1>4

(* A descriptor that a call has looked up is in the array. *)
LEMMA LookedUpPresent ==
    ASSUME CountsInv, OwnersInv, NEW t \in Threads, NEW p \in Procs, p = Proc(t), Alone(t),
           pc[t] \in FdPlaces \cup {"fd", "close", "remove", "create"}, Fd(t) # -1
    PROVE  Fd(t) \in Fds /\ Present(file_descriptors[Fd(t)])
<1>1. PICK h \in Handles : OwnsBy(t, p, h, Fd(t)) BY OwnsLookedUp
<1>2. Fd(t) \in Fds BY OwnsLookedUp
<1>3. Owns(p, h, Fd(t)) BY <1>1, OwnsAlone DEF CountsInv
<1> QED BY <1>2, <1>3 DEF OwnersInv, OwnersSound

(* So no two threads close the same descriptor. *)
LEMMA ClosersApart ==
    ASSUME CountsInv, OwnersInv
    PROVE  OneCloser
<1> USE DEF CountsInv
<1>1. ASSUME NEW t \in Threads, pc[t] \in {"copied", "remove"}
      PROVE  Alone(t) /\ Proc(t) \in Procs /\ Fd(t) \in Fds /\ \E h \in Handles : Owns(Proc(t), h, Fd(t))
  <2>1. Alone(t) BY <1>1, BusyAlone
  <2>2. PICK p \in Procs : p = Proc(t)
    <3>1. CASE t = Urm
      <4>1. victim # 0 BY <1>1, <3>1 DEF OwnersInv, ThreadsSound
      <4> QED BY <3>1, <4>1 DEF TypeOK, Proc
    <3>2. CASE t # Urm BY <3>2, Bounds DEF Proc
    <3> QED BY <3>1, <3>2
  <2>3. Fd(t) \in Fds BY <1>1 DEF JobsSound, JobSound, Closers, Fd
  <2>4. PICK h \in Handles : OwnsBy(t, p, h, Fd(t)) BY <1>1, <2>2, <2>3, Bounds, OwnsLookedUp DEF FdPlaces
  <2>5. Owns(p, h, Fd(t)) BY <2>1, <2>2, <2>4, OwnsAlone
  <2> QED BY <2>1, <2>2, <2>3, <2>5
<1>2. SUFFICES ASSUME NEW t \in Threads, NEW u \in Threads \ {t}, Fd(t) = Fd(u),
                      pc[t] \in {"copied", "remove"}, pc[u] \in {"copied", "remove"}
               PROVE  FALSE
      BY DEF OneCloser
<1>3. PICK p \in Procs, q \in Procs, e \in Fds : p = Proc(t) /\ q = Proc(u) /\ e = Fd(t) BY <1>1, <1>2
<1>4. p # q BY <1>1, <1>2, <1>3 DEF Alone
<1>5. PICK h \in Handles : Owns(p, h, e) BY <1>1, <1>2, <1>3
<1>6. PICK k \in Handles : Owns(q, k, e) BY <1>1, <1>2, <1>3
<1> QED BY <1>4, <1>5, <1>6 DEF OwnersInv, OwnersSound

(* Within the use of a descriptor nothing changes hands. *)
Inner == (FdPlaces \ {"copied"}) \cup {"fd", "create", "closed"}
LEMMA Moves ==
    ASSUME CountsInv, CountsInv', OwnersInv, NEW t \in Threads, NEW p \in Procs, Steps(t, p),
           UNCHANGED <<file_handles, file_handles_lock, fault>>,
           \A d \in Fds : Present(file_descriptors'[d]) <=> Present(file_descriptors[d]),
           pc[t] \in Inner, pc'[t] \in Inner,
           job'[t].call = job[t].call, job'[t].h = job[t].h, job'[t].new = job[t].new,
           job'[t].fd = job[t].fd, job'[t].old = job[t].old
    PROVE  OwnersInv'
<1> USE DEF CountsInv, OwnersInv
<1>1. JobSound(t) /\ JobSound(t)' BY DEF JobsSound
<1>2. Acts(t) /\ victim' = victim BY DEF Steps, people
<1>3. IsClose(t)' <=> IsClose(t)
  <2>1. CASE job[t].fd = -1
    <3>1. pc[t] \in {"pipe", "op", "unref", "closed"} BY <1>1, <2>1, Bounds DEF JobSound, Closers, Inner, FdPlaces
    <3>2. pc'[t] \in {"pipe", "op", "unref", "closed"} BY <1>1, <2>1, Bounds DEF JobSound, Closers, Inner, FdPlaces
    <3> QED BY <2>1, <3>1, <3>2 DEF IsClose, Fd
  <2>2. CASE job[t].fd # -1 BY <2>2 DEF IsClose, Fd
  <2> QED BY <2>1, <2>2
<1>4. \A h : StaleBy(t, p, h)' <=> StaleBy(t, p, h)
      BY <1>2, <1>3 DEF StaleBy, Inner, FdPlaces
<1>5. \A h, d : ~StoresAt(t, p, h, d)' /\ ~StoresAt(t, p, h, d) BY DEF StoresAt, Inner, FdPlaces
<1>6. \A h \in Handles, d \in Fds : OwnsBy(t, p, h, d)' <=> OwnsBy(t, p, h, d)
      BY <1>4, <1>5 DEF OwnsBy
<1>7. OwnersSound' BY <1>6, LocalQuiet
<1>8. Holds(t)' <=> Holds(t) BY DEF Holds, Inner, FdPlaces
<1>9. Forking(t)' <=> Forking(t) BY DEF Forking, Inner, FdPlaces
<1>10. job[t].h <= job'[t].h
  <2>1. job[t] \in Jobs BY DEF TypeOK
  <2>2. job[t].h \in Nat BY <2>1, DescriptorsAssumption DEF Jobs
  <2> QED BY <2>2
<1>11. OthersKept(t, p) BY DEF OthersKept
<1>12. ASSUME t # Urm PROVE LookupSound(t)' /\ (Holds(t)' => file_handles_lock'[t[1]] = t)
  <2>1. t \in UserThreads BY <1>12, Bounds
  <2>2. LookupSound(t) /\ (Holds(t) => file_handles_lock[t[1]] = t) BY <2>1 DEF LookupsSound, LocksSound
  <2>3. LookupSound(t)' BY <2>2 DEF LookupSound, Inner, FdPlaces, Closers
  <2> QED BY <1>8, <2>2, <2>3
<1>13. pc[t] # "user" /\ pc'[t] \notin Closers BY DEF Inner, FdPlaces, Closers
<1> QED BY <1>7, <1>9, <1>10, <1>11, <1>12, <1>13, StepSound

(* Nor does anything until a close removes its descriptor. *)
LEMMA ClosersMove ==
    ASSUME CountsInv, CountsInv', OwnersInv, NEW t \in Threads, NEW p \in Procs, Steps(t, p),
           UNCHANGED <<file_handles, file_handles_lock, fault>>,
           \A d \in Fds : Present(file_descriptors'[d]) <=> Present(file_descriptors[d]),
           pc[t] \in Closers, pc'[t] \in Closers,
           job'[t].call = job[t].call, job'[t].h = job[t].h, job'[t].new = job[t].new,
           job'[t].fd = job[t].fd, job'[t].old = job[t].old
    PROVE  OwnersInv'
<1> USE DEF CountsInv, OwnersInv
<1>1. JobSound(t) /\ JobSound(t)' BY DEF JobsSound
<1>2. Acts(t) /\ victim' = victim /\ p = Proc(t) BY DEF Steps, people
<1>3. ~IsClose(t) /\ ~IsClose(t)' BY DEF IsClose, Closers
<1>4. \A h : StaleBy(t, p, h)' <=> StaleBy(t, p, h) BY <1>2, <1>3 DEF StaleBy, Closers
<1>5. \A h, d : ~StoresAt(t, p, h, d)' /\ ~StoresAt(t, p, h, d) BY DEF StoresAt, Closers
<1>6. \A h \in Handles, d \in Fds : OwnsBy(t, p, h, d)' <=> OwnsBy(t, p, h, d)
      BY <1>4, <1>5 DEF OwnsBy
<1>7. OwnersSound' BY <1>6, LocalQuiet
<1>8. Holds(t)' <=> Holds(t) BY DEF Holds, Closers
<1>9. job[t].call \in Closing BY <1>1 DEF JobSound
<1>10. ~Forking(t)' /\ ~Forking(t) BY <1>9 DEF Forking, Closing
<1>11. OthersKept(t, p) BY DEF OthersKept
<1>12. ASSUME t # Urm PROVE LookupSound(t)' /\ (Holds(t)' => file_handles_lock'[t[1]] = t)
  <2>1. t \in UserThreads BY <1>12, Bounds
  <2>2. LookupSound(t) /\ (Holds(t) => file_handles_lock[t[1]] = t) BY <2>1 DEF LookupsSound, LocksSound
  <2>3. LookupSound(t)' BY <1>9, <2>2 DEF LookupSound, Closers, Closing
  <2> QED BY <1>8, <2>2, <2>3
<1>13. pc[t] # "user" BY DEF Closers
<1>14. ASSUME t = Urm PROVE file_handles'[p][job'[Urm].h] = job'[Urm].fd
  <2>1. p = victim BY <1>2, <1>14 DEF Proc
  <2> QED BY <1>14, <2>1 DEF LookupsSound
<1> QED BY <1>7, <1>10, <1>11, <1>12, <1>13, <1>14, StepSound

(* A pipe that a call is about to use is in the array: its descriptor is, or the
   end that is being closed still counts. *)
LEMMA PipePresent ==
    ASSUME CountsInv, OwnersInv, NEW t \in Threads, NEW p \in Procs, p = Proc(t), Alone(t), pc[t] = "pipe"
    PROVE  Present(Pipe(t))
<1> USE DEF CountsInv, OwnersInv
<1>1. JobSound(t) BY DEF JobsSound
<1>2. PICK i \in Pipes : i = job[t].intern BY <1>1 DEF JobSound
<1>3. OpenEnds(i) # {} \/ CloseEnds(i) # {}
  <2>1. CASE Fd(t) = -1
    <3>1. t \in CloseEnds(i) BY <1>2, <2>1 DEF CloseEnds, IsClose
    <3> QED BY <3>1
  <2>2. CASE Fd(t) # -1
    <3>1. Fd(t) \in Fds /\ Present(file_descriptors[Fd(t)]) BY <2>2, LookedUpPresent DEF FdPlaces
    <3>2. t \in FdUsers(Fd(t)) BY DEF FdUsers, FdPlaces
    <3>3. file_descriptors[Fd(t)].intern = job[t].intern BY <3>1, <3>2 DEF RefsSound, FdRefs
    <3>4. Fd(t) \in OpenEnds(i) BY <1>2, <3>1, <3>3 DEF OpenEnds
    <3> QED BY <3>4
  <2> QED BY <2>1, <2>2
<1>4. /\ IsFiniteSet(OpenEnds(i)) /\ IsFiniteSet(DupEnds(i)) /\ IsFiniteSet(CloseEnds(i))
      BY Finite, FS_Subset DEF OpenEnds, DupEnds, CloseEnds
<1>5. /\ Cardinality(OpenEnds(i)) \in Nat /\ Cardinality(DupEnds(i)) \in Nat /\ Cardinality(CloseEnds(i)) \in Nat
      /\ Cardinality(OpenEnds(i)) # 0 \/ Cardinality(CloseEnds(i)) # 0
      BY <1>3, <1>4, FS_CardinalityType, FS_EmptySet
<1>6. Ends(i) # 0 BY ONLY <1>5 DEF Ends
<1>7. EndsOf(i) # 0 BY <1>2, <1>6 DEF EndsSound
<1> QED BY <1>2, <1>7 DEF EndsOf, Pipe

(* Taking a reference to a descriptor that is there. *)
LEMMA FdGetOwners ==
    ASSUME CountsInv, CountsInv', OwnersInv, NEW t \in Threads, FdGet(t)
    PROVE  OwnersInv'
<1> USE DEF CountsInv
<1>1. Continue(t) /\ UNCHANGED people BY DEF Continue, FdGet
<1>2. /\ JobStep(t) /\ Fd(t) \in Fds /\ pc[t] = "fd" BY FdGetJob
<1>3. PICK p \in Procs : Steps(t, p) BY <1>1, <1>2, ContinueSteps DEF JobStep
<1>4. p = Proc(t) /\ Alone(t) BY <1>3 DEF Steps
<1>5. Present(file_descriptors[Fd(t)]) BY <1>2, <1>4, Bounds, LookedUpPresent
<1>6. pc'[t] \in {"put", "pipe"} /\ job'[t] = [job[t] EXCEPT !.intern = file_descriptors[Fd(t)].intern]
      BY <1>5, FdGetJob
<1>7. job[t] \in Jobs BY DEF TypeOK
<1>8. /\ job'[t].call = job[t].call /\ job'[t].h = job[t].h /\ job'[t].new = job[t].new
      /\ job'[t].fd = job[t].fd /\ job'[t].old = job[t].old
      BY <1>6, <1>7 DEF Jobs
<1>9. UNCHANGED <<file_handles, file_handles_lock, fault>> BY <1>5 DEF FdGet
<1>10. \A d \in Fds : Present(file_descriptors'[d]) <=> Present(file_descriptors[d])
  <2>1. file_descriptors' = [file_descriptors EXCEPT ![Fd(t)].refcount = @ + 1] BY <1>5 DEF FdGet
  <2>2. file_descriptors \in [Fds -> Descriptors \cup {NULL}] /\ file_descriptors' \in [Fds -> Descriptors \cup {NULL}]
        BY DEF TypeOK
  <2>3. file_descriptors[Fd(t)] \in Descriptors BY <1>2, <1>5, <2>2 DEF Present
  <2>4. file_descriptors'[Fd(t)] = [file_descriptors[Fd(t)] EXCEPT !.refcount = @ + 1] BY <1>2, <2>1, <2>2
  <2>5. file_descriptors'[Fd(t)].present = file_descriptors[Fd(t)].present BY <2>3, <2>4 DEF Descriptors
  <2>6. file_descriptors'[Fd(t)] \in Descriptors BY <2>3, <2>4 DEF Descriptors
  <2>7. Present(file_descriptors'[Fd(t)]) BY <1>5, <2>5, <2>6, NullAssumption DEF Present
  <2>8. \A d \in Fds \ {Fd(t)} : file_descriptors'[d] = file_descriptors[d] BY <2>1, <2>2
  <2> QED BY <1>5, <2>7, <2>8
<1>11. pc[t] \in Inner /\ pc'[t] \in Inner BY <1>2, <1>6 DEF Inner, FdPlaces
<1> QED BY <1>3, <1>8, <1>9, <1>10, <1>11, Moves

(* The use of the pipe. *)
LEMMA PipeOwners ==
    ASSUME CountsInv, CountsInv', OwnersInv, NEW t \in Threads,
           PipeGet(t) \/ pipe_read(t) \/ PipeBlocks(t) \/ PipeWoken(t) \/ PipeAborted(t) \/ pipe_write(t)
              \/ pipe_setflflags(t) \/ pipe_dup(t) \/ pipe_close(t) \/ PipeUnref(t)
    PROVE  OwnersInv'
<1> USE DEF CountsInv
<1>1. Continue(t) BY DEF Continue
<1>2. JobStep(t) BY <1>1, ContinueJob
<1>3. ASSUME UNCHANGED <<file_handles, file_handles_lock, file_descriptors, people, fault>>,
             pc[t] \in Inner, pc'[t] \in Inner, job'[t] = job[t]
      PROVE  OwnersInv'
  <2>1. PICK p \in Procs : Steps(t, p) BY <1>1, <1>2, <1>3, ContinueSteps DEF JobStep
  <2> QED BY <1>3, <2>1, Moves
<1>4. CASE PipeGet(t)
  <2>1. pc[t] = "pipe" /\ UNCHANGED people BY <1>4 DEF PipeGet, At
  <2>2. PICK p \in Procs : Steps(t, p) BY <1>1, <1>2, <2>1, ContinueSteps DEF JobStep
  <2>3. Present(Pipe(t)) BY <2>1, <2>2, PipePresent DEF Steps
  <2>4. pc'[t] = "op" /\ job'[t] = job[t] BY <1>4, <2>3, PipeGetJob
  <2> QED BY <1>3, <1>4, <2>1, <2>3, <2>4 DEF PipeGet, Inner, FdPlaces
<1>5. CASE PipeBlocks(t) BY <1>3, <1>5, BlocksJob DEF PipeBlocks, Inner, FdPlaces, arrays
<1>6. CASE PipeWoken(t)
  <2>1. pc[t] = "wait" /\ Goes(t, "op") /\ UNCHANGED job BY <1>6 DEF PipeWoken, At
  <2>2. pc'[t] = "op" /\ job'[t] = job[t] BY <2>1, WokenJob
  <2> QED BY <1>3, <1>6, <2>1, <2>2 DEF PipeWoken, Inner, FdPlaces
<1>7. CASE PipeAborted(t)
  <2>1. pc[t] = "wait" /\ Goes(t, "put") /\ UNCHANGED job BY <1>7 DEF PipeAborted, At
  <2>2. pc'[t] = "put" /\ job'[t] = job[t] BY <2>1, WokenJob
  <2> QED BY <1>3, <1>7, <2>1, <2>2 DEF PipeAborted, Inner, FdPlaces
<1>8. ASSUME pc[t] = "op", NEW e, PipeDone(t, e) PROVE OwnersInv'
      BY <1>3, <1>8, DoneJob DEF PipeDone, Inner, FdPlaces
<1>9. CASE pipe_read(t) BY <1>8, <1>9 DEF pipe_read, Operates, At
<1>10. CASE pipe_write(t) BY <1>8, <1>10 DEF pipe_write, Operates, At
<1>11. CASE pipe_setflflags(t) BY <1>8, <1>11 DEF pipe_setflflags, Operates, At
<1>12. CASE pipe_dup(t) BY <1>8, <1>12 DEF pipe_dup, Operates, At
<1>13. CASE pipe_close(t)
  <2>1. pc[t] = "op" /\ pc'[t] \in {"unref", "closed"} /\ job'[t] = job[t] BY <1>13, CloseJob
  <2>2. UNCHANGED <<file_handles, file_handles_lock, file_descriptors, people, fault>>
        BY <1>13 DEF pipe_close, PipeDone
  <2> QED BY <1>3, <2>1, <2>2 DEF Inner, FdPlaces
<1>14. CASE PipeUnref(t)
  <2>1. pc[t] = "unref" /\ pc'[t] \in {"put", "closed"} /\ job'[t] = job[t] BY <1>14, PipeUnrefJob
  <2> QED BY <1>3, <1>14, <2>1 DEF PipeUnref, Inner, FdPlaces
<1> QED BY <1>4, <1>5, <1>6, <1>7, <1>9, <1>10, <1>11, <1>12, <1>13, <1>14

(* A call that returns, and has nothing half done. *)
LEMMA ReturnOwners ==
    ASSUME CountsInv, CountsInv', OwnersInv, NEW t \in Threads, NEW p \in Procs, Steps(t, p), t # Urm,
           UNCHANGED <<file_handles, fault>>, pc[t] # "user", pc'[t] = "user", job'[t] = NoJob,
           file_handles_lock' = file_handles_lock \/ ReleasesIfHeld(t),
           \A d \in Fds : Present(file_descriptors'[d]) <=> Present(file_descriptors[d]),
           ~Forking(t), job[t].call \in {"close", "dup2"} => pc[t] = "lock"
    PROVE  OwnersInv'
<1> USE DEF CountsInv, OwnersInv
<1>1. JobSound(t) /\ JobSound(t)' BY DEF JobsSound
<1>2. t \in UserThreads BY Bounds
<1>3. \A h, d : ~StaleBy(t, p, h) /\ ~StoresAt(t, p, h, d)
      BY <1>1 DEF StaleBy, StoresAt, JobSound, IsClose
<1>4. \A h, d : ~StaleBy(t, p, h)' /\ ~StoresAt(t, p, h, d)' BY DEF StaleBy, StoresAt, NoJob
<1>5. \A h \in Handles, d \in Fds : OwnsBy(t, p, h, d)' <=> OwnsBy(t, p, h, d) BY <1>3, <1>4 DEF OwnsBy
<1>6. OwnersSound' BY <1>5, LocalQuiet
<1>7. ~Holds(t)' /\ ~Forking(t)' BY DEF Holds, Forking, NoJob
<1>8. LookupSound(t)' BY <1>1, LookupIdleNext
<1>9. OthersKept(t, p) BY DEF OthersKept
<1>10. ASSUME NEW u \in UserThreads \ {t}, file_handles_lock[u[1]] = u PROVE file_handles_lock'[u[1]] = u
  <2>1. u[1] \in Procs BY Bounds
  <2> QED BY <1>10, <2>1 DEF ReleasesIfHeld
<1> QED BY <1>6, <1>7, <1>8, <1>9, <1>10, StepSound

(* A call that is refused. *)
LEMMA RefusedOwners ==
    ASSUME CountsInv, CountsInv', OwnersInv, NEW t \in Threads, Refused(t)
    PROVE  OwnersInv'
<1> USE DEF CountsInv
<1>1. Continue(t) /\ UNCHANGED <<file_handles, file_handles_lock, file_descriptors, people, fault>>
      BY DEF Continue, Refused, arrays
<1>2. JobStep(t) /\ pc'[t] = "user" /\ job'[t] = NoJob BY ReturnJob DEF Refused
<1>3. pc[t] = "lock" BY DEF Refused, Calling, At
<1>4. t # Urm BY <1>3 DEF JobsSound, JobSound, Closers
<1>5. PICK p \in Procs : Steps(t, p) BY <1>1, <1>2, ContinueSteps DEF JobStep
<1>6. ~Forking(t) BY <1>3 DEF Forking
<1> QED BY <1>1, <1>2, <1>3, <1>4, <1>5, <1>6, ReturnOwners

(* The reference to the descriptor is given back: it stays in the array. *)
LEMMA FdUnrefOwners ==
    ASSUME CountsInv, CountsInv', OwnersInv, NEW t \in Threads, FdUnref(t)
    PROVE  OwnersInv'
<1> USE DEF CountsInv
<1>1. Continue(t) /\ UNCHANGED <<file_handles, people, fault>> BY DEF Continue, FdUnref
<1>2. JobStep(t) /\ job[t].fd \in Fds /\ t # Urm /\ pc[t] = "put" BY FdUnrefJob
<1>3. PICK p \in Procs : Steps(t, p) BY <1>1, <1>2, ContinueSteps DEF JobStep
<1>4. PICK e \in Fds : e = Fd(t) BY <1>2 DEF Fd
<1>5. Present(file_descriptors[e]) BY <1>2, <1>3, <1>4, Bounds, LookedUpPresent DEF FdPlaces, Steps
<1>6. \A d \in Fds : Present(file_descriptors'[d]) <=> Present(file_descriptors[d])
  <2>1. file_descriptors' = [file_descriptors EXCEPT ![e] = UnrefFd(file_descriptors[e])]
        BY <1>4 DEF FdUnref
  <2>2. file_descriptors \in [Fds -> Descriptors \cup {NULL}] BY DEF TypeOK
  <2>3. file_descriptors[e] \in Descriptors /\ file_descriptors[e] # NULL /\ file_descriptors[e].present
        BY <1>5, <2>2 DEF Present
  <2>4. t \in FdUsers(e) /\ IsFiniteSet(FdUsers(e)) BY <1>2, <1>4, Finite, FS_Subset DEF FdUsers, FdPlaces
  <2>5. Cardinality(FdUsers(e)) \in Nat /\ Cardinality(FdUsers(e)) # 0
        BY <2>4, FS_CardinalityType, FS_EmptySet
  <2>6. file_descriptors[e].refcount = 1 + Cardinality(FdUsers(e)) BY <2>3 DEF RefsSound, FdRefs, One
  <2>7. file_descriptors[e].refcount # 1 BY <2>5, <2>6
  <2>8. file_descriptors'[e] = [file_descriptors[e] EXCEPT !.refcount = @ - 1]
        BY <2>1, <2>2, <2>3, <2>7 DEF UnrefFd
  <2>9. file_descriptors[e].refcount - 1 \in Nat BY <2>5, <2>6
  <2>10. file_descriptors'[e].present /\ file_descriptors'[e] \in Descriptors BY <2>3, <2>8, <2>9 DEF Descriptors
  <2>11. Present(file_descriptors'[e]) BY <2>10, NullAssumption DEF Present
  <2>12. \A d \in Fds \ {e} : file_descriptors'[d] = file_descriptors[d] BY <2>1, <2>2
  <2> QED BY <1>5, <2>11, <2>12
<1>7. CASE job[t].call \in Dups
  <2>1. pc'[t] = "create" /\ job'[t] = job[t] BY <1>7, FdUnrefJob
  <2>2. UNCHANGED file_handles_lock BY <1>7 DEF FdUnref, IsDup, Dups
  <2> QED BY <1>1, <1>2, <1>3, <1>6, <2>1, <2>2, Moves DEF Inner, FdPlaces
<1>8. CASE job[t].call \notin Dups /\ ~(job[t].call = "pipe" /\ job[t].old # -1)
  <2>1. pc'[t] = "user" /\ job'[t] = NoJob BY <1>8, FdUnrefJob
  <2>2. ReleasesIfHeld(t) BY <1>8 DEF FdUnref, IsDup, Dups
  <2>3. job[t].call \notin {"close", "dup2", "fork"} BY <1>2, <1>8 DEF JobsSound, JobSound, Dups
  <2> QED BY <1>1, <1>2, <1>3, <1>6, <2>1, <2>2, <2>3, ReturnOwners DEF Forking
<1>9. CASE job[t].call \notin Dups /\ job[t].call = "pipe" /\ job[t].old # -1
  <2> USE DEF OwnersInv
  <2>1. pc'[t] = "fd" /\ job'[t] = [job[t] EXCEPT !.fd = job[t].old, !.old = -1] BY <1>9, FdUnrefJob
  <2>2. UNCHANGED file_handles_lock BY <1>9 DEF FdUnref, IsDup, Dups
  <2>3. job[t] \in Jobs BY DEF TypeOK
  <2>4. job'[t].call = "pipe" /\ job'[t].fd = job[t].old /\ job'[t].old = -1 BY <1>9, <2>1, <2>3 DEF Jobs
  <2>5. \A h, d : ~StaleBy(t, p, h) /\ ~StoresAt(t, p, h, d) BY <1>2, <1>9 DEF StaleBy, StoresAt
  <2>6. \A h, d : ~StaleBy(t, p, h)' /\ ~StoresAt(t, p, h, d)' BY <1>2, <2>1, <2>4 DEF StaleBy, StoresAt
  <2>7. \A h \in Handles, d \in Fds : OwnsBy(t, p, h, d)' <=> OwnsBy(t, p, h, d)
        BY <1>1, <2>5, <2>6 DEF OwnsBy
  <2>8. OwnersSound' BY <1>1, <1>3, <1>6, <2>7, LocalQuiet
  <2>9. ~Holds(t)' /\ ~Forking(t)' /\ ~Forking(t) BY <1>9, <2>4 DEF Holds, Forking
  <2>10. t \in UserThreads BY <1>2, Bounds
  <2>11. LookupSound(t) BY <2>10 DEF LookupsSound
  <2>12. \E h \in Handles : file_handles[t[1]][h] = job[t].old
         BY <1>2, <1>9, <2>11 DEF LookupSound
  <2>13. LookupSound(t)' BY <1>1, <2>4, <2>12 DEF LookupSound
  <2>14. OthersKept(t, p) BY <1>1 DEF OthersKept
  <2> QED BY <1>1, <1>2, <1>3, <1>9, <2>2, <2>4, <2>8, <2>9, <2>13, <2>14, StepSound
<1> QED BY <1>7, <1>8, <1>9

(* read, write, stat and close take the lock. *)
LEMMA LocksOwners ==
    ASSUME CountsInv, CountsInv', OwnersInv, NEW t \in Threads, NEW call \in {"read", "write", "stat", "close"},
           NEW place \in {"fd", "close"}, (place = "close") = (call = "close"), Locks(t, call, place), Continue(t)
    PROVE  OwnersInv'
<1> USE DEF CountsInv, OwnersInv
<1>1. UNCHANGED <<file_handles, file_descriptors, people, fault>> BY DEF Locks, arrays
<1>2. /\ JobStep(t) /\ t # Urm /\ Handle(t) \in Fds /\ pc'[t] = place
      /\ job'[t] = [job[t] EXCEPT !.fd = Handle(t)]
      BY LocksJob
<1>3. pc[t] = "lock" /\ job[t].call = call /\ LockFree(t[1]) BY DEF Locks, Calling, At
<1>4. PICK p \in Procs : Steps(t, p) BY <1>1, <1>2, ContinueSteps DEF JobStep
<1>5. t \in UserThreads /\ t[1] \in Procs BY <1>2, Bounds
<1>6. job[t] \in Jobs BY DEF TypeOK
<1>7. job'[t].call = call /\ job'[t].fd = Handle(t) /\ job'[t].h = job[t].h BY <1>2, <1>3, <1>6 DEF Jobs
<1>8. \A h, d : ~StaleBy(t, p, h) /\ ~StoresAt(t, p, h, d) BY <1>2, <1>3 DEF StaleBy, StoresAt, IsClose
<1>9. \A h, d : ~StaleBy(t, p, h)' /\ ~StoresAt(t, p, h, d)'
      BY <1>2, <1>7 DEF StaleBy, StoresAt, IsClose
<1>10. \A h \in Handles, d \in Fds : OwnsBy(t, p, h, d)' <=> OwnsBy(t, p, h, d)
       BY <1>1, <1>8, <1>9 DEF OwnsBy
<1>11. OwnersSound' BY <1>1, <1>4, <1>10, LocalQuiet
<1>12. ~Forking(t)' /\ ~Forking(t) BY <1>3, <1>7 DEF Forking
<1>13. file_handles_lock' = [file_handles_lock EXCEPT ![t[1]] = t] BY DEF Locks
<1>14. file_handles_lock \in [Procs -> Threads \cup {NoThread}] BY DEF TypeOK
<1>15. file_handles_lock'[t[1]] = t BY <1>5, <1>13, <1>14
<1>16. ASSUME NEW u \in UserThreads \ {t}, file_handles_lock[u[1]] = u PROVE file_handles_lock'[u[1]] = u
  <2>1. u # NoThread /\ u[1] \in Procs BY Bounds, DescriptorsAssumption
  <2>2. u[1] # t[1] BY <1>3, <1>16, <2>1 DEF LockFree
  <2> QED BY <1>13, <1>14, <1>16, <2>1, <2>2
<1>17. LookupSound(t)' BY <1>1, <1>2, <1>7 DEF LookupSound, Handle
<1>18. OthersKept(t, p) BY <1>1 DEF OthersKept
<1> QED BY <1>1, <1>2, <1>3, <1>4, <1>7, <1>11, <1>12, <1>15, <1>16, <1>17, <1>18, StepSound

(* A step that leaves tables, locks and arrays, and what thread t is about to do
   to the handles of its process. *)
LEMMA QuietOwners ==
    ASSUME CountsInv, CountsInv', OwnersInv, NEW t \in Threads, NEW p \in Procs, Steps(t, p),
           UNCHANGED <<file_handles, file_handles_lock, file_descriptors, fault>>,
           pc[t] # "user" \/ t = Urm,
           pc'[t] = "user" \/ job'[t].call = job[t].call \/ t = Urm,
           t # Urm => ~Holds(t)',
           Forking(t)' <=> Forking(t),
           Forking(t) => job'[t].new = job[t].new /\ job[t].h <= job'[t].h,
           t # Urm => LookupSound(t)',
           t = Urm /\ pc'[Urm] \in Closers => file_handles'[p][job'[Urm].h] = job'[Urm].fd,
           \A h \in Handles : file_handles[p][h] = -1 \/ (StaleBy(t, p, h)' <=> StaleBy(t, p, h)),
           pc[t] # "store", pc'[t] # "store"
    PROVE  OwnersInv'
<1> USE DEF CountsInv, OwnersInv
<1>1. \A h, d : ~StoresAt(t, p, h, d)' /\ ~StoresAt(t, p, h, d) BY DEF StoresAt
<1>2. \A h \in Handles, d \in Fds : OwnsBy(t, p, h, d)' <=> OwnsBy(t, p, h, d)
      BY <1>1, Bounds DEF OwnsBy
<1>3. OwnersSound' BY <1>2, LocalQuiet
<1>4. OthersKept(t, p) BY DEF OthersKept
<1> QED BY <1>3, <1>4, StepSound

(* dup2 looks its handles up. *)
LEMMA Dup2Owners ==
    ASSUME CountsInv, CountsInv', OwnersInv, NEW t \in Threads, syscall_dup2(t)
    PROVE  OwnersInv'
<1> USE DEF CountsInv, OwnersInv
<1> DEFINE old == Handle(t)
           was == file_handles[t[1]][job[t].new]
<1>1. Continue(t) /\ UNCHANGED <<file_handles, file_handles_lock, file_descriptors, people, fault>>
      BY DEF Continue, syscall_dup2, arrays
<1>2. /\ JobStep(t) /\ t # Urm /\ old \in Fds /\ was \in Fds \cup {-1}
      /\ old = was => pc'[t] = "user" /\ job'[t] = NoJob
      /\ old # was =>
            /\ pc'[t] = IF was = -1 THEN "fd" ELSE "close"
            /\ job'[t] = [job[t] EXCEPT !.old = old, !.fd = IF was = -1 THEN old ELSE was]
      BY Dup2Job
<1>3. pc[t] = "lock" /\ job[t].call = "dup2" BY DEF syscall_dup2, Calling, At
<1>4. PICK p \in Procs : Steps(t, p) BY <1>1, <1>2, ContinueSteps DEF JobStep
<1>5. CASE old = was BY <1>1, <1>2, <1>3, <1>4, <1>5, ReturnOwners DEF Forking
<1>6. CASE old # was
  <2>1. job[t] \in Jobs BY DEF TypeOK
  <2>2. /\ job'[t].call = "dup2" /\ job'[t].old = old /\ job'[t].h = job[t].h /\ job'[t].new = job[t].new
        /\ job'[t].fd = IF was = -1 THEN old ELSE was
        BY <1>2, <1>3, <1>6, <2>1 DEF Jobs
  <2>3. p = t[1] BY <1>2, <1>4 DEF Steps, Proc
  <2>4. \A h : ~StaleBy(t, p, h) BY <1>2, <1>3 DEF StaleBy, IsClose
  <2>5. \A h \in Handles : file_handles[p][h] = -1 \/ ~StaleBy(t, p, h)'
    <3>1. CASE was = -1 BY <1>2, <2>2, <2>3, <3>1 DEF StaleBy
    <3>2. CASE was # -1 BY <1>2, <1>6, <2>2, <3>2 DEF StaleBy
    <3> QED BY <3>1, <3>2
  <2>6. ~Holds(t)' /\ ~Forking(t)' /\ ~Forking(t) BY <1>3, <2>2 DEF Holds, Forking
  <2>7. LookupSound(t)'
    <3>1. job[t].h # job[t].new BY <1>6 DEF Handle
    <3>2. file_handles'[t[1]][job'[t].h] = old /\ file_handles'[t[1]][job'[t].new] = was
          BY <1>1, <2>2 DEF Handle
    <3>3. CASE was = -1
      <4>1. pc'[t] = "fd" /\ job'[t].fd = old BY <1>2, <1>6, <2>2, <3>3
      <4> QED BY <2>2, <3>1, <3>2, <4>1 DEF LookupSound, Closers
    <3>4. CASE was # -1
      <4>1. pc'[t] = "close" /\ job'[t].fd = was BY <1>2, <1>6, <2>2, <3>4
      <4> QED BY <2>2, <3>1, <3>2, <4>1 DEF LookupSound, Closers
    <3> QED BY <3>3, <3>4
  <2>8. pc'[t] # "store" BY <1>2, <1>6
  <2> QED BY <1>1, <1>2, <1>3, <1>4, <2>2, <2>4, <2>5, <2>6, <2>7, <2>8, QuietOwners
<1> QED BY <1>5, <1>6

(* fcntl looks its handle up. *)
LEMMA FcntlOwners ==
    ASSUME CountsInv, CountsInv', OwnersInv, NEW t \in Threads, syscall_fcntl(t)
    PROVE  OwnersInv'
<1> USE DEF CountsInv, OwnersInv
<1>1. Continue(t) /\ UNCHANGED <<file_handles, file_handles_lock, file_descriptors, people, fault>>
      BY DEF Continue, syscall_fcntl, arrays
<1>2. /\ JobStep(t) /\ t # Urm /\ Handle(t) \in Fds
      /\ pc'[t] = IF job[t].call = "dupfd" THEN "find" ELSE "fd"
      /\ job'[t] = [job[t] EXCEPT !.fd = Handle(t)]
      BY FcntlJob
<1>3. pc[t] = "lock" /\ job[t].call \in {"setfl", "dupfd"} BY DEF syscall_fcntl, Calling, At
<1>4. PICK p \in Procs : Steps(t, p) BY <1>1, <1>2, ContinueSteps DEF JobStep
<1>5. job[t] \in Jobs BY DEF TypeOK
<1>6. job'[t].call = job[t].call /\ job'[t].fd = Handle(t) /\ job'[t].h = job[t].h BY <1>2, <1>5 DEF Jobs
<1>7. \A h : ~StaleBy(t, p, h) /\ ~StaleBy(t, p, h)' BY <1>2, <1>3, <1>6 DEF StaleBy
<1>8. ~Holds(t)' /\ ~Forking(t)' /\ ~Forking(t) BY <1>2, <1>3, <1>6 DEF Holds, Forking
<1>9. LookupSound(t)' BY <1>1, <1>2, <1>3, <1>6 DEF LookupSound, Handle
<1>10. pc'[t] # "store" BY <1>2
<1> QED BY <1>1, <1>2, <1>3, <1>4, <1>6, <1>7, <1>8, <1>9, <1>10, QuietOwners

(* F_DUPFD takes the lock with a free handle. *)
LEMMA DupfdOwners ==
    ASSUME CountsInv, CountsInv', OwnersInv, NEW t \in Threads, fcntl_dupfd(t)
    PROVE  OwnersInv'
<1> USE DEF CountsInv, OwnersInv
<1>1. Continue(t) /\ UNCHANGED <<file_handles, file_descriptors, people, fault>>
      BY DEF Continue, fcntl_dupfd, arrays
<1>2. JobStep(t) BY <1>1, ContinueJob
<1>3. pc[t] = "find" /\ LockFree(t[1]) /\ At(t, "find") BY DEF fcntl_dupfd, At
<1>4. PICK p \in Procs : Steps(t, p) BY <1>1, <1>2, ContinueSteps DEF JobStep
<1>5. JobSound(t) /\ job[t] \in Jobs BY DEF JobsSound, TypeOK
<1>6. job[t].call = "dupfd" /\ t # Urm /\ job[t].fd \in Fds BY <1>3, <1>5 DEF JobSound
<1>7. CASE Returns(t) /\ UNCHANGED file_handles_lock
  <2>1. pc'[t] = "user" /\ job'[t] = NoJob BY <1>7, ReturnJob
  <2> QED BY <1>1, <1>3, <1>4, <1>6, <1>7, <2>1, ReturnOwners DEF Forking
<1>8. ASSUME NEW h \in Handles, First(h, FreeHandles(t[1])), job' = [job EXCEPT ![t].new = h], Goes(t, "fd"),
             file_handles_lock' = [file_handles_lock EXCEPT ![t[1]] = t]
      PROVE  OwnersInv'
  <2>1. pc'[t] = "fd" /\ job'[t] = [job[t] EXCEPT !.new = h] BY <1>3, <1>8, DupfdJob
  <2>2. job'[t].call = "dupfd" /\ job'[t].new = h /\ job'[t].h = job[t].h /\ job'[t].fd = job[t].fd
        BY <1>5, <1>6, <2>1 DEF Jobs
  <2>3. t \in UserThreads /\ t[1] \in Procs BY <1>6, Bounds
  <2>4. file_handles[t[1]][h] = -1 BY <1>8 DEF First, FreeHandles
  <2>5. LookupSound(t) BY <2>3 DEF LookupsSound
  <2>6. file_handles[t[1]][job[t].h] = job[t].fd BY <1>3, <1>6, <2>5, Bounds DEF LookupSound
  <2>7. LookupSound(t)' BY <1>1, <2>1, <2>2, <2>4, <2>6 DEF LookupSound
  <2>8. \A k, d : ~StaleBy(t, p, k) /\ ~StoresAt(t, p, k, d) BY <1>3, <1>6 DEF StaleBy, StoresAt
  <2>9. \A k, d : ~StaleBy(t, p, k)' /\ ~StoresAt(t, p, k, d)' BY <1>6, <2>1, <2>2 DEF StaleBy, StoresAt
  <2>10. \A k \in Handles, d \in Fds : OwnsBy(t, p, k, d)' <=> OwnsBy(t, p, k, d)
         BY <1>1, <2>8, <2>9 DEF OwnsBy
  <2>11. OwnersSound' BY <1>1, <1>4, <2>10, LocalQuiet
  <2>12. ~Forking(t)' /\ ~Forking(t) BY <1>6, <2>2 DEF Forking
  <2>13. file_handles_lock \in [Procs -> Threads \cup {NoThread}] BY DEF TypeOK
  <2>14. file_handles_lock'[t[1]] = t BY <1>8, <2>3, <2>13
  <2>15. ASSUME NEW u \in UserThreads \ {t}, file_handles_lock[u[1]] = u PROVE file_handles_lock'[u[1]] = u
    <3>1. u # NoThread /\ u[1] \in Procs BY Bounds, DescriptorsAssumption
    <3>2. u[1] # t[1] BY <1>3, <2>15, <3>1 DEF LockFree
    <3> QED BY <1>8, <2>13, <2>15, <3>1, <3>2
  <2>16. OthersKept(t, p) BY <1>1 DEF OthersKept
  <2> QED BY <1>1, <1>3, <1>4, <1>6, <2>2, <2>7, <2>11, <2>12, <2>14, <2>15, <2>16, StepSound
<1> QED BY <1>7, <1>8 DEF fcntl_dupfd

(* fork goes on to the next handle. *)
LEMMA ForkCopiesOwners ==
    ASSUME CountsInv, CountsInv', OwnersInv, NEW t \in Threads, ForkCopies(t)
    PROVE  OwnersInv'
<1> USE DEF CountsInv, OwnersInv
<1>1. Continue(t) /\ UNCHANGED <<file_handles, file_handles_lock, file_descriptors, people, fault>>
      BY DEF Continue, ForkCopies, arrays
<1>2. /\ JobStep(t) /\ t # Urm /\ Handle(t) \in Fds \cup {-1}
      /\ Handle(t) = -1 => pc'[t] = "fork" /\ job'[t] = [job[t] EXCEPT !.h = @ + 1]
      /\ Handle(t) # -1 => pc'[t] = "fd" /\ job'[t] = [job[t] EXCEPT !.fd = Handle(t)]
      BY ForkCopiesJob
<1>3. pc[t] = "fork" BY DEF ForkCopies, At
<1>4. PICK p \in Procs : Steps(t, p) BY <1>1, <1>2, ContinueSteps DEF JobStep
<1>5. JobSound(t) /\ job[t] \in Jobs BY DEF JobsSound, TypeOK
<1>6. job[t].call = "fork" BY <1>3, <1>5 DEF JobSound
<1>7. job[t].h \in Nat BY <1>5, DescriptorsAssumption DEF Jobs
<1>8. /\ job'[t].call = "fork" /\ job'[t].new = job[t].new /\ pc'[t] \in {"fork", "fd"}
      /\ pc'[t] = "fd" => job'[t].fd = Handle(t) /\ job'[t].h = job[t].h
      /\ job[t].h <= job'[t].h
  <2>1. CASE Handle(t) = -1 BY <1>2, <1>5, <1>6, <1>7, <2>1 DEF Jobs
  <2>2. CASE Handle(t) # -1 BY <1>2, <1>5, <1>6, <1>7, <2>2 DEF Jobs
  <2> QED BY <2>1, <2>2
<1>9. \A h : ~StaleBy(t, p, h) /\ ~StaleBy(t, p, h)' BY <1>2, <1>6, <1>8 DEF StaleBy
<1>10. ~Holds(t)' /\ Forking(t)' /\ Forking(t) BY <1>3, <1>6, <1>8 DEF Holds, Forking
<1>11. LookupSound(t)' BY <1>1, <1>8 DEF LookupSound, Handle
<1>12. job'[t].call = job[t].call /\ pc'[t] # "store" /\ pc[t] # "store" BY <1>3, <1>6, <1>8
<1> QED BY <1>1, <1>2, <1>3, <1>4, <1>8, <1>9, <1>10, <1>11, <1>12, QuietOwners

(* fork begins with a process that has no handle. *)
LEMMA ForkBeginsOwners ==
    ASSUME CountsInv, CountsInv', OwnersInv, NEW t \in Threads, ForkBegins(t)
    PROVE  OwnersInv'
<1> USE DEF CountsInv, OwnersInv
<1>1. Continue(t) /\ UNCHANGED <<file_handles_lock, file_descriptors, people, fault>>
      BY DEF Continue, ForkBegins, arrays
<1>2. PICK c \in FreeProcs : /\ job' = [job EXCEPT ![t].new = c]
                             /\ file_handles' = [file_handles EXCEPT ![c] = [h \in Handles |-> -1]]
      BY DEF ForkBegins
<1>3. c \in Procs /\ c \notin alive /\ \A u \in Threads : ~(job[u].call = "fork" /\ job[u].new = c)
      BY DEF FreeProcs
<1>4. JobStep(t) /\ t # Urm /\ pc'[t] = "fork" /\ job'[t] = [job[t] EXCEPT !.new = c]
      BY <1>2, <1>3, ForkBeginsJob
<1>5. pc[t] = "lock" /\ job[t].call = "fork" BY DEF ForkBegins, At
<1>6. PICK p \in Procs : Steps(t, p) BY <1>1, <1>4, ContinueSteps DEF JobStep
<1>7. job[t] \in Jobs BY DEF TypeOK
<1>8. job'[t].call = "fork" /\ job'[t].new = c BY <1>4, <1>5, <1>7 DEF Jobs
<1>9. \A h \in Handles : file_handles[c][h] = -1
  <2>1. \A u \in UserThreads : ~(Forking(u) /\ job[u].new = c) BY <1>3, Bounds DEF Forking
  <2> QED BY <1>3, <2>1 DEF ForksSound
<1>10. file_handles' = file_handles
  <2>1. file_handles \in [Procs -> [Handles -> Fds \cup {-1}]] BY DEF TypeOK
  <2>2. file_handles[c] = [h \in Handles |-> -1] BY <1>3, <1>9, <2>1
  <2> QED BY <1>2, <2>1, <2>2
<1>11. \A h, d : ~StaleBy(t, p, h) /\ ~StoresAt(t, p, h, d) BY <1>4, <1>5 DEF StaleBy, StoresAt
<1>12. \A h, d : ~StaleBy(t, p, h)' /\ ~StoresAt(t, p, h, d)' BY <1>4, <1>8 DEF StaleBy, StoresAt
<1>13. \A h \in Handles, d \in Fds : OwnsBy(t, p, h, d)' <=> OwnsBy(t, p, h, d)
       BY <1>10, <1>11, <1>12 DEF OwnsBy
<1>14. OwnersSound' BY <1>1, <1>6, <1>10, <1>13, LocalQuiet
<1>15. OthersKept(t, p) BY <1>10 DEF OthersKept
<1>16. ThreadsSound' BY <1>6, ThreadsKept
<1>17. CallsApart' BY <1>4, <1>5, <1>8, ApartKept DEF JobStep
<1>18. LocksSound'
  <2>1. ~Holds(t)' BY <1>8 DEF Holds
  <2> QED BY <1>1, <1>4, <2>1, LocksKept DEF JobStep
<1>19. LookupsSound'
  <2>1. LookupSound(t)' BY <1>4, <1>8 DEF LookupSound
  <2> QED BY <1>4, <1>6, <1>15, <2>1, LookupsKept
<1>20. ForksSound'
  <2>1. ASSUME NEW u \in UserThreads \ {t} PROVE job'[u] = job[u] /\ (Forking(u)' <=> Forking(u)) /\ u \in Threads
        BY <1>4, Bounds DEF JobStep, Acts, Forking
  <2>2. t \in UserThreads /\ alive' = alive BY <1>1, <1>4, Bounds DEF people
  <2>3. \A u \in UserThreads : Forking(u)' => job'[u].new \notin alive' BY <1>3, <1>8, <2>1, <2>2 DEF ForksSound
  <2>4. ASSUME NEW u \in UserThreads, NEW v \in UserThreads, Forking(u)', Forking(v)', job'[u].new = job'[v].new
        PROVE  u = v
    <3>1. CASE u = t /\ v # t BY <1>3, <1>8, <2>1, <2>4, <3>1 DEF Forking
    <3>2. CASE u # t /\ v = t BY <1>3, <1>8, <2>1, <2>4, <3>2 DEF Forking
    <3>3. CASE u # t /\ v # t BY <2>1, <2>4, <3>3 DEF ForksSound
    <3> QED BY <3>1, <3>2, <3>3
  <2>5. ASSUME NEW q \in Procs \ alive', NEW h \in Handles,
               \A u \in UserThreads : Forking(u)' /\ job'[u].new = q => job'[u].h <= h
        PROVE  file_handles'[q][h] = -1
    <3>1. ~Forking(t) BY <1>5 DEF Forking
    <3>2. \A u \in UserThreads : Forking(u) /\ job[u].new = q => job[u].h <= h BY <2>1, <2>5, <3>1
    <3> QED BY <1>10, <2>2, <3>2 DEF ForksSound
  <2> QED BY <2>3, <2>4, <2>5 DEF ForksSound
<1> QED BY <1>1, <1>14, <1>16, <1>17, <1>18, <1>19, <1>20

(* The child of fork is complete and runs. *)
LEMMA ForkEndsOwners ==
    ASSUME CountsInv, CountsInv', OwnersInv, NEW t \in Threads, ForkEnds(t)
    PROVE  OwnersInv'
<1> USE DEF CountsInv, OwnersInv
<1>1. Continue(t) /\ UNCHANGED <<file_handles, file_handles_lock, file_descriptors, fault, victim, next>>
      BY DEF Continue, ForkEnds, arrays
<1>2. JobStep(t) /\ pc'[t] = "user" /\ job'[t] = NoJob BY ReturnJob DEF ForkEnds
<1>3. pc[t] = "fork" BY DEF ForkEnds, At
<1>4. JobSound(t) /\ JobSound(t)' BY DEF JobsSound
<1>5. t # Urm /\ job[t].call = "fork" /\ job[t].new \in Procs BY <1>3, <1>4 DEF JobSound
<1>6. PICK c \in Procs : c = job[t].new BY <1>5
<1>7. t \in UserThreads /\ Forking(t) /\ Alone(t) BY <1>1, <1>3, <1>5, Bounds, ContinueAlone DEF Forking
<1>8. c \notin alive /\ alive' = alive \cup {c} /\ running' = running \cup {<<c, 0>>}
      BY <1>6, <1>7 DEF ForksSound, ForkEnds
<1>9. Acts(t) BY <1>2 DEF JobStep
<1>10. \A u \in UserThreads \ {t} : pc'[u] = pc[u] /\ job'[u] = job[u] /\ (Forking(u)' <=> Forking(u))
       BY <1>9, Bounds DEF Acts, Forking
<1>11. pc'[Urm] = pc[Urm] /\ job'[Urm] = job[Urm] BY <1>5, <1>9, Bounds DEF Acts
<1>12. OwnersSound'
  <2>1. \A h, d, q : ~StaleBy(t, q, h) /\ ~StoresAt(t, q, h, d) BY <1>3, <1>5 DEF StaleBy, StoresAt
  <2>2. \A h, d, q : ~StaleBy(t, q, h)' /\ ~StoresAt(t, q, h, d)' BY <1>2, <1>5 DEF StaleBy, StoresAt, NoJob
  <2>3. \A u \in Threads : \A q, h, d : /\ StaleBy(u, q, h)' <=> StaleBy(u, q, h)
                                        /\ StoresAt(u, q, h, d)' <=> StoresAt(u, q, h, d)
        BY <1>1, <1>9, <2>1, <2>2, ClaimsKept
  <2>4. \A q \in Procs, h \in Handles, d \in Fds : Owns(q, h, d)' <=> Owns(q, h, d) BY <1>1, <2>3 DEF Owns
  <2> QED BY <1>1, <2>4, OwnersQuiet
<1>13. ThreadsSound'
  <2>1. running' \subseteq UserThreads BY DEF CountsInv
  <2>2. \A u \in running' : u[1] \in alive' BY <1>8 DEF ThreadsSound
  <2>3. \A u \in UserThreads : pc'[u] # "user" => u \in running' BY <1>2, <1>8, <1>10 DEF ThreadsSound
  <2>4. victim # 0 => victim \in alive' /\ \A i \in Tids : i < next => <<victim, i>> \notin running'
    <3>1. victim # 0 => victim # c BY <1>8 DEF ThreadsSound
    <3>2. \A i \in Tids : victim # c => <<victim, i>> # <<c, 0>> OBVIOUS
    <3> QED BY <1>8, <3>1, <3>2 DEF ThreadsSound
  <2> QED BY <1>1, <1>11, <2>1, <2>2, <2>3, <2>4 DEF ThreadsSound
<1>14. CallsApart' BY <1>2, <1>3, <1>9, ApartKept
<1>15. LocksSound'
  <2>1. ~Holds(t)' BY <1>2 DEF Holds, NoJob
  <2> QED BY <1>1, <1>9, <2>1, LocksKept
<1>16. ForksSound'
  <2>1. ~Forking(t)' BY <1>2 DEF Forking, NoJob
  <2>2. ASSUME NEW u \in UserThreads, Forking(u)' PROVE u # t /\ Forking(u) /\ job'[u].new = job[u].new /\ job[u].new # c
    <3>1. u # t /\ Forking(u) /\ job'[u].new = job[u].new BY <1>10, <2>1, <2>2
    <3> QED BY <1>6, <1>7, <3>1 DEF ForksSound
  <2>3. ASSUME NEW q \in Procs \ alive', NEW h \in Handles,
               \A u \in UserThreads : Forking(u)' /\ job'[u].new = q => job'[u].h <= h
        PROVE  file_handles'[q][h] = -1
    <3>1. q # c /\ q \notin alive BY <1>8
    <3>2. \A u \in UserThreads : Forking(u) /\ job[u].new = q => job[u].h <= h BY <1>6, <1>10, <2>3, <3>1
    <3> QED BY <1>1, <3>1, <3>2 DEF ForksSound
  <2>4. \A u \in UserThreads : Forking(u)' => job'[u].new \notin alive' BY <1>8, <2>2 DEF ForksSound
  <2>5. \A u, v \in UserThreads : Forking(u)' /\ Forking(v)' /\ job'[u].new = job'[v].new => u = v
        BY <2>2 DEF ForksSound
  <2> QED BY <2>3, <2>4, <2>5 DEF ForksSound
<1>17. LookupsSound'
  <2>1. LookupSound(t)' BY <1>2, <1>4, LookupIdleNext
  <2>2. ASSUME NEW u \in UserThreads PROVE LookupSound(u)'
    <3>1. LookupSound(u) BY DEF LookupsSound
    <3> QED BY <1>1, <1>10, <2>1, <3>1 DEF LookupSound
  <2> QED BY <1>1, <1>11, <2>2 DEF LookupsSound
<1> QED BY <1>1, <1>12, <1>13, <1>14, <1>15, <1>16, <1>17

-----------------------------------------------------------------------------
(* A descriptor that is created was not in the array. *)
LEMMA Creates ==
    ASSUME TypeOK, NEW e \in Fds, NEW i \in Pipes \cup {FILE}, fd_create(e, i)
    PROVE  /\ ~Present(file_descriptors[e])
           /\ \A d \in Fds : Present(file_descriptors'[d]) <=> Present(file_descriptors[d]) \/ d = e
<1> DEFINE new == [refcount |-> 1, present |-> TRUE, intern |-> i]
<1>1. file_descriptors[e] = NULL BY DEF fd_create, First, FreeFds
<1>2. file_descriptors' = [file_descriptors EXCEPT ![e] = new] BY DEF fd_create
<1>3. file_descriptors \in [Fds -> Descriptors \cup {NULL}] BY DEF TypeOK
<1>4. new \in Descriptors /\ new.present BY DEF Descriptors
<1>5. file_descriptors'[e] = new BY <1>2, <1>3
<1>6. Present(file_descriptors'[e]) BY <1>4, <1>5, NullAssumption DEF Present
<1>7. \A d \in Fds \ {e} : file_descriptors'[d] = file_descriptors[d] BY <1>2, <1>3
<1> QED BY <1>1, <1>6, <1>7 DEF Present

(* One handle of one process is set. *)
LEMMA HandleStored ==
    ASSUME TypeOK, NEW p \in Procs, NEW h \in Handles, NEW e, file_handles' = [file_handles EXCEPT ![p][h] = e]
    PROVE  /\ file_handles'[p][h] = e
           /\ \A k \in Handles \ {h} : file_handles'[p][k] = file_handles[p][k]
           /\ \A q \in Procs \ {p} : file_handles'[q] = file_handles[q]
  BY DEF TypeOK

(* A thread that gives its process a descriptor and returns. *)
LEMMA StoreReturns ==
    ASSUME CountsInv, CountsInv', OwnersInv, NEW t \in Threads, NEW p \in Procs, Steps(t, p), t # Urm,
           NEW h \in Handles, NEW e, file_handles' = [file_handles EXCEPT ![t[1]][h] = e],
           UNCHANGED fault, pc[t] # "user", pc'[t] = "user", job'[t] = NoJob,
           file_handles_lock' = file_handles_lock \/ ReleasesIfHeld(t),
           ~Forking(t), OwnersSound'
    PROVE  OwnersInv'
<1> USE DEF CountsInv
<1>1. JobSound(t)' BY DEF JobsSound
<1>2. p = t[1] BY DEF Steps, Proc
<1>3. ~Holds(t)' /\ ~Forking(t)' BY DEF Holds, Forking, NoJob
<1>4. LookupSound(t)' BY <1>1, LookupIdleNext
<1>5. OthersKept(t, p) BY <1>2, HandleStored DEF OthersKept
<1>6. ASSUME NEW u \in UserThreads \ {t}, file_handles_lock[u[1]] = u PROVE file_handles_lock'[u[1]] = u
  <2>1. u[1] \in Procs BY Bounds
  <2> QED BY <1>6, <2>1 DEF ReleasesIfHeld
<1>7. ~fault' BY DEF OwnersInv
<1> QED BY <1>3, <1>4, <1>5, <1>6, <1>7, StepSound

(* open. *)
LEMMA OpenOwners ==
    ASSUME CountsInv, CountsInv', OwnersInv, NEW t \in Threads, syscall_open(t)
    PROVE  OwnersInv'
<1> USE DEF CountsInv
<1>1. Continue(t) /\ UNCHANGED <<file_handles_lock, people, fault>> BY DEF Continue, syscall_open
<1>2. JobStep(t) /\ t # Urm /\ pc'[t] = "user" /\ job'[t] = NoJob BY OpenJob
<1>3. PICK h \in Handles, e \in Fds : /\ First(h, FreeHandles(t[1])) /\ fd_create(e, FILE)
                                      /\ file_handles' = [file_handles EXCEPT ![t[1]][h] = e]
      BY DEF syscall_open
<1>4. PICK p \in Procs : Steps(t, p) BY <1>1, <1>2, ContinueSteps DEF JobStep
<1>5. p = t[1] BY <1>2, <1>4 DEF Steps, Proc
<1>6. pc[t] = "lock" /\ job[t].call = "open" BY DEF syscall_open, Calling, At
<1>7. ~Present(file_descriptors[e]) /\ \A d \in Fds : Present(file_descriptors'[d]) <=> Present(file_descriptors[d]) \/ d = e
      BY <1>3, Creates
<1>8. file_handles[p][h] = -1 BY <1>3, <1>5 DEF First, FreeHandles
<1>9. /\ file_handles'[p][h] = e
      /\ \A k \in Handles \ {h} : file_handles'[p][k] = file_handles[p][k]
      /\ \A q \in Procs \ {p} : file_handles'[q] = file_handles[q]
  <2>1. file_handles' = [file_handles EXCEPT ![p][h] = e] BY <1>3, <1>5
  <2> QED BY <2>1, HandleStored
<1>10. \A k, d : ~StaleBy(t, p, k) /\ ~StoresAt(t, p, k, d) BY <1>2, <1>6 DEF StaleBy, StoresAt
<1>11. \A k, d : ~StaleBy(t, p, k)' /\ ~StoresAt(t, p, k, d)' BY <1>2 DEF StaleBy, StoresAt, NoJob
<1>12. PICK G : G = {<<p, h, e>>} OBVIOUS
<1>13. \A k \in Handles, d \in Fds : OwnsBy(t, p, k, d)' <=> OwnsBy(t, p, k, d) \/ <<p, k, d>> \in G
  <2>1. \A k \in Handles, d \in Fds : <<p, k, d>> \in G <=> k = h /\ d = e BY <1>12
  <2> QED BY <1>8, <1>9, <1>10, <1>11, <2>1, Bounds DEF OwnsBy
<1>14. /\ G \in SUBSET ({p} \X Handles \X Fds) /\ \A x, y \in G : x[3] = y[3] => x = y
       /\ \A x \in G : x[3] = e /\ \E y \in G : y[3] = e
       BY <1>12
<1>15. \A d \in Fds : (\E x \in G : x[3] = d) <=> d = e BY <1>12, <1>14
<1>16. OwnersSound' BY <1>4, <1>7, <1>9, <1>13, <1>14, <1>15, LocalGain DEF OwnersInv
<1> QED BY <1>1, <1>2, <1>3, <1>4, <1>6, <1>16, StoreReturns DEF Forking

(* pipe. *)
LEMMA PipeCallOwners ==
    ASSUME CountsInv, CountsInv', OwnersInv, NEW t \in Threads, syscall_pipe(t)
    PROVE  OwnersInv'
<1> USE DEF CountsInv
<1>1. Continue(t) /\ UNCHANGED <<file_handles_lock, people, fault>> BY DEF Continue, syscall_pipe
<1>2. PICK i \in Pipes, r, w \in Fds, hr, hw \in Handles :
          /\ First(i, FreePipes) /\ First(r, FreeFds) /\ First(w, FreeFds \ {r})
          /\ First(hr, FreeHandles(t[1])) /\ First(hw, FreeHandles(t[1]) \ {hr})
          /\ pipes' = [pipes EXCEPT ![i] = NewPipe]
          /\ leaked' = [leaked EXCEPT ![i] = 0]
          /\ file_descriptors' = [d \in Fds |->
                 IF d \in {r, w} THEN [refcount |-> 1, present |-> TRUE, intern |-> i]
                 ELSE file_descriptors[d]]
          /\ file_handles' = [file_handles EXCEPT ![t[1]][hr] = r, ![t[1]][hw] = w]
          /\ job' = [job EXCEPT ![t].fd = r, ![t].old = w]
      BY DEF syscall_pipe
<1>3. Calling(t, {"pipe"}) /\ Goes(t, "fd") BY DEF syscall_pipe
<1>4. JobStep(t) /\ t # Urm /\ pc'[t] = "fd" BY <1>2, <1>3, PipeJob
<1>5. PICK p \in Procs : Steps(t, p) BY <1>1, <1>4, ContinueSteps DEF JobStep
<1>6. p = t[1] BY <1>4, <1>5 DEF Steps, Proc
<1>7. pc[t] = "lock" /\ job[t].call = "pipe" BY <1>3 DEF Calling, At
<1>8. job[t] \in Jobs BY DEF TypeOK
<1>9. job'[t].call = "pipe" /\ job'[t].fd = r /\ job'[t].old = w
  <2>1. PICK moved : moved = [job[t] EXCEPT !.fd = r] OBVIOUS
  <2>2. job'[t] = [moved EXCEPT !.old = w] BY <1>2, <2>1 DEF TypeOK
  <2> QED BY <1>7, <1>8, <2>1, <2>2 DEF Jobs
<1>10. /\ file_descriptors[r] = NULL /\ file_descriptors[w] = NULL /\ r # w /\ hr # hw
       /\ file_handles[p][hr] = -1 /\ file_handles[p][hw] = -1
       BY <1>2, <1>6 DEF First, FreeFds, FreeHandles
<1>11. \A d \in Fds : Present(file_descriptors'[d]) <=> Present(file_descriptors[d]) \/ d \in {r, w}
  <2>1. [refcount |-> 1, present |-> TRUE, intern |-> i] \in Descriptors BY DEF Descriptors
  <2>2. Present([refcount |-> 1, present |-> TRUE, intern |-> i]) BY <2>1, NullAssumption DEF Present
  <2>3. \A d \in Fds : d \in {r, w} => file_descriptors'[d] = [refcount |-> 1, present |-> TRUE, intern |-> i]
        BY <1>2
  <2>4. \A d \in Fds : d \notin {r, w} => file_descriptors'[d] = file_descriptors[d] BY <1>2
  <2> QED BY <2>2, <2>3, <2>4
<1>12. /\ file_handles'[p][hr] = r /\ file_handles'[p][hw] = w
       /\ \A k \in Handles \ {hr, hw} : file_handles'[p][k] = file_handles[p][k]
       /\ \A q \in Procs \ {p} : file_handles'[q] = file_handles[q]
  <2>1. file_handles \in [Procs -> [Handles -> Fds \cup {-1}]] BY DEF TypeOK
  <2>2. PICK g : g = [file_handles EXCEPT ![p][hr] = r] OBVIOUS
  <2>3. g \in [Procs -> [Handles -> Fds \cup {-1}]] BY <2>1, <2>2
  <2>4. file_handles' = [g EXCEPT ![p][hw] = w] BY <1>2, <1>6, <2>1, <2>2
  <2>5. /\ g[p][hr] = r /\ \A k \in Handles \ {hr} : g[p][k] = file_handles[p][k]
        /\ \A q \in Procs \ {p} : g[q] = file_handles[q]
        BY <2>1, <2>2
  <2>6. /\ file_handles'[p][hw] = w /\ \A k \in Handles \ {hw} : file_handles'[p][k] = g[p][k]
        /\ \A q \in Procs \ {p} : file_handles'[q] = g[q]
        BY <2>3, <2>4
  <2> QED BY <1>10, <2>5, <2>6
<1>13. \A k, d : ~StaleBy(t, p, k) /\ ~StoresAt(t, p, k, d) BY <1>4, <1>7 DEF StaleBy, StoresAt
<1>14. \A k, d : ~StaleBy(t, p, k)' /\ ~StoresAt(t, p, k, d)' BY <1>4, <1>9 DEF StaleBy, StoresAt
<1>15. PICK G : G = {<<p, hr, r>>, <<p, hw, w>>} OBVIOUS
<1>16. \A k \in Handles, d \in Fds : OwnsBy(t, p, k, d)' <=> OwnsBy(t, p, k, d) \/ <<p, k, d>> \in G
  <2>1. \A k \in Handles, d \in Fds : <<p, k, d>> \in G <=> (k = hr /\ d = r) \/ (k = hw /\ d = w) BY <1>15
  <2> QED BY <1>10, <1>12, <1>13, <1>14, <2>1, Bounds DEF OwnsBy
<1>17. /\ G \in SUBSET ({p} \X Handles \X Fds) /\ \A x, y \in G : x[3] = y[3] => x = y
       /\ \A x \in G : x[3] \in {r, w}
       BY <1>10, <1>15
<1>18. \A d \in Fds : (\E x \in G : x[3] = d) <=> d \in {r, w} BY <1>15, <1>17
<1>19. \A x \in G : ~Present(file_descriptors[x[3]]) BY <1>10, <1>17 DEF Present
<1>20. OwnersSound' BY <1>5, <1>11, <1>12, <1>16, <1>17, <1>18, <1>19, LocalGain DEF OwnersInv
<1>21. ~Holds(t)' /\ ~Forking(t)' /\ ~Forking(t) BY <1>7, <1>9 DEF Holds, Forking
<1>22. OthersKept(t, p) BY <1>12 DEF OthersKept
<1>23. LookupSound(t)' BY <1>4, <1>6, <1>9, <1>12 DEF LookupSound
<1>24. ~fault' BY <1>1 DEF OwnersInv
<1> QED BY <1>1, <1>4, <1>5, <1>7, <1>9, <1>20, <1>21, <1>22, <1>23, <1>24, StepSound

(* The facts about one new descriptor that LocalGain and OwnersGain ask for. *)
LEMMA OneGain ==
    ASSUME NEW p, NEW h \in Handles, NEW e \in Fds, NEW G, G = {<<p, h, e>>}
    PROVE  /\ G \in SUBSET ({p} \X Handles \X Fds) /\ \A x, y \in G : x[3] = y[3] => x = y
           /\ \A x \in G : x[3] = e
           /\ \A d : (\E x \in G : x[3] = d) <=> d = e
           /\ \A q, k, d : <<q, k, d>> \in G <=> q = p /\ k = h /\ d = e
<1>1. \A x \in G : x[3] = e /\ x = <<p, h, e>> OBVIOUS
<1>2. <<p, h, e>> \in G /\ <<p, h, e>>[3] = e OBVIOUS
<1>3. \A q, k, d : <<q, k, d>> \in G <=> q = p /\ k = h /\ d = e OBVIOUS
<1>4. G \in SUBSET ({p} \X Handles \X Fds) OBVIOUS
<1> QED BY <1>1, <1>2, <1>3, <1>4

(* The duplicate that dup2 is going to store. *)
LEMMA Dup2Creates ==
    ASSUME CountsInv, CountsInv', OwnersInv, NEW t \in Threads, NEW p \in Procs, Steps(t, p), t # Urm,
           pc[t] = "create", job[t].call = "dup2", NEW e \in Fds, fd_create(e, job[t].intern),
           pc'[t] = "store", job'[t] = [job[t] EXCEPT !.fd = e],
           UNCHANGED <<file_handles, file_handles_lock, fault>>
    PROVE  OwnersInv'
<1> USE DEF CountsInv, OwnersInv
<1>1. job[t] \in Jobs /\ JobSound(t) BY DEF TypeOK, JobsSound
<1>2. PICK h \in Handles : h = job[t].new BY <1>1 DEF JobSound
<1>3. /\ job'[t].call = "dup2" /\ job'[t].fd = e /\ job'[t].new = h /\ job'[t].h = job[t].h
      /\ job'[t].old = job[t].old
      BY <1>1, <1>2 DEF Jobs
<1>4. job[t].intern \in Pipes \cup {FILE} BY <1>1 DEF Jobs
<1>5. ~Present(file_descriptors[e]) /\ \A d \in Fds : Present(file_descriptors'[d]) <=> Present(file_descriptors[d]) \/ d = e
      BY <1>4, Creates
<1>6. t \in UserThreads /\ p = t[1] BY Bounds DEF Steps, Proc
<1>7. \A k : (StaleBy(t, p, k) <=> k = h) /\ (StaleBy(t, p, k)' <=> k = h) BY <1>2, <1>3, <1>6 DEF StaleBy
<1>8. \A k, d : ~StoresAt(t, p, k, d) /\ (StoresAt(t, p, k, d)' <=> k = h /\ d = e) BY <1>3, <1>6 DEF StoresAt
<1>9. PICK G : G = {<<p, h, e>>} OBVIOUS
<1>10. \A k \in Handles, d \in Fds : OwnsBy(t, p, k, d)' <=> OwnsBy(t, p, k, d) \/ <<p, k, d>> \in G
  <2>1. \A k, d : <<p, k, d>> \in G <=> k = h /\ d = e BY <1>9, OneGain
  <2> QED BY <1>7, <1>8, <2>1 DEF OwnsBy
<1>11. OwnersSound'
  <2>1. /\ G \in SUBSET ({p} \X Handles \X Fds) /\ \A x, y \in G : x[3] = y[3] => x = y
        /\ \A x \in G : x[3] = e
        /\ \A d : (\E x \in G : x[3] = d) <=> d = e
        BY <1>9, OneGain
  <2> QED BY <1>5, <1>10, <2>1, LocalGain
<1>12. ~Holds(t)' /\ ~Forking(t)' /\ ~Forking(t) BY <1>3 DEF Holds, Forking
<1>13. LookupSound(t)'
  <2>1. LookupSound(t) BY <1>6 DEF LookupsSound
  <2>2. job[t].h # job[t].new /\ file_handles[t[1]][job[t].h] = job[t].old BY <2>1 DEF LookupSound
  <2> QED BY <1>2, <1>3, <2>2 DEF LookupSound, Closers
<1>14. OthersKept(t, p) BY DEF OthersKept
<1> QED BY <1>3, <1>11, <1>12, <1>13, <1>14, StepSound

(* The duplicate of F_DUPFD. *)
LEMMA DupfdCreates ==
    ASSUME CountsInv, CountsInv', OwnersInv, NEW t \in Threads, NEW p \in Procs, Steps(t, p), t # Urm,
           pc[t] = "create", job[t].call = "dupfd", NEW e \in Fds, fd_create(e, job[t].intern),
           pc'[t] = "user", job'[t] = NoJob, ReleasesIfHeld(t),
           file_handles' = [file_handles EXCEPT ![t[1]][job[t].new] = e], UNCHANGED fault
    PROVE  OwnersInv'
<1> USE DEF CountsInv
<1>1. job[t] \in Jobs /\ JobSound(t) BY DEF TypeOK, JobsSound
<1>2. PICK h \in Handles : h = job[t].new BY <1>1 DEF JobSound
<1>3. job[t].intern \in Pipes \cup {FILE} BY <1>1 DEF Jobs
<1>4. ~Present(file_descriptors[e]) /\ \A d \in Fds : Present(file_descriptors'[d]) <=> Present(file_descriptors[d]) \/ d = e
      BY <1>3, Creates
<1>5. t \in UserThreads /\ p = t[1] BY Bounds DEF Steps, Proc
<1>6. file_handles[p][h] = -1
  <2>1. LookupSound(t) BY <1>5 DEF OwnersInv, LookupsSound
  <2> QED BY <1>2, <1>5, <2>1 DEF LookupSound
<1>7. file_handles' = [file_handles EXCEPT ![p][h] = e] BY <1>2, <1>5
<1>8. /\ file_handles'[p][h] = e
      /\ \A k \in Handles \ {h} : file_handles'[p][k] = file_handles[p][k]
      /\ \A q \in Procs \ {p} : file_handles'[q] = file_handles[q]
      BY ONLY <1>7, TypeOK, p \in Procs, h \in Handles, HandleStored
<1>9. \A k, d : ~StaleBy(t, p, k) /\ ~StoresAt(t, p, k, d) BY DEF StaleBy, StoresAt
<1>10. \A k, d : ~StaleBy(t, p, k)' /\ ~StoresAt(t, p, k, d)' BY DEF StaleBy, StoresAt, NoJob
<1>11. PICK G : G = {<<p, h, e>>} OBVIOUS
<1>12. \A k \in Handles, d \in Fds : OwnsBy(t, p, k, d)' <=> OwnsBy(t, p, k, d) \/ <<p, k, d>> \in G
  <2>1. \A k, d : <<p, k, d>> \in G <=> k = h /\ d = e BY <1>11, OneGain
  <2> QED BY <1>6, <1>8, <1>9, <1>10, <2>1, Bounds DEF OwnsBy
<1>13. OwnersSound'
  <2>1. /\ G \in SUBSET ({p} \X Handles \X Fds) /\ \A x, y \in G : x[3] = y[3] => x = y
        /\ \A x \in G : x[3] = e
        /\ \A d : (\E x \in G : x[3] = d) <=> d = e
        BY <1>11, OneGain
  <2>2. \A x \in G : ~Present(file_descriptors[x[3]]) BY <1>4, <2>1
  <2>3. \A d \in Fds : Present(file_descriptors'[d]) <=> Present(file_descriptors[d]) \/ \E x \in G : x[3] = d
        BY <1>4, <2>1
  <2>4. JobsSound /\ JobsSound' /\ OwnersSound BY DEF OwnersInv
  <2> QED BY ONLY <1>8, <1>12, <2>1, <2>2, <2>3, <2>4, t \in Threads, p \in Procs, Steps(t, p), LocalGain
<1>14. file_handles' = [file_handles EXCEPT ![t[1]][h] = e] BY <1>2
<1> QED BY <1>13, <1>14, StoreReturns DEF Forking

(* The duplicate of fork, in the table of the child. *)
LEMMA ForkCreates ==
    ASSUME CountsInv, CountsInv', OwnersInv, NEW t \in Threads, NEW p \in Procs, Steps(t, p), t # Urm,
           pc[t] = "create", job[t].call = "fork", NEW e \in Fds, fd_create(e, job[t].intern),
           pc'[t] = "fork", job'[t] = [job[t] EXCEPT !.h = @ + 1],
           file_handles' = [file_handles EXCEPT ![job[t].new][job[t].h] = e],
           UNCHANGED <<file_handles_lock, fault>>
    PROVE  OwnersInv'
<1> USE DEF CountsInv, OwnersInv
<1>1. job[t] \in Jobs /\ JobSound(t) BY DEF TypeOK, JobsSound
<1>2. PICK c \in Procs, h \in Handles : c = job[t].new /\ h = job[t].h BY <1>1 DEF JobSound
<1>3. job[t].intern \in Pipes \cup {FILE} /\ h \in Nat BY <1>1, Bounds DEF Jobs
<1>4. job'[t].call = "fork" /\ job'[t].h = h + 1 /\ job'[t].new = c BY <1>1, <1>2 DEF Jobs
<1>5. ~Present(file_descriptors[e]) /\ \A d \in Fds : Present(file_descriptors'[d]) <=> Present(file_descriptors[d]) \/ d = e
      BY <1>3, Creates
<1>6. t \in UserThreads /\ p = t[1] /\ Forking(t) BY Bounds DEF Steps, Proc, Forking
<1>7. c \notin alive /\ c # p BY <1>2, <1>6 DEF ForksSound, Steps
<1>8. file_handles[c][h] = -1
  <2>1. \A u \in UserThreads : Forking(u) /\ job[u].new = c => job[u].h <= h BY <1>2, <1>3, <1>6 DEF ForksSound
  <2> QED BY <1>7, <2>1 DEF ForksSound
<1>9. file_handles' = [file_handles EXCEPT ![c][h] = e] BY <1>2
<1>10. /\ file_handles'[c][h] = e
       /\ \A k \in Handles \ {h} : file_handles'[c][k] = file_handles[c][k]
       /\ \A q \in Procs \ {c} : file_handles'[q] = file_handles[q]
       BY ONLY <1>9, TypeOK, c \in Procs, h \in Handles, HandleStored
<1>11. Acts(t) /\ Alone(t) /\ victim' = victim /\ p = Proc(t) BY DEF Steps, people
<1>12. \A k, d : ~StaleBy(t, p, k) /\ ~StoresAt(t, p, k, d) BY DEF StaleBy, StoresAt
<1>13. \A k, d : ~StaleBy(t, p, k)' /\ ~StoresAt(t, p, k, d)' BY <1>4 DEF StaleBy, StoresAt
<1>14. \A k \in Handles, d \in Fds : Owns(c, h, d)' <=> d = e
  <2>1. ASSUME NEW u \in Threads, NEW d PROVE ~StaleBy(u, c, h)' /\ ~StoresAt(u, c, h, d)'
    <3>1. Proc(u) = c => pc[u] = "user" BY <1>2, <1>6, ChildIdle
    <3>2. Proc(u) = c => u # t BY <1>7, <1>11
    <3>3. Proc(u) = c => pc'[u] = "user" BY <1>11, <3>1, <3>2 DEF Acts
    <3> QED BY <1>11, <3>3, StaleBusyNext
  <2> QED BY <1>10, <2>1 DEF Owns
<1>15. PICK G : G = {<<c, h, e>>} OBVIOUS
<1>16. \A q, k, d : <<q, k, d>> \in G <=> q = c /\ k = h /\ d = e BY <1>15, OneGain
<1>17. ASSUME NEW q \in Procs, NEW k \in Handles, NEW d \in Fds
       PROVE  Owns(q, k, d)' <=> Owns(q, k, d) \/ <<q, k, d>> \in G
  <2>1. CASE q = p
    <3>1. OwnsBy(t, p, k, d)' <=> OwnsBy(t, p, k, d) BY <1>7, <1>10, <1>12, <1>13 DEF OwnsBy
    <3> QED BY <1>7, <1>11, <1>16, <2>1, <3>1, OwnsAlone, OwnsAloneNext
  <2>2. CASE q # p /\ ~(q = c /\ k = h)
    <3>1. file_handles'[q][k] = file_handles[q][k] BY <1>10, <2>2
    <3> QED BY <1>11, <1>16, <2>2, <3>1, OwnsElsewhere
  <2>3. CASE q = c /\ k = h
    <3>1. ASSUME Owns(c, h, d) PROVE FALSE
      <4>1. PICK u \in Threads : StoresAt(u, c, h, d) BY <1>8, <3>1, Bounds DEF Owns
      <4>2. Proc(u) = c /\ pc[u] # "user" BY <4>1, StaleBusy
      <4> QED BY <1>2, <1>6, <4>2, ChildIdle
    <3> QED BY <1>14, <1>16, <2>3, <3>1
  <2> QED BY <2>1, <2>2, <2>3
<1>18. OwnersSound'
  <2>1. /\ G \in SUBSET ({c} \X Handles \X Fds) /\ \A x, y \in G : x[3] = y[3] => x = y
        /\ \A x \in G : x[3] = e
        /\ \A d : (\E x \in G : x[3] = d) <=> d = e
        BY <1>15, OneGain
  <2>2. G \in SUBSET (Procs \X Handles \X Fds) BY <2>1
  <2> QED BY <1>5, <1>17, <2>1, <2>2, OwnersGain
<1>19. ~Holds(t)' /\ Forking(t)' BY <1>4 DEF Holds, Forking
<1>20. LookupSound(t)' BY <1>4 DEF LookupSound
<1>21. OthersKept(t, p)
  <2>1. \A k \in Handles : k < job'[t].h \/ file_handles'[c][k] = file_handles[c][k]
        BY <1>3, <1>4, <1>10
  <2> QED BY <1>2, <1>6, <1>10, <2>1 DEF OthersKept
<1>22. job[t].h <= job'[t].h BY <1>2, <1>3, <1>4
<1> QED BY <1>2, <1>4, <1>6, <1>18, <1>19, <1>20, <1>21, <1>22, StepSound

(* The end of dup. *)
LEMMA CreateOwners ==
    ASSUME CountsInv, CountsInv', OwnersInv, NEW t \in Threads, FdCreate(t)
    PROVE  OwnersInv'
<1> USE DEF CountsInv
<1>1. Continue(t) /\ UNCHANGED people BY DEF Continue, FdCreate
<1>2. JobStep(t) /\ job[t].fd \in Fds /\ t # Urm /\ pc[t] = "create" /\ job[t].call \in Dups BY CreateJob
<1>3. PICK p \in Procs : Steps(t, p) BY <1>1, <1>2, ContinueSteps DEF JobStep
<1>4. Present(file_descriptors[Fd(t)]) BY <1>2, <1>3, Bounds, LookedUpPresent DEF Steps, Fd
<1>5. file_descriptors[Fd(t)] # NULL BY <1>4 DEF Present
<1>6. UNCHANGED fault BY <1>5 DEF FdCreate
<1>7. PICK d \in Fds :
         /\ fd_create(d, job[t].intern)
         /\ job[t].call = "dup2" =>
               /\ pc'[t] = "store" /\ job'[t] = [job[t] EXCEPT !.fd = d]
               /\ UNCHANGED <<file_handles, file_handles_lock>>
         /\ job[t].call = "dupfd" =>
               /\ pc'[t] = "user" /\ job'[t] = NoJob /\ ReleasesIfHeld(t)
               /\ file_handles' = [file_handles EXCEPT ![t[1]][job[t].new] = d]
         /\ job[t].call = "fork" =>
               /\ pc'[t] = "fork" /\ job'[t] = [job[t] EXCEPT !.h = @ + 1]
               /\ file_handles' = [file_handles EXCEPT ![job[t].new][job[t].h] = d]
               /\ UNCHANGED file_handles_lock
      BY <1>5, CreateJob
<1>8. CASE job[t].call = "dup2" BY <1>2, <1>3, <1>6, <1>7, <1>8, Dup2Creates
<1>9. CASE job[t].call = "dupfd" BY <1>2, <1>3, <1>6, <1>7, <1>9, DupfdCreates
<1>10. CASE job[t].call = "fork" BY <1>2, <1>3, <1>6, <1>7, <1>10, ForkCreates
<1> QED BY <1>2, <1>8, <1>9, <1>10 DEF Dups

(* dup2 stores its descriptor. *)
LEMMA StoresOwners ==
    ASSUME CountsInv, CountsInv', OwnersInv, NEW t \in Threads, Dup2Stores(t)
    PROVE  OwnersInv'
<1> USE DEF CountsInv
<1>1. Continue(t) /\ UNCHANGED <<file_handles_lock, file_descriptors, people, fault>>
      BY DEF Continue, Dup2Stores, arrays
<1>2. /\ JobStep(t) /\ t # Urm /\ pc[t] = "store" /\ job[t].call = "dup2"
      /\ job[t].fd \in Fds /\ job[t].new \in Handles /\ pc'[t] = "user" /\ job'[t] = NoJob
      BY StoresJob
<1>3. PICK p \in Procs : Steps(t, p) BY <1>1, <1>2, ContinueSteps DEF JobStep
<1>4. PICK h \in Handles, e \in Fds : h = job[t].new /\ e = job[t].fd BY <1>2
<1>5. p = t[1] BY <1>2, <1>3 DEF Steps, Proc
<1>6. file_handles' = [file_handles EXCEPT ![p][h] = e] BY <1>4, <1>5 DEF Dup2Stores, Fd
<1>7. /\ file_handles'[p][h] = e
      /\ \A k \in Handles \ {h} : file_handles'[p][k] = file_handles[p][k]
      /\ \A q \in Procs \ {p} : file_handles'[q] = file_handles[q]
      BY ONLY <1>6, TypeOK, p \in Procs, h \in Handles, HandleStored
<1>8. \A k : StaleBy(t, p, k) <=> k = h BY <1>2, <1>4, <1>5 DEF StaleBy
<1>9. \A k, d : StoresAt(t, p, k, d) <=> k = h /\ d = e BY <1>2, <1>4, <1>5 DEF StoresAt
<1>10. \A k, d : ~StaleBy(t, p, k)' /\ ~StoresAt(t, p, k, d)' BY <1>2 DEF StaleBy, StoresAt, NoJob
<1>11. \A k \in Handles, d \in Fds : OwnsBy(t, p, k, d)' <=> OwnsBy(t, p, k, d)
       BY <1>7, <1>8, <1>9, <1>10 DEF OwnsBy
<1>12. OwnersSound' BY <1>1, <1>3, <1>7, <1>11, LocalQuiet DEF OwnersInv
<1>13. ~Forking(t) BY <1>2 DEF Forking
<1>14. file_handles' = [file_handles EXCEPT ![t[1]][h] = e] BY <1>5, <1>6
<1> QED BY <1>1, <1>2, <1>3, <1>12, <1>13, <1>14, StoreReturns

-----------------------------------------------------------------------------
(* close copies the descriptor, which is there. *)
LEMMA CopiesOwners ==
    ASSUME CountsInv, CountsInv', OwnersInv, NEW t \in Threads, close(t)
    PROVE  OwnersInv'
<1> USE DEF CountsInv
<1>1. Continue(t) /\ UNCHANGED people BY DEF Continue, close
<1>2. /\ JobStep(t) /\ Fd(t) \in Fds /\ pc[t] = "close" BY CopiesJob
<1>3. PICK p \in Procs : Steps(t, p) BY <1>1, <1>2, ContinueSteps DEF JobStep
<1>4. p = Proc(t) /\ Alone(t) BY <1>3 DEF Steps
<1>5. Present(file_descriptors[Fd(t)]) BY <1>2, <1>4, Bounds, LookedUpPresent
<1>6. pc'[t] = "copied" /\ job'[t] = [job[t] EXCEPT !.intern = file_descriptors[Fd(t)].intern]
      BY <1>5, CopiesJob
<1>7. job[t] \in Jobs BY DEF TypeOK
<1>8. /\ job'[t].call = job[t].call /\ job'[t].h = job[t].h /\ job'[t].new = job[t].new
      /\ job'[t].fd = job[t].fd /\ job'[t].old = job[t].old
      BY <1>6, <1>7 DEF Jobs
<1>9. UNCHANGED <<file_handles, file_handles_lock, fault>> BY <1>5 DEF close
<1>10. \A d \in Fds : Present(file_descriptors'[d]) <=> Present(file_descriptors[d])
  <2>1. file_descriptors' = [file_descriptors EXCEPT ![Fd(t)].refcount = @ + 1] BY <1>5 DEF close
  <2>2. file_descriptors \in [Fds -> Descriptors \cup {NULL}] BY DEF TypeOK
  <2>3. \A d \in Fds \ {Fd(t)} : file_descriptors'[d] = file_descriptors[d] BY <2>1, <2>2
  <2>4. ~CloseRemoves(t) BY <1>2 DEF CloseRemoves, At
  <2>5. Keeps(Fd(t)) BY <1>1, <1>2, <2>4, PresentKept, TypeParts DEF ArraysSound
  <2> QED BY <1>5, <2>3, <2>5 DEF Keeps
<1>11. pc[t] \in Closers /\ pc'[t] \in Closers BY <1>2, <1>6 DEF Closers
<1> QED BY <1>3, <1>8, <1>9, <1>10, <1>11, ClosersMove

(* It gives its reference back, and the descriptor stays. *)
LEMMA CloseUnrefOwners ==
    ASSUME CountsInv, CountsInv', OwnersInv, NEW t \in Threads, CloseUnref(t)
    PROVE  OwnersInv'
<1> USE DEF CountsInv
<1>1. Continue(t) /\ UNCHANGED <<people, file_handles, file_handles_lock, fault>> BY DEF Continue, CloseUnref
<1>2. JobStep(t) /\ Fd(t) \in Fds /\ pc[t] = "copied" /\ pc'[t] = "remove" /\ job'[t] = job[t] BY CloseUnrefJob
<1>3. PICK p \in Procs : Steps(t, p) BY <1>1, <1>2, ContinueSteps DEF JobStep
<1>4. \A d \in Fds : Present(file_descriptors'[d]) <=> Present(file_descriptors[d])
  <2>1. file_descriptors' = [file_descriptors EXCEPT ![Fd(t)] = UnrefFd(@)] BY DEF CloseUnref
  <2>2. file_descriptors \in [Fds -> Descriptors \cup {NULL}] BY DEF TypeOK
  <2>3. \A d \in Fds \ {Fd(t)} : file_descriptors'[d] = file_descriptors[d] BY <2>1, <2>2
  <2>4. ~CloseRemoves(t) BY <1>2 DEF CloseRemoves, At
  <2>5. Keeps(Fd(t)) BY <1>1, <1>2, <2>4, PresentKept, TypeParts DEF ArraysSound
  <2>6. Present(file_descriptors[Fd(t)]) BY <1>2 DEF ClosersSound
  <2> QED BY <2>3, <2>5, <2>6 DEF Keeps
<1>5. pc[t] \in Closers /\ pc'[t] \in Closers BY <1>2 DEF Closers
<1> QED BY <1>1, <1>2, <1>3, <1>4, <1>5, ClosersMove

(* It takes the descriptor from the handle that owns it. *)
LEMMA LeavesOwners ==
    ASSUME CountsInv, CountsInv', OwnersInv, NEW t \in Threads, CloseRemoves(t)
    PROVE  OwnersInv'
<1> USE DEF CountsInv, OwnersInv
<1>1. Continue(t) /\ UNCHANGED <<file_handles, file_handles_lock, people, fault>> BY DEF Continue, CloseRemoves
<1>2. JobStep(t) /\ Fd(t) \in Fds /\ pc[t] = "remove" /\ job[t].call \in Closing BY LeavesJob
<1>3. PICK p \in Procs : Steps(t, p) BY <1>1, <1>2, ContinueSteps DEF JobStep
<1>4. PICK e \in Fds : e = Fd(t) BY <1>2
<1>5. p = Proc(t) /\ Alone(t) /\ victim' = victim BY <1>3 DEF Steps, people
<1>6. Present(file_descriptors[e]) BY <1>2, <1>4 DEF ClosersSound
<1>7. pc'[t] \in {"closed", "pipe"} /\ job'[t] = [job[t] EXCEPT !.fd = -1] BY LeavesJob
<1>8. job[t] \in Jobs /\ JobSound(t) /\ JobSound(t)' BY DEF TypeOK, JobsSound
<1>9. /\ job'[t].call = job[t].call /\ job'[t].h = job[t].h /\ job'[t].new = job[t].new
      /\ job'[t].fd = -1 /\ job'[t].old = job[t].old
      BY <1>7, <1>8 DEF Jobs
<1>10. IsClose(t)' BY <1>7, <1>9 DEF IsClose, Fd
<1>11. \E k \in Handles : /\ file_handles[p][k] = e /\ ~StaleBy(t, p, k)
                          /\ \A h \in Handles : StaleBy(t, p, h)' <=> StaleBy(t, p, h) \/ h = k
  <2>1. CASE job[t].call = "close"
    <3>1. t # Urm /\ job[t].h \in Handles BY <1>8, <2>1 DEF JobSound, ByHandle
    <3>2. t \in UserThreads /\ p = t[1] BY <1>5, <3>1, Bounds DEF Proc
    <3>3. LookupSound(t) BY <3>2 DEF LookupsSound
    <3>4. file_handles[p][job[t].h] = e BY <1>2, <1>4, <2>1, <3>2, <3>3 DEF LookupSound, Closers, Fd
    <3>5. \A h : ~StaleBy(t, p, h) /\ (StaleBy(t, p, h)' <=> h = job[t].h)
          BY <1>2, <1>9, <1>10, <2>1, <3>1, <3>2 DEF StaleBy, IsClose
    <3> QED BY <3>1, <3>4, <3>5
  <2>2. CASE job[t].call = "dup2"
    <3>1. t # Urm /\ job[t].new \in Handles BY <1>8, <2>2 DEF JobSound
    <3>2. t \in UserThreads /\ p = t[1] BY <1>5, <3>1, Bounds DEF Proc
    <3>3. LookupSound(t) BY <3>2 DEF LookupsSound
    <3>4. file_handles[p][job[t].new] = e BY <1>2, <1>4, <2>2, <3>2, <3>3 DEF LookupSound, Closers, Fd
    <3>5. \A h : ~StaleBy(t, p, h) /\ (StaleBy(t, p, h)' <=> h = job[t].new)
          BY <1>2, <1>7, <1>9, <2>2, <3>1, <3>2 DEF StaleBy
    <3> QED BY <3>1, <3>4, <3>5
  <2>3. CASE job[t].call = "exit"
    <3>1. t = Urm /\ job[t].h \in Handles BY <1>2, <1>8, <2>3 DEF JobSound
    <3>2. p = victim BY <1>5, <3>1 DEF Proc
    <3>3. file_handles[p][job[t].h] = e BY <1>2, <1>4, <3>1, <3>2 DEF LookupsSound, Closers, Fd
    <3>4. \A h \in Handles : StaleBy(t, p, h) <=> job[t].h > h
          BY <1>2, <2>3, <3>1, <3>2 DEF StaleBy, IsClose
    <3>5. \A h \in Handles : StaleBy(t, p, h)' <=> job[t].h > h \/ job[t].h = h
          BY <1>5, <1>9, <1>10, <2>3, <3>1, <3>2 DEF StaleBy
    <3>6. ~(job[t].h > job[t].h) BY <3>1, Bounds
    <3> QED BY <3>1, <3>3, <3>4, <3>5, <3>6
  <2> QED BY <1>2, <2>1, <2>2, <2>3 DEF Closing
<1>12. PICK k \in Handles : /\ file_handles[p][k] = e /\ ~StaleBy(t, p, k)
                            /\ \A h \in Handles : StaleBy(t, p, h)' <=> StaleBy(t, p, h) \/ h = k
       BY <1>11
<1>13. \A h, d : ~StoresAt(t, p, h, d) /\ ~StoresAt(t, p, h, d)' BY <1>2, <1>7 DEF StoresAt
<1>14. OwnsBy(t, p, k, e) BY <1>12 DEF OwnsBy
<1>15. ASSUME NEW h \in Handles, NEW d \in Fds PROVE OwnsBy(t, p, h, d)' <=> OwnsBy(t, p, h, d) /\ d # e
  <2>1. OwnsBy(t, p, h, d)' <=> OwnsBy(t, p, h, d) /\ h # k BY <1>1, <1>12, <1>13 DEF OwnsBy
  <2>2. OwnsBy(t, p, k, d) => d = e BY <1>12, <1>13 DEF OwnsBy
  <2>3. OwnsBy(t, p, h, e) => h = k
    <3>1. Owns(p, k, e) BY <1>5, <1>14, OwnsAlone
    <3>2. OwnsBy(t, p, h, e) => Owns(p, h, e) BY <1>5, OwnsAlone
    <3> QED BY <3>1, <3>2 DEF OwnersSound
  <2> QED BY <2>1, <2>2, <2>3
<1>16. \A d \in Fds : Present(file_descriptors'[d]) <=> Present(file_descriptors[d]) /\ d # e
  <2>1. file_descriptors \in [Fds -> Descriptors \cup {NULL}] BY DEF TypeOK
  <2>2. file_descriptors[e] \in Descriptors BY <1>6, <2>1 DEF Present
  <2>3. PICK gone : gone = [file_descriptors[e] EXCEPT !.present = FALSE] OBVIOUS
  <2>4. ~gone.present BY <2>2, <2>3 DEF Descriptors
  <2>5. file_descriptors' = [file_descriptors EXCEPT ![e] = UnrefFd(gone)] BY <1>4, <1>6, <2>3 DEF CloseRemoves, Present
  <2>6. file_descriptors'[e] = UnrefFd(gone) BY <2>1, <2>5
  <2>7. ~Present(UnrefFd(gone))
    <3>1. gone \in Descriptors BY <2>2, <2>3 DEF Descriptors
    <3>2. [gone EXCEPT !.refcount = @ - 1].present = gone.present BY <3>1 DEF Descriptors
    <3> QED BY <2>4, <3>2 DEF Present, UnrefFd
  <2>8. \A d \in Fds \ {e} : file_descriptors'[d] = file_descriptors[d] BY <2>1, <2>5
  <2> QED BY <2>6, <2>7, <2>8
<1>17. OwnersSound' BY <1>1, <1>3, <1>14, <1>15, <1>16, LocalLoss
<1>18. Holds(t)' <=> Holds(t) BY <1>2, <1>7, <1>9 DEF Holds
<1>19. ~Forking(t) /\ ~Forking(t)' BY <1>2, <1>9 DEF Forking, Closing
<1>20. ASSUME t # Urm PROVE LookupSound(t)' /\ (Holds(t)' => file_handles_lock'[t[1]] = t)
  <2>1. t \in UserThreads BY <1>20, Bounds
  <2>2. LookupSound(t) /\ (Holds(t) => file_handles_lock[t[1]] = t) BY <2>1 DEF LookupsSound, LocksSound
  <2>3. LookupSound(t)' BY <1>1, <1>2, <1>7, <1>9, <2>2 DEF LookupSound, Closers, Closing
  <2> QED BY <1>1, <1>18, <2>2, <2>3
<1>21. OthersKept(t, p) BY <1>1 DEF OthersKept
<1>22. pc'[t] \notin Closers /\ pc[t] # "user" /\ ~fault' BY <1>1, <1>2, <1>7 DEF Closers
<1> QED BY <1>1, <1>2, <1>3, <1>9, <1>17, <1>19, <1>20, <1>21, <1>22, StepSound

(* After a close: the handle is cleared, dup2 goes on, the monitor does. *)
LEMMA ClosedOwners ==
    ASSUME CountsInv, CountsInv', OwnersInv, NEW t \in Threads, Closed(t)
    PROVE  OwnersInv'
<1> USE DEF CountsInv, OwnersInv
<1>1. Continue(t) /\ UNCHANGED <<file_descriptors, people, fault>> BY DEF Continue, Closed, arrays
<1>2. JobStep(t) /\ pc[t] = "closed" /\ job[t].call \in Closing /\ job[t].fd = -1 BY ClosedJob
<1>3. PICK p \in Procs : Steps(t, p) BY <1>1, <1>2, ContinueSteps DEF JobStep
<1>4. job[t] \in Jobs /\ JobSound(t) BY DEF TypeOK, JobsSound
<1>5. p = Proc(t) /\ victim' = victim BY <1>3 DEF Steps, people
<1>6. IsClose(t) BY <1>2 DEF IsClose, Fd
<1>7. CASE job[t].call = "close"
  <2>1. /\ t # Urm /\ job[t].h \in Handles /\ ReleasesIfHeld(t) /\ pc'[t] = "user" /\ job'[t] = NoJob
        /\ file_handles' = [file_handles EXCEPT ![t[1]][job[t].h] = -1]
        BY <1>7, ClosedJob
  <2>2. PICK h \in Handles : h = job[t].h BY <2>1
  <2>3. p = t[1] BY <1>5, <2>1 DEF Proc
  <2>4. file_handles' = [file_handles EXCEPT ![p][h] = -1] BY <2>1, <2>2, <2>3
  <2>5. /\ file_handles'[p][h] = -1
        /\ \A k \in Handles \ {h} : file_handles'[p][k] = file_handles[p][k]
        /\ \A q \in Procs \ {p} : file_handles'[q] = file_handles[q]
        BY ONLY <2>4, TypeOK, p \in Procs, h \in Handles, HandleStored
  <2>6. \A k : StaleBy(t, p, k) <=> k = h BY <1>6, <1>7, <2>1, <2>2, <2>3 DEF StaleBy
  <2>7. \A k, d : ~StoresAt(t, p, k, d) /\ ~StaleBy(t, p, k)' /\ ~StoresAt(t, p, k, d)'
        BY <1>2, <2>1 DEF StaleBy, StoresAt, NoJob
  <2>8. \A k \in Handles, d \in Fds : OwnsBy(t, p, k, d)' <=> OwnsBy(t, p, k, d)
        BY <2>5, <2>6, <2>7, Bounds DEF OwnsBy
  <2>9. OwnersSound' BY <1>1, <1>3, <2>5, <2>8, LocalQuiet
  <2>10. ~Forking(t) /\ pc[t] # "user" BY <1>2, <1>7 DEF Forking
  <2>11. file_handles' = [file_handles EXCEPT ![t[1]][h] = -1] BY <2>3, <2>4
  <2> QED BY <1>1, <1>3, <2>1, <2>9, <2>10, <2>11, StoreReturns
<1>8. CASE job[t].call = "dup2"
  <2>1. /\ t # Urm /\ UNCHANGED <<file_handles, file_handles_lock>> /\ pc'[t] = "fd"
        /\ job'[t] = [job[t] EXCEPT !.fd = job[t].old]
        BY <1>8, ClosedJob
  <2>2. /\ job'[t].call = "dup2" /\ job'[t].h = job[t].h /\ job'[t].new = job[t].new
        /\ job'[t].fd = job[t].old /\ job'[t].old = job[t].old
        BY <1>4, <1>8, <2>1 DEF Jobs
  <2>3. \A h : StaleBy(t, p, h)' <=> StaleBy(t, p, h) BY <1>2, <1>8, <2>1, <2>2 DEF StaleBy
  <2>4. ~Holds(t)' /\ ~Forking(t)' /\ ~Forking(t) BY <1>8, <2>2 DEF Holds, Forking
  <2>5. t \in UserThreads BY <2>1, Bounds
  <2>6. LookupSound(t) BY <2>5 DEF LookupsSound
  <2>7. LookupSound(t)' BY <1>2, <1>8, <2>1, <2>2, <2>6 DEF LookupSound, Closers
  <2> QED BY <1>1, <1>2, <1>3, <1>8, <2>1, <2>2, <2>3, <2>4, <2>7, QuietOwners
<1>9. CASE job[t].call = "exit"
  <2>1. /\ t = Urm /\ UNCHANGED <<file_handles, file_handles_lock>> /\ pc'[t] = "exit"
        /\ job'[t] = [job[t] EXCEPT !.h = @ + 1]
        BY <1>9, ClosedJob
  <2>2. job[t].h \in Nat BY <1>4, DescriptorsAssumption DEF Jobs
  <2>3. job'[t].call = "exit" /\ job'[t].h = job[t].h + 1 BY <1>4, <1>9, <2>1 DEF Jobs
  <2>4. p = victim /\ Urm[1] # p BY <1>5, <2>1, DescriptorsAssumption DEF Proc, Urm
  <2>5. ASSUME NEW h \in Handles PROVE StaleBy(t, p, h)' <=> StaleBy(t, p, h)
    <3>1. StaleBy(t, p, h) <=> job[t].h > h \/ job[t].h = h BY <1>6, <1>9, <2>1, <2>4 DEF StaleBy
    <3>2. StaleBy(t, p, h)' <=> job[t].h + 1 > h
          BY <1>5, <2>1, <2>3, <2>4 DEF StaleBy, IsClose
    <3>3. h \in Nat BY Bounds
    <3> QED BY <2>2, <3>1, <3>2, <3>3
  <2>6. ~Forking(t)' /\ ~Forking(t) BY <1>9, <2>3 DEF Forking
  <2>7. pc[t] # "store" /\ pc'[t] # "store" /\ pc'[Urm] \notin Closers BY <1>2, <2>1 DEF Closers
  <2> QED BY <1>1, <1>3, <2>1, <2>5, <2>6, <2>7, QuietOwners
<1> QED BY <1>2, <1>7, <1>8, <1>9 DEF Closing

(* A step within a call. *)
LEMMA ContinueOwners ==
    ASSUME CountsInv, CountsInv', OwnersInv, NEW t \in Threads, Continue(t)
    PROVE  OwnersInv'
<1>1. CASE Refused(t) BY <1>1, RefusedOwners
<1>2. CASE syscall_read(t) BY <1>2, LocksOwners DEF syscall_read
<1>3. CASE syscall_write(t) BY <1>3, LocksOwners DEF syscall_write
<1>4. CASE syscall_close(t) BY <1>4, LocksOwners DEF syscall_close
<1>5. CASE syscall_stat(t) BY <1>5, LocksOwners DEF syscall_stat
<1>6. CASE syscall_open(t) \/ syscall_pipe(t) \/ syscall_dup2(t) \/ syscall_fcntl(t) \/ fcntl_dupfd(t)
      BY <1>6, OpenOwners, PipeCallOwners, Dup2Owners, FcntlOwners, DupfdOwners
<1>7. CASE ForkBegins(t) \/ ForkCopies(t) \/ ForkEnds(t)
      BY <1>7, ForkBeginsOwners, ForkCopiesOwners, ForkEndsOwners
<1>8. CASE PipeGet(t) \/ pipe_read(t) \/ PipeBlocks(t) \/ PipeWoken(t) \/ PipeAborted(t) \/ pipe_write(t)
              \/ pipe_setflflags(t) \/ pipe_dup(t) \/ pipe_close(t) \/ PipeUnref(t)
      BY <1>8, PipeOwners
<1>9. CASE FdGet(t) \/ FdUnref(t) \/ FdCreate(t) \/ Dup2Stores(t) \/ close(t) \/ CloseUnref(t)
              \/ CloseRemoves(t) \/ Closed(t)
      BY <1>9, FdGetOwners, FdUnrefOwners, CreateOwners, StoresOwners, CopiesOwners, CloseUnrefOwners,
         LeavesOwners, ClosedOwners
<1> QED BY <1>1, <1>2, <1>3, <1>4, <1>5, <1>6, <1>7, <1>8, <1>9 DEF Continue

(* A call begins; one that needs to be apart is. *)
LEMMA EnterOwners ==
    ASSUME ~Races, CountsInv, CountsInv', OwnersInv, NEW t \in Threads, NEW call \in Calls, NEW h \in Handles,
           NEW new \in Handles, NEW n \in Nat, call = "fork" => h = 0 /\ new = 0, Enter(t, call, h, new, n)
    PROVE  OwnersInv'
<1> USE DEF CountsInv, OwnersInv
<1>1. UNCHANGED <<file_handles, file_handles_lock, file_descriptors, people, fault>> BY DEF Enter, arrays
<1>2. JobStep(t) /\ t # Urm /\ pc'[t] = "lock" BY EnterJob
<1>3. job'[t].call = call
  <2>1. PICK j : j = [NoJob EXCEPT !.call = call, !.h = h, !.new = new, !.n = n] OBVIOUS
  <2>2. job' = [job EXCEPT ![t] = j] BY <2>1 DEF Enter
  <2>3. job'[t] = j BY <2>2 DEF TypeOK
  <2>4. j.call = call BY <2>1 DEF NoJob
  <2> QED BY <2>3, <2>4
<1>4. pc[t] = "user" /\ t \in running /\ Serial(t, call) BY DEF Enter, At
<1>5. JobSound(t) /\ JobSound(t)' /\ Acts(t) BY <1>2 DEF JobsSound, JobStep
<1>6. job[t] = NoJob BY <1>4, <1>5 DEF JobSound
<1>7. \A u \in UserThreads \ {t} : u \in Threads /\ pc'[u] = pc[u] /\ job'[u] = job[u] BY <1>5, Bounds DEF Acts
<1>8. pc'[Urm] = pc[Urm] /\ job'[Urm] = job[Urm] BY <1>2, <1>5, Bounds DEF Acts
<1>9. t \in UserThreads BY <1>2, Bounds
<1>10. OwnersSound'
  <2>1. \A k, d, q : ~StaleBy(t, q, k) /\ ~StoresAt(t, q, k, d)
        BY <1>2, <1>4, <1>6 DEF StaleBy, StoresAt, NoJob
  <2>2. \A k, d, q : ~StaleBy(t, q, k)' /\ ~StoresAt(t, q, k, d)'
        BY <1>2 DEF StaleBy, StoresAt, IsClose
  <2>3. victim' = victim BY <1>1 DEF people
  <2>4. \A u \in Threads : \A q, k, d : /\ StaleBy(u, q, k)' <=> StaleBy(u, q, k)
                                        /\ StoresAt(u, q, k, d)' <=> StoresAt(u, q, k, d)
        BY <1>5, <2>1, <2>2, <2>3, ClaimsKept
  <2>5. \A q \in Procs, k \in Handles, d \in Fds : Owns(q, k, d)' <=> Owns(q, k, d) BY <1>1, <2>4 DEF Owns
  <2> QED BY <1>1, <2>5, OwnersQuiet
<1>11. ThreadsSound' BY <1>1, <1>4, <1>7, <1>8 DEF ThreadsSound, people
<1>12. CallsApart'
  <2>1. ASSUME NEW u \in UserThreads \ {t}, u[1] = t[1], pc[u] # "user"
        PROVE  call \notin Unlocked /\ job[u].call \notin Unlocked
    <3>1. u \in running \ {t} BY <2>1 DEF ThreadsSound
    <3> QED BY <1>4, <2>1, <3>1 DEF Serial
  <2>2. ASSUME NEW v \in UserThreads, NEW u \in UserThreads, v # u, v[1] = u[1], pc'[v] # "user", pc'[u] # "user"
        PROVE  job'[v].call \notin Unlocked
    <3>1. CASE v = t BY <1>3, <1>7, <2>1, <2>2, <3>1
    <3>2. CASE u = t BY <1>7, <2>1, <2>2, <3>2
    <3>3. CASE v # t /\ u # t BY <1>7, <2>2, <3>3 DEF CallsApart
    <3> QED BY <3>1, <3>2, <3>3
  <2> QED BY <2>2 DEF CallsApart
<1>13. LocksSound'
  <2>1. ~Holds(t)' BY <1>2 DEF Holds
  <2> QED BY <1>1, <1>5, <2>1, LocksKept
<1>14. ForksSound'
  <2>1. ~Forking(t) /\ ~Forking(t)' BY <1>2, <1>6 DEF Forking, NoJob
  <2>2. \A u \in UserThreads : (Forking(u)' <=> Forking(u)) /\ (Forking(u) => job'[u] = job[u])
        BY <1>7, <2>1 DEF Forking
  <2>3. alive' = alive BY <1>1 DEF people
  <2>4. ASSUME NEW q \in Procs \ alive', NEW k \in Handles,
               \A u \in UserThreads : Forking(u)' /\ job'[u].new = q => job'[u].h <= k
        PROVE  file_handles'[q][k] = -1
    <3>1. \A u \in UserThreads : Forking(u) /\ job[u].new = q => job[u].h <= k BY <2>2, <2>4
    <3> QED BY <1>1, <2>3, <3>1 DEF ForksSound
  <2>5. \A u \in UserThreads : Forking(u)' => job'[u].new \notin alive' BY <2>2, <2>3 DEF ForksSound
  <2>6. \A u, v \in UserThreads : Forking(u)' /\ Forking(v)' /\ job'[u].new = job'[v].new => u = v
        BY <2>2 DEF ForksSound
  <2> QED BY <2>4, <2>5, <2>6 DEF ForksSound
<1>15. LookupsSound'
  <2>1. LookupSound(t)' BY <1>2, <1>5, LookupIdleNext
  <2>2. ASSUME NEW u \in UserThreads PROVE LookupSound(u)'
    <3>1. LookupSound(u) BY DEF LookupsSound
    <3> QED BY <1>1, <1>7, <2>1, <3>1 DEF LookupSound
  <2> QED BY <1>1, <1>8, <2>2 DEF LookupsSound, people
<1> QED BY <1>1, <1>10, <1>11, <1>12, <1>13, <1>14, <1>15

(* The monitor reaches the next handle. *)
LEMMA ExitClosesOwners ==
    ASSUME CountsInv, CountsInv', OwnersInv, ExitCloses
    PROVE  OwnersInv'
<1> USE DEF CountsInv, OwnersInv
<1> DEFINE h == job[Urm].h
           d == file_handles[victim][h]
<1>1. /\ UNCHANGED <<file_handles, file_handles_lock, file_descriptors, people, fault>>
      /\ victim # 0 /\ next \notin Tids /\ pc[Urm] \in {"user", "exit"}
      BY DEF ExitCloses, arrays
<1>2. /\ JobStep(Urm) /\ h \in Handles /\ d \in Fds \cup {-1} /\ victim \in Procs
      /\ d = -1 => pc'[Urm] = "exit" /\ job'[Urm] = [job[Urm] EXCEPT !.call = "exit", !.h = @ + 1]
      /\ d # -1 => pc'[Urm] = "close" /\ job'[Urm] = [job[Urm] EXCEPT !.call = "exit", !.fd = d]
      BY ExitClosesJob
<1>3. Alone(Urm) /\ Urm \in Threads BY <1>1, MonitorAlone, Bounds
<1>4. PICK p \in Procs : p = victim BY <1>2
<1>5. Steps(Urm, p) BY <1>1, <1>2, <1>3, <1>4 DEF Steps, Proc, JobStep, ThreadsSound
<1>6. job[Urm] \in Jobs /\ JobSound(Urm) BY <1>3 DEF TypeOK, JobsSound
<1>7. /\ job'[Urm].call = "exit"
      /\ d = -1 => job'[Urm].h = h + 1
      /\ d # -1 => job'[Urm].h = h /\ job'[Urm].fd = d
  <2>1. CASE d = -1
    <3>1. PICK moved : moved = [job[Urm] EXCEPT !.call = "exit"] OBVIOUS
    <3>2. job'[Urm] = [moved EXCEPT !.h = h + 1] BY <1>2, <1>6, <2>1, <3>1 DEF Jobs
    <3> QED BY <1>6, <2>1, <3>1, <3>2 DEF Jobs
  <2>2. CASE d # -1
    <3>1. PICK moved : moved = [job[Urm] EXCEPT !.call = "exit"] OBVIOUS
    <3>2. job'[Urm] = [moved EXCEPT !.fd = d] BY <1>2, <2>2, <3>1
    <3> QED BY <1>6, <2>2, <3>1, <3>2 DEF Jobs
  <2> QED BY <2>1, <2>2
<1>8. Urm[1] # p /\ victim' = victim BY <1>1, DescriptorsAssumption DEF Urm, people
<1>9. ASSUME NEW k \in Handles PROVE file_handles[p][k] = -1 \/ (StaleBy(Urm, p, k)' <=> StaleBy(Urm, p, k))
  <2>1. k \in Nat /\ h \in Nat BY <1>2, Bounds
  <2>2. StaleBy(Urm, p, k) <=> h > k
    <3>1. CASE pc[Urm] = "user"
      <4>1. job[Urm] = NoJob BY <1>6, <3>1 DEF JobSound
      <4>2. h = 0 /\ job[Urm].call = "none" BY <4>1 DEF NoJob
      <4>3. ~(h > k) BY <2>1, <4>2
      <4> QED BY <4>2, <4>3 DEF StaleBy
    <3>2. CASE pc[Urm] = "exit"
      <4>1. job[Urm].call = "exit" /\ ~IsClose(Urm) BY <1>6, <3>2 DEF JobSound, IsClose
      <4> QED BY <1>4, <4>1 DEF StaleBy
    <3> QED BY <1>1, <3>1, <3>2
  <2>3. ~IsClose(Urm)' BY <1>2 DEF IsClose
  <2>4. StaleBy(Urm, p, k)' <=> job'[Urm].h > k BY <1>4, <1>7, <1>8, <2>3 DEF StaleBy
  <2>5. CASE d = -1
    <3>1. job'[Urm].h > k <=> h > k \/ h = k BY <1>7, <2>1, <2>5
    <3>2. h = k => file_handles[p][k] = -1 BY <1>4, <2>5
    <3> QED BY <2>2, <2>4, <3>1, <3>2
  <2>6. CASE d # -1 BY <1>7, <2>2, <2>4, <2>6
  <2> QED BY <2>5, <2>6
<1>10. ~Forking(Urm)' /\ ~Forking(Urm) BY <1>6, <1>7 DEF Forking, JobSound
<1>11. pc'[Urm] \in Closers => file_handles'[p][job'[Urm].h] = job'[Urm].fd
       BY <1>1, <1>2, <1>4, <1>7 DEF Closers
<1>12. pc[Urm] # "store" /\ pc'[Urm] # "store" BY <1>1, <1>2
<1> HIDE DEF h, d
<1> QED BY <1>1, <1>3, <1>5, <1>9, <1>10, <1>11, <1>12, QuietOwners

(* The process is gone, and its handles with it. *)
LEMMA ExitEndsOwners ==
    ASSUME CountsInv, CountsInv', OwnersInv, ExitEnds
    PROVE  OwnersInv'
<1> USE DEF CountsInv, OwnersInv
<1>1. /\ UNCHANGED <<file_handles_lock, file_descriptors, running, fault>> /\ Urm \in Threads
      /\ pc[Urm] = "exit" /\ job[Urm].h \notin Handles /\ alive' = alive \ {victim} /\ victim' = 0
      BY Bounds DEF ExitEnds, At, arrays
<1>2. JobStep(Urm) /\ pc'[Urm] = "user" /\ job'[Urm] = NoJob BY <1>1, ReturnJob DEF ExitEnds
<1>3. victim # 0 /\ next \notin Tids /\ victim \in alive BY <1>1 DEF ThreadsSound
<1>4. PICK p \in Procs : p = victim BY <1>3 DEF TypeOK
<1>5. job[Urm] \in Jobs /\ JobSound(Urm) /\ JobSound(Urm)' BY <1>1 DEF TypeOK, JobsSound
<1>6. job[Urm].call = "exit" BY <1>1, <1>5 DEF JobSound
<1>7. \A h \in Handles : job[Urm].h > h
  <2>1. job[Urm].h \in 0 .. MAX_FILE_HANDLES BY <1>5 DEF Jobs
  <2> QED BY <1>1, <2>1, DescriptorsAssumption DEF Handles
<1>8. /\ \A h \in Handles : file_handles'[p][h] = -1
      /\ \A q \in Procs \ {p} : file_handles'[q] = file_handles[q]
  <2>1. file_handles' = [file_handles EXCEPT ![p] = [h \in Handles |-> -1]] BY <1>4 DEF ExitEnds
  <2> QED BY <2>1 DEF TypeOK
<1>9. \A u \in UserThreads : u \in Threads /\ u # Urm /\ pc'[u] = pc[u] /\ job'[u] = job[u]
      BY <1>2, Bounds DEF JobStep, Acts
<1>10. \A u \in UserThreads : u[1] = p => pc[u] = "user" /\ u \notin running BY <1>3, <1>4, VictimGone
<1>11. Urm[1] = 0 /\ 0 \notin Procs BY DescriptorsAssumption DEF Urm
<1>12. OwnersSound'
  <2>1. ASSUME NEW u \in UserThreads, NEW q \in Procs, NEW h \in Handles, NEW d
        PROVE  /\ StaleBy(u, q, h)' <=> StaleBy(u, q, h)
               /\ StoresAt(u, q, h, d)' <=> StoresAt(u, q, h, d)
        BY <1>9 DEF StaleBy, StoresAt, IsClose, Fd
  <2>2. \A q \in Procs, h \in Handles : \A d :
           ~StaleBy(Urm, q, h)' /\ ~StoresAt(Urm, q, h, d)' /\ ~StoresAt(Urm, q, h, d)
        BY <1>2, <1>11 DEF StaleBy, StoresAt, NoJob
  <2>3. \A q \in Procs, h \in Handles : StaleBy(Urm, q, h) <=> q = p BY <1>4, <1>6, <1>7, <1>11 DEF StaleBy
  <2>4. ASSUME NEW q \in Procs, NEW h \in Handles, NEW d \in Fds PROVE Owns(q, h, d)' <=> Owns(q, h, d)
    <3>1. CASE q # p
      <4>1. \A u \in Threads : /\ StaleBy(u, q, h)' <=> StaleBy(u, q, h)
                               /\ StoresAt(u, q, h, d)' <=> StoresAt(u, q, h, d)
            BY <2>1, <2>2, <2>3, <3>1, Bounds
      <4>2. file_handles'[q][h] = file_handles[q][h] BY <1>8, <3>1
      <4> QED BY <4>1, <4>2 DEF Owns
    <3>2. CASE q = p
      <4>1. \A u \in Threads : ~StoresAt(u, p, h, d)' /\ ~StoresAt(u, p, h, d)
            BY <1>9, <1>10, <2>2, Bounds DEF StoresAt
      <4>2. ~Owns(p, h, d) BY <1>1, <2>3, <4>1 DEF Owns
      <4>3. ~Owns(p, h, d)' BY <1>8, <4>1, Bounds DEF Owns
      <4> QED BY <3>2, <4>2, <4>3
    <3> QED BY <3>1, <3>2
  <2> QED BY <1>1, <2>4, OwnersQuiet
<1>13. ThreadsSound'
  <2>1. ASSUME NEW u \in running PROVE u[1] \in alive'
    <3>1. u \in UserThreads /\ u[1] \in alive BY DEF ThreadsSound
    <3> QED BY <1>1, <1>4, <1>10, <3>1
  <2>2. \A u \in UserThreads : pc'[u] # "user" => u \in running BY <1>9 DEF ThreadsSound
  <2> QED BY <1>1, <1>2, <2>1, <2>2 DEF ThreadsSound
<1>14. CallsApart' BY <1>9 DEF CallsApart
<1>15. LocksSound'
  <2>1. \A u \in UserThreads : Holds(u)' <=> Holds(u) BY <1>9 DEF Holds
  <2> QED BY <1>1, <2>1 DEF LocksSound
<1>16. ForksSound'
  <2>1. \A u \in UserThreads : (Forking(u)' <=> Forking(u)) /\ job'[u] = job[u] BY <1>9 DEF Forking
  <2>2. ASSUME NEW q \in Procs \ alive', NEW h \in Handles,
               \A u \in UserThreads : Forking(u)' /\ job'[u].new = q => job'[u].h <= h
        PROVE  file_handles'[q][h] = -1
    <3>1. CASE q = p BY <1>8, <3>1
    <3>2. CASE q # p
      <4>1. q \notin alive BY <1>1, <1>4, <3>2
      <4>2. \A u \in UserThreads : Forking(u) /\ job[u].new = q => job[u].h <= h BY <2>1, <2>2
      <4> QED BY <1>8, <3>2, <4>1, <4>2 DEF ForksSound
    <3> QED BY <3>1, <3>2
  <2>3. \A u \in UserThreads : Forking(u)' => job'[u].new \notin alive' BY <1>1, <2>1 DEF ForksSound
  <2>4. \A u, v \in UserThreads : Forking(u)' /\ Forking(v)' /\ job'[u].new = job'[v].new => u = v
        BY <2>1 DEF ForksSound
  <2> QED BY <2>2, <2>3, <2>4 DEF ForksSound
<1>17. LookupsSound'
  <2>1. ASSUME NEW u \in UserThreads PROVE LookupSound(u)'
    <3>1. CASE u[1] = p
      <4>1. JobSound(u)' /\ pc'[u] = "user" BY <1>9, <1>10, <3>1 DEF JobsSound
      <4> QED BY <1>9, <4>1, LookupIdleNext
    <3>2. CASE u[1] # p
      <4>1. LookupSound(u) BY DEF LookupsSound
      <4>2. file_handles'[u[1]] = file_handles[u[1]] BY <1>8, <3>2, Bounds
      <4> QED BY <1>9, <4>1, <4>2 DEF LookupSound
    <3> QED BY <3>1, <3>2
  <2> QED BY <1>2, <2>1 DEF LookupsSound, Closers
<1> QED BY <1>1, <1>12, <1>13, <1>14, <1>15, <1>16, <1>17

(* Threads are started and killed, and the monitor is told of a victim. *)
LEMMA PeopleOwners ==
    ASSUME CountsInv, CountsInv', OwnersInv, UNCHANGED <<pc, job, file_handles, file_handles_lock, file_descriptors, alive, fault>>,
           victim' = victim \/ victim = 0, ThreadsSound'
    PROVE  OwnersInv'
<1> USE DEF CountsInv, OwnersInv
<1>1. victim # victim' => pc[Urm] = "user" BY DEF ThreadsSound
<1>2. ASSUME victim # victim' PROVE job[Urm].call = "none"
  <2>1. JobSound(Urm) BY Bounds DEF JobsSound
  <2> QED BY <1>1, <1>2, <2>1 DEF JobSound, NoJob
<1>3. \A u, q, h : StaleBy(u, q, h)' <=> StaleBy(u, q, h) BY <1>2 DEF StaleBy, IsClose, Fd
<1>4. \A u, q, h, d : StoresAt(u, q, h, d)' <=> StoresAt(u, q, h, d) BY DEF StoresAt
<1>5. \A q \in Procs, h \in Handles, d \in Fds : Owns(q, h, d)' <=> Owns(q, h, d) BY <1>3, <1>4 DEF Owns
<1>6. OwnersSound' BY <1>5, OwnersQuiet
<1>7. CallsApart' BY DEF CallsApart
<1>8. LocksSound' BY DEF LocksSound, Holds
<1>9. ForksSound' BY DEF ForksSound, Forking
<1>10. LookupsSound'
  <2>1. \A u \in UserThreads : LookupSound(u)' <=> LookupSound(u) BY DEF LookupSound
  <2>2. pc[Urm] \in Closers => victim' = victim BY <1>1 DEF Closers
  <2> QED BY <2>1, <2>2 DEF LookupsSound
<1> QED BY <1>6, <1>7, <1>8, <1>9, <1>10

(* A handler of a signal is started in a thread of its own. *)
LEMMA HandlerOwners ==
    ASSUME CountsInv, CountsInv', OwnersInv, NEW p \in Procs, HandlerStarts(p)
    PROVE  OwnersInv'
<1> USE DEF CountsInv, OwnersInv
<1>1. /\ UNCHANGED <<pc, job, file_handles, file_handles_lock, file_descriptors, alive, victim, next, fault>>
      /\ p \in alive /\ p # victim
      BY DEF HandlerStarts, arrays
<1>2. PICK i \in Tids : running' = running \cup {<<p, i>>} BY DEF HandlerStarts
<1>3. ThreadsSound'
  <2>1. \A u \in running' : u[1] \in alive BY <1>1, <1>2 DEF ThreadsSound
  <2>2. running' \subseteq UserThreads OBVIOUS
  <2>3. \A k \in Tids : <<victim, k>> # <<p, i>> BY <1>1
  <2>4. victim # 0 => victim \in alive /\ \A k \in Tids : k < next => <<victim, k>> \notin running'
        BY <1>2, <2>3 DEF ThreadsSound
  <2>5. \A u \in UserThreads : pc[u] # "user" => u \in running' BY <1>2 DEF ThreadsSound
  <2>6. pc[Urm] # "user" => victim # 0 /\ next \notin Tids BY DEF ThreadsSound
  <2> QED BY <1>1, <2>1, <2>2, <2>4, <2>5, <2>6 DEF ThreadsSound
<1> QED BY <1>1, <1>3, PeopleOwners

(* The monitor is told of a process to end. *)
LEMMA ExitBeginsOwners ==
    ASSUME CountsInv, CountsInv', OwnersInv, NEW p \in Procs, ExitBegins(p)
    PROVE  OwnersInv'
<1> USE DEF CountsInv, OwnersInv
<1>1. /\ UNCHANGED <<pc, job, file_handles, file_handles_lock, file_descriptors, alive, running, fault>>
      /\ victim = 0 /\ p \in alive /\ victim' = p /\ next' = 0
      BY DEF ExitBegins, arrays
<1>2. \A i \in Tids : ~(i < 0) BY DescriptorsAssumption
<1>3. ThreadsSound' BY <1>1, <1>2 DEF ThreadsSound
<1> QED BY <1>1, <1>3, PeopleOwners

(* The monitor kills the next thread of its victim. *)
LEMMA MonitorKillsOwners ==
    ASSUME CountsInv, CountsInv', OwnersInv, MonitorKills
    PROVE  OwnersInv'
<1> USE DEF CountsInv, OwnersInv
<1>1. /\ UNCHANGED <<pc, job, file_handles, file_handles_lock, file_descriptors, alive, victim, fault>>
      /\ victim # 0 /\ next \in Tids
      BY DEF MonitorKills, arrays
<1>2. pc[Urm] = "user" /\ next \in Nat BY <1>1, DescriptorsAssumption DEF ThreadsSound
<1>3. ASSUME running' \subseteq running, next' = next \/ (next' = next + 1 /\ <<victim, next>> \notin running'),
             \A u \in running \ running' : pc[u] = "user"
      PROVE  ThreadsSound'
  <2>1. ASSUME NEW i \in Tids, i < next' PROVE <<victim, i>> \notin running'
    <3>1. i \in Nat BY DescriptorsAssumption
    <3>2. CASE i < next BY <1>1, <1>3, <3>2 DEF ThreadsSound
    <3>3. CASE ~(i < next)
      <4>1. next' = next + 1 /\ i = next BY <1>2, <1>3, <2>1, <3>1, <3>3
      <4> QED BY <1>2, <1>3, <4>1
    <3> QED BY <3>2, <3>3
  <2>2. \A u \in running' : u[1] \in alive BY <1>3 DEF ThreadsSound
  <2>3. \A u \in UserThreads : pc[u] # "user" => u \in running' BY <1>3 DEF ThreadsSound
  <2>4. victim \in alive /\ running' \subseteq UserThreads BY <1>1 DEF ThreadsSound
  <2> QED BY <1>1, <1>2, <2>1, <2>2, <2>3, <2>4 DEF ThreadsSound
<1>4. CASE UNCHANGED running /\ (next' = next \/ (next' = next + 1 /\ <<victim, next>> \notin running))
      BY <1>1, <1>3, <1>4, PeopleOwners
<1>5. CASE running' = running \ {<<victim, next>>} /\ next' = next + 1 /\ pc[<<victim, next>>] = "user"
      BY <1>1, <1>3, <1>5, PeopleOwners
<1> QED BY <1>4, <1>5 DEF MonitorKills

(* Every step keeps owners sound. *)
LEMMA OwnersStep ==
    ASSUME ~Races, CountsInv, CountsInv', OwnersInv, [Next]_vars
    PROVE  OwnersInv'
<1>1. ASSUME NEW t \in Threads, Program(t) PROVE OwnersInv' BY <1>1, EnterCases, EnterOwners
<1>2. ASSUME NEW t \in Threads, Continue(t) PROVE OwnersInv' BY <1>2, ContinueOwners
<1>3. ASSUME NEW p \in Procs, HandlerStarts(p) \/ ExitBegins(p) PROVE OwnersInv'
      BY <1>3, HandlerOwners, ExitBeginsOwners
<1>4. CASE Monitor BY <1>4, MonitorKillsOwners, ExitClosesOwners, ExitEndsOwners DEF Monitor
<1>5. CASE UNCHANGED vars
  <2>1. UNCHANGED <<pc, job, file_handles, file_handles_lock, file_descriptors, alive, running, victim, next, fault>>
        BY <1>5 DEF vars
  <2>2. ThreadsSound' BY <2>1 DEF OwnersInv, ThreadsSound
  <2> QED BY <2>1, <2>2, PeopleOwners
<1> QED BY <1>1, <1>2, <1>3, <1>4, <1>5 DEF Next

(* No one owns anything at first. *)
LEMMA OwnersInit == Init => OwnersInv
<1>1. SUFFICES ASSUME Init PROVE OwnersInv OBVIOUS
<1>2. \A t \in Threads : pc[t] = "user" /\ job[t] = NoJob BY <1>1 DEF Init
<1>3. \A t \in Threads : job[t].call = "none" BY <1>2 DEF NoJob
<1>4. ThreadsSound BY <1>1, <1>2, Bounds, DescriptorsAssumption DEF ThreadsSound, Init, UserThreads
<1>5. CallsApart BY <1>2, Bounds DEF CallsApart
<1>6. LocksSound BY <1>2, Bounds DEF LocksSound, Holds
<1>7. ForksSound
  <2>1. \A t \in UserThreads : ~Forking(t) BY <1>3, Bounds DEF Forking
  <2>2. \A p \in Procs, h \in Handles : file_handles[p][h] = -1 BY <1>1 DEF Init
  <2> QED BY <2>1, <2>2 DEF ForksSound
<1>8. LookupsSound BY <1>2, <1>3, Bounds DEF LookupsSound, LookupSound, Closers
<1>9. OwnersSound
  <2>1. \A p \in Procs, h \in Handles : file_handles[p][h] = -1 BY <1>1 DEF Init
  <2>2. \A p \in Procs, h \in Handles, d \in Fds : ~Owns(p, h, d) BY <1>2, <2>1, Bounds DEF Owns, StoresAt
  <2>3. \A d \in Fds : ~Present(file_descriptors[d]) BY <1>1 DEF Init, Present
  <2> QED BY <2>2, <2>3 DEF OwnersSound
<1> QED BY <1>1, <1>4, <1>5, <1>6, <1>7, <1>8, <1>9 DEF OwnersInv, Init

(* The owners are what HandlesExact counts. *)
LEMMA OwnersImplied ==
    ASSUME CountsInv, OwnersInv
    PROVE  NothingMissing /\ HandlesExact
<1> DEFINE Owned == {x \in Procs \X Handles : file_handles[x[1]][x[2]] # -1 /\ ~Stale(x[1], x[2])}
           Owner(x) == file_handles[x[1]][x[2]]
           Storing == {u \in Threads : pc[u] = "store"}
<1>1. \A p, h : Stale(p, h) <=> \E t \in Threads : StaleBy(t, p, h) BY DEF Stale, StaleBy
<1>2. file_handles \in [Procs -> [Handles -> Fds \cup {-1}]] BY DEF CountsInv, TypeOK
<1>3. ASSUME NEW x \in Owned PROVE x[1] \in Procs /\ x[2] \in Handles /\ Owner(x) \in Fds /\ Owns(x[1], x[2], Owner(x))
  <2>1. x[1] \in Procs /\ x[2] \in Handles OBVIOUS
  <2>2. Owner(x) \in Fds BY <1>2, <2>1
  <2> QED BY <1>1, <2>1, <2>2 DEF Owns
<1>4. ASSUME NEW u \in Storing PROVE /\ Fd(u) \in Fds /\ u[1] \in Procs /\ job[u].new \in Handles
                                     /\ Owns(u[1], job[u].new, Fd(u))
  <2>1. JobSound(u) BY DEF CountsInv, JobsSound
  <2>2. Fd(u) \in Fds /\ job[u].new \in Handles /\ u # Urm BY <2>1 DEF JobSound, Fd
  <2>3. u[1] \in Procs BY <2>2, Bounds
  <2>4. StoresAt(u, u[1], job[u].new, Fd(u)) BY DEF StoresAt, Fd
  <2> QED BY <2>2, <2>3, <2>4 DEF Owns
<1>5. ASSUME NEW x \in Owned, NEW y \in Owned, Owner(x) = Owner(y) PROVE x = y
  <2>1. x[1] = y[1] /\ x[2] = y[2] BY <1>3, <1>5 DEF OwnersInv, OwnersSound
  <2> QED BY <2>1
<1>6. ASSUME NEW d \in Fds, Present(file_descriptors[d])
      PROVE  d \in {Owner(x) : x \in Owned} \cup {Fd(t) : t \in Storing}
  <2>1. PICK p \in Procs, h \in Handles : Owns(p, h, d) BY <1>6 DEF OwnersInv, OwnersSound
  <2>2. CASE file_handles[p][h] = d /\ \A t \in Threads : ~StaleBy(t, p, h)
    <3>1. <<p, h>> \in Owned BY <1>1, <2>2, Bounds
    <3> QED BY <2>2, <3>1
  <2>3. CASE \E t \in Threads : StoresAt(t, p, h, d) BY <2>3 DEF StoresAt, Fd
  <2> QED BY <2>1, <2>2, <2>3 DEF Owns
<1>7. ASSUME NEW d \in {Owner(x) : x \in Owned} \cup {Fd(t) : t \in Storing}
      PROVE  d \in Fds /\ Present(file_descriptors[d])
      BY <1>3, <1>4 DEF OwnersInv, OwnersSound
<1>8. {d \in Fds : Present(file_descriptors[d])} = {Owner(x) : x \in Owned} \cup {Fd(t) : t \in Storing}
      BY <1>6, <1>7
<1>9. HandlesExact BY <1>5, <1>8 DEF HandlesExact
<1> QED BY <1>9 DEF NothingMissing, CountsInv, OwnersInv

(* When the calls that use a descriptor without the lock do not race with other
   calls of their process, no call meets an element of an array that is gone,
   every descriptor has one owner, and the counts are exact, whatever the
   processes, their threads and the monitor do: no two threads then close the
   same descriptor, as CountsAlwaysExact asks. *)
THEOREM HandlesAlwaysExact ==
    ASSUME ~Races
    PROVE  Spec => [](NothingMissing /\ HandlesExact /\ CountsExact /\ BytesInOrder)
<1>1. Init => CountsInv /\ OwnersInv BY CountsInit, OwnersInit
<1>2. CountsInv /\ OwnersInv /\ [Next]_vars => CountsInv' /\ OwnersInv'
      BY ClosersApart, CountsStep, OwnersStep
<1>3. CountsInv /\ OwnersInv => NothingMissing /\ HandlesExact BY OwnersImplied
<1>4. CountsInv => CountsExact /\ BytesInOrder BY CountsImplied
<1> QED BY <1>1, <1>2, <1>3, <1>4, PTL DEF Spec
==============================================================================
