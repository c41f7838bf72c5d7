---------------------------- MODULE DevicesProofs ----------------------------
(***************************************************************************)
(* Theorems about Devices, for any number of processes, handles, characters *)
(* and buffer sizes: device handles are shared exactly, keys are read in    *)
(* order, and no reader of the terminal is left asleep beside what it waits  *)
(* for unless another call came between.                                    *)
(***************************************************************************)
EXTENDS Devices, FiniteSetTheorems, SequenceTheorems, TLAPS

Places == {"user", "add", "dev", "lock", "tc", "tty", "wait", "unref"}
Jobs == [call : Calls \cup {"none", "open", "close"}, fd : Dev \cup {NULL}, arg : Nat]

One(b) == IF b THEN 1 ELSE 0

(* All state keeps its type, and a key has no more characters than fit. *)
Typed ==
    /\ setup \in Setups
    /\ vfs_handles \in [Vfs -> Dev \cup {NULL}] /\ devfs_handles \in [Dev -> Handles \cup {NULL}]
    /\ own \in [Procs -> SUBSET Vfs] /\ event_abrt \subseteq Procs /\ leaked \in [Dev -> Nat]
    /\ pc \in [Procs -> Places] /\ job \in [Procs -> Jobs]

(* Where a process is fits the call it makes. *)
JobSound(p) ==
    LET j == job[p] IN
    /\ pc[p] = "user" => j = NoJob
    /\ pc[p] # "user" => j.fd \in Dev /\ j.call # "none"
    /\ pc[p] = "add" => j.call \in {"open", "dup"}
    /\ j.call = "open" => pc[p] = "add"
    /\ pc[p] \in {"tty", "wait"} => j.call = "read"
    /\ pc[p] = "tc" => j.call \in TtyCalls
    /\ j.call = "isatty" => pc[p] \in {"dev", "unref"}
    /\ j.call = "close" => pc[p] \in {"dev", "lock", "unref"}

JobsSound == \A p \in Procs : JobSound(p)

(* The descriptors of a process name entries of its own, and a call is on one
   of them. *)
Busy(p) == job[p].call \notin {"none", "open", "close"}
OwnSound ==
    /\ \A v \in Vfs : vfs_handles[v] = NULL <=> \A p \in Procs : v \notin own[p]
    /\ \A v \in Vfs, p, q \in Procs : v \in own[p] /\ v \in own[q] => p = q
    /\ \A p \in Procs : Busy(p) => \E v \in own[p] : vfs_handles[v] = Fd(p)

(* The entries of vfs_handles that name handle i, the calls that are about to
   add or have just removed one, and the calls that have a reference. *)
Named(i) == {v \in Vfs : vfs_handles[v] = i}
Counted(p) ==
    \/ job[p].call = "dup" /\ pc[p] \in {"unref", "add"}
    \/ job[p].call = "open" /\ pc[p] = "add"
    \/ job[p].call = "close" /\ pc[p] \in {"dev", "lock"}
Pending(i) == {p \in Procs : Fd(p) = i /\ Counted(p)}
Users(i) == {p \in Procs : Fd(p) = i /\ pc[p] \in {"lock", "tc", "tty", "wait", "unref"}}
Reading(p) == pc[p] \in {"tty", "wait"}

Count(i) == Cardinality(Named(i)) + Cardinality(Pending(i))

(* Both counts of a handle are exact, and its lock is held by one reader. *)
HandleOK(i) ==
    LET h == devfs_handles[i] IN
    /\ h = NULL => Count(i) = 0 /\ Cardinality(Users(i)) = 0 /\ leaked[i] = 0
    /\ h # NULL =>
          /\ h.refs > 0 /\ h.refs = One(h.present) + leaked[i] + Cardinality(Users(i))
          /\ h.present <=> Count(i) > 0
          /\ h.present => h.refcount = Count(i)
LockOK(i) ==
    LET h == devfs_handles[i] IN
    /\ \A p \in Procs : Reading(p) /\ Fd(p) = i => h # NULL /\ h.lock /\ h.device = "tty"
    /\ \A p, q \in Procs : Reading(p) /\ Reading(q) /\ Fd(p) = i /\ Fd(q) = i => p = q
    /\ h # NULL /\ h.present /\ h.lock => \E p \in Procs : Reading(p) /\ Fd(p) = i

HandlesSound == \A i \in Dev : HandleOK(i) /\ LockOK(i)

SharedInv == Typed /\ JobsSound /\ OwnSound /\ HandlesSound

-----------------------------------------------------------------------------
(* The handles there are. *)
LEMMA Bounds ==
    /\ IsFiniteSet(Procs) /\ IsFiniteSet(Vfs) /\ IsFiniteSet(Dev) /\ Dev \subseteq Nat /\ Vfs \subseteq Nat
    /\ NULL \notin Dev /\ NULL \notin Handles /\ NoJob \in Jobs
<1>1. MaxVfs \in Nat /\ MaxDev \in Nat BY DevicesAssumption
<1>2. IsFiniteSet(Vfs) /\ IsFiniteSet(Dev) BY <1>1, FS_Interval DEF Vfs, Dev
<1>3. Dev \subseteq Nat /\ Vfs \subseteq Nat BY <1>1 DEF Vfs, Dev
<1> QED BY <1>2, <1>3, DevicesAssumption, NullAssumption DEF NoJob, Jobs

(* A set that changes by one element at most. *)
LEMMA CountStep ==
    ASSUME NEW X, IsFiniteSet(X), NEW S \in SUBSET X, NEW T \in SUBSET X, NEW t \in X,
           \A u \in X \ {t} : u \in S <=> u \in T
    PROVE  /\ Cardinality(S) \in Nat /\ Cardinality(T) \in Nat
           /\ Cardinality(T) + One(t \in S) = Cardinality(S) + One(t \in T)
           /\ t \in S => Cardinality(S) > 0
<1>1. IsFiniteSet(S) /\ IsFiniteSet(T) BY FS_Subset
<1>2. Cardinality(S) \in Nat /\ Cardinality(T) \in Nat BY <1>1, FS_CardinalityType
<1>3. CASE t \in S /\ t \notin T
  <2>1. T = S \ {t} BY <1>3
  <2>2. Cardinality(T) = Cardinality(S) - 1 BY <1>1, <1>3, <2>1, FS_RemoveElement
  <2> QED BY <1>2, <1>3, <2>2 DEF One
<1>4. CASE t \notin S /\ t \in T
  <2>1. T = S \cup {t} BY <1>4
  <2>2. Cardinality(T) = Cardinality(S) + 1 BY <1>1, <1>4, <2>1, FS_AddElement
  <2> QED BY <1>2, <1>4, <2>2 DEF One
<1>5. CASE (t \in S) <=> (t \in T)
  <2>1. T = S BY <1>5
  <2>2. t \in S => Cardinality(S) > 0
    <3>1. ASSUME t \in S PROVE Cardinality(S \ {t}) = Cardinality(S) - 1
          BY <1>1, <3>1, FS_RemoveElement
    <3>2. Cardinality(S \ {t}) \in Nat BY <1>1, FS_Subset, FS_CardinalityType
    <3> QED BY <1>2, <3>1, <3>2
  <2> QED BY <1>2, <1>5, <2>1, <2>2 DEF One
<1> QED BY <1>3, <1>4, <1>5

(* The counts are numbers, and whoever names a handle is counted. *)
LEMMA CountsNat ==
    ASSUME NEW i
    PROVE  /\ Cardinality(Named(i)) \in Nat /\ Cardinality(Pending(i)) \in Nat /\ Cardinality(Users(i)) \in Nat
           /\ Count(i) \in Nat
           /\ \A v \in Vfs : vfs_handles[v] = i => Count(i) > 0
           /\ \A p \in Procs : Fd(p) = i /\ Counted(p) => Count(i) > 0
<1>1. Named(i) \in SUBSET Vfs /\ Pending(i) \in SUBSET Procs /\ Users(i) \in SUBSET Procs
      BY DEF Named, Pending, Users
<1>2. IsFiniteSet(Named(i)) /\ IsFiniteSet(Pending(i)) /\ IsFiniteSet(Users(i)) BY <1>1, Bounds, FS_Subset
<1>3. Cardinality(Named(i)) \in Nat /\ Cardinality(Pending(i)) \in Nat /\ Cardinality(Users(i)) \in Nat
      BY <1>2, FS_CardinalityType
<1>4. ASSUME NEW v \in Vfs, vfs_handles[v] = i PROVE Count(i) > 0
  <2>1. v \in Named(i) BY <1>4 DEF Named
  <2>2. Cardinality(Named(i)) # 0 BY <1>2, <2>1, FS_EmptySet
  <2> QED BY <1>3, <2>2 DEF Count
<1>5. ASSUME NEW p \in Procs, Fd(p) = i, Counted(p) PROVE Count(i) > 0
  <2>1. p \in Pending(i) BY <1>5 DEF Pending
  <2>2. Cardinality(Pending(i)) # 0 BY <1>2, <2>1, FS_EmptySet
  <2> QED BY <1>3, <2>2 DEF Count
<1> QED BY <1>3, <1>4, <1>5 DEF Count

(* A step of process p, which goes to a place with new locals. *)
Goto(p, place, j) == pc' = [pc EXCEPT ![p] = place] /\ job' = [job EXCEPT ![p] = j]
Acts(p) == \A q \in Procs \ {p} : pc'[q] = pc[q] /\ job'[q] = job[q]

(* What such a step does to places and locals. *)
LEMMA GotoActs ==
    ASSUME Typed, NEW p \in Procs, NEW place \in Places, NEW j \in Jobs, Goto(p, place, j)
    PROVE  /\ Acts(p) /\ pc'[p] = place /\ job'[p] = j
           /\ pc' \in [Procs -> Places] /\ job' \in [Procs -> Jobs]
  BY DEF Typed, Goto, Acts

(* How a step of process p changes the counts of a handle. *)
LEMMA CountsStep ==
    ASSUME NEW p \in Procs, Acts(p), NEW i
    PROVE  /\ Cardinality(Pending(i)') + One(Fd(p) = i /\ Counted(p))
                  = Cardinality(Pending(i)) + One(Fd(p) = i /\ Counted(p))'
           /\ Cardinality(Users(i)') + One(p \in Users(i)) = Cardinality(Users(i)) + One(p \in Users(i)')
           /\ p \in Users(i) => Cardinality(Users(i)) > 0
           /\ Cardinality(Pending(i)') \in Nat /\ Cardinality(Users(i)') \in Nat
<1>1. Pending(i) \in SUBSET Procs /\ Pending(i)' \in SUBSET Procs BY DEF Pending
<1>2. Users(i) \in SUBSET Procs /\ Users(i)' \in SUBSET Procs BY DEF Users
<1>3. \A q \in Procs \ {p} : q \in Pending(i) <=> q \in Pending(i)' BY DEF Acts, Pending, Counted, Fd
<1>4. \A q \in Procs \ {p} : q \in Users(i) <=> q \in Users(i)' BY DEF Acts, Users, Fd
<1>5. /\ Cardinality(Pending(i)') + One(p \in Pending(i)) = Cardinality(Pending(i)) + One(p \in Pending(i)')
      /\ Cardinality(Pending(i)') \in Nat
      BY <1>1, <1>3, Bounds, CountStep
<1>6. /\ Cardinality(Users(i)') + One(p \in Users(i)) = Cardinality(Users(i)) + One(p \in Users(i)')
      /\ Cardinality(Users(i)') \in Nat /\ (p \in Users(i) => Cardinality(Users(i)) > 0)
      BY <1>2, <1>4, Bounds, CountStep
<1>7. One(p \in Pending(i)) = One(Fd(p) = i /\ Counted(p)) BY DEF One, Pending
<1>8. One(p \in Pending(i)') = One(Fd(p) = i /\ Counted(p))' BY DEF One, Pending
<1> QED BY <1>5, <1>6, <1>7, <1>8

(* A process in a call has the handle it works on, and if the call is not an
   end of close the handle is in the array. *)
LEMMA There ==
    ASSUME SharedInv, NEW p \in Procs, pc[p] # "user"
    PROVE  /\ Fd(p) \in Dev /\ job[p] \in Jobs /\ job[p].call # "none"
           /\ ~(job[p].call = "close" /\ pc[p] = "unref") =>
                 /\ devfs_handles[Fd(p)] \in Handles /\ devfs_handles[Fd(p)] # NULL
                 /\ devfs_handles[Fd(p)].present /\ Count(Fd(p)) > 0
           /\ pc[p] \in {"lock", "tc", "tty", "wait", "unref"} =>
                 devfs_handles[Fd(p)] \in Handles /\ devfs_handles[Fd(p)] # NULL
<1>1. Fd(p) \in Dev /\ job[p] \in Jobs /\ job[p].call # "none" BY DEF SharedInv, JobsSound, JobSound, Typed, Fd
<1>2. devfs_handles[Fd(p)] \in Handles \cup {NULL} BY <1>1 DEF SharedInv, Typed
<1>3. HandleOK(Fd(p)) BY <1>1 DEF SharedInv, HandlesSound
<1>4. ASSUME ~(job[p].call = "close" /\ pc[p] = "unref") PROVE Count(Fd(p)) > 0
  <2>1. CASE Busy(p)
    <3>1. PICK v \in own[p] : vfs_handles[v] = Fd(p) BY <2>1 DEF SharedInv, OwnSound
    <3>2. v \in Vfs BY DEF SharedInv, Typed
    <3> QED BY <3>1, <3>2, CountsNat
  <2>2. CASE ~Busy(p)
    <3>1. Counted(p) BY <1>1, <1>4, <2>2 DEF Busy, Counted, SharedInv, JobsSound, JobSound
    <3> QED BY <3>1, CountsNat
  <2> QED BY <2>1, <2>2
<1>5. ASSUME pc[p] \in {"lock", "tc", "tty", "wait", "unref"} PROVE devfs_handles[Fd(p)] # NULL
  <2>1. p \in Users(Fd(p)) BY <1>5 DEF Users
  <2>2. IsFiniteSet(Users(Fd(p))) BY Bounds, FS_Subset DEF Users
  <2>3. Cardinality(Users(Fd(p))) # 0 BY <2>1, <2>2, FS_EmptySet
  <2> QED BY <1>3, <2>3 DEF HandleOK
<1> QED BY <1>1, <1>2, <1>3, <1>4, <1>5 DEF HandleOK

(* Only the handle a process works on changes. *)
LEMMA HandlesLocal ==
    ASSUME SharedInv, NEW p \in Procs, Acts(p), NEW k \in Dev,
           \A i \in Dev \ {k} : /\ devfs_handles'[i] = devfs_handles[i] /\ leaked'[i] = leaked[i]
                                /\ \A v \in Vfs : vfs_handles'[v] = i <=> vfs_handles[v] = i,
           Fd(p) \in {k, NULL}, Fd(p)' \in {k, NULL},
           HandleOK(k)', LockOK(k)'
    PROVE  HandlesSound'
<1>1. SUFFICES ASSUME NEW i \in Dev \ {k} PROVE HandleOK(i)' /\ LockOK(i)' BY DEF HandlesSound
<1>2. HandleOK(i) /\ LockOK(i) BY DEF SharedInv, HandlesSound
<1>3. Fd(p) # i /\ Fd(p)' # i BY Bounds
<1>4. Named(i)' = Named(i) BY DEF Named
<1>5. Pending(i)' = Pending(i) BY <1>3 DEF Pending, Acts, Fd, Counted
<1>6. Users(i)' = Users(i) BY <1>3 DEF Users, Acts, Fd
<1>7. HandleOK(i)' BY <1>2, <1>4, <1>5, <1>6 DEF HandleOK, Count
<1>8. \A q \in Procs : (Reading(q) /\ Fd(q) = i)' <=> Reading(q) /\ Fd(q) = i BY <1>3 DEF Reading, Acts, Fd
<1>9. devfs_handles'[i] = devfs_handles[i] OBVIOUS
<1>10. LockOK(i)' BY ONLY <1>2, <1>8, <1>9 DEF LockOK
<1> QED BY <1>7, <1>10

(* A call is done with its handle but for its reference. *)
LEMMA FinishHandles ==
    ASSUME SharedInv, NEW p \in Procs, NEW k \in Dev, k = Fd(p), NEW new \in Handles,
           pc[p] \in {"lock", "tc", "tty", "wait"}, Acts(p), pc'[p] = "unref", job'[p] = job[p],
           UNCHANGED <<vfs_handles, leaked>>, devfs_handles' = [devfs_handles EXCEPT ![k] = new],
           LET h == devfs_handles[k] IN
           /\ new.refs = h.refs /\ new.present = h.present /\ new.device = h.device
           /\ new.lock = IF Reading(p) THEN FALSE ELSE h.lock
           /\ new.refcount = IF job[p].call = "dup" /\ pc[p] = "lock" THEN h.refcount + 1
                             ELSE IF job[p].call = "close" THEN h.refcount - 1 ELSE h.refcount
           /\ job[p].call = "close" => h.refcount > 1
    PROVE  HandlesSound'
<1> DEFINE h == devfs_handles[k]
<1>1. h \in Handles /\ h # NULL /\ h.present /\ HandleOK(k) /\ LockOK(k) BY There DEF SharedInv, HandlesSound
<1>2. devfs_handles'[k] = new /\ new # NULL BY Bounds DEF SharedInv, Typed
<1>3. JobSound(p) BY DEF SharedInv, JobsSound
<1>4. Cardinality(Users(k)') = Cardinality(Users(k))
  <2>1. p \in Users(k) /\ p \in Users(k)' BY DEF Users, Fd
  <2> QED BY <2>1, CountsNat, CountsStep DEF One
<1>5. Named(k)' = Named(k) BY DEF Named
<1>6. /\ One(Fd(p) = k /\ Counted(p)) = One(job[p].call = "close")
      /\ One(Fd(p) = k /\ Counted(p))' = One(job[p].call = "dup")
  <2>1. Fd(p) = k /\ Counted(p) <=> job[p].call = "close" BY <1>3 DEF Counted, JobSound
  <2>2. (Fd(p) = k /\ Counted(p))' <=> job[p].call = "dup" BY DEF Counted, Fd
  <2> QED BY <2>1, <2>2 DEF One
<1>7. /\ Cardinality(Named(k)) \in Nat /\ Cardinality(Pending(k)) \in Nat
      /\ Cardinality(Pending(k)') + One(job[p].call = "close") = Cardinality(Pending(k)) + One(job[p].call = "dup")
      /\ Cardinality(Pending(k)') \in Nat
      BY <1>6, CountsNat, CountsStep
<1>8. Count(k)' + One(job[p].call = "close") = Count(k) + One(job[p].call = "dup") /\ Count(k)' \in Nat
      /\ Count(k) \in Nat
      BY <1>5, <1>7 DEF Count, One
<1>9. h.refcount = Count(k) BY <1>1 DEF HandleOK
<1>10. job[p].call = "dup" => pc[p] = "lock" BY <1>3 DEF JobSound, TtyCalls
<1>11. new.refcount = Count(k)' /\ Count(k)' > 0
  <2>1. CASE job[p].call = "dup" BY <1>8, <1>9, <1>10, <2>1 DEF One
  <2>2. CASE job[p].call = "close" BY <1>8, <1>9, <2>2 DEF One
  <2>3. CASE job[p].call \notin {"dup", "close"}
        BY <1>1, <1>8, <1>9, <2>3 DEF One, HandleOK
  <2> QED BY <2>1, <2>2, <2>3
<1>12. HandleOK(k)' BY <1>1, <1>2, <1>4, <1>11 DEF HandleOK
<1>13. ~Reading(p)' BY DEF Reading
<1>14. \A q \in Procs \ {p} : (Reading(q) /\ Fd(q) = k)' <=> Reading(q) /\ Fd(q) = k BY DEF Reading, Acts, Fd
<1>15. LockOK(k)'
  <2>1. CASE Reading(p)
    <3>1. \A q \in Procs \ {p} : ~(Reading(q) /\ Fd(q) = k) BY <1>1, <2>1 DEF LockOK
    <3> QED BY <1>2, <1>13, <1>14, <2>1, <3>1 DEF LockOK
  <2>2. CASE ~Reading(p) BY <1>1, <1>2, <1>13, <1>14, <2>2 DEF LockOK
  <2> QED BY <2>1, <2>2
<1>16. \A i \in Dev \ {k} : /\ devfs_handles'[i] = devfs_handles[i] /\ leaked'[i] = leaked[i]
                            /\ \A v \in Vfs : vfs_handles'[v] = i <=> vfs_handles[v] = i
       BY DEF SharedInv, Typed
<1>17. Fd(p) = k /\ Fd(p)' = k BY DEF Fd
<1> QED BY <1>12, <1>15, <1>16, <1>17, HandlesLocal

(* A read of the terminal begins, sleeps or wakes: it has the handle's lock. *)
LEMMA ReadHandles ==
    ASSUME SharedInv, NEW p \in Procs, NEW k \in Dev, k = Fd(p), NEW new \in Handles,
           job[p].call = "read", pc[p] \in {"lock", "tty", "wait"}, Acts(p),
           pc'[p] \in {"tty", "wait"}, Fd(p)' = k, job'[p].call = "read",
           UNCHANGED <<vfs_handles, leaked>>, devfs_handles' = [devfs_handles EXCEPT ![k] = new],
           LET h == devfs_handles[k] IN
           /\ new.refs = h.refs /\ new.present = h.present /\ new.device = "tty" /\ new.refcount = h.refcount
           /\ new.lock = TRUE /\ (pc[p] = "lock" => ~h.lock)
    PROVE  HandlesSound'
<1> DEFINE h == devfs_handles[k]
<1>1. h \in Handles /\ h # NULL /\ h.present /\ HandleOK(k) /\ LockOK(k) BY There DEF SharedInv, HandlesSound
<1>2. devfs_handles'[k] = new /\ new # NULL BY Bounds DEF SharedInv, Typed
<1>4. Cardinality(Users(k)') = Cardinality(Users(k))
  <2>1. p \in Users(k) /\ p \in Users(k)' BY DEF Users, Fd
  <2> QED BY <2>1, CountsNat, CountsStep DEF One
<1>5. Named(k)' = Named(k) BY DEF Named
<1>6. One(Fd(p) = k /\ Counted(p)) = 0 /\ One(Fd(p) = k /\ Counted(p))' = 0
  <2>1. ~Counted(p) /\ ~Counted(p)' BY DEF Counted
  <2> QED BY <2>1 DEF One
<1>7. Count(k)' = Count(k) BY <1>5, <1>6, CountsNat, CountsStep DEF Count
<1>8. HandleOK(k)' BY <1>1, <1>2, <1>4, <1>7 DEF HandleOK
<1>9. \A q \in Procs \ {p} : (Reading(q) /\ Fd(q) = k)' <=> Reading(q) /\ Fd(q) = k BY DEF Reading, Acts, Fd
<1>10. \A q \in Procs \ {p} : ~(Reading(q) /\ Fd(q) = k) BY <1>1 DEF LockOK, Reading
<1>11. Reading(p)' /\ Fd(p)' = k BY DEF Reading
<1>12. LockOK(k)' BY <1>2, <1>9, <1>10, <1>11 DEF LockOK
<1>13. \A i \in Dev \ {k} : /\ devfs_handles'[i] = devfs_handles[i] /\ leaked'[i] = leaked[i]
                            /\ \A v \in Vfs : vfs_handles'[v] = i <=> vfs_handles[v] = i
       BY DEF SharedInv, Typed
<1> QED BY <1>8, <1>12, <1>13, HandlesLocal

(* The handle is taken from the array. *)
LEMMA GetHandles ==
    ASSUME SharedInv, NEW p \in Procs, NEW k \in Dev, k = Fd(p), NEW new \in Handles,
           pc[p] = "dev", job[p].call # "open", Acts(p), pc'[p] \in {"lock", "tc", "unref"}, job'[p] = job[p],
           job[p].call \in {"close", "dup"} => pc'[p] = "lock",
           UNCHANGED <<vfs_handles, leaked>>, devfs_handles' = [devfs_handles EXCEPT ![k] = new],
           LET h == devfs_handles[k] IN
           /\ new.refs = h.refs + 1 /\ new.present = h.present /\ new.device = h.device
           /\ new.refcount = h.refcount /\ new.lock = h.lock
    PROVE  HandlesSound'
<1> DEFINE h == devfs_handles[k]
<1>1. h \in Handles /\ h # NULL /\ h.present /\ HandleOK(k) /\ LockOK(k) BY There DEF SharedInv, HandlesSound
<1>2. devfs_handles'[k] = new /\ new # NULL BY Bounds DEF SharedInv, Typed
<1>3. h.refs \in Nat BY <1>1 DEF Handles
<1>4. Cardinality(Users(k)') = Cardinality(Users(k)) + 1
  <2>1. p \notin Users(k) /\ p \in Users(k)' BY DEF Users, Fd
  <2> QED BY <2>1, CountsNat, CountsStep DEF One
<1>5. Named(k)' = Named(k) BY DEF Named
<1>6. One(Fd(p) = k /\ Counted(p)) = One(Fd(p) = k /\ Counted(p))'
  <2>1. Counted(p) <=> Counted(p)' BY DEF Counted
  <2>2. Fd(p)' = Fd(p) BY DEF Fd
  <2> QED BY <2>1, <2>2 DEF One
<1>7. One(Fd(p) = k /\ Counted(p)) \in Nat BY DEF One
<1>8. Count(k)' = Count(k)
  <2>1. Cardinality(Pending(k)') = Cardinality(Pending(k)) BY <1>6, <1>7, CountsNat, CountsStep
  <2> QED BY <1>5, <2>1 DEF Count
<1>9. leaked[k] \in Nat BY DEF SharedInv, Typed
<1>10. HandleOK(k)'
  <2>1. new.refs > 0 /\ new.refs = One(new.present) + leaked'[k] + Cardinality(Users(k)')
        BY <1>1, <1>3, <1>4, <1>9, CountsNat DEF HandleOK, One
  <2> QED BY <1>1, <1>2, <1>8, <2>1 DEF HandleOK
<1>11. \A q \in Procs : (Reading(q) /\ Fd(q) = k)' <=> Reading(q) /\ Fd(q) = k BY DEF Reading, Acts, Fd
<1>12. LockOK(k)' BY <1>1, <1>2, <1>11 DEF LockOK
<1>13. \A i \in Dev \ {k} : /\ devfs_handles'[i] = devfs_handles[i] /\ leaked'[i] = leaked[i]
                            /\ \A v \in Vfs : vfs_handles'[v] = i <=> vfs_handles[v] = i
       BY DEF SharedInv, Typed
<1>14. Fd(p) = k /\ Fd(p)' = k BY DEF Fd
<1> QED BY <1>10, <1>12, <1>13, <1>14, HandlesLocal

(* A reference is given back, and the entry freed with the last one. *)
LEMMA UnrefHandles ==
    ASSUME SharedInv, NEW p \in Procs, NEW k \in Dev, k = Fd(p), NEW new \in Handles \cup {NULL},
           pc[p] = "unref", Acts(p),
           \/ job[p].call = "dup" /\ pc'[p] = "add" /\ job'[p] = job[p]
           \/ job[p].call # "dup" /\ pc'[p] = "user" /\ job'[p] = NoJob,
           UNCHANGED <<vfs_handles, leaked>>, devfs_handles' = [devfs_handles EXCEPT ![k] = new],
           LET h == devfs_handles[k] IN
           /\ h.refs = 1 => new = NULL
           /\ h.refs # 1 =>
                 /\ new \in Handles /\ new.refs = h.refs - 1 /\ new.present = h.present /\ new.device = h.device
                 /\ new.refcount = h.refcount /\ new.lock = h.lock
    PROVE  HandlesSound'
<1> DEFINE h == devfs_handles[k]
<1>1. h \in Handles /\ h # NULL /\ HandleOK(k) /\ LockOK(k) BY There DEF SharedInv, HandlesSound
<1>2. devfs_handles'[k] = new BY DEF SharedInv, Typed
<1>3. h.refs \in Nat /\ h.present \in BOOLEAN /\ leaked[k] \in Nat /\ leaked'[k] = leaked[k]
      BY <1>1 DEF Handles, SharedInv, Typed
<1>4. Cardinality(Users(k)) = Cardinality(Users(k)') + 1 /\ Cardinality(Users(k)') \in Nat
  <2>1. p \in Users(k) /\ p \notin Users(k)' BY DEF Users, Fd
  <2> QED BY <2>1, CountsNat, CountsStep DEF One
<1>5. Named(k)' = Named(k) BY DEF Named
<1>6. One(Fd(p) = k /\ Counted(p)) = One(Fd(p) = k /\ Counted(p))'
  <2>1. CASE job[p].call = "dup" BY <2>1 DEF Counted, Fd, One
  <2>2. CASE job[p].call # "dup"
    <3>1. ~Counted(p) BY <2>2 DEF Counted
    <3>2. ~Counted(p)' BY <2>2 DEF Counted, NoJob
    <3> QED BY <3>1, <3>2 DEF One
  <2> QED BY <2>1, <2>2
<1>7. One(Fd(p) = k /\ Counted(p)) \in Nat BY DEF One
<1>8. Count(k)' = Count(k)
  <2>1. Cardinality(Pending(k)') = Cardinality(Pending(k)) BY <1>6, <1>7, CountsNat, CountsStep
  <2> QED BY <1>5, <2>1 DEF Count
<1>9. h.refs = One(h.present) + leaked[k] + Cardinality(Users(k)') + 1
      BY <1>1, <1>3, <1>4 DEF HandleOK, One
<1>10. One(h.present) \in Nat BY DEF One
<1>11. HandleOK(k)'
  <2>1. CASE h.refs = 1
    <3>1. One(h.present) = 0 /\ leaked[k] = 0 /\ Cardinality(Users(k)') = 0 BY <1>3, <1>4, <1>9, <1>10, <2>1
    <3>2. ~h.present BY <3>1 DEF One
    <3>3. Count(k) = 0 BY <1>1, <3>2, CountsNat DEF HandleOK
    <3> QED BY <1>2, <1>3, <1>8, <2>1, <3>1, <3>3 DEF HandleOK
  <2>2. CASE h.refs # 1
    <3>1. new.refs > 0 /\ new.refs = One(new.present) + leaked'[k] + Cardinality(Users(k)')
          BY <1>3, <1>4, <1>9, <1>10, <2>2
    <3>2. new # NULL /\ new.present = h.present /\ new.refcount = h.refcount BY <2>2, Bounds
    <3> QED BY <1>1, <1>2, <1>8, <3>1, <3>2 DEF HandleOK
  <2> QED BY <2>1, <2>2
<1>12. \A q \in Procs : (Reading(q) /\ Fd(q) = k)' <=> Reading(q) /\ Fd(q) = k
  <2>1. ~Reading(p) /\ ~Reading(p)' BY DEF Reading
  <2> QED BY <2>1 DEF Reading, Acts, Fd
<1>13. LockOK(k)'
  <2>1. CASE h.refs = 1
    <3>1. ASSUME NEW q \in Procs, Reading(q), Fd(q) = k PROVE FALSE
      <4>1. q \in Users(k)' BY <1>12, <3>1 DEF Users, Reading
      <4>2. IsFiniteSet(Users(k)') BY Bounds, FS_Subset DEF Users
      <4>3. Cardinality(Users(k)') # 0 BY <4>1, <4>2, FS_EmptySet
      <4> QED BY <1>3, <1>4, <1>9, <1>10, <2>1, <4>3
    <3> QED BY <1>2, <1>12, <2>1, <3>1 DEF LockOK
  <2>2. CASE h.refs # 1
    <3>1. new # NULL /\ new.present = h.present /\ new.lock = h.lock /\ new.device = h.device BY <2>2, Bounds
    <3> QED BY <1>1, <1>2, <1>12, <3>1 DEF LockOK
  <2> QED BY <2>1, <2>2
<1>14. \A i \in Dev \ {k} : /\ devfs_handles'[i] = devfs_handles[i] /\ leaked'[i] = leaked[i]
                            /\ \A v \in Vfs : vfs_handles'[v] = i <=> vfs_handles[v] = i
       BY DEF SharedInv, Typed
<1>15. Fd(p) = k /\ Fd(p)' \in {k, NULL} BY DEF Fd, NoJob
<1> QED BY <1>11, <1>13, <1>14, <1>15, HandlesLocal

(* A call returns without giving its reference back: a write to a full disk,
   and the last close, which also takes the handle out of the array. *)
LEMMA LeakHandles ==
    ASSUME SharedInv, NEW p \in Procs, NEW k \in Dev, k = Fd(p), NEW new \in Handles,
           pc[p] = "lock", Acts(p), pc'[p] = "user", job'[p] = NoJob, job[p].call \in {"write", "close"},
           UNCHANGED vfs_handles, leaked' = [leaked EXCEPT ![k] = @ + 1],
           devfs_handles' = [devfs_handles EXCEPT ![k] = new],
           LET h == devfs_handles[k] IN
           /\ ~h.lock
           /\ job[p].call = "write" => new = h
           /\ job[p].call = "close" =>
                 ~(h.refcount > 1) /\ new.refcount = 0 /\ new.present = FALSE /\ new.refs = h.refs - 1
    PROVE  HandlesSound'
<1> DEFINE h == devfs_handles[k]
<1>1. h \in Handles /\ h # NULL /\ h.present /\ HandleOK(k) /\ LockOK(k) /\ Count(k) > 0
      BY There DEF SharedInv, HandlesSound
<1>2. devfs_handles'[k] = new /\ new # NULL BY Bounds DEF SharedInv, Typed
<1>3. h.refs \in Nat /\ h.refcount \in Nat /\ leaked[k] \in Nat /\ leaked'[k] = leaked[k] + 1
      BY <1>1 DEF Handles, SharedInv, Typed
<1>4. Cardinality(Users(k)) = Cardinality(Users(k)') + 1 /\ Cardinality(Users(k)') \in Nat
  <2>1. p \in Users(k) /\ p \notin Users(k)' BY DEF Users, Fd
  <2> QED BY <2>1, CountsNat, CountsStep DEF One
<1>5. Named(k)' = Named(k) BY DEF Named
<1>6. One(Fd(p) = k /\ Counted(p)) = One(job[p].call = "close") /\ One(Fd(p) = k /\ Counted(p))' = 0
  <2>1. Fd(p) = k /\ Counted(p) <=> job[p].call = "close" BY DEF Counted
  <2>2. ~Counted(p)' BY DEF Counted, NoJob
  <2> QED BY <2>1, <2>2 DEF One
<1>7. Cardinality(Pending(k)') + One(job[p].call = "close") = Cardinality(Pending(k))
      /\ Cardinality(Pending(k)') \in Nat
      BY <1>6, CountsNat, CountsStep
<1>8. Count(k)' + One(job[p].call = "close") = Count(k) /\ Count(k)' \in Nat
      BY <1>5, <1>7, CountsNat DEF Count, One
<1>9. h.refs = 1 + leaked[k] + Cardinality(Users(k)') + 1 /\ h.refcount = Count(k)
      BY <1>1, <1>3, <1>4 DEF HandleOK, One
<1>10. HandleOK(k)'
  <2>1. CASE job[p].call = "write"
    <3>1. Count(k)' = Count(k) BY <1>8, <2>1, CountsNat DEF One
    <3>2. new.refs > 0 /\ new.refs = One(new.present) + leaked'[k] + Cardinality(Users(k)')
          BY <1>1, <1>3, <1>4, <1>9, <2>1 DEF One
    <3> QED BY <1>1, <1>2, <2>1, <3>1, <3>2 DEF HandleOK
  <2>2. CASE job[p].call = "close"
    <3>1. Count(k)' = 0 BY <1>1, <1>8, <1>9, <2>2, CountsNat DEF One
    <3>2. new.refs > 0 /\ new.refs = One(new.present) + leaked'[k] + Cardinality(Users(k)')
          BY <1>3, <1>4, <1>9, <2>2 DEF One
    <3>3. new.present = FALSE BY <2>2
    <3> QED BY <1>2, <3>1, <3>2, <3>3 DEF HandleOK
  <2> QED BY <2>1, <2>2
<1>11. \A q \in Procs : ~(Reading(q) /\ Fd(q) = k) BY <1>1 DEF LockOK
<1>12. \A q \in Procs : ~(Reading(q) /\ Fd(q) = k)'
  <2>1. ~Reading(p)' BY DEF Reading
  <2> QED BY <1>11, <2>1 DEF Reading, Acts, Fd
<1>13. LockOK(k)' BY <1>2, <1>12 DEF LockOK
<1>14. \A i \in Dev \ {k} : /\ devfs_handles'[i] = devfs_handles[i] /\ leaked'[i] = leaked[i]
                            /\ \A v \in Vfs : vfs_handles'[v] = i <=> vfs_handles[v] = i
       BY DEF SharedInv, Typed
<1>15. Fd(p) = k /\ Fd(p)' \in {k, NULL} BY DEF Fd, NoJob
<1> QED BY <1>10, <1>13, <1>14, <1>15, HandlesLocal

(* The entry of vfs_handles v, which does not name handle k or does, changes. *)
LEMMA NamedStep ==
    ASSUME SharedInv, NEW v \in Vfs, NEW x \in Dev \cup {NULL}, vfs_handles' = [vfs_handles EXCEPT ![v] = x],
           NEW k \in Dev
    PROVE  /\ Cardinality(Named(k)') + One(vfs_handles[v] = k) = Cardinality(Named(k)) + One(x = k)
           /\ Cardinality(Named(k)') \in Nat
<1>1. vfs_handles'[v] = x /\ \A u \in Vfs \ {v} : vfs_handles'[u] = vfs_handles[u] BY DEF SharedInv, Typed
<1>2. Named(k) \in SUBSET Vfs /\ Named(k)' \in SUBSET Vfs BY DEF Named
<1>3. \A u \in Vfs \ {v} : u \in Named(k) <=> u \in Named(k)' BY <1>1 DEF Named
<1>a. IsFiniteSet(Vfs) /\ v \in Vfs BY Bounds
<1>4. /\ Cardinality(Named(k)') + One(v \in Named(k)) = Cardinality(Named(k)) + One(v \in Named(k)')
      /\ Cardinality(Named(k)') \in Nat
      BY ONLY <1>2, <1>3, <1>a, CountStep
<1>5. One(v \in Named(k)) = One(vfs_handles[v] = k) BY DEF Named, One
<1>6. One(v \in Named(k)') = One(x = k) BY <1>1 DEF Named, One
<1> QED BY <1>4, <1>5, <1>6

(* Handle k is opened. *)
LEMMA OpenHandles ==
    ASSUME SharedInv, NEW p \in Procs, NEW k \in Dev, NEW node \in {"root", "disk", "tty"},
           pc[p] = "user", Acts(p), pc'[p] = "add", job'[p].call = "open", job'[p].fd = k,
           devfs_handles[k] = NULL, UNCHANGED <<vfs_handles, leaked>>,
           devfs_handles' = [devfs_handles EXCEPT ![k] = NewHandle(node)]
    PROVE  HandlesSound' /\ NewHandle(node) \in Handles
<1> DEFINE new == NewHandle(node)
<1>0. HandleOK(k) /\ LockOK(k) /\ Fd(p) = NULL
      BY DEF SharedInv, HandlesSound, JobsSound, JobSound, NoJob, Fd
<1>1. new \in Handles /\ new.refs = 1 /\ new.present = TRUE /\ new.refcount = 1 /\ new.lock = FALSE
      BY DEF NewHandle, Handles
<1> HIDE DEF new
<1>2. devfs_handles'[k] = new /\ new # NULL BY <1>1, Bounds DEF SharedInv, Typed, new
<1>3. Count(k) = 0 /\ Cardinality(Users(k)) = 0 /\ leaked[k] = 0 BY <1>0 DEF HandleOK
<1>4. Cardinality(Users(k)') = 0
  <2>1. p \notin Users(k) /\ p \notin Users(k)' BY DEF Users
  <2> QED BY <1>3, <2>1, CountsNat, CountsStep DEF One
<1>5. One(Fd(p) = k /\ Counted(p)) = 0 /\ One(Fd(p) = k /\ Counted(p))' = 1
  <2>1. Fd(p) # k BY <1>0, Bounds
  <2>2. (Fd(p) = k /\ Counted(p))' BY DEF Fd, Counted
  <2> QED BY <2>1, <2>2 DEF One
<1>6. Count(k)' = 1
  <2>1. Cardinality(Pending(k)') = Cardinality(Pending(k)) + 1 BY <1>5, CountsNat, CountsStep
  <2>2. Named(k)' = Named(k) BY DEF Named
  <2> QED BY <1>3, <2>1, <2>2, CountsNat DEF Count
<1>7. HandleOK(k)' BY <1>1, <1>2, <1>3, <1>4, <1>6 DEF HandleOK, One
<1>8. \A q \in Procs : ~(Reading(q) /\ Fd(q) = k) BY <1>0 DEF LockOK
<1>9. \A q \in Procs : ~(Reading(q) /\ Fd(q) = k)'
  <2>1. ~Reading(p)' BY DEF Reading
  <2> QED BY <1>8, <2>1 DEF Reading, Acts, Fd
<1>10. LockOK(k)' BY <1>1, <1>2, <1>9 DEF LockOK
<1>11. \A i \in Dev \ {k} : /\ devfs_handles'[i] = devfs_handles[i] /\ leaked'[i] = leaked[i]
                            /\ \A v \in Vfs : vfs_handles'[v] = i <=> vfs_handles[v] = i
       BY DEF SharedInv, Typed
<1>12. Fd(p)' = k BY DEF Fd
<1>13. HandlesSound' BY <1>0, <1>7, <1>10, <1>11, <1>12, HandlesLocal
<1> QED BY <1>1, <1>13 DEF new

(* Places change without a change of what is counted. *)
LEMMA SameHandles ==
    ASSUME SharedInv, NEW p \in Procs, NEW k \in Dev, Acts(p), Fd(p) \in {k, NULL}, Fd(p)' \in {k, NULL},
           UNCHANGED <<devfs_handles, leaked>>,
           \A i \in Dev \ {k}, v \in Vfs : vfs_handles'[v] = i <=> vfs_handles[v] = i,
           ~Reading(p), ~Reading(p)', p \notin Users(k), p \notin Users(k)',
           Count(k)' = Count(k)
    PROVE  HandlesSound'
<1>1. HandleOK(k) /\ LockOK(k) BY DEF SharedInv, HandlesSound
<1>2. Cardinality(Users(k)') = Cardinality(Users(k)) BY CountsNat, CountsStep DEF One
<1>3. HandleOK(k)' BY <1>1, <1>2 DEF HandleOK
<1>4. \A q \in Procs : (Reading(q) /\ Fd(q) = k)' <=> Reading(q) /\ Fd(q) = k BY DEF Reading, Acts, Fd
<1>5. LockOK(k)' BY <1>1, <1>4 DEF LockOK
<1> QED BY <1>3, <1>5, HandlesLocal

(* The descriptor that was counted is entered in vfs_handles. *)
LEMMA AddHandles ==
    ASSUME SharedInv, NEW p \in Procs, NEW v \in Vfs, pc[p] = "add", Acts(p), pc'[p] = "user", job'[p] = NoJob,
           vfs_handles[v] = NULL, vfs_handles' = [vfs_handles EXCEPT ![v] = Fd(p)],
           UNCHANGED <<devfs_handles, leaked>>
    PROVE  HandlesSound'
<1>1. PICK k \in Dev : k = Fd(p) BY There
<1>2. vfs_handles' = [vfs_handles EXCEPT ![v] = k] BY <1>1
<1>3. Cardinality(Named(k)') = Cardinality(Named(k)) + 1 /\ Cardinality(Named(k)') \in Nat
  <2>1. One(vfs_handles[v] = k) = 0 /\ One(k = k) = 1 BY Bounds DEF One
  <2>2. Cardinality(Named(k)) \in Nat BY CountsNat
  <2>3. Cardinality(Named(k)') + One(vfs_handles[v] = k) = Cardinality(Named(k)) + One(k = k)
        /\ Cardinality(Named(k)') \in Nat
        BY <1>2, NamedStep
  <2> QED BY <2>1, <2>2, <2>3
<1>4. Counted(p) BY DEF Counted, SharedInv, JobsSound, JobSound
<1>5. ~Counted(p)' BY DEF Counted, NoJob
<1>6. One(Fd(p) = k /\ Counted(p)) = 1 /\ One(Fd(p) = k /\ Counted(p))' = 0 BY <1>1, <1>4, <1>5 DEF One
<1>7. Cardinality(Pending(k)') + 1 = Cardinality(Pending(k)) BY <1>6, CountsNat, CountsStep
<1>8. Count(k)' = Count(k) BY <1>3, <1>7, CountsNat, CountsStep DEF Count
<1>9. \A i \in Dev \ {k}, u \in Vfs : vfs_handles'[u] = i <=> vfs_handles[u] = i
      BY <1>2, Bounds DEF SharedInv, Typed
<1>10. Fd(p)' = NULL BY DEF Fd, NoJob
<1>11. ~Reading(p) /\ ~Reading(p)' /\ p \notin Users(k) /\ p \notin Users(k)' BY DEF Reading, Users
<1> QED BY <1>1, <1>8, <1>9, <1>10, <1>11, SameHandles

(* A call begins. *)
LEMMA CallHandles ==
    ASSUME SharedInv, NEW p \in Procs, NEW k \in Dev, pc[p] = "user", Acts(p), pc'[p] = "dev", job'[p].fd = k,
           job'[p].call \in Calls, UNCHANGED <<vfs_handles, devfs_handles, leaked>>
    PROVE  HandlesSound'
<1>1. Fd(p) = NULL BY DEF SharedInv, JobsSound, JobSound, NoJob, Fd
<1>2. ~(Fd(p) = k /\ Counted(p)) BY <1>1, Bounds
<1>3. ~Counted(p)' BY DEF Counted, Calls
<1>4. One(Fd(p) = k /\ Counted(p)) = 0 /\ One(Fd(p) = k /\ Counted(p))' = 0 BY <1>2, <1>3 DEF One
<1>5. Named(k)' = Named(k) BY DEF Named
<1>6. Count(k)' = Count(k) BY <1>4, <1>5, CountsNat, CountsStep DEF Count
<1>7. ~Reading(p) /\ ~Reading(p)' /\ p \notin Users(k) /\ p \notin Users(k)' BY DEF Reading, Users
<1>8. Fd(p)' = k BY DEF Fd
<1> QED BY <1>1, <1>6, <1>7, <1>8, SameHandles

(* A descriptor leaves vfs_handles, and the close that is to follow is counted. *)
LEMMA CloseHandles ==
    ASSUME SharedInv, NEW p \in Procs, NEW v \in own[p], pc[p] = "user", Acts(p), pc'[p] = "dev",
           job'[p].fd = vfs_handles[v], job'[p].call = "close",
           vfs_handles' = [vfs_handles EXCEPT ![v] = NULL], UNCHANGED <<devfs_handles, leaked>>
    PROVE  HandlesSound'
<1>0. v \in Vfs BY DEF SharedInv, Typed
<1>1. PICK k \in Dev : k = vfs_handles[v] BY <1>0 DEF SharedInv, OwnSound, Typed
<1>2. Fd(p) = NULL /\ Fd(p)' = k BY <1>1 DEF SharedInv, JobsSound, JobSound, NoJob, Fd
<1>3. Cardinality(Named(k)') + 1 = Cardinality(Named(k)) /\ Cardinality(Named(k)') \in Nat
  <2>1. One(vfs_handles[v] = k) = 1 /\ One(NULL = k) = 0 BY <1>1, Bounds DEF One
  <2>2. Cardinality(Named(k)) \in Nat BY CountsNat
  <2>3. Cardinality(Named(k)') + One(vfs_handles[v] = k) = Cardinality(Named(k)) + One(NULL = k)
        /\ Cardinality(Named(k)') \in Nat
        BY <1>0, NamedStep
  <2> QED BY <2>1, <2>2, <2>3
<1>4. ~(Fd(p) = k /\ Counted(p)) BY <1>2, Bounds
<1>5. Counted(p)' BY DEF Counted
<1>6. One(Fd(p) = k /\ Counted(p)) = 0 /\ One(Fd(p) = k /\ Counted(p))' = 1 BY <1>2, <1>4, <1>5 DEF One
<1>7. Cardinality(Pending(k)') = Cardinality(Pending(k)) + 1 BY <1>6, CountsNat, CountsStep
<1>8. Count(k)' = Count(k) BY <1>3, <1>7, CountsNat, CountsStep DEF Count
<1>9. \A i \in Dev \ {k}, u \in Vfs : vfs_handles'[u] = i <=> vfs_handles[u] = i
      BY <1>0, <1>1, Bounds DEF SharedInv, Typed
<1>10. ~Reading(p) /\ ~Reading(p)' /\ p \notin Users(k) /\ p \notin Users(k)' BY DEF Reading, Users
<1> QED BY <1>2, <1>8, <1>9, <1>10, SameHandles

(* The invariant after a step of process p, from what the step does. *)
LEMMA SharedBy ==
    ASSUME SharedInv, NEW p \in Procs, NEW place \in Places, NEW j \in Jobs, Goto(p, place, j),
           UNCHANGED <<setup, event_abrt>>,
           vfs_handles' \in [Vfs -> Dev \cup {NULL}], devfs_handles' \in [Dev -> Handles \cup {NULL}],
           own' \in [Procs -> SUBSET Vfs], leaked' \in [Dev -> Nat],
           JobSound(p)', OwnSound', HandlesSound'
    PROVE  SharedInv'
<1>1. /\ Acts(p) /\ pc'[p] = place /\ job'[p] = j
      /\ pc' \in [Procs -> Places] /\ job' \in [Procs -> Jobs]
      BY GotoActs DEF SharedInv
<1>2. Typed' BY <1>1 DEF SharedInv, Typed
<1>3. JobsSound' BY <1>1 DEF SharedInv, JobsSound, JobSound, Acts
<1> QED BY <1>2, <1>3 DEF SharedInv

(* Steps that leave handles and calls alone. *)
LEMMA QuietShared ==
    ASSUME SharedInv, UNCHANGED <<setup, vfs_handles, devfs_handles, own, leaked, pc, job>>, event_abrt' \subseteq Procs
    PROVE  SharedInv'
<1>1. Typed' BY DEF SharedInv, Typed
<1>2. JobsSound' BY DEF SharedInv, JobsSound, JobSound
<1>3. OwnSound' BY DEF SharedInv, OwnSound, Busy, Fd
<1>4. \A i \in Dev : Named(i)' = Named(i) /\ Pending(i)' = Pending(i) /\ Users(i)' = Users(i)
      BY DEF Named, Pending, Users, Counted, Fd
<1>5. \A i \in Dev : HandleOK(i)' BY <1>4 DEF SharedInv, HandlesSound, HandleOK, Count
<1>6. \A i \in Dev : LockOK(i)' BY DEF SharedInv, HandlesSound, LockOK, Reading, Fd
<1> QED BY <1>1, <1>2, <1>3, <1>5, <1>6 DEF SharedInv, HandlesSound

(* A call that goes on keeps its descriptor. *)
LEMMA OwnSame ==
    ASSUME SharedInv, NEW p \in Procs, Acts(p), UNCHANGED <<vfs_handles, own>>,
           Busy(p)' => Busy(p) /\ Fd(p)' = Fd(p)
    PROVE  OwnSound'
<1>1. OwnSound BY DEF SharedInv
<1>2. ASSUME NEW q \in Procs, Busy(q)' PROVE \E v \in own'[q] : vfs_handles'[v] = Fd(q)'
  <2>1. Busy(q) /\ Fd(q)' = Fd(q) BY <1>2 DEF Acts, Busy, Fd
  <2> QED BY <1>1, <2>1 DEF OwnSound
<1>3. \A v \in Vfs : vfs_handles'[v] = NULL <=> \A q \in Procs : v \notin own'[q] BY <1>1 DEF OwnSound
<1>4. \A v \in Vfs, q, r \in Procs : v \in own'[q] /\ v \in own'[r] => q = r BY <1>1 DEF OwnSound
<1> QED BY <1>2, <1>3, <1>4 DEF OwnSound

(* A call that is done with its handle keeps the invariant. *)
LEMMA FinishShared ==
    ASSUME SharedInv, NEW p \in Procs, NEW k \in Dev, k = Fd(p), NEW new \in Handles,
           pc[p] \in {"lock", "tc", "tty", "wait"}, Goes(p, "unref"),
           UNCHANGED <<setup, event_abrt, job, vfs_handles, own, leaked>>,
           devfs_handles' = [devfs_handles EXCEPT ![k] = new],
           LET h == devfs_handles[k] IN
           /\ new.refs = h.refs /\ new.present = h.present /\ new.device = h.device
           /\ new.lock = IF Reading(p) THEN FALSE ELSE h.lock
           /\ new.refcount = IF job[p].call = "dup" /\ pc[p] = "lock" THEN h.refcount + 1
                             ELSE IF job[p].call = "close" THEN h.refcount - 1 ELSE h.refcount
           /\ job[p].call = "close" => h.refcount > 1
    PROVE  SharedInv'
<1>1. job[p] \in Jobs /\ job[p].call # "none" BY There
<1>2. Goto(p, "unref", job[p]) BY DEF Goes, Goto, SharedInv, Typed
<1>3. "unref" \in Places BY DEF Places
<1>4. Acts(p) /\ pc'[p] = "unref" /\ job'[p] = job[p] BY <1>1, <1>2, <1>3, GotoActs DEF SharedInv
<1>5. HandlesSound' BY <1>4, FinishHandles
<1>6. JobSound(p)' BY <1>1, <1>4 DEF JobSound, SharedInv, JobsSound
<1>7. OwnSound' BY <1>4, OwnSame DEF Busy, Fd
<1>8. devfs_handles' \in [Dev -> Handles \cup {NULL}] BY DEF SharedInv, Typed
<1>9. /\ vfs_handles' \in [Vfs -> Dev \cup {NULL}] /\ own' \in [Procs -> SUBSET Vfs] /\ leaked' \in [Dev -> Nat]
      BY DEF SharedInv, Typed
<1> QED BY <1>1, <1>2, <1>3, <1>5, <1>6, <1>7, <1>8, <1>9, SharedBy

(* The position is a number. *)
LEMMA MovedTyped ==
    ASSUME NEW ptr \in Nat, NEW len \in Nat, NEW q \in Moved(ptr, len)
    PROVE  q \in Nat
  BY DevicesAssumption DEF Moved

(* read, write, lseek, readdir, dup and the closes that are not the last. *)
LEMMA DoneShared ==
    ASSUME SharedInv, UNCHANGED setup, NEW p \in Procs,
           \/ devfs_read(p) \/ devfs_write(p) \/ devfs_lseek(p) \/ devfs_readdir(p) \/ devfs_dup(p)
           \/ devfs_close(p) /\ Handle(p).refcount > 1
           \/ TtyReadBegins(p) /\ tcioff
    PROVE  SharedInv'
<1>1. Locks(p, job[p].call) /\ pc[p] = "lock"
      BY DEF devfs_read, devfs_write, devfs_lseek, devfs_readdir, devfs_dup, devfs_close, TtyReadBegins, Locks, At
<1>2. PICK k \in Dev : k = Fd(p) BY <1>1, There
<1>3. PICK h \in Handles : h = devfs_handles[k] BY <1>1, <1>2, There
<1>4. h = Handle(p) /\ ~h.lock /\ h.refcount \in Nat /\ h.ptr \in Nat
      BY <1>1, <1>2, <1>3 DEF Handle, Locks, Handles
<1>5. ASSUME NEW new \in Handles, Done(p, new),
             /\ new.refs = h.refs /\ new.present = h.present /\ new.device = h.device /\ new.lock = h.lock
             /\ new.refcount = IF job[p].call = "dup" THEN h.refcount + 1
                               ELSE IF job[p].call = "close" THEN h.refcount - 1 ELSE h.refcount
             /\ job[p].call = "close" => h.refcount > 1
      PROVE  SharedInv'
  <2>1. /\ devfs_handles' = [devfs_handles EXCEPT ![k] = new] /\ Goes(p, "unref")
        /\ UNCHANGED <<event_abrt, job, vfs_handles, own, leaked>>
        BY <1>2, <1>5 DEF Done
  <2>2. ~Reading(p) BY <1>1 DEF Reading
  <2> QED BY <1>1, <1>2, <1>3, <1>5, <2>1, <2>2, FinishShared
<1>6. ASSUME NEW q \in Nat
      PROVE  LET new == [h EXCEPT !.ptr = q] IN
             /\ new \in Handles /\ new.refs = h.refs /\ new.present = h.present /\ new.device = h.device
             /\ new.lock = h.lock /\ new.refcount = h.refcount
      BY DEF Handles
<1>7. CASE devfs_read(p) \/ devfs_write(p)
  <2>1. job[p].call \in {"read", "write"} BY <1>7 DEF devfs_read, devfs_write, Locks
  <2>2. job[p].arg \in Nat BY <1>1, There DEF Jobs
  <2>3. CASE Done(p, h) BY <1>5, <2>1, <2>3
  <2>4. ASSUME NEW q \in Moved(h.ptr, job[p].arg), Done(p, [h EXCEPT !.ptr = q]) PROVE SharedInv'
    <3>1. q \in Nat BY <1>4, <2>2, MovedTyped
    <3> QED BY <1>5, <1>6, <2>1, <2>4, <3>1
  <2> QED BY <1>4, <1>7, <2>3, <2>4 DEF devfs_read, devfs_write
<1>8. CASE devfs_lseek(p)
  <2>1. PICK q \in Nat : q = IF job[p].arg < Size THEN job[p].arg ELSE h.ptr
    <3>1. job[p].arg \in Nat BY <1>1, There DEF Jobs
    <3> QED BY <1>4, <3>1, DevicesAssumption
  <2>2. Done(p, [h EXCEPT !.ptr = q]) /\ job[p].call = "lseek" BY <1>4, <1>8, <2>1 DEF devfs_lseek, Locks
  <2> QED BY <1>5, <1>6, <2>2
<1>9. CASE devfs_readdir(p)
  <2>1. PICK q \in Nat : q = IF h.ptr < NDevices THEN h.ptr + 1 ELSE h.ptr
        BY <1>4, DevicesAssumption
  <2>2. Done(p, [h EXCEPT !.ptr = q]) /\ job[p].call = "readdir" BY <1>4, <1>9, <2>1 DEF devfs_readdir, Locks
  <2> QED BY <1>5, <1>6, <2>2
<1>10. ASSUME NEW n \in Nat
       PROVE  LET new == [h EXCEPT !.refcount = n] IN
              /\ new \in Handles /\ new.refs = h.refs /\ new.present = h.present /\ new.device = h.device
              /\ new.lock = h.lock /\ new.refcount = n
       BY DEF Handles
<1>11. CASE devfs_dup(p)
  <2>1. PICK n \in Nat : n = h.refcount + 1 BY <1>4
  <2>2. Done(p, [h EXCEPT !.refcount = n]) /\ job[p].call = "dup" BY <1>4, <1>11, <2>1 DEF devfs_dup, Locks
  <2> QED BY <1>5, <1>10, <2>1, <2>2
<1>12. CASE devfs_close(p) /\ h.refcount > 1
  <2>1. PICK n \in Nat : n = h.refcount - 1 BY <1>4, <1>12
  <2>2. Done(p, [h EXCEPT !.refcount = n]) /\ job[p].call = "close" BY <1>4, <1>12, <2>1 DEF devfs_close, Locks
  <2> QED BY <1>5, <1>10, <1>12, <2>1, <2>2
<1>13. CASE TtyReadBegins(p) /\ tcioff
  <2>1. Done(p, h) /\ job[p].call = "read" BY <1>4, <1>13 DEF TtyReadBegins, Locks
  <2> QED BY <1>5, <2>1
<1> QED BY <1>4, <1>7, <1>8, <1>9, <1>11, <1>12, <1>13

(* The ends of a read of the terminal, and the calls for terminals. *)
LEMMA TtyEndsShared ==
    ASSUME SharedInv, UNCHANGED setup, NEW p \in Procs,
           \/ TtyAborted(p) \/ tty_read(p) \/ tty_tcsetattr(p) \/ tty_tcflow(p) \/ tty_tcgetattr(p)
    PROVE  SharedInv'
<1>1. pc[p] \in {"wait", "tty", "tc"} BY DEF TtyAborted, tty_read, tty_tcsetattr, tty_tcflow, tty_tcgetattr, At
<1>2. PICK k \in Dev : k = Fd(p) BY <1>1, There
<1>3. PICK h \in Handles : h = devfs_handles[k] BY <1>1, <1>2, There
<1>4. job[p].call \notin {"dup", "close"} BY <1>1 DEF SharedInv, JobsSound, JobSound, TtyCalls
<1>5. CASE TtyAborted(p) \/ tty_read(p)
  <2> DEFINE new == [h EXCEPT !.lock = FALSE]
  <2>1. /\ new \in Handles /\ new.refs = h.refs /\ new.present = h.present /\ new.device = h.device
        /\ new.lock = FALSE /\ new.refcount = h.refcount
        BY DEF Handles
  <2>2. devfs_handles' = [devfs_handles EXCEPT ![k] = new]
        BY <1>2, <1>3, <1>5 DEF TtyAborted, Done, Handle, tty_read
  <2>3. Goes(p, "unref") /\ UNCHANGED <<event_abrt, job, vfs_handles, own, leaked>>
        BY <1>5 DEF TtyAborted, Done, tty_read
  <2>4. Reading(p) BY <1>5 DEF Reading, TtyAborted, tty_read, At
  <2> HIDE DEF new
  <2> QED BY <1>1, <1>2, <1>3, <1>4, <2>1, <2>2, <2>3, <2>4, FinishShared
<1>6. CASE tty_tcsetattr(p) \/ tty_tcflow(p) \/ tty_tcgetattr(p)
  <2>1. /\ Goes(p, "unref") /\ UNCHANGED <<event_abrt, job, vfs_handles, own, leaked>>
        /\ UNCHANGED devfs_handles /\ pc[p] = "tc"
        BY <1>6 DEF tty_tcsetattr, tty_tcflow, tty_tcgetattr, At, handles
  <2>2. devfs_handles' = [devfs_handles EXCEPT ![k] = h] BY <1>3, <2>1 DEF SharedInv, Typed
  <2>3. ~Reading(p) BY <2>1 DEF Reading
  <2> QED BY <1>2, <1>3, <1>4, <2>1, <2>2, <2>3, FinishShared
<1> QED BY <1>5, <1>6

(* The rest of a read of the terminal. *)
LEMMA TtyShared ==
    ASSUME SharedInv, UNCHANGED setup, NEW p \in Procs,
           (TtyReadBegins(p) /\ ~tcioff) \/ TtyBusy(p) \/ TtySleeps(p) \/ TtyWoken(p)
    PROVE  SharedInv'
<1>1. pc[p] \in {"lock", "wait", "tty"} BY DEF TtyReadBegins, TtyBusy, TtySleeps, TtyWoken, At, Locks
<1>2. PICK k \in Dev : k = Fd(p) BY <1>1, There
<1>3. PICK h \in Handles : h = devfs_handles[k] /\ h # NULL BY <1>1, <1>2, There
<1>4. job[p].call = "read" /\ job[p] \in Jobs
      BY <1>1, There DEF SharedInv, JobsSound, JobSound, TtyReadBegins, Locks, TtyBusy, TtySleeps, TtyWoken, At
<1>5. pc[p] # "lock" => h.lock /\ h.device = "tty"
      BY <1>1, <1>2, <1>3 DEF SharedInv, HandlesSound, LockOK, Reading
<1>6. UNCHANGED job BY DEF TtyReadBegins, TtyBusy, TtySleeps, TtyWoken
<1> DEFINE j == job[p]
<1>7. j \in Jobs /\ j.call = "read" /\ j.fd = job[p].fd BY <1>4
<1>8. PICK place \in {"tty", "wait"} : Goes(p, place) BY DEF TtyReadBegins, TtyBusy, TtySleeps, TtyWoken
<1>9. Goto(p, place, j) /\ place \in Places BY <1>6, <1>8 DEF Goes, Goto, Places, SharedInv, Typed
<1>10. Acts(p) /\ pc'[p] = place /\ job'[p] = j BY <1>7, <1>9, GotoActs DEF SharedInv
<1> HIDE DEF j
<1>11. UNCHANGED <<event_abrt, vfs_handles, own, leaked>>
       BY DEF TtyReadBegins, TtyBusy, TtySleeps, TtyWoken, handles
<1>12. PICK new \in Handles :
           /\ devfs_handles' = [devfs_handles EXCEPT ![k] = new]
           /\ new.refs = h.refs /\ new.present = h.present /\ new.device = "tty" /\ new.refcount = h.refcount
           /\ new.lock = TRUE /\ (pc[p] = "lock" => ~h.lock)
  <2>1. CASE TtyReadBegins(p) /\ ~tcioff
    <3> DEFINE n == [h EXCEPT !.lock = TRUE]
    <3>1. ~h.lock /\ h.device = "tty" BY <1>2, <1>3, <2>1 DEF TtyReadBegins, Locks, Handle
    <3>2. devfs_handles' = [devfs_handles EXCEPT ![k] = n] BY <1>2, <1>3, <2>1 DEF TtyReadBegins
    <3>3. /\ n \in Handles /\ n.refs = h.refs /\ n.present = h.present /\ n.device = h.device
          /\ n.refcount = h.refcount /\ n.lock = TRUE
          BY DEF Handles
    <3> HIDE DEF n
    <3> QED BY <3>1, <3>2, <3>3
  <2>2. CASE TtyBusy(p) \/ TtySleeps(p) \/ TtyWoken(p)
    <3>1. pc[p] \in {"tty", "wait"} /\ UNCHANGED devfs_handles
          BY <2>2 DEF TtyBusy, TtySleeps, TtyWoken, At, handles
    <3>2. devfs_handles' = [devfs_handles EXCEPT ![k] = h] BY <1>3, <3>1 DEF SharedInv, Typed
    <3>3. h.lock \in BOOLEAN BY DEF Handles
    <3> QED BY <1>5, <3>1, <3>2, <3>3
  <2> QED BY <2>1, <2>2
<1>13. Fd(p)' = k BY <1>2, <1>7, <1>10 DEF Fd
<1>14. job'[p].call = "read" /\ pc'[p] \in {"tty", "wait"} BY <1>7, <1>10
<1>15. HandlesSound' BY <1>1, <1>2, <1>3, <1>4, <1>10, <1>11, <1>12, <1>13, <1>14, ReadHandles
<1>16. JobSound(p)' BY <1>2, <1>10, <1>13, <1>14 DEF JobSound, Fd
<1>17. OwnSound' BY <1>2, <1>4, <1>10, <1>11, <1>13, OwnSame DEF Busy
<1>18. devfs_handles' \in [Dev -> Handles \cup {NULL}] BY <1>12 DEF SharedInv, Typed
<1>19. /\ vfs_handles' \in [Vfs -> Dev \cup {NULL}] /\ own' \in [Procs -> SUBSET Vfs] /\ leaked' \in [Dev -> Nat]
       BY <1>11 DEF SharedInv, Typed
<1> QED BY <1>7, <1>9, <1>11, <1>15, <1>16, <1>17, <1>18, <1>19, SharedBy

(* dynarray_getelem and dynarray_unref. *)
LEMMA GetShared ==
    ASSUME SharedInv, UNCHANGED setup, NEW p \in Procs, DevGet(p)
    PROVE  SharedInv'
<1>1. pc[p] = "dev" BY DEF DevGet, At
<1>2. PICK k \in Dev : k = Fd(p) BY <1>1, There
<1>3. PICK h \in Handles : h = devfs_handles[k] /\ h # NULL /\ h.present BY <1>1, <1>2, There
<1>4. job[p] \in Jobs /\ job[p].call \notin {"none", "open"} BY <1>1, There DEF SharedInv, JobsSound, JobSound
<1>5. h = Handle(p) BY <1>2, <1>3 DEF Handle
<1>6. UNCHANGED <<event_abrt, vfs_handles, own, leaked>> BY DEF DevGet
<1>7. CASE UNCHANGED <<devfs_handles, pc, job>>
      BY <1>6, <1>7, QuietShared DEF SharedInv, Typed
<1>8. CASE /\ devfs_handles' = [devfs_handles EXCEPT ![Fd(p)].refs = @ + 1]
           /\ Goes(p, Follows(job[p].call, h.device)) /\ UNCHANGED job
           /\ ~(job[p].call \in TtyCalls /\ h.device = "root")
  <2> DEFINE place == Follows(job[p].call, h.device)
  <2>1. /\ place \in {"lock", "tc", "unref"} /\ (job[p].call \in {"close", "dup"} => place = "lock")
        /\ (place = "tc" => job[p].call \in TtyCalls) /\ (job[p].call = "isatty" => place = "unref")
        BY DEF Follows, TtyCalls
  <2>2. place \in Places BY <2>1 DEF Places
  <2>3. Goto(p, place, job[p]) BY <1>8 DEF Goes, Goto, SharedInv, Typed
  <2> HIDE DEF place
  <2>4. Acts(p) /\ pc'[p] = place /\ job'[p] = job[p] BY <1>4, <2>2, <2>3, GotoActs DEF SharedInv
  <2>5. PICK n \in Nat : n = h.refs + 1 BY DEF Handles
  <2> DEFINE new == [h EXCEPT !.refs = n]
  <2>6. devfs_handles' = [devfs_handles EXCEPT ![k] = new] BY <1>2, <1>3, <1>8, <2>5
  <2>7. /\ new \in Handles /\ new.refs = n /\ new.present = h.present /\ new.device = h.device
        /\ new.lock = h.lock /\ new.refcount = h.refcount
        BY DEF Handles
  <2> HIDE DEF new
  <2>8. HandlesSound' BY <1>1, <1>2, <1>3, <1>4, <1>6, <2>1, <2>4, <2>5, <2>6, <2>7, GetHandles
  <2>9. JobSound(p)' BY <1>2, <1>4, <2>1, <2>4 DEF JobSound, Fd
  <2>10. OwnSound' BY <1>6, <2>4, OwnSame DEF Busy, Fd
  <2>11. devfs_handles' \in [Dev -> Handles \cup {NULL}] BY <2>6, <2>7 DEF SharedInv, Typed
  <2>12. /\ vfs_handles' \in [Vfs -> Dev \cup {NULL}] /\ own' \in [Procs -> SUBSET Vfs] /\ leaked' \in [Dev -> Nat]
         BY <1>6 DEF SharedInv, Typed
  <2> QED BY <1>4, <1>6, <2>2, <2>3, <2>8, <2>9, <2>10, <2>11, <2>12, SharedBy
<1>9. CASE job[p].call \in TtyCalls /\ h.device = "root" BY <1>3, <1>5, <1>7, <1>9 DEF DevGet
<1>10. CASE ~(job[p].call \in TtyCalls /\ h.device = "root") BY <1>3, <1>5, <1>8, <1>10 DEF DevGet
<1> QED BY <1>9, <1>10

(* The reference is given back. *)
LEMMA UnrefShared ==
    ASSUME SharedInv, UNCHANGED setup, NEW p \in Procs, DevUnref(p)
    PROVE  SharedInv'
<1>1. pc[p] = "unref" BY DEF DevUnref, At
<1>2. PICK k \in Dev : k = Fd(p) BY <1>1, There
<1>3. PICK h \in Handles : h = devfs_handles[k] /\ h # NULL BY <1>1, <1>2, There
<1>4. job[p] \in Jobs /\ job[p].call \notin {"none", "open"} BY <1>1, There DEF SharedInv, JobsSound, JobSound
<1>5. HandleOK(k) BY DEF SharedInv, HandlesSound
<1>6. h.refs \in Nat /\ h.refs > 0 BY <1>3, <1>5 DEF Handles, HandleOK
<1>7. PICK n \in Nat : n = h.refs - 1 BY <1>6
<1> DEFINE less == [h EXCEPT !.refs = n]
<1>8. /\ less \in Handles /\ less.refs = n /\ less.present = h.present /\ less.device = h.device
      /\ less.lock = h.lock /\ less.refcount = h.refcount
      BY DEF Handles
<1>9. PICK new \in Handles \cup {NULL} :
          devfs_handles' = [devfs_handles EXCEPT ![k] = new] /\ new = IF h.refs = 1 THEN NULL ELSE less
  <2>1. devfs_handles' = [devfs_handles EXCEPT ![k] = IF h.refs = 1 THEN NULL ELSE less]
        BY <1>2, <1>3, <1>7 DEF DevUnref, Handle
  <2> HIDE DEF less
  <2> QED BY <1>8, <2>1
<1> HIDE DEF less
<1>10. UNCHANGED <<event_abrt, vfs_handles, own, leaked>> BY DEF DevUnref
<1>11. PICK place \in Places, j \in Jobs :
           /\ Goto(p, place, j)
           /\ \/ job[p].call = "dup" /\ place = "add" /\ j = job[p]
              \/ job[p].call # "dup" /\ place = "user" /\ j = NoJob
  <2>1. CASE job[p].call = "dup"
    <3>1. Goto(p, "add", job[p]) /\ "add" \in Places BY <2>1 DEF DevUnref, Goes, Goto, SharedInv, Typed, Places
    <3> QED BY <1>4, <2>1, <3>1
  <2>2. CASE job[p].call # "dup"
    <3>1. Goto(p, "user", NoJob) /\ "user" \in Places /\ NoJob \in Jobs
          BY <2>2, Bounds DEF DevUnref, Returns, Goes, Goto, Places
    <3> QED BY <2>2, <3>1
  <2> QED BY <2>1, <2>2
<1>12. Acts(p) /\ pc'[p] = place /\ job'[p] = j BY <1>11, GotoActs DEF SharedInv
<1>13. HandlesSound' BY <1>1, <1>2, <1>3, <1>7, <1>8, <1>9, <1>10, <1>11, <1>12, UnrefHandles
<1>14. JobSound(p)' BY <1>2, <1>4, <1>11, <1>12 DEF JobSound, Fd, NoJob
<1>15. OwnSound'
  <2>1. Busy(p)' => Busy(p) /\ Fd(p)' = Fd(p) BY <1>11, <1>12 DEF Busy, Fd, NoJob
  <2> QED BY <1>10, <1>12, <2>1, OwnSame
<1>16. devfs_handles' \in [Dev -> Handles \cup {NULL}] BY <1>9 DEF SharedInv, Typed
<1>17. /\ vfs_handles' \in [Vfs -> Dev \cup {NULL}] /\ own' \in [Procs -> SUBSET Vfs] /\ leaked' \in [Dev -> Nat]
       BY <1>10 DEF SharedInv, Typed
<1> QED BY <1>10, <1>11, <1>13, <1>14, <1>15, <1>16, <1>17, SharedBy

(* A write to a full disk, and the last close. *)
LEMMA LeakShared ==
    ASSUME SharedInv, UNCHANGED setup, NEW p \in Procs,
           DiskFull(p) \/ (devfs_close(p) /\ ~(Handle(p).refcount > 1))
    PROVE  SharedInv'
<1>1. pc[p] = "lock" /\ ~Handle(p).lock /\ job[p].call \in {"write", "close"}
      BY DEF DiskFull, devfs_close, Locks, At
<1>2. PICK k \in Dev : k = Fd(p) BY <1>1, There
<1>3. PICK h \in Handles : h = devfs_handles[k] /\ h # NULL /\ h.present BY <1>1, <1>2, There
<1>4. h = Handle(p) /\ ~h.lock BY <1>1, <1>2, <1>3 DEF Handle
<1>5. h.refs \in Nat /\ h.refs > 0
  <2>1. HandleOK(k) BY DEF SharedInv, HandlesSound
  <2> QED BY <1>3, <2>1 DEF Handles, HandleOK
<1>6. /\ Returns(p) /\ leaked' = [leaked EXCEPT ![k] = @ + 1] /\ UNCHANGED <<vfs_handles, own, event_abrt>>
      BY <1>2 DEF DiskFull, devfs_close
<1>7. Goto(p, "user", NoJob) /\ "user" \in Places /\ NoJob \in Jobs
      BY <1>6, Bounds DEF Returns, Goes, Goto, Places
<1>8. Acts(p) /\ pc'[p] = "user" /\ job'[p] = NoJob BY <1>7, GotoActs DEF SharedInv
<1>9. PICK n \in Nat : n = h.refs - 1 BY <1>5
<1> DEFINE gone1 == [h EXCEPT !.refcount = 0, !.present = FALSE, !.lock = TRUE, !.refs = n]
<1>10. gone1 \in Handles /\ gone1.refcount = 0 /\ gone1.present = FALSE /\ gone1.refs = n BY DEF Handles
<1>11. PICK new \in Handles :
           /\ devfs_handles' = [devfs_handles EXCEPT ![k] = new]
           /\ job[p].call = "write" => new = h
           /\ job[p].call = "close" => ~(h.refcount > 1) /\ new = gone1
  <2>1. CASE DiskFull(p)
    <3>1. devfs_handles' = [devfs_handles EXCEPT ![k] = h] /\ job[p].call = "write"
          BY <1>3, <2>1 DEF DiskFull, Locks, SharedInv, Typed
    <3> QED BY <3>1
  <2>2. CASE devfs_close(p) /\ ~(Handle(p).refcount > 1)
    <3>1. devfs_handles' = [devfs_handles EXCEPT ![k] = gone1] /\ job[p].call = "close"
          BY <1>2, <1>4, <1>9, <2>2 DEF devfs_close, Locks
    <3> HIDE DEF gone1
    <3> QED BY <1>4, <1>10, <2>2, <3>1
  <2> QED BY <2>1, <2>2
<1> HIDE DEF gone1
<1>12. HandlesSound' BY <1>1, <1>2, <1>3, <1>4, <1>6, <1>8, <1>9, <1>10, <1>11, LeakHandles
<1>13. JobSound(p)' BY <1>8 DEF JobSound, NoJob
<1>14. OwnSound'
  <2>1. ~Busy(p)' BY <1>8 DEF Busy, NoJob
  <2> QED BY <1>6, <1>8, <2>1, OwnSame
<1>15. devfs_handles' \in [Dev -> Handles \cup {NULL}] BY <1>11 DEF SharedInv, Typed
<1>16. /\ vfs_handles' \in [Vfs -> Dev \cup {NULL}] /\ own' \in [Procs -> SUBSET Vfs] /\ leaked' \in [Dev -> Nat]
       BY <1>6 DEF SharedInv, Typed
<1> QED BY <1>6, <1>7, <1>12, <1>13, <1>14, <1>15, <1>16, SharedBy

(* open *)
LEMMA OpenShared ==
    ASSUME SharedInv, UNCHANGED setup, NEW p \in Procs, NEW node \in setup.nodes, devfs_open(p, node)
    PROVE  SharedInv'
<1>1. node \in {"root", "disk", "tty"} BY DevicesAssumption DEF SharedInv, Typed
<1>2. PICK k \in Dev :
          /\ First(k, FreeDev) /\ devfs_handles' = [devfs_handles EXCEPT ![k] = NewHandle(node)]
          /\ job' = [job EXCEPT ![p] = [NoJob EXCEPT !.call = "open", !.fd = k]]
      BY DEF devfs_open
<1>3. devfs_handles[k] = NULL BY <1>2 DEF First, FreeDev
<1>4. pc[p] = "user" /\ Goes(p, "add") /\ UNCHANGED <<vfs_handles, own, leaked, event_abrt>>
      BY DEF devfs_open, At
<1> DEFINE j == [NoJob EXCEPT !.call = "open", !.fd = k]
<1>5. j \in Jobs /\ j.call = "open" /\ j.fd = k BY DEF NoJob, Jobs
<1>6. Goto(p, "add", j) /\ "add" \in Places BY <1>2, <1>4 DEF Goes, Goto, Places
<1> HIDE DEF j
<1>7. Acts(p) /\ pc'[p] = "add" /\ job'[p] = j BY <1>5, <1>6, GotoActs DEF SharedInv
<1>8. HandlesSound' /\ NewHandle(node) \in Handles BY <1>1, <1>2, <1>3, <1>4, <1>5, <1>7, OpenHandles
<1>9. JobSound(p)' BY <1>5, <1>7 DEF JobSound
<1>10. OwnSound'
  <2>1. ~Busy(p)' BY <1>5, <1>7 DEF Busy
  <2> QED BY <1>4, <1>7, <2>1, OwnSame
<1>11. devfs_handles' \in [Dev -> Handles \cup {NULL}] BY <1>2, <1>8 DEF SharedInv, Typed
<1>12. /\ vfs_handles' \in [Vfs -> Dev \cup {NULL}] /\ own' \in [Procs -> SUBSET Vfs] /\ leaked' \in [Dev -> Nat]
       BY <1>4 DEF SharedInv, Typed
<1> QED BY <1>4, <1>5, <1>6, <1>8, <1>9, <1>10, <1>11, <1>12, SharedBy

(* A descriptor is entered for the process or for its child. *)
LEMMA AddShared ==
    ASSUME SharedInv, UNCHANGED setup, NEW p \in Procs, VfsAdd(p)
    PROVE  SharedInv'
<1>1. pc[p] = "add" /\ Returns(p) /\ UNCHANGED <<devfs_handles, leaked, event_abrt>> BY DEF VfsAdd, At
<1>2. PICK k \in Dev : k = Fd(p) BY <1>1, There
<1>3. PICK v \in Vfs, q \in Procs :
          /\ First(v, FreeVfs) /\ vfs_handles' = [vfs_handles EXCEPT ![v] = k]
          /\ own' = [own EXCEPT ![q] = @ \cup {v}]
      BY <1>2 DEF VfsAdd
<1>4. vfs_handles[v] = NULL BY <1>3 DEF First, FreeVfs
<1>5. Goto(p, "user", NoJob) /\ "user" \in Places /\ NoJob \in Jobs
      BY <1>1, Bounds DEF Returns, Goes, Goto, Places
<1>6. Acts(p) /\ pc'[p] = "user" /\ job'[p] = NoJob BY <1>5, GotoActs DEF SharedInv
<1>7. HandlesSound' BY <1>1, <1>2, <1>3, <1>4, <1>6, AddHandles
<1>8. JobSound(p)' BY <1>6 DEF JobSound, NoJob
<1>9. vfs_handles' \in [Vfs -> Dev \cup {NULL}] /\ own' \in [Procs -> SUBSET Vfs] BY <1>3 DEF SharedInv, Typed
<1>10. /\ vfs_handles'[v] = k /\ k # NULL /\ v \in own'[q]
       /\ \A u \in Vfs \ {v} : vfs_handles'[u] = vfs_handles[u] /\ \A r \in Procs : u \in own'[r] <=> u \in own[r]
       /\ \A r \in Procs \ {q} : own'[r] = own[r]
       BY <1>3, Bounds DEF SharedInv, Typed
<1>11. \A r \in Procs : v \notin own[r] BY <1>4 DEF SharedInv, OwnSound
<1>12. OwnSound'
  <2>0. OwnSound BY DEF SharedInv
  <2>1. \A u \in Vfs : vfs_handles'[u] = NULL <=> \A r \in Procs : u \notin own'[r]
        BY <1>10, <2>0 DEF OwnSound
  <2>2. \A u \in Vfs, r, s \in Procs : u \in own'[r] /\ u \in own'[s] => r = s
        BY <1>10, <1>11, <2>0 DEF OwnSound
  <2>3. ASSUME NEW r \in Procs, Busy(r)' PROVE \E u \in own'[r] : vfs_handles'[u] = Fd(r)'
    <3>1. r # p BY <1>6, <2>3 DEF Busy, NoJob
    <3>2. Busy(r) /\ Fd(r)' = Fd(r) BY <1>6, <2>3, <3>1 DEF Busy, Acts, Fd
    <3>3. PICK u \in own[r] : vfs_handles[u] = Fd(r) BY <2>0, <3>2 DEF OwnSound
    <3>4. u \in Vfs BY DEF SharedInv, Typed
    <3>5. u # v BY <1>11
    <3> QED BY <1>10, <3>2, <3>3, <3>4, <3>5
  <2> QED BY <2>1, <2>2, <2>3 DEF OwnSound
<1>13. devfs_handles' \in [Dev -> Handles \cup {NULL}] /\ leaked' \in [Dev -> Nat] BY <1>1 DEF SharedInv, Typed
<1> QED BY <1>1, <1>5, <1>7, <1>8, <1>9, <1>12, <1>13, SharedBy

(* A call on one of the process's descriptors begins. *)
LEMMA CallShared ==
    ASSUME SharedInv, UNCHANGED setup, NEW p \in Procs, NEW call \in Calls, NEW arg \in Nat, VfsCall(p, call, arg)
    PROVE  SharedInv'
<1>1. pc[p] = "user" /\ Goes(p, "dev") /\ UNCHANGED <<vfs_handles, devfs_handles, own, leaked, event_abrt>>
      BY DEF VfsCall, At, handles
<1>2. PICK v \in own[p] : job' = [job EXCEPT ![p] = [NoJob EXCEPT !.call = call, !.fd = vfs_handles[v], !.arg = arg]]
      BY DEF VfsCall
<1>3. v \in Vfs BY DEF SharedInv, Typed
<1>4. PICK k \in Dev : k = vfs_handles[v] BY <1>3 DEF SharedInv, OwnSound, Typed
<1> DEFINE j == [NoJob EXCEPT !.call = call, !.fd = k, !.arg = arg]
<1>5. j \in Jobs /\ j.call = call /\ j.fd = k BY DEF NoJob, Jobs
<1>6. Goto(p, "dev", j) /\ "dev" \in Places BY <1>1, <1>2, <1>4 DEF Goes, Goto, Places
<1> HIDE DEF j
<1>7. Acts(p) /\ pc'[p] = "dev" /\ job'[p] = j BY <1>5, <1>6, GotoActs DEF SharedInv
<1>8. HandlesSound' BY <1>1, <1>5, <1>7, CallHandles
<1>9. JobSound(p)' BY <1>5, <1>7 DEF JobSound, Calls
<1>10. OwnSound'
  <2>0. OwnSound BY DEF SharedInv
  <2>1. ASSUME NEW r \in Procs, Busy(r)' PROVE \E u \in own'[r] : vfs_handles'[u] = Fd(r)'
    <3>1. CASE r = p BY <1>1, <1>4, <1>5, <1>7, <3>1 DEF Fd
    <3>2. CASE r # p
      <4>1. Busy(r) /\ Fd(r)' = Fd(r) BY <1>7, <2>1, <3>2 DEF Busy, Acts, Fd
      <4> QED BY <1>1, <2>0, <4>1 DEF OwnSound
    <3> QED BY <3>1, <3>2
  <2>2. \A u \in Vfs : vfs_handles'[u] = NULL <=> \A r \in Procs : u \notin own'[r] BY <1>1, <2>0 DEF OwnSound
  <2>3. \A u \in Vfs, r, s \in Procs : u \in own'[r] /\ u \in own'[s] => r = s BY <1>1, <2>0 DEF OwnSound
  <2> QED BY <2>1, <2>2, <2>3 DEF OwnSound
<1>11. /\ devfs_handles' \in [Dev -> Handles \cup {NULL}] /\ leaked' \in [Dev -> Nat]
       /\ vfs_handles' \in [Vfs -> Dev \cup {NULL}] /\ own' \in [Procs -> SUBSET Vfs]
       BY <1>1 DEF SharedInv, Typed
<1> QED BY <1>1, <1>5, <1>6, <1>8, <1>9, <1>10, <1>11, SharedBy

(* close, and the closes of a process that ends *)
LEMMA CloseShared ==
    ASSUME SharedInv, UNCHANGED setup, NEW p \in Procs, vfs_close(p)
    PROVE  SharedInv'
<1>1. pc[p] = "user" /\ Goes(p, "dev") /\ UNCHANGED <<devfs_handles, leaked, event_abrt>> BY DEF vfs_close, At
<1>2. PICK v \in own[p] :
          /\ vfs_handles' = [vfs_handles EXCEPT ![v] = NULL] /\ own' = [own EXCEPT ![p] = @ \ {v}]
          /\ job' = [job EXCEPT ![p] = [NoJob EXCEPT !.call = "close", !.fd = vfs_handles[v]]]
      BY DEF vfs_close
<1>3. v \in Vfs BY DEF SharedInv, Typed
<1>4. PICK k \in Dev : k = vfs_handles[v] BY <1>3 DEF SharedInv, OwnSound, Typed
<1> DEFINE j == [NoJob EXCEPT !.call = "close", !.fd = k]
<1>5. j \in Jobs /\ j.call = "close" /\ j.fd = k BY DEF NoJob, Jobs
<1>6. Goto(p, "dev", j) /\ "dev" \in Places BY <1>1, <1>2, <1>4 DEF Goes, Goto, Places
<1> HIDE DEF j
<1>7. Acts(p) /\ pc'[p] = "dev" /\ job'[p] = j BY <1>5, <1>6, GotoActs DEF SharedInv
<1>8. HandlesSound' BY <1>1, <1>2, <1>4, <1>5, <1>7, CloseHandles
<1>9. JobSound(p)' BY <1>5, <1>7 DEF JobSound
<1>10. vfs_handles' \in [Vfs -> Dev \cup {NULL}] /\ own' \in [Procs -> SUBSET Vfs]
       BY <1>2, <1>3 DEF SharedInv, Typed
<1>11. /\ vfs_handles'[v] = NULL /\ v \notin own'[p]
       /\ \A u \in Vfs \ {v} : vfs_handles'[u] = vfs_handles[u] /\ \A r \in Procs : u \in own'[r] <=> u \in own[r]
       /\ \A r \in Procs \ {p} : own'[r] = own[r]
       BY <1>2, <1>3 DEF SharedInv, Typed
<1>12. \A r \in Procs \ {p} : v \notin own[r] BY <1>3 DEF SharedInv, OwnSound
<1>13. OwnSound'
  <2>0. OwnSound BY DEF SharedInv
  <2>1. \A u \in Vfs : vfs_handles'[u] = NULL <=> \A r \in Procs : u \notin own'[r]
        BY <1>11, <1>12, <2>0 DEF OwnSound
  <2>2. \A u \in Vfs, r, s \in Procs : u \in own'[r] /\ u \in own'[s] => r = s
        BY <1>11, <1>12, <2>0 DEF OwnSound
  <2>3. ASSUME NEW r \in Procs, Busy(r)' PROVE \E u \in own'[r] : vfs_handles'[u] = Fd(r)'
    <3>1. r # p BY <1>5, <1>7, <2>3 DEF Busy
    <3>2. Busy(r) /\ Fd(r)' = Fd(r) BY <1>7, <2>3, <3>1 DEF Busy, Acts, Fd
    <3>3. PICK u \in own[r] : vfs_handles[u] = Fd(r) BY <2>0, <3>2 DEF OwnSound
    <3>4. u \in Vfs BY DEF SharedInv, Typed
    <3>5. u # v BY <1>12, <3>1
    <3> QED BY <1>11, <3>2, <3>3, <3>4, <3>5
  <2> QED BY <2>1, <2>2, <2>3 DEF OwnSound
<1>14. devfs_handles' \in [Dev -> Handles \cup {NULL}] /\ leaked' \in [Dev -> Nat] BY <1>1 DEF SharedInv, Typed
<1> QED BY <1>1, <1>5, <1>6, <1>8, <1>9, <1>10, <1>13, <1>14, SharedBy

(* Every step keeps the invariant. *)
LEMMA SharedStep ==
    ASSUME SharedInv, [Next]_vars
    PROVE  SharedInv'
<1>1. CASE UNCHANGED vars BY <1>1, QuietShared DEF vars, handles, SharedInv, Typed
<1>2. ASSUME UNCHANGED setup, NEW p \in Procs, Kill(p) \/ ExitEnds(p) PROVE SharedInv'
      BY <1>2, QuietShared DEF Kill, ExitEnds, handles, SharedInv, Typed
<1>3. ASSUME UNCHANGED setup, (\E key \in Keys : kbd_handler(key)) \/ add_to_buf_char \/ add_to_buf PROVE SharedInv'
      BY <1>3, QuietShared DEF kbd_handler, add_to_buf_char, add_to_buf, handles, SharedInv, Typed
<1>4. ASSUME UNCHANGED setup, NEW p \in Procs,
             \/ \E call \in {"read", "write"}, len \in Lens : VfsCall(p, call, len)
             \/ \E q \in 0 .. Size : VfsCall(p, "lseek", q)
             \/ \E call \in {"tcsetattr", "tcflow"}, arg \in {0, 1} : VfsCall(p, call, arg)
             \/ \E call \in {"fstat", "readdir", "tcgetattr", "isatty", "dup"} : VfsCall(p, call, 0)
      PROVE  SharedInv'
  <2>1. PICK call \in Calls, arg \in Nat : VfsCall(p, call, arg) BY <1>4, DevicesAssumption DEF Calls
  <2> QED BY <1>4, <2>1, CallShared
<1>5. ASSUME UNCHANGED setup, NEW p \in Procs, devfs_close(p) \/ TtyReadBegins(p) PROVE SharedInv'
      BY <1>5, DoneShared, LeakShared, TtyShared
<1>6. ASSUME UNCHANGED setup, NEW p \in Procs,
             \/ devfs_read(p) \/ devfs_write(p) \/ devfs_lseek(p) \/ devfs_readdir(p) \/ devfs_dup(p) \/ DiskFull(p)
      PROVE  SharedInv'
      BY <1>6, DoneShared, LeakShared
<1>7. ASSUME UNCHANGED setup, NEW p \in Procs,
             \/ TtyBusy(p) \/ tty_read(p) \/ TtySleeps(p) \/ TtyWoken(p) \/ TtyAborted(p)
             \/ tty_tcsetattr(p) \/ tty_tcflow(p) \/ tty_tcgetattr(p)
      PROVE  SharedInv'
      BY <1>7, TtyShared, TtyEndsShared
<1>8. ASSUME UNCHANGED setup, NEW p \in Procs, vfs_close(p) \/ VfsAdd(p) \/ DevGet(p) \/ DevUnref(p)
      PROVE  SharedInv'
      BY <1>8, CloseShared, AddShared, GetShared, UnrefShared
<1> QED BY <1>1, <1>2, <1>3, <1>4, <1>5, <1>6, <1>7, <1>8, OpenShared DEF Next

-----------------------------------------------------------------------------
(***************************************************************************)
(* The terminal                                                             *)
(***************************************************************************)
Rising(s) == \A i, j \in 1 .. Len(s) : i < j => s[i] < s[j]
Awaited == (lastread + 1 .. typed) \ gone

(* The characters that are awaited are in the buffers, first those of lines
   that have ended, and in the order in which they were typed. *)
Ordered ==
    /\ lastread \in 0 .. typed
    /\ icanon \/ kbd_buf = <<>>
    /\ Rising(big_buf) /\ Rising(kbd_buf)
    /\ \A i \in 1 .. Len(big_buf), j \in 1 .. Len(kbd_buf) : big_buf[i] < kbd_buf[j]
    /\ \A i \in 1 .. Len(big_buf) : big_buf[i] \in Awaited
    /\ \A i \in 1 .. Len(kbd_buf) : kbd_buf[i] \in Awaited
    /\ \A n \in Awaited : \/ \E i \in 1 .. Len(big_buf) : big_buf[i] = n
                          \/ \E i \in 1 .. Len(kbd_buf) : kbd_buf[i] = n

KeysTyped ==
    /\ setup \in Setups
    /\ kbd \in Presses \cup {NULL} /\ (kbd # NULL => typed + kbd.left <= setup.keys)
    /\ typed \in 0 .. setup.keys /\ kbd_event \in Nat
    /\ kbd_buf \in Seq(Nat) /\ Len(kbd_buf) <= KBD_BUF_SIZE
    /\ big_buf \in Seq(Nat) /\ Len(big_buf) <= BIG_BUF_SIZE
    /\ gone \subseteq 1 .. typed /\ \A i \in 1 .. Len(kbd_buf) : kbd_buf[i] \in 1 .. typed
    /\ icanon \in BOOLEAN /\ excused \in BOOLEAN

KeysInv == KeysTyped /\ (~excused => Ordered)

(* The numbers of characters. *)
LEMMA KeysBounds ==
    ASSUME KeysTyped
    PROVE  /\ setup.keys \in Nat /\ typed \in Nat /\ KBD_BUF_SIZE \in Nat \ {0} /\ BIG_BUF_SIZE \in Nat \ {0}
           /\ Len(kbd_buf) \in Nat /\ Len(big_buf) \in Nat
  BY DevicesAssumption DEF KeysTyped

(* A character that is refused is not awaited. *)
LEMMA RefusedKey ==
    ASSUME KeysTyped, Ordered, UNCHANGED <<kbd_buf, big_buf, icanon, lastread>>, typed' = typed + 1,
           gone' = gone \cup {typed + 1}
    PROVE  Ordered'
<1>1. typed \in Nat BY KeysBounds
<1>2. lastread \in 0 .. typed /\ gone \subseteq 1 .. typed BY DEF Ordered, KeysTyped
<1>3. Awaited' = Awaited
  <2>1. ASSUME NEW m \in Awaited PROVE m \in Awaited' BY <1>1, <1>2 DEF Awaited
  <2>2. ASSUME NEW m \in Awaited' PROVE m \in Awaited BY <1>1, <1>2 DEF Awaited
  <2> QED BY <2>1, <2>2
<1>4. lastread' \in 0 .. typed' BY <1>1, <1>2
<1> QED BY <1>3, <1>4 DEF Ordered

(* A character that is accepted is the last one that is awaited. *)
LEMMA AwaitedNext ==
    ASSUME KeysTyped, Ordered, UNCHANGED <<lastread, gone>>, typed' = typed + 1
    PROVE  /\ lastread' \in 0 .. typed' /\ typed + 1 \in Awaited' /\ Awaited' = Awaited \cup {typed + 1}
           /\ \A m \in Awaited : m \in Int /\ m < typed + 1
<1>1. typed \in Nat BY KeysBounds
<1>2. lastread \in 0 .. typed /\ gone \subseteq 1 .. typed BY DEF Ordered, KeysTyped
<1>3. typed + 1 \notin gone BY <1>1, <1>2
<1>4. ASSUME NEW m \in Awaited' PROVE m \in Awaited \cup {typed + 1} BY <1>1, <1>2 DEF Awaited
<1>5. ASSUME NEW m \in Awaited PROVE m \in Awaited' BY <1>1, <1>2 DEF Awaited
<1>6. typed + 1 \in Awaited' BY <1>1, <1>2, <1>3 DEF Awaited
<1>7. \A m \in Awaited : m \in Int /\ m < typed + 1 BY <1>1, <1>2 DEF Awaited
<1> QED BY <1>1, <1>2, <1>4, <1>5, <1>6, <1>7

(* A character is appended to a line. *)
LEMMA LineKey ==
    ASSUME KeysTyped, Ordered, UNCHANGED <<big_buf, icanon, lastread, gone>>, typed' = typed + 1,
           icanon, kbd_buf' = Append(kbd_buf, typed + 1)
    PROVE  Ordered'
<1>1. typed \in Nat /\ Len(kbd_buf) \in Nat /\ Len(big_buf) \in Nat BY KeysBounds
<1>2. /\ lastread' \in 0 .. typed' /\ typed + 1 \in Awaited' /\ Awaited' = Awaited \cup {typed + 1}
      /\ \A m \in Awaited : m \in Int /\ m < typed + 1
      BY AwaitedNext
<1>3. /\ Len(kbd_buf') = Len(kbd_buf) + 1 /\ kbd_buf'[Len(kbd_buf) + 1] = typed + 1
      /\ \A i \in 1 .. Len(kbd_buf) : kbd_buf'[i] = kbd_buf[i]
      BY AppendProperties DEF KeysTyped
<1>4. ASSUME NEW i \in 1 .. Len(kbd_buf')
      PROVE  (i \in 1 .. Len(kbd_buf) /\ kbd_buf'[i] = kbd_buf[i])
             \/ (i = Len(kbd_buf) + 1 /\ kbd_buf'[i] = typed + 1)
      BY <1>1, <1>3
<1>5. Rising(kbd_buf')
  <2>1. SUFFICES ASSUME NEW i \in 1 .. Len(kbd_buf'), NEW j \in 1 .. Len(kbd_buf'), i < j
                 PROVE  kbd_buf'[i] < kbd_buf'[j]
        BY DEF Rising
  <2>2. i \in 1 .. Len(kbd_buf) /\ kbd_buf'[i] = kbd_buf[i] BY <1>1, <1>3, <2>1
  <2>3. CASE j \in 1 .. Len(kbd_buf) BY <1>3, <2>1, <2>2, <2>3 DEF Ordered, Rising
  <2>4. CASE j = Len(kbd_buf) + 1 BY <1>2, <1>3, <2>2, <2>4 DEF Ordered
  <2> QED BY <1>4, <2>3, <2>4
<1>6. \A i \in 1 .. Len(big_buf'), j \in 1 .. Len(kbd_buf') : big_buf'[i] < kbd_buf'[j]
  <2>1. SUFFICES ASSUME NEW i \in 1 .. Len(big_buf), NEW j \in 1 .. Len(kbd_buf') PROVE big_buf[i] < kbd_buf'[j]
        OBVIOUS
  <2>2. CASE j \in 1 .. Len(kbd_buf) BY <1>3, <2>2 DEF Ordered
  <2>3. CASE j = Len(kbd_buf) + 1
    <3>1. big_buf[i] \in Awaited BY DEF Ordered
    <3> QED BY <1>2, <1>3, <2>3, <3>1
  <2> QED BY <1>4, <2>2, <2>3
<1>7. \A i \in 1 .. Len(big_buf') : big_buf'[i] \in Awaited' BY <1>2 DEF Ordered
<1>8. \A i \in 1 .. Len(kbd_buf') : kbd_buf'[i] \in Awaited' BY <1>2, <1>4 DEF Ordered
<1>9. ASSUME NEW m \in Awaited'
      PROVE  (\E i \in 1 .. Len(big_buf') : big_buf'[i] = m) \/ (\E i \in 1 .. Len(kbd_buf') : kbd_buf'[i] = m)
  <2>1. CASE m = typed + 1
    <3>1. Len(kbd_buf) + 1 \in 1 .. Len(kbd_buf') BY <1>1, <1>3
    <3> QED BY <1>3, <2>1, <3>1
  <2>2. CASE m \in Awaited
    <3>1. CASE \E i \in 1 .. Len(big_buf) : big_buf[i] = m BY <3>1
    <3>2. ASSUME NEW i \in 1 .. Len(kbd_buf), kbd_buf[i] = m PROVE \E k \in 1 .. Len(kbd_buf') : kbd_buf'[k] = m
      <4>1. i \in 1 .. Len(kbd_buf') /\ kbd_buf'[i] = m BY <1>1, <1>3, <3>2
      <4> QED BY <4>1
    <3> QED BY <2>2, <3>1, <3>2 DEF Ordered
  <2> QED BY <1>2, <2>1, <2>2
<1>10. icanon' /\ Rising(big_buf') BY DEF Ordered
<1> QED BY <1>2, <1>5, <1>6, <1>7, <1>8, <1>9, <1>10 DEF Ordered

(* A character goes straight to the reader. *)
LEMMA RawKey ==
    ASSUME KeysTyped, Ordered, UNCHANGED <<kbd_buf, icanon, lastread, gone>>, typed' = typed + 1,
           ~icanon, big_buf' = Append(big_buf, typed + 1)
    PROVE  Ordered'
<1>1. typed \in Nat /\ Len(big_buf) \in Nat BY KeysBounds
<1>2. /\ lastread' \in 0 .. typed' /\ typed + 1 \in Awaited' /\ Awaited' = Awaited \cup {typed + 1}
      /\ \A m \in Awaited : m \in Int /\ m < typed + 1
      BY AwaitedNext
<1>3. /\ Len(big_buf') = Len(big_buf) + 1 /\ big_buf'[Len(big_buf) + 1] = typed + 1
      /\ \A i \in 1 .. Len(big_buf) : big_buf'[i] = big_buf[i]
      BY AppendProperties DEF KeysTyped
<1>4. ASSUME NEW i \in 1 .. Len(big_buf')
      PROVE  (i \in 1 .. Len(big_buf) /\ big_buf'[i] = big_buf[i])
             \/ (i = Len(big_buf) + 1 /\ big_buf'[i] = typed + 1)
      BY <1>1, <1>3
<1>5. Rising(big_buf')
  <2>1. SUFFICES ASSUME NEW i \in 1 .. Len(big_buf'), NEW j \in 1 .. Len(big_buf'), i < j
                 PROVE  big_buf'[i] < big_buf'[j]
        BY DEF Rising
  <2>2. i \in 1 .. Len(big_buf) /\ big_buf'[i] = big_buf[i] BY <1>1, <1>3, <2>1
  <2>3. CASE j \in 1 .. Len(big_buf) BY <1>3, <2>1, <2>2, <2>3 DEF Ordered, Rising
  <2>4. CASE j = Len(big_buf) + 1 BY <1>2, <1>3, <2>2, <2>4 DEF Ordered
  <2> QED BY <1>4, <2>3, <2>4
<1>6. kbd_buf = <<>> /\ Len(kbd_buf) = 0 BY EmptySeq DEF Ordered
<1>7. \A i \in 1 .. Len(big_buf') : big_buf'[i] \in Awaited' BY <1>2, <1>4 DEF Ordered
<1>8. ASSUME NEW m \in Awaited' PROVE \E i \in 1 .. Len(big_buf') : big_buf'[i] = m
  <2>1. CASE m = typed + 1
    <3>1. Len(big_buf) + 1 \in 1 .. Len(big_buf') BY <1>1, <1>3
    <3> QED BY <1>3, <2>1, <3>1
  <2>2. CASE m \in Awaited
    <3>1. PICK i \in 1 .. Len(big_buf) : big_buf[i] = m BY <1>6, <2>2 DEF Ordered
    <3>2. i \in 1 .. Len(big_buf') /\ big_buf'[i] = m BY <1>1, <1>3, <3>1
    <3> QED BY <3>2
  <2> QED BY <1>2, <2>1, <2>2
<1>9. \A i \in 1 .. Len(kbd_buf') : FALSE BY <1>6
<1>10. Rising(kbd_buf') BY <1>9 DEF Rising
<1> QED BY <1>2, <1>5, <1>6, <1>7, <1>8, <1>9, <1>10 DEF Ordered

(* A line ends: its characters follow those that wait already. *)
LEMMA LineEndKey ==
    ASSUME KeysTyped, Ordered, UNCHANGED <<icanon, lastread, gone>>, typed' = typed + 1, icanon,
           kbd_buf' = <<>>, big_buf' = big_buf \o Append(kbd_buf, typed + 1)
    PROVE  Ordered'
<1> DEFINE line == Append(kbd_buf, typed + 1)
           size == Len(big_buf)
<1>1. typed \in Nat /\ Len(kbd_buf) \in Nat /\ size \in Nat /\ kbd_buf \in Seq(Nat) /\ big_buf \in Seq(Nat)
      BY KeysBounds DEF KeysTyped
<1>2. /\ lastread' \in 0 .. typed' /\ typed + 1 \in Awaited' /\ Awaited' = Awaited \cup {typed + 1}
      /\ \A m \in Awaited : m \in Int /\ m < typed + 1
      BY AwaitedNext
<1>3. /\ line \in Seq(Nat) /\ Len(line) = Len(kbd_buf) + 1 /\ line[Len(kbd_buf) + 1] = typed + 1
      /\ \A i \in 1 .. Len(kbd_buf) : line[i] = kbd_buf[i]
      BY <1>1, AppendProperties
<1> HIDE DEF line
<1>4. /\ Len(big_buf') = size + Len(line)
      /\ \A i \in 1 .. size + Len(line) : big_buf'[i] = IF i <= size THEN big_buf[i] ELSE line[i - size]
      BY <1>1, <1>3, ConcatProperties DEF line
<1>5. ASSUME NEW i \in 1 .. Len(big_buf')
      PROVE  \/ i \in 1 .. size /\ big_buf'[i] = big_buf[i]
             \/ /\ i > size /\ i - size \in 1 .. Len(kbd_buf) /\ big_buf'[i] = kbd_buf[i - size]
             \/ i = size + Len(kbd_buf) + 1 /\ big_buf'[i] = typed + 1
  <2>1. CASE i <= size BY <1>1, <1>4, <2>1
  <2>2. CASE i > size /\ i # size + Len(kbd_buf) + 1
    <3>1. i \in Int /\ Len(big_buf') = size + (Len(kbd_buf) + 1) /\ 1 <= i /\ i <= Len(big_buf')
          BY <1>1, <1>3, <1>4
    <3>2. i - size \in 1 .. Len(kbd_buf) BY ONLY <1>1, <2>2, <3>1
    <3> QED BY <1>1, <1>3, <1>4, <2>2, <3>1, <3>2
  <2>3. CASE i = size + Len(kbd_buf) + 1
    <3>1. i - size = Len(kbd_buf) + 1 /\ ~(i <= size) BY <1>1, <2>3
    <3> QED BY <1>3, <1>4, <2>3, <3>1
  <2> QED BY <1>1, <2>1, <2>2, <2>3
<1>6. \A i \in 1 .. Len(big_buf') : big_buf'[i] \in Awaited' BY <1>2, <1>5 DEF Ordered
<1>7. Rising(big_buf')
  <2>1. SUFFICES ASSUME NEW i \in 1 .. Len(big_buf'), NEW j \in 1 .. Len(big_buf'), i < j
                 PROVE  big_buf'[i] < big_buf'[j]
        BY DEF Rising
  <2>2. CASE i \in 1 .. size /\ big_buf'[i] = big_buf[i]
    <3>1. CASE j \in 1 .. size /\ big_buf'[j] = big_buf[j] BY <2>1, <2>2, <3>1 DEF Ordered, Rising
    <3>2. CASE j - size \in 1 .. Len(kbd_buf) /\ big_buf'[j] = kbd_buf[j - size]
          BY <2>2, <3>2 DEF Ordered
    <3>3. CASE big_buf'[j] = typed + 1
      <4>1. big_buf[i] \in Awaited BY <2>2 DEF Ordered
      <4> QED BY <1>2, <2>2, <3>3, <4>1
    <3> QED BY <1>5, <3>1, <3>2, <3>3
  <2>3. CASE i > size /\ i - size \in 1 .. Len(kbd_buf) /\ big_buf'[i] = kbd_buf[i - size]
    <3>1. ~(j \in 1 .. size) BY <1>1, <2>1, <2>3
    <3>2. CASE j - size \in 1 .. Len(kbd_buf) /\ big_buf'[j] = kbd_buf[j - size]
      <4>1. i - size < j - size BY <1>1, <2>1
      <4> QED BY <2>3, <3>2, <4>1 DEF Ordered, Rising
    <3>3. CASE big_buf'[j] = typed + 1
      <4>1. kbd_buf[i - size] \in Awaited BY <2>3 DEF Ordered
      <4> QED BY <1>2, <2>3, <3>3, <4>1
    <3> QED BY <1>5, <3>1, <3>2, <3>3
  <2>4. CASE i = size + Len(kbd_buf) + 1 BY <1>1, <1>3, <1>4, <2>1, <2>4
  <2> QED BY <1>5, <2>2, <2>3, <2>4
<1>8. ASSUME NEW m \in Awaited' PROVE \E i \in 1 .. Len(big_buf') : big_buf'[i] = m
  <2>1. CASE m = typed + 1
    <3>1. /\ size + Len(kbd_buf) + 1 \in 1 .. Len(big_buf') /\ ~(size + Len(kbd_buf) + 1 <= size)
          /\ size + Len(kbd_buf) + 1 - size = Len(kbd_buf) + 1
          BY <1>1, <1>3, <1>4
    <3>2. big_buf'[size + Len(kbd_buf) + 1] = m BY <1>3, <1>4, <2>1, <3>1
    <3> QED BY <3>1, <3>2
  <2>2. ASSUME NEW i \in 1 .. size, big_buf[i] = m PROVE \E k \in 1 .. Len(big_buf') : big_buf'[k] = m
    <3>1. i \in 1 .. Len(big_buf') /\ i <= size BY <1>1, <1>3, <1>4
    <3> QED BY <1>4, <2>2, <3>1
  <2>3. ASSUME NEW i \in 1 .. Len(kbd_buf), kbd_buf[i] = m PROVE \E k \in 1 .. Len(big_buf') : big_buf'[k] = m
    <3>1. size + i \in 1 .. Len(big_buf') /\ ~(size + i <= size) /\ size + i - size = i BY <1>1, <1>3, <1>4
    <3>2. big_buf'[size + i] = m BY <1>3, <1>4, <2>3, <3>1
    <3> QED BY <3>1, <3>2
  <2> QED BY <1>2, <2>1, <2>2, <2>3 DEF Ordered
<1>9. Len(kbd_buf') = 0 BY EmptySeq
<1>10. \A i \in 1 .. Len(kbd_buf') : FALSE BY <1>9
<1>11. icanon' /\ Rising(kbd_buf') BY <1>10 DEF Rising
<1> QED BY <1>2, <1>6, <1>7, <1>8, <1>10, <1>11 DEF Ordered

(* The smaller of two numbers. *)
LEMMA MinOfTwo ==
    ASSUME NEW a \in Nat, NEW b \in Nat
    PROVE  Min({a, b}) = IF a <= b THEN a ELSE b
<1>1. CASE a <= b
  <2>1. a \in {a, b} /\ \A y \in {a, b} : a =< y BY <1>1
  <2>2. \A x \in {a, b} : (\A y \in {a, b} : x =< y) => x = a BY <1>1
  <2> QED BY <1>1, <2>1, <2>2 DEF Min
<1>2. CASE ~(a <= b)
  <2>1. b \in {a, b} /\ \A y \in {a, b} : b =< y BY <1>2
  <2>2. \A x \in {a, b} : (\A y \in {a, b} : x =< y) => x = b BY <1>2
  <2> QED BY <1>2, <2>1, <2>2 DEF Min
<1> QED BY <1>1, <1>2

(* What a sequence is after its first elements were taken. *)
LEMMA Rest ==
    ASSUME NEW s \in Seq(Nat), NEW c \in 0 .. Len(s)
    PROVE  /\ SubSeq(s, c + 1, Len(s)) \in Seq(Nat) /\ Len(SubSeq(s, c + 1, Len(s))) = Len(s) - c
           /\ \A i \in 1 .. Len(s) - c : c + i \in 1 .. Len(s) /\ SubSeq(s, c + 1, Len(s))[i] = s[c + i]
<1>1. Len(s) \in Nat /\ c \in Nat /\ c + 1 \in Int OBVIOUS
<1>2. \A i \in c + 1 .. Len(s) : s[i] \in Nat BY <1>1, ElementOfSeq
<1>3. PICK m \in Int, n \in Int : m = c + 1 /\ n = Len(s) BY <1>1
<1>4. /\ SubSeq(s, m, n) \in Seq(Nat)
      /\ Len(SubSeq(s, m, n)) = IF m <= n THEN n - m + 1 ELSE 0
      /\ \A i \in 1 .. n - m + 1 : SubSeq(s, m, n)[i] = s[m + i - 1]
  <2>1. \A i \in m .. n : s[i] \in Nat BY <1>2, <1>3
  <2>2. s \in Seq(Nat) OBVIOUS
  <2> QED BY ONLY <2>1, <2>2, m \in Int, n \in Int, SubSeqProperties
<1>5. (IF m <= n THEN n - m + 1 ELSE 0) = Len(s) - c BY ONLY <1>1, <1>3
<1>6. ASSUME NEW i \in 1 .. Len(s) - c PROVE c + i \in 1 .. Len(s) /\ i \in 1 .. n - m + 1 /\ m + i - 1 = c + i
      BY ONLY <1>1, <1>3
<1> QED BY <1>3, <1>4, <1>5, <1>6

(* The first elements of a sequence. *)
LEMMA Firsts ==
    ASSUME NEW s \in Seq(Nat), NEW c \in 0 .. Len(s)
    PROVE  /\ SubSeq(s, 1, c) \in Seq(Nat) /\ Len(SubSeq(s, 1, c)) = c
           /\ \A i \in 1 .. c : i \in 1 .. Len(s) /\ SubSeq(s, 1, c)[i] = s[i]
<1>1. Len(s) \in Nat /\ c \in Nat OBVIOUS
<1>2. \A i \in 1 .. c : i \in 1 .. Len(s) BY <1>1
<1>3. \A i \in 1 .. c : s[i] \in Nat BY <1>2, ElementOfSeq
<1>4. /\ SubSeq(s, 1, c) \in Seq(Nat)
      /\ Len(SubSeq(s, 1, c)) = IF 1 <= c THEN c - 1 + 1 ELSE 0
      /\ \A i \in 1 .. c - 1 + 1 : SubSeq(s, 1, c)[i] = s[1 + i - 1]
      BY <1>1, <1>3, SubSeqProperties
<1>5. (IF 1 <= c THEN c - 1 + 1 ELSE 0) = c BY ONLY <1>1
<1>6. ASSUME NEW i \in 1 .. c PROVE i \in 1 .. c - 1 + 1 /\ 1 + i - 1 = i BY ONLY <1>1
<1> QED BY <1>2, <1>4, <1>5, <1>6

(* A line without its last character. *)
LEMMA FrontTyped ==
    ASSUME KeysTyped, kbd_buf # <<>>, kbd_buf' = Front(kbd_buf)
    PROVE  /\ kbd_buf' \in Seq(Nat) /\ Len(kbd_buf') = Len(kbd_buf) - 1 /\ Len(kbd_buf) \in Nat \ {0}
           /\ \A i \in 1 .. Len(kbd_buf) - 1 : kbd_buf'[i] = kbd_buf[i]
           /\ \A i \in 1 .. Len(kbd_buf') : i \in 1 .. Len(kbd_buf) /\ i < Len(kbd_buf) /\ kbd_buf'[i] = kbd_buf[i]
           /\ Last(kbd_buf) = kbd_buf[Len(kbd_buf)] /\ Last(kbd_buf) \in 1 .. typed
<1>1. Len(kbd_buf) \in Nat \ {0} BY KeysBounds, EmptySeq DEF KeysTyped
<1>2. kbd_buf' = SubSeq(kbd_buf, 1, Len(kbd_buf) - 1) BY DEF Front
<1>3. PICK s \in Seq(Nat), n \in Nat : s = kbd_buf /\ n = Len(s) - 1 /\ n \in 0 .. Len(s) /\ Len(s) \in Nat \ {0}
  <2>1. kbd_buf \in Seq(Nat) BY DEF KeysTyped
  <2>2. Len(kbd_buf) - 1 \in Nat /\ Len(kbd_buf) - 1 \in 0 .. Len(kbd_buf) BY <1>1
  <2> QED BY <1>1, <2>1, <2>2
<1>4. /\ SubSeq(s, 1, n) \in Seq(Nat) /\ Len(SubSeq(s, 1, n)) = n
      /\ \A i \in 1 .. n : i \in 1 .. Len(s) /\ SubSeq(s, 1, n)[i] = s[i]
      BY <1>3, Firsts
<1>5. \A i \in 1 .. n : i < Len(s) BY <1>3
<1>6. Len(kbd_buf) \in 1 .. Len(kbd_buf) BY <1>1
<1>7. Last(kbd_buf) = kbd_buf[Len(kbd_buf)] /\ Last(kbd_buf) \in 1 .. typed BY <1>6 DEF Last, KeysTyped
<1> QED BY <1>1, <1>2, <1>3, <1>4, <1>5, <1>7

(* The last character of a line is erased. *)
LEMMA EraseKey ==
    ASSUME KeysTyped, Ordered, UNCHANGED <<big_buf, icanon, lastread>>, typed' = typed + 1, kbd_buf # <<>>,
           kbd_buf' = Front(kbd_buf), gone' = gone \cup {typed + 1, Last(kbd_buf)}
    PROVE  Ordered'
<1> DEFINE size == Len(kbd_buf)
           last == kbd_buf[size]
<1>1. /\ typed \in Nat /\ size \in Nat \ {0} /\ Len(big_buf) \in Nat
      /\ lastread \in 0 .. typed /\ gone \subseteq 1 .. typed
      BY KeysBounds, EmptySeq DEF KeysTyped, Ordered
<1>2. \A i \in 1 .. Len(kbd_buf') : i \in 1 .. size /\ kbd_buf'[i] = kbd_buf[i] BY FrontTyped
<1>3. /\ kbd_buf' \in Seq(Nat) /\ Len(kbd_buf') = size - 1
      /\ \A i \in 1 .. size - 1 : kbd_buf'[i] = kbd_buf[i]
      BY FrontTyped
<1>4. last \in 1 .. typed /\ last \in Awaited /\ Last(kbd_buf) = last BY <1>1 DEF KeysTyped, Ordered, Last
<1>5. \A i \in 1 .. Len(kbd_buf') : i \in 1 .. size /\ i < size /\ kbd_buf'[i] = kbd_buf[i] BY <1>1, <1>3
<1>6. ASSUME NEW m PROVE m \in Awaited' <=> m \in Awaited /\ m # last
      BY <1>1, <1>4 DEF Awaited
<1>7. \A i \in 1 .. Len(kbd_buf') : kbd_buf'[i] \in Awaited'
  <2>1. ASSUME NEW i \in 1 .. Len(kbd_buf') PROVE kbd_buf'[i] \in Awaited'
    <3>1. kbd_buf[i] < last /\ kbd_buf[i] \in Awaited BY <1>1, <1>5 DEF Ordered, Rising
    <3> QED BY <1>1, <1>4, <1>5, <1>6, <3>1
  <2> QED BY <2>1
<1>8. \A i \in 1 .. Len(big_buf') : big_buf'[i] \in Awaited'
  <2>1. ASSUME NEW i \in 1 .. Len(big_buf) PROVE big_buf[i] \in Awaited'
    <3>1. big_buf[i] < last /\ big_buf[i] \in Awaited BY <1>1 DEF Ordered
    <3> QED BY <1>1, <1>4, <1>6, <3>1
  <2> QED BY <2>1
<1>9. ASSUME NEW m \in Awaited'
      PROVE  (\E i \in 1 .. Len(big_buf') : big_buf'[i] = m) \/ (\E i \in 1 .. Len(kbd_buf') : kbd_buf'[i] = m)
  <2>1. m \in Awaited /\ m # last BY <1>6
  <2>2. CASE \E i \in 1 .. Len(big_buf) : big_buf[i] = m BY <2>2
  <2>3. ASSUME NEW i \in 1 .. size, kbd_buf[i] = m PROVE \E k \in 1 .. Len(kbd_buf') : kbd_buf'[k] = m
    <3>1. i \in 1 .. size - 1 BY <1>1, <2>1, <2>3
    <3> QED BY <1>3, <2>3, <3>1
  <2> QED BY <2>1, <2>2, <2>3 DEF Ordered
<1>10. Rising(kbd_buf') BY <1>5 DEF Ordered, Rising
<1>11. \A i \in 1 .. Len(big_buf'), j \in 1 .. Len(kbd_buf') : big_buf'[i] < kbd_buf'[j] BY <1>5 DEF Ordered
<1>12. icanon'
  <2>1. icanon BY DEF Ordered
  <2> QED BY <2>1
<1>13. lastread' \in 0 .. typed' BY <1>1
<1>14. Rising(big_buf') BY DEF Ordered
<1> QED BY <1>3, <1>4, <1>5, <1>7, <1>8, <1>9, <1>10, <1>11, <1>12, <1>13, <1>14 DEF Ordered

(* The last character of what was read is the last one read. *)
LEMMA LastRead ==
    ASSUME NEW s \in Seq(Nat), NEW c \in 0 .. Len(s), NEW old \in Nat, Rising(s),
           \A i \in 1 .. Len(s) : s[i] > old
    PROVE  Max(ToSet(SubSeq(s, 1, c)) \cup {old}) = IF c = 0 THEN old ELSE s[c]
<1> DEFINE S == ToSet(SubSeq(s, 1, c)) \cup {old}
<1>1. Len(s) \in Nat /\ c \in Nat OBVIOUS
<1>2. \A x \in S : x = old \/ \E i \in 1 .. c : x = s[i]
  <2>1. DOMAIN SubSeq(s, 1, c) = 1 .. c BY Firsts, LenProperties
  <2> QED BY <2>1, Firsts DEF ToSet
<1>3. \A i \in 1 .. c : i \in 1 .. Len(s) /\ s[i] \in Nat /\ s[i] > old BY <1>1, ElementOfSeq
<1>4. old \in S OBVIOUS
<1>5. c # 0 => s[c] \in S
  <2>1. SUFFICES ASSUME c # 0 PROVE s[c] \in S OBVIOUS
  <2>2. c \in 1 .. c /\ DOMAIN SubSeq(s, 1, c) = 1 .. c BY <1>1, <2>1, Firsts, LenProperties
  <2>3. SubSeq(s, 1, c)[c] = s[c] BY <2>2, Firsts
  <2> QED BY <2>2, <2>3 DEF ToSet
<1> HIDE DEF S
<1>6. CASE c = 0
  <2>1. \A x \in S : x = old BY <1>2, <1>6
  <2>2. old >= old OBVIOUS
  <2>3. \A y \in S : old >= y BY <2>1, <2>2
  <2> QED BY <1>4, <1>6, <2>1, <2>3 DEF Max, S
<1>7. CASE c # 0
  <2>1. c \in 1 .. c BY <1>1, <1>7
  <2>2. ASSUME NEW i \in 1 .. c PROVE s[i] <= s[c]
    <3>1. CASE i = c BY <1>3, <3>1
    <3>2. CASE i < c BY <1>3, <2>1, <3>2 DEF Rising
    <3> QED BY <1>1, <3>1, <3>2
  <2>3. ASSUME NEW y \in S PROVE s[c] >= y /\ y \in Nat BY <1>2, <1>3, <2>1, <2>2
  <2>4. ASSUME NEW x \in S, \A y \in S : x >= y PROVE x = s[c]
    <3>1. s[c] \in S /\ s[c] \in Nat BY <1>3, <1>5, <1>7, <2>1
    <3>2. x >= s[c] /\ s[c] >= x /\ x \in Nat BY <2>3, <2>4, <3>1
    <3> QED BY <3>1, <3>2
  <2>5. Max(S) = s[c] BY <1>5, <1>7, <2>3, <2>4 DEF Max
  <2> QED BY <1>7, <2>5 DEF S
<1> QED BY <1>6, <1>7
(* tty_read takes the characters that have waited longest. *)
LEMMA ReadKeys ==
    ASSUME KeysInv, SharedInv, NEW p \in Procs, tty_read(p), UNCHANGED setup
    PROVE  KeysInv'
<1>1. PICK s \in Seq(Nat), a \in Nat : s = big_buf /\ a = job[p].arg BY DEF KeysInv, KeysTyped, SharedInv, Typed, Jobs
<1>2. typed \in Nat /\ Len(s) \in Nat /\ Len(kbd_buf) \in Nat /\ BIG_BUF_SIZE \in Nat BY <1>1, KeysBounds DEF KeysInv
<1>3. PICK c \in 0 .. Len(s) : c = Min({a, Len(s)}) BY <1>2, MinOfTwo
<1>4. /\ big_buf' = SubSeq(s, c + 1, Len(s)) /\ lastread' = Max(ToSet(SubSeq(s, 1, c)) \cup {lastread})
      /\ gone' = {n \in gone : n > Max(ToSet(SubSeq(s, 1, c)) \cup {lastread})}
      BY <1>1, <1>3 DEF tty_read
<1>5. UNCHANGED <<kbd, kbd_buf, kbd_event, icanon, typed, excused>> BY DEF tty_read
<1>6. /\ big_buf' \in Seq(Nat) /\ Len(big_buf') = Len(s) - c
      /\ \A i \in 1 .. Len(s) - c : c + i \in 1 .. Len(s) /\ big_buf'[i] = s[c + i]
      BY <1>4, Rest
<1>7. KeysTyped'
  <2>1. Len(big_buf') <= BIG_BUF_SIZE BY <1>1, <1>2, <1>6 DEF KeysInv, KeysTyped
  <2>2. gone' \subseteq gone BY <1>4
  <2> QED BY <1>5, <1>6, <2>1, <2>2 DEF KeysInv, KeysTyped
<1>8. ASSUME ~excused PROVE Ordered'
  <2>1. Ordered /\ KeysTyped BY <1>8 DEF KeysInv
  <2>2. lastread \in 0 .. typed /\ gone \subseteq 1 .. typed BY <2>1 DEF Ordered, KeysTyped
  <2>3. \A i \in 1 .. Len(s) : s[i] \in Int /\ s[i] > lastread /\ s[i] <= typed /\ s[i] \notin gone
        BY <1>1, <1>2, <2>1, <2>2 DEF Ordered, Awaited
  <2>4. \A i \in 1 .. Len(kbd_buf) : kbd_buf[i] \in Int /\ kbd_buf[i] > lastread /\ kbd_buf[i] <= typed /\ kbd_buf[i] \notin gone
        BY <1>1, <1>2, <2>1, <2>2 DEF Ordered, Awaited
  <2>5. lastread' = IF c = 0 THEN lastread ELSE s[c]
    <3>1. PICK old \in Nat : old = lastread BY <1>2, <2>2
    <3>2. Rising(s) BY <1>1, <2>1 DEF Ordered
    <3>3. \A i \in 1 .. Len(s) : s[i] > old BY <2>3, <3>1
    <3>4. Max(ToSet(SubSeq(s, 1, c)) \cup {old}) = IF c = 0 THEN old ELSE s[c] BY <3>1, <3>2, <3>3, LastRead
    <3> QED BY <1>4, <3>1, <3>4
  <2>6. PICK r \in Int : r = lastread' /\ lastread <= r /\ r <= typed
    <3>1. CASE c = 0 BY <1>2, <2>2, <2>5, <3>1
    <3>2. CASE c # 0
      <4>1. c \in 1 .. Len(s) BY <1>2, <3>2
      <4> QED BY <1>2, <2>2, <2>3, <2>5, <3>2, <4>1
    <3> QED BY <3>1, <3>2
  <2>7. r \in 0 .. typed BY <1>2, <2>2, <2>6
  <2>8. gone' = {n \in gone : n > r} BY <1>4, <2>6
  <2>9. ASSUME NEW m PROVE m \in Awaited' <=> m \in Awaited /\ m > r
    <3>1. Awaited' = (r + 1 .. typed) \ gone' BY <1>5, <2>6 DEF Awaited
    <3>2. Awaited = (lastread + 1 .. typed) \ gone BY DEF Awaited
    <3>3. PICK t \in Nat, g \in SUBSET gone : t = typed /\ g = gone BY <1>2
    <3>4. Awaited' = (r + 1 .. t) \ {n \in g : n > r} BY <2>8, <3>1, <3>3
    <3>5. m \in (r + 1 .. t) \ {n \in g : n > r} <=> m \in Int /\ m > r /\ m <= t /\ m \notin g BY ONLY r \in Int, t \in Nat
    <3>6. m \in Awaited' => m \in Int /\ m > r /\ m <= typed /\ m \notin gone BY <3>3, <3>4, <3>5
    <3>7. m \in Int /\ m > r /\ m <= typed /\ m \notin gone => m \in Awaited' BY <3>3, <3>4, <3>5
    <3>8. m \in Awaited /\ m > r => m \in Int /\ m > r /\ m <= typed /\ m \notin gone BY <1>2, <2>2, <2>6, <3>2
    <3>9. m \in Int /\ m > r /\ m <= typed /\ m \notin gone => m \in Awaited BY <1>2, <2>2, <2>6, <3>2
    <3> QED BY <3>6, <3>7, <3>8, <3>9
  <2>10. ASSUME NEW i \in 1 .. Len(s) PROVE s[i] > r <=> i > c
    <3>1. CASE c = 0 BY <2>3, <2>5, <2>6, <3>1
    <3>2. CASE c # 0
      <4>1. c \in 1 .. Len(s) /\ r = s[c] BY <1>2, <2>5, <2>6, <3>2
      <4>2. Rising(s) BY <1>1, <2>1 DEF Ordered
      <4>3. CASE i > c BY <2>3, <4>1, <4>2, <4>3 DEF Rising
      <4>4. CASE i = c BY <2>3, <4>1, <4>4
      <4>5. CASE i < c
        <5>1. s[i] < s[c] BY <4>1, <4>2, <4>5 DEF Rising
        <5> QED BY <2>3, <4>1, <4>5, <5>1
      <4> QED BY <4>3, <4>4, <4>5
    <3> QED BY <3>1, <3>2
  <2>11. ASSUME NEW i \in 1 .. Len(kbd_buf) PROVE kbd_buf[i] > r
    <3>1. CASE c = 0 BY <2>4, <2>5, <2>6, <3>1
    <3>2. CASE c # 0
      <4>1. c \in 1 .. Len(s) /\ r = s[c] BY <1>2, <2>5, <2>6, <3>2
      <4>2. s[c] < kbd_buf[i] BY <1>1, <2>1, <4>1 DEF Ordered
      <4> QED BY <2>3, <2>4, <4>1, <4>2
    <3> QED BY <3>1, <3>2
  <2>12. ASSUME NEW i \in 1 .. Len(big_buf')
         PROVE  c + i \in 1 .. Len(s) /\ c + i > c /\ big_buf'[i] = s[c + i] /\ big_buf'[i] \in Awaited'
    <3>1. c + i \in 1 .. Len(s) /\ big_buf'[i] = s[c + i] BY <1>6
    <3>2. c + i > c BY <1>2, <1>6
    <3>3. s[c + i] \in Awaited BY <1>1, <2>1, <3>1 DEF Ordered
    <3> QED BY <2>9, <2>10, <3>1, <3>2, <3>3
  <2>13. Rising(big_buf')
    <3>1. SUFFICES ASSUME NEW i \in 1 .. Len(big_buf'), NEW j \in 1 .. Len(big_buf'), i < j
                   PROVE  big_buf'[i] < big_buf'[j]
          BY DEF Rising
    <3>2. c + i < c + j BY <1>2, <1>6, <3>1
    <3> QED BY <1>1, <2>1, <2>12, <3>2 DEF Ordered, Rising
  <2>14. \A i \in 1 .. Len(kbd_buf') : kbd_buf'[i] \in Awaited' BY <1>5, <2>1, <2>9, <2>11 DEF Ordered
  <2>15. \A i \in 1 .. Len(big_buf'), j \in 1 .. Len(kbd_buf') : big_buf'[i] < kbd_buf'[j]
         BY <1>1, <1>5, <2>1, <2>12 DEF Ordered
  <2>16. ASSUME NEW m \in Awaited'
         PROVE  (\E i \in 1 .. Len(big_buf') : big_buf'[i] = m) \/ (\E i \in 1 .. Len(kbd_buf') : kbd_buf'[i] = m)
    <3>1. m \in Awaited /\ m > r BY <2>9
    <3>2. CASE \E i \in 1 .. Len(kbd_buf) : kbd_buf[i] = m BY <1>5, <3>2
    <3>3. ASSUME NEW i \in 1 .. Len(s), s[i] = m PROVE \E k \in 1 .. Len(big_buf') : big_buf'[k] = m
      <4>1. i > c BY <2>10, <3>1, <3>3
      <4>2. i - c \in 1 .. Len(big_buf') /\ c + (i - c) = i BY <1>2, <1>6, <4>1
      <4> QED BY <1>6, <3>3, <4>2
    <3> QED BY <1>1, <2>1, <3>1, <3>2, <3>3 DEF Ordered
  <2>17. (icanon' \/ kbd_buf' = <<>>) /\ Rising(kbd_buf') BY <1>5, <2>1 DEF Ordered
  <2>18. lastread' \in 0 .. typed' BY <1>5, <2>6, <2>7
  <2> QED BY <2>12, <2>13, <2>14, <2>15, <2>16, <2>17, <2>18 DEF Ordered
<1> QED BY <1>5, <1>7, <1>8 DEF KeysInv
(* Steps that leave the terminal alone. *)
LEMMA QuietKeys ==
    ASSUME KeysInv, UNCHANGED <<setup, kbd, kbd_buf, big_buf, icanon, typed, lastread, gone, excused>>, kbd_event' \in Nat
    PROVE  KeysInv'
<1>1. Awaited' = Awaited BY DEF Awaited
<1>2. Ordered' <=> Ordered BY <1>1 DEF Ordered
<1>3. KeysTyped' BY DEF KeysInv, KeysTyped
<1> QED BY <1>2, <1>3 DEF KeysInv

(* The next character keeps the types. *)
LEMMA TypedKey ==
    ASSUME KeysTyped, add_to_buf_char, UNCHANGED setup,
           kbd_buf' \in Seq(Nat) /\ Len(kbd_buf') <= KBD_BUF_SIZE,
           big_buf' \in Seq(Nat) /\ Len(big_buf') <= BIG_BUF_SIZE,
           gone' \subseteq 1 .. typed + 1, \A i \in 1 .. Len(kbd_buf') : kbd_buf'[i] \in 1 .. typed + 1,
           excused' \in BOOLEAN
    PROVE  KeysTyped'
<1>1. typed \in Nat /\ setup.keys \in Nat BY KeysBounds
<1>2. typed' = typed + 1 /\ kbd' = [kbd EXCEPT !.left = @ - 1] /\ UNCHANGED <<kbd_event, icanon>>
      BY DEF add_to_buf_char
<1>3. PICK k \in Presses : k = kbd BY DEF KeysTyped, add_to_buf_char
<1>4. PICK n \in Nat : n = k.left - 1 /\ k.left > 0
      BY <1>3 DEF Presses, add_to_buf_char
<1>5. kbd' = [k EXCEPT !.left = n] BY <1>2, <1>3, <1>4
<1>6. kbd' \in Presses /\ kbd'.left = n BY <1>3, <1>5 DEF Presses
<1>7. typed + k.left <= setup.keys BY <1>3, NullAssumption DEF KeysTyped
<1>8. k.left = n + 1 BY <1>3, <1>4 DEF Presses
<1>9. typed' + n <= setup'.keys /\ typed' \in 0 .. setup'.keys BY <1>1, <1>2, <1>4, <1>7, <1>8
<1> QED BY <1>2, <1>6, <1>9 DEF KeysTyped

(* The buffers after a line has met the end of big_buf, or not. *)
LEMMA LineEndTyped ==
    ASSUME KeysTyped, LineEnds(Append(kbd_buf, typed + 1)), Len(kbd_buf) # KBD_BUF_SIZE
    PROVE  /\ kbd_buf' \in Seq(Nat) /\ Len(kbd_buf') <= KBD_BUF_SIZE
           /\ big_buf' \in Seq(Nat) /\ Len(big_buf') <= BIG_BUF_SIZE
           /\ \A i \in 1 .. Len(kbd_buf') : kbd_buf'[i] \in 1 .. typed + 1
           /\ excused' \in BOOLEAN
           /\ ~excused' => ~excused /\ kbd_buf' = <<>> /\ big_buf' = big_buf \o Append(kbd_buf, typed + 1)
<1>1. /\ typed \in Nat /\ Len(kbd_buf) \in Nat /\ Len(big_buf) \in Nat /\ kbd_buf \in Seq(Nat) /\ big_buf \in Seq(Nat)
      /\ KBD_BUF_SIZE \in Nat /\ BIG_BUF_SIZE \in Nat /\ Len(kbd_buf) <= KBD_BUF_SIZE
      BY KeysBounds DEF KeysTyped
<1>2. PICK line \in Seq(Nat) : line = Append(kbd_buf, typed + 1)
  <2>1. typed + 1 \in Nat BY <1>1
  <2>2. Append(kbd_buf, typed + 1) \in Seq(Nat) BY <1>1, <2>1, AppendProperties
  <2> QED BY <2>2
<1>3. /\ Len(line) = Len(kbd_buf) + 1 /\ line[Len(kbd_buf) + 1] = typed + 1
      /\ \A i \in 1 .. Len(kbd_buf) : line[i] = kbd_buf[i]
      BY <1>1, <1>2, AppendProperties
<1>4. \A i \in 1 .. Len(line) : line[i] \in 1 .. typed + 1
  <2>1. SUFFICES ASSUME NEW i \in 1 .. Len(line) PROVE line[i] \in 1 .. typed + 1 OBVIOUS
  <2>2. CASE i = Len(kbd_buf) + 1 BY <1>1, <1>3, <2>2
  <2>3. CASE i # Len(kbd_buf) + 1
    <3>1. i \in 1 .. Len(kbd_buf) BY <1>1, <1>3, <2>3
    <3>2. kbd_buf[i] \in 1 .. typed BY <3>1 DEF KeysTyped
    <3> QED BY <1>1, <1>3, <3>1, <3>2
  <2> QED BY <2>2, <2>3
<1>5. PICK s \in Seq(Nat) : s = big_buf \o line BY <1>1, <1>2, ConcatProperties
<1>6. PICK c \in 0 .. Len(s) : c = Min({Len(s), BIG_BUF_SIZE}) /\ c <= BIG_BUF_SIZE /\ (~(Len(s) > BIG_BUF_SIZE) => c = Len(s))
  <2>1. PICK a \in Nat, b \in Nat : a = Len(s) /\ b = BIG_BUF_SIZE BY <1>1
  <2>2. Min({a, b}) = IF a <= b THEN a ELSE b BY MinOfTwo
  <2>3. (IF a <= b THEN a ELSE b) \in 0 .. a /\ (IF a <= b THEN a ELSE b) <= b BY ONLY a \in Nat, b \in Nat
  <2>4. ~(a > b) => (IF a <= b THEN a ELSE b) = a BY ONLY a \in Nat, b \in Nat
  <2> QED BY <2>1, <2>2, <2>3, <2>4
<1>7. /\ big_buf' = SubSeq(s, 1, c)
      /\ kbd_buf' = (IF Len(s) > BIG_BUF_SIZE THEN line ELSE <<>>)
      /\ excused' = (excused \/ Len(s) > BIG_BUF_SIZE)
      BY <1>2, <1>5, <1>6 DEF LineEnds, Fitting
<1>8. big_buf' \in Seq(Nat) /\ Len(big_buf') <= BIG_BUF_SIZE BY <1>6, <1>7, Firsts
<1>9. Len(line) <= KBD_BUF_SIZE BY <1>1, <1>3
<1>10. /\ kbd_buf' \in Seq(Nat) /\ Len(kbd_buf') <= KBD_BUF_SIZE
       /\ \A i \in 1 .. Len(kbd_buf') : kbd_buf'[i] \in 1 .. typed + 1
  <2>1. CASE Len(s) > BIG_BUF_SIZE BY <1>4, <1>7, <1>9, <2>1
  <2>2. CASE ~(Len(s) > BIG_BUF_SIZE)
    <3>1. kbd_buf' = <<>> /\ Len(kbd_buf') = 0 /\ kbd_buf' \in Seq(Nat) BY <1>7, <2>2, EmptySeq
    <3> QED BY <1>1, <3>1
  <2> QED BY <2>1, <2>2
<1>11. excused' \in BOOLEAN BY <1>7
<1>12. ASSUME ~excused' PROVE ~excused /\ kbd_buf' = <<>> /\ big_buf' = s
  <2>1. ~excused /\ ~(Len(s) > BIG_BUF_SIZE) BY <1>7, <1>12
  <2>2. SubSeq(s, 1, Len(s)) = s BY <1>5, SubSeqFull
  <2> QED BY <1>6, <1>7, <2>1, <2>2
<1> QED BY <1>2, <1>5, <1>8, <1>10, <1>11, <1>12
(* The next character of a key. *)
LEMMA CharKeys ==
    ASSUME KeysInv, add_to_buf_char, UNCHANGED setup
    PROVE  KeysInv'
<1>1. KeysTyped /\ typed' = typed + 1 /\ UNCHANGED <<icanon, lastread>> BY DEF KeysInv, add_to_buf_char
<1>2. /\ typed \in Nat /\ Len(kbd_buf) \in Nat /\ Len(big_buf) \in Nat /\ kbd_buf \in Seq(Nat) /\ big_buf \in Seq(Nat)
      /\ KBD_BUF_SIZE \in Nat /\ BIG_BUF_SIZE \in Nat
      /\ Len(kbd_buf) <= KBD_BUF_SIZE /\ Len(big_buf) <= BIG_BUF_SIZE
      BY <1>1, KeysBounds DEF KeysTyped
<1>3. /\ gone \subseteq 1 .. typed + 1 /\ typed + 1 \in 1 .. typed + 1 /\ typed + 1 \in Nat /\ excused \in BOOLEAN
      /\ \A i \in 1 .. Len(kbd_buf) : kbd_buf[i] \in 1 .. typed + 1
      /\ \A m \in 1 .. typed : m \in 1 .. typed + 1
      BY <1>1, <1>2 DEF KeysTyped
<1>4. CASE Refused
  <2>1. UNCHANGED <<kbd_buf, big_buf, excused>> /\ gone' = gone \cup {typed + 1} BY <1>4 DEF Refused
  <2>2. KeysTyped' BY <1>1, <1>2, <1>3, <2>1, TypedKey
  <2>3. ~excused => Ordered' BY <1>1, <2>1, RefusedKey DEF KeysInv
  <2> QED BY <2>1, <2>2, <2>3 DEF KeysInv
<1>5. CASE icanon /\ Len(kbd_buf) # KBD_BUF_SIZE /\ LineEnds(Append(kbd_buf, typed + 1)) /\ UNCHANGED gone
  <2>1. /\ kbd_buf' \in Seq(Nat) /\ Len(kbd_buf') <= KBD_BUF_SIZE
        /\ big_buf' \in Seq(Nat) /\ Len(big_buf') <= BIG_BUF_SIZE
        /\ \A i \in 1 .. Len(kbd_buf') : kbd_buf'[i] \in 1 .. typed + 1
        /\ excused' \in BOOLEAN
        /\ ~excused' => ~excused /\ kbd_buf' = <<>> /\ big_buf' = big_buf \o Append(kbd_buf, typed + 1)
        BY <1>1, <1>5, LineEndTyped
  <2>2. KeysTyped' BY <1>1, <1>3, <1>5, <2>1, TypedKey
  <2>3. ~excused' => Ordered' BY <1>1, <1>5, <2>1, LineEndKey DEF KeysInv
  <2> QED BY <2>2, <2>3 DEF KeysInv
<1>6. CASE /\ icanon /\ kbd_buf # <<>> /\ kbd_buf' = Front(kbd_buf) /\ gone' = gone \cup {typed + 1, Last(kbd_buf)}
           /\ UNCHANGED <<big_buf, excused>>
  <2>1. /\ Last(kbd_buf) \in 1 .. typed /\ Len(kbd_buf') = Len(kbd_buf) - 1 /\ kbd_buf' \in Seq(Nat)
        /\ \A i \in 1 .. Len(kbd_buf') : i \in 1 .. Len(kbd_buf) /\ kbd_buf'[i] = kbd_buf[i]
        BY <1>1, <1>6, FrontTyped
  <2>2. KeysTyped'
    <3>1. Len(kbd_buf') <= KBD_BUF_SIZE BY <1>2, <2>1
    <3>2. gone' \subseteq 1 .. typed + 1 BY <1>3, <1>6, <2>1
    <3>3. \A i \in 1 .. Len(kbd_buf') : kbd_buf'[i] \in 1 .. typed + 1 BY <1>3, <2>1
    <3> QED BY <1>1, <1>2, <1>3, <1>6, <2>1, <3>1, <3>2, <3>3, TypedKey
  <2>3. ~excused => Ordered' BY <1>1, <1>6, EraseKey DEF KeysInv
  <2> QED BY <1>6, <2>2, <2>3 DEF KeysInv
<1>7. CASE /\ icanon /\ Len(kbd_buf) # KBD_BUF_SIZE /\ kbd_buf' = Append(kbd_buf, typed + 1)
           /\ UNCHANGED <<big_buf, gone, excused>>
  <2>1. /\ kbd_buf' \in Seq(Nat) /\ Len(kbd_buf') = Len(kbd_buf) + 1 /\ kbd_buf'[Len(kbd_buf) + 1] = typed + 1
        /\ \A i \in 1 .. Len(kbd_buf) : kbd_buf'[i] = kbd_buf[i]
        BY <1>2, <1>3, <1>7, AppendProperties
  <2>2. KeysTyped'
    <3>1. Len(kbd_buf') <= KBD_BUF_SIZE BY <1>2, <1>7, <2>1
    <3>2. ASSUME NEW i \in 1 .. Len(kbd_buf') PROVE kbd_buf'[i] \in 1 .. typed + 1
      <4>1. i \in 1 .. Len(kbd_buf) \/ i = Len(kbd_buf) + 1 BY <1>2, <2>1
      <4> QED BY <1>3, <2>1, <4>1
    <3> QED BY <1>1, <1>2, <1>3, <1>7, <2>1, <3>1, <3>2, TypedKey
  <2>3. ~excused => Ordered' BY <1>1, <1>7, LineKey DEF KeysInv
  <2> QED BY <1>7, <2>2, <2>3 DEF KeysInv
<1>8. CASE /\ ~icanon /\ Len(big_buf) < BIG_BUF_SIZE /\ big_buf' = Append(big_buf, typed + 1)
           /\ UNCHANGED <<kbd_buf, gone, excused>>
  <2>1. big_buf' \in Seq(Nat) /\ Len(big_buf') = Len(big_buf) + 1 BY <1>2, <1>3, <1>8, AppendProperties
  <2>2. Len(big_buf') <= BIG_BUF_SIZE BY <1>2, <1>8, <2>1
  <2>3. KeysTyped' BY <1>1, <1>2, <1>3, <1>8, <2>1, <2>2, TypedKey
  <2>4. ~excused => Ordered' BY <1>1, <1>8, RawKey DEF KeysInv
  <2> QED BY <1>8, <2>3, <2>4 DEF KeysInv
<1> QED BY <1>4, <1>5, <1>6, <1>7, <1>8 DEF add_to_buf_char
(* A change of the mode. *)
LEMMA ModeKeys ==
    ASSUME KeysInv, NEW p \in Procs, tty_tcsetattr(p), UNCHANGED setup
    PROVE  KeysInv'
<1>1. /\ icanon' = (job[p].arg = 1) /\ excused' = (excused \/ (icanon' # icanon /\ kbd_buf # <<>>))
      /\ UNCHANGED <<kbd, kbd_buf, big_buf, kbd_event, typed, lastread, gone>>
      BY DEF tty_tcsetattr
<1>2. icanon' \in BOOLEAN /\ excused' \in BOOLEAN BY <1>1
<1>3. KeysTyped' BY <1>1, <1>2 DEF KeysInv, KeysTyped
<1>4. ASSUME ~excused' PROVE Ordered'
  <2>1. ~excused /\ (icanon' = icanon \/ kbd_buf = <<>>) BY <1>1, <1>4
  <2>2. Awaited' = Awaited BY <1>1 DEF Awaited
  <2> QED BY <1>1, <2>1, <2>2 DEF KeysInv, Ordered
<1> QED BY <1>3, <1>4 DEF KeysInv

(* The worker takes a key. *)
LEMMA PressKeys ==
    ASSUME KeysInv, NEW key \in Keys, kbd_handler(key), UNCHANGED setup
    PROVE  KeysInv'
<1>1. UNCHANGED <<kbd_buf, big_buf, kbd_event, icanon, typed, lastread, gone, excused>> BY DEF kbd_handler, tty
<1>2. PICK n \in Nat : n = Characters(key) BY DevicesAssumption DEF Characters
<1>3. kbd' = [key |-> key, left |-> n] /\ typed + n <= setup.keys BY <1>2 DEF kbd_handler
<1>4. kbd' \in Presses /\ typed' + kbd'.left <= setup'.keys BY <1>1, <1>3 DEF Presses
<1>5. KeysTyped' BY <1>1, <1>4 DEF KeysInv, KeysTyped
<1>6. Awaited' = Awaited BY <1>1 DEF Awaited
<1> QED BY <1>1, <1>5, <1>6 DEF KeysInv, Ordered

(* The end of a key. *)
LEMMA EventKeys ==
    ASSUME KeysInv, add_to_buf, UNCHANGED setup
    PROVE  KeysInv'
<1>1. kbd_event' = kbd_event + 1 /\ kbd' = NULL
      /\ UNCHANGED <<kbd_buf, big_buf, icanon, typed, lastread, gone, excused>>
      BY DEF add_to_buf
<1>2. kbd_event' \in Nat BY <1>1 DEF KeysInv, KeysTyped
<1>3. KeysTyped' BY <1>1, <1>2 DEF KeysInv, KeysTyped
<1>4. Awaited' = Awaited BY <1>1 DEF Awaited
<1> QED BY <1>1, <1>3, <1>4 DEF KeysInv, Ordered

(* A reader takes a token, or is aborted. *)
LEMMA TokenKeys ==
    ASSUME KeysInv, NEW p \in Procs, TtyWoken(p) \/ TtyAborted(p), UNCHANGED setup
    PROVE  KeysInv'
<1>1. /\ kbd_event' = kbd_event \/ (kbd_event > 0 /\ kbd_event' = kbd_event - 1)
      /\ UNCHANGED <<kbd, kbd_buf, big_buf, icanon, typed, lastread, gone, excused>>
      BY DEF TtyWoken, TtyAborted, TakesToken
<1>2. kbd_event' \in Nat BY <1>1 DEF KeysInv, KeysTyped
<1> QED BY <1>1, <1>2, QuietKeys

(* Every step keeps the order of the characters. *)
LEMMA KeysStep ==
    ASSUME KeysInv, SharedInv, [Next]_vars
    PROVE  KeysInv'
<1>1. CASE UNCHANGED <<setup, kbd, tty>>
  <2>1. UNCHANGED <<setup, kbd, kbd_buf, big_buf, kbd_event, icanon, typed, lastread, gone, excused>>
        BY <1>1 DEF tty
  <2>2. kbd_event' \in Nat BY <2>1 DEF KeysInv, KeysTyped
  <2> QED BY <2>1, <2>2, QuietKeys
<1>2. CASE UNCHANGED vars BY <1>1, <1>2 DEF vars
<1>3. ASSUME UNCHANGED setup, NEW key \in Keys, kbd_handler(key) PROVE KeysInv' BY <1>3, PressKeys
<1>4. ASSUME UNCHANGED setup, add_to_buf_char \/ add_to_buf PROVE KeysInv' BY <1>4, CharKeys, EventKeys
<1>5. ASSUME UNCHANGED setup, NEW p \in Procs,
             (\E node \in setup.nodes : devfs_open(p, node)) \/ vfs_close(p) \/ VfsAdd(p) \/ DevGet(p) \/ DevUnref(p)
             \/ Kill(p) \/ ExitEnds(p)
      PROVE  KeysInv'
      BY <1>1, <1>5 DEF devfs_open, vfs_close, VfsAdd, DevGet, DevUnref, Kill, ExitEnds
<1>6. ASSUME UNCHANGED setup, NEW p \in Procs,
             \/ \E call \in {"read", "write"}, len \in Lens : VfsCall(p, call, len)
             \/ \E q \in 0 .. Size : VfsCall(p, "lseek", q)
             \/ \E call \in {"tcsetattr", "tcflow"}, arg \in {0, 1} : VfsCall(p, call, arg)
             \/ \E call \in {"fstat", "readdir", "tcgetattr", "isatty", "dup"} : VfsCall(p, call, 0)
      PROVE  KeysInv'
      BY <1>1, <1>6 DEF VfsCall
<1>7. ASSUME UNCHANGED setup, NEW p \in Procs,
             \/ devfs_read(p) \/ devfs_write(p) \/ DiskFull(p) \/ devfs_lseek(p) \/ devfs_readdir(p)
             \/ devfs_dup(p) \/ devfs_close(p)
      PROVE  KeysInv'
      BY <1>1, <1>7 DEF devfs_read, devfs_write, DiskFull, devfs_lseek, devfs_readdir, devfs_dup, devfs_close, Done
<1>8. ASSUME UNCHANGED setup, NEW p \in Procs,
             TtyReadBegins(p) \/ TtySleeps(p) \/ tty_tcgetattr(p)
      PROVE  KeysInv'
      BY <1>1, <1>8 DEF TtyReadBegins, TtySleeps, tty_tcgetattr, Done
<1>9. ASSUME UNCHANGED setup, NEW p \in Procs, tty_tcflow(p) \/ TtyBusy(p) PROVE KeysInv'
  <2>1. UNCHANGED <<setup, kbd, kbd_buf, big_buf, kbd_event, icanon, typed, lastread, gone, excused>>
        BY <1>9 DEF tty_tcflow, TtyBusy
  <2>2. kbd_event' \in Nat BY <2>1 DEF KeysInv, KeysTyped
  <2> QED BY <2>1, <2>2, QuietKeys
<1>10. ASSUME UNCHANGED setup, NEW p \in Procs, tty_read(p) \/ TtyWoken(p) \/ TtyAborted(p) \/ tty_tcsetattr(p) PROVE KeysInv'
       BY <1>10, ReadKeys, TokenKeys, ModeKeys
<1> QED BY <1>2, <1>3, <1>4, <1>5, <1>6, <1>7, <1>8, <1>9, <1>10 DEF Next
-----------------------------------------------------------------------------
(***************************************************************************)
(* What the invariants say                                                  *)
(***************************************************************************)

(* Nothing is open and nothing was typed when the system starts. *)
LEMMA InitShared ==
    ASSUME Init
    PROVE  SharedInv
<1>1. Typed BY Bounds DEF Init, Typed, Places
<1>2. JobsSound BY DEF Init, JobsSound, JobSound, NoJob
<1>3. OwnSound BY DEF Init, OwnSound, Busy, NoJob
<1>4. ASSUME NEW i \in Dev PROVE HandleOK(i) /\ LockOK(i)
  <2>1. i # NULL BY Bounds
  <2>2. Named(i) = {} BY <2>1 DEF Init, Named
  <2>3. Pending(i) = {} /\ Users(i) = {} BY DEF Init, Pending, Users, Counted, NoJob
  <2>4. Cardinality(Users(i)) = 0 /\ Count(i) = 0 BY <2>2, <2>3, FS_EmptySet DEF Count
  <2>5. devfs_handles[i] = NULL /\ leaked[i] = 0 BY DEF Init
  <2>6. \A p \in Procs : ~Reading(p) BY DEF Init, Reading
  <2> QED BY <2>4, <2>5, <2>6 DEF HandleOK, LockOK
<1> QED BY <1>1, <1>2, <1>3, <1>4 DEF SharedInv, HandlesSound

LEMMA InitKeys ==
    ASSUME Init
    PROVE  KeysInv
<1>1. setup.keys \in Nat /\ KBD_BUF_SIZE \in Nat /\ BIG_BUF_SIZE \in Nat BY DevicesAssumption DEF Init
<1>2. kbd_buf \in Seq(Nat) /\ Len(kbd_buf) = 0 /\ big_buf \in Seq(Nat) /\ Len(big_buf) = 0 BY EmptySeq DEF Init
<1>3. KeysTyped
  <2>1. \A i \in 1 .. Len(kbd_buf) : FALSE BY <1>2
  <2>2. Len(kbd_buf) <= KBD_BUF_SIZE /\ Len(big_buf) <= BIG_BUF_SIZE /\ typed \in 0 .. setup.keys
        BY <1>1, <1>2 DEF Init
  <2>3. gone \subseteq 1 .. typed /\ kbd = NULL /\ kbd_event \in Nat /\ icanon \in BOOLEAN /\ excused \in BOOLEAN
        BY DEF Init
  <2>4. setup \in Setups BY DEF Init
  <2> QED BY <1>2, <2>1, <2>2, <2>3, <2>4 DEF KeysTyped
<1>4. Awaited = {} BY DEF Init, Awaited
<1>5. 1 .. Len(kbd_buf) = {} /\ 1 .. Len(big_buf) = {} BY <1>2
<1>6. Ordered BY <1>4, <1>5 DEF Init, Ordered, Rising
<1> QED BY <1>3, <1>6 DEF KeysInv

(* The calls that change a count are a duplicate, an open or a close. *)
LEMMA DescriptorsCount ==
    ASSUME NEW i
    PROVE  Descriptors(i) = Count(i)
<1> DEFINE A == InCall(i, "dup", {"unref", "add"})
           B == InCall(i, "open", {"add"})
           C == InCall(i, "close", {"dev", "lock"})
<1>1. A \subseteq Procs /\ B \subseteq Procs /\ C \subseteq Procs BY DEF InCall, In
<1>2. IsFiniteSet(A) /\ IsFiniteSet(B) /\ IsFiniteSet(C) BY <1>1, Bounds, FS_Subset
<1>3. A \cap B = {} /\ (A \cup B) \cap C = {} BY DEF InCall
<1>4. Pending(i) = (A \cup B) \cup C
  <2>1. ASSUME NEW p \in Procs PROVE p \in Pending(i) <=> p \in (A \cup B) \cup C
        BY DEF Pending, Counted, InCall, In
  <2> QED BY <1>1, <2>1 DEF Pending
<1>5. Named(i) = {v \in Vfs : vfs_handles[v] = i} BY DEF Named
<1>6. /\ Cardinality(A) \in Nat /\ Cardinality(B) \in Nat /\ Cardinality(C) \in Nat
      /\ Cardinality(Named(i)) \in Nat
      BY <1>2, FS_CardinalityType, CountsNat
<1>7. Descriptors(i) = Cardinality(Named(i)) + Cardinality(A) + Cardinality(B) + Cardinality(C)
      BY <1>5 DEF Descriptors
<1> HIDE DEF A, B, C
<1>8. IsFiniteSet(A \cup B) /\ Cardinality(A \cup B) = Cardinality(A) + Cardinality(B) - Cardinality(A \cap B)
      BY <1>2, FS_Union
<1>9. Cardinality(A \cup B) = Cardinality(A) + Cardinality(B)
  <2>1. Cardinality(A \cap B) = 0 BY <1>3, FS_EmptySet
  <2> QED BY <1>6, <1>8, <2>1
<1>10. Cardinality((A \cup B) \cup C) = Cardinality(A \cup B) + Cardinality(C) - Cardinality((A \cup B) \cap C)
       BY <1>2, <1>8, FS_Union
<1>11. Cardinality((A \cup B) \cup C) = Cardinality(A) + Cardinality(B) + Cardinality(C)
  <2>1. Cardinality((A \cup B) \cap C) = 0 BY <1>3, FS_EmptySet
  <2> QED BY <1>6, <1>9, <1>10, <2>1
<1> QED BY <1>4, <1>6, <1>7, <1>11 DEF Count

(* The two invariants say that handles are shared exactly. *)
LEMMA SharedImplies ==
    ASSUME SharedInv, KeysInv
    PROVE  HandlesShared
<1>1. TypeOK
  <2>1. typed \in 0 .. setup.keys /\ gone \subseteq 1 .. setup.keys BY KeysBounds DEF KeysInv, KeysTyped
  <2>2. \A p \in Procs : pc[p] \in {"user", "add", "dev", "lock", "tc", "tty", "wait", "unref"}
        BY DEF SharedInv, Typed, Places
  <2> QED BY <2>1, <2>2 DEF SharedInv, Typed, KeysInv, KeysTyped, TypeOK
<1>2. ASSUME NEW v \in Vfs
      PROVE  Cardinality({p \in Procs : v \in own[p]}) = IF vfs_handles[v] = NULL THEN 0 ELSE 1
  <2>1. CASE vfs_handles[v] = NULL
    <3>1. {p \in Procs : v \in own[p]} = {} BY <2>1 DEF SharedInv, OwnSound
    <3> QED BY <2>1, <3>1, FS_EmptySet
  <2>2. CASE vfs_handles[v] # NULL
    <3>1. PICK p \in Procs : v \in own[p] BY <2>2 DEF SharedInv, OwnSound
    <3>2. {q \in Procs : v \in own[q]} = {p} BY <3>1 DEF SharedInv, OwnSound
    <3> QED BY <2>2, <3>2, FS_Singleton
  <2> QED BY <2>1, <2>2
<1>3. ASSUME NEW i \in Dev
      PROVE  LET h == devfs_handles[i] IN
             IF h = NULL THEN Descriptors(i) = 0
             ELSE /\ h.present <=> Descriptors(i) > 0
                  /\ h.present => h.refcount = Descriptors(i)
                  /\ h.refs = (IF h.present THEN 1 ELSE 0) + leaked[i]
                                 + Cardinality(In(i, {"lock", "tc", "tty", "wait", "unref"}))
                  /\ h.lock => IF h.present THEN Cardinality(In(i, {"tty", "wait"})) = 1 ELSE In(i, {"lock"}) = {}
  <2>1. HandleOK(i) /\ LockOK(i) /\ Descriptors(i) = Count(i) BY DescriptorsCount DEF SharedInv, HandlesSound
  <2>2. In(i, {"lock", "tc", "tty", "wait", "unref"}) = Users(i) BY DEF In, Users
  <2>3. PICK h : h = devfs_handles[i] OBVIOUS
  <2>4. CASE h = NULL BY <2>1, <2>3, <2>4 DEF HandleOK
  <2>5. CASE h # NULL
    <3>1. /\ h.present <=> Descriptors(i) > 0
          /\ h.present => h.refcount = Descriptors(i)
          /\ h.refs = (IF h.present THEN 1 ELSE 0) + leaked[i] + Cardinality(Users(i))
          BY <2>1, <2>3, <2>5 DEF HandleOK, One
    <3>2. ASSUME h.lock, h.present PROVE Cardinality(In(i, {"tty", "wait"})) = 1
      <4>1. PICK p \in Procs : Reading(p) /\ Fd(p) = i BY <2>1, <2>3, <2>5, <3>2 DEF LockOK
      <4>2. In(i, {"tty", "wait"}) = {p}
        <5>1. p \in In(i, {"tty", "wait"}) BY <4>1 DEF In, Reading
        <5>2. ASSUME NEW q \in In(i, {"tty", "wait"}) PROVE q = p BY <2>1, <4>1 DEF In, Reading, LockOK
        <5> QED BY <5>1, <5>2
      <4> QED BY <4>2, FS_Singleton
    <3>3. ASSUME ~h.present PROVE In(i, {"lock"}) = {}
      <4>1. ASSUME NEW p \in In(i, {"lock"}) PROVE FALSE
        <5>1. p \in Procs /\ pc[p] = "lock" /\ Fd(p) = i BY DEF In
        <5>2. devfs_handles[i].present BY <5>1, There
        <5> QED BY <2>3, <3>3, <5>2
      <4> QED BY <4>1
    <3> QED BY <2>2, <2>3, <2>5, <3>1, <3>2, <3>3
  <2> QED BY <2>4, <2>5
<1> QED BY <1>1, <1>2, <1>3 DEF HandlesShared

(* And that characters wait in order. *)
LEMMA KeysImplies ==
    ASSUME KeysInv
    PROVE  KeysInOrder
<1>1. SUFFICES ASSUME ~excused
               PROVE  /\ ToSet(big_buf \o kbd_buf) = (lastread + 1 .. typed) \ gone
                      /\ \A i, j \in 1 .. Len(big_buf \o kbd_buf) :
                            i < j => (big_buf \o kbd_buf)[i] < (big_buf \o kbd_buf)[j]
      BY DEF KeysInOrder
<1>2. Ordered /\ KeysTyped BY <1>1 DEF KeysInv
<1>3. PICK b \in Seq(Nat), k \in Seq(Nat) : b = big_buf /\ k = kbd_buf BY <1>2 DEF KeysTyped
<1>4. PICK w \in Seq(Nat) : w = b \o k BY ConcatProperties
<1>5. /\ Len(w) = Len(b) + Len(k) /\ Len(b) \in Nat /\ Len(k) \in Nat
      /\ \A i \in 1 .. Len(b) + Len(k) : w[i] = IF i <= Len(b) THEN b[i] ELSE k[i - Len(b)]
      BY <1>4, ConcatProperties
<1>6. ASSUME NEW i \in 1 .. Len(w)
      PROVE  \/ i \in 1 .. Len(b) /\ w[i] = b[i]
             \/ i > Len(b) /\ i - Len(b) \in 1 .. Len(k) /\ w[i] = k[i - Len(b)]
  <2>1. CASE i <= Len(b) BY <1>5, <2>1
  <2>2. CASE ~(i <= Len(b))
    <3>1. i - Len(b) \in 1 .. Len(k) /\ i > Len(b) BY <1>5, <2>2
    <3> QED BY <1>5, <2>2, <3>1
  <2> QED BY <2>1, <2>2
<1>7. ASSUME NEW i \in 1 .. Len(w), NEW j \in 1 .. Len(w), i < j PROVE w[i] < w[j]
  <2>1. CASE j \in 1 .. Len(b) /\ w[j] = b[j]
    <3>1. i \in 1 .. Len(b) /\ w[i] = b[i] BY <1>5, <1>6, <1>7, <2>1
    <3> QED BY <1>2, <1>3, <1>7, <2>1, <3>1 DEF Ordered, Rising
  <2>2. CASE j > Len(b) /\ j - Len(b) \in 1 .. Len(k) /\ w[j] = k[j - Len(b)]
    <3>1. CASE i \in 1 .. Len(b) /\ w[i] = b[i] BY <1>2, <1>3, <2>2, <3>1 DEF Ordered
    <3>2. CASE i > Len(b) /\ i - Len(b) \in 1 .. Len(k) /\ w[i] = k[i - Len(b)]
      <4>1. i - Len(b) < j - Len(b) BY <1>5, <1>7
      <4> QED BY <1>2, <1>3, <2>2, <3>2, <4>1 DEF Ordered, Rising
    <3> QED BY <1>6, <3>1, <3>2
  <2> QED BY <1>6, <2>1, <2>2
<1>8. ToSet(w) = Awaited
  <2>1. DOMAIN w = 1 .. Len(w) BY LenProperties
  <2>2. ASSUME NEW i \in 1 .. Len(w) PROVE w[i] \in Awaited BY <1>2, <1>3, <1>6 DEF Ordered
  <2>3. ASSUME NEW m \in Awaited PROVE \E i \in 1 .. Len(w) : w[i] = m
    <3>1. ASSUME NEW i \in 1 .. Len(b), b[i] = m PROVE \E l \in 1 .. Len(w) : w[l] = m
      <4>1. i \in 1 .. Len(w) /\ i <= Len(b) BY <1>5
      <4> QED BY <1>5, <3>1, <4>1
    <3>2. ASSUME NEW i \in 1 .. Len(k), k[i] = m PROVE \E l \in 1 .. Len(w) : w[l] = m
      <4>1. Len(b) + i \in 1 .. Len(w) /\ ~(Len(b) + i <= Len(b)) /\ Len(b) + i - Len(b) = i BY <1>5
      <4>2. PICK l \in 1 .. Len(w) : l = Len(b) + i BY <4>1
      <4>3. w[l] = k[l - Len(b)] BY <1>5, <4>1, <4>2
      <4>4. w[Len(b) + i] = k[i] BY <4>1, <4>2, <4>3
      <4> QED BY <3>2, <4>1, <4>4
    <3> QED BY <1>2, <1>3, <3>1, <3>2 DEF Ordered
  <2> QED BY <2>1, <2>2, <2>3 DEF ToSet
<1> QED BY <1>3, <1>4, <1>7, <1>8 DEF Awaited
-----------------------------------------------------------------------------
(***************************************************************************)
(* Who sleeps                                                               *)
(***************************************************************************)

(* A step that leaves the buffers, the worker and the tokens alone, and sends
   no other process than p to sleep, or p when a key is being handled. *)
LEMMA QuietWoken ==
    ASSUME SharedInv, TtyReaderWoken, NEW p \in Procs, UNCHANGED <<kbd, big_buf, kbd_event>>, Acts(p),
           \A q \in missed \ {p} : q \in missed',
           pc'[p] = "wait" => p \in missed' \/ big_buf = <<>> \/ kbd # NULL
    PROVE  TtyReaderWoken'
<1>1. SUFFICES ASSUME NEW q \in Procs, q \notin missed', pc'[q] = "wait", big_buf' # <<>>
               PROVE  kbd_event' > 0 \/ kbd' # NULL
      BY DEF TtyReaderWoken
<1>2. CASE q = p BY <1>1, <1>2
<1>3. CASE q # p
  <2>1. pc'[q] = pc[q] /\ q \notin missed BY <1>1, <1>3 DEF Acts
  <2> QED BY <1>1, <2>1 DEF TtyReaderWoken
<1> QED BY <1>2, <1>3


(* A character that reaches a sleeping reader is of a key the worker still
   handles, and the worker gives a token when it is done with the key.  Who
   takes a token takes it from all that sleep. *)
LEMMA WokenStep ==
    ASSUME SharedInv, KeysInv, TtyReaderWoken, [Next]_vars
    PROVE  TtyReaderWoken'
<1>1. CASE UNCHANGED <<pc, missed, kbd, big_buf, kbd_event>> BY <1>1 DEF TtyReaderWoken
<1>2. CASE UNCHANGED vars BY <1>1, <1>2 DEF vars, tty
<1>3. ASSUME NEW key \in Keys, kbd_handler(key) PROVE TtyReaderWoken'
  <2>1. kbd' # NULL
    <3>1. PICK n \in Nat : n = Characters(key) BY DevicesAssumption DEF Characters
    <3>2. kbd' = [key |-> key, left |-> n] BY <1>3, <3>1 DEF kbd_handler
    <3>3. kbd' \in Presses BY <3>2 DEF Presses
    <3> QED BY <3>3, NullAssumption
  <2> QED BY <2>1 DEF TtyReaderWoken
<1>4. ASSUME add_to_buf_char, UNCHANGED setup PROVE TtyReaderWoken'
  <2>1. PICK k \in Presses : k = kbd BY <1>4 DEF KeysInv, KeysTyped, add_to_buf_char
  <2>2. PICK n \in Int : n = k.left - 1 /\ k.left > 0 BY <1>4, <2>1 DEF Presses, add_to_buf_char
  <2>3. kbd' = [k EXCEPT !.left = n] /\ n \in Nat BY <1>4, <2>1, <2>2 DEF Presses, add_to_buf_char
  <2>4. kbd' \in Presses BY <2>1, <2>3 DEF Presses
  <2>5. kbd' # NULL BY <2>4, NullAssumption
  <2> QED BY <2>5 DEF TtyReaderWoken
<1>5. ASSUME add_to_buf PROVE TtyReaderWoken'
  <2>1. kbd_event' > 0 BY <1>5 DEF add_to_buf, KeysInv, KeysTyped
  <2> QED BY <2>1 DEF TtyReaderWoken
<1>6. ASSUME NEW p \in Procs, TtyWoken(p) \/ TtyAborted(p) PROVE TtyReaderWoken'
  <2>1. pc[p] = "wait" /\ pc'[p] # "wait" /\ (\A q \in Procs \ {p} : pc'[q] = pc[q])
        /\ UNCHANGED <<kbd, big_buf>> /\ Acts(p)
        BY <1>6 DEF TtyWoken, TtyAborted, At, Goes, SharedInv, Typed, Acts
  <2>2. CASE TakesToken(p)
    <3>1. \A q \in Procs : pc'[q] = "wait" => q \in missed' BY <2>1, <2>2 DEF TakesToken
    <3> QED BY <3>1 DEF TtyReaderWoken
  <2>3. CASE missed' = missed \ {p} /\ UNCHANGED kbd_event BY <2>1, <2>3, QuietWoken
  <2> QED BY <1>6, <2>2, <2>3 DEF TtyWoken, TtyAborted
<1>7. ASSUME NEW p \in Procs, tty_read(p) PROVE TtyReaderWoken'
  <2>1. pc'[p] = "unref" /\ (\A q \in Procs \ {p} : pc'[q] = pc[q]) /\ UNCHANGED <<kbd, kbd_event, missed>>
        BY <1>7 DEF tty_read, Goes, SharedInv, Typed
  <2>2. big_buf # <<>> BY <1>7 DEF tty_read
  <2> QED BY <2>1, <2>2 DEF TtyReaderWoken
<1>8. ASSUME NEW p \in Procs, TtyBusy(p) PROVE TtyReaderWoken'
  <2>1. UNCHANGED <<kbd, big_buf, kbd_event>> BY <1>8 DEF TtyBusy
  <2>2. Acts(p) BY <1>8 DEF TtyBusy, Goes, Acts, SharedInv, Typed
  <2>3. (p \in missed' \/ kbd # NULL) /\ \A q \in missed : q \in missed' BY <1>8 DEF TtyBusy
  <2> QED BY <2>1, <2>2, <2>3, QuietWoken
<1>9. ASSUME NEW p \in Procs, TtySleeps(p) PROVE TtyReaderWoken'
  <2>1. UNCHANGED <<kbd, big_buf, kbd_event, job, missed>> /\ big_buf = <<>> BY <1>9 DEF TtySleeps, tty
  <2>2. Acts(p) BY <1>9, <2>1 DEF TtySleeps, Goes, Acts, SharedInv, Typed
  <2> QED BY <2>1, <2>2, QuietWoken
<1>10. ASSUME NEW p \in Procs, Kill(p) \/ ExitEnds(p) PROVE TtyReaderWoken'
       BY <1>1, <1>10 DEF Kill, ExitEnds, tty
<1>11. ASSUME NEW p \in Procs, (\E node \in setup.nodes : devfs_open(p, node)) \/ vfs_close(p) \/ VfsAdd(p)
       PROVE  TtyReaderWoken'
  <2>1. UNCHANGED <<kbd, big_buf, kbd_event, missed>> BY <1>11 DEF devfs_open, vfs_close, VfsAdd, Returns, tty
  <2>2. PICK place \in Places \ {"wait"} : Goes(p, place)
        BY <1>11 DEF devfs_open, vfs_close, VfsAdd, Returns, Places
  <2>3. Acts(p) BY <1>11, <2>2 DEF Acts, Goes, devfs_open, vfs_close, VfsAdd, Returns, SharedInv, Typed
  <2>4. pc'[p] = place BY <2>2 DEF Goes, SharedInv, Typed
  <2> QED BY <2>1, <2>2, <2>3, <2>4, QuietWoken
<1>12. ASSUME NEW p \in Procs, NEW call, NEW arg, VfsCall(p, call, arg) PROVE TtyReaderWoken'
  <2>1. UNCHANGED <<kbd, big_buf, kbd_event, missed>> BY <1>12 DEF VfsCall, tty
  <2>2. Acts(p) /\ pc'[p] = "dev" BY <1>12 DEF VfsCall, Goes, Acts, SharedInv, Typed
  <2> QED BY <2>1, <2>2, QuietWoken
<1>13. ASSUME NEW p \in Procs, DevGet(p) \/ DevUnref(p) PROVE TtyReaderWoken'
  <2>1. UNCHANGED <<kbd, big_buf, kbd_event, missed>> BY <1>13 DEF DevGet, DevUnref, tty
  <2>2. CASE UNCHANGED <<pc, job>> BY <1>1, <2>1, <2>2
  <2>3. CASE Returns(p) \/ (\E place \in {"add", "tc", "unref", "lock"} : Goes(p, place) /\ UNCHANGED job)
    <3>1. PICK place \in Places \ {"wait"} : Goes(p, place) BY <2>3 DEF Returns, Places
    <3>2. Acts(p) BY <2>3 DEF Acts, Goes, Returns, SharedInv, Typed
    <3>3. pc'[p] = place BY <3>1 DEF Goes, SharedInv, Typed
    <3> QED BY <2>1, <3>1, <3>2, <3>3, QuietWoken
  <2>4. Follows(job[p].call, Handle(p).device) \in {"add", "tc", "unref", "lock"} BY DEF Follows
  <2> QED BY <1>13, <2>2, <2>3, <2>4 DEF DevGet, DevUnref
<1>14. ASSUME NEW p \in Procs, NEW h, Done(p, h) PROVE TtyReaderWoken'
  <2>1. UNCHANGED <<kbd, big_buf, kbd_event, job, missed>> /\ Goes(p, "unref") BY <1>14 DEF Done, tty
  <2>2. Acts(p) /\ pc'[p] = "unref" BY <2>1 DEF Goes, Acts, SharedInv, Typed
  <2> QED BY <2>1, <2>2, QuietWoken
<1>15. ASSUME NEW p \in Procs, devfs_read(p) \/ devfs_write(p) \/ devfs_lseek(p) \/ devfs_readdir(p) \/ devfs_dup(p)
       PROVE  TtyReaderWoken'
       BY <1>14, <1>15 DEF devfs_read, devfs_write, devfs_lseek, devfs_readdir, devfs_dup
<1>16. ASSUME NEW p \in Procs, DiskFull(p) \/ devfs_close(p) PROVE TtyReaderWoken'
  <2>1. CASE Returns(p) /\ UNCHANGED <<kbd, tty>>
    <3>1. UNCHANGED <<kbd, big_buf, kbd_event, missed>> BY <2>1 DEF tty
    <3>2. Acts(p) /\ pc'[p] = "user" BY <2>1 DEF Goes, Acts, Returns, SharedInv, Typed
    <3> QED BY <3>1, <3>2, QuietWoken
  <2> QED BY <1>14, <1>16, <2>1 DEF DiskFull, devfs_close
<1>17. ASSUME NEW p \in Procs, TtyReadBegins(p) PROVE TtyReaderWoken'
  <2>1. CASE Goes(p, "tty") /\ UNCHANGED <<kbd, tty, job>>
    <3>1. UNCHANGED <<kbd, big_buf, kbd_event, missed>> BY <2>1 DEF tty
    <3>2. Acts(p) /\ pc'[p] = "tty" BY <2>1 DEF Goes, Acts, SharedInv, Typed
    <3> QED BY <3>1, <3>2, QuietWoken
  <2> QED BY <1>14, <1>17, <2>1 DEF TtyReadBegins
<1>18. ASSUME NEW p \in Procs, tty_tcsetattr(p) \/ tty_tcflow(p) \/ tty_tcgetattr(p) PROVE TtyReaderWoken'
  <2>1. UNCHANGED <<kbd, big_buf, kbd_event, job, missed>> /\ Goes(p, "unref")
        BY <1>18 DEF tty_tcsetattr, tty_tcflow, tty_tcgetattr, tty
  <2>2. Acts(p) /\ pc'[p] = "unref" BY <2>1 DEF Goes, Acts, SharedInv, Typed
  <2> QED BY <2>1, <2>2, QuietWoken
<1> QED
  BY <1>2, <1>3, <1>4, <1>5, <1>6, <1>7, <1>8, <1>9, <1>10, <1>11, <1>12, <1>13, <1>15, <1>16, <1>17, <1>18
  DEF Next

-----------------------------------------------------------------------------
(* A handle of a device that processes share after fork and dup lives exactly
   as long as descriptors name it, its reference counts are exact, and its
   lock is held by one reader of the terminal or guards nothing: devfs_dup,
   devfs_close and the calls between dynarray_getelem and dynarray_unref lose
   and keep no reference but those counted in leaked. *)
THEOREM HandlesAlwaysShared == Spec => []HandlesShared
<1>1. Init => SharedInv /\ KeysInv BY InitShared, InitKeys
<1>2. SharedInv /\ KeysInv /\ [Next]_vars => (SharedInv /\ KeysInv)' BY SharedStep, KeysStep
<1>3. SharedInv /\ KeysInv => HandlesShared BY SharedImplies
<1> QED BY <1>1, <1>2, <1>3, PTL DEF Spec

(* Every character that was typed is read once and in the order of typing,
   unless it was erased or refused, as long as no line has met a full big_buf
   and the mode was not changed in a line: add_to_buf_char and tty_read. *)
THEOREM KeysAlwaysInOrder == Spec => []KeysInOrder
<1>1. Init => SharedInv /\ KeysInv BY InitShared, InitKeys
<1>2. SharedInv /\ KeysInv /\ [Next]_vars => (SharedInv /\ KeysInv)' BY SharedStep, KeysStep
<1>3. KeysInv => KeysInOrder BY KeysImplies
<1> QED BY <1>1, <1>2, <1>3, PTL DEF Spec

(* A reader that tty_read put to sleep has a token or a key in work whenever
   characters wait for it, unless it found read_lock taken by another call or
   another reader of the terminal took a token while it slept.  However many
   handles of the terminal there are. *)
THEOREM TtyReadersWoken == Spec => []TtyReaderWoken
<1>1. Init => SharedInv /\ KeysInv /\ TtyReaderWoken
  <2>1. Init => TtyReaderWoken BY DEF Init, TtyReaderWoken
  <2> QED BY <2>1, InitShared, InitKeys
<1>2. SharedInv /\ KeysInv /\ TtyReaderWoken /\ [Next]_vars => (SharedInv /\ KeysInv /\ TtyReaderWoken)'
      BY SharedStep, KeysStep, WokenStep
<1> QED BY <1>1, <1>2, PTL DEF Spec
=============================================================================
