---------------------------- MODULE MCScheduler -----------------------------
(* Instances of Scheduler for TLC: which threads exist, of which process,
   and which of them await which event.                                     *)
EXTENDS Scheduler, TLC

CONSTANTS m, r, u1, u2,  \* kmain, the request monitor, user threads
          e1, e2         \* events

\* Two kernel threads, two user threads of two processes
ProcOf4 == (m :> 0) @@ (r :> 0) @@ (u1 :> 1) @@ (u2 :> 2)
ProcOf3 == (m :> 0) @@ (r :> 0) @@ (u1 :> 1)

\* Each event has one waiter
Waiters1 == (e1 :> {u1})
Waiters2 == (e1 :> {r}) @@ (e2 :> {u1})
=============================================================================
