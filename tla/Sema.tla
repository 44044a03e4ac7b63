-------------------------------- MODULE Sema --------------------------------
(***************************************************************************)
(* Counting semaphores (sys/kern/kern_sema.c): a value and a count of       *)
(* waiters under a sleep mutex, and a condition variable.                   *)
(*                                                                          *)
(* A step is a critical section of sema_mtx, which is an exclusive lock     *)
(* (SleepMutex) and is given up by a thread in the same step that queues it *)
(* on sema_cv, because a thread is on the queue before cv_wait() drops its  *)
(* interlock.  Of sema_cv the module uses what SleepQueue models:           *)
(* cv_signal() takes one thread off a queue that is not empty, and the      *)
(* timeout of a thread may take it off instead.                             *)
(***************************************************************************)
EXTENDS Naturals, FiniteSets

CONSTANTS
  Threads,
  MaxValue         \* bound on sema_value: how far posts run ahead of waits

ASSUME SemaAssumption ==
  /\ IsFiniteSet(Threads)
  /\ MaxValue \in Nat

VARIABLES
  sema_value,
  sema_waiters,
  timed,           \* is the thread in sema_timedwait()?
  error,           \* what cv_timedwait() returns to it
  pc               \* "queued" on sema_cv, "resumed" and after sema_mtx

vars == <<sema_value, sema_waiters, timed, error, pc>>

Errors == {"0", "EWOULDBLOCK"}

TypeOK ==
  /\ sema_value \in 0 .. MaxValue
  /\ sema_waiters \in Nat
  /\ timed \in [Threads -> BOOLEAN]
  /\ error \in [Threads -> Errors]
  /\ pc \in [Threads -> {"caller", "queued", "resumed"}]

Queued == {t \in Threads : pc[t] = "queued"}
Resumed == {t \in Threads : pc[t] = "resumed"}

(* sema_init(). *)
Init ==
  /\ sema_value \in 0 .. MaxValue
  /\ sema_waiters = 0
  /\ timed = [t \in Threads |-> FALSE]
  /\ error = [t \in Threads |-> "0"]
  /\ pc = [t \in Threads |-> "caller"]

-----------------------------------------------------------------------------

(* cv_signal(&sema_cv). *)
cv_signal ==
  \/ Queued = {} /\ UNCHANGED <<error, pc>>
  \/ \E t \in Queued :
       /\ pc' = [pc EXCEPT ![t] = "resumed"]
       /\ error' = [error EXCEPT ![t] = "0"]

sema_post_FirstOnly ==   \* mutation: signal when the value leaves zero
  /\ sema_value < MaxValue
  /\ sema_value' = sema_value + 1
  /\ \/ sema_waiters > 0 /\ sema_value = 0 /\ cv_signal
     \/ ~ (sema_waiters > 0 /\ sema_value = 0) /\ UNCHANGED <<error, pc>>
  /\ UNCHANGED <<sema_waiters, timed>>

sema_post_Silent ==   \* mutation: no cv_signal() while a thread is resumed
  /\ sema_value < MaxValue
  /\ sema_value' = sema_value + 1
  /\ \/ Resumed = {} /\ cv_signal
     \/ Resumed # {} /\ UNCHANGED <<error, pc>>
  /\ UNCHANGED <<sema_waiters, timed>>

sema_post ==
  /\ sema_value < MaxValue
  /\ sema_value' = sema_value + 1
  /\ \/ sema_waiters > 0 /\ cv_signal
     \/ sema_waiters = 0 /\ UNCHANGED <<error, pc>>
  /\ UNCHANGED <<sema_waiters, timed>>

(* sema_wait() and sema_timedwait() up to the first cv_wait(). *)
sema_wait(t) ==
  /\ pc[t] = "caller"
  /\ \/ /\ sema_value > 0
        /\ sema_value' = sema_value - 1
        /\ UNCHANGED <<sema_waiters, timed, error, pc>>
     \/ /\ sema_value = 0
        /\ sema_waiters' = sema_waiters + 1
        /\ \E b \in BOOLEAN : timed' = [timed EXCEPT ![t] = b]
        /\ error' = [error EXCEPT ![t] = "0"]
        /\ pc' = [pc EXCEPT ![t] = "queued"]
        /\ UNCHANGED sema_value

WaitReturns_NoLoop(t) ==   \* mutation: if instead of while
  /\ pc[t] = "resumed"
  /\ sema_waiters' = sema_waiters - 1
  /\ pc' = [pc EXCEPT ![t] = "caller"]
  /\ sema_value' = IF error[t] = "0" THEN sema_value - 1 ELSE sema_value
  /\ UNCHANGED <<timed, error>>

WaitReturns_Leak(t) ==   \* mutation: a timeout does not lower sema_waiters
  /\ pc[t] = "resumed"
  /\ \/ /\ sema_value > 0
        /\ sema_value' = sema_value - 1
        /\ sema_waiters' = sema_waiters - 1
        /\ pc' = [pc EXCEPT ![t] = "caller"]
     \/ /\ sema_value = 0 /\ error[t] # "0"
        /\ pc' = [pc EXCEPT ![t] = "caller"]
        /\ UNCHANGED <<sema_value, sema_waiters>>
     \/ /\ sema_value = 0 /\ error[t] = "0"
        /\ pc' = [pc EXCEPT ![t] = "queued"]
        /\ UNCHANGED <<sema_value, sema_waiters>>
  /\ UNCHANGED <<timed, error>>

(* cv_wait() or cv_timedwait() has returned with sema_mtx held: success,   *)
(* whatever error says; or a timeout; or a wakeup for which another thread *)
(* was faster, and the loop waits again.                                   *)
WaitReturns(t) ==
  /\ pc[t] = "resumed"
  /\ \/ /\ sema_value > 0
        /\ sema_value' = sema_value - 1
        /\ sema_waiters' = sema_waiters - 1
        /\ pc' = [pc EXCEPT ![t] = "caller"]
     \/ /\ sema_value = 0 /\ error[t] # "0"
        /\ sema_waiters' = sema_waiters - 1
        /\ pc' = [pc EXCEPT ![t] = "caller"]
        /\ UNCHANGED sema_value
     \/ /\ sema_value = 0 /\ error[t] = "0"
        /\ pc' = [pc EXCEPT ![t] = "queued"]
        /\ UNCHANGED <<sema_value, sema_waiters>>
  /\ UNCHANGED <<timed, error>>

(* The timeout of cv_timedwait() takes the thread off the queue. *)
TimeOut(t) ==
  /\ pc[t] = "queued"
  /\ timed[t]
  /\ pc' = [pc EXCEPT ![t] = "resumed"]
  /\ error' = [error EXCEPT ![t] = "EWOULDBLOCK"]
  /\ UNCHANGED <<sema_value, sema_waiters, timed>>

sema_trywait(t) ==
  /\ pc[t] = "caller"
  /\ sema_value > 0
  /\ sema_value' = sema_value - 1
  /\ UNCHANGED <<sema_waiters, timed, error, pc>>

(* sema_destroy() by the last user, and sema_init() again. *)
Recreate ==
  /\ \A t \in Threads : pc[t] = "caller"
  /\ sema_value' \in 0 .. MaxValue
  /\ sema_waiters' = 0
  /\ UNCHANGED <<timed, error, pc>>

Next ==
  \/ sema_post
  \/ Recreate
  \/ \E t \in Threads :
       sema_wait(t) \/ WaitReturns(t) \/ TimeOut(t) \/ sema_trywait(t)

Spec == Init /\ [][Next]_vars

(* A resumed thread gets sema_mtx in the end, however many others want it. *)
FairSpec == Spec /\ \A t \in Threads : SF_vars(WaitReturns(t))

-----------------------------------------------------------------------------

(* sema_waiters counts the threads between sema_waiters++ and              *)
(* sema_waiters--, however they were woken; the KASSERT of sema_destroy()  *)
(* holds once nobody is in a wait any more.                                *)
WaitersCounted == sema_waiters = Cardinality(Queued \cup Resumed)

(* No post is lost: while a thread is left on the queue, as many threads   *)
(* are awake and on their way to the value as there are units of it to     *)
(* take, although timeouts and threads that overtake consume both.         *)
NoLostPost == Queued # {} => sema_value <= Cardinality(Resumed)

(* A value left lying while threads wait is taken, or nobody waits. *)
ValueIsTaken == []<>(sema_value = 0 \/ Queued = {})

=============================================================================
