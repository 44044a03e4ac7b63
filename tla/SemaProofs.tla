----------------------------- MODULE SemaProofs -----------------------------
(***************************************************************************)
(* Proofs about Sema: for every finite set of threads and every bound on    *)
(* the value, sema_waiters is exact and no post is lost.                    *)
(*                                                                          *)
(* The two properties are inductive together with TypeOK.  A step moves at  *)
(* most one thread between "caller", "queued" and "resumed"; the lemmas say *)
(* what that does to the sets Queued and Resumed and to their sizes.        *)
(***************************************************************************)
EXTENDS Sema, FiniteSetTheorems, TLAPS

IInv == TypeOK /\ WaitersCounted /\ NoLostPost

(* The sets of waiting threads are finite. *)
LEMMA SetsFinite ==
  /\ IsFiniteSet(Queued) /\ IsFiniteSet(Resumed)
  /\ IsFiniteSet(Queued \cup Resumed)
  /\ Cardinality(Resumed) \in Nat
  /\ Cardinality(Queued \cup Resumed) \in Nat
<1>1. Queued \subseteq Threads /\ Resumed \subseteq Threads
  BY DEF Queued, Resumed
<1>2. Queued \cup Resumed \subseteq Threads
  BY <1>1
<1> QED
  BY <1>1, <1>2, SemaAssumption, FS_Subset, FS_CardinalityType

(* A thread that goes from "queued" to "resumed" (cv_signal() or a timeout). *)
LEMMA QueuedToResumed ==
  ASSUME TypeOK, NEW t \in Queued, pc' = [pc EXCEPT ![t] = "resumed"]
  PROVE  /\ (Queued \cup Resumed)' = Queued \cup Resumed
         /\ Queued' \subseteq Queued
         /\ Cardinality(Resumed') = Cardinality(Resumed) + 1
<1>1. t \in Threads /\ t \notin Resumed
  BY DEF Queued, Resumed
<1>2. Resumed' = Resumed \cup {t} /\ Queued' = Queued \ {t}
  BY <1>1 DEF Queued, Resumed, TypeOK
<1>3. Cardinality(Resumed \cup {t}) = Cardinality(Resumed) + 1
  BY <1>1, SetsFinite, FS_AddElement
<1> QED
  BY <1>2, <1>3

(* A thread that goes back from "resumed" to the queue. *)
LEMMA ResumedToQueued ==
  ASSUME TypeOK, NEW t \in Resumed, pc' = [pc EXCEPT ![t] = "queued"]
  PROVE  (Queued \cup Resumed)' = Queued \cup Resumed
<1>1. t \in Threads
  BY DEF Resumed
<1>2. Resumed' = Resumed \ {t} /\ Queued' = Queued \cup {t}
  BY <1>1 DEF Queued, Resumed, TypeOK
<1> QED
  BY <1>2

(* A thread that leaves the wait. *)
LEMMA ResumedToCaller ==
  ASSUME TypeOK, NEW t \in Resumed, pc' = [pc EXCEPT ![t] = "caller"]
  PROVE  /\ Queued' = Queued
         /\ Cardinality(Resumed') = Cardinality(Resumed) - 1
         /\ Cardinality((Queued \cup Resumed)') = Cardinality(Queued \cup Resumed) - 1
<1>1. t \in Threads /\ t \notin Queued
  BY DEF Queued, Resumed
<1>2. Resumed' = Resumed \ {t} /\ Queued' = Queued
  BY <1>1 DEF Queued, Resumed, TypeOK
<1>3. Cardinality(Resumed \ {t}) = Cardinality(Resumed) - 1
  BY SetsFinite, FS_RemoveElement
<1>4. (Queued \cup Resumed)' = (Queued \cup Resumed) \ {t}
  BY <1>1, <1>2
<1>5. Cardinality((Queued \cup Resumed) \ {t}) = Cardinality(Queued \cup Resumed) - 1
  BY SetsFinite, FS_RemoveElement
<1> QED
  BY <1>2, <1>3, <1>4, <1>5

(* A thread that starts to wait. *)
LEMMA CallerToQueued ==
  ASSUME TypeOK, NEW t \in Threads, pc[t] = "caller",
         pc' = [pc EXCEPT ![t] = "queued"]
  PROVE  Cardinality((Queued \cup Resumed)') = Cardinality(Queued \cup Resumed) + 1
<1>1. t \notin Queued \cup Resumed
  BY DEF Queued, Resumed
<1>2. (Queued \cup Resumed)' = (Queued \cup Resumed) \cup {t}
  BY DEF Queued, Resumed, TypeOK
<1>3. Cardinality((Queued \cup Resumed) \cup {t}) = Cardinality(Queued \cup Resumed) + 1
  BY <1>1, SetsFinite, FS_AddElement
<1> QED
  BY <1>2, <1>3

(* sema_init() leaves a state with nobody waiting. *)
LEMMA InitOK == Init => IInv
<1> SUFFICES ASSUME Init PROVE IInv
  OBVIOUS
<1>1. Queued = {} /\ Resumed = {}
  BY DEF Init, Queued, Resumed
<1>2. Cardinality({}) = 0
  BY FS_EmptySet
<1>3. TypeOK
  BY DEF Init, TypeOK, Errors
<1> QED
  BY <1>1, <1>2, <1>3 DEF IInv, WaitersCounted, NoLostPost, Init

(* The signal of sema_post(): either nobody is queued, or one more thread  *)
(* is on its way for the one more unit of the value.                       *)
LEMMA PostStep ==
  ASSUME IInv, sema_post
  PROVE  IInv'
<1> USE DEF IInv, sema_post
<1>1. CASE sema_waiters = 0 /\ UNCHANGED <<error, pc>>
  <2>1. Queued' = Queued /\ Resumed' = Resumed
    BY <1>1 DEF Queued, Resumed
  <2>2. Queued = {}
    <3>1. Cardinality(Queued \cup Resumed) = 0
      BY <1>1 DEF WaitersCounted
    <3>2. Queued \cup Resumed = {}
      BY <3>1, SetsFinite, FS_EmptySet
    <3> QED
      BY <3>2
  <2>3. TypeOK'
    BY <1>1, SemaAssumption DEF TypeOK
  <2> QED
    BY <1>1, <2>1, <2>2, <2>3 DEF WaitersCounted, NoLostPost
<1>2. CASE cv_signal
  <2>1. CASE Queued = {} /\ UNCHANGED <<error, pc>>
    <3>1. Queued' = Queued /\ Resumed' = Resumed
      BY <2>1 DEF Queued, Resumed
    <3>2. TypeOK'
      BY <2>1, SemaAssumption DEF TypeOK
    <3> QED
      BY <2>1, <3>1, <3>2 DEF WaitersCounted, NoLostPost
  <2>2. ASSUME NEW t \in Queued, pc' = [pc EXCEPT ![t] = "resumed"],
               error' = [error EXCEPT ![t] = "0"]
        PROVE  IInv'
    <3>1. TypeOK'
      BY <2>2, SemaAssumption DEF TypeOK, Errors, Queued
    <3>2. sema_value <= Cardinality(Resumed)
      BY DEF NoLostPost
    <3>3. Cardinality(Resumed') = Cardinality(Resumed) + 1
      BY <2>2, QueuedToResumed
    <3>4. sema_value \in Nat /\ sema_value' = sema_value + 1
      BY DEF TypeOK
    <3>5. Cardinality(Resumed) \in Nat
      BY SetsFinite
    <3>6. sema_value' <= Cardinality(Resumed')
      BY <3>2, <3>3, <3>4, <3>5
    <3>7. WaitersCounted'
      BY <2>2, QueuedToResumed DEF WaitersCounted
    <3> QED
      BY <3>1, <3>6, <3>7 DEF NoLostPost
  <2> QED
    BY <1>2, <2>1, <2>2 DEF cv_signal
<1> QED
  BY <1>1, <1>2

(* sema_wait() takes from the value, or queues the thread when it is zero. *)
LEMMA WaitStep ==
  ASSUME IInv, NEW t \in Threads, sema_wait(t) \/ sema_trywait(t)
  PROVE  IInv'
<1> USE DEF IInv
<1>1. CASE /\ sema_value > 0 /\ sema_value' = sema_value - 1
           /\ UNCHANGED <<sema_waiters, timed, error, pc>>
  <2>1. Queued' = Queued /\ Resumed' = Resumed
    BY <1>1 DEF Queued, Resumed
  <2>2. TypeOK'
    BY <1>1, SemaAssumption DEF TypeOK
  <2>3. NoLostPost'
    BY <1>1, <2>1, SetsFinite, SemaAssumption DEF NoLostPost, TypeOK
  <2> QED
    BY <1>1, <2>1, <2>2, <2>3 DEF WaitersCounted
<1>2. CASE /\ sema_value = 0 /\ sema_value' = sema_value
           /\ sema_waiters' = sema_waiters + 1
           /\ \E b \in BOOLEAN : timed' = [timed EXCEPT ![t] = b]
           /\ error' = [error EXCEPT ![t] = "0"]
           /\ pc[t] = "caller" /\ pc' = [pc EXCEPT ![t] = "queued"]
  <2>1. TypeOK'
    BY <1>2 DEF TypeOK, Errors
  <2>2. WaitersCounted'
    BY <1>2, CallerToQueued DEF WaitersCounted
  <2>3. Cardinality(Resumed)' \in Nat
    <3>1. Resumed' \subseteq Threads
      BY DEF Resumed
    <3> QED
      BY <3>1, SemaAssumption, FS_Subset, FS_CardinalityType
  <2>4. NoLostPost'
    BY <1>2, <2>3 DEF NoLostPost
  <2> QED
    BY <2>1, <2>2, <2>4
<1> QED
  BY <1>1, <1>2 DEF sema_wait, sema_trywait

(* A thread comes back from the condition variable. *)
LEMMA ReturnStep ==
  ASSUME IInv, NEW t \in Threads, WaitReturns(t)
  PROVE  IInv'
<1> USE DEF IInv
<1>1. t \in Resumed /\ UNCHANGED <<timed, error>>
  BY DEF WaitReturns, Resumed
<1>2. Cardinality(Queued \cup Resumed) > 0
  <2>1. Queued \cup Resumed # {}
    BY <1>1
  <2> QED
    BY <2>1, SetsFinite, FS_EmptySet
<1>3. sema_waiters - 1 \in Nat
  BY <1>2, SetsFinite DEF WaitersCounted, TypeOK
<1>4. CASE /\ sema_value = 0 /\ sema_value' = 0 /\ error[t] = "0"
           /\ sema_waiters' = sema_waiters
           /\ pc' = [pc EXCEPT ![t] = "queued"]
  <2>1. TypeOK'
    BY <1>1, <1>4 DEF TypeOK
  <2>2. WaitersCounted'
    BY <1>1, <1>4, ResumedToQueued DEF WaitersCounted
  <2>3. Cardinality(Resumed)' \in Nat
    <3>1. Resumed' \subseteq Threads
      BY DEF Resumed
    <3> QED
      BY <3>1, SemaAssumption, FS_Subset, FS_CardinalityType
  <2> QED
    BY <1>4, <2>1, <2>2, <2>3 DEF NoLostPost
<1>5. CASE /\ \/ sema_value > 0 /\ sema_value' = sema_value - 1
              \/ sema_value = 0 /\ sema_value' = 0
           /\ sema_waiters' = sema_waiters - 1
           /\ pc' = [pc EXCEPT ![t] = "caller"]
  <2>1. TypeOK'
    BY <1>1, <1>3, <1>5, SemaAssumption DEF TypeOK
  <2>2. WaitersCounted'
    BY <1>1, <1>5, ResumedToCaller DEF WaitersCounted
  <2>3. Cardinality(Resumed') = Cardinality(Resumed) - 1 /\ Queued' = Queued
    BY <1>1, <1>5, ResumedToCaller
  <2>4. Cardinality(Resumed') >= 0
    <3>1. Resumed # {}
      BY <1>1
    <3>2. Cardinality(Resumed) # 0
      BY <3>1, SetsFinite, FS_EmptySet
    <3> QED
      BY <2>3, <3>2, SetsFinite
  <2>5. NoLostPost'
    BY <1>5, <2>3, <2>4, SetsFinite, SemaAssumption DEF NoLostPost, TypeOK
  <2> QED
    BY <2>1, <2>2, <2>5
<1> QED
  BY <1>4, <1>5 DEF WaitReturns

(* A timeout only adds to the threads that are awake. *)
LEMMA TimeOutStep ==
  ASSUME IInv, NEW t \in Threads, TimeOut(t)
  PROVE  IInv'
<1> USE DEF IInv, TimeOut
<1>1. t \in Queued
  BY DEF Queued
<1>2. TypeOK'
  BY DEF TypeOK, Errors
<1>3. WaitersCounted'
  BY <1>1, QueuedToResumed DEF WaitersCounted
<1>4. Cardinality(Resumed') = Cardinality(Resumed) + 1
  BY <1>1, QueuedToResumed
<1>5. sema_value \in Nat /\ Cardinality(Resumed) \in Nat
  BY SetsFinite DEF TypeOK
<1>6. sema_value <= Cardinality(Resumed)
  BY <1>1 DEF NoLostPost
<1>7. sema_value' <= Cardinality(Resumed')
  BY <1>4, <1>5, <1>6
<1> QED
  BY <1>2, <1>3, <1>7 DEF NoLostPost

(* sema_destroy() and sema_init() start over, with nobody waiting. *)
LEMMA RecreateStep ==
  ASSUME IInv, Recreate
  PROVE  IInv'
<1>1. Queued' = {} /\ Resumed' = {}
  BY DEF Recreate, Queued, Resumed
<1>2. Cardinality({}) = 0
  BY FS_EmptySet
<1>3. TypeOK'
  BY DEF IInv, Recreate, TypeOK
<1> QED
  BY <1>1, <1>2, <1>3 DEF IInv, Recreate, WaitersCounted, NoLostPost

(* One case per operation. *)
LEMMA StepOK == IInv /\ [Next]_vars => IInv'
<1> SUFFICES ASSUME IInv, [Next]_vars PROVE IInv'
  OBVIOUS
<1>1. CASE UNCHANGED vars
  BY <1>1 DEF vars, IInv, TypeOK, WaitersCounted, NoLostPost, Queued, Resumed
<1>2. CASE Next
  BY <1>2, PostStep, RecreateStep, WaitStep, ReturnStep, TimeOutStep DEF Next
<1> QED
  BY <1>1, <1>2

(* IInv holds in every reachable state of the semaphore. *)
THEOREM Invariance == Spec => []IInv
BY InitOK, StepOK, PTL DEF Spec

(* sema_value stays in range: no waiter takes a unit that is not there,    *)
(* however many threads are resumed for it.                                *)
THEOREM TypeCorrect == Spec => []TypeOK
<1>1. IInv => TypeOK
  BY DEF IInv
<1> QED
  BY <1>1, Invariance, PTL

(* For any number of threads sema_waiters is the number of threads in a    *)
(* wait, so the KASSERT of sema_destroy() holds when nobody waits.         *)
THEOREM WaitersExact == Spec => []WaitersCounted
<1>1. IInv => WaitersCounted
  BY DEF IInv
<1> QED
  BY <1>1, Invariance, PTL

(* For any number of threads, posts, timeouts and overtaking callers:      *)
(* while a thread is left on the queue, as many threads are awake as the   *)
(* value has units.                                                        *)
THEOREM NoPostIsLost == Spec => []NoLostPost
<1>1. IInv => NoLostPost
  BY DEF IInv
<1> QED
  BY <1>1, Invariance, PTL

=============================================================================
