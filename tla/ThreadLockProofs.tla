-------------------------- MODULE ThreadLockProofs --------------------------
(***************************************************************************)
(* Proofs that thread_lock() delivers the thread lock and that the spin     *)
(* mutexes account for every hold, for any number of CPUs and mutexes; and  *)
(* that spinlock_enter() and spinlock_exit() balance.                       *)
(***************************************************************************)
EXTENDS ThreadLock, FiniteSetTheorems, TLAPS

(* The mutex a CPU works on is a container's, except where thread_lock()   *)
(* only tries and spins: there it may be blocked_lock.                     *)
WorkingInv ==
  \A c \in Cpus :
    pc[c] \in {"t_check", "s_obtain", "s_spin", "set_unlock", "block_unlock"}
      => m[c] \in Locks

IInv ==
  /\ TypeOK
  /\ ThreadLockHeld
  /\ SpinAccounting
  /\ WorkingInv
-----------------------------------------------------------------------------

(* An acquisition records one more hold, of a container's mutex: nobody    *)
(* acquires blocked_lock.                                                  *)
LEMMA AcquireRecords ==
  ASSUME TypeOK, SpinAccounting, NEW c \in Cpus, NEW l \in AllLocks, Acquire(c, l)
  PROVE  /\ l \in Locks
         /\ mtx_lock' \in [AllLocks -> Cpus \cup {MTX_UNOWNED, DEADC0DE}]
         /\ mtx_recurse' \in [AllLocks -> Nat]
         /\ mtx_lock'[blocked_lock] = DEADC0DE
         /\ \A k \in Locks : mtx_lock'[k] \notin Cpus => mtx_recurse'[k] = 0
         /\ \A k \in Locks, d \in Cpus :
              Recorded(d, k)' = IF d = c /\ k = l THEN Recorded(d, k) + 1
                                                  ELSE Recorded(d, k)
<1> USE ThreadLockAssumption DEF TypeOK, AllLocks
<1>1. l \in Locks  BY DEF Acquire, SpinAccounting
<1>2. CASE /\ mtx_lock[l] = MTX_UNOWNED
           /\ mtx_lock' = [mtx_lock EXCEPT ![l] = c]
           /\ UNCHANGED mtx_recurse
  <2>1. mtx_lock' \in [AllLocks -> Cpus \cup {MTX_UNOWNED, DEADC0DE}]
    BY <1>2
  <2>2. mtx_lock'[blocked_lock] = DEADC0DE
    BY <1>1, <1>2 DEF SpinAccounting
  <2>3. mtx_recurse[l] = 0
    BY <1>1, <1>2 DEF SpinAccounting
  <2>4. \A k \in Locks : mtx_lock'[k] = IF k = l THEN c ELSE mtx_lock[k]
    BY <1>2
  <2>5. \A k \in Locks : mtx_lock'[k] \notin Cpus => mtx_recurse'[k] = 0
    BY <1>2, <2>4 DEF SpinAccounting
  <2>6. ASSUME NEW k \in Locks, NEW d \in Cpus
        PROVE  Recorded(d, k)' = IF d = c /\ k = l THEN Recorded(d, k) + 1
                                                   ELSE Recorded(d, k)
    BY <1>2, <2>3, <2>4 DEF Recorded
  <2> QED BY <1>1, <1>2, <2>1, <2>2, <2>5, <2>6
<1>3. CASE /\ mtx_lock[l] = c
           /\ mtx_recurse' = [mtx_recurse EXCEPT ![l] = @ + 1]
           /\ UNCHANGED mtx_lock
  <2>1. mtx_recurse' \in [AllLocks -> Nat]
    BY <1>3
  <2>2. \A k \in Locks :
          mtx_recurse'[k] = IF k = l THEN mtx_recurse[k] + 1 ELSE mtx_recurse[k]
    BY <1>3
  <2>3. \A k \in Locks : mtx_lock'[k] \notin Cpus => mtx_recurse'[k] = 0
    BY <1>3, <2>2 DEF SpinAccounting
  <2>4. ASSUME NEW k \in Locks, NEW d \in Cpus
        PROVE  Recorded(d, k)' = IF d = c /\ k = l THEN Recorded(d, k) + 1
                                                   ELSE Recorded(d, k)
    BY <1>3, <2>2 DEF Recorded
  <2>5. mtx_lock'[blocked_lock] = DEADC0DE
    BY <1>3 DEF SpinAccounting
  <2> QED BY <1>1, <1>3, <2>1, <2>3, <2>4, <2>5
<1> QED BY <1>2, <1>3 DEF Acquire

(* A release by the owner records one hold less. *)
LEMMA ReleaseRecords ==
  ASSUME TypeOK, SpinAccounting, NEW c \in Cpus, NEW l \in Locks,
         mtx_lock[l] = c, Release(c, l)
  PROVE  /\ mtx_lock' \in [AllLocks -> Cpus \cup {MTX_UNOWNED, DEADC0DE}]
         /\ mtx_recurse' \in [AllLocks -> Nat]
         /\ md_spinlock_count' \in [Cpus -> Int]
         /\ mtx_lock'[blocked_lock] = DEADC0DE
         /\ \A k \in Locks : mtx_lock'[k] \notin Cpus => mtx_recurse'[k] = 0
         /\ \A k \in Locks, d \in Cpus :
              Recorded(d, k)' = IF d = c /\ k = l THEN Recorded(d, k) - 1
                                                  ELSE Recorded(d, k)
<1> USE ThreadLockAssumption DEF TypeOK, AllLocks
<1>1. md_spinlock_count' \in [Cpus -> Int]
  BY DEF Release, spinlock_exit
<1>2. CASE mtx_recurse[l] > 0
  <2>1. /\ mtx_recurse' = [mtx_recurse EXCEPT ![l] = @ - 1]
        /\ UNCHANGED mtx_lock
    BY <1>2 DEF Release
  <2>2. mtx_recurse' \in [AllLocks -> Nat]
    BY <1>2, <2>1
  <2>3. \A k \in Locks :
          mtx_recurse'[k] = IF k = l THEN mtx_recurse[k] - 1 ELSE mtx_recurse[k]
    BY <2>1
  <2>4. \A k \in Locks : mtx_lock'[k] \notin Cpus => mtx_recurse'[k] = 0
    BY <2>1, <2>3 DEF SpinAccounting
  <2>5. ASSUME NEW k \in Locks, NEW d \in Cpus
        PROVE  Recorded(d, k)' = IF d = c /\ k = l THEN Recorded(d, k) - 1
                                                   ELSE Recorded(d, k)
    BY <2>1, <2>3 DEF Recorded
  <2>6. mtx_lock'[blocked_lock] = DEADC0DE
    BY <2>1 DEF SpinAccounting
  <2> QED BY <1>1, <2>1, <2>2, <2>4, <2>5, <2>6
<1>3. CASE ~ (mtx_recurse[l] > 0)
  <2>1. /\ mtx_lock' = [mtx_lock EXCEPT ![l] = MTX_UNOWNED]
        /\ UNCHANGED mtx_recurse
    BY <1>3 DEF Release
  <2>2. mtx_lock' \in [AllLocks -> Cpus \cup {MTX_UNOWNED, DEADC0DE}]
    BY <2>1
  <2>3. mtx_recurse[l] = 0
    BY <1>3
  <2>4. \A k \in Locks : mtx_lock'[k] = IF k = l THEN MTX_UNOWNED ELSE mtx_lock[k]
    BY <2>1
  <2>5. \A k \in Locks : mtx_lock'[k] \notin Cpus => mtx_recurse'[k] = 0
    BY <2>1, <2>3, <2>4 DEF SpinAccounting
  <2>6. ASSUME NEW k \in Locks, NEW d \in Cpus
        PROVE  Recorded(d, k)' = IF d = c /\ k = l THEN Recorded(d, k) - 1
                                                   ELSE Recorded(d, k)
    BY <2>1, <2>3, <2>4 DEF Recorded
  <2>7. mtx_lock'[blocked_lock] = DEADC0DE
    BY <2>1 DEF SpinAccounting
  <2> QED BY <1>1, <2>1, <2>2, <2>5, <2>6, <2>7
<1> QED BY <1>2, <1>3

(* A caller that counts a hold of a mutex owns it. *)
LEMMA CountedIsOwned ==
  ASSUME TypeOK, SpinAccounting, NEW c \in Cpus, NEW l \in Locks, Count(c, l) > 0
  PROVE  mtx_lock[l] = c
BY DEF SpinAccounting, Recorded

(* Whoever has the thread locked owns the mutex that td_lock points at, if *)
(* the mutexes account for the holds.                                      *)
LEMMA HeldIsOwned ==
  TypeOK /\ SpinAccounting /\ (td_lock \in Locks \/ \A c \in Cpus : td_held[c] = 0)
    => \A c \in Cpus :
         td_held[c] > 0 => td_lock \in Locks /\ mtx_lock[td_lock] = c
<1> SUFFICES ASSUME TypeOK, SpinAccounting, NEW c \in Cpus, td_held[c] > 0,
                    td_lock \in Locks \/ \A d \in Cpus : td_held[d] = 0
             PROVE  td_lock \in Locks /\ mtx_lock[td_lock] = c
  OBVIOUS
<1>1. td_lock \in Locks  OBVIOUS
<1>2. Count(c, td_lock) > 0  BY <1>1 DEF Count, TypeOK
<1> QED BY <1>1, <1>2, CountedIsOwned

(* Preservation of ThreadLockHeld by a step of kern_mutex.c that does not  *)
(* move td_lock and gives the thread lock only to a CPU when td_lock is a  *)
(* container's mutex.                                                      *)
LEMMA StillHeld ==
  ASSUME IInv, TypeOK', SpinAccounting', UNCHANGED <<td_lock, blocker>>,
         td_lock \in Locks \/ td_held' = td_held
  PROVE  ThreadLockHeld'
<1>1. (td_lock \in Locks \/ \A c \in Cpus : td_held[c] = 0)'
  BY DEF IInv, ThreadLockHeld, TypeOK
<1>2. (\A c \in Cpus : td_held[c] > 0 => td_lock \in Locks /\ mtx_lock[td_lock] = c)'
  BY <1>1, HeldIsOwned, PTL
<1> QED BY <1>2 DEF IInv, ThreadLockHeld

(* thread_lock()'s try keeps the invariant, whether it takes the mutex,    *)
(* recurses or fails.                                                      *)
LEMMA ThreadObtainStep ==
  ASSUME IInv, NEW c \in Cpus, ThreadObtain(c)
  PROVE  IInv'
<1> USE DEF IInv
<1>1. CASE Acquire(c, m[c]) /\ Goto(c, "t_check") /\ UNCHANGED md_spinlock_count
  <2>1. UNCHANGED <<td_lock, td_held, mtx_held, blocker, m>>
    BY <1>1 DEF ThreadObtain, Goto, holds
  <2>2. m[c] \in AllLocks /\ pc[c] = "t_obtain"
    BY DEF TypeOK, ThreadObtain
  <2>3. pc' = [pc EXCEPT ![c] = "t_check"]  BY <1>1 DEF Goto
  <2>4. m[c] \in Locks  BY <1>1, <2>2, AcquireRecords
  <2>5. TypeOK'  BY <1>1, <2>1, <2>2, <2>3, AcquireRecords DEF TypeOK, Locations
  <2>6. \A d \in Cpus, k \in Locks :
          Count(d, k)' = IF d = c /\ k = m[c] THEN Count(d, k) + 1 ELSE Count(d, k)
    BY <2>1, <2>2, <2>3 DEF Count, TypeOK
  <2>7. SpinAccounting'
    BY <1>1, <2>2, <2>6, AcquireRecords DEF SpinAccounting
  <2>8. ThreadLockHeld'  BY <2>1, <2>5, <2>7, StillHeld
  <2>9. WorkingInv'  BY <2>1, <2>3, <2>4 DEF WorkingInv, TypeOK
  <2> QED BY <2>5, <2>7, <2>8, <2>9
<1>2. CASE spinlock_exit(c) /\ Goto(c, "t_spin") /\ UNCHANGED mutexes
  <2> USE <1>2 DEF ThreadObtain, spinlock_exit, Goto, mutexes, holds, TypeOK, Locations
  <2>1. TypeOK'  OBVIOUS
  <2>2. SpinAccounting'  BY DEF SpinAccounting, Count, Recorded
  <2>3. ThreadLockHeld'  BY DEF ThreadLockHeld
  <2>4. WorkingInv'  BY DEF WorkingInv
  <2> QED BY <2>1, <2>2, <2>3, <2>4
<1> QED BY <1>1, <1>2 DEF ThreadObtain

(* mtx_lock_spin()'s tries keep the invariant.                             *)
LEMMA SpinObtainStep ==
  ASSUME IInv, NEW c \in Cpus, SpinObtain(c)
  PROVE  IInv'
<1> USE DEF IInv
<1>1. pc[c] = "s_obtain" /\ m[c] \in Locks /\ UNCHANGED <<td_lock, td_held, blocker>>
  BY DEF SpinObtain, WorkingInv
<1>2. CASE /\ Acquire(c, m[c]) /\ Goto(c, "caller") /\ UNCHANGED md_spinlock_count
           /\ mtx_held' = [mtx_held EXCEPT ![c][m[c]] = @ + 1]
  <2>1. pc' = [pc EXCEPT ![c] = "caller"] /\ m' = [m EXCEPT ![c] = blocked_lock]
    BY <1>2 DEF Goto
  <2>2. TypeOK'
    BY <1>1, <1>2, <2>1, AcquireRecords DEF TypeOK, Locations, AllLocks
  <2>3. ASSUME NEW d \in Cpus, NEW k \in Locks
        PROVE  Count(d, k)' = IF d = c /\ k = m[c] THEN Count(d, k) + 1
                                                   ELSE Count(d, k)
    <3>1. /\ mtx_held'[d][k] = IF d = c /\ k = m[c] THEN mtx_held[d][k] + 1
                                                    ELSE mtx_held[d][k]
          /\ mtx_held[d][k] \in Nat
      BY <1>1, <1>2 DEF TypeOK
    <3>2. /\ UNCHANGED <<td_lock, td_held>> /\ td_held[d] \in Nat
          /\ pc'[d] = IF d = c THEN "caller" ELSE pc[d]
          /\ d # c => m'[d] = m[d]
      BY <1>1, <2>1 DEF TypeOK
    <3> QED BY <1>1, <3>1, <3>2 DEF Count
  <2>4. SpinAccounting'
    BY <1>1, <1>2, <2>3, AcquireRecords DEF SpinAccounting, AllLocks
  <2>5. ThreadLockHeld'  BY <1>1, <2>2, <2>4, StillHeld
  <2>6. WorkingInv'  BY <2>1 DEF WorkingInv, TypeOK
  <2> QED BY <2>2, <2>4, <2>5, <2>6
<1>3. CASE /\ spinlock_exit(c) /\ Goto(c, "s_spin")
           /\ UNCHANGED <<mutexes, mtx_held>>
  <2> USE <1>1, <1>3 DEF spinlock_exit, Goto, mutexes, TypeOK, Locations
  <2>1. TypeOK'  OBVIOUS
  <2>2. SpinAccounting'  BY DEF SpinAccounting, Count, Recorded
  <2>3. ThreadLockHeld'  BY DEF ThreadLockHeld
  <2>4. WorkingInv'  BY DEF WorkingInv
  <2> QED BY <2>1, <2>2, <2>3, <2>4
<1> QED BY <1>2, <1>3 DEF SpinObtain

(* The second look at td_lock in thread_lock() keeps the invariant: either *)
(* the hold becomes the caller's or it is given up again.                  *)
LEMMA ThreadCheckStep ==
  ASSUME IInv, NEW c \in Cpus, ThreadCheck(c)
  PROVE  IInv'
<1> USE DEF IInv
<1>1. /\ pc[c] = "t_check" /\ m[c] \in Locks
      /\ UNCHANGED <<td_lock, mtx_held, blocker>>
  BY DEF ThreadCheck, WorkingInv
<1>2. CASE /\ m[c] = td_lock /\ Goto(c, "caller")
           /\ td_held' = [td_held EXCEPT ![c] = @ + 1]
           /\ UNCHANGED <<mutexes, md_spinlock_count>>
  <2>1. pc' = [pc EXCEPT ![c] = "caller"] /\ m' = [m EXCEPT ![c] = blocked_lock]
    BY <1>2 DEF Goto
  <2>2. TypeOK'  BY <1>1, <1>2, <2>1 DEF TypeOK, Locations, AllLocks, mutexes
  <2>3. \A d \in Cpus, k \in Locks : Count(d, k)' = Count(d, k)
    BY <1>1, <1>2, <2>1, ThreadLockAssumption DEF Count, TypeOK
  <2>4. SpinAccounting'  BY <1>2, <2>3 DEF SpinAccounting, Recorded, mutexes
  <2>5. ThreadLockHeld'  BY <1>1, <1>2, <2>2, <2>4, StillHeld
  <2>6. WorkingInv'  BY <2>1 DEF WorkingInv, TypeOK
  <2> QED BY <2>2, <2>4, <2>5, <2>6
<1>3. CASE /\ Release(c, m[c]) /\ Goto(c, "t_retry") /\ UNCHANGED td_held
  <2>1. pc' = [pc EXCEPT ![c] = "t_retry"] /\ m' = [m EXCEPT ![c] = blocked_lock]
    BY <1>3 DEF Goto
  <2>2. mtx_lock[m[c]] = c
    <3>1. Count(c, m[c]) > 0  BY <1>1 DEF Count, TypeOK
    <3> QED BY <1>1, <3>1, CountedIsOwned
  <2>3. TypeOK'
    BY <1>1, <1>3, <2>1, <2>2, ReleaseRecords DEF TypeOK, Locations, AllLocks
  <2>4. \A d \in Cpus, k \in Locks :
          Count(d, k)' = IF d = c /\ k = m[c] THEN Count(d, k) - 1 ELSE Count(d, k)
    BY <1>1, <1>3, <2>1 DEF Count, TypeOK
  <2>5. SpinAccounting'
    BY <1>1, <1>3, <2>2, <2>4, ReleaseRecords DEF SpinAccounting
  <2>6. ThreadLockHeld'  BY <1>1, <1>3, <2>3, <2>5, StillHeld
  <2>7. WorkingInv'  BY <2>1 DEF WorkingInv, TypeOK
  <2> QED BY <2>3, <2>5, <2>6, <2>7
<1> QED BY <1>2, <1>3 DEF ThreadCheck

(* thread_unlock() keeps the invariant. *)
LEMMA thread_unlockStep ==
  ASSUME IInv, NEW c \in Cpus, thread_unlock(c)
  PROVE  IInv'
<1> USE DEF IInv
<1>1. /\ td_lock \in Locks /\ mtx_lock[td_lock] = c /\ td_held[c] > 0
      /\ Release(c, td_lock) /\ td_held' = [td_held EXCEPT ![c] = @ - 1]
      /\ UNCHANGED <<td_lock, m, pc, mtx_held, blocker>>
  BY DEF thread_unlock, ThreadLockHeld
<1>2. TypeOK'  BY <1>1, ReleaseRecords DEF TypeOK
<1>3. \A d \in Cpus, k \in Locks :
        Count(d, k)' = IF d = c /\ k = td_lock THEN Count(d, k) - 1 ELSE Count(d, k)
  BY <1>1 DEF Count, TypeOK
<1>4. SpinAccounting'  BY <1>1, <1>3, ReleaseRecords DEF SpinAccounting
<1>5. ThreadLockHeld'  BY <1>1, <1>2, <1>4, StillHeld
<1>6. WorkingInv'  BY <1>1 DEF WorkingInv
<1> QED BY <1>2, <1>4, <1>5, <1>6

(* mtx_unlock_spin() keeps the invariant. *)
LEMMA mtx_unlock_spinStep ==
  ASSUME IInv, NEW c \in Cpus, NEW l \in Locks, mtx_unlock_spin(c, l)
  PROVE  IInv'
<1> USE DEF IInv
<1>1. /\ mtx_held[c][l] > 0 /\ Release(c, l)
      /\ mtx_held' = [mtx_held EXCEPT ![c][l] = @ - 1]
      /\ UNCHANGED <<td_lock, m, pc, td_held, blocker>>
  BY DEF mtx_unlock_spin
<1>2. mtx_lock[l] = c
  <2>1. Count(c, l) > 0  BY <1>1 DEF Count, TypeOK
  <2> QED BY <2>1, CountedIsOwned
<1>3. TypeOK'  BY <1>1, <1>2, ReleaseRecords DEF TypeOK
<1>4. ASSUME NEW d \in Cpus, NEW k \in Locks
      PROVE  Count(d, k)' = IF d = c /\ k = l THEN Count(d, k) - 1 ELSE Count(d, k)
  <2>1. /\ mtx_held'[d][k] = IF d = c /\ k = l THEN mtx_held[d][k] - 1
                                               ELSE mtx_held[d][k]
        /\ mtx_held[d][k] \in Nat
    BY <1>1 DEF TypeOK
  <2>2. UNCHANGED <<td_lock, m, pc, td_held>> /\ td_held[d] \in Nat
    BY <1>1 DEF TypeOK
  <2> QED BY <2>1, <2>2 DEF Count
<1>5. SpinAccounting'  BY <1>1, <1>2, <1>4, ReleaseRecords DEF SpinAccounting
<1>6. ThreadLockHeld'  BY <1>1, <1>3, <1>5, StillHeld
<1>7. WorkingInv'  BY <1>1 DEF WorkingInv
<1> QED BY <1>3, <1>5, <1>6, <1>7

(* Releasing the old mutex at the end of thread_lock_set() and             *)
(* thread_lock_block() keeps the invariant.                                *)
LEMMA UnlockOldStep ==
  ASSUME IInv, NEW c \in Cpus, UnlockOld(c)
  PROVE  IInv'
<1> USE DEF IInv
<1>1. /\ pc[c] \in {"set_unlock", "block_unlock"} /\ m[c] \in Locks
      /\ pc' = [pc EXCEPT ![c] = "caller"] /\ m' = [m EXCEPT ![c] = blocked_lock]
      /\ Release(c, m[c]) /\ UNCHANGED <<td_lock, td_held, mtx_held, blocker>>
  BY DEF UnlockOld, Goto, holds, WorkingInv
<1>2. mtx_lock[m[c]] = c
  <2>1. Count(c, m[c]) > 0  BY <1>1 DEF Count, TypeOK
  <2> QED BY <1>1, <2>1, CountedIsOwned
<1>3. TypeOK'
  BY <1>1, <1>2, ReleaseRecords DEF TypeOK, Locations, AllLocks
<1>4. \A d \in Cpus, k \in Locks :
        Count(d, k)' = IF d = c /\ k = m[c] THEN Count(d, k) - 1 ELSE Count(d, k)
  BY <1>1 DEF Count, TypeOK
<1>5. SpinAccounting'  BY <1>1, <1>2, <1>4, ReleaseRecords DEF SpinAccounting
<1>6. ThreadLockHeld'  BY <1>1, <1>3, <1>5, StillHeld
<1>7. WorkingInv'  BY <1>1 DEF WorkingInv, TypeOK
<1> QED BY <1>3, <1>5, <1>6, <1>7

(* Entering thread_lock() keeps the invariant.                             *)
LEMMA thread_lockStep ==
  ASSUME IInv, NEW c \in Cpus, thread_lock(c)
  PROVE  IInv'
<1> USE ThreadLockAssumption DEF IInv, TypeOK, AllLocks, Locations,
      thread_lock, Goto, mutexes, holds
<1>1. TypeOK'  OBVIOUS
<1>2. ThreadLockHeld'  BY DEF ThreadLockHeld
<1>3. SpinAccounting'  BY DEF SpinAccounting, Count, Recorded
<1>4. WorkingInv'  BY DEF WorkingInv
<1> QED BY ONLY <1>1, <1>2, <1>3, <1>4 DEF IInv

(* Reading td_lock in thread_lock() keeps the invariant.                   *)
LEMMA ThreadRetryStep ==
  ASSUME IInv, NEW c \in Cpus, ThreadRetry(c)
  PROVE  IInv'
<1> USE ThreadLockAssumption DEF IInv, TypeOK, AllLocks, Locations,
      ThreadRetry, spinlock_enter, mutexes, holds
<1>1. TypeOK'  OBVIOUS
<1>2. ThreadLockHeld'  BY DEF ThreadLockHeld
<1>3. SpinAccounting'  BY DEF SpinAccounting, Count, Recorded
<1>4. WorkingInv'  BY DEF WorkingInv
<1> QED BY ONLY <1>1, <1>2, <1>3, <1>4 DEF IInv

(* The head of the spin loop of thread_lock() keeps the invariant.         *)
LEMMA ThreadSpinStep ==
  ASSUME IInv, NEW c \in Cpus, ThreadSpin(c)
  PROVE  IInv'
<1> USE ThreadLockAssumption DEF IInv, TypeOK, AllLocks, Locations,
      ThreadSpin, spinlock_enter, Goto, mutexes, holds
<1>1. TypeOK'  OBVIOUS
<1>2. ThreadLockHeld'  BY DEF ThreadLockHeld
<1>3. SpinAccounting'  BY DEF SpinAccounting, Count, Recorded
<1>4. WorkingInv'  BY DEF WorkingInv
<1> QED BY ONLY <1>1, <1>2, <1>3, <1>4 DEF IInv

(* Noticing in thread_lock() that td_lock moved keeps the invariant.       *)
LEMMA ThreadMovedStep ==
  ASSUME IInv, NEW c \in Cpus, ThreadMoved(c)
  PROVE  IInv'
<1> USE ThreadLockAssumption DEF IInv, TypeOK, AllLocks, Locations,
      ThreadMoved, Goto, mutexes, holds
<1>1. TypeOK'  OBVIOUS
<1>2. ThreadLockHeld'  BY DEF ThreadLockHeld
<1>3. SpinAccounting'  BY DEF ThreadLockHeld, SpinAccounting, Count, Recorded
<1>4. WorkingInv'  BY DEF WorkingInv
<1> QED BY ONLY <1>1, <1>2, <1>3, <1>4 DEF IInv

(* Pointing td_lock at blocked_lock in thread_lock_block() keeps the       *)
(* invariant: the caller was the only one to have the thread locked.       *)
LEMMA thread_lock_blockStep ==
  ASSUME IInv, NEW c \in Cpus, thread_lock_block(c)
  PROVE  IInv'
<1> USE ThreadLockAssumption DEF IInv, TypeOK, AllLocks, Locations,
      thread_lock_block, mutexes
<1>1. TypeOK'  OBVIOUS
<1>2. ThreadLockHeld'  BY DEF ThreadLockHeld
<1>3. SpinAccounting'  BY DEF SpinAccounting, Count, Recorded
<1>4. WorkingInv'  BY DEF ThreadLockHeld, WorkingInv
<1> QED BY ONLY <1>1, <1>2, <1>3, <1>4 DEF IInv

(* The spin loop of _mtx_lock_spin_cookie() keeps the invariant.           *)
LEMMA SpinWaitStep ==
  ASSUME IInv, NEW c \in Cpus, SpinWait(c)
  PROVE  IInv'
<1> USE ThreadLockAssumption DEF IInv, TypeOK, AllLocks, Locations,
      SpinWait, spinlock_enter, Goto, mutexes, holds
<1>1. TypeOK'  OBVIOUS
<1>2. ThreadLockHeld'  BY DEF ThreadLockHeld
<1>3. SpinAccounting'  BY DEF SpinAccounting, Count, Recorded
<1>4. WorkingInv'  BY DEF WorkingInv
<1> QED BY ONLY <1>1, <1>2, <1>3, <1>4 DEF IInv

(* Entering mtx_lock_spin() keeps the invariant.                           *)
LEMMA mtx_lock_spinStep ==
  ASSUME IInv, NEW c \in Cpus, NEW l \in Locks, mtx_lock_spin(c, l)
  PROVE  IInv'
<1> USE ThreadLockAssumption DEF IInv, TypeOK, AllLocks, Locations,
      mtx_lock_spin, spinlock_enter, mutexes, holds
<1>1. TypeOK'  OBVIOUS
<1>2. ThreadLockHeld'  BY DEF ThreadLockHeld
<1>3. SpinAccounting'  BY DEF SpinAccounting, Count, Recorded
<1>4. WorkingInv'  BY DEF WorkingInv
<1> QED BY ONLY <1>1, <1>2, <1>3, <1>4 DEF IInv

(* thread_lock_unblock() keeps the invariant: it makes the mutex that the  *)
(* caller owns the thread lock.                                            *)
LEMMA thread_lock_unblockStep ==
  ASSUME IInv, NEW c \in Cpus, NEW l \in Locks, thread_lock_unblock(c, l)
  PROVE  IInv'
<1> USE ThreadLockAssumption DEF IInv, TypeOK, AllLocks, Locations,
      thread_lock_unblock, mutexes
<1>1. TypeOK'  OBVIOUS
<1>2. ThreadLockHeld'  BY DEF ThreadLockHeld, SpinAccounting, Count, Recorded, WorkingInv
<1>3. SpinAccounting'  BY DEF ThreadLockHeld, SpinAccounting, Count, Recorded
<1>4. WorkingInv'  BY DEF WorkingInv
<1> QED BY ONLY <1>1, <1>2, <1>3, <1>4 DEF IInv

(* Moving td_lock in thread_lock_set() keeps the invariant.                *)
LEMMA thread_lock_setStep ==
  ASSUME IInv, NEW c \in Cpus, NEW l \in Locks, thread_lock_set(c, l)
  PROVE  IInv'
<1> USE ThreadLockAssumption DEF IInv, TypeOK, AllLocks, Locations,
      thread_lock_set, mutexes
<1>1. TypeOK'  OBVIOUS
<1>2. ThreadLockHeld'  BY DEF ThreadLockHeld, SpinAccounting, Count, Recorded, WorkingInv
<1>3. SpinAccounting'  BY DEF ThreadLockHeld, SpinAccounting, Count, Recorded
<1>4. WorkingInv'  BY DEF ThreadLockHeld, WorkingInv
<1> QED BY ONLY <1>1, <1>2, <1>3, <1>4 DEF IInv

(* The invariant holds after mutex_init(). *)
LEMMA InitOK == Init => IInv
<1> SUFFICES ASSUME Init PROVE IInv
  OBVIOUS
<1> USE ThreadLockAssumption DEF Init, AllLocks
<1>1. TypeOK  BY DEF TypeOK, Locations
<1>2. ThreadLockHeld  BY DEF ThreadLockHeld
<1>3. SpinAccounting  BY DEF SpinAccounting, Count, Recorded
<1>4. WorkingInv  BY DEF WorkingInv
<1> QED BY ONLY <1>1, <1>2, <1>3, <1>4 DEF IInv

(* Every step of kern_mutex.c's spin mutexes and thread locks, and a       *)
(* stuttering step, keeps the invariant.                                   *)
LEMMA StepOK == IInv /\ [Next]_vars => IInv'
<1> SUFFICES ASSUME IInv, [Next]_vars PROVE IInv'
  OBVIOUS
<1>1. ASSUME NEW c \in Cpus,
             \/ thread_lock(c) \/ ThreadRetry(c) \/ ThreadObtain(c)
             \/ ThreadSpin(c) \/ ThreadMoved(c) \/ ThreadCheck(c)
             \/ thread_unlock(c) \/ thread_lock_block(c) \/ UnlockOld(c)
             \/ SpinObtain(c) \/ SpinWait(c)
      PROVE  IInv'
  BY <1>1, thread_lockStep, ThreadRetryStep, ThreadObtainStep, ThreadSpinStep,
     ThreadMovedStep, ThreadCheckStep, thread_unlockStep, thread_lock_blockStep,
     UnlockOldStep, SpinObtainStep, SpinWaitStep
<1>2. ASSUME NEW c \in Cpus, NEW l \in Locks,
             \/ mtx_lock_spin(c, l) \/ mtx_unlock_spin(c, l)
             \/ thread_lock_unblock(c, l) \/ thread_lock_set(c, l)
      PROVE  IInv'
  BY <1>2, mtx_lock_spinStep, mtx_unlock_spinStep, thread_lock_unblockStep,
     thread_lock_setStep
<1>3. CASE UNCHANGED vars
  BY <1>3 DEF vars, IInv, TypeOK, ThreadLockHeld, SpinAccounting, Count, Recorded,
              WorkingInv
<1> QED BY <1>1, <1>2, <1>3 DEF Next

(* The inductive invariant holds in every reachable state. *)
THEOREM Invariance == Spec => []IInv
BY InitOK, StepOK, PTL DEF Spec

(* The type invariant of the model of thread_lock() and the spin mutexes,  *)
(* for any sets of CPUs and containers.                                    *)
THEOREM TypeCorrect == Spec => []TypeOK
<1>1. IInv => TypeOK  BY DEF IInv
<1> QED BY <1>1, Invariance, PTL

(* After thread_lock() returns, and until the caller gives the thread lock *)
(* up, td_lock points at a mutex that the caller owns, whoever moves it    *)
(* with thread_lock_set(), thread_lock_block() and thread_lock_unblock().  *)
THEOREM ThreadIsLocked == Spec => []ThreadLockHeld
<1>1. IInv => ThreadLockHeld  BY DEF IInv
<1> QED BY <1>1, Invariance, PTL

(* The spin mutexes of kern_mutex.c record exactly the holds of their      *)
(* owners, and blocked_lock is never acquired.                             *)
THEOREM SpinHoldsAccounted == Spec => []SpinAccounting
<1>1. IInv => SpinAccounting  BY DEF IInv
<1> QED BY <1>1, Invariance, PTL

-----------------------------------------------------------------------------
(***************************************************************************)
(* The nesting of spinlock_enter().                                        *)
(***************************************************************************)

Trying(c) == IF pc[c] \in {"t_obtain", "s_obtain"} THEN 1 ELSE 0

BalanceInv ==
  \A c \in Cpus :
    /\ IsFiniteSet(SpinHolds(c))
    /\ md_spinlock_count[c] = Cardinality(SpinHolds(c)) + Trying(c)

(* One more hold of a mutex is one more hold of the CPU. *)
LEMMA HoldsUp ==
  ASSUME NEW c \in Cpus, NEW l \in Locks, IsFiniteSet(SpinHolds(c)),
         \A k \in Locks : Count(c, k) \in Nat,
         \A k \in Locks : Count(c, k)' = IF k = l THEN Count(c, k) + 1 ELSE Count(c, k)
  PROVE  /\ IsFiniteSet(SpinHolds(c)')
         /\ Cardinality(SpinHolds(c)') = Cardinality(SpinHolds(c)) + 1
<1> DEFINE x == <<l, Count(c, l) + 1>>
<1>1. x \notin SpinHolds(c)
  BY DEF SpinHolds
<1>2. SpinHolds(c)' = SpinHolds(c) \cup {x}
  BY DEF SpinHolds
<1> QED BY <1>1, <1>2, FS_AddElement, FS_CardinalityType

(* One hold of a mutex less is one hold of the CPU less. *)
LEMMA HoldsDown ==
  ASSUME NEW c \in Cpus, NEW l \in Locks, IsFiniteSet(SpinHolds(c)), Count(c, l) > 0,
         \A k \in Locks : Count(c, k) \in Nat,
         \A k \in Locks : Count(c, k)' = IF k = l THEN Count(c, k) - 1 ELSE Count(c, k)
  PROVE  /\ IsFiniteSet(SpinHolds(c)')
         /\ Cardinality(SpinHolds(c)') = Cardinality(SpinHolds(c)) - 1
<1> DEFINE x == <<l, Count(c, l)>>
<1>1. x \in SpinHolds(c)
  BY DEF SpinHolds
<1>2. SpinHolds(c)' = SpinHolds(c) \ {x}
  BY DEF SpinHolds
<1> QED BY <1>1, <1>2, FS_RemoveElement, FS_CardinalityType

(* Counts are numbers. *)
LEMMA CountType ==
  ASSUME TypeOK, NEW c \in Cpus, NEW l \in Locks
  PROVE  Count(c, l) \in Nat /\ Recorded(c, l) \in Nat
BY DEF TypeOK, Count, Recorded, AllLocks

(* What a CPU does leaves the holds and the nesting of the others alone,   *)
(* and its own balanced.                                                   *)
LEMMA BalanceStep ==
  ASSUME IInv, BalanceInv, NEW c \in Cpus,
         \A d \in Cpus : d # c =>
           /\ pc'[d] = pc[d] /\ md_spinlock_count'[d] = md_spinlock_count[d]
           /\ \A k \in Locks : Count(d, k)' = Count(d, k),
         \/ /\ \A k \in Locks : Count(c, k)' = Count(c, k)
            /\ md_spinlock_count'[c] - Trying(c)' = md_spinlock_count[c] - Trying(c)
         \/ \E l \in Locks :
              /\ \A k \in Locks : Count(c, k)' = IF k = l THEN Count(c, k) + 1 ELSE Count(c, k)
              /\ md_spinlock_count'[c] - Trying(c)' = md_spinlock_count[c] - Trying(c) + 1
         \/ \E l \in Locks :
              /\ Count(c, l) > 0
              /\ \A k \in Locks : Count(c, k)' = IF k = l THEN Count(c, k) - 1 ELSE Count(c, k)
              /\ md_spinlock_count'[c] - Trying(c)' = md_spinlock_count[c] - Trying(c) - 1,
         md_spinlock_count' \in [Cpus -> Int]
  PROVE  BalanceInv'
<1>1. ASSUME NEW d \in Cpus, d # c
      PROVE  (/\ IsFiniteSet(SpinHolds(d))
              /\ md_spinlock_count[d] = Cardinality(SpinHolds(d)) + Trying(d))'
  <2>1. SpinHolds(d)' = SpinHolds(d)
    BY <1>1 DEF SpinHolds
  <2>2. Trying(d)' = Trying(d)
    BY <1>1 DEF Trying
  <2> QED BY <1>1, <2>1, <2>2 DEF BalanceInv
<1>2. /\ IsFiniteSet(SpinHolds(c)) /\ md_spinlock_count[c] = Cardinality(SpinHolds(c)) + Trying(c)
      /\ \A k \in Locks : Count(c, k) \in Nat
      /\ Trying(c) \in Int /\ Trying(c)' \in Int
      /\ md_spinlock_count[c] \in Int /\ md_spinlock_count'[c] \in Int
      /\ Cardinality(SpinHolds(c)) \in Int
  BY CountType, FS_CardinalityType DEF BalanceInv, Trying, IInv, TypeOK
<1>3. (IsFiniteSet(SpinHolds(c)) /\ md_spinlock_count[c] = Cardinality(SpinHolds(c)) + Trying(c))'
  <2>1. CASE /\ \A k \in Locks : Count(c, k)' = Count(c, k)
             /\ md_spinlock_count'[c] - Trying(c)' = md_spinlock_count[c] - Trying(c)
    <3>1. SpinHolds(c)' = SpinHolds(c)
      BY <2>1 DEF SpinHolds
    <3> QED BY <1>2, <2>1, <3>1
  <2>2. ASSUME NEW l \in Locks,
               \A k \in Locks : Count(c, k)' = IF k = l THEN Count(c, k) + 1 ELSE Count(c, k),
               md_spinlock_count'[c] - Trying(c)' = md_spinlock_count[c] - Trying(c) + 1
        PROVE  (/\ IsFiniteSet(SpinHolds(c))
                /\ md_spinlock_count[c] = Cardinality(SpinHolds(c)) + Trying(c))'
    <3>1. IsFiniteSet(SpinHolds(c)') /\ Cardinality(SpinHolds(c)') = Cardinality(SpinHolds(c)) + 1
      BY <1>2, <2>2, HoldsUp
    <3> QED BY <1>2, <2>2, <3>1
  <2>3. ASSUME NEW l \in Locks, Count(c, l) > 0,
               \A k \in Locks : Count(c, k)' = IF k = l THEN Count(c, k) - 1 ELSE Count(c, k),
               md_spinlock_count'[c] - Trying(c)' = md_spinlock_count[c] - Trying(c) - 1
        PROVE  (/\ IsFiniteSet(SpinHolds(c))
                /\ md_spinlock_count[c] = Cardinality(SpinHolds(c)) + Trying(c))'
    <3>1. IsFiniteSet(SpinHolds(c)') /\ Cardinality(SpinHolds(c)') = Cardinality(SpinHolds(c)) - 1
      BY <1>2, <2>3, HoldsDown
    <3> QED BY <1>2, <2>3, <3>1
  <2> QED BY <2>1, <2>2, <2>3
<1> QED BY <1>1, <1>3 DEF BalanceInv


(* A step of CPU c that leaves the mutexes alone changes nobody's holds,   *)
(* because the mutexes record them all.                                    *)
LEMMA QuietBalance ==
  ASSUME IInv, IInv', BalanceInv, NEW c \in Cpus, UNCHANGED mutexes,
         \A d \in Cpus : d # c =>
           pc'[d] = pc[d] /\ md_spinlock_count'[d] = md_spinlock_count[d],
         md_spinlock_count'[c] - Trying(c)' = md_spinlock_count[c] - Trying(c)
  PROVE  BalanceInv'
<1>1. \A d \in Cpus, k \in Locks : Count(d, k)' = Count(d, k)
  BY DEF IInv, SpinAccounting, Recorded, mutexes
<1>2. md_spinlock_count' \in [Cpus -> Int]
  BY DEF IInv, TypeOK
<1> QED BY <1>1, <1>2, BalanceStep

(* A CPU that acquires the mutex it was trying has one hold more.          *)
LEMMA AcquireBalance ==
  ASSUME IInv, IInv', BalanceInv, NEW c \in Cpus, Acquire(c, m[c]),
         UNCHANGED md_spinlock_count,
         \A d \in Cpus : d # c => pc'[d] = pc[d],
         Trying(c) = 1, Trying(c)' = 0
  PROVE  BalanceInv'
<1>1. m[c] \in AllLocks /\ TypeOK /\ SpinAccounting
  BY DEF IInv, TypeOK
<1>2. PICK l \in Locks : l = m[c]
  BY <1>1, AcquireRecords
<1>3. \A k \in Locks, d \in Cpus :
        Recorded(d, k)' = IF d = c /\ k = l THEN Recorded(d, k) + 1
                                            ELSE Recorded(d, k)
  BY <1>1, <1>2, AcquireRecords
<1>4. \A k \in Locks, d \in Cpus :
        Count(d, k)' = IF d = c /\ k = l THEN Count(d, k) + 1 ELSE Count(d, k)
  BY <1>3 DEF IInv, SpinAccounting
<1>5. md_spinlock_count' \in [Cpus -> Int] /\ md_spinlock_count[c] \in Int
  BY DEF IInv, TypeOK
<1>6. md_spinlock_count'[c] - Trying(c)' = md_spinlock_count[c] - Trying(c) + 1
  BY <1>5
<1> QED BY <1>4, <1>5, <1>6, BalanceStep

(* A CPU that releases a mutex it holds has one hold less, and one level   *)
(* of spinlock_enter() less.                                               *)
LEMMA ReleaseBalance ==
  ASSUME IInv, IInv', BalanceInv, NEW c \in Cpus, NEW l \in Locks,
         Count(c, l) > 0, Release(c, l),
         \A d \in Cpus : d # c => pc'[d] = pc[d],
         Trying(c) = 0, Trying(c)' = 0
  PROVE  BalanceInv'
<1>1. TypeOK /\ SpinAccounting
  BY DEF IInv
<1>2. mtx_lock[l] = c
  BY <1>1, CountedIsOwned
<1>3. \A k \in Locks, d \in Cpus :
        Recorded(d, k)' = IF d = c /\ k = l THEN Recorded(d, k) - 1
                                            ELSE Recorded(d, k)
  BY <1>1, <1>2, ReleaseRecords
<1>4. \A k \in Locks, d \in Cpus :
        Count(d, k)' = IF d = c /\ k = l THEN Count(d, k) - 1 ELSE Count(d, k)
  BY <1>3 DEF IInv, SpinAccounting
<1>5. /\ md_spinlock_count' \in [Cpus -> Int] /\ md_spinlock_count[c] \in Int
      /\ md_spinlock_count'[c] = md_spinlock_count[c] - 1
      /\ \A d \in Cpus : d # c => md_spinlock_count'[d] = md_spinlock_count[d]
  BY DEF IInv, TypeOK, Release, spinlock_exit
<1>6. md_spinlock_count'[c] - Trying(c)' = md_spinlock_count[c] - Trying(c) - 1
  BY <1>5
<1> QED BY <1>4, <1>5, <1>6, BalanceStep

(* thread_lock(): entering and leaving spinlock sections around the tries  *)
(* keeps the balance.                                                      *)
LEMMA ThreadLockBalance ==
  ASSUME IInv, IInv', BalanceInv, NEW c \in Cpus,
         \/ thread_lock(c) \/ ThreadRetry(c) \/ ThreadObtain(c)
         \/ ThreadSpin(c) \/ ThreadMoved(c) \/ ThreadCheck(c)
  PROVE  BalanceInv'
<1> USE DEF Trying
<1>0. /\ pc \in [Cpus -> Locations] /\ md_spinlock_count \in [Cpus -> Int]
      /\ TypeOK /\ m[c] \in AllLocks
  BY DEF IInv, TypeOK
<1>1. CASE thread_lock(c) \/ ThreadRetry(c) \/ ThreadSpin(c) \/ ThreadMoved(c)
  <2>1. /\ UNCHANGED mutexes
        /\ \A d \in Cpus : d # c =>
             pc'[d] = pc[d] /\ md_spinlock_count'[d] = md_spinlock_count[d]
        /\ md_spinlock_count'[c] - Trying(c)' = md_spinlock_count[c] - Trying(c)
    BY <1>0, <1>1 DEF thread_lock, ThreadRetry, ThreadSpin, ThreadMoved, Goto,
                      spinlock_enter
  <2> QED BY <2>1, QuietBalance
<1>2. CASE ThreadObtain(c) /\ Acquire(c, m[c]) /\ Goto(c, "t_check")
           /\ UNCHANGED md_spinlock_count
  <2>1. /\ \A d \in Cpus : d # c => pc'[d] = pc[d]
        /\ Trying(c) = 1 /\ Trying(c)' = 0
    BY <1>0, <1>2 DEF ThreadObtain, Goto
  <2> QED BY <1>2, <2>1, AcquireBalance
<1>3. CASE ThreadObtain(c) /\ spinlock_exit(c) /\ Goto(c, "t_spin")
           /\ UNCHANGED mutexes
  <2>1. /\ \A d \in Cpus : d # c =>
             pc'[d] = pc[d] /\ md_spinlock_count'[d] = md_spinlock_count[d]
        /\ md_spinlock_count'[c] - Trying(c)' = md_spinlock_count[c] - Trying(c)
    BY <1>0, <1>3 DEF ThreadObtain, Goto, spinlock_exit
  <2> QED BY <1>3, <2>1, QuietBalance
<1>4. CASE ThreadCheck(c) /\ Goto(c, "caller")
           /\ UNCHANGED <<mutexes, md_spinlock_count>>
  <2>1. /\ \A d \in Cpus : d # c =>
             pc'[d] = pc[d] /\ md_spinlock_count'[d] = md_spinlock_count[d]
        /\ md_spinlock_count'[c] - Trying(c)' = md_spinlock_count[c] - Trying(c)
    BY <1>0, <1>4 DEF ThreadCheck, Goto
  <2> QED BY <1>4, <2>1, QuietBalance
<1>5. CASE ThreadCheck(c) /\ Release(c, m[c]) /\ Goto(c, "t_retry")
  <2>1. /\ \A d \in Cpus : d # c => pc'[d] = pc[d]
        /\ Trying(c) = 0 /\ Trying(c)' = 0
    BY <1>0, <1>5 DEF ThreadCheck, Goto
  <2>2. m[c] \in Locks /\ pc[c] = "t_check"
    BY <1>5 DEF ThreadCheck, IInv, WorkingInv
  <2>3. Count(c, m[c]) > 0
    BY <2>2 DEF Count, IInv, TypeOK
  <2> QED BY <1>5, <2>1, <2>2, <2>3, ReleaseBalance
<1> QED BY <1>1, <1>2, <1>3, <1>4, <1>5 DEF ThreadObtain, ThreadCheck

(* mtx_lock_spin() keeps the balance. *)
LEMMA SpinLockBalance ==
  ASSUME IInv, IInv', BalanceInv, NEW c \in Cpus,
         \/ SpinObtain(c) \/ SpinWait(c) \/ \E l \in Locks : mtx_lock_spin(c, l)
  PROVE  BalanceInv'
<1> USE DEF Trying
<1>0. pc \in [Cpus -> Locations] /\ md_spinlock_count \in [Cpus -> Int]
  BY DEF IInv, TypeOK
<1>1. CASE SpinWait(c) \/ \E l \in Locks : mtx_lock_spin(c, l)
  <2>1. /\ UNCHANGED mutexes
        /\ \A d \in Cpus : d # c =>
             pc'[d] = pc[d] /\ md_spinlock_count'[d] = md_spinlock_count[d]
        /\ md_spinlock_count'[c] - Trying(c)' = md_spinlock_count[c] - Trying(c)
    BY <1>0, <1>1 DEF SpinWait, mtx_lock_spin, Goto, spinlock_enter
  <2> QED BY <2>1, QuietBalance
<1>2. CASE SpinObtain(c) /\ Acquire(c, m[c]) /\ Goto(c, "caller")
           /\ UNCHANGED md_spinlock_count
  <2>1. /\ \A d \in Cpus : d # c => pc'[d] = pc[d]
        /\ Trying(c) = 1 /\ Trying(c)' = 0
    BY <1>0, <1>2 DEF SpinObtain, Goto
  <2> QED BY <1>2, <2>1, AcquireBalance
<1>3. CASE SpinObtain(c) /\ spinlock_exit(c) /\ Goto(c, "s_spin")
           /\ UNCHANGED mutexes
  <2>1. /\ \A d \in Cpus : d # c =>
             pc'[d] = pc[d] /\ md_spinlock_count'[d] = md_spinlock_count[d]
        /\ md_spinlock_count'[c] - Trying(c)' = md_spinlock_count[c] - Trying(c)
    BY <1>0, <1>3 DEF SpinObtain, Goto, spinlock_exit
  <2> QED BY <1>3, <2>1, QuietBalance
<1> QED BY <1>1, <1>2, <1>3 DEF SpinObtain

(* The unlocks keep the balance. *)
LEMMA UnlockBalance ==
  ASSUME IInv, IInv', BalanceInv, NEW c \in Cpus,
         \/ thread_unlock(c) \/ UnlockOld(c) \/ \E l \in Locks : mtx_unlock_spin(c, l)
  PROVE  BalanceInv'
<1>0. pc \in [Cpus -> Locations]
  BY DEF IInv, TypeOK
<1>1. /\ \A d \in Cpus : d # c => pc'[d] = pc[d]
      /\ Trying(c) = 0 /\ Trying(c)' = 0
  BY <1>0 DEF Trying, thread_unlock, UnlockOld, mtx_unlock_spin, Goto
<1>2. PICK l \in Locks : Count(c, l) > 0 /\ Release(c, l)
  <2>1. CASE thread_unlock(c)
    <3>1. td_lock \in Locks /\ td_held[c] > 0 /\ Release(c, td_lock)
      BY <2>1 DEF thread_unlock, IInv, ThreadLockHeld
    <3>2. Count(c, td_lock) > 0
      BY <3>1 DEF Count, IInv, TypeOK
    <3> QED BY <3>1, <3>2
  <2>2. CASE UnlockOld(c)
    <3>1. /\ m[c] \in Locks /\ pc[c] \in {"set_unlock", "block_unlock"}
          /\ Release(c, m[c])
      BY <2>2 DEF UnlockOld, IInv, WorkingInv
    <3>2. Count(c, m[c]) > 0
      BY <3>1 DEF Count, IInv, TypeOK
    <3> QED BY <3>1, <3>2
  <2>3. ASSUME NEW l \in Locks, mtx_unlock_spin(c, l)
        PROVE  Count(c, l) > 0 /\ Release(c, l)
    BY <2>3 DEF mtx_unlock_spin, Count, IInv, TypeOK
  <2> QED BY <2>1, <2>2, <2>3
<1> QED BY <1>1, <1>2, ReleaseBalance

(* Moving td_lock passes holds on and keeps the balance. *)
LEMMA MoveBalance ==
  ASSUME IInv, IInv', BalanceInv, NEW c \in Cpus,
         \/ thread_lock_block(c)
         \/ \E l \in Locks : thread_lock_unblock(c, l) \/ thread_lock_set(c, l)
  PROVE  BalanceInv'
<1>0. pc \in [Cpus -> Locations] /\ md_spinlock_count \in [Cpus -> Int]
  BY DEF IInv, TypeOK
<1>1. /\ UNCHANGED mutexes
      /\ \A d \in Cpus : d # c =>
           pc'[d] = pc[d] /\ md_spinlock_count'[d] = md_spinlock_count[d]
      /\ md_spinlock_count'[c] - Trying(c)' = md_spinlock_count[c] - Trying(c)
  BY <1>0 DEF Trying, thread_lock_block, thread_lock_unblock, thread_lock_set
<1> QED BY <1>1, QuietBalance

(* After mutex_init() nobody holds a mutex and interrupts are on. *)
LEMMA InitBalance == Init => BalanceInv
<1> SUFFICES ASSUME Init, NEW c \in Cpus
             PROVE  /\ IsFiniteSet(SpinHolds(c))
                    /\ md_spinlock_count[c] = Cardinality(SpinHolds(c)) + Trying(c)
  BY DEF BalanceInv
<1>1. \A k \in Locks : Count(c, k) = 0
  BY ThreadLockAssumption DEF Init, Count, AllLocks
<1>2. SpinHolds(c) = {}
  BY <1>1 DEF SpinHolds
<1>3. Trying(c) = 0 /\ md_spinlock_count[c] = 0
  BY DEF Init, Trying
<1> QED BY <1>2, <1>3, FS_EmptySet

(* Every step keeps the balance. *)
LEMMA StepBalance == IInv /\ IInv' /\ BalanceInv /\ [Next]_vars => BalanceInv'
<1> SUFFICES ASSUME IInv, IInv', BalanceInv, [Next]_vars PROVE BalanceInv'
  OBVIOUS
<1>1. CASE Next
  BY <1>1, ThreadLockBalance, SpinLockBalance, UnlockBalance, MoveBalance DEF Next
<1>2. CASE UNCHANGED vars
  BY <1>2 DEF vars, BalanceInv, SpinHolds, Count, Trying
<1> QED BY <1>1, <1>2

(* On every CPU spinlock_enter() and spinlock_exit() balance: the nesting  *)
(* is the number of the CPU's holds, plus one where it tries a mutex.      *)
THEOREM SpinlocksBalance == Spec => []SpinlockBalance
<1>1. Spec => []BalanceInv
  BY Invariance, InitBalance, StepBalance, PTL DEF Spec
<1>2. BalanceInv => SpinlockBalance
  BY DEF BalanceInv, SpinlockBalance, Trying
<1> QED BY <1>1, <1>2, PTL

=============================================================================
