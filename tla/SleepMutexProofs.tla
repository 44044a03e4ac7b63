-------------------------- MODULE SleepMutexProofs --------------------------
(***************************************************************************)
(* Proofs that SleepMutex keeps its invariants and implements AbstractLock, *)
(* for every set of threads, recursable or not, and any recursion bound.    *)
(***************************************************************************)
EXTENDS SleepMutex, TLAPS

(* Where a thread holds the turnstile chain's spin lock. *)
ChainHeld == {"tc_read", "tc_running", "tc_cmpset", "tc_wait",
              "un_broadcast", "un_release", "un_unpend"}

(* Where a thread waits for a mutex that it does not own. *)
Waiting == {"obtain", "spin", "trywait", "tc_read", "tc_running",
            "tc_cmpset", "tc_wait", "blocked"}

(* Where a thread is giving up a mutex that it still owns. *)
Unlocking == {"unlock_sleep", "un_chain", "un_broadcast", "un_release"}

Contested == "MTX_CONTESTED" \in mtx_lock.flags

(* The chain lock is held exactly where the code says it is. *)
ChainInv ==
  \A t \in Threads : pc[t] \in ChainHeld <=> tc_lock = t

(* The turnstile's queues hold exactly the inhibited threads. *)
BlockInv ==
  /\ ts_blocked \cap ts_pending = {}
  /\ \A t \in Threads : td_state[t] = "lock" <=> t \in ts_blocked \cup ts_pending
  /\ \A t \in ts_blocked \cup ts_pending : pc[t] = "blocked"

(* What each location says about ownership. *)
OwnerInv ==
  /\ mtx_lock.owner \notin Threads => mtx_lock.flags = {}
  /\ mtx_lock.owner \notin Threads => mtx_recurse = 0
  /\ mtx_lock.owner = MTX_DESTROYED => \A t \in Threads : pc[t] = "caller"
  /\ \A t \in Threads :
       /\ pc[t] \in Waiting => mtx_lock.owner # t
       /\ pc[t] \in Unlocking => mtx_lock.owner = t
       /\ pc[t] = "un_unpend" => td_locks[t] = 1
       /\ pc[t] = "unlock_sleep" => mtx_lock.flags # {}
       /\ pc[t] \in {"un_chain", "un_broadcast", "un_release"} =>
            mtx_recurse = 0 /\ Contested

(* MTX_CONTESTED is set only if a waiter is, or is about to be, on the     *)
(* turnstile, or the owner has just taken the waiters off it; and it stays *)
(* set while a thread under the chain lock counts on it.                   *)
ContestedInv ==
  /\ Contested =>
       \/ ts_blocked # {}
       \/ \E t \in Threads : pc[t] = "tc_wait"
       \/ \E t \in Threads : pc[t] = "un_release"
  /\ \A t \in Threads :
       /\ pc[t] = "tc_wait" => Contested
       /\ pc[t] \in {"tc_running", "tc_cmpset"} =>
            /\ v[t].owner \in Threads \ {t}
            /\ "MTX_CONTESTED" \in v[t].flags => Contested

(* A waker owns the turnstile it emptied until it has woken everybody. *)
PendingInv ==
  /\ \A t \in Threads :
       pc[t] \in {"un_release", "un_unpend"} =>
         ts_pending # {} /\ ts_owner = t /\ ts_blocked = {}
  /\ ts_pending # {} =>
       \E t \in Threads : pc[t] \in {"un_release", "un_unpend"}

IInv ==
  /\ TypeOK
  /\ HoldAccounting
  /\ NoStrandedWaiter
  /\ ChainInv
  /\ BlockInv
  /\ OwnerInv
  /\ ContestedInv
  /\ PendingInv
-----------------------------------------------------------------------------

(* mtx_lock() (mutex.h, __mtx_lock) keeps the invariant, whether its       *)
(* compare-and-set takes the mutex or fails.                               *)
LEMMA LockStep ==
  ASSUME IInv, NEW t \in Threads, Lock(t)
  PROVE  IInv'
<1> USE SleepMutexAssumption DEF IInv, TypeOK, Word, Unowned, Flags, Locations,
             Lock, MayLock, ObtainLock, At, Goto, turnstile
<1>1. TypeOK'  OBVIOUS
<1>2. HoldAccounting'  BY DEF HoldAccounting, Holds
<1>3. NoStrandedWaiter'  BY DEF NoStrandedWaiter
<1>4. ChainInv'  BY DEF ChainInv, ChainHeld
<1>5. BlockInv'  BY DEF BlockInv
<1>6. OwnerInv'  BY DEF OwnerInv, Contested, Waiting, Unlocking
<1>7. ContestedInv'  BY DEF ContestedInv, Contested
<1>8. PendingInv'  BY DEF PendingInv
<1> QED BY ONLY <1>1, <1>2, <1>3, <1>4, <1>5, <1>6, <1>7, <1>8 DEF IInv

(* mtx_trylock() (_mtx_trylock_flags_) keeps the invariant, whether it     *)
(* recurses or takes the mutex.                                            *)
LEMMA TrylockStep ==
  ASSUME IInv, NEW t \in Threads, Trylock(t)
  PROVE  IInv'
<1> USE SleepMutexAssumption DEF IInv, TypeOK, Word, Unowned, Flags, Locations,
             Trylock, ObtainLock, Recurse, At, Goto, turnstile
<1>1. TypeOK'  OBVIOUS
<1>2. HoldAccounting'  BY DEF HoldAccounting, Holds
<1>3. NoStrandedWaiter'  BY DEF NoStrandedWaiter
<1>4. ChainInv'  BY DEF ChainInv, ChainHeld
<1>5. BlockInv'  BY DEF BlockInv
<1>6. OwnerInv'  BY DEF OwnerInv, Contested, Waiting, Unlocking
<1>7. ContestedInv'  BY DEF ContestedInv, Contested
<1>8. PendingInv'  BY DEF PendingInv
<1> QED BY ONLY <1>1, <1>2, <1>3, <1>4, <1>5, <1>6, <1>7, <1>8 DEF IInv

(* mtx_unlock() (mutex.h, __mtx_unlock) keeps the invariant: its compare-  *)
(* and-set succeeds only on a word without flags, so no waiter is left.    *)
LEMMA UnlockStep ==
  ASSUME IInv, NEW t \in Threads, Unlock(t)
  PROVE  IInv'
<1> USE SleepMutexAssumption DEF IInv, TypeOK, Word, Unowned, Flags, Locations,
             Unlock, At, Goto, turnstile
<1>1. TypeOK'  OBVIOUS
<1>2. HoldAccounting'  BY DEF HoldAccounting, Holds
<1>3. NoStrandedWaiter'  BY DEF NoStrandedWaiter
<1>4. ChainInv'  BY DEF ChainInv, ChainHeld
<1>5. BlockInv'  BY DEF BlockInv
<1>6. OwnerInv'  BY DEF HoldAccounting, Holds, OwnerInv, Contested, Waiting,
                        Unlocking
<1>7. ContestedInv'  BY DEF ContestedInv, Contested
<1>8. PendingInv'  BY DEF PendingInv
<1> QED BY ONLY <1>1, <1>2, <1>3, <1>4, <1>5, <1>6, <1>7, <1>8 DEF IInv

(* _mtx_destroy() keeps the invariant: no other thread is inside.          *)
LEMMA DestroyStep ==
  ASSUME IInv, NEW t \in Threads, Destroy(t)
  PROVE  IInv'
<1> USE SleepMutexAssumption DEF IInv, TypeOK, Word, Unowned, Flags, Locations,
             Destroy, Quiescent, At, turnstile
<1>1. TypeOK'  BY DEF HoldAccounting, Holds, ChainInv, ChainHeld, OwnerInv,
                      Contested, Waiting, Unlocking, ContestedInv, PendingInv
<1>2. HoldAccounting'  BY DEF HoldAccounting, Holds
<1>3. NoStrandedWaiter'  BY DEF NoStrandedWaiter
<1>4. ChainInv'  BY DEF ChainInv, ChainHeld
<1>5. BlockInv'  BY DEF BlockInv
<1>6. OwnerInv'  BY DEF HoldAccounting, Holds, OwnerInv, Contested, Waiting,
                        Unlocking
<1>7. ContestedInv'  BY DEF ContestedInv, Contested
<1>8. PendingInv'  BY DEF PendingInv
<1> QED BY ONLY <1>1, <1>2, <1>3, <1>4, <1>5, <1>6, <1>7, <1>8 DEF IInv

(* _mtx_init() of a destroyed mutex keeps the invariant.                   *)
LEMMA ReinitStep ==
  ASSUME IInv, NEW t \in Threads, Reinit(t)
  PROVE  IInv'
<1> USE SleepMutexAssumption DEF IInv, TypeOK, Word, Unowned, Flags, Locations,
             Reinit, At, turnstile
<1>1. TypeOK'  OBVIOUS
<1>2. HoldAccounting'  BY DEF HoldAccounting, Holds
<1>3. NoStrandedWaiter'  BY DEF NoStrandedWaiter
<1>4. ChainInv'  BY DEF ChainInv, ChainHeld
<1>5. BlockInv'  BY DEF BlockInv
<1>6. OwnerInv'  BY DEF OwnerInv, Contested, Waiting, Unlocking
<1>7. ContestedInv'  BY DEF ChainInv, ChainHeld, OwnerInv, Contested, Waiting,
                            Unlocking, ContestedInv
<1>8. PendingInv'  BY DEF PendingInv
<1> QED BY ONLY <1>1, <1>2, <1>3, <1>4, <1>5, <1>6, <1>7, <1>8 DEF IInv

(* The entry of __mtx_lock_sleep() keeps the invariant, recursing or not.  *)
LEMMA LockSleepStep ==
  ASSUME IInv, NEW t \in Threads, LockSleep(t)
  PROVE  IInv'
<1> USE SleepMutexAssumption DEF IInv, TypeOK, Word, Unowned, Flags, Locations,
             LockSleep, Recurse, At, Goto, turnstile
<1>1. TypeOK'  OBVIOUS
<1>2. HoldAccounting'  BY DEF HoldAccounting, Holds
<1>3. NoStrandedWaiter'  BY DEF NoStrandedWaiter
<1>4. ChainInv'  BY DEF ChainInv, ChainHeld
<1>5. BlockInv'  BY DEF BlockInv
<1>6. OwnerInv'  BY DEF OwnerInv, Contested, Waiting, Unlocking
<1>7. ContestedInv'  BY DEF ContestedInv, Contested
<1>8. PendingInv'  BY DEF PendingInv
<1> QED BY ONLY <1>1, <1>2, <1>3, <1>4, <1>5, <1>6, <1>7, <1>8 DEF IInv

(* The head of the wait loop of __mtx_lock_sleep() keeps the invariant.    *)
LEMMA ObtainStep ==
  ASSUME IInv, NEW t \in Threads, Obtain(t)
  PROVE  IInv'
<1> USE SleepMutexAssumption DEF IInv, TypeOK, Word, Unowned, Flags, Locations,
             Obtain, ObtainLock, At, Goto, turnstile
<1>1. TypeOK'  OBVIOUS
<1>2. HoldAccounting'  BY DEF HoldAccounting, Holds
<1>3. NoStrandedWaiter'  BY DEF NoStrandedWaiter
<1>4. ChainInv'  BY DEF ChainInv, ChainHeld
<1>5. BlockInv'  BY DEF BlockInv
<1>6. OwnerInv'  BY DEF OwnerInv, Contested, Waiting, Unlocking
<1>7. ContestedInv'  BY DEF ContestedInv, Contested
<1>8. PendingInv'  BY DEF PendingInv
<1> QED BY ONLY <1>1, <1>2, <1>3, <1>4, <1>5, <1>6, <1>7, <1>8 DEF IInv

(* The end of adaptive spinning in __mtx_lock_sleep() keeps the invariant. *)
LEMMA SpinEndStep ==
  ASSUME IInv, NEW t \in Threads, SpinEnd(t)
  PROVE  IInv'
<1> USE SleepMutexAssumption DEF IInv, TypeOK, Word, Unowned, Flags, Locations,
             SpinEnd, ForgetV, At, Goto, turnstile
<1>1. TypeOK'  OBVIOUS
<1>2. HoldAccounting'  BY DEF HoldAccounting, Holds
<1>3. NoStrandedWaiter'  BY DEF NoStrandedWaiter
<1>4. ChainInv'  BY DEF ChainInv, ChainHeld
<1>5. BlockInv'  BY DEF BlockInv
<1>6. OwnerInv'  BY DEF OwnerInv, Contested, Waiting, Unlocking
<1>7. ContestedInv'  BY DEF ContestedInv, Contested
<1>8. PendingInv'  BY DEF PendingInv
<1> QED BY ONLY <1>1, <1>2, <1>3, <1>4, <1>5, <1>6, <1>7, <1>8 DEF IInv

(* turnstile_trywait() keeps the invariant.                                *)
LEMMA TrywaitStep ==
  ASSUME IInv, NEW t \in Threads, Trywait(t)
  PROVE  IInv'
<1> USE SleepMutexAssumption DEF IInv, TypeOK, Word, Unowned, Flags, Locations,
             Trywait, At, Goto
<1>1. TypeOK'  OBVIOUS
<1>2. HoldAccounting'  BY DEF HoldAccounting, Holds
<1>3. NoStrandedWaiter'  BY DEF NoStrandedWaiter
<1>4. ChainInv'  BY DEF ChainInv, ChainHeld
<1>5. BlockInv'  BY DEF BlockInv
<1>6. OwnerInv'  BY DEF OwnerInv, Contested, Waiting, Unlocking
<1>7. ContestedInv'  BY DEF ContestedInv, Contested
<1>8. PendingInv'  BY DEF PendingInv
<1> QED BY ONLY <1>1, <1>2, <1>3, <1>4, <1>5, <1>6, <1>7, <1>8 DEF IInv

(* The second read of the word in __mtx_lock_sleep(), under the chain      *)
(* lock, keeps the invariant.                                              *)
LEMMA TcReadStep ==
  ASSUME IInv, NEW t \in Threads, TcRead(t)
  PROVE  IInv'
<1> USE SleepMutexAssumption DEF IInv, TypeOK, Word, Unowned, Flags, Locations,
             TcRead, Cancel, ForgetV, At, Goto, turnstile
<1>1. TypeOK'  OBVIOUS
<1>2. HoldAccounting'  BY DEF HoldAccounting, Holds
<1>3. NoStrandedWaiter'  BY DEF NoStrandedWaiter
<1>4. ChainInv'  BY DEF ChainInv, ChainHeld
<1>5. BlockInv'  BY DEF BlockInv
<1>6. OwnerInv'  BY DEF OwnerInv, Contested, Waiting, Unlocking
<1>7. ContestedInv'  BY DEF ChainInv, ChainHeld, OwnerInv, Contested, Waiting,
                            Unlocking, ContestedInv
<1>8. PendingInv'  BY DEF PendingInv
<1> QED BY ONLY <1>1, <1>2, <1>3, <1>4, <1>5, <1>6, <1>7, <1>8 DEF IInv

(* The second look at the owner in __mtx_lock_sleep() keeps the invariant. *)
LEMMA TcRunningStep ==
  ASSUME IInv, NEW t \in Threads, TcRunning(t)
  PROVE  IInv'
<1> USE SleepMutexAssumption DEF IInv, TypeOK, Word, Unowned, Flags, Locations,
             TcRunning, Cancel, ForgetV, At, Goto, turnstile
<1>1. TypeOK'  OBVIOUS
<1>2. HoldAccounting'  BY DEF HoldAccounting, Holds
<1>3. NoStrandedWaiter'  BY DEF NoStrandedWaiter
<1>4. ChainInv'  BY DEF ChainInv, ChainHeld
<1>5. BlockInv'  BY DEF BlockInv
<1>6. OwnerInv'  BY DEF OwnerInv, Contested, Waiting, Unlocking
<1>7. ContestedInv'  BY DEF ContestedInv, Contested
<1>8. PendingInv'  BY DEF PendingInv
<1> QED BY ONLY <1>1, <1>2, <1>3, <1>4, <1>5, <1>6, <1>7, <1>8 DEF IInv

(* Setting MTX_CONTESTED in __mtx_lock_sleep() keeps the invariant: the    *)
(* word is owned by another thread when it succeeds, and when it is        *)
(* skipped.                                                                *)
LEMMA TcCmpsetStep ==
  ASSUME IInv, NEW t \in Threads, TcCmpset(t)
  PROVE  IInv'
<1> USE SleepMutexAssumption DEF IInv, TypeOK, Word, Unowned, Flags, Locations,
             TcCmpset, Cancel, ForgetV, At, Goto, turnstile
<1>1. TypeOK'  OBVIOUS
<1>2. HoldAccounting'  BY DEF HoldAccounting, Holds
<1>3. NoStrandedWaiter'  BY DEF NoStrandedWaiter
<1>4. ChainInv'  BY DEF ChainInv, ChainHeld
<1>5. BlockInv'  BY DEF BlockInv
<1>6. OwnerInv'  BY DEF HoldAccounting, Holds, ChainInv, ChainHeld, OwnerInv,
                        Contested, Waiting, Unlocking, ContestedInv
<1>7. ContestedInv'  BY DEF ContestedInv, Contested
<1>8. PendingInv'  BY DEF PendingInv
<1> QED BY ONLY <1>1, <1>2, <1>3, <1>4, <1>5, <1>6, <1>7, <1>8 DEF IInv

(* turnstile_wait() keeps the invariant: the mutex is contested, so the    *)
(* owner will look for the turnstile.                                      *)
LEMMA TcWaitStep ==
  ASSUME IInv, NEW t \in Threads, TcWait(t)
  PROVE  IInv'
<1> USE SleepMutexAssumption DEF IInv, TypeOK, Word, Unowned, Flags, Locations,
             TcWait, At, Goto
<1>1. TypeOK'  BY DEF HoldAccounting, Holds, ChainInv, ChainHeld, OwnerInv,
                      Contested, Waiting, Unlocking, ContestedInv, PendingInv
<1>2. HoldAccounting'  BY DEF HoldAccounting, Holds
<1>3. NoStrandedWaiter'  BY DEF NoStrandedWaiter, OwnerInv, Contested,
                                Waiting, Unlocking, ContestedInv, PendingInv
<1>4. ChainInv'  BY DEF ChainInv, ChainHeld
<1>5. BlockInv'  BY DEF BlockInv
<1>6. OwnerInv'  BY DEF OwnerInv, Contested, Waiting, Unlocking
<1>7. ContestedInv'  BY DEF ContestedInv, Contested
<1>8. PendingInv'  BY DEF ChainInv, ChainHeld, PendingInv
<1> QED BY ONLY <1>1, <1>2, <1>3, <1>4, <1>5, <1>6, <1>7, <1>8 DEF IInv

(* The return of turnstile_wait() keeps the invariant.                     *)
LEMMA WaitReturnStep ==
  ASSUME IInv, NEW t \in Threads, WaitReturn(t)
  PROVE  IInv'
<1> USE SleepMutexAssumption DEF IInv, TypeOK, Word, Unowned, Flags, Locations,
             WaitReturn, At, Goto, turnstile
<1>1. TypeOK'  OBVIOUS
<1>2. HoldAccounting'  BY DEF HoldAccounting, Holds
<1>3. NoStrandedWaiter'  BY DEF NoStrandedWaiter
<1>4. ChainInv'  BY DEF ChainInv, ChainHeld
<1>5. BlockInv'  BY DEF BlockInv
<1>6. OwnerInv'  BY DEF OwnerInv, Contested, Waiting, Unlocking
<1>7. ContestedInv'  BY DEF ContestedInv, Contested
<1>8. PendingInv'  BY DEF PendingInv
<1> QED BY ONLY <1>1, <1>2, <1>3, <1>4, <1>5, <1>6, <1>7, <1>8 DEF IInv

(* The entry of __mtx_unlock_sleep() keeps the invariant: either a         *)
(* recursion level is dropped or the mutex is contested.                   *)
LEMMA UnlockSleepStep ==
  ASSUME IInv, NEW t \in Threads, UnlockSleep(t)
  PROVE  IInv'
<1> USE SleepMutexAssumption DEF IInv, TypeOK, Word, Unowned, Flags, Locations,
             UnlockSleep, Unrecurse, At, Goto, turnstile
<1>1. TypeOK'  BY DEF HoldAccounting, Holds, ChainInv, ChainHeld, OwnerInv,
                      Contested, Waiting, Unlocking, ContestedInv, PendingInv
<1>2. HoldAccounting'  BY DEF HoldAccounting, Holds, ChainInv, ChainHeld,
                              OwnerInv, Contested, Waiting, Unlocking,
                              ContestedInv, PendingInv
<1>3. NoStrandedWaiter'  BY DEF NoStrandedWaiter
<1>4. ChainInv'  BY DEF ChainInv, ChainHeld
<1>5. BlockInv'  BY DEF BlockInv
<1>6. OwnerInv'  BY DEF HoldAccounting, Holds, OwnerInv, Contested, Waiting,
                        Unlocking
<1>7. ContestedInv'  BY DEF ContestedInv, Contested
<1>8. PendingInv'  BY DEF PendingInv
<1> QED BY ONLY <1>1, <1>2, <1>3, <1>4, <1>5, <1>6, <1>7, <1>8 DEF IInv

(* turnstile_chain_lock() keeps the invariant.                             *)
LEMMA UnlockChainStep ==
  ASSUME IInv, NEW t \in Threads, UnlockChain(t)
  PROVE  IInv'
<1> USE SleepMutexAssumption DEF IInv, TypeOK, Word, Unowned, Flags, Locations,
             UnlockChain, At, Goto
<1>1. TypeOK'  OBVIOUS
<1>2. HoldAccounting'  BY DEF HoldAccounting, Holds
<1>3. NoStrandedWaiter'  BY DEF NoStrandedWaiter
<1>4. ChainInv'  BY DEF ChainInv, ChainHeld
<1>5. BlockInv'  BY DEF BlockInv
<1>6. OwnerInv'  BY DEF OwnerInv, Contested, Waiting, Unlocking
<1>7. ContestedInv'  BY DEF ContestedInv, Contested
<1>8. PendingInv'  BY DEF PendingInv
<1> QED BY ONLY <1>1, <1>2, <1>3, <1>4, <1>5, <1>6, <1>7, <1>8 DEF IInv

(* turnstile_broadcast() keeps the invariant: with the chain lock held     *)
(* nobody is between setting MTX_CONTESTED and blocking, so the contested  *)
(* word means waiters.                                                     *)
LEMMA UnlockBroadcastStep ==
  ASSUME IInv, NEW t \in Threads, UnlockBroadcast(t)
  PROVE  IInv'
<1> USE SleepMutexAssumption DEF IInv, TypeOK, Word, Unowned, Flags, Locations,
             UnlockBroadcast, At, Goto
<1>1. TypeOK'  OBVIOUS
<1>2. HoldAccounting'  BY DEF HoldAccounting, Holds
<1>3. NoStrandedWaiter'  BY DEF NoStrandedWaiter
<1>4. ChainInv'  BY DEF ChainInv, ChainHeld
<1>5. BlockInv'  BY DEF BlockInv
<1>6. OwnerInv'  BY DEF OwnerInv, Contested, Waiting, Unlocking
<1>7. ContestedInv'  BY DEF ContestedInv, Contested
<1>8. PendingInv'  BY DEF HoldAccounting, Holds, NoStrandedWaiter, ChainInv,
                          ChainHeld, BlockInv, OwnerInv, Contested, Waiting,
                          Unlocking, ContestedInv, PendingInv
<1> QED BY ONLY <1>1, <1>2, <1>3, <1>4, <1>5, <1>6, <1>7, <1>8 DEF IInv

(* _mtx_release_lock_quick() keeps the invariant: the flags it overwrites  *)
(* belong to waiters that are already on the pending list.                 *)
LEMMA UnlockReleaseStep ==
  ASSUME IInv, NEW t \in Threads, UnlockRelease(t)
  PROVE  IInv'
<1> USE SleepMutexAssumption DEF IInv, TypeOK, Word, Unowned, Flags, Locations,
             UnlockRelease, At, Goto, turnstile
<1>1. TypeOK'  OBVIOUS
<1>2. HoldAccounting'  BY DEF HoldAccounting, Holds, OwnerInv, Contested,
                              Waiting, Unlocking
<1>3. NoStrandedWaiter'  BY DEF NoStrandedWaiter, OwnerInv, Contested,
                                Waiting, Unlocking, ContestedInv, PendingInv
<1>4. ChainInv'  BY DEF ChainInv, ChainHeld
<1>5. BlockInv'  BY DEF BlockInv
<1>6. OwnerInv'  BY DEF HoldAccounting, Holds, OwnerInv, Contested, Waiting,
                        Unlocking
<1>7. ContestedInv'  BY DEF ChainInv, ChainHeld, ContestedInv, Contested
<1>8. PendingInv'  BY DEF PendingInv
<1> QED BY ONLY <1>1, <1>2, <1>3, <1>4, <1>5, <1>6, <1>7, <1>8 DEF IInv

(* turnstile_unpend() keeps the invariant.                                 *)
LEMMA UnlockUnpendStep ==
  ASSUME IInv, NEW t \in Threads, UnlockUnpend(t)
  PROVE  IInv'
<1> USE SleepMutexAssumption DEF IInv, TypeOK, Word, Unowned, Flags, Locations,
             UnlockUnpend, At, Goto
<1>1. TypeOK'  BY DEF HoldAccounting, Holds, ChainInv, ChainHeld, OwnerInv,
                      Contested, Waiting, Unlocking, ContestedInv, PendingInv
<1>2. HoldAccounting'  BY DEF HoldAccounting, Holds
<1>3. NoStrandedWaiter'  BY DEF NoStrandedWaiter, OwnerInv, Contested,
                                Waiting, Unlocking, ContestedInv, PendingInv
<1>4. ChainInv'  BY DEF ChainInv, ChainHeld
<1>5. BlockInv'  BY DEF BlockInv
<1>6. OwnerInv'  BY DEF OwnerInv, Contested, Waiting, Unlocking
<1>7. ContestedInv'  BY DEF ContestedInv, Contested
<1>8. PendingInv'  BY DEF PendingInv
<1> QED BY ONLY <1>1, <1>2, <1>3, <1>4, <1>5, <1>6, <1>7, <1>8 DEF IInv

(* Taking a thread's CPU away keeps the invariant.                         *)
LEMMA PreemptStep ==
  ASSUME IInv, NEW t \in Threads, Preempt(t)
  PROVE  IInv'
<1> USE SleepMutexAssumption DEF IInv, TypeOK, Word, Unowned, Flags, Locations,
             Preempt, turnstile
<1>1. TypeOK'  OBVIOUS
<1>2. HoldAccounting'  BY DEF HoldAccounting, Holds
<1>3. NoStrandedWaiter'  BY DEF NoStrandedWaiter
<1>4. ChainInv'  BY DEF ChainInv, ChainHeld
<1>5. BlockInv'  BY DEF BlockInv
<1>6. OwnerInv'  BY DEF OwnerInv, Contested, Waiting, Unlocking
<1>7. ContestedInv'  BY DEF ContestedInv, Contested
<1>8. PendingInv'  BY DEF PendingInv
<1> QED BY ONLY <1>1, <1>2, <1>3, <1>4, <1>5, <1>6, <1>7, <1>8 DEF IInv

(* Giving a thread a CPU keeps the invariant.                              *)
LEMMA DispatchStep ==
  ASSUME IInv, NEW t \in Threads, Dispatch(t)
  PROVE  IInv'
<1> USE SleepMutexAssumption DEF IInv, TypeOK, Word, Unowned, Flags, Locations,
             Dispatch, turnstile
<1>1. TypeOK'  OBVIOUS
<1>2. HoldAccounting'  BY DEF HoldAccounting, Holds
<1>3. NoStrandedWaiter'  BY DEF NoStrandedWaiter
<1>4. ChainInv'  BY DEF ChainInv, ChainHeld
<1>5. BlockInv'  BY DEF BlockInv
<1>6. OwnerInv'  BY DEF OwnerInv, Contested, Waiting, Unlocking
<1>7. ContestedInv'  BY DEF ContestedInv, Contested
<1>8. PendingInv'  BY DEF PendingInv
<1> QED BY ONLY <1>1, <1>2, <1>3, <1>4, <1>5, <1>6, <1>7, <1>8 DEF IInv

(* The invariant holds after _mtx_init().                                  *)
LEMMA InitOK == Init => IInv
<1> SUFFICES ASSUME Init PROVE IInv
  OBVIOUS
<1> USE SleepMutexAssumption DEF Init, Word, Unowned
<1>1. TypeOK  BY DEF TypeOK, Flags, Locations
<1>2. HoldAccounting  BY DEF HoldAccounting, Holds
<1>3. NoStrandedWaiter  BY DEF NoStrandedWaiter
<1>4. ChainInv  BY DEF ChainInv, ChainHeld
<1>5. BlockInv  BY DEF BlockInv
<1>6. OwnerInv  BY DEF OwnerInv, Waiting, Unlocking
<1>7. ContestedInv  BY DEF ContestedInv, Contested
<1>8. PendingInv  BY DEF PendingInv
<1> QED BY ONLY <1>1, <1>2, <1>3, <1>4, <1>5, <1>6, <1>7, <1>8 DEF IInv

(* Every step of the code, of the scheduler, and a stuttering step keeps   *)
(* the invariant.                                                          *)
LEMMA StepOK == IInv /\ [Next]_vars => IInv'
<1> SUFFICES ASSUME IInv, [Next]_vars PROVE IInv'
  OBVIOUS
<1>1. CASE Next
  <2>1. PICK t \in Threads :
          \/ Lock(t) \/ Trylock(t) \/ Unlock(t) \/ Destroy(t) \/ Reinit(t)
          \/ Inside(t) \/ Preempt(t) \/ Dispatch(t)
    BY <1>1 DEF Next
  <2>2. CASE Lock(t)  BY <2>2, LockStep
  <2>3. CASE Trylock(t)  BY <2>3, TrylockStep
  <2>4. CASE Unlock(t)  BY <2>4, UnlockStep
  <2>5. CASE Destroy(t)  BY <2>5, DestroyStep
  <2>6. CASE Reinit(t)  BY <2>6, ReinitStep
  <2>7. CASE Inside(t)
    <3>1. CASE LockSleep(t)  BY <3>1, LockSleepStep
    <3>2. CASE Obtain(t)  BY <3>2, ObtainStep
    <3>3. CASE SpinEnd(t)  BY <3>3, SpinEndStep
    <3>4. CASE Trywait(t)  BY <3>4, TrywaitStep
    <3>5. CASE TcRead(t)  BY <3>5, TcReadStep
    <3>6. CASE TcRunning(t)  BY <3>6, TcRunningStep
    <3>7. CASE TcCmpset(t)  BY <3>7, TcCmpsetStep
    <3>8. CASE TcWait(t)  BY <3>8, TcWaitStep
    <3>9. CASE WaitReturn(t)  BY <3>9, WaitReturnStep
    <3>10. CASE UnlockSleep(t)  BY <3>10, UnlockSleepStep
    <3>11. CASE UnlockChain(t)  BY <3>11, UnlockChainStep
    <3>12. CASE UnlockBroadcast(t)  BY <3>12, UnlockBroadcastStep
    <3>13. CASE UnlockRelease(t)  BY <3>13, UnlockReleaseStep
    <3>14. CASE UnlockUnpend(t)  BY <3>14, UnlockUnpendStep
    <3> QED BY <3>1, <3>2, <3>3, <3>4, <3>5, <3>6, <3>7, <3>8, <3>9, <3>10,
               <3>11, <3>12, <3>13, <3>14, <2>7 DEF Inside
  <2>8. CASE Preempt(t)  BY <2>8, PreemptStep
  <2>9. CASE Dispatch(t)  BY <2>9, DispatchStep
  <2> QED BY <2>1, <2>2, <2>3, <2>4, <2>5, <2>6, <2>7, <2>8, <2>9
<1>2. CASE UNCHANGED vars
  BY <1>2 DEF vars, turnstile, IInv, TypeOK, HoldAccounting, Holds, NoStrandedWaiter,
              ChainInv, BlockInv, OwnerInv, ContestedInv, Contested, PendingInv
<1> QED BY <1>1, <1>2

(* The inductive invariant holds in every reachable state.                 *)
THEOREM Invariance == Spec => []IInv
BY InitOK, StepOK, PTL DEF Spec

(* Type correctness of the lock word, the turnstile and the threads'       *)
(* locations in kern_mutex.c.                                              *)
THEOREM TypeCorrect == Spec => []TypeOK
<1>1. IInv => TypeOK  BY DEF IInv
<1> QED BY <1>1, Invariance, PTL

(* mtx_lock(), mtx_trylock() and mtx_unlock() never lose or invent a hold: *)
(* the lock word, mtx_recurse and MTX_RECURSED agree with what the callers *)
(* acquired and released.                                                  *)
THEOREM HoldsAccounted == Spec => []HoldAccounting
<1>1. IInv => HoldAccounting  BY DEF IInv
<1> QED BY <1>1, Invariance, PTL

(* No lost wakeup: as long as a thread is blocked in turnstile_wait(), the *)
(* mutex is owned and its word tells the owner's mtx_unlock() to take the  *)
(* slow path.                                                              *)
THEOREM NoLostWakeup == Spec => []NoStrandedWaiter
<1>1. IInv => NoStrandedWaiter  BY DEF IInv
<1> QED BY <1>1, Invariance, PTL

(* The MPASSes of __mtx_unlock_sleep(), turnstile_broadcast(),             *)
(* turnstile_unpend() and turnstile_wait() never fail.                     *)
THEOREM AssertsHold == Spec => []TurnstileAsserts
<1>1. IInv => TurnstileAsserts
  <2> SUFFICES ASSUME IInv, NEW t \in Threads
               PROVE  /\ pc[t] = "un_broadcast" => ts_blocked # {} /\ ts_owner = t
                      /\ pc[t] \in {"un_release", "un_unpend"} =>
                           ts_pending # {} /\ ts_owner = t
                      /\ pc[t] = "tc_wait" =>
                           /\ mtx_lock.owner \in Threads \ {t}
                           /\ ts_blocked # {} => ts_owner = mtx_lock.owner
    BY DEF TurnstileAsserts
  <2>1. ASSUME pc[t] = "un_broadcast" PROVE ts_blocked # {} /\ ts_owner = t
    BY <2>1, SleepMutexAssumption DEF IInv, TypeOK, ChainInv, ChainHeld, OwnerInv,
       Unlocking, ContestedInv, Contested, NoStrandedWaiter
  <2>2. ASSUME pc[t] \in {"un_release", "un_unpend"}
        PROVE ts_pending # {} /\ ts_owner = t
    BY <2>2 DEF IInv, PendingInv
  <2>3. ASSUME pc[t] = "tc_wait"
        PROVE  /\ mtx_lock.owner \in Threads \ {t}
               /\ ts_blocked # {} => ts_owner = mtx_lock.owner
    BY <2>3 DEF IInv, TypeOK, OwnerInv, Waiting, ContestedInv, Contested,
       NoStrandedWaiter
  <2> QED BY <2>1, <2>2, <2>3
<1> QED BY <1>1, Invariance, PTL

-----------------------------------------------------------------------------

(* The holds after a step that gives thread t the number h of holds. *)
HoldsBecome(t, h) ==
  \A u \in Threads : Holds(u)' = IF u = t THEN h ELSE Holds(u)

(* A step of kern_mutex.c that gives t one more hold, when no other thread *)
(* owns the lock word, is an acquisition of the abstract lock.             *)
LEMMA AcquireMaps ==
  ASSUME IInv, NEW t \in Threads, HoldsBecome(t, Holds(t) + 1),
         mtx_lock.owner \notin Threads \ {t}
  PROVE  L!WriteAcquire(t)
<1>1. \A u \in Threads : u # t => Holds(u) = 0
  BY DEF IInv, HoldAccounting, Holds, TypeOK, OwnerInv
<1>2. [u \in Threads |-> Holds(u)]' =
        [[u \in Threads |-> Holds(u)] EXCEPT ![t] = @ + 1]
  BY DEF HoldsBecome
<1> QED BY <1>1, <1>2 DEF L!WriteAcquire

(* A step of kern_mutex.c by which the owner t loses one hold is a release *)
(* of the abstract lock.                                                   *)
LEMMA ReleaseMaps ==
  ASSUME IInv, NEW t \in Threads, HoldsBecome(t, Holds(t) - 1),
         mtx_lock.owner = t
  PROVE  L!WriteRelease(t)
<1>1. Holds(t) > 0
  BY DEF IInv, HoldAccounting
<1>2. [u \in Threads |-> Holds(u)]' =
        [[u \in Threads |-> Holds(u)] EXCEPT ![t] = @ - 1]
  BY DEF HoldsBecome
<1> QED BY <1>1, <1>2 DEF L!WriteRelease

(* Taking the unowned mutex, in mtx_lock(), mtx_trylock() or the wait loop *)
(* of __mtx_lock_sleep(), acquires the abstract lock.                      *)
LEMMA ObtainMaps ==
  ASSUME IInv, NEW t \in Threads, pc[t] # "un_unpend", ObtainLock(t)
  PROVE  L!WriteAcquire(t)
<1>1. HoldsBecome(t, Holds(t) + 1)
  BY DEF HoldsBecome, Holds, ObtainLock, Goto, IInv, TypeOK
<1> QED BY <1>1, AcquireMaps, SleepMutexAssumption DEF ObtainLock, Unowned, Word

(* Recursing acquires the abstract lock once more. *)
LEMMA RecurseMaps ==
  ASSUME IInv, NEW t \in Threads, pc[t] # "un_unpend", mtx_lock.owner = t,
         Recurse(t)
  PROVE  L!WriteAcquire(t)
<1>1. HoldsBecome(t, Holds(t) + 1)
  BY DEF HoldsBecome, Holds, Recurse, Goto, IInv, TypeOK
<1> QED BY <1>1, AcquireMaps

(* A step that changes neither the callers' counts nor moves a thread in   *)
(* or out of the tail of __mtx_unlock_sleep() does not show abstractly.    *)
LEMMA QuietMaps ==
  ASSUME UNCHANGED td_locks, UNCHANGED pc \/
         \E t \in Threads, l \in Locations \ {"un_unpend"} :
           Goto(t, l) /\ pc[t] # "un_unpend",
         TypeOK
  PROVE  UNCHANGED L!vars
<1>1. \A u \in Threads : pc'[u] = "un_unpend" <=> pc[u] = "un_unpend"
  BY DEF Goto, TypeOK
<1>2. [u \in Threads |-> Holds(u)]' = [u \in Threads |-> Holds(u)]
  BY <1>1 DEF Holds
<1> QED BY <1>2 DEF L!vars

(* Every step of the mutex code is an acquisition or a release of the      *)
(* abstract lock by the thread that takes it, or does not show.            *)
LEMMA StepMaps == IInv /\ [Next]_vars => [L!Next]_(L!vars)
<1> SUFFICES ASSUME IInv, [Next]_vars PROVE [L!Next]_(L!vars)
  OBVIOUS
<1> USE DEF IInv, At
<1>1. CASE Next
  <2>1. PICK t \in Threads :
          \/ Lock(t) \/ Trylock(t) \/ Unlock(t) \/ Destroy(t) \/ Reinit(t)
          \/ Inside(t) \/ Preempt(t) \/ Dispatch(t)
    BY <1>1 DEF Next
  <2>2. SUFFICES ASSUME ~ UNCHANGED L!vars
                 PROVE  L!WriteAcquire(t) \/ L!WriteRelease(t)
    BY DEF L!Next
  <2>3. CASE Lock(t)
    <3>1. CASE ObtainLock(t)  BY <2>3, <3>1, ObtainMaps DEF Lock
    <3>2. CASE Goto(t, "lock_sleep") /\ UNCHANGED td_locks
      BY <2>2, <2>3, <3>2, QuietMaps DEF Lock, Locations
    <3> QED BY <2>3, <3>1, <3>2 DEF Lock
  <2>4. CASE Trylock(t)  BY <2>4, ObtainMaps, RecurseMaps DEF Trylock
  <2>5. CASE Unlock(t)
    <3>1. CASE mtx_lock = Word(t, {})
      <4>1. HoldsBecome(t, Holds(t) - 1)
        BY <2>5, <3>1 DEF Unlock, HoldsBecome, Holds, TypeOK
      <4> QED BY <3>1, <4>1, ReleaseMaps DEF Word
    <3>2. CASE mtx_lock # Word(t, {})
      BY <2>2, <2>5, <3>2, QuietMaps DEF Unlock, Locations
    <3> QED BY <3>1, <3>2
  <2>6. CASE Destroy(t)
    <3>1. CASE mtx_lock.owner = t
      <4>1. HoldsBecome(t, Holds(t) - 1)
        BY <2>6, <3>1 DEF Destroy, HoldsBecome, Holds, TypeOK
      <4> QED BY <3>1, <4>1, ReleaseMaps
    <3>2. CASE mtx_lock.owner # t
      <4>1. UNCHANGED <<td_locks, pc>>
        BY <2>6, <3>2 DEF Destroy, TypeOK
      <4> QED BY <2>2, <4>1, QuietMaps
    <3> QED BY <3>1, <3>2
  <2>7. CASE Reinit(t)  BY <2>2, <2>7, QuietMaps DEF Reinit
  <2>8. CASE Inside(t)
    <3>1. CASE LockSleep(t)
      <4>1. CASE Goto(t, "obtain") /\ UNCHANGED td_locks
        BY <2>2, <3>1, <4>1, QuietMaps DEF LockSleep, Locations
      <4> QED BY <3>1, <4>1, RecurseMaps DEF LockSleep
    <3>2. CASE Obtain(t)
      <4>1. CASE ObtainLock(t)  BY <3>2, <4>1, ObtainMaps DEF Obtain
      <4>2. CASE ~ ObtainLock(t)
        BY <2>2, <3>2, <4>2, QuietMaps DEF Obtain, Locations
      <4> QED BY <4>1, <4>2
    <3>3. CASE SpinEnd(t)  BY <2>2, <3>3, QuietMaps DEF SpinEnd, Locations
    <3>4. CASE Trywait(t)  BY <2>2, <3>4, QuietMaps DEF Trywait, Locations
    <3>5. CASE TcRead(t)
      BY <2>2, <3>5, QuietMaps DEF TcRead, Cancel, Locations
    <3>6. CASE TcRunning(t)
      BY <2>2, <3>6, QuietMaps DEF TcRunning, Cancel, Locations
    <3>7. CASE TcCmpset(t)
      BY <2>2, <3>7, QuietMaps DEF TcCmpset, Cancel, Locations
    <3>8. CASE TcWait(t)  BY <2>2, <3>8, QuietMaps DEF TcWait, Locations
    <3>9. CASE WaitReturn(t)
      BY <2>2, <3>9, QuietMaps DEF WaitReturn, Locations
    <3>10. CASE UnlockSleep(t)
      <4>1. CASE mtx_recurse > 0
        <5>1. HoldsBecome(t, Holds(t) - 1)
          BY <3>10, <4>1 DEF UnlockSleep, Goto, HoldsBecome, Holds, TypeOK
        <5>2. mtx_lock.owner = t  BY <3>10 DEF UnlockSleep, OwnerInv, Unlocking
        <5> QED BY <5>1, <5>2, ReleaseMaps
      <4>2. CASE ~ (mtx_recurse > 0)
        BY <2>2, <3>10, <4>2, QuietMaps DEF UnlockSleep, Locations
      <4> QED BY <4>1, <4>2
    <3>11. CASE UnlockChain(t)
      BY <2>2, <3>11, QuietMaps DEF UnlockChain, Locations
    <3>12. CASE UnlockBroadcast(t)
      BY <2>2, <3>12, QuietMaps DEF UnlockBroadcast, Locations
    <3>13. CASE UnlockRelease(t)
      <4>1. HoldsBecome(t, Holds(t) - 1)
        BY <3>13 DEF UnlockRelease, Goto, HoldsBecome, Holds, TypeOK
      <4>2. mtx_lock.owner = t  BY <3>13 DEF UnlockRelease, OwnerInv, Unlocking
      <4> QED BY <4>1, <4>2, ReleaseMaps
    <3>14. CASE UnlockUnpend(t)
      <4>1. [u \in Threads |-> Holds(u)]' = [u \in Threads |-> Holds(u)]
        BY <3>14 DEF UnlockUnpend, Goto, Holds, TypeOK
      <4> QED BY <2>2, <4>1 DEF L!vars
    <3> QED BY <2>8, <3>1, <3>2, <3>3, <3>4, <3>5, <3>6, <3>7, <3>8, <3>9, <3>10,
               <3>11, <3>12, <3>13, <3>14 DEF Inside
  <2>9. CASE Preempt(t)  BY <2>2, <2>9, QuietMaps DEF Preempt
  <2>10. CASE Dispatch(t)  BY <2>2, <2>10, QuietMaps DEF Dispatch
  <2> QED BY <2>1, <2>3, <2>4, <2>5, <2>6, <2>7, <2>8, <2>9, <2>10
<1>2. CASE UNCHANGED vars
  BY <1>2, QuietMaps DEF vars
<1> QED BY <1>1, <1>2

(* The sleep mutex of kern_mutex.c, seen by its callers, is the exclusive  *)
(* recursable lock of AbstractLock.                                        *)
THEOREM Refinement == Spec => ImplementsLock
<1>1. Init => L!Init
  BY DEF Init, L!Init, Holds
<1>2. IInv /\ [Next]_vars => [L!Next]_(L!vars)
  BY StepMaps
<1> QED BY <1>1, <1>2, Invariance, PTL DEF Spec, ImplementsLock, L!Spec

(* A thread that holds the mutex holds it alone: what mtx_lock() is for.   *)
THEOREM MutualExclusion == Spec => []L!Exclusion
<1>1. IInv => L!Exclusion
  <2> SUFFICES ASSUME IInv, NEW t \in Threads, NEW u \in Threads, Holds(t) > 0
               PROVE  u # t => Holds(u) = 0
    BY DEF L!Exclusion
  <2>1. Holds(u) \in Nat
    BY DEF IInv, TypeOK, OwnerInv, Holds
  <2>2. Holds(t) > 0 => mtx_lock.owner = t
    BY DEF IInv, HoldAccounting
  <2>3. Holds(u) > 0 => mtx_lock.owner = u
    BY DEF IInv, HoldAccounting
  <2> QED BY <2>1, <2>2, <2>3
<1> QED BY <1>1, Invariance, PTL

=============================================================================
