----------------------------- MODULE ThreadLock -----------------------------
(***************************************************************************)
(* MTX_SPIN mutexes and the thread lock of sys/kern/kern_mutex.c.           *)
(*                                                                          *)
(* A thread has no lock of its own: td->td_lock points at the spin mutex of *)
(* the container the thread is on (a run queue, a turnstile, a sleep queue  *)
(* chain) and moves with it, or at blocked_lock, which nobody can acquire,  *)
(* while it is between two containers.  thread_lock() has to acquire the    *)
(* mutex that td_lock points at although it may move at any moment.         *)
(*                                                                          *)
(* Several CPUs, each with its curthread, lock one thread td.  A step is    *)
(* one read, compare-and-set or store of td_lock or of a lock word; what    *)
(* only the owner of a mutex touches goes with it.                          *)
(***************************************************************************)
EXTENDS Integers, FiniteSets

CONSTANTS
  Cpus,
  Locks,           \* spin mutexes of the containers td can be on
  blocked_lock,
  MaxHolds,        \* bound on how often a CPU recurses on one mutex
  MTX_UNOWNED,
  DEADC0DE,        \* the word of blocked_lock, set by mutex_init()
  NoCpu

ASSUME ThreadLockAssumption ==
  /\ MaxHolds \in Nat \ {0}
  /\ blocked_lock \notin Locks
  /\ Locks # {}
  /\ {MTX_UNOWNED, DEADC0DE, NoCpu} \cap Cpus = {}
  /\ DEADC0DE # MTX_UNOWNED

VARIABLES
  td_lock,         \* td->td_lock
  mtx_lock,        \* lock word of every spin mutex
  mtx_recurse,     \* its recursion count, touched by the owner only
  md_spinlock_count, \* nesting of spinlock_enter() on each CPU
  m,               \* the mutex a CPU is working on (a local of the functions)
  pc,
  td_held,         \* holds of the thread lock, as the callers count them
  mtx_held,        \* holds by mtx_lock_spin(), as the callers count them
  blocker          \* the CPU that has to call thread_lock_unblock()

vars == <<td_lock, mtx_lock, mtx_recurse, md_spinlock_count, m, pc, td_held,
          mtx_held, blocker>>

mutexes == <<mtx_lock, mtx_recurse>>
holds == <<td_held, mtx_held, blocker>>

AllLocks == Locks \cup {blocked_lock}

Locations ==
  {"caller",                                            \* elsewhere
   "t_retry", "t_read", "t_obtain", "t_spin", "t_moved", "t_check",
                                                        \* thread_lock()
   "s_obtain", "s_spin",                                \* mtx_lock_spin()
   "set_unlock", "block_unlock"}        \* thread_lock_set(), _block()

TypeOK ==
  /\ td_lock \in AllLocks
  /\ mtx_lock \in [AllLocks -> Cpus \cup {MTX_UNOWNED, DEADC0DE}]
  /\ mtx_recurse \in [AllLocks -> Nat]
  /\ md_spinlock_count \in [Cpus -> Int]
  /\ m \in [Cpus -> AllLocks]
  /\ pc \in [Cpus -> Locations]
  /\ td_held \in [Cpus -> Nat]
  /\ mtx_held \in [Cpus -> [Locks -> Nat]]
  /\ blocker \in Cpus \cup {NoCpu}

(* mutex_init(): the containers' mutexes are free, blocked_lock is not. *)
Init ==
  /\ td_lock \in Locks
  /\ mtx_lock = [l \in AllLocks |->
                   IF l = blocked_lock THEN DEADC0DE ELSE MTX_UNOWNED]
  /\ mtx_recurse = [l \in AllLocks |-> 0]
  /\ md_spinlock_count = [c \in Cpus |-> 0]
  /\ m = [c \in Cpus |-> blocked_lock]
  /\ pc = [c \in Cpus |-> "caller"]
  /\ td_held = [c \in Cpus |-> 0]
  /\ mtx_held = [c \in Cpus |-> [l \in Locks |-> 0]]
  /\ blocker = NoCpu

-----------------------------------------------------------------------------

(* m is dead outside these functions. *)
Goto(c, l) ==
  /\ pc' = [pc EXCEPT ![c] = l]
  /\ m' = IF l \in {"caller", "t_retry"}
          THEN [m EXCEPT ![c] = blocked_lock] ELSE m

spinlock_enter(c) ==
  md_spinlock_count' = [md_spinlock_count EXCEPT ![c] = @ + 1]

spinlock_exit_Missing(c) == UNCHANGED md_spinlock_count   \* mutation

spinlock_exit(c) ==
  md_spinlock_count' = [md_spinlock_count EXCEPT ![c] = @ - 1]

(* _mtx_obtain_lock(), or the recursion that follows its failure. *)
Acquire(c, l) ==
  \/ /\ mtx_lock[l] = MTX_UNOWNED
     /\ mtx_lock' = [mtx_lock EXCEPT ![l] = c]
     /\ UNCHANGED mtx_recurse
  \/ /\ mtx_lock[l] = c
     /\ mtx_recurse' = [mtx_recurse EXCEPT ![l] = @ + 1]
     /\ UNCHANGED mtx_lock

Release_Early(c, l) ==   \* mutation: recursion is not looked at
  /\ mtx_lock' = [mtx_lock EXCEPT ![l] = MTX_UNOWNED]
  /\ mtx_recurse' = [mtx_recurse EXCEPT ![l] = 0]
  /\ spinlock_exit(c)

Release_NoTest(c, l) ==   \* mutation: always drop a recursion level
  /\ mtx_recurse' = [mtx_recurse EXCEPT ![l] = @ - 1]
  /\ UNCHANGED mtx_lock
  /\ spinlock_exit(c)

(* __mtx_unlock_spin(): drop a recursion level or store MTX_UNOWNED. *)
Release(c, l) ==
  /\ IF mtx_recurse[l] > 0
     THEN /\ mtx_recurse' = [mtx_recurse EXCEPT ![l] = @ - 1]
          /\ UNCHANGED mtx_lock
     ELSE /\ mtx_lock' = [mtx_lock EXCEPT ![l] = MTX_UNOWNED]
          /\ UNCHANGED mtx_recurse
  /\ spinlock_exit(c)

Busy(c, l) == mtx_lock[l] \notin {MTX_UNOWNED, c}

-----------------------------------------------------------------------------

(* thread_lock(td).  A CPU that has blocked td would wait for itself. *)
thread_lock(c) ==
  /\ pc[c] = "caller"
  /\ td_held[c] < MaxHolds
  /\ blocker # c
  /\ Goto(c, "t_retry")
  /\ UNCHANGED <<td_lock, mutexes, md_spinlock_count, holds>>

(* spinlock_enter(); m = td->td_lock. *)
ThreadRetry(c) ==
  /\ pc[c] = "t_retry"
  /\ spinlock_enter(c)
  /\ pc' = [pc EXCEPT ![c] = "t_obtain"]
  /\ m' = [m EXCEPT ![c] = td_lock]
  /\ UNCHANGED <<td_lock, mutexes, holds>>

(* Try to acquire m, or let interrupts in and spin. *)
ThreadObtain(c) ==
  /\ pc[c] = "t_obtain"
  /\ \/ /\ Acquire(c, m[c])
        /\ Goto(c, "t_check")
        /\ UNCHANGED md_spinlock_count
     \/ /\ Busy(c, m[c])
        /\ spinlock_exit(c)
        /\ Goto(c, "t_spin")
        /\ UNCHANGED mutexes
  /\ UNCHANGED <<td_lock, holds>>

(* Head of the spin loop: is m free? *)
ThreadSpin(c) ==
  /\ pc[c] = "t_spin"
  /\ \/ /\ mtx_lock[m[c]] = MTX_UNOWNED
        /\ spinlock_enter(c)
        /\ Goto(c, "t_obtain")
     \/ /\ mtx_lock[m[c]] # MTX_UNOWNED
        /\ Goto(c, "t_moved")
        /\ UNCHANGED md_spinlock_count
  /\ UNCHANGED <<td_lock, mutexes, holds>>

(* Tail of the spin loop: if td_lock moved, start all over. *)
ThreadMoved(c) ==
  /\ pc[c] = "t_moved"
  /\ \/ m[c] # td_lock /\ Goto(c, "t_retry")
     \/ m[c] = td_lock /\ Goto(c, "t_spin")
  /\ UNCHANGED <<td_lock, mutexes, md_spinlock_count, holds>>

ThreadCheck_Trusting(c) ==   \* mutation: td_lock is not looked at again
  /\ pc[c] = "t_check"
  /\ td_held' = [td_held EXCEPT ![c] = @ + 1]
  /\ Goto(c, "caller")
  /\ UNCHANGED <<td_lock, mutexes, md_spinlock_count, mtx_held, blocker>>

(* m is ours: return if td_lock still points at it, else release it and    *)
(* start over.                                                             *)
ThreadCheck(c) ==
  /\ pc[c] = "t_check"
  /\ \/ /\ m[c] = td_lock
        /\ td_held' = [td_held EXCEPT ![c] = @ + 1]
        /\ Goto(c, "caller")
        /\ UNCHANGED <<mutexes, md_spinlock_count>>
     \/ /\ m[c] # td_lock
        /\ Release(c, m[c])
        /\ Goto(c, "t_retry")
        /\ UNCHANGED td_held
  /\ UNCHANGED <<td_lock, mtx_held, blocker>>

(* thread_unlock(td). *)
thread_unlock(c) ==
  /\ pc[c] = "caller"
  /\ td_held[c] > 0
  /\ Release(c, td_lock)
  /\ td_held' = [td_held EXCEPT ![c] = @ - 1]
  /\ UNCHANGED <<td_lock, m, pc, mtx_held, blocker>>

-----------------------------------------------------------------------------

(* mtx_lock_spin(l): spinlock_enter(). *)
mtx_lock_spin(c, l) ==
  /\ pc[c] = "caller"
  /\ mtx_held[c][l] < MaxHolds
  /\ spinlock_enter(c)
  /\ pc' = [pc EXCEPT ![c] = "s_obtain"]
  /\ m' = [m EXCEPT ![c] = l]
  /\ UNCHANGED <<td_lock, mutexes, holds>>

(* The inline try and recursion, and the retries of                        *)
(* _mtx_lock_spin_cookie().                                                *)
SpinObtain(c) ==
  /\ pc[c] = "s_obtain"
  /\ \/ /\ Acquire(c, m[c])
        /\ mtx_held' = [mtx_held EXCEPT ![c][m[c]] = @ + 1]
        /\ Goto(c, "caller")
        /\ UNCHANGED md_spinlock_count
     \/ /\ Busy(c, m[c])
        /\ spinlock_exit(c)
        /\ Goto(c, "s_spin")
        /\ UNCHANGED <<mutexes, mtx_held>>
  /\ UNCHANGED <<td_lock, td_held, blocker>>

(* _mtx_lock_spin_cookie() saw the mutex free. *)
SpinWait(c) ==
  /\ pc[c] = "s_spin"
  /\ mtx_lock[m[c]] = MTX_UNOWNED
  /\ spinlock_enter(c)
  /\ Goto(c, "s_obtain")
  /\ UNCHANGED <<td_lock, mutexes, holds>>

mtx_unlock_spin(c, l) ==
  /\ pc[c] = "caller"
  /\ mtx_held[c][l] > 0
  /\ Release(c, l)
  /\ mtx_held' = [mtx_held EXCEPT ![c][l] = @ - 1]
  /\ UNCHANGED <<td_lock, m, pc, td_held, blocker>>

-----------------------------------------------------------------------------

(* thread_lock_block(td): point td_lock at blocked_lock.  The mutex it     *)
(* pointed at is released next; the caller has to unblock td later.        *)
thread_lock_block(c) ==
  /\ pc[c] = "caller"
  /\ td_held[c] = 1
  /\ td_lock' = blocked_lock
  /\ m' = [m EXCEPT ![c] = td_lock]
  /\ pc' = [pc EXCEPT ![c] = "block_unlock"]
  /\ td_held' = [td_held EXCEPT ![c] = 0]
  /\ blocker' = c
  /\ UNCHANGED <<mutexes, md_spinlock_count, mtx_held>>

(* thread_lock_unblock(td, new): the caller's hold of new becomes its hold *)
(* of the thread lock.                                                     *)
thread_lock_unblock(c, new) ==
  /\ pc[c] = "caller"
  /\ blocker = c
  /\ mtx_held[c][new] > 0
  /\ td_lock' = new
  /\ mtx_held' = [mtx_held EXCEPT ![c][new] = @ - 1]
  /\ td_held' = [td_held EXCEPT ![c] = 1]
  /\ blocker' = NoCpu
  /\ UNCHANGED <<mutexes, md_spinlock_count, m, pc>>

(* thread_lock_set(td, new): td_lock moves, and the mutex it pointed at is *)
(* released next.                                                          *)
thread_lock_set(c, new) ==
  /\ pc[c] = "caller"
  /\ td_held[c] = 1
  /\ mtx_held[c][new] > 0
  /\ td_lock' = new
  /\ m' = [m EXCEPT ![c] = td_lock]
  /\ pc' = [pc EXCEPT ![c] = "set_unlock"]
  /\ mtx_held' = [mtx_held EXCEPT ![c][new] = @ - 1]
  /\ UNCHANGED <<mutexes, md_spinlock_count, td_held, blocker>>

(* The mtx_unlock_spin(lock) that ends thread_lock_set() and               *)
(* thread_lock_block().                                                    *)
UnlockOld(c) ==
  /\ pc[c] \in {"set_unlock", "block_unlock"}
  /\ Release(c, m[c])
  /\ Goto(c, "caller")
  /\ UNCHANGED <<td_lock, holds>>

Next ==
  \E c \in Cpus :
    \/ thread_lock(c)
    \/ ThreadRetry(c)
    \/ ThreadObtain(c)
    \/ ThreadSpin(c)
    \/ ThreadMoved(c)
    \/ ThreadCheck(c)
    \/ thread_unlock(c)
    \/ thread_lock_block(c)
    \/ UnlockOld(c)
    \/ SpinObtain(c)
    \/ SpinWait(c)
    \/ \E l \in Locks :
         \/ mtx_lock_spin(c, l)
         \/ mtx_unlock_spin(c, l)
         \/ thread_lock_unblock(c, l)
         \/ thread_lock_set(c, l)

Spec == Init /\ [][Next]_vars

-----------------------------------------------------------------------------

(* How often CPU c holds mutex l: as the callers count it, and inside the  *)
(* functions between an acquisition or a move of td_lock and what follows. *)
Count(c, l) ==
  mtx_held[c][l]
  + (IF td_lock = l THEN td_held[c] ELSE 0)
  + (IF pc[c] \in {"t_check", "set_unlock", "block_unlock"} /\ m[c] = l
     THEN 1 ELSE 0)

(* How often the mutex says so. *)
Recorded(c, l) == IF mtx_lock[l] = c THEN mtx_recurse[l] + 1 ELSE 0

(* thread_lock() delivers what it promises: as long as a caller has not    *)
(* given up the thread lock, td_lock points at a real mutex that this CPU  *)
(* owns, however td_lock moved while it was being acquired; so no two CPUs *)
(* have the thread locked.  And the MPASS of thread_lock_unblock(): a      *)
(* blocked thread stays blocked until its blocker unblocks it.             *)
ThreadLockHeld ==
  /\ \A c \in Cpus :
       td_held[c] > 0 => td_lock \in Locks /\ mtx_lock[td_lock] = c
  /\ blocker # NoCpu => td_lock = blocked_lock

(* The lock word and the recursion count of every spin mutex record        *)
(* exactly the holds of its owner, also where holds pass from one mutex to *)
(* another with td_lock; a free mutex is not recursed; blocked_lock is     *)
(* never acquired.                                                         *)
SpinAccounting ==
  /\ \A c \in Cpus, l \in Locks : Count(c, l) = Recorded(c, l)
  /\ \A l \in Locks : mtx_lock[l] \notin Cpus => mtx_recurse[l] = 0
  /\ mtx_lock[blocked_lock] = DEADC0DE

(* Every hold of CPU c, one by one. *)
SpinHolds(c) == UNION {{l} \X (1 .. Count(c, l)) : l \in Locks}

(* spinlock_enter() and spinlock_exit() balance: a CPU's nesting is the    *)
(* number of its holds, plus one where it is about to try a mutex; so      *)
(* interrupts are off while it holds any and on when it spins for its      *)
(* first.                                                                  *)
SpinlockBalance ==
  \A c \in Cpus :
    md_spinlock_count[c] =
      Cardinality(SpinHolds(c))
      + (IF pc[c] \in {"t_obtain", "s_obtain"} THEN 1 ELSE 0)

=============================================================================
