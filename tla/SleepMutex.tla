----------------------------- MODULE SleepMutex -----------------------------
(***************************************************************************)
(* One MTX_DEF (sleep) mutex of sys/kern/kern_mutex.c, with the inline      *)
(* fast paths of sys/sys/mutex.h and the part of the turnstile of           *)
(* sys/kern/subr_turnstile.c that a mutex uses.                             *)
(*                                                                          *)
(* A step is one access to memory that other threads may touch: a           *)
(* compare-and-set or a plain read of the lock word, a look at the owner's  *)
(* td_state, or a whole stretch of code under the turnstile chain's spin    *)
(* lock that reads and writes only what that spin lock protects.            *)
(* ADAPTIVE_MUTEXES is on, as in an SMP kernel.                             *)
(***************************************************************************)
EXTENDS Naturals, FiniteSets

CONSTANTS
  Threads,         \* the threads that use the mutex
  Recursable,      \* LO_RECURSABLE: mtx_init() was given MTX_RECURSE
  MaxRecurse,      \* bound on td_locks: how deep a caller recurses
  MTX_UNOWNED,     \* owner part of the lock word when nobody owns it
  MTX_DESTROYED,   \* owner part of the lock word after mtx_destroy()
  NoThread         \* NULL

ASSUME SleepMutexAssumption ==
  /\ Recursable \in BOOLEAN
  /\ MaxRecurse \in Nat \ {0}
  /\ MTX_UNOWNED # MTX_DESTROYED
  /\ {MTX_UNOWNED, MTX_DESTROYED, NoThread} \cap Threads = {}

VARIABLES
  mtx_lock,        \* the lock word: an owner and the two flag bits
  mtx_recurse,     \* recursion count, touched by the owner only
  tc_lock,         \* who holds the turnstile chain's spin lock
  ts_blocked,      \* threads blocked on the mutex's turnstile
  ts_pending,      \* threads taken off it that wait to be made runnable
  ts_owner,        \* thread that priority is lent to
  td_state,        \* running, on a run queue, or inhibited on a lock
  td_locks,        \* TD_LOCKS_INC/DEC: holds as the caller counts them
  v,               \* local copy of the lock word in __mtx_lock_sleep()
  pc               \* where each thread is

vars == <<mtx_lock, mtx_recurse, tc_lock, ts_blocked, ts_pending, ts_owner,
          td_state, td_locks, v, pc>>

turnstile == <<tc_lock, ts_blocked, ts_pending, ts_owner>>

Flags == {"MTX_RECURSED", "MTX_CONTESTED"}

Word(o, f) == [owner |-> o, flags |-> f]

Unowned == Word(MTX_UNOWNED, {})

Locations ==
  {"caller",                                  \* outside the mutex code
   "lock_sleep", "obtain", "spin", "trywait", "tc_read", "tc_running",
   "tc_cmpset", "tc_wait", "blocked",         \* __mtx_lock_sleep()
   "unlock_sleep", "un_chain", "un_broadcast", "un_release", "un_unpend"}

TypeOK ==
  /\ mtx_lock \in [owner : Threads \cup {MTX_UNOWNED, MTX_DESTROYED},
                   flags : SUBSET Flags]
  /\ mtx_recurse \in Nat
  /\ tc_lock \in Threads \cup {NoThread}
  /\ ts_blocked \subseteq Threads
  /\ ts_pending \subseteq Threads
  /\ ts_owner \in Threads \cup {NoThread}
  /\ td_state \in [Threads -> {"running", "runq", "lock"}]
  /\ td_locks \in [Threads -> Nat]
  /\ v \in [Threads -> [owner : Threads \cup {MTX_UNOWNED, MTX_DESTROYED},
                        flags : SUBSET Flags]]
  /\ pc \in [Threads -> Locations]

(* _mtx_init(): Init is the state it leaves. *)
Init ==
  /\ mtx_lock = Unowned
  /\ mtx_recurse = 0
  /\ tc_lock = NoThread
  /\ ts_blocked = {}
  /\ ts_pending = {}
  /\ ts_owner = NoThread
  /\ td_state = [t \in Threads |-> "running"]
  /\ td_locks = [t \in Threads |-> 0]
  /\ v = [t \in Threads |-> Unowned]
  /\ pc = [t \in Threads |-> "caller"]

-----------------------------------------------------------------------------

At(t, l) == pc[t] = l /\ td_state[t] = "running"

Goto(t, l) == pc' = [pc EXCEPT ![t] = l]

(* _mtx_obtain_lock(): compare-and-set from MTX_UNOWNED to the thread; the *)
(* mtx_lock() or mtx_trylock() that made it then returns.                  *)
ObtainLock(t) ==
  /\ mtx_lock = Unowned
  /\ mtx_lock' = Word(t, {})
  /\ td_locks' = [td_locks EXCEPT ![t] = @ + 1]
  /\ Goto(t, "caller")
  /\ UNCHANGED <<mtx_recurse, turnstile, td_state, v>>

(* The owner acquires the lock once more. *)
Recurse(t) ==
  /\ mtx_recurse' = mtx_recurse + 1
  /\ mtx_lock' = [mtx_lock EXCEPT !.flags = @ \cup {"MTX_RECURSED"}]
  /\ td_locks' = [td_locks EXCEPT ![t] = @ + 1]
  /\ Goto(t, "caller")
  /\ UNCHANGED <<turnstile, td_state, v>>

(* A KASSERT forbids the calls this excludes: locking a destroyed mutex,   *)
(* and recursing on a mutex that is not recursable.                        *)
MayLock(t) ==
  /\ mtx_lock.owner # MTX_DESTROYED
  /\ mtx_lock.owner = t => Recursable
  /\ td_locks[t] < MaxRecurse

(* mtx_lock(): one try inline, else __mtx_lock_sleep(). *)
Lock(t) ==
  /\ At(t, "caller")
  /\ MayLock(t)
  /\ \/ ObtainLock(t)
     \/ /\ mtx_lock # Unowned
        /\ Goto(t, "lock_sleep")
        /\ UNCHANGED <<mtx_lock, mtx_recurse, turnstile, td_state, td_locks, v>>

(* _mtx_trylock_flags_(): recurse if the caller owns a recursable mutex,   *)
(* else one try; a failed try changes nothing.                             *)
Trylock(t) ==
  /\ At(t, "caller")
  /\ mtx_lock.owner # MTX_DESTROYED
  /\ td_locks[t] < MaxRecurse
  /\ IF mtx_lock.owner = t /\ Recursable
     THEN Recurse(t)
     ELSE ObtainLock(t)

(* Entry of __mtx_lock_sleep(): recursion, else the wait loop. *)
LockSleep(t) ==
  /\ At(t, "lock_sleep")
  /\ \/ mtx_lock.owner = t /\ Recurse(t)
     \/ /\ mtx_lock.owner # t
        /\ Goto(t, "obtain")
        /\ UNCHANGED <<mtx_lock, mtx_recurse, turnstile, td_state, td_locks, v>>

Running(w) == w.owner \in Threads /\ td_state[w.owner] = "running"

(* Head of the wait loop: try, and on failure spin if the owner is on a    *)
(* CPU, else go for the turnstile.                                         *)
Obtain(t) ==
  /\ At(t, "obtain")
  /\ \/ ObtainLock(t)
     \/ /\ mtx_lock # Unowned
        /\ IF Running(mtx_lock)
           THEN Goto(t, "spin") /\ v' = [v EXCEPT ![t] = mtx_lock]
           ELSE Goto(t, "trywait") /\ UNCHANGED v
        /\ UNCHANGED <<mtx_lock, mtx_recurse, turnstile, td_state, td_locks>>

(* v is dead once the loop starts again. *)
ForgetV(t) == v' = [v EXCEPT ![t] = Unowned]

(* Adaptive spinning ends when the owner changes or leaves its CPU. *)
SpinEnd(t) ==
  /\ At(t, "spin")
  /\ ~ (mtx_lock.owner = v[t].owner /\ Running(v[t]))
  /\ Goto(t, "obtain")
  /\ ForgetV(t)
  /\ UNCHANGED <<mtx_lock, mtx_recurse, turnstile, td_state, td_locks>>

(* turnstile_trywait(): take the chain lock. *)
Trywait(t) ==
  /\ At(t, "trywait")
  /\ tc_lock = NoThread
  /\ tc_lock' = t
  /\ Goto(t, "tc_read")
  /\ UNCHANGED <<mtx_lock, mtx_recurse, ts_blocked, ts_pending, ts_owner,
                 td_state, td_locks, v>>

(* turnstile_cancel(): drop the chain lock and start the loop again. *)
Cancel(t) ==
  /\ tc_lock' = NoThread
  /\ Goto(t, "obtain")
  /\ ForgetV(t)
  /\ UNCHANGED <<mtx_lock, mtx_recurse, ts_blocked, ts_pending, ts_owner,
                 td_state, td_locks>>

(* Under the chain lock: read the word again; released meanwhile? *)
TcRead_NoRecheck(t) ==   \* mutation: the released lock is not noticed
  /\ At(t, "tc_read")
  /\ v' = [v EXCEPT ![t] = mtx_lock]
  /\ Goto(t, "tc_running")
  /\ UNCHANGED <<mtx_lock, mtx_recurse, turnstile, td_state, td_locks>>

TcRead(t) ==
  /\ At(t, "tc_read")
  /\ \/ mtx_lock = Unowned /\ Cancel(t)
     \/ /\ mtx_lock # Unowned
        /\ v' = [v EXCEPT ![t] = mtx_lock]
        /\ Goto(t, "tc_running")
        /\ UNCHANGED <<mtx_lock, mtx_recurse, turnstile, td_state, td_locks>>

(* Under the chain lock: does the owner run meanwhile? *)
TcRunning(t) ==
  /\ At(t, "tc_running")
  /\ \/ Running(v[t]) /\ Cancel(t)
     \/ /\ ~ Running(v[t])
        /\ Goto(t, "tc_cmpset")
        /\ UNCHANGED <<mtx_lock, mtx_recurse, turnstile, td_state, td_locks, v>>

(* Under the chain lock: the contested bit is set already, or is set by a  *)
(* compare-and-set against the word that was read; a failure starts over.  *)
TcCmpset(t) ==
  LET contested == [v[t] EXCEPT !.flags = @ \cup {"MTX_CONTESTED"}]
      set == "MTX_CONTESTED" \in v[t].flags
  IN
  /\ At(t, "tc_cmpset")
  /\ \/ ~set /\ mtx_lock # v[t] /\ Cancel(t)
     \/ /\ set \/ mtx_lock = v[t]
        /\ mtx_lock' = IF set THEN mtx_lock ELSE contested
        /\ Goto(t, "tc_wait")
        /\ ForgetV(t)
        /\ UNCHANGED <<mtx_recurse, turnstile, td_state, td_locks>>

(* turnstile_wait(): join the turnstile, setting its owner if it is new,   *)
(* drop the chain lock and switch away.                                    *)
TcWait(t) ==
  /\ At(t, "tc_wait")
  /\ ts_blocked' = ts_blocked \cup {t}
  /\ ts_owner' = IF ts_blocked = {} THEN mtx_lock.owner ELSE ts_owner
  /\ td_state' = [td_state EXCEPT ![t] = "lock"]
  /\ tc_lock' = NoThread
  /\ Goto(t, "blocked")
  /\ UNCHANGED <<mtx_lock, mtx_recurse, ts_pending, td_locks, v>>

(* turnstile_wait() returns: back to the head of the loop. *)
WaitReturn(t) ==
  /\ At(t, "blocked")
  /\ Goto(t, "obtain")
  /\ UNCHANGED <<mtx_lock, mtx_recurse, turnstile, td_state, td_locks, v>>

-----------------------------------------------------------------------------

(* mtx_unlock(): compare-and-set from the bare owner to MTX_UNOWNED, else  *)
(* __mtx_unlock_sleep().                                                   *)
Unlock(t) ==
  /\ At(t, "caller")
  /\ td_locks[t] > 0
  /\ \/ /\ mtx_lock = Word(t, {})
        /\ mtx_lock' = Unowned
        /\ td_locks' = [td_locks EXCEPT ![t] = @ - 1]
        /\ UNCHANGED pc
     \/ /\ mtx_lock # Word(t, {})
        /\ Goto(t, "unlock_sleep")
        /\ UNCHANGED <<mtx_lock, td_locks>>
  /\ UNCHANGED <<mtx_recurse, turnstile, td_state, v>>

Unrecurse_FlagKept(w, n) == w   \* mutation: MTX_RECURSED is never cleared

(* The last recursion level clears MTX_RECURSED. *)
Unrecurse(w, n) ==
  IF n = 1 THEN [w EXCEPT !.flags = @ \ {"MTX_RECURSED"}] ELSE w

UnlockSleep_OffByOne(t) ==   \* mutation: the first level is not seen
  /\ At(t, "unlock_sleep")
  /\ \/ /\ mtx_recurse > 1
        /\ mtx_recurse' = mtx_recurse - 1
        /\ mtx_lock' = Unrecurse(mtx_lock, mtx_recurse)
        /\ td_locks' = [td_locks EXCEPT ![t] = @ - 1]
        /\ Goto(t, "caller")
     \/ /\ mtx_recurse <= 1
        /\ Goto(t, "un_chain")
        /\ UNCHANGED <<mtx_lock, mtx_recurse, td_locks>>
  /\ UNCHANGED <<turnstile, td_state, v>>

UnlockSleep_NoTest(t) ==   \* mutation: always unrecurse
  /\ At(t, "unlock_sleep")
  /\ mtx_recurse' = mtx_recurse - 1
  /\ mtx_lock' = Unrecurse(mtx_lock, mtx_recurse)
  /\ td_locks' = [td_locks EXCEPT ![t] = @ - 1]
  /\ Goto(t, "caller")
  /\ UNCHANGED <<turnstile, td_state, v>>

(* Entry of __mtx_unlock_sleep(): drop a recursion level, or go for the    *)
(* chain lock to wake the waiters.                                         *)
UnlockSleep(t) ==
  /\ At(t, "unlock_sleep")
  /\ \/ /\ mtx_recurse > 0
        /\ mtx_recurse' = mtx_recurse - 1
        /\ mtx_lock' = Unrecurse(mtx_lock, mtx_recurse)
        /\ td_locks' = [td_locks EXCEPT ![t] = @ - 1]
        /\ Goto(t, "caller")
     \/ /\ mtx_recurse = 0
        /\ Goto(t, "un_chain")
        /\ UNCHANGED <<mtx_lock, mtx_recurse, td_locks>>
  /\ UNCHANGED <<turnstile, td_state, v>>

(* turnstile_chain_lock(). *)
UnlockChain(t) ==
  /\ At(t, "un_chain")
  /\ tc_lock = NoThread
  /\ tc_lock' = t
  /\ Goto(t, "un_broadcast")
  /\ UNCHANGED <<mtx_lock, mtx_recurse, ts_blocked, ts_pending, ts_owner,
                 td_state, td_locks, v>>

UnlockBroadcast_One(t) ==   \* mutation: turnstile_signal() instead
  /\ At(t, "un_broadcast")
  /\ \E u \in ts_blocked :
       /\ ts_pending' = ts_pending \cup {u}
       /\ ts_blocked' = ts_blocked \ {u}
  /\ Goto(t, "un_release")
  /\ UNCHANGED <<mtx_lock, mtx_recurse, tc_lock, ts_owner, td_state, td_locks, v>>

(* turnstile_lookup() and turnstile_broadcast(). *)
UnlockBroadcast(t) ==
  /\ At(t, "un_broadcast")
  /\ ts_pending' = ts_pending \cup ts_blocked
  /\ ts_blocked' = {}
  /\ Goto(t, "un_release")
  /\ UNCHANGED <<mtx_lock, mtx_recurse, tc_lock, ts_owner, td_state, td_locks, v>>

UnlockRelease_EarlyUnchain(t) ==   \* mutation: chain unlocked too early
  /\ At(t, "un_release")
  /\ mtx_lock' = Unowned
  /\ tc_lock' = NoThread
  /\ Goto(t, "un_unpend")
  /\ UNCHANGED <<mtx_recurse, ts_blocked, ts_pending, ts_owner, td_state,
                 td_locks, v>>

(* _mtx_release_lock_quick(): a plain store, which also drops the          *)
(* contested bit.                                                          *)
UnlockRelease(t) ==
  /\ At(t, "un_release")
  /\ mtx_lock' = Unowned
  /\ Goto(t, "un_unpend")
  /\ UNCHANGED <<mtx_recurse, turnstile, td_state, td_locks, v>>

(* turnstile_unpend() makes the pending threads runnable and forgets the   *)
(* owner; turnstile_chain_unlock(); mtx_unlock() returns.                  *)
UnlockUnpend(t) ==
  /\ At(t, "un_unpend")
  /\ td_state' = [u \in Threads |->
                    IF u \in ts_pending THEN "runq" ELSE td_state[u]]
  /\ ts_pending' = {}
  /\ ts_owner' = NoThread
  /\ tc_lock' = NoThread
  /\ td_locks' = [td_locks EXCEPT ![t] = @ - 1]
  /\ Goto(t, "caller")
  /\ UNCHANGED <<mtx_lock, mtx_recurse, ts_blocked, v>>

-----------------------------------------------------------------------------

(* Nobody else may use the mutex from mtx_destroy() to the next mtx_init(). *)
Quiescent(t) ==
  \A u \in Threads \ {t} : pc[u] = "caller" /\ td_locks[u] = 0

(* _mtx_destroy(), of a mutex that is unowned or held once by the caller. *)
Destroy(t) ==
  /\ At(t, "caller")
  /\ Quiescent(t)
  /\ mtx_lock \in {Unowned, Word(t, {})}
  /\ mtx_lock' = Word(MTX_DESTROYED, {})
  /\ td_locks' = [td_locks EXCEPT ![t] =
                    IF mtx_lock.owner = t THEN @ - 1 ELSE @]
  /\ UNCHANGED <<mtx_recurse, turnstile, td_state, v, pc>>

(* _mtx_init() of a destroyed mutex. *)
Reinit(t) ==
  /\ At(t, "caller")
  /\ mtx_lock.owner = MTX_DESTROYED
  /\ mtx_lock' = Unowned
  /\ mtx_recurse' = 0
  /\ UNCHANGED <<turnstile, td_state, td_locks, v, pc>>

(* The scheduler takes a CPU away; a spin lock holder is in a critical     *)
(* section and keeps it.                                                   *)
Preempt(t) ==
  /\ td_state[t] = "running"
  /\ tc_lock # t
  /\ td_state' = [td_state EXCEPT ![t] = "runq"]
  /\ UNCHANGED <<mtx_lock, mtx_recurse, turnstile, td_locks, v, pc>>

Dispatch(t) ==
  /\ td_state[t] = "runq"
  /\ td_state' = [td_state EXCEPT ![t] = "running"]
  /\ UNCHANGED <<mtx_lock, mtx_recurse, turnstile, td_locks, v, pc>>

(* The steps of a thread inside mtx_lock() and mtx_unlock(). *)
Inside(t) ==
  \/ LockSleep(t)
  \/ Obtain(t)
  \/ SpinEnd(t)
  \/ Trywait(t)
  \/ TcRead(t)
  \/ TcRunning(t)
  \/ TcCmpset(t)
  \/ TcWait(t)
  \/ WaitReturn(t)
  \/ UnlockSleep(t)
  \/ UnlockChain(t)
  \/ UnlockBroadcast(t)
  \/ UnlockRelease(t)
  \/ UnlockUnpend(t)

Next ==
  \E t \in Threads :
    \/ Lock(t)
    \/ Trylock(t)
    \/ Unlock(t)
    \/ Destroy(t)
    \/ Reinit(t)
    \/ Inside(t)
    \/ Preempt(t)
    \/ Dispatch(t)

Spec == Init /\ [][Next]_vars

(* Every runnable thread gets a CPU, a thread inside the mutex code gets   *)
(* its next step done however often it is preempted or loses a race for    *)
(* the chain's spin lock, and callers leave their critical sections: they  *)
(* do not lock and unlock for ever above the same depth of recursion.      *)
Fairness ==
  \A t \in Threads :
    /\ SF_vars(Inside(t))
    /\ \A n \in 1 .. MaxRecurse : SF_vars(Unlock(t) /\ td_locks[t] = n)
    /\ WF_vars(Dispatch(t))

FairSpec == Spec /\ Fairness

-----------------------------------------------------------------------------

(* The holds thread t still has: mtx_unlock() gives one up when it stores  *)
(* MTX_UNOWNED, before it has woken the waiters and returned.              *)
Holds(t) == td_locks[t] - (IF pc[t] = "un_unpend" THEN 1 ELSE 0)

(* Ownership as the callers count it and as the lock word, the recursion   *)
(* count and MTX_RECURSED record it agree, whatever other threads do to    *)
(* the flag bits meanwhile; so at most one thread holds the mutex.         *)
HoldAccounting ==
  /\ \A t \in Threads :
       /\ Holds(t) > 0 <=> mtx_lock.owner = t
       /\ mtx_lock.owner = t => mtx_recurse = Holds(t) - 1
  /\ "MTX_RECURSED" \in mtx_lock.flags <=> mtx_recurse > 0

(* No lost wakeup: while a thread is blocked on the turnstile, the word    *)
(* says so (MTX_CONTESTED) to the owner that will have to wake it, and     *)
(* priority is lent to that owner.                                         *)
NoStrandedWaiter ==
  ts_blocked # {} =>
    /\ mtx_lock.owner \in Threads
    /\ "MTX_CONTESTED" \in mtx_lock.flags
    /\ ts_owner = mtx_lock.owner

(* The MPASSes of __mtx_unlock_sleep(), turnstile_broadcast(),             *)
(* turnstile_unpend() and turnstile_wait(): a contested release finds a    *)
(* turnstile with waiters that it owns, and a thread about to block still  *)
(* finds the mutex owned by another thread, the turnstile's owner if the   *)
(* turnstile is in use.                                                    *)
TurnstileAsserts ==
  \A t \in Threads :
    /\ pc[t] = "un_broadcast" => ts_blocked # {} /\ ts_owner = t
    /\ pc[t] \in {"un_release", "un_unpend"} => ts_pending # {} /\ ts_owner = t
    /\ pc[t] = "tc_wait" =>
         /\ mtx_lock.owner \in Threads \ {t}
         /\ ts_blocked # {} => ts_owner = mtx_lock.owner

(* A thread that blocked on the turnstile is made runnable again.          *)
BlockedIsWoken ==
  \A t \in Threads : td_state[t] = "lock" ~> td_state[t] = "runq"

(* Refinement mapping: the holds the callers have. *)
L == INSTANCE AbstractLock WITH
       wheld <- [t \in Threads |-> Holds(t)],
       rheld <- [t \in Threads |-> 0]

(* The mutex, as its callers see it, is an exclusive recursable lock.      *)
ImplementsLock == L!Spec

=============================================================================
