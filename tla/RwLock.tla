------------------------------- MODULE RwLock -------------------------------
(***************************************************************************)
(* One reader/writer lock of sys/kern/kern_rwlock.c, with the inline paths  *)
(* of sys/sys/rwlock.h and the part of the turnstile of                     *)
(* sys/kern/subr_turnstile.c that it uses.                                  *)
(*                                                                          *)
(* A step is one access to memory that other threads may touch.  A loop     *)
(* "read the word; compute; compare-and-set; on failure start over" is one  *)
(* step: its failures change nothing, and its success is decided by the     *)
(* word that the compare-and-set found.  The code under the turnstile chain *)
(* lock keeps its reads, compare-and-sets and stores apart.  The head of a  *)
(* lock loop reads the word and whether its owner runs in one step: an      *)
(* owner may be preempted at any time, so both orders lead to the same      *)
(* states.                                                                  *)
(* ADAPTIVE_RWLOCKS is on, as in an SMP kernel.                             *)
(***************************************************************************)
EXTENDS Naturals, FiniteSets

CONSTANTS
  Threads,         \* the threads that use the lock
  Recursable,      \* LO_RECURSABLE: rw_init_flags() was given RW_RECURSE
  MaxHolds,        \* bound on how deep a caller recurses
  rowner_retries,  \* how often a thread spins on a read-held lock
  ReadElsewhere,   \* threads that hold another rwlock for reading
  Triers,          \* threads whose callers use the rw_try operations
  NoThread         \* NULL

ASSUME RwLockAssumption ==
  /\ Recursable \in BOOLEAN
  /\ MaxHolds \in Nat \ {0}
  /\ rowner_retries \in Nat
  /\ ReadElsewhere \subseteq Threads
  /\ Triers \subseteq Threads
  /\ NoThread \notin Threads

VARIABLES
  rw_lock,         \* the lock word
  rw_recurse,      \* recursion count of the write owner
  tc_lock,         \* who holds the turnstile chain's spin lock
  ts_blocked,      \* the turnstile's two queues
  ts_pending,      \* threads taken off them that wait to be made runnable
  ts_owner,        \* thread that priority is lent to
  td_state,        \* running, on a run queue, or inhibited on a lock
  wheld,           \* write holds of each thread
  rheld,           \* read holds of each thread: its part of td_rw_rlocks
  v,               \* local copy of the lock word
  spintries,       \* local of __rw_rlock() and __rw_wlock_hard()
  pc

vars == <<rw_lock, rw_recurse, tc_lock, ts_blocked, ts_pending, ts_owner,
          td_state, wheld, rheld, v, spintries, pc>>

lock == <<rw_lock, rw_recurse, wheld, rheld>>
queues == <<ts_blocked, ts_pending, ts_owner>>

RW == "RW_LOCK_READ_WAITERS"
WW == "RW_LOCK_WRITE_WAITERS"
WS == "RW_LOCK_WRITE_SPINNER"
RW_LOCK_WAITERS == {RW, WW}

(* The word: RW_LOCK_READ, the owner of a write lock or the number of      *)
(* readers, and the other flags.                                           *)
ReadLocked(n, f) == [read |-> TRUE, owner |-> NoThread, readers |-> n, flags |-> f]
WriteLocked(t, f) == [read |-> FALSE, owner |-> t, readers |-> 0, flags |-> f]
RW_UNLOCKED == ReadLocked(0, {})
RW_DESTROYED == WriteLocked(NoThread, RW_LOCK_WAITERS)

Words ==
  [read : BOOLEAN, owner : Threads \cup {NoThread}, readers : Nat,
   flags : SUBSET {RW, WW, WS}]

Queues == {"shared", "exclusive"}

Locations ==
  {"caller",
   "r_loop", "r_spin", "r_rspin", "r_trywait", "r_tc", "r_run", "r_cas",
   "r_wait", "r_blocked",                        \* __rw_rlock()
   "w_loop", "w_spin", "w_rspin", "w_trywait", "w_tc", "w_run", "w_cas",
   "w_wait", "w_blocked", "claim",               \* __rw_wlock_hard()
   "ru_loop", "ru_chain", "ru_tc", "ru_wake",    \* _rw_runlock_cookie()
   "wu_chain", "wu_tc", "wu_store", "wu_unpend", \* __rw_wunlock_hard()
   "u_loop", "u_trywait", "u_tc", "u_cas",       \* __rw_try_upgrade()
   "d_chain", "d_tc", "d_wake"}                  \* __rw_downgrade()

TypeOK ==
  /\ rw_lock \in Words
  /\ rw_recurse \in Nat
  /\ tc_lock \in Threads \cup {NoThread}
  /\ ts_blocked \in [Queues -> SUBSET Threads]
  /\ ts_pending \subseteq Threads
  /\ ts_owner \in Threads \cup {NoThread}
  /\ td_state \in [Threads -> {"running", "runq", "lock"}]
  /\ wheld \in [Threads -> Nat]
  /\ rheld \in [Threads -> Nat]
  /\ v \in [Threads -> Words]
  /\ spintries \in [Threads -> 0 .. rowner_retries]
  /\ pc \in [Threads -> Locations]

(* _rw_init_flags(). *)
Init ==
  /\ rw_lock = RW_UNLOCKED
  /\ rw_recurse = 0
  /\ tc_lock = NoThread
  /\ ts_blocked = [q \in Queues |-> {}]
  /\ ts_pending = {}
  /\ ts_owner = NoThread
  /\ td_state = [t \in Threads |-> "running"]
  /\ wheld = [t \in Threads |-> 0]
  /\ rheld = [t \in Threads |-> 0]
  /\ v = [t \in Threads |-> RW_UNLOCKED]
  /\ spintries = [t \in Threads |-> 0]
  /\ pc = [t \in Threads |-> "caller"]

-----------------------------------------------------------------------------

At(t, l) == pc[t] = l /\ td_state[t] = "running"

(* Locals are dead outside the stretches that use them. *)
Goto(t, l) ==
  /\ pc' = [pc EXCEPT ![t] = l]
  /\ v' = [v EXCEPT ![t] = RW_UNLOCKED]
  /\ spintries' = IF l = "caller" THEN [spintries EXCEPT ![t] = 0] ELSE spintries

GotoWith(t, l, w) ==
  /\ pc' = [pc EXCEPT ![t] = l]
  /\ v' = [v EXCEPT ![t] = w]
  /\ UNCHANGED spintries

KeepV(t, l) == GotoWith(t, l, v[t])

Return(t) == Goto(t, "caller")

(* TD_IS_RUNNING() of the owner of a write-locked word. *)
OwnerRuns(w) == ~ w.read /\ w.owner \in Threads /\ td_state[w.owner] = "running"

HasRead(t) == rheld[t] > 0 \/ t \in ReadElsewhere   \* td_rw_rlocks # 0

RW_CAN_READ(t, w) ==
  /\ w.read
  /\ HasRead(t) \/ w.flags \cap {WW, WS} = {}

WriteGain(t, f) ==
  /\ rw_lock' = WriteLocked(t, f)
  /\ wheld' = [wheld EXCEPT ![t] = 1]
  /\ UNCHANGED <<rw_recurse, rheld>>

Recurse(t) ==
  /\ rw_recurse' = rw_recurse + 1
  /\ wheld' = [wheld EXCEPT ![t] = @ + 1]
  /\ UNCHANGED <<rw_lock, rheld>>

ReadGain(t) ==
  /\ rw_lock' = [rw_lock EXCEPT !.readers = @ + 1]
  /\ rheld' = [rheld EXCEPT ![t] = @ + 1]
  /\ UNCHANGED <<rw_recurse, wheld>>

SetFlag(f) ==
  /\ rw_lock' = [rw_lock EXCEPT !.flags = @ \cup {f}]
  /\ UNCHANGED <<rw_recurse, wheld, rheld>>

ChainLock(t) ==
  /\ tc_lock = NoThread
  /\ tc_lock' = t
  /\ UNCHANGED queues

ChainUnlock(t) == tc_lock' = NoThread

Cancel(t, l) ==   \* turnstile_cancel()
  /\ ChainUnlock(t)
  /\ Goto(t, l)
  /\ UNCHANGED <<lock, queues, td_state>>

-----------------------------------------------------------------------------

(* rw_rlock(): a caller that holds the write lock is refused by a KASSERT. *)
Rlock(t) ==
  /\ At(t, "caller")
  /\ rw_lock # RW_DESTROYED
  /\ wheld[t] = 0
  /\ rheld[t] < MaxHolds
  /\ Goto(t, "r_loop")
  /\ UNCHANGED <<lock, tc_lock, queues, td_state>>

(* Head of the loop of __rw_rlock(): one more reader, or spin, or block. *)
RlockLoop(t) ==
  /\ At(t, "r_loop")
  /\ \/ /\ RW_CAN_READ(t, rw_lock)
        /\ ReadGain(t)
        /\ Return(t)
     \/ /\ ~ RW_CAN_READ(t, rw_lock)
        /\ \/ OwnerRuns(rw_lock) /\ GotoWith(t, "r_spin", rw_lock)
           \/ /\ rw_lock.read /\ spintries[t] < rowner_retries
              /\ spintries' = [spintries EXCEPT ![t] = @ + 1]
              /\ pc' = [pc EXCEPT ![t] = "r_rspin"]
              /\ UNCHANGED v
           \/ /\ ~ OwnerRuns(rw_lock)
              /\ ~ (rw_lock.read /\ spintries[t] < rowner_retries)
              /\ Goto(t, "r_trywait")
        /\ UNCHANGED lock
  /\ UNCHANGED <<tc_lock, queues, td_state>>

(* Spinning ends when the write owner changes or leaves its CPU. *)
OwnerSpin(t, here, next) ==
  /\ At(t, here)
  /\ ~ (rw_lock.owner = v[t].owner /\ OwnerRuns(v[t]))
  /\ Goto(t, next)
  /\ UNCHANGED <<lock, tc_lock, queues, td_state>>

RlockSpin(t) == OwnerSpin(t, "r_spin", "r_loop")

(* rowner_loops looks at a read-held lock: until a reader may enter or a   *)
(* writer got it, or until the loops are used up.                          *)
RlockReadSpin(t) ==
  /\ At(t, "r_rspin")
  /\ \/ (~ rw_lock.read \/ RW_CAN_READ(t, rw_lock)) /\ Goto(t, "r_loop")
     \/ Goto(t, "r_trywait")
  /\ UNCHANGED <<lock, tc_lock, queues, td_state>>

(* turnstile_trywait(). *)
Trywait(t, here, next) ==
  /\ At(t, here)
  /\ ChainLock(t)
  /\ Goto(t, next)
  /\ UNCHANGED <<lock, td_state>>

RlockTrywait(t) == Trywait(t, "r_trywait", "r_tc")

RlockRead(t) ==
  /\ At(t, "r_tc")
  /\ \/ RW_CAN_READ(t, rw_lock) /\ Cancel(t, "r_loop")
     \/ /\ ~ RW_CAN_READ(t, rw_lock)
        /\ GotoWith(t, "r_run", rw_lock)
        /\ UNCHANGED <<lock, tc_lock, queues, td_state>>

(* Under the chain lock: does the write owner run meanwhile? *)
OwnerCheck(t, here, next, loop) ==
  /\ At(t, here)
  /\ \/ OwnerRuns(v[t]) /\ Cancel(t, loop)
     \/ /\ ~ OwnerRuns(v[t])
        /\ KeepV(t, next)
        /\ UNCHANGED <<lock, tc_lock, queues, td_state>>

RlockRunning(t) == OwnerCheck(t, "r_run", "r_cas", "r_loop")

(* Set a waiters flag, unless the word that was read had it already. *)
FlagCas(t, f, next, loop) ==
  \/ f \notin v[t].flags /\ rw_lock # v[t] /\ Cancel(t, loop)
  \/ /\ f \notin v[t].flags /\ rw_lock = v[t] /\ SetFlag(f)
     /\ Goto(t, next)
     /\ UNCHANGED <<tc_lock, queues, td_state>>
  \/ /\ f \in v[t].flags
     /\ Goto(t, next)
     /\ UNCHANGED <<lock, tc_lock, queues, td_state>>

RlockCas(t) == At(t, "r_cas") /\ FlagCas(t, RW, "r_wait", "r_loop")

(* turnstile_wait(ts, rw_owner(rw), q): join the queue, setting the owner  *)
(* of a new turnstile, drop the chain lock and switch away.                *)
Wait(t, here, q, next) ==
  /\ At(t, here)
  /\ ts_blocked' = [ts_blocked EXCEPT ![q] = @ \cup {t}]
  /\ ts_owner' = IF \A p \in Queues : ts_blocked[p] = {}
                 THEN rw_lock.owner ELSE ts_owner
  /\ td_state' = [td_state EXCEPT ![t] = "lock"]
  /\ ChainUnlock(t)
  /\ Goto(t, next)
  /\ UNCHANGED <<lock, ts_pending>>

RlockWait(t) == Wait(t, "r_wait", "shared", "r_blocked")

RlockResume(t) ==
  /\ At(t, "r_blocked")
  /\ Goto(t, "r_loop")
  /\ UNCHANGED <<lock, tc_lock, queues, td_state>>

(* rw_try_rlock(): writers that wait are not looked at. *)
TryRlock(t) ==
  /\ At(t, "caller")
  /\ t \in Triers
  /\ wheld[t] = 0
  /\ rheld[t] < MaxHolds
  /\ rw_lock.read
  /\ ReadGain(t)
  /\ UNCHANGED <<tc_lock, queues, td_state, v, spintries, pc>>

-----------------------------------------------------------------------------

(* rw_wlock(): one try inline; __rw_wlock_hard() lets the owner recurse.   *)
Wlock(t) ==
  /\ At(t, "caller")
  /\ rw_lock # RW_DESTROYED
  /\ rheld[t] = 0
  /\ wheld[t] < MaxHolds
  /\ \/ rw_lock = RW_UNLOCKED /\ WriteGain(t, {}) /\ Return(t)
     \/ rw_lock.owner = t /\ Recursable /\ Recurse(t) /\ Return(t)
     \/ /\ rw_lock # RW_UNLOCKED /\ rw_lock.owner # t
        /\ Goto(t, "w_loop")
        /\ UNCHANGED lock
  /\ UNCHANGED <<tc_lock, queues, td_state>>

(* A read-held lock on which the writer still spins. *)
MaySpin(t) ==
  rw_lock.read /\ rw_lock.readers > 0 /\ spintries[t] < rowner_retries

(* Head of the loop of __rw_wlock_hard(): take a free lock, or spin on its *)
(* owner, or spin on its readers with RW_LOCK_WRITE_SPINNER set, or block. *)
WlockLoop(t) ==
  /\ At(t, "w_loop")
  /\ \/ rw_lock = RW_UNLOCKED /\ WriteGain(t, {}) /\ Return(t)
     \/ OwnerRuns(rw_lock) /\ GotoWith(t, "w_spin", rw_lock) /\ UNCHANGED lock
     \/ /\ MaySpin(t)
        /\ SetFlag(WS)
        /\ spintries' = [spintries EXCEPT ![t] = @ + 1]
        /\ pc' = [pc EXCEPT ![t] = "w_rspin"]
        /\ UNCHANGED v
     \/ /\ rw_lock # RW_UNLOCKED /\ ~ OwnerRuns(rw_lock) /\ ~ MaySpin(t)
        /\ Goto(t, "w_trywait")
        /\ UNCHANGED lock
  /\ UNCHANGED <<tc_lock, queues, td_state>>

WlockSpin(t) == OwnerSpin(t, "w_spin", "w_loop")

(* rowner_loops looks for RW_LOCK_WRITE_SPINNER to go away. *)
WlockReadSpin(t) ==
  /\ At(t, "w_rspin")
  /\ \/ WS \notin rw_lock.flags /\ Goto(t, "w_loop")
     \/ Goto(t, "w_trywait")
  /\ UNCHANGED <<lock, tc_lock, queues, td_state>>

WlockTrywait(t) == Trywait(t, "w_trywait", "w_tc")

WlockRead(t) ==
  /\ At(t, "w_tc")
  /\ GotoWith(t, "w_run", rw_lock)
  /\ UNCHANGED <<lock, tc_lock, queues, td_state>>

WlockRunning(t) == OwnerCheck(t, "w_run", "w_cas", "w_loop")

(* Take a lock that was left free with threads on a queue, keeping their   *)
(* flags and claiming the turnstile; or set RW_LOCK_WRITE_WAITERS.         *)
WlockCas(t) ==
  /\ At(t, "w_cas")
  /\ \/ /\ v[t].read /\ v[t].readers = 0
        /\ \/ rw_lock # v[t] /\ Cancel(t, "w_loop")
           \/ /\ rw_lock = v[t]
              /\ WriteGain(t, v[t].flags \cap RW_LOCK_WAITERS)
              /\ IF v[t].flags \cap RW_LOCK_WAITERS # {}
                 THEN Goto(t, "claim") /\ UNCHANGED tc_lock
                 ELSE Return(t) /\ ChainUnlock(t)
              /\ UNCHANGED <<queues, td_state>>
     \/ ~ (v[t].read /\ v[t].readers = 0) /\ FlagCas(t, WW, "w_wait", "w_loop")

Claim_Forgotten(t) ==   \* mutation: turnstile_cancel() in its place
  /\ At(t, "claim")
  /\ Cancel(t, "caller")

(* turnstile_claim(): priority is lent to the new owner. *)
Claim(t) ==
  /\ At(t, "claim")
  /\ ts_owner' = t
  /\ ChainUnlock(t)
  /\ Return(t)
  /\ UNCHANGED <<lock, ts_blocked, ts_pending, td_state>>

WlockWait(t) == Wait(t, "w_wait", "exclusive", "w_blocked")

WlockResume(t) ==
  /\ At(t, "w_blocked")
  /\ pc' = [pc EXCEPT ![t] = "w_loop"]
  /\ spintries' = [spintries EXCEPT ![t] = 0]
  /\ UNCHANGED <<v, lock, tc_lock, queues, td_state>>

(* rw_try_wlock(); a failed try changes nothing. *)
TryWlock(t) ==
  /\ At(t, "caller")
  /\ t \in Triers
  /\ wheld[t] < MaxHolds
  /\ \/ rw_lock.owner = t /\ Recursable /\ Recurse(t)
     \/ rw_lock = RW_UNLOCKED /\ WriteGain(t, {})
  /\ UNCHANGED <<tc_lock, queues, td_state, v, spintries, pc>>

-----------------------------------------------------------------------------

ReadDrop(t, w) ==
  /\ rw_lock' = w
  /\ rheld' = [rheld EXCEPT ![t] = @ - 1]
  /\ UNCHANGED <<rw_recurse, wheld>>

(* The loop of _rw_runlock_cookie(). *)
RunlockLoop(t) ==
  /\ \/ /\ rw_lock.readers > 1
        /\ ReadDrop(t, [rw_lock EXCEPT !.readers = @ - 1])
        /\ Return(t)
     \/ /\ rw_lock.readers <= 1 /\ rw_lock.flags \cap RW_LOCK_WAITERS = {}
        /\ ReadDrop(t, RW_UNLOCKED)
        /\ Return(t)
     \/ /\ rw_lock.readers <= 1 /\ rw_lock.flags \cap RW_LOCK_WAITERS # {}
        /\ Goto(t, "ru_chain")
        /\ UNCHANGED lock
  /\ UNCHANGED <<tc_lock, queues, td_state>>

Runlock(t) == At(t, "caller") /\ rheld[t] > 0 /\ RunlockLoop(t)

RunlockAgain(t) == At(t, "ru_loop") /\ RunlockLoop(t)

(* turnstile_chain_lock(), and the read of the flags that follows it. *)
RunlockChain(t) ==
  /\ At(t, "ru_chain")
  /\ ChainLock(t)
  /\ GotoWith(t, "ru_tc", rw_lock)
  /\ UNCHANGED <<lock, td_state>>

(* The queue that a release wakes, given the flags it saw, and the word it *)
(* leaves: writers first, and then waiting readers keep their flag.        *)
WakeQueue(f) == IF WW \in f THEN "exclusive" ELSE "shared"

Released_Bare(f) == RW_UNLOCKED   \* mutation: no flag kept

Released(f) == IF WW \in f THEN ReadLocked(0, f \cap {RW}) ELSE RW_UNLOCKED

RunlockCas_Blind(t) ==   \* mutation: a new reader goes unnoticed
  /\ At(t, "ru_tc")
  /\ ReadDrop(t, Released(rw_lock.flags))
  /\ GotoWith(t, "ru_wake", rw_lock)
  /\ UNCHANGED <<tc_lock, queues, td_state>>

(* Release if still the only reader, with the flags that were read. *)
RunlockCas(t) ==
  /\ At(t, "ru_tc")
  /\ \/ /\ rw_lock = ReadLocked(1, v[t].flags)
        /\ ReadDrop(t, Released(v[t].flags))
        /\ KeepV(t, "ru_wake")
        /\ UNCHANGED <<tc_lock, queues, td_state>>
     \/ rw_lock # ReadLocked(1, v[t].flags) /\ Cancel(t, "ru_loop")

(* turnstile_broadcast(q), turnstile_unpend() and turnstile_chain_unlock(), *)
(* with nothing in between that other threads see.                          *)
Wake(t, q) ==
  /\ td_state' = [u \in Threads |->
                    IF u \in ts_blocked[q] THEN "runq" ELSE td_state[u]]
  /\ ts_blocked' = [ts_blocked EXCEPT ![q] = {}]
  /\ ts_owner' = NoThread
  /\ ChainUnlock(t)
  /\ UNCHANGED ts_pending

RunlockWake_Readers(t) ==   \* mutation: always the shared queue
  /\ At(t, "ru_wake")
  /\ Wake(t, "shared")
  /\ Return(t)
  /\ UNCHANGED lock

RunlockWake(t) ==
  /\ At(t, "ru_wake")
  /\ Wake(t, WakeQueue(v[t].flags))
  /\ Return(t)
  /\ UNCHANGED lock

-----------------------------------------------------------------------------

(* rw_wunlock(): unrecurse, or one try inline, else __rw_wunlock_hard(). *)
Wunlock(t) ==
  /\ At(t, "caller")
  /\ wheld[t] > 0
  /\ \/ /\ rw_recurse > 0
        /\ rw_recurse' = rw_recurse - 1
        /\ wheld' = [wheld EXCEPT ![t] = @ - 1]
        /\ Return(t)
        /\ UNCHANGED <<rw_lock, rheld>>
     \/ /\ rw_recurse = 0 /\ rw_lock = WriteLocked(t, {})
        /\ rw_lock' = RW_UNLOCKED
        /\ wheld' = [wheld EXCEPT ![t] = 0]
        /\ Return(t)
        /\ UNCHANGED <<rw_recurse, rheld>>
     \/ /\ rw_recurse = 0 /\ rw_lock # WriteLocked(t, {})
        /\ Goto(t, "wu_chain")
        /\ UNCHANGED lock
  /\ UNCHANGED <<tc_lock, queues, td_state>>

WunlockChain(t) ==
  /\ At(t, "wu_chain")
  /\ ChainLock(t)
  /\ Goto(t, "wu_tc")
  /\ UNCHANGED <<lock, td_state>>

(* Choose a queue by the flags and put all its threads on ts_pending. *)
WunlockBroadcast(t) ==
  /\ At(t, "wu_tc")
  /\ LET q == WakeQueue(rw_lock.flags)
     IN /\ ts_pending' = ts_pending \cup ts_blocked[q]
        /\ ts_blocked' = [ts_blocked EXCEPT ![q] = {}]
  /\ GotoWith(t, "wu_store", rw_lock)
  /\ UNCHANGED <<lock, tc_lock, ts_owner, td_state>>

(* The release is a plain store. *)
WunlockStore(t) ==
  /\ At(t, "wu_store")
  /\ rw_lock' = Released(v[t].flags)
  /\ wheld' = [wheld EXCEPT ![t] = 0]
  /\ KeepV(t, "wu_unpend")
  /\ UNCHANGED <<rw_recurse, rheld, tc_lock, queues, td_state>>

WunlockUnpend(t) ==
  /\ At(t, "wu_unpend")
  /\ td_state' = [u \in Threads |->
                    IF u \in ts_pending THEN "runq" ELSE td_state[u]]
  /\ ts_pending' = {}
  /\ ts_owner' = NoThread
  /\ ChainUnlock(t)
  /\ Return(t)
  /\ UNCHANGED <<lock, ts_blocked>>

-----------------------------------------------------------------------------

ReadToWrite(t, f) ==
  /\ rw_lock' = WriteLocked(t, f)
  /\ rheld' = [rheld EXCEPT ![t] = @ - 1]
  /\ wheld' = [wheld EXCEPT ![t] = 1]
  /\ UNCHANGED rw_recurse

UpgradeLoop_AnyReaders(t) ==   \* mutation: other readers are not looked for
  /\ \/ rw_lock.flags \cap RW_LOCK_WAITERS = {} /\ ReadToWrite(t, {}) /\ Return(t)
     \/ /\ rw_lock.flags \cap RW_LOCK_WAITERS # {}
        /\ Goto(t, "u_trywait") /\ UNCHANGED lock
  /\ UNCHANGED <<tc_lock, queues, td_state>>

(* The loop of rw_try_upgrade(): fail, or become the writer, or lock the   *)
(* turnstile first because of waiters.                                     *)
UpgradeLoop(t) ==
  /\ \/ rw_lock.readers > 1 /\ Return(t) /\ UNCHANGED lock
     \/ /\ rw_lock.readers <= 1 /\ rw_lock.flags \cap RW_LOCK_WAITERS = {}
        /\ ReadToWrite(t, {})
        /\ Return(t)
     \/ /\ rw_lock.readers <= 1 /\ rw_lock.flags \cap RW_LOCK_WAITERS # {}
        /\ Goto(t, "u_trywait")
        /\ UNCHANGED lock
  /\ UNCHANGED <<tc_lock, queues, td_state>>

TryUpgrade(t) ==
  At(t, "caller") /\ t \in Triers /\ rheld[t] > 0 /\ UpgradeLoop(t)

UpgradeAgain(t) == At(t, "u_loop") /\ UpgradeLoop(t)

UpgradeTrywait(t) == Trywait(t, "u_trywait", "u_tc")

UpgradeRead(t) ==
  /\ At(t, "u_tc")
  /\ \/ rw_lock.readers > 1 /\ Cancel(t, "caller")
     \/ /\ rw_lock.readers <= 1
        /\ GotoWith(t, "u_cas", rw_lock)
        /\ UNCHANGED <<lock, tc_lock, queues, td_state>>

(* Of the word that was read the waiters flags stay, and they always do    *)
(* have waiters: a flag is only cleared under the chain lock.              *)
UpgradeCas(t) ==
  /\ At(t, "u_cas")
  /\ \/ rw_lock # v[t] /\ Cancel(t, "u_loop")
     \/ /\ rw_lock = v[t]
        /\ ReadToWrite(t, v[t].flags \cap RW_LOCK_WAITERS)
        /\ Goto(t, "claim")
        /\ UNCHANGED <<tc_lock, queues, td_state>>

(* rw_downgrade() of a write hold that is not recursed. *)
Downgrade(t) ==
  /\ At(t, "caller")
  /\ wheld[t] = 1
  /\ \/ /\ rw_lock = WriteLocked(t, {})
        /\ rw_lock' = ReadLocked(1, {})
        /\ wheld' = [wheld EXCEPT ![t] = 0]
        /\ rheld' = [rheld EXCEPT ![t] = 1]
        /\ Return(t)
        /\ UNCHANGED rw_recurse
     \/ /\ rw_lock # WriteLocked(t, {})
        /\ Goto(t, "d_chain")
        /\ UNCHANGED lock
  /\ UNCHANGED <<tc_lock, queues, td_state>>

DowngradeChain(t) ==
  /\ At(t, "d_chain")
  /\ ChainLock(t)
  /\ GotoWith(t, "d_tc", rw_lock)
  /\ UNCHANGED <<lock, td_state>>

(* Waiting writers keep all waiters flags set. *)
DowngradeStore(t) ==
  /\ At(t, "d_tc")
  /\ rw_lock' = ReadLocked(1, IF WW \in v[t].flags
                              THEN v[t].flags \cap RW_LOCK_WAITERS ELSE {})
  /\ wheld' = [wheld EXCEPT ![t] = 0]
  /\ rheld' = [rheld EXCEPT ![t] = 1]
  /\ KeepV(t, "d_wake")
  /\ UNCHANGED <<rw_recurse, tc_lock, queues, td_state>>

(* turnstile_disown() and turnstile_chain_unlock(). *)
Disown(t) ==
  /\ ts_owner' = NoThread
  /\ ChainUnlock(t)
  /\ UNCHANGED <<ts_blocked, ts_pending, td_state>>

(* Wake the readers if no writer waits. *)
DowngradeWake(t) ==
  /\ At(t, "d_wake")
  /\ \/ WW \notin v[t].flags /\ Wake(t, "shared")
     \/ WW \in v[t].flags /\ Disown(t)
  /\ Return(t)
  /\ UNCHANGED lock

-----------------------------------------------------------------------------

(* Nobody may use the lock from rw_destroy() to the next rw_init(). *)
Destroy(t) ==
  /\ At(t, "caller")
  /\ \A u \in Threads : pc[u] = "caller"
  /\ rw_lock = RW_UNLOCKED
  /\ rw_lock' = RW_DESTROYED
  /\ UNCHANGED <<rw_recurse, tc_lock, queues, td_state, wheld, rheld, v,
                 spintries, pc>>

Reinit(t) ==
  /\ At(t, "caller")
  /\ rw_lock = RW_DESTROYED
  /\ rw_lock' = RW_UNLOCKED
  /\ rw_recurse' = 0
  /\ UNCHANGED <<tc_lock, queues, td_state, wheld, rheld, v, spintries, pc>>

(* A CPU is taken away and given back; a spin lock holder keeps its CPU. *)
Preempt(t) ==
  /\ td_state[t] = "running"
  /\ tc_lock # t
  /\ td_state' = [td_state EXCEPT ![t] = "runq"]
  /\ UNCHANGED <<lock, tc_lock, queues, v, spintries, pc>>

Dispatch(t) ==
  /\ td_state[t] = "runq"
  /\ td_state' = [td_state EXCEPT ![t] = "running"]
  /\ UNCHANGED <<lock, tc_lock, queues, v, spintries, pc>>

(* The steps of a thread inside the rwlock code. *)
Inside(t) ==
  \/ RlockLoop(t) \/ RlockSpin(t) \/ RlockReadSpin(t) \/ RlockTrywait(t)
  \/ RlockRead(t) \/ RlockRunning(t) \/ RlockCas(t) \/ RlockWait(t)
  \/ RlockResume(t)
  \/ WlockLoop(t) \/ WlockSpin(t) \/ WlockReadSpin(t) \/ WlockTrywait(t)
  \/ WlockRead(t) \/ WlockRunning(t) \/ WlockCas(t) \/ WlockWait(t)
  \/ WlockResume(t) \/ Claim(t)
  \/ RunlockAgain(t) \/ RunlockChain(t) \/ RunlockCas(t) \/ RunlockWake(t)
  \/ WunlockChain(t) \/ WunlockBroadcast(t) \/ WunlockStore(t)
  \/ WunlockUnpend(t)
  \/ UpgradeAgain(t) \/ UpgradeTrywait(t) \/ UpgradeRead(t) \/ UpgradeCas(t)
  \/ DowngradeChain(t) \/ DowngradeStore(t) \/ DowngradeWake(t)

Next ==
  \E t \in Threads :
    \/ Rlock(t) \/ TryRlock(t) \/ Runlock(t)
    \/ Wlock(t) \/ TryWlock(t) \/ Wunlock(t)
    \/ TryUpgrade(t) \/ Downgrade(t)
    \/ Destroy(t) \/ Reinit(t)
    \/ Inside(t)
    \/ Preempt(t) \/ Dispatch(t)

Spec == Init /\ [][Next]_vars

(* Runnable threads get a CPU, a thread inside the rwlock code gets its    *)
(* next step done however often it is preempted or loses the race for the  *)
(* chain's spin lock, and callers leave their critical sections.           *)
Fairness ==
  \A t \in Threads :
    /\ SF_vars(Inside(t))
    /\ SF_vars(Runlock(t) \/ Wunlock(t))
    /\ WF_vars(Dispatch(t))

FairSpec == Spec /\ Fairness

-----------------------------------------------------------------------------

(* Every read hold of every caller, one by one. *)
ReadHolds == UNION {{t} \X (1 .. rheld[t]) : t \in Threads}

(* The word and the holds of the callers agree: an owner is the thread     *)
(* with write holds, rw_recurse deep, the reader count is the number of    *)
(* read holds, and a write spinner flag is only seen beside readers.       *)
HoldAccounting ==
  /\ TypeOK
  /\ \A t \in Threads :
       /\ wheld[t] > 0 <=> rw_lock.owner = t
       /\ wheld[t] > 0 => rw_recurse = wheld[t] - 1
  /\ rw_lock.readers = Cardinality(ReadHolds)
  /\ WS \in rw_lock.flags => rw_lock.readers > 0

(* A queue that a thread under the chain lock is about to wake. *)
AboutToWake(q) ==
  \E t \in Threads :
    \/ pc[t] = "ru_wake" /\ WakeQueue(v[t].flags) = q
    \/ pc[t] = "d_wake" /\ WW \notin v[t].flags /\ q = "shared"

(* A writer in __rw_wlock_hard() that nobody has to wake. *)
ActiveWriter(t) ==
  \/ pc[t] \in {"w_loop", "w_spin", "w_rspin", "w_trywait", "w_tc", "w_run",
               "w_cas"}
  \/ pc[t] = "w_blocked" /\ t \notin ts_blocked["exclusive"]

(* No lost wakeup: threads on a queue have their flag in the word, so that *)
(* whoever releases the lock sees them, or are being woken already; and a  *)
(* lock left free with threads still on a queue has a writer on its way    *)
(* that will take the lock and wake them when it is done.                  *)
NoStrandedWaiter ==
  /\ ts_blocked["exclusive"] # {} =>
       WW \in rw_lock.flags \/ AboutToWake("exclusive")
  /\ ts_blocked["shared"] # {} => RW \in rw_lock.flags \/ AboutToWake("shared")
  /\ rw_lock.read /\ rw_lock.readers = 0 /\ (\E q \in Queues : ts_blocked[q] # {}) =>
       \/ \E q \in Queues : ts_blocked[q] # {} /\ AboutToWake(q)
       \/ \E t \in Threads : ActiveWriter(t)

(* The MPASSes and KASSERTs: __rw_wunlock_hard(), the hard paths of        *)
(* rw_runlock() and rw_downgrade(), turnstile_broadcast() and              *)
(* turnstile_claim() find waiters; a turnstile belongs to the write owner  *)
(* or to nobody, and a thread about to block names its actual owner.       *)
TurnstileAsserts ==
  \A t \in Threads :
    /\ pc[t] = "wu_chain" => rw_lock.flags \cap RW_LOCK_WAITERS # {}
    /\ pc[t] = "wu_tc" => ts_blocked[WakeQueue(rw_lock.flags)] # {} /\ ts_owner = t
    /\ pc[t] = "wu_unpend" => ts_pending # {}
    /\ pc[t] = "ru_tc" => v[t].flags \cap RW_LOCK_WAITERS # {}
    /\ pc[t] = "ru_wake" => ts_blocked[WakeQueue(v[t].flags)] # {} /\ ts_owner = NoThread
    /\ pc[t] = "d_tc" => v[t].flags \cap RW_LOCK_WAITERS # {}
    /\ pc[t] = "d_wake" => ts_owner = t /\ \E q \in Queues : ts_blocked[q] # {}
    /\ pc[t] = "claim" => \E q \in Queues : ts_blocked[q] # {}
    /\ pc[t] \in {"r_wait", "w_wait"} /\ (\E q \in Queues : ts_blocked[q] # {})
         => ts_owner = rw_lock.owner

(* The rwlock is a lock: writers exclude everybody, readers only writers,  *)
(* and upgrade and downgrade leave no window.                              *)
Abstract == INSTANCE AbstractLock
ImplementsLock == Abstract!Spec

(* Blocked writers are woken, and all at once: rw_rlock() cannot keep the  *)
(* lock from them for ever, for their flag keeps new readers out.  Blocked *)
(* readers are woken too, unless writers keep coming.                      *)
WaitersAreWoken ==
  /\ []<>(ts_blocked["exclusive"] = {})
  /\ []<>(\/ ts_blocked["shared"] = {}
          \/ \E u \in Threads : wheld[u] > 0 \/ ActiveWriter(u))

=============================================================================
