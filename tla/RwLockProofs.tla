---------------------------- MODULE RwLockProofs ----------------------------
(***************************************************************************)
(* Proofs about RwLock, for any set of threads and any bounds: the          *)
(* invariants of the run rwlock_safety, and that the rwlock implements      *)
(* AbstractLock.                                                            *)
(*                                                                          *)
(* The waiters flags of the word change only under the turnstile chain      *)
(* lock; while one is set the owner of the word stays, and a lock that is   *)
(* held is not freed, but under that lock too.  So what a thread has read   *)
(* under the chain lock stays true of the flags (ThreadInv), and a flag is  *)
(* set exactly for a queue with threads, but between the steps of the one   *)
(* that holds the chain lock (FlagInv).                                     *)
(*                                                                          *)
(* The proof has two halves, after that: OutsideStep for the steps of       *)
(* threads that are off the chain lock, and ChainStep for those of the one  *)
(* that holds it.                                                           *)
(***************************************************************************)
EXTENDS RwLock, FiniteSetTheorems, TLAPS

Waiters(w) == w.flags \cap RW_LOCK_WAITERS
Free(w) == w.read /\ w.readers = 0
SomeBlocked == ts_blocked["shared"] # {} \/ ts_blocked["exclusive"] # {}

(* Where a thread holds the turnstile chain lock. *)
UnderChain ==
  {"r_tc", "r_run", "r_cas", "r_wait", "w_tc", "w_run", "w_cas", "w_wait",
   "claim", "ru_tc", "ru_wake", "wu_tc", "wu_store", "wu_unpend", "u_tc",
   "u_cas", "d_tc", "d_wake"}

(* Where it has read the word under the chain lock. *)
HasRead_v == {"r_run", "r_cas", "w_run", "w_cas", "ru_tc", "wu_store", "u_cas", "d_tc"}

WordInv ==
  /\ rw_lock.read => rw_lock.owner = NoThread
  /\ ~ rw_lock.read => rw_lock.readers = 0
  /\ ~ rw_lock.read /\ rw_lock.owner = NoThread =>
       rw_lock = RW_DESTROYED /\ \A t \in Threads : pc[t] = "caller"
  /\ WS \in rw_lock.flags => rw_lock.readers > 0
  /\ Free(rw_lock) => WW \notin rw_lock.flags

HoldInv ==
  /\ \A t \in Threads :
       /\ wheld[t] > 0 <=> rw_lock.owner = t
       /\ wheld[t] > 0 => rw_recurse = wheld[t] - 1
  /\ rw_lock.owner = NoThread => rw_recurse = 0
  /\ IsFiniteSet(ReadHolds)
  /\ rw_lock.readers = Cardinality(ReadHolds)

(* The threads on the queues, and those that a release took off them. *)
Queued ==
  /\ \A t \in ts_blocked["shared"] : pc[t] = "r_blocked" /\ td_state[t] = "lock"
  /\ \A t \in ts_blocked["exclusive"] : pc[t] = "w_blocked" /\ td_state[t] = "lock"
  /\ \A t \in ts_pending :
       /\ pc[t] \in {"r_blocked", "w_blocked"} /\ td_state[t] = "lock"
       /\ t \notin ts_blocked["shared"] /\ t \notin ts_blocked["exclusive"]

BlockedInv ==
  /\ Queued
  /\ ts_pending # {} => \E t \in Threads : pc[t] \in {"wu_store", "wu_unpend"}

(* What a thread knows of its holds and of the flags. *)
Knows(t) ==
  /\ pc[t] \in {"ru_loop", "ru_chain", "ru_tc", "u_loop", "u_trywait", "u_tc",
                "u_cas", "d_wake"} => rheld[t] > 0
  /\ pc[t] \in {"wu_chain", "wu_tc", "wu_store", "d_chain", "d_tc", "claim"} =>
       rw_lock.owner = t
  /\ pc[t] \in {"wu_chain", "wu_tc", "wu_store", "d_chain", "d_tc"} => rw_recurse = 0
  /\ pc[t] \in {"ru_chain", "u_trywait", "u_tc", "wu_chain", "wu_tc", "d_chain"} =>
       Waiters(rw_lock) # {}

(* What it has read under the chain lock is still so. *)
Snapshot(t) ==
  /\ pc[t] \in HasRead_v => /\ Waiters(v[t]) = Waiters(rw_lock)
                            /\ Waiters(v[t]) # {} /\ ~ Free(v[t]) => ~ Free(rw_lock)
  /\ pc[t] \in {"ru_tc", "wu_store", "u_cas", "d_tc"} => Waiters(v[t]) # {}
  /\ pc[t] \in {"r_run", "r_cas"} => ~ Free(v[t])
  /\ pc[t] = "u_cas" => v[t].readers <= 1
  /\ pc[t] \in {"r_wait", "w_wait"} => ~ Free(rw_lock)

(* The two-step wakeups. *)
Waking(t) ==
  /\ pc[t] = "wu_store" =>
       /\ ts_blocked[WakeQueue(v[t].flags)] = {}
       /\ ts_pending # {}
       /\ WW \in v[t].flags => \A u \in ts_pending : pc[u] = "w_blocked"
  /\ pc[t] = "wu_unpend" =>
       /\ ts_pending # {}
       /\ SomeBlocked => rw_lock.owner = NoThread
  /\ pc[t] = "ru_wake" =>
       /\ ts_blocked[WakeQueue(v[t].flags)] # {}
       /\ ts_owner = NoThread
       /\ WW \in v[t].flags /\ ts_blocked["shared"] # {} => rw_lock.owner = NoThread
       /\ WW \notin v[t].flags => ts_blocked["exclusive"] = {}
  /\ pc[t] = "d_wake" =>
       /\ ts_owner = t
       /\ SomeBlocked
       /\ WW \notin v[t].flags => ts_blocked["shared"] # {} /\ ts_blocked["exclusive"] = {}
  /\ pc[t] = "claim" => SomeBlocked

ThreadInv(t) ==
  /\ tc_lock = t <=> pc[t] \in UnderChain
  /\ Knows(t) /\ Snapshot(t) /\ Waking(t)

Joining(q) ==
  \E t \in Threads : pc[t] = IF q = "shared" THEN "r_wait" ELSE "w_wait"
Taken(q) ==
  \E t \in Threads : pc[t] = "wu_store" /\ WakeQueue(v[t].flags) = q

(* The flag of a queue is set for the threads on it. *)
FlagInv(f, q) ==
  rw_lock # RW_DESTROYED =>
    (f \in rw_lock.flags <=> \/ ts_blocked[q] # {} /\ ~ AboutToWake(q)
                             \/ Joining(q) \/ Taken(q))

OwnerInv ==
  /\ SomeBlocked
  /\ \A t \in Threads : pc[t] \notin {"ru_wake", "wu_unpend", "d_wake", "claim"}
  => ts_owner = rw_lock.owner

WriterComes ==
  Free(rw_lock) /\ SomeBlocked =>
    \/ \E q \in Queues : ts_blocked[q] # {} /\ AboutToWake(q)
    \/ \E t \in Threads : ActiveWriter(t)

IInv ==
  /\ TypeOK /\ WordInv /\ HoldInv /\ BlockedInv
  /\ \A t \in Threads : ThreadInv(t)
  /\ FlagInv(RW, "shared") /\ FlagInv(WW, "exclusive")
  /\ OwnerInv
  /\ WriterComes

-----------------------------------------------------------------------------
(***************************************************************************)
(* Counting the read holds.                                                *)
(***************************************************************************)

(* One more read hold of a thread is one more read hold.                   *)
LEMMA HoldsUp ==
  ASSUME rheld \in [Threads -> Nat], IsFiniteSet(ReadHolds), NEW t \in Threads,
         rheld' = [rheld EXCEPT ![t] = @ + 1]
  PROVE  /\ IsFiniteSet(ReadHolds')
         /\ Cardinality(ReadHolds') = Cardinality(ReadHolds) + 1
<1> DEFINE x == <<t, rheld[t] + 1>>
<1>1. x \notin ReadHolds
  BY DEF ReadHolds
<1>2. ReadHolds' = ReadHolds \cup {x}
  BY DEF ReadHolds
<1> QED BY <1>1, <1>2, FS_AddElement, FS_CardinalityType

(* One read hold of a thread less is one read hold less.                   *)
LEMMA HoldsDown ==
  ASSUME rheld \in [Threads -> Nat], IsFiniteSet(ReadHolds), NEW t \in Threads,
         rheld[t] > 0, rheld' = [rheld EXCEPT ![t] = @ - 1]
  PROVE  /\ IsFiniteSet(ReadHolds')
         /\ Cardinality(ReadHolds) > 0
         /\ Cardinality(ReadHolds') = Cardinality(ReadHolds) - 1
<1> DEFINE x == <<t, rheld[t]>>
<1>1. x \in ReadHolds
  BY DEF ReadHolds
<1>2. ReadHolds' = ReadHolds \ {x}
  BY DEF ReadHolds
<1>3. Cardinality(ReadHolds) > 0
  BY <1>1, FS_EmptySet, FS_CardinalityType
<1> QED BY <1>1, <1>2, <1>3, FS_RemoveElement, FS_CardinalityType

(* A thread with a read hold is counted; a second thread, or a second hold *)
(* of it, makes two.                                                       *)
LEMMA HoldsCounted ==
  ASSUME rheld \in [Threads -> Nat], IsFiniteSet(ReadHolds), NEW t \in Threads,
         rheld[t] > 0
  PROVE  /\ Cardinality(ReadHolds) > 0
         /\ rheld[t] > 1 => Cardinality(ReadHolds) > 1
         /\ \A u \in Threads : u # t /\ rheld[u] > 0 => Cardinality(ReadHolds) > 1
<1> DEFINE x == <<t, 1>>
<1>1. x \in ReadHolds
  BY DEF ReadHolds
<1>2. Cardinality(ReadHolds) > 0
  BY <1>1, FS_EmptySet, FS_CardinalityType
<1>3. ASSUME NEW y \in ReadHolds, y # x
      PROVE  Cardinality(ReadHolds) > 1
  <2>1. IsFiniteSet(ReadHolds \ {x}) /\ Cardinality(ReadHolds \ {x}) = Cardinality(ReadHolds) - 1
    BY <1>1, FS_RemoveElement
  <2>2. Cardinality(ReadHolds \ {x}) # 0
    BY <1>3, <2>1, FS_EmptySet
  <2> QED BY <1>2, <2>1, <2>2, FS_CardinalityType
<1>4. rheld[t] > 1 => <<t, 2>> \in ReadHolds
  BY DEF ReadHolds
<1>5. \A u \in Threads : rheld[u] > 0 => <<u, 1>> \in ReadHolds
  BY DEF ReadHolds
<1>6. <<t, 2>> # x /\ \A u \in Threads : u # t => <<u, 1>> # x
  OBVIOUS
<1> HIDE DEF x
<1> QED BY <1>2, <1>3, <1>4, <1>5, <1>6


(* The callers' holds as the word shows them: with readers there is no     *)
(* owner, with an owner there are no readers, and a count of one is the    *)
(* only hold of the only reader.                                           *)
LEMMA ReaderFacts ==
  ASSUME TypeOK, WordInv, HoldInv, NEW t \in Threads
  PROVE  /\ rheld[t] > 0 =>
              /\ rw_lock.read /\ rw_lock.readers > 0 /\ rw_lock.owner = NoThread
              /\ rw_lock.readers <= 1 =>
                   /\ rheld[t] = 1 /\ rw_lock.readers = 1
                   /\ \A u \in Threads : u # t => rheld[u] = 0
         /\ rw_lock.readers = 0 => rheld[t] = 0
         /\ rw_lock.owner = t => ~ rw_lock.read /\ rw_lock.readers = 0 /\ wheld[t] = rw_recurse + 1
         /\ rw_lock.owner # t => wheld[t] = 0
<1> USE DEF TypeOK, WordInv, HoldInv
<1>1. /\ rw_lock.read \in BOOLEAN
      /\ rw_lock.readers \in Nat
      /\ rw_lock.owner \in Threads \cup {NoThread}
  BY DEF Words
<1>2. rheld[t] > 0 => /\ Cardinality(ReadHolds) > 0
                      /\ rheld[t] > 1 => Cardinality(ReadHolds) > 1
                      /\ \A u \in Threads : u # t /\ rheld[u] > 0 => Cardinality(ReadHolds) > 1
  BY HoldsCounted
<1> QED BY <1>1, <1>2, RwLockAssumption

-----------------------------------------------------------------------------
(***************************************************************************)
(* Steps of a thread that is not, and does not come, under the chain lock. *)
(* The waiters flags stay; while one is set, the owner stays too, and the  *)
(* lock does not become free.                                              *)
(***************************************************************************)

OutsideMove(t) ==
  /\ td_state[t] # "lock" /\ td_state'[t] # "lock"
  /\ pc[t] \notin UnderChain /\ pc'[t] \notin UnderChain
  /\ UNCHANGED <<tc_lock, queues>>
  /\ \A u \in Threads : u # t => /\ pc'[u] = pc[u] /\ v'[u] = v[u]
                                 /\ td_state'[u] = td_state[u] /\ rheld'[u] = rheld[u]

OutsideWord(t) ==
  /\ rw_lock' = RW_DESTROYED <=> rw_lock = RW_DESTROYED
  /\ Waiters(rw_lock') = Waiters(rw_lock)
  /\ Waiters(rw_lock) # {} => /\ rw_lock'.owner = rw_lock.owner
                              /\ Free(rw_lock') => Free(rw_lock)
  /\ \A u \in Threads : u # t /\ rw_lock.owner = u =>
                          rw_lock'.owner = u /\ rw_recurse' = rw_recurse

(* A destroyed lock has no waiters and nobody inside.                      *)
LEMMA DestroyedIdle ==
  ASSUME IInv, rw_lock = RW_DESTROYED
  PROVE  \A u \in Threads : pc[u] = "caller"
BY DEF IInv, WordInv, RW_DESTROYED, WriteLocked

(* Threads on a queue show in the word unless they are being woken.        *)
LEMMA BlockedShow ==
  ASSUME IInv, SomeBlocked,
         \A t \in Threads : pc[t] \notin {"ru_wake", "d_wake"}
  PROVE  Waiters(rw_lock) # {}
<1>1. rw_lock # RW_DESTROYED
  BY DestroyedIdle DEF IInv, TypeOK, Queues, SomeBlocked, BlockedInv, Queued
<1>2. \A q \in Queues : ~ AboutToWake(q)
  BY DEF AboutToWake
<1> QED BY <1>1, <1>2 DEF IInv, FlagInv, SomeBlocked, Queues, Waiters, RW_LOCK_WAITERS

(* A step off the chain lock keeps the invariant if it keeps what the      *)
(* word, the holds and its own thread must know.                           *)
LEMMA OutsideStep ==
  ASSUME IInv, NEW t \in Threads, OutsideMove(t), OutsideWord(t),
         TypeOK', WordInv', HoldInv', Knows(t)',
         ActiveWriter(t) /\ Free(rw_lock') => ActiveWriter(t)'
  PROVE  IInv'
<1> USE DEF IInv, OutsideMove, queues
<1>1. t \notin ts_blocked["shared"] /\ t \notin ts_blocked["exclusive"] /\ t \notin ts_pending
  BY DEF BlockedInv, Queued
<1>2. BlockedInv'
  BY <1>1, RwLockAssumption DEF BlockedInv, Queued, TypeOK, Queues, UnderChain
<1>3. \A q : AboutToWake(q)' <=> AboutToWake(q)
  BY DEF AboutToWake, UnderChain
<1>4. \A q : Joining(q)' <=> Joining(q)
  BY DEF Joining, UnderChain
<1>5. \A q : Taken(q)' <=> Taken(q)
  BY DEF Taken, UnderChain
<1>6. FlagInv(RW, "shared")' /\ FlagInv(WW, "exclusive")'
  BY <1>3, <1>4, <1>5 DEF FlagInv, OutsideWord, Waiters, RW_LOCK_WAITERS
<1>7. ASSUME NEW u \in Threads, u # t
      PROVE  ThreadInv(u)'
  <2>1. pc[u] \in {"r_wait", "w_wait"} => Waiters(rw_lock) # {}
    BY DestroyedIdle DEF FlagInv, Joining, Waiters, RW_LOCK_WAITERS
  <2>2. pc[u] \in UnderChain => \A x \in Threads : pc[x] \in UnderChain => x = u
    BY DEF ThreadInv
  <2>3. pc[u] = "wu_unpend" /\ SomeBlocked => Waiters(rw_lock) # {}
    BY <2>2, BlockedShow DEF UnderChain
  <2>4. pc[u] = "ru_wake" /\ WW \in v[u].flags /\ ts_blocked["shared"] # {}
        => Waiters(rw_lock) # {}
    <3> SUFFICES ASSUME pc[u] = "ru_wake", WW \in v[u].flags, ts_blocked["shared"] # {}
                 PROVE  Waiters(rw_lock) # {}
      OBVIOUS
    <3>1. ~ AboutToWake("shared")
      BY <2>2 DEF AboutToWake, UnderChain, WakeQueue
    <3> QED BY <3>1, DestroyedIdle DEF FlagInv, Waiters, RW_LOCK_WAITERS
  <2>5. Knows(u)'
    BY <1>7 DEF ThreadInv, Knows, OutsideWord
  <2>6. Snapshot(u)'
    BY <1>7, <2>1 DEF ThreadInv, Snapshot, OutsideWord
  <2>7. Waking(u)'
    <3>1. Waking(u) /\ pc'[u] = pc[u] /\ v'[u] = v[u]
      BY <1>7 DEF TypeOK, ThreadInv
    <3>2. SomeBlocked' <=> SomeBlocked
      BY DEF SomeBlocked
    <3>3. \A y \in ts_pending : pc'[y] = pc[y]
      BY <1>1 DEF TypeOK
    <3>4. Waiters(rw_lock) # {} => rw_lock'.owner = rw_lock.owner
      BY DEF OutsideWord
    <3>5. \A q : ts_blocked'[q] = ts_blocked[q]
      OBVIOUS
    <3> QED
      BY <2>3, <2>4, <3>1, <3>2, <3>3, <3>4, <3>5 DEF Waking
  <2> QED BY <1>7, <2>5, <2>6, <2>7 DEF ThreadInv
<1>8. ThreadInv(t)'
  BY DEF ThreadInv, Snapshot, Waking, UnderChain, HasRead_v
<1>9. OwnerInv'
  <2> SUFFICES ASSUME SomeBlocked, \A u \in Threads :
                        pc'[u] \notin {"ru_wake", "wu_unpend", "d_wake", "claim"}
               PROVE  ts_owner = rw_lock'.owner
    BY DEF OwnerInv, SomeBlocked
  <2>1. \A u \in Threads : pc[u] \notin {"ru_wake", "wu_unpend", "d_wake", "claim"}
    BY DEF UnderChain
  <2> QED BY <2>1, BlockedShow DEF OwnerInv, OutsideWord
<1>10. WriterComes'
  <2> SUFFICES ASSUME Free(rw_lock'), SomeBlocked,
                      \A q \in Queues : ts_blocked[q] # {} => ~ AboutToWake(q)
               PROVE  \E u \in Threads : ActiveWriter(u)'
    BY <1>3 DEF WriterComes, SomeBlocked
  <2>1. Waiters(rw_lock) # {}
    BY DestroyedIdle DEF FlagInv, SomeBlocked, Queues, Waiters, RW_LOCK_WAITERS, TypeOK,
                         BlockedInv, Queued
  <2>2. PICK u \in Threads : ActiveWriter(u)
    BY <2>1 DEF WriterComes, OutsideWord
  <2>3. CASE u = t
    BY <2>2, <2>3
  <2>4. CASE u # t
    BY <2>2, <2>4 DEF ActiveWriter
  <2> QED BY <2>3, <2>4
<1> QED BY <1>2, <1>6, <1>7, <1>8, <1>9, <1>10


-----------------------------------------------------------------------------
(***************************************************************************)
(* Steps of the one thread that holds the chain lock, or takes it: the     *)
(* invariants about the queues as that thread sees them.                   *)
(***************************************************************************)

Alone(t) == \A u \in Threads : u # t => pc[u] \notin UnderChain

Wakes(t, q) ==
  \/ pc[t] = "ru_wake" /\ WakeQueue(v[t].flags) = q
  \/ pc[t] = "d_wake" /\ WW \notin v[t].flags /\ q = "shared"

FlagOf(t, f, q, wait) ==
  f \in rw_lock.flags <=>
    \/ ts_blocked[q] # {} /\ ~ Wakes(t, q)
    \/ pc[t] = wait
    \/ pc[t] = "wu_store" /\ WakeQueue(v[t].flags) = q

OwnerOf(t) ==
  SomeBlocked /\ pc[t] \notin {"ru_wake", "wu_unpend", "d_wake", "claim"} =>
    ts_owner = rw_lock.owner

ComesTo(t) ==
  Free(rw_lock) /\ SomeBlocked =>
    \/ \E q \in Queues : ts_blocked[q] # {} /\ Wakes(t, q)
    \/ \E u \in Threads : ActiveWriter(u)

ChainView(t) ==
  /\ FlagOf(t, RW, "shared", "r_wait") /\ FlagOf(t, WW, "exclusive", "w_wait")
  /\ OwnerOf(t) /\ ComesTo(t)
  /\ ts_pending # {} => pc[t] \in {"wu_store", "wu_unpend"}

(* A thread inside the code that holds the chain lock, or finds it free,   *)
(* is alone.                                                               *)
LEMMA ChainFacts ==
  ASSUME IInv, NEW t \in Threads, tc_lock \in {t, NoThread}, pc[t] # "caller"
  PROVE  Alone(t) /\ ChainView(t) /\ rw_lock # RW_DESTROYED
<1> USE DEF IInv
<1>1. Alone(t)
  BY RwLockAssumption DEF Alone, ThreadInv
<1>2. rw_lock # RW_DESTROYED
  BY DestroyedIdle
<1>3. \A q : AboutToWake(q) <=> Wakes(t, q)
  BY <1>1 DEF AboutToWake, Wakes, Alone, UnderChain
<1>4. /\ Joining("shared") <=> pc[t] = "r_wait"
      /\ Joining("exclusive") <=> pc[t] = "w_wait"
  BY <1>1 DEF Joining, Alone, UnderChain
<1>5. \A q : Taken(q) <=> pc[t] = "wu_store" /\ WakeQueue(v[t].flags) = q
  BY <1>1 DEF Taken, Alone, UnderChain
<1>6. FlagOf(t, RW, "shared", "r_wait") /\ FlagOf(t, WW, "exclusive", "w_wait")
  BY <1>2, <1>3, <1>4, <1>5 DEF FlagInv, FlagOf
<1>7. OwnerOf(t)
  BY <1>1 DEF OwnerInv, OwnerOf, Alone, UnderChain
<1>8. ComesTo(t)
  BY <1>3 DEF WriterComes, ComesTo
<1>9. ts_pending # {} => pc[t] \in {"wu_store", "wu_unpend"}
  BY <1>1 DEF BlockedInv, Queued, Alone, UnderChain
<1> QED BY <1>1, <1>2, <1>6, <1>7, <1>8, <1>9 DEF ChainView

OthersStay(t) ==
  \A u \in Threads : u # t => pc'[u] = pc[u] /\ v'[u] = v[u] /\ rheld'[u] = rheld[u]

(* The others rely on their holds, and on the flags while they hold it.    *)
OthersKeep(t) ==
  /\ \A u \in Threads : u # t /\ rw_lock.owner = u =>
                          rw_lock'.owner = u /\ rw_recurse' = rw_recurse
  /\ Waiters(rw_lock) = {} \/ Waiters(rw_lock') # {}
       \/ \A u \in Threads : u # t => rheld[u] = 0 /\ rw_lock.owner # u

(* A step of the one thread under the chain lock keeps the invariant if it *)
(* does so as that thread sees it.                                         *)
LEMMA ChainStep ==
  ASSUME IInv, NEW t \in Threads, tc_lock \in {t, NoThread}, pc[t] # "caller",
         OthersStay(t), OthersKeep(t), tc_lock' \in {t, NoThread},
         TypeOK', WordInv', HoldInv', ThreadInv(t)', ChainView(t)',
         Queued'
  PROVE  IInv'
<1> USE DEF IInv, OthersStay
<1>1. Alone(t)
  BY ChainFacts
<1>2. Alone(t)'
  BY <1>1 DEF Alone
<1>3. \A q : AboutToWake(q)' <=> Wakes(t, q)'
  BY <1>2 DEF AboutToWake, Wakes, Alone, UnderChain
<1>4. /\ Joining("shared")' <=> pc'[t] = "r_wait"
      /\ Joining("exclusive")' <=> pc'[t] = "w_wait"
  BY <1>2 DEF Joining, Alone, UnderChain
<1>5. \A q : Taken(q)' <=> pc'[t] = "wu_store" /\ WakeQueue(v'[t].flags) = q
  BY <1>2 DEF Taken, Alone, UnderChain
<1>6. FlagInv(RW, "shared")' /\ FlagInv(WW, "exclusive")'
  BY <1>3, <1>4, <1>5 DEF ChainView, FlagInv, FlagOf
<1>7. OwnerInv'
  BY DEF ChainView, OwnerInv, OwnerOf
<1>8. WriterComes'
  BY <1>3 DEF ChainView, WriterComes, ComesTo
<1>9. BlockedInv'
  BY DEF ChainView, BlockedInv, Queued
<1>10. ASSUME NEW u \in Threads, u # t
       PROVE  ThreadInv(u)'
  <2>1. pc'[u] \notin UnderChain /\ tc_lock' # u
    BY <1>2, <1>10, RwLockAssumption DEF Alone
  <2>2. Knows(u) /\ (rheld[u] > 0 \/ rheld[u] = 0)
    BY DEF ThreadInv, TypeOK
  <2>3. Knows(u)'
    BY <1>10, <2>1, <2>2 DEF Knows, UnderChain, OthersKeep, Waiters
  <2>4. Snapshot(u)' /\ Waking(u)'
    BY <2>1 DEF Snapshot, Waking, UnderChain, HasRead_v
  <2> QED BY <2>1, <2>3, <2>4 DEF ThreadInv
<1> QED BY <1>6, <1>7, <1>8, <1>9, <1>10


-----------------------------------------------------------------------------
(***************************************************************************)
(* Moves of a thread with its locals.                                      *)
(***************************************************************************)

Moves(t, l) ==
  /\ pc' = [pc EXCEPT ![t] = l]
  /\ pc' \in [Threads -> Locations]
  /\ v' \in [Threads -> Words]
  /\ spintries' \in [Threads -> 0 .. rowner_retries]
  /\ \A u \in Threads : u # t => v'[u] = v[u]

(* The words that the code stores are lock words.                          *)
LEMMA WordTypes ==
  /\ RW_UNLOCKED \in Words
  /\ RW_DESTROYED \in Words
  /\ \A n \in Nat, f \in SUBSET {RW, WW, WS} : ReadLocked(n, f) \in Words
  /\ \A t \in Threads, f \in SUBSET {RW, WW, WS} : WriteLocked(t, f) \in Words
BY DEF Words, RW_UNLOCKED, RW_DESTROYED, ReadLocked, WriteLocked, RW_LOCK_WAITERS

(* Goto() is a move with typed locals.                                     *)
LEMMA GotoMoves ==
  ASSUME TypeOK, NEW t \in Threads, NEW l \in Locations, Goto(t, l)
  PROVE  Moves(t, l) /\ v'[t] = RW_UNLOCKED
<1>1. pc' \in [Threads -> Locations] /\ v' \in [Threads -> Words]
  BY WordTypes DEF TypeOK, Goto
<1>2. spintries' \in [Threads -> 0 .. rowner_retries]
  BY RwLockAssumption DEF TypeOK, Goto
<1> QED BY <1>1, <1>2 DEF TypeOK, Goto, Moves

(* So is GotoWith().                                                       *)
LEMMA GotoWithMoves ==
  ASSUME TypeOK, NEW t \in Threads, NEW l \in Locations, NEW w \in Words,
         GotoWith(t, l, w)
  PROVE  Moves(t, l) /\ v'[t] = w
BY DEF TypeOK, GotoWith, Moves

SpinsOn == {"w_loop", "w_spin", "w_rspin", "w_trywait"}

(* A move off the chain lock that touches no shared state.                 *)
LEMMA LocalStep ==
  ASSUME IInv, NEW t \in Threads, td_state[t] = "running", pc[t] \notin UnderChain,
         NEW l \in Locations \ UnderChain, Moves(t, l), Knows(t)',
         pc[t] = "caller" => rw_lock # RW_DESTROYED,
         pc[t] \in SpinsOn \cup {"w_blocked"} => l \in SpinsOn,
         UNCHANGED <<lock, tc_lock, queues, td_state>>
  PROVE  IInv'
<1> USE DEF IInv, lock, queues
<1>1. TypeOK'
  BY DEF TypeOK, Moves
<1>2. rw_lock # RW_DESTROYED
  BY DestroyedIdle
<1>3. WordInv'
  BY <1>2 DEF WordInv
<1>4. HoldInv'
  BY DEF HoldInv, ReadHolds
<1>5. OutsideMove(t)
  BY DEF OutsideMove, Moves, TypeOK, lock, queues
<1>6. OutsideWord(t)
  BY DEF OutsideWord
<1>7. ActiveWriter(t) => ActiveWriter(t)'
  BY DEF ActiveWriter, Moves, TypeOK, SpinsOn, UnderChain
<1> QED BY <1>1, <1>3, <1>4, <1>5, <1>6, <1>7, OutsideStep

(* The start of rw_rlock() keeps the invariant.                            *)
LEMMA RlockStep ==
  ASSUME IInv, NEW t \in Threads, Rlock(t)
  PROVE  IInv'
<1>1. Moves(t, "r_loop")
  BY GotoMoves DEF IInv, Rlock, Locations
<1>2. Knows(t)'
  BY <1>1 DEF Knows, Moves, IInv, TypeOK
<1> QED BY <1>1, <1>2, LocalStep DEF Rlock, At, UnderChain, Locations, SpinsOn


(* A thread off the chain lock moves to a place where it holds nothing new *)
(* that it relies on.                                                      *)
LEMMA SpinStep ==
  ASSUME IInv, NEW t \in Threads, td_state[t] = "running",
         NEW l \in {"r_loop", "r_spin", "r_rspin", "r_trywait"} \cup SpinsOn, Moves(t, l),
         \/ pc[t] \in {"r_loop", "r_spin", "r_rspin", "r_blocked"}
         \/ pc[t] \in SpinsOn \cup {"w_blocked"} /\ l \in SpinsOn,
         UNCHANGED <<lock, tc_lock, queues, td_state>>
  PROVE  IInv'
<1>1. Knows(t)'
  BY DEF Knows, Moves, IInv, TypeOK, SpinsOn
<1> QED BY <1>1, LocalStep DEF UnderChain, Locations, SpinsOn

(* The end of spinning on a write owner, in __rw_rlock().                  *)
LEMMA RlockSpinStep ==
  ASSUME IInv, NEW t \in Threads, RlockSpin(t)
  PROVE  IInv'
BY GotoMoves, SpinStep DEF IInv, RlockSpin, OwnerSpin, At, Locations, SpinsOn

(* The end of spinning on a read-held lock, in __rw_rlock().               *)
LEMMA RlockReadSpinStep ==
  ASSUME IInv, NEW t \in Threads, RlockReadSpin(t)
  PROVE  IInv'
BY GotoMoves, SpinStep DEF IInv, RlockReadSpin, At, Locations, SpinsOn

(* A woken reader starts over.                                             *)
LEMMA RlockResumeStep ==
  ASSUME IInv, NEW t \in Threads, RlockResume(t)
  PROVE  IInv'
BY GotoMoves, SpinStep DEF IInv, RlockResume, At, Locations, SpinsOn

(* The end of spinning on a write owner, in __rw_wlock_hard().             *)
LEMMA WlockSpinStep ==
  ASSUME IInv, NEW t \in Threads, WlockSpin(t)
  PROVE  IInv'
BY GotoMoves, SpinStep DEF IInv, WlockSpin, OwnerSpin, At, Locations, SpinsOn

(* The end of spinning on readers, in __rw_wlock_hard().                   *)
LEMMA WlockReadSpinStep ==
  ASSUME IInv, NEW t \in Threads, WlockReadSpin(t)
  PROVE  IInv'
BY GotoMoves, SpinStep DEF IInv, WlockReadSpin, At, Locations, SpinsOn

(* A woken writer starts over.                                             *)
LEMMA WlockResumeStep ==
  ASSUME IInv, NEW t \in Threads, WlockResume(t)
  PROVE  IInv'
<1>1. Moves(t, "w_loop")
  BY RwLockAssumption DEF IInv, TypeOK, WlockResume, Moves, Locations
<1> QED BY <1>1, SpinStep DEF WlockResume, At, SpinsOn

(* A CPU is taken away or given back.                                      *)
LEMMA CpuStep ==
  ASSUME IInv, NEW t \in Threads, Preempt(t) \/ Dispatch(t)
  PROVE  IInv'
<1> USE DEF IInv
<1>1. /\ UNCHANGED <<rw_lock, rw_recurse, wheld, rheld, tc_lock, ts_blocked, ts_pending,
                     ts_owner, v, spintries, pc>>
      /\ td_state' \in [Threads -> {"running", "runq", "lock"}]
      /\ td_state[t] # "lock" /\ td_state'[t] # "lock"
      /\ \A u \in Threads : u # t => td_state'[u] = td_state[u]
  BY DEF Preempt, Dispatch, TypeOK, lock, queues
<1>2. TypeOK'
  BY <1>1 DEF TypeOK
<1>3. WordInv' /\ HoldInv'
  BY <1>1 DEF WordInv, HoldInv, ReadHolds
<1>4. BlockedInv'
  BY <1>1 DEF BlockedInv, Queued, TypeOK, Queues
<1>5. \A u \in Threads : ThreadInv(u)'
  <2> SUFFICES ASSUME NEW u \in Threads
               PROVE  ThreadInv(u)'
    OBVIOUS
  <2>1. Knows(u)' /\ Snapshot(u)'
    BY <1>1 DEF ThreadInv, Knows, Snapshot
  <2>2. Waking(u)'
    BY <1>1 DEF ThreadInv, Waking, SomeBlocked
  <2> QED BY <1>1, <2>1, <2>2 DEF ThreadInv
<1>6. FlagInv(RW, "shared")' /\ FlagInv(WW, "exclusive")'
  BY <1>1 DEF FlagInv, AboutToWake, Joining, Taken
<1>7. OwnerInv'
  BY <1>1 DEF OwnerInv, SomeBlocked
<1>8. WriterComes'
  BY <1>1 DEF WriterComes, SomeBlocked, AboutToWake, ActiveWriter
<1> QED BY <1>2, <1>3, <1>4, <1>5, <1>6, <1>7, <1>8

-----------------------------------------------------------------------------
(***************************************************************************)
(* Steps that gain or drop the lock without the chain lock.                *)
(***************************************************************************)

OffChain(t) ==
  /\ td_state[t] = "running"
  /\ UNCHANGED <<tc_lock, queues, td_state>>

(* One more reader keeps the invariant: with one the lock is not free.     *)
LEMMA ReadGainStep ==
  ASSUME IInv, NEW t \in Threads, OffChain(t), pc[t] \in {"caller", "r_loop"},
         Moves(t, "caller"), rw_lock.read, ReadGain(t)
  PROVE  IInv'
<1> USE DEF IInv, OffChain, ReadGain
<1>1. /\ rw_lock' \in Words
      /\ rw_lock'.read /\ rw_lock'.owner = rw_lock.owner
      /\ rw_lock'.readers = rw_lock.readers + 1 /\ rw_lock'.flags = rw_lock.flags
      /\ rw_lock'.readers > 0
  BY DEF TypeOK, Words
<1>2. TypeOK'
  BY <1>1 DEF TypeOK, Moves, queues
<1>3. WordInv'
  BY <1>1 DEF WordInv, Free
<1>4. HoldInv'
  BY <1>1, HoldsUp DEF HoldInv, TypeOK
<1>5. OutsideMove(t)
  BY DEF OutsideMove, Moves, TypeOK, queues, UnderChain
<1>6. OutsideWord(t)
  BY <1>1 DEF OutsideWord, Waiters, Free, WordInv, RW_DESTROYED, WriteLocked
<1>7. Knows(t)' /\ ~ Free(rw_lock')
  BY <1>1 DEF Knows, Moves, TypeOK, Free
<1> QED BY <1>2, <1>3, <1>4, <1>5, <1>6, <1>7, OutsideStep

(* Taking an unlocked lock for writing keeps the invariant: no flag was    *)
(* set.                                                                    *)
LEMMA WriteGainStep ==
  ASSUME IInv, NEW t \in Threads, OffChain(t), pc[t] \in {"caller", "w_loop"},
         Moves(t, "caller"), rw_lock = RW_UNLOCKED, WriteGain(t, {})
  PROVE  IInv'
<1> USE RwLockAssumption DEF IInv, OffChain, WriteGain
<1>1. /\ rw_lock' \in Words
      /\ ~ rw_lock'.read /\ rw_lock'.owner = t
      /\ rw_lock'.readers = 0 /\ rw_lock'.flags = {}
      /\ rw_lock.read /\ rw_lock.owner = NoThread
      /\ rw_lock.readers = 0 /\ rw_lock.flags = {}
  BY WordTypes DEF WriteLocked, RW_UNLOCKED, ReadLocked
<1>2. TypeOK'
  BY <1>1 DEF TypeOK, Moves, queues
<1>3. WordInv'
  BY <1>1 DEF WordInv, Free
<1>4. HoldInv'
  BY <1>1 DEF HoldInv, ReadHolds, TypeOK
<1>5. OutsideMove(t)
  BY DEF OutsideMove, Moves, TypeOK, queues, UnderChain
<1>6. OutsideWord(t)
  BY <1>1 DEF OutsideWord, Waiters, Free, RW_DESTROYED, WriteLocked
<1>7. Knows(t)' /\ ~ Free(rw_lock')
  BY <1>1 DEF Knows, Moves, TypeOK, Free
<1> QED BY <1>2, <1>3, <1>4, <1>5, <1>6, <1>7, OutsideStep

(* Recursion of the write owner keeps the invariant.                       *)
LEMMA RecurseStep ==
  ASSUME IInv, NEW t \in Threads, OffChain(t), pc[t] = "caller",
         Moves(t, "caller"), rw_lock.owner = t, Recurse(t)
  PROVE  IInv'
<1> USE RwLockAssumption DEF IInv, OffChain, Recurse
<1>1. wheld[t] = rw_recurse + 1
  BY ReaderFacts
<1>2. TypeOK'
  BY DEF TypeOK, Moves, queues
<1>3. WordInv'
  BY DEF WordInv, Free
<1>4. HoldInv'
  BY <1>1 DEF HoldInv, ReadHolds, TypeOK
<1>5. OutsideMove(t)
  BY DEF OutsideMove, Moves, TypeOK, queues, UnderChain
<1>6. OutsideWord(t)
  BY DEF OutsideWord
<1>7. Knows(t)' /\ ~ ActiveWriter(t)
  BY DEF Knows, Moves, TypeOK, ActiveWriter
<1> QED BY <1>2, <1>3, <1>4, <1>5, <1>6, <1>7, OutsideStep


(* The head of the loop of __rw_rlock() keeps the invariant.               *)
LEMMA RlockLoopStep ==
  ASSUME IInv, NEW t \in Threads, RlockLoop(t)
  PROVE  IInv'
<1> USE DEF IInv
<1>1. CASE RW_CAN_READ(t, rw_lock) /\ ReadGain(t) /\ Return(t)
  BY <1>1, GotoMoves, ReadGainStep
     DEF RlockLoop, At, Return, OffChain, RW_CAN_READ, Locations
<1>2. CASE GotoWith(t, "r_spin", rw_lock) /\ UNCHANGED lock
  <2>1. Moves(t, "r_spin")
    BY <1>2, GotoWithMoves DEF TypeOK, Locations
  <2> QED BY <1>2, <2>1, SpinStep DEF RlockLoop, At
<1>3. CASE /\ spintries[t] < rowner_retries
           /\ spintries' = [spintries EXCEPT ![t] = @ + 1]
           /\ pc' = [pc EXCEPT ![t] = "r_rspin"]
           /\ UNCHANGED <<v, lock>>
  <2>1. spintries' \in [Threads -> 0 .. rowner_retries]
    BY <1>3, RwLockAssumption DEF TypeOK
  <2>2. Moves(t, "r_rspin")
    BY <1>3, <2>1 DEF TypeOK, Moves, Locations
  <2> QED BY <1>3, <2>2, SpinStep DEF RlockLoop, At
<1>4. CASE Goto(t, "r_trywait") /\ UNCHANGED lock
  BY <1>4, GotoMoves, SpinStep DEF RlockLoop, At, Locations
<1> QED BY <1>1, <1>2, <1>3, <1>4 DEF RlockLoop

(* rw_try_rlock() keeps the invariant.                                     *)
LEMMA TryRlockStep ==
  ASSUME IInv, NEW t \in Threads, TryRlock(t)
  PROVE  IInv'
<1>1. Moves(t, "caller")
  BY DEF IInv, TypeOK, TryRlock, At, Moves
<1> QED BY <1>1, ReadGainStep DEF TryRlock, At, OffChain

(* rw_wlock() keeps the invariant.                                         *)
LEMMA WlockStep ==
  ASSUME IInv, NEW t \in Threads, Wlock(t)
  PROVE  IInv'
<1> USE DEF IInv
<1>1. CASE rw_lock = RW_UNLOCKED /\ WriteGain(t, {}) /\ Return(t)
  BY <1>1, GotoMoves, WriteGainStep DEF Wlock, At, Return, OffChain, Locations
<1>2. CASE rw_lock.owner = t /\ Recurse(t) /\ Return(t)
  BY <1>2, GotoMoves, RecurseStep DEF Wlock, At, Return, OffChain, Locations
<1>3. CASE Goto(t, "w_loop") /\ UNCHANGED lock
  <2>1. Moves(t, "w_loop")
    BY <1>3, GotoMoves DEF Locations
  <2>2. Knows(t)'
    BY <2>1 DEF Knows, Moves, TypeOK
  <2> QED BY <1>3, <2>1, <2>2, LocalStep DEF Wlock, At, UnderChain, Locations, SpinsOn
<1> QED BY <1>1, <1>2, <1>3 DEF Wlock

(* rw_try_wlock() keeps the invariant.                                     *)
LEMMA TryWlockStep ==
  ASSUME IInv, NEW t \in Threads, TryWlock(t)
  PROVE  IInv'
<1>1. Moves(t, "caller")
  BY DEF IInv, TypeOK, TryWlock, At, Moves
<1> QED BY <1>1, RecurseStep, WriteGainStep DEF TryWlock, At, OffChain

(* RW_LOCK_WRITE_SPINNER is no waiters flag.                               *)
LEMMA WlockLoopStep ==
  ASSUME IInv, NEW t \in Threads, WlockLoop(t)
  PROVE  IInv'
<1> USE DEF IInv
<1>1. CASE rw_lock = RW_UNLOCKED /\ WriteGain(t, {}) /\ Return(t)
  BY <1>1, GotoMoves, WriteGainStep DEF WlockLoop, At, Return, OffChain, Locations
<1>2. CASE GotoWith(t, "w_spin", rw_lock) /\ UNCHANGED lock
  <2>1. Moves(t, "w_spin")
    BY <1>2, GotoWithMoves DEF TypeOK, Locations
  <2> QED BY <1>2, <2>1, SpinStep DEF WlockLoop, At, SpinsOn
<1>3. CASE /\ MaySpin(t)
           /\ SetFlag(WS)
           /\ spintries' = [spintries EXCEPT ![t] = @ + 1]
           /\ pc' = [pc EXCEPT ![t] = "w_rspin"]
           /\ UNCHANGED v
  <2>1. spintries' \in [Threads -> 0 .. rowner_retries]
    BY <1>3, RwLockAssumption DEF TypeOK, MaySpin
  <2>2. Moves(t, "w_rspin")
    BY <1>3, <2>1 DEF TypeOK, Moves, Locations
  <2>3. /\ UNCHANGED <<rw_recurse, wheld, rheld, tc_lock, ts_blocked, ts_pending,
                       ts_owner, td_state>>
        /\ td_state[t] = "running" /\ pc[t] = "w_loop"
    BY <1>3 DEF WlockLoop, At, SetFlag, queues
  <2>4. /\ rw_lock' \in Words
        /\ rw_lock'.read /\ rw_lock'.owner = rw_lock.owner
        /\ rw_lock'.readers = rw_lock.readers /\ rw_lock'.flags = rw_lock.flags \cup {WS}
        /\ rw_lock.read /\ rw_lock.readers > 0
    BY <1>3 DEF TypeOK, Words, SetFlag, MaySpin
  <2>5. TypeOK'
    BY <2>2, <2>3, <2>4 DEF TypeOK, Moves
  <2>6. WordInv'
    BY <2>4 DEF WordInv, Free
  <2>7. HoldInv'
    BY <2>3, <2>4 DEF HoldInv, ReadHolds
  <2>8. OutsideMove(t)
    BY <2>2, <2>3 DEF OutsideMove, Moves, TypeOK, queues, UnderChain
  <2>9. OutsideWord(t)
    BY <2>3, <2>4 DEF OutsideWord, Waiters, Free, RW_DESTROYED, WriteLocked,
                      RW_LOCK_WAITERS, RW, WW, WS
  <2>10. Knows(t)' /\ ~ Free(rw_lock')
    BY <2>2, <2>4 DEF Knows, Moves, TypeOK, Free
  <2> QED BY <2>5, <2>6, <2>7, <2>8, <2>9, <2>10, OutsideStep
<1>4. CASE Goto(t, "w_trywait") /\ UNCHANGED lock
  BY <1>4, GotoMoves, SpinStep DEF WlockLoop, At, Locations, SpinsOn
<1> QED BY <1>1, <1>2, <1>3, <1>4 DEF WlockLoop

(* A reader that is not the last, or leaves no waiters, drops its hold.    *)
LEMMA ReadDropStep ==
  ASSUME IInv, NEW t \in Threads, OffChain(t), pc[t] \in {"caller", "ru_loop"},
         rheld[t] > 0, Moves(t, "caller"), NEW w, ReadDrop(t, w),
         \/ rw_lock.readers > 1 /\ w = [rw_lock EXCEPT !.readers = @ - 1]
         \/ rw_lock.readers <= 1 /\ Waiters(rw_lock) = {} /\ w = RW_UNLOCKED
  PROVE  IInv'
<1> USE DEF IInv, OffChain, ReadDrop
<1>1. rw_lock.read /\ rw_lock.readers > 0 /\ rw_lock.owner = NoThread
  BY ReaderFacts
<1>2. /\ rw_lock' \in Words
      /\ rw_lock'.read /\ rw_lock'.owner = NoThread
      /\ rw_lock'.readers = rw_lock.readers - 1
      /\ Waiters(rw_lock') = Waiters(rw_lock)
      /\ Waiters(rw_lock) # {} => rw_lock'.readers > 0
      /\ WS \in rw_lock'.flags => rw_lock'.readers > 0
      /\ rw_lock'.readers = 0 => WW \notin rw_lock'.flags
  <2>1. CASE rw_lock.readers > 1 /\ w = [rw_lock EXCEPT !.readers = @ - 1]
    BY <1>1, <2>1 DEF TypeOK, Words, Waiters
  <2>2. CASE rw_lock.readers <= 1 /\ Waiters(rw_lock) = {} /\ w = RW_UNLOCKED
    BY <1>1, <2>2, WordTypes DEF TypeOK, Words, Waiters, RW_UNLOCKED, ReadLocked
  <2> QED BY <2>1, <2>2
<1>3. TypeOK'
  BY <1>2 DEF TypeOK, Moves, queues
<1>4. WordInv'
  BY <1>2 DEF WordInv, Free
<1>5. HoldInv'
  BY <1>1, <1>2, HoldsDown DEF HoldInv, TypeOK
<1>6. OutsideMove(t)
  BY DEF OutsideMove, Moves, TypeOK, queues, UnderChain
<1>7. OutsideWord(t)
  BY <1>1, <1>2, RwLockAssumption DEF OutsideWord, Free, RW_DESTROYED, WriteLocked
<1>8. Knows(t)' /\ ~ ActiveWriter(t)
  BY DEF Knows, Moves, TypeOK, ActiveWriter
<1> QED BY <1>3, <1>4, <1>5, <1>6, <1>7, <1>8, OutsideStep


(* An owned word that is not WriteLocked(t, {}) has a waiters flag.        *)
LEMMA OwnedWord ==
  ASSUME IInv, NEW t \in Threads, rw_lock.owner = t, rw_lock # WriteLocked(t, {})
  PROVE  Waiters(rw_lock) # {}
<1> USE DEF IInv
<1>1. ~ rw_lock.read /\ rw_lock.readers = 0 /\ WS \notin rw_lock.flags
  BY ReaderFacts DEF WordInv
<1>2. rw_lock.flags \subseteq {RW, WW, WS} /\ rw_lock.read \in BOOLEAN
  BY DEF TypeOK, Words
<1>3. rw_lock = [read |-> FALSE, owner |-> t, readers |-> 0, flags |-> rw_lock.flags]
  BY <1>1, <1>2 DEF TypeOK, Words
<1> QED BY <1>1, <1>2, <1>3 DEF WriteLocked, Waiters, RW_LOCK_WAITERS

(* The loop of rw_runlock() keeps the invariant: a last reader that sees a *)
(* waiters flag goes for the chain lock.                                   *)
LEMMA RunlockLoopStep ==
  ASSUME IInv, NEW t \in Threads, td_state[t] = "running",
         pc[t] \in {"caller", "ru_loop"}, rheld[t] > 0, RunlockLoop(t)
  PROVE  IInv'
<1> USE DEF IInv
<1>1. OffChain(t)
  BY DEF RunlockLoop, OffChain
<1>2. CASE /\ rw_lock.readers > 1
           /\ ReadDrop(t, [rw_lock EXCEPT !.readers = @ - 1])
           /\ Return(t)
  BY <1>1, <1>2, GotoMoves, ReadDropStep DEF Return, Locations
<1>3. CASE /\ rw_lock.readers <= 1 /\ rw_lock.flags \cap RW_LOCK_WAITERS = {}
           /\ ReadDrop(t, RW_UNLOCKED)
           /\ Return(t)
  BY <1>1, <1>3, GotoMoves, ReadDropStep DEF Return, Locations, Waiters
<1>4. CASE /\ rw_lock.readers <= 1 /\ rw_lock.flags \cap RW_LOCK_WAITERS # {}
           /\ Goto(t, "ru_chain")
           /\ UNCHANGED lock
  <2>1. Moves(t, "ru_chain")
    BY <1>4, GotoMoves DEF Locations
  <2>2. Knows(t)'
    BY <1>4, <2>1 DEF Knows, Moves, TypeOK, Waiters, lock
  <2>3. rw_lock # RW_DESTROYED
    BY ReaderFacts DEF RW_DESTROYED, WriteLocked
  <2> QED BY <1>1, <1>4, <2>1, <2>2, <2>3, LocalStep
          DEF OffChain, UnderChain, Locations, SpinsOn
<1> QED BY <1>2, <1>3, <1>4 DEF RunlockLoop

(* rw_runlock() keeps the invariant, from its start and after a lost race. *)
LEMMA RunlockStep ==
  ASSUME IInv, NEW t \in Threads, Runlock(t) \/ RunlockAgain(t)
  PROVE  IInv'
<1>1. CASE Runlock(t)
  BY <1>1, RunlockLoopStep DEF Runlock, At
<1>2. CASE RunlockAgain(t)
  <2>1. rheld[t] > 0
    BY <1>2 DEF IInv, ThreadInv, Knows, RunlockAgain, At
  <2> QED BY <1>2, <2>1, RunlockLoopStep DEF RunlockAgain, At
<1> QED BY <1>1, <1>2

(* An owner is not in __rw_wlock_hard() and leaves no write hold behind.   *)
LEMMA WunlockStep ==
  ASSUME IInv, NEW t \in Threads, Wunlock(t)
  PROVE  IInv'
<1> USE RwLockAssumption DEF IInv
<1>1. /\ td_state[t] = "running" /\ pc[t] = "caller" /\ wheld[t] > 0
      /\ UNCHANGED <<tc_lock, queues, td_state>>
  BY DEF Wunlock, At
<1>2. rw_lock.owner = t /\ wheld[t] = rw_recurse + 1 /\ ~ rw_lock.read
  BY <1>1, ReaderFacts DEF HoldInv, TypeOK
<1>3. rw_lock # RW_DESTROYED
  BY <1>2 DEF RW_DESTROYED, WriteLocked
<1>4. CASE /\ rw_recurse > 0
           /\ rw_recurse' = rw_recurse - 1
           /\ wheld' = [wheld EXCEPT ![t] = @ - 1]
           /\ Return(t)
           /\ UNCHANGED <<rw_lock, rheld>>
  <2>1. Moves(t, "caller")
    BY <1>4, GotoMoves DEF Return, Locations
  <2>2. TypeOK'
    BY <1>1, <1>2, <1>4, <2>1 DEF TypeOK, Moves, queues
  <2>3. WordInv'
    BY <1>2, <1>4 DEF WordInv, Free
  <2>4. HoldInv'
    BY <1>2, <1>4 DEF HoldInv, ReadHolds, TypeOK
  <2>5. OutsideMove(t)
    BY <1>1, <1>4, <2>1 DEF OutsideMove, Moves, TypeOK, queues, UnderChain
  <2>6. OutsideWord(t)
    BY <1>2, <1>4 DEF OutsideWord
  <2>7. Knows(t)' /\ ~ ActiveWriter(t)
    BY <1>1, <2>1 DEF Knows, Moves, TypeOK, ActiveWriter
  <2> QED BY <2>2, <2>3, <2>4, <2>5, <2>6, <2>7, OutsideStep
<1>5. CASE /\ rw_recurse = 0 /\ rw_lock = WriteLocked(t, {})
           /\ rw_lock' = RW_UNLOCKED
           /\ wheld' = [wheld EXCEPT ![t] = 0]
           /\ Return(t)
           /\ UNCHANGED <<rw_recurse, rheld>>
  <2>1. Moves(t, "caller")
    BY <1>5, GotoMoves DEF Return, Locations
  <2>2. /\ rw_lock' \in Words
        /\ rw_lock'.read /\ rw_lock'.owner = NoThread
        /\ rw_lock'.readers = 0 /\ rw_lock'.flags = {}
        /\ rw_lock.readers = 0 /\ rw_lock.flags = {}
    BY <1>5, WordTypes DEF WriteLocked, RW_UNLOCKED, ReadLocked
  <2>3. TypeOK'
    BY <1>1, <1>5, <2>1, <2>2 DEF TypeOK, Moves, queues
  <2>4. WordInv'
    BY <2>2 DEF WordInv, Free
  <2>5. HoldInv'
    BY <1>2, <1>5, <2>2 DEF HoldInv, ReadHolds, TypeOK
  <2>6. OutsideMove(t)
    BY <1>1, <1>5, <2>1 DEF OutsideMove, Moves, TypeOK, queues, UnderChain
  <2>7. OutsideWord(t)
    BY <1>2, <1>3, <2>2 DEF OutsideWord, Waiters, RW_DESTROYED, WriteLocked
  <2>8. Knows(t)' /\ ~ ActiveWriter(t)
    BY <1>1, <2>1 DEF Knows, Moves, TypeOK, ActiveWriter
  <2> QED BY <2>3, <2>4, <2>5, <2>6, <2>7, <2>8, OutsideStep
<1>6. CASE /\ rw_recurse = 0 /\ rw_lock # WriteLocked(t, {})
           /\ Goto(t, "wu_chain")
           /\ UNCHANGED lock
  <2>1. Moves(t, "wu_chain")
    BY <1>6, GotoMoves DEF Locations
  <2>2. Waiters(rw_lock) # {}
    BY <1>2, <1>6, OwnedWord
  <2>3. Knows(t)'
    BY <1>2, <1>6, <2>1, <2>2 DEF Knows, Moves, TypeOK, lock
  <2> QED BY <1>1, <1>3, <1>6, <2>1, <2>3, LocalStep DEF UnderChain, Locations, SpinsOn
<1> QED BY <1>4, <1>5, <1>6 DEF Wunlock

(* The only read hold becomes the only write hold.                         *)
LEMMA ReadToWriteHolds ==
  ASSUME TypeOK, WordInv, HoldInv, NEW t \in Threads, rheld[t] > 0, rw_lock.readers <= 1,
         NEW f, ReadToWrite(t, f)
  PROVE  HoldInv'
<1>1. /\ rw_lock.read /\ rw_lock.readers = 1 /\ rw_lock.owner = NoThread
      /\ \A u \in Threads : wheld[u] = 0
  BY ReaderFacts, RwLockAssumption
<1>2. rw_lock'.owner = t /\ rw_lock'.readers = 0
  BY DEF ReadToWrite, WriteLocked
<1>3. IsFiniteSet(ReadHolds') /\ Cardinality(ReadHolds') = 0
  <2>1. rheld \in [Threads -> Nat] /\ IsFiniteSet(ReadHolds) /\ Cardinality(ReadHolds) = 1
    BY <1>1 DEF TypeOK, HoldInv
  <2>2. rheld' = [rheld EXCEPT ![t] = @ - 1]
    BY DEF ReadToWrite
  <2>3. IsFiniteSet(ReadHolds') /\ Cardinality(ReadHolds') = Cardinality(ReadHolds) - 1
    BY ONLY <2>1, <2>2, t \in Threads, rheld[t] > 0, HoldsDown
  <2> QED BY <2>1, <2>3
<1>4. \A u \in Threads : wheld'[u] = IF u = t THEN 1 ELSE 0
  BY <1>1 DEF TypeOK, ReadToWrite
<1>5. rw_recurse' = 0
  BY <1>1 DEF HoldInv, ReadToWrite
<1> QED BY <1>2, <1>3, <1>4, <1>5, RwLockAssumption DEF HoldInv

(* rw_try_upgrade() of the only reader when nobody waits.                  *)
LEMMA UpgradeLoopStep ==
  ASSUME IInv, NEW t \in Threads, td_state[t] = "running",
         pc[t] \in {"caller", "u_loop"}, rheld[t] > 0, UpgradeLoop(t)
  PROVE  IInv'
<1> USE RwLockAssumption DEF IInv
<1>1. UNCHANGED <<tc_lock, queues, td_state>>
  BY DEF UpgradeLoop
<1>2. /\ rw_lock.read /\ rw_lock.readers > 0 /\ rw_lock.owner = NoThread
      /\ rw_lock.readers <= 1 => rheld[t] = 1 /\ rw_lock.readers = 1
  BY ReaderFacts
<1>3. rw_lock # RW_DESTROYED
  BY <1>2 DEF RW_DESTROYED, WriteLocked
<1>4. CASE Return(t) /\ UNCHANGED lock
  <2>1. Moves(t, "caller")
    BY <1>4, GotoMoves DEF Return, Locations
  <2>2. Knows(t)'
    BY <2>1 DEF Knows, Moves, TypeOK
  <2> QED BY <1>1, <1>3, <1>4, <2>1, <2>2, LocalStep DEF UnderChain, Locations, SpinsOn
<1>5. CASE /\ rw_lock.readers <= 1 /\ rw_lock.flags \cap RW_LOCK_WAITERS = {}
           /\ ReadToWrite(t, {})
           /\ Return(t)
  <2>1. Moves(t, "caller")
    BY <1>5, GotoMoves DEF Return, Locations
  <2>2. /\ rw_lock' \in Words
        /\ ~ rw_lock'.read /\ rw_lock'.owner = t
        /\ rw_lock'.readers = 0 /\ rw_lock'.flags = {}
    BY <1>5, WordTypes DEF WriteLocked, ReadToWrite
  <2>3. TypeOK'
    BY <1>1, <1>5, <2>1, <2>2 DEF TypeOK, Moves, queues, ReadToWrite
  <2>4. WordInv'
    BY <2>2 DEF WordInv, Free
  <2>5. HoldInv'
    BY <1>5, ReadToWriteHolds
  <2>6. OutsideMove(t)
    BY <1>1, <1>5, <2>1 DEF OutsideMove, Moves, TypeOK, queues, UnderChain, ReadToWrite
  <2>7. OutsideWord(t)
    BY <1>2, <1>3, <1>5, <2>2 DEF OutsideWord, Waiters, RW_DESTROYED, WriteLocked
  <2>8. Knows(t)' /\ ~ ActiveWriter(t)
    BY <1>1, <2>1 DEF Knows, Moves, TypeOK, ActiveWriter
  <2> QED BY <2>3, <2>4, <2>5, <2>6, <2>7, <2>8, OutsideStep
<1>6. CASE /\ rw_lock.readers <= 1 /\ rw_lock.flags \cap RW_LOCK_WAITERS # {}
           /\ Goto(t, "u_trywait")
           /\ UNCHANGED lock
  <2>1. Moves(t, "u_trywait")
    BY <1>6, GotoMoves DEF Locations
  <2>2. Knows(t)'
    BY <1>6, <2>1 DEF Knows, Moves, TypeOK, Waiters, lock
  <2> QED BY <1>1, <1>3, <1>6, <2>1, <2>2, LocalStep DEF UnderChain, Locations, SpinsOn
<1> QED BY <1>4, <1>5, <1>6 DEF UpgradeLoop


(* rw_try_upgrade() keeps the invariant, from its start and after a lost   *)
(* race.                                                                   *)
LEMMA UpgradeStep ==
  ASSUME IInv, NEW t \in Threads, TryUpgrade(t) \/ UpgradeAgain(t)
  PROVE  IInv'
<1>1. CASE TryUpgrade(t)
  BY <1>1, UpgradeLoopStep DEF TryUpgrade, At
<1>2. CASE UpgradeAgain(t)
  <2>1. rheld[t] > 0
    BY <1>2 DEF IInv, ThreadInv, Knows, UpgradeAgain, At
  <2> QED BY <1>2, <2>1, UpgradeLoopStep DEF UpgradeAgain, At
<1> QED BY <1>1, <1>2

(* The only write hold becomes the only read hold.                         *)
LEMMA WriteToReadHolds ==
  ASSUME TypeOK, WordInv, HoldInv, NEW t \in Threads, rw_lock.owner = t, rw_recurse = 0,
         rw_lock'.owner = NoThread, rw_lock'.readers = 1,
         wheld' = [wheld EXCEPT ![t] = 0], rheld' = [rheld EXCEPT ![t] = 1],
         UNCHANGED rw_recurse
  PROVE  HoldInv'
<1>1. /\ rw_lock.readers = 0 /\ rheld[t] = 0
      /\ \A u \in Threads : wheld'[u] = 0
  BY ReaderFacts DEF TypeOK
<1>2. IsFiniteSet(ReadHolds') /\ Cardinality(ReadHolds') = 1
  <2>1. rheld \in [Threads -> Nat] /\ IsFiniteSet(ReadHolds) /\ Cardinality(ReadHolds) = 0
    BY <1>1 DEF TypeOK, HoldInv
  <2>2. rheld' = [rheld EXCEPT ![t] = @ + 1]
    BY <1>1 DEF TypeOK
  <2>3. IsFiniteSet(ReadHolds') /\ Cardinality(ReadHolds') = Cardinality(ReadHolds) + 1
    BY ONLY <2>1, <2>2, t \in Threads, HoldsUp
  <2> QED BY <2>1, <2>3
<1> QED BY <1>1, <1>2, RwLockAssumption DEF HoldInv

(* rw_downgrade() keeps the invariant up to the chain lock.                *)
LEMMA DowngradeStep ==
  ASSUME IInv, NEW t \in Threads, Downgrade(t)
  PROVE  IInv'
<1> USE RwLockAssumption DEF IInv
<1>1. /\ td_state[t] = "running" /\ pc[t] = "caller" /\ wheld[t] = 1
      /\ UNCHANGED <<tc_lock, queues, td_state>>
  BY DEF Downgrade, At
<1>2. rw_lock.owner = t /\ rw_recurse = 0 /\ ~ rw_lock.read
  BY <1>1, ReaderFacts DEF HoldInv, TypeOK
<1>3. rw_lock # RW_DESTROYED
  BY <1>2 DEF RW_DESTROYED, WriteLocked
<1>4. CASE /\ rw_lock = WriteLocked(t, {})
           /\ rw_lock' = ReadLocked(1, {})
           /\ wheld' = [wheld EXCEPT ![t] = 0]
           /\ rheld' = [rheld EXCEPT ![t] = 1]
           /\ Return(t)
           /\ UNCHANGED rw_recurse
  <2>1. Moves(t, "caller")
    BY <1>4, GotoMoves DEF Return, Locations
  <2>2. /\ rw_lock' \in Words
        /\ rw_lock'.read /\ rw_lock'.owner = NoThread
        /\ rw_lock'.readers = 1 /\ rw_lock'.flags = {} /\ rw_lock.flags = {}
    BY <1>4, WordTypes DEF WriteLocked, ReadLocked
  <2>3. TypeOK'
    BY <1>1, <1>4, <2>1, <2>2 DEF TypeOK, Moves, queues
  <2>4. WordInv'
    BY <2>2 DEF WordInv, Free
  <2>5. HoldInv'
    BY <1>2, <1>4, <2>2, WriteToReadHolds
  <2>6. OutsideMove(t)
    BY <1>1, <1>4, <2>1 DEF OutsideMove, Moves, TypeOK, queues, UnderChain
  <2>7. OutsideWord(t)
    BY <1>2, <1>3, <2>2 DEF OutsideWord, Waiters, RW_DESTROYED, WriteLocked
  <2>8. Knows(t)' /\ ~ ActiveWriter(t)
    BY <1>1, <2>1 DEF Knows, Moves, TypeOK, ActiveWriter
  <2> QED BY <2>3, <2>4, <2>5, <2>6, <2>7, <2>8, OutsideStep
<1>5. CASE rw_lock # WriteLocked(t, {}) /\ Goto(t, "d_chain") /\ UNCHANGED lock
  <2>1. Moves(t, "d_chain")
    BY <1>5, GotoMoves DEF Locations
  <2>2. Waiters(rw_lock) # {}
    BY <1>2, <1>5, OwnedWord
  <2>3. Knows(t)'
    BY <1>2, <1>5, <2>1, <2>2 DEF Knows, Moves, TypeOK, lock
  <2> QED BY <1>1, <1>3, <1>5, <2>1, <2>3, LocalStep DEF UnderChain, Locations, SpinsOn
<1> QED BY <1>4, <1>5 DEF Downgrade

(* rw_destroy() and a new rw_init() happen with nobody inside the code.    *)
LEMMA LifeStep ==
  ASSUME IInv, NEW t \in Threads, Destroy(t) \/ Reinit(t)
  PROVE  IInv'
<1> USE RwLockAssumption DEF IInv
<1>1. /\ \A u \in Threads : pc[u] = "caller"
      /\ UNCHANGED <<tc_lock, queues, td_state, wheld, rheld, v, spintries, pc>>
  BY DestroyedIdle DEF Destroy, Reinit
<1>2. /\ rw_lock.owner = NoThread /\ rw_lock.readers = 0
      /\ rw_lock'.owner = NoThread /\ rw_lock'.readers = 0
      /\ rw_lock' = RW_DESTROYED \/ rw_lock' = RW_UNLOCKED
      /\ rw_recurse' = 0
  BY DEF Destroy, Reinit, RW_DESTROYED, RW_UNLOCKED, ReadLocked, WriteLocked, HoldInv
<1>3. /\ ts_blocked'["shared"] = {} /\ ts_blocked'["exclusive"] = {} /\ ts_pending' = {}
  BY <1>1 DEF BlockedInv, Queued, TypeOK, Queues, queues
<1>4. TypeOK'
  BY <1>1, <1>2, WordTypes DEF TypeOK, queues
<1>5. WordInv'
  <2>1. CASE rw_lock' = RW_DESTROYED
    BY <1>1, <2>1 DEF WordInv, Free, RW_DESTROYED, WriteLocked, RW_LOCK_WAITERS, RW, WW, WS
  <2>2. CASE rw_lock' = RW_UNLOCKED
    BY <2>2 DEF WordInv, Free, RW_UNLOCKED, ReadLocked
  <2> QED BY <1>2, <2>1, <2>2
<1>6. HoldInv'
  BY <1>1, <1>2 DEF HoldInv, ReadHolds
<1>7. BlockedInv'
  BY <1>3 DEF BlockedInv, Queued
<1>8. \A u \in Threads : ThreadInv(u)'
  BY <1>1 DEF ThreadInv, Knows, Snapshot, Waking, UnderChain, HasRead_v
<1>9. FlagInv(RW, "shared")' /\ FlagInv(WW, "exclusive")'
  BY <1>1, <1>2, <1>3 DEF FlagInv, Joining, Taken, RW_UNLOCKED, ReadLocked
<1>10. OwnerInv' /\ WriterComes'
  BY <1>3 DEF OwnerInv, WriterComes, SomeBlocked
<1> QED BY <1>4, <1>5, <1>6, <1>7, <1>8, <1>9, <1>10


-----------------------------------------------------------------------------
(***************************************************************************)
(* Steps under the chain lock that change neither the lock nor the queues. *)
(***************************************************************************)

WritersPath ==
  {"w_loop", "w_spin", "w_rspin", "w_trywait", "w_tc", "w_run", "w_cas"}
OnQueue == {"r_wait", "w_wait", "claim", "ru_wake", "wu_store", "wu_unpend", "d_wake"}

(* Moves under the chain lock, onto it and off it, with the word as it     *)
(* was.                                                                    *)
LEMMA ChainMoveStep ==
  ASSUME IInv, NEW t \in Threads, td_state[t] = "running", pc[t] \notin OnQueue \cup {"caller"},
         tc_lock \in {t, NoThread}, NEW l \in Locations \ OnQueue, Moves(t, l),
         tc_lock' = IF l \in UnderChain THEN t ELSE NoThread,
         Knows(t)', Snapshot(t)', pc[t] \in WritersPath => l \in WritersPath,
         pc[t] # "w_blocked", UNCHANGED <<lock, queues, td_state>>
  PROVE  IInv'
<1> USE RwLockAssumption DEF IInv, lock, queues
<1>1. Alone(t) /\ ChainView(t) /\ rw_lock # RW_DESTROYED
  BY ChainFacts
<1>2. pc'[t] = l /\ \A u \in Threads : u # t => pc'[u] = pc[u] /\ v'[u] = v[u]
  BY DEF Moves, TypeOK
<1>3. TypeOK'
  BY DEF TypeOK, Moves
<1>4. WordInv' /\ HoldInv'
  BY <1>1 DEF WordInv, HoldInv, ReadHolds
<1>5. ThreadInv(t)'
  BY <1>2 DEF ThreadInv, Waking, OnQueue
<1>6. OthersStay(t) /\ OthersKeep(t)
  BY <1>2 DEF OthersStay, OthersKeep
<1>7. \A q : Wakes(t, q) = FALSE /\ Wakes(t, q)' = FALSE
  BY <1>2 DEF Wakes, OnQueue
<1>8. FlagOf(t, RW, "shared", "r_wait")' /\ FlagOf(t, WW, "exclusive", "w_wait")'
  BY <1>1, <1>2, <1>7 DEF ChainView, FlagOf, OnQueue
<1>9. OwnerOf(t)'
  BY <1>1, <1>2 DEF ChainView, OwnerOf, SomeBlocked, OnQueue
<1>10. \A u \in Threads : ActiveWriter(u) => ActiveWriter(u)'
  BY <1>2 DEF ActiveWriter, WritersPath
<1>11. ComesTo(t)'
  BY <1>1, <1>7, <1>10 DEF ChainView, ComesTo, SomeBlocked
<1>12. ChainView(t)'
  BY <1>1, <1>2, <1>8, <1>9, <1>11 DEF ChainView, OnQueue
<1>13. Queued'
  BY <1>2 DEF BlockedInv, Queued, TypeOK, Queues
<1> QED BY <1>3, <1>4, <1>5, <1>6, <1>12, <1>13, ChainStep

(* turnstile_trywait() and turnstile_chain_lock().                         *)
LEMMA ChainLockStep ==
  ASSUME IInv, NEW t \in Threads, td_state[t] = "running", ChainLock(t),
         NEW l, Moves(t, l), UNCHANGED <<lock, td_state>>,
         \/ pc[t] = "r_trywait" /\ l = "r_tc"
         \/ pc[t] = "w_trywait" /\ l = "w_tc"
         \/ pc[t] = "u_trywait" /\ l = "u_tc"
         \/ pc[t] = "ru_chain" /\ l = "ru_tc" /\ v'[t] = rw_lock
         \/ pc[t] = "wu_chain" /\ l = "wu_tc"
         \/ pc[t] = "d_chain" /\ l = "d_tc" /\ v'[t] = rw_lock
  PROVE  IInv'
<1> USE DEF IInv
<1>1. Knows(t)
  BY DEF ThreadInv
<1>2. Knows(t)'
  BY <1>1 DEF Knows, Moves, TypeOK, lock
<1>3. Snapshot(t)'
  BY <1>1 DEF Knows, Snapshot, Moves, TypeOK, lock, HasRead_v
<1> QED BY <1>2, <1>3, ChainMoveStep
        DEF ChainLock, Locations, OnQueue, UnderChain, WritersPath

(* turnstile_trywait() keeps the invariant.                                *)
LEMMA TrywaitStep ==
  ASSUME IInv, NEW t \in Threads, RlockTrywait(t) \/ WlockTrywait(t) \/ UpgradeTrywait(t)
  PROVE  IInv'
<1>1. CASE RlockTrywait(t)
  BY <1>1, GotoMoves, ChainLockStep DEF IInv, RlockTrywait, Trywait, At, Locations
<1>2. CASE WlockTrywait(t)
  BY <1>2, GotoMoves, ChainLockStep DEF IInv, WlockTrywait, Trywait, At, Locations
<1>3. CASE UpgradeTrywait(t)
  BY <1>3, GotoMoves, ChainLockStep DEF IInv, UpgradeTrywait, Trywait, At, Locations
<1> QED BY <1>1, <1>2, <1>3

(* turnstile_chain_lock() of the releases keeps the invariant.             *)
LEMMA UnlockChainStep ==
  ASSUME IInv, NEW t \in Threads, RunlockChain(t) \/ WunlockChain(t) \/ DowngradeChain(t)
  PROVE  IInv'
<1>1. TypeOK /\ rw_lock \in Words
  BY DEF IInv, TypeOK
<1>2. CASE RunlockChain(t)
  BY <1>1, <1>2, GotoWithMoves, ChainLockStep DEF RunlockChain, At, Locations
<1>3. CASE WunlockChain(t)
  BY <1>1, <1>3, GotoMoves, ChainLockStep DEF WunlockChain, At, Locations
<1>4. CASE DowngradeChain(t)
  BY <1>1, <1>4, GotoWithMoves, ChainLockStep DEF DowngradeChain, At, Locations
<1> QED BY <1>2, <1>3, <1>4

(* turnstile_cancel().                                                     *)
LEMMA CancelStep ==
  ASSUME IInv, NEW t \in Threads, td_state[t] = "running", NEW l, Cancel(t, l),
         \/ pc[t] \in {"r_tc", "r_run", "r_cas"} /\ l = "r_loop"
         \/ pc[t] \in {"w_run", "w_cas"} /\ l = "w_loop"
         \/ pc[t] = "ru_tc" /\ l = "ru_loop"
         \/ pc[t] = "u_tc" /\ l = "caller"
         \/ pc[t] = "u_cas" /\ l = "u_loop"
  PROVE  IInv'
<1> USE DEF IInv
<1>1. Knows(t) /\ tc_lock = t
  BY DEF ThreadInv, UnderChain
<1>2. Moves(t, l)
  BY GotoMoves DEF Cancel, Locations
<1>3. Knows(t)'
  BY <1>1, <1>2 DEF Knows, Moves, TypeOK, Cancel, lock
<1>4. Snapshot(t)'
  BY <1>2 DEF Snapshot, Moves, TypeOK, HasRead_v
<1> QED BY <1>1, <1>2, <1>3, <1>4, ChainMoveStep
        DEF Cancel, ChainUnlock, Locations, OnQueue, UnderChain, WritersPath

(* Reading the word under the chain lock, and checking on its owner.       *)
LEMMA ChainReadStep ==
  ASSUME IInv, NEW t \in Threads, td_state[t] = "running", NEW l, Moves(t, l),
         UNCHANGED <<lock, tc_lock, queues, td_state>>,
         \/ pc[t] = "r_tc" /\ l = "r_run" /\ v'[t] = rw_lock /\ ~ Free(rw_lock)
         \/ pc[t] = "w_tc" /\ l = "w_run" /\ v'[t] = rw_lock
         \/ pc[t] = "u_tc" /\ l = "u_cas" /\ v'[t] = rw_lock /\ rw_lock.readers <= 1
         \/ pc[t] = "r_run" /\ l = "r_cas" /\ v'[t] = v[t]
         \/ pc[t] = "w_run" /\ l = "w_cas" /\ v'[t] = v[t]
  PROVE  IInv'
<1> USE DEF IInv
<1>1. Knows(t) /\ Snapshot(t) /\ tc_lock = t
  BY DEF ThreadInv, UnderChain
<1>2. Knows(t)'
  BY <1>1 DEF Knows, Moves, TypeOK, lock
<1>3. Snapshot(t)'
  BY <1>1 DEF Knows, Snapshot, Moves, TypeOK, lock, HasRead_v
<1> QED BY <1>1, <1>2, <1>3, ChainMoveStep
        DEF Locations, OnQueue, UnderChain, WritersPath


(* The read under the chain lock in __rw_rlock(): a lock that a reader may *)
(* not enter is not free.                                                  *)
LEMMA RlockReadStep ==
  ASSUME IInv, NEW t \in Threads, RlockRead(t)
  PROVE  IInv'
<1> USE DEF IInv
<1>1. CASE Cancel(t, "r_loop")
  BY <1>1, CancelStep DEF RlockRead, At
<1>2. CASE /\ ~ RW_CAN_READ(t, rw_lock)
           /\ GotoWith(t, "r_run", rw_lock)
           /\ UNCHANGED <<lock, tc_lock, queues, td_state>>
  <2>1. Moves(t, "r_run") /\ v'[t] = rw_lock
    BY <1>2, GotoWithMoves DEF TypeOK, Locations
  <2>2. ~ Free(rw_lock)
    BY <1>2 DEF WordInv, Free, RW_CAN_READ
  <2> QED BY <1>2, <2>1, <2>2, ChainReadStep DEF RlockRead, At
<1> QED BY <1>1, <1>2 DEF RlockRead

(* The read under the chain lock in __rw_wlock_hard().                     *)
LEMMA WlockReadStep ==
  ASSUME IInv, NEW t \in Threads, WlockRead(t)
  PROVE  IInv'
<1>1. Moves(t, "w_run") /\ v'[t] = rw_lock
  BY GotoWithMoves DEF IInv, TypeOK, Locations, WlockRead
<1> QED BY <1>1, ChainReadStep DEF WlockRead, At

(* The check on the owner under the chain lock.                            *)
LEMMA RunningStep ==
  ASSUME IInv, NEW t \in Threads, RlockRunning(t) \/ WlockRunning(t)
  PROVE  IInv'
<1> USE DEF IInv
<1>1. v[t] \in Words
  BY DEF TypeOK
<1>2. CASE RlockRunning(t)
  <2>1. CASE Cancel(t, "r_loop")
    BY <1>2, <2>1, CancelStep DEF RlockRunning, OwnerCheck, At
  <2>2. CASE KeepV(t, "r_cas") /\ UNCHANGED <<lock, tc_lock, queues, td_state>>
    <3>1. Moves(t, "r_cas") /\ v'[t] = v[t]
      BY <1>1, <2>2, GotoWithMoves DEF KeepV, Locations
    <3> QED BY <1>2, <2>2, <3>1, ChainReadStep DEF RlockRunning, OwnerCheck, At
  <2> QED BY <1>2, <2>1, <2>2 DEF RlockRunning, OwnerCheck
<1>3. CASE WlockRunning(t)
  <2>1. CASE Cancel(t, "w_loop")
    BY <1>3, <2>1, CancelStep DEF WlockRunning, OwnerCheck, At
  <2>2. CASE KeepV(t, "w_cas") /\ UNCHANGED <<lock, tc_lock, queues, td_state>>
    <3>1. Moves(t, "w_cas") /\ v'[t] = v[t]
      BY <1>1, <2>2, GotoWithMoves DEF KeepV, Locations
    <3> QED BY <1>3, <2>2, <3>1, ChainReadStep DEF WlockRunning, OwnerCheck, At
  <2> QED BY <1>3, <2>1, <2>2 DEF WlockRunning, OwnerCheck
<1> QED BY <1>2, <1>3

(* The read under the chain lock in __rw_try_upgrade().                    *)
LEMMA UpgradeReadStep ==
  ASSUME IInv, NEW t \in Threads, UpgradeRead(t)
  PROVE  IInv'
<1> USE DEF IInv
<1>1. CASE Cancel(t, "caller")
  BY <1>1, CancelStep DEF UpgradeRead, At
<1>2. CASE /\ rw_lock.readers <= 1
           /\ GotoWith(t, "u_cas", rw_lock)
           /\ UNCHANGED <<lock, tc_lock, queues, td_state>>
  <2>1. Moves(t, "u_cas") /\ v'[t] = rw_lock
    BY <1>2, GotoWithMoves DEF TypeOK, Locations
  <2> QED BY <1>2, <2>1, ChainReadStep DEF UpgradeRead, At
<1> QED BY <1>1, <1>2 DEF UpgradeRead

-----------------------------------------------------------------------------
(***************************************************************************)
(* Steps under the chain lock that change the word or the queues.          *)
(***************************************************************************)

(* The waiters flag is set, or found set, on a lock that is not free.      *)
LEMMA JoinStep ==
  ASSUME IInv, NEW t \in Threads, td_state[t] = "running", NEW f, NEW l, Moves(t, l),
         \/ f = RW /\ pc[t] = "r_cas" /\ l = "r_wait"
         \/ f = WW /\ pc[t] = "w_cas" /\ l = "w_wait",
         rw_lock' \in Words, rw_lock'.flags = rw_lock.flags \cup {f},
         rw_lock'.read = rw_lock.read, rw_lock'.owner = rw_lock.owner,
         rw_lock'.readers = rw_lock.readers, ~ Free(rw_lock),
         UNCHANGED <<rw_recurse, wheld, rheld, tc_lock, queues, td_state>>
  PROVE  IInv'
<1> USE RwLockAssumption DEF IInv, queues
<1>1. tc_lock = t
  BY DEF ThreadInv, UnderChain
<1>2. Alone(t) /\ ChainView(t) /\ rw_lock # RW_DESTROYED
  BY <1>1, ChainFacts
<1>3. pc'[t] = l /\ \A u \in Threads : u # t => pc'[u] = pc[u] /\ v'[u] = v[u]
  BY DEF Moves, TypeOK
<1>4. TypeOK'
  BY DEF TypeOK, Moves
<1>5. WordInv' /\ ~ Free(rw_lock')
  BY <1>2 DEF WordInv, Free, RW, WW, WS
<1>6. HoldInv'
  BY DEF HoldInv, ReadHolds
<1>7. ThreadInv(t)'
  BY <1>1, <1>3, <1>5 DEF ThreadInv, Knows, Snapshot, Waking, UnderChain, HasRead_v
<1>8. OthersStay(t) /\ OthersKeep(t)
  BY <1>3 DEF OthersStay, OthersKeep, Waiters, RW_LOCK_WAITERS
<1>9. \A q : Wakes(t, q) = FALSE /\ Wakes(t, q)' = FALSE
  BY <1>3 DEF Wakes
<1>10. FlagOf(t, RW, "shared", "r_wait")' /\ FlagOf(t, WW, "exclusive", "w_wait")'
  BY <1>2, <1>3, <1>9 DEF ChainView, FlagOf, RW, WW
<1>11. OwnerOf(t)' /\ ComesTo(t)'
  BY <1>2, <1>3, <1>5 DEF ChainView, OwnerOf, ComesTo, SomeBlocked
<1>12. ChainView(t)'
  BY <1>2, <1>3, <1>10, <1>11 DEF ChainView
<1>13. Queued'
  BY <1>3 DEF BlockedInv, Queued, TypeOK, Queues
<1> QED BY <1>1, <1>4, <1>5, <1>6, <1>7, <1>8, <1>12, <1>13, ChainStep


(* Setting a waiters flag, or finding it set, keeps the invariant.         *)
LEMMA FlagCasStep ==
  ASSUME IInv, NEW t \in Threads, td_state[t] = "running", ~ Free(v[t]),
         NEW f, NEW l, NEW loop, FlagCas(t, f, l, loop),
         \/ f = RW /\ pc[t] = "r_cas" /\ l = "r_wait" /\ loop = "r_loop"
         \/ f = WW /\ pc[t] = "w_cas" /\ l = "w_wait" /\ loop = "w_loop"
  PROVE  IInv'
<1> USE DEF IInv
<1>1. f \in RW_LOCK_WAITERS /\ f \in {RW, WW, WS} /\ l \in Locations
  BY DEF RW_LOCK_WAITERS, Locations
<1>2. CASE Cancel(t, loop)
  BY <1>2, CancelStep
<1>3. CASE /\ rw_lock = v[t] /\ SetFlag(f)
           /\ Goto(t, l)
           /\ UNCHANGED <<tc_lock, queues, td_state>>
  <2>1. Moves(t, l)
    BY <1>1, <1>3, GotoMoves
  <2>2. /\ rw_lock' \in Words /\ rw_lock'.flags = rw_lock.flags \cup {f}
        /\ rw_lock'.read = rw_lock.read /\ rw_lock'.owner = rw_lock.owner
        /\ rw_lock'.readers = rw_lock.readers
    BY <1>1, <1>3 DEF SetFlag, TypeOK, Words
  <2> QED BY <1>3, <2>1, <2>2, JoinStep DEF SetFlag
<1>4. CASE /\ f \in v[t].flags
           /\ Goto(t, l)
           /\ UNCHANGED <<lock, tc_lock, queues, td_state>>
  <2>1. Moves(t, l)
    BY <1>1, <1>4, GotoMoves
  <2>2. Waiters(v[t]) = Waiters(rw_lock) /\ (Waiters(v[t]) # {} => ~ Free(rw_lock))
    BY DEF ThreadInv, Snapshot, HasRead_v
  <2>3. f \in rw_lock.flags /\ ~ Free(rw_lock)
    BY <1>1, <1>4, <2>2 DEF Waiters
  <2>4. rw_lock' \in Words /\ rw_lock'.flags = rw_lock.flags \cup {f}
    BY <1>4, <2>3 DEF lock, TypeOK
  <2> QED BY <1>4, <2>1, <2>3, <2>4, JoinStep DEF lock
<1> QED BY <1>2, <1>3, <1>4 DEF FlagCas

(* The compare-and-set of __rw_rlock() under the chain lock.               *)
LEMMA RlockCasStep ==
  ASSUME IInv, NEW t \in Threads, RlockCas(t)
  PROVE  IInv'
<1>1. ~ Free(v[t])
  BY DEF IInv, ThreadInv, Snapshot, RlockCas, At
<1> QED BY <1>1, FlagCasStep DEF RlockCas, At

(* turnstile_wait(): the flag is set, so the owner will see the thread.    *)
LEMMA WaitStep ==
  ASSUME IInv, NEW t \in Threads, NEW q \in Queues, NEW here, NEW l, Wait(t, here, q, l),
         \/ q = "shared" /\ here = "r_wait" /\ l = "r_blocked"
         \/ q = "exclusive" /\ here = "w_wait" /\ l = "w_blocked"
  PROVE  IInv'
<1> USE RwLockAssumption DEF IInv, lock
<1>1. /\ td_state[t] = "running" /\ pc[t] = here
      /\ ts_blocked' = [ts_blocked EXCEPT ![q] = @ \cup {t}]
      /\ ts_owner' = IF \A p \in Queues : ts_blocked[p] = {} THEN rw_lock.owner ELSE ts_owner
      /\ td_state' = [td_state EXCEPT ![t] = "lock"]
      /\ tc_lock' = NoThread
      /\ UNCHANGED <<lock, ts_pending>>
  BY DEF Wait, At, ChainUnlock
<1>2. tc_lock = t /\ ~ Free(rw_lock)
  BY <1>1 DEF ThreadInv, Snapshot, UnderChain
<1>3. Alone(t) /\ ChainView(t) /\ rw_lock # RW_DESTROYED
  BY <1>1, <1>2, ChainFacts
<1>4. Moves(t, l)
  BY GotoMoves DEF Wait, Locations
<1>5. pc'[t] = l /\ \A u \in Threads : u # t => pc'[u] = pc[u] /\ v'[u] = v[u]
  BY <1>4 DEF Moves, TypeOK
<1>6. ts_blocked' \in [Queues -> SUBSET Threads] /\ ts_owner' \in Threads \cup {NoThread}
  BY <1>1 DEF TypeOK, Words
<1>7. TypeOK'
  BY <1>1, <1>4, <1>6 DEF TypeOK, Moves
<1>8. WordInv' /\ HoldInv'
  BY <1>1, <1>3 DEF WordInv, HoldInv, ReadHolds
<1>9. ThreadInv(t)'
  BY <1>1, <1>5 DEF ThreadInv, Knows, Snapshot, Waking, UnderChain, HasRead_v
<1>10. OthersStay(t) /\ OthersKeep(t)
  BY <1>1, <1>5 DEF OthersStay, OthersKeep
<1>11. \A p : Wakes(t, p) = FALSE /\ Wakes(t, p)' = FALSE
  BY <1>1, <1>5 DEF Wakes
<1>12. /\ ts_blocked'[q] # {}
       /\ \A p \in Queues : p # q => ts_blocked'[p] = ts_blocked[p]
  BY <1>1 DEF TypeOK
<1>13. FlagOf(t, RW, "shared", "r_wait")' /\ FlagOf(t, WW, "exclusive", "w_wait")'
  BY <1>1, <1>3, <1>5, <1>11, <1>12 DEF ChainView, FlagOf, Queues
<1>14. OwnerOf(t)'
  BY <1>1, <1>3 DEF ChainView, OwnerOf, SomeBlocked, Queues
<1>15. ComesTo(t)'
  BY <1>1, <1>2 DEF ComesTo
<1>16. ChainView(t)'
  BY <1>1, <1>3, <1>13, <1>14, <1>15 DEF ChainView
<1>17. t \notin ts_pending
  BY <1>1 DEF BlockedInv, Queued
<1>18. Queued'
  BY <1>1, <1>5, <1>17 DEF BlockedInv, Queued, TypeOK, Queues
<1> QED BY <1>1, <1>2, <1>7, <1>8, <1>9, <1>10, <1>16, <1>18, ChainStep

(* Readers and writers that block keep the invariant.                      *)
LEMMA BlockStep ==
  ASSUME IInv, NEW t \in Threads, RlockWait(t) \/ WlockWait(t)
  PROVE  IInv'
BY WaitStep DEF RlockWait, WlockWait, Queues


(* A thread becomes the owner under the chain lock, with the waiters flags *)
(* kept: of a lock that was free, or that it alone held for reading.       *)
LEMMA TakeStep ==
  ASSUME IInv, NEW t \in Threads, td_state[t] = "running", pc[t] \in {"w_cas", "u_cas"},
         NEW l, Moves(t, l), l = IF Waiters(rw_lock) # {} THEN "claim" ELSE "caller",
         tc_lock' = IF l = "claim" THEN t ELSE NoThread,
         rw_lock' = WriteLocked(t, Waiters(rw_lock)),
         rw_lock.owner = NoThread,
         rheld' \in [Threads -> Nat], wheld' \in [Threads -> Nat],
         \A u \in Threads : u # t => rheld'[u] = rheld[u],
         HoldInv', UNCHANGED <<rw_recurse, queues, td_state>>
  PROVE  IInv'
<1> USE RwLockAssumption DEF IInv, queues
<1>1. tc_lock = t
  BY DEF ThreadInv, UnderChain
<1>2. Alone(t) /\ ChainView(t) /\ rw_lock # RW_DESTROYED
  BY <1>1, ChainFacts
<1>3. pc'[t] = l /\ \A u \in Threads : u # t => pc'[u] = pc[u] /\ v'[u] = v[u]
  BY DEF Moves, TypeOK
<1>4. /\ rw_lock' \in Words /\ ~ rw_lock'.read /\ rw_lock'.owner = t
      /\ rw_lock'.readers = 0 /\ rw_lock'.flags = Waiters(rw_lock)
      /\ Waiters(rw_lock') = Waiters(rw_lock)
  BY WordTypes DEF WriteLocked, Waiters, RW_LOCK_WAITERS
<1>5. TypeOK'
  BY <1>4 DEF TypeOK, Moves
<1>6. WordInv' /\ ~ Free(rw_lock')
  BY <1>4 DEF WordInv, Free, Waiters, RW_LOCK_WAITERS, RW, WW, WS
<1>7. \A q : Wakes(t, q) = FALSE /\ Wakes(t, q)' = FALSE
  BY <1>3 DEF Wakes
<1>8. SomeBlocked <=> Waiters(rw_lock) # {}
  BY <1>2, <1>7 DEF ChainView, FlagOf, SomeBlocked, Waiters, RW_LOCK_WAITERS
<1>9. ThreadInv(t)'
  BY <1>3, <1>4, <1>8
     DEF ThreadInv, Knows, Snapshot, Waking, SomeBlocked, UnderChain, HasRead_v
<1>10. OthersStay(t) /\ OthersKeep(t)
  BY <1>3, <1>4 DEF OthersStay, OthersKeep
<1>11. FlagOf(t, RW, "shared", "r_wait")' /\ FlagOf(t, WW, "exclusive", "w_wait")'
  BY <1>2, <1>3, <1>4, <1>7 DEF ChainView, FlagOf, Waiters, RW_LOCK_WAITERS
<1>12. OwnerOf(t)' /\ ComesTo(t)'
  BY <1>3, <1>6, <1>8 DEF OwnerOf, ComesTo, SomeBlocked
<1>13. ChainView(t)'
  BY <1>2, <1>3, <1>11, <1>12 DEF ChainView
<1>14. Queued'
  BY <1>3 DEF BlockedInv, Queued, TypeOK, Queues
<1> QED BY <1>1, <1>5, <1>6, <1>9, <1>10, <1>13, <1>14, ChainStep

(* The compare-and-sets of __rw_wlock_hard() under the chain lock.         *)
LEMMA WlockCasStep ==
  ASSUME IInv, NEW t \in Threads, WlockCas(t)
  PROVE  IInv'
<1> USE RwLockAssumption DEF IInv
<1>1. td_state[t] = "running" /\ pc[t] = "w_cas"
  BY DEF WlockCas, At
<1>2. CASE Cancel(t, "w_loop")
  BY <1>1, <1>2, CancelStep
<1>3. CASE /\ v[t].read /\ v[t].readers = 0 /\ rw_lock = v[t]
           /\ WriteGain(t, v[t].flags \cap RW_LOCK_WAITERS)
           /\ IF v[t].flags \cap RW_LOCK_WAITERS # {}
              THEN Goto(t, "claim") /\ UNCHANGED tc_lock
              ELSE Return(t) /\ ChainUnlock(t)
           /\ UNCHANGED <<queues, td_state>>
  <2> DEFINE l == IF Waiters(rw_lock) # {} THEN "claim" ELSE "caller"
  <2>1. tc_lock = t
    BY <1>1 DEF ThreadInv, UnderChain
  <2>2. Goto(t, l) /\ l \in Locations /\ tc_lock' = IF l = "claim" THEN t ELSE NoThread
    BY <1>3, <2>1 DEF Waiters, Return, ChainUnlock, Locations
  <2>3. Moves(t, l)
    BY <2>2, GotoMoves
  <2>4. rw_lock.owner = NoThread /\ rw_lock.readers = 0
    BY <1>3 DEF WordInv
  <2>5. /\ rw_lock' = WriteLocked(t, Waiters(rw_lock))
        /\ wheld' = [wheld EXCEPT ![t] = 1]
        /\ UNCHANGED <<rw_recurse, rheld>>
    BY <1>3 DEF WriteGain, Waiters
  <2>6. rw_lock'.owner = t /\ rw_lock'.readers = 0
    BY <2>5 DEF WriteLocked
  <2>7. HoldInv'
    BY <2>4, <2>5, <2>6 DEF HoldInv, ReadHolds, TypeOK
  <2>8. rheld' \in [Threads -> Nat] /\ wheld' \in [Threads -> Nat]
    BY <2>5 DEF TypeOK
  <2> HIDE DEF l
  <2>9. l = IF Waiters(rw_lock) # {} THEN "claim" ELSE "caller"
    BY DEF l
  <2> QED BY <1>1, <1>3, <2>2, <2>3, <2>4, <2>5, <2>7, <2>8, <2>9, TakeStep
<1>4. CASE ~ (v[t].read /\ v[t].readers = 0) /\ FlagCas(t, WW, "w_wait", "w_loop")
  BY <1>1, <1>4, FlagCasStep DEF Free
<1> QED BY <1>2, <1>3, <1>4 DEF WlockCas

(* The compare-and-set of __rw_try_upgrade() under the chain lock.         *)
LEMMA UpgradeCasStep ==
  ASSUME IInv, NEW t \in Threads, UpgradeCas(t)
  PROVE  IInv'
<1> USE RwLockAssumption DEF IInv
<1>1. td_state[t] = "running" /\ pc[t] = "u_cas"
  BY DEF UpgradeCas, At
<1>2. CASE Cancel(t, "u_loop")
  BY <1>1, <1>2, CancelStep
<1>3. CASE /\ rw_lock = v[t]
           /\ ReadToWrite(t, v[t].flags \cap RW_LOCK_WAITERS)
           /\ Goto(t, "claim")
           /\ UNCHANGED <<tc_lock, queues, td_state>>
  <2>1. tc_lock = t /\ rheld[t] > 0 /\ v[t].readers <= 1 /\ Waiters(v[t]) # {}
    BY <1>1 DEF ThreadInv, Knows, Snapshot, UnderChain
  <2>2. Moves(t, "claim")
    BY <1>3, GotoMoves DEF Locations
  <2>3. rw_lock.owner = NoThread
    BY <2>1, ReaderFacts
  <2>4. HoldInv'
    BY <1>3, <2>1, ReadToWriteHolds
  <2>5. /\ rw_lock' = WriteLocked(t, Waiters(rw_lock))
        /\ rheld' = [rheld EXCEPT ![t] = @ - 1]
        /\ wheld' = [wheld EXCEPT ![t] = 1]
        /\ UNCHANGED rw_recurse
    BY <1>3 DEF ReadToWrite, Waiters
  <2>6. rheld' \in [Threads -> Nat] /\ wheld' \in [Threads -> Nat]
    BY <2>1, <2>5 DEF TypeOK
  <2>7. \A u \in Threads : u # t => rheld'[u] = rheld[u]
    BY <2>5 DEF TypeOK
  <2> QED BY <1>1, <1>3, <2>1, <2>2, <2>3, <2>4, <2>5, <2>6, <2>7, TakeStep
<1> QED BY <1>2, <1>3 DEF UpgradeCas

(* turnstile_claim(): the turnstile belongs to the owner of the word.      *)
LEMMA ClaimStep ==
  ASSUME IInv, NEW t \in Threads, Claim(t)
  PROVE  IInv'
<1> USE RwLockAssumption DEF IInv, lock
<1>1. /\ td_state[t] = "running" /\ pc[t] = "claim"
      /\ ts_owner' = t /\ tc_lock' = NoThread
      /\ UNCHANGED <<lock, ts_blocked, ts_pending, td_state>>
  BY DEF Claim, At, ChainUnlock
<1>2. tc_lock = t /\ rw_lock.owner = t
  BY <1>1 DEF ThreadInv, Knows, UnderChain
<1>3. Alone(t) /\ ChainView(t) /\ rw_lock # RW_DESTROYED
  BY <1>1, <1>2, ChainFacts
<1>4. Moves(t, "caller")
  BY GotoMoves DEF Claim, Return, Locations
<1>5. pc'[t] = "caller" /\ \A u \in Threads : u # t => pc'[u] = pc[u] /\ v'[u] = v[u]
  BY <1>4 DEF Moves, TypeOK
<1>6. TypeOK'
  BY <1>1, <1>4 DEF TypeOK, Moves
<1>7. WordInv' /\ HoldInv' /\ ~ Free(rw_lock')
  BY <1>1, <1>2, <1>3, ReaderFacts DEF WordInv, HoldInv, ReadHolds, Free
<1>8. ThreadInv(t)'
  BY <1>1, <1>5 DEF ThreadInv, Knows, Snapshot, Waking, UnderChain, HasRead_v
<1>9. OthersStay(t) /\ OthersKeep(t)
  BY <1>1, <1>5 DEF OthersStay, OthersKeep
<1>10. \A q : Wakes(t, q) = FALSE /\ Wakes(t, q)' = FALSE
  BY <1>1, <1>5 DEF Wakes
<1>11. FlagOf(t, RW, "shared", "r_wait")' /\ FlagOf(t, WW, "exclusive", "w_wait")'
  BY <1>1, <1>3, <1>5, <1>10 DEF ChainView, FlagOf
<1>12. OwnerOf(t)' /\ ComesTo(t)'
  BY <1>1, <1>2, <1>7 DEF OwnerOf, ComesTo
<1>13. ChainView(t)'
  BY <1>1, <1>3, <1>11, <1>12 DEF ChainView
<1>14. Queued'
  BY <1>1, <1>5 DEF BlockedInv, Queued, TypeOK, Queues
<1> QED BY <1>1, <1>2, <1>6, <1>7, <1>8, <1>9, <1>13, <1>14, ChainStep


(* The word that a release leaves.                                         *)
LEMMA ReleasedWord ==
  ASSUME NEW f \in SUBSET {RW, WW, WS}
  PROVE  /\ Released(f) \in Words
         /\ Released(f).read /\ Released(f).owner = NoThread /\ Released(f).readers = 0
         /\ Released(f).flags = IF WW \in f THEN f \cap {RW} ELSE {}
         /\ Released(f) # RW_DESTROYED
BY WordTypes DEF Released, RW_UNLOCKED, RW_DESTROYED, ReadLocked, WriteLocked

(* The last reader releases the lock under the chain lock: the flags that  *)
(* it read still stand for threads on the queues.                          *)
LEMMA RunlockCasStep ==
  ASSUME IInv, NEW t \in Threads, RunlockCas(t)
  PROVE  IInv'
<1> USE RwLockAssumption DEF IInv
<1>1. td_state[t] = "running" /\ pc[t] = "ru_tc"
  BY DEF RunlockCas, At
<1>2. CASE Cancel(t, "ru_loop")
  BY <1>1, <1>2, CancelStep
<1>3. CASE /\ rw_lock = ReadLocked(1, v[t].flags)
           /\ ReadDrop(t, Released(v[t].flags))
           /\ KeepV(t, "ru_wake")
           /\ UNCHANGED <<tc_lock, queues, td_state>>
  <2> DEFINE f == v[t].flags
  <2>1. tc_lock = t /\ rheld[t] > 0 /\ Waiters(v[t]) # {}
    BY <1>1 DEF ThreadInv, Knows, Snapshot, UnderChain
  <2>2. Alone(t) /\ ChainView(t) /\ rw_lock # RW_DESTROYED
    BY <1>1, <2>1, ChainFacts
  <2>3. /\ rw_lock.flags = f /\ rw_lock.readers = 1 /\ rw_lock.owner = NoThread
        /\ f \in SUBSET {RW, WW, WS} /\ f \cap {RW, WW} # {}
    BY <1>3, <2>1 DEF ReadLocked, TypeOK, Words, Waiters, RW_LOCK_WAITERS
  <2>4. /\ rw_lock' \in Words /\ rw_lock'.read /\ rw_lock'.owner = NoThread
        /\ rw_lock'.readers = 0 /\ rw_lock'.flags = IF WW \in f THEN f \cap {RW} ELSE {}
    BY <1>3, <2>3, ReleasedWord DEF ReadDrop
  <2>5. /\ rheld[t] = 1 /\ \A u \in Threads : u # t => rheld[u] = 0
        /\ rheld' = [rheld EXCEPT ![t] = @ - 1]
        /\ UNCHANGED <<rw_recurse, wheld, tc_lock, queues, td_state>>
    BY <1>3, <2>1, <2>3, ReaderFacts DEF ReadDrop
  <2>6. Moves(t, "ru_wake") /\ v'[t] = v[t]
    BY <1>3, GotoWithMoves DEF TypeOK, KeepV, Locations
  <2>7. pc'[t] = "ru_wake" /\ \A u \in Threads : u # t => pc'[u] = pc[u] /\ v'[u] = v[u]
    BY <2>6 DEF Moves, TypeOK
  <2> HIDE DEF f
  <2>8. TypeOK'
    BY <2>4, <2>5, <2>6 DEF TypeOK, Moves, queues
  <2>9. WordInv'
    BY <2>4 DEF WordInv, RW, WW, WS
  <2>10. HoldInv'
    <3>1. rheld \in [Threads -> Nat] /\ IsFiniteSet(ReadHolds) /\ Cardinality(ReadHolds) = 1
      BY <2>3 DEF TypeOK, HoldInv
    <3>2. IsFiniteSet(ReadHolds') /\ Cardinality(ReadHolds') = Cardinality(ReadHolds) - 1
      BY <2>1, <2>5, <3>1, HoldsDown
    <3> QED BY <2>3, <2>4, <2>5, <3>1, <3>2 DEF HoldInv
  <2>11. \A q : Wakes(t, q) = FALSE /\ (Wakes(t, q)' <=> WakeQueue(f) = q)
    BY <1>1, <2>6, <2>7 DEF Wakes, f
  <2>12. /\ WW \in f <=> ts_blocked["exclusive"] # {}
         /\ RW \in f <=> ts_blocked["shared"] # {}
         /\ ts_owner = NoThread
    BY <1>1, <2>2, <2>3, <2>11 DEF ChainView, FlagOf, OwnerOf, SomeBlocked
  <2>13. ts_blocked[WakeQueue(f)] # {} /\ WakeQueue(f) \in Queues
    BY <2>3, <2>12 DEF WakeQueue, Queues
  <2>14. ThreadInv(t)'
    BY <2>1, <2>4, <2>5, <2>6, <2>7, <2>12, <2>13
       DEF ThreadInv, Knows, Snapshot, Waking, UnderChain, HasRead_v, queues, f
  <2>15. OthersStay(t) /\ OthersKeep(t)
    BY <2>3, <2>5, <2>7 DEF OthersStay, OthersKeep, TypeOK
  <2>16. FlagOf(t, RW, "shared", "r_wait")' /\ FlagOf(t, WW, "exclusive", "w_wait")'
    BY <2>4, <2>5, <2>7, <2>11, <2>12 DEF FlagOf, WakeQueue, queues, RW, WW
  <2>17. OwnerOf(t)' /\ ComesTo(t)'
    BY <2>5, <2>7, <2>11, <2>13 DEF OwnerOf, ComesTo, queues
  <2>18. ChainView(t)'
    BY <1>1, <2>2, <2>5, <2>16, <2>17 DEF ChainView, queues
  <2>19. Queued'
    BY <1>1, <2>5, <2>7 DEF BlockedInv, Queued, TypeOK, Queues, queues
  <2> QED BY <1>1, <2>1, <2>5, <2>8, <2>9, <2>10, <2>14, <2>15, <2>18, <2>19, ChainStep
<1> QED BY <1>2, <1>3 DEF RunlockCas

(* Waking a queue under the chain lock.                                    *)
LEMMA WakeStep ==
  ASSUME IInv, NEW t \in Threads, td_state[t] = "running", pc[t] \in {"ru_wake", "d_wake"},
         NEW q \in Queues, Wakes(t, q), Wake(t, q), Moves(t, "caller"), UNCHANGED lock
  PROVE  IInv'
<1> USE RwLockAssumption DEF IInv, lock
<1>1. /\ td_state' = [u \in Threads |-> IF u \in ts_blocked[q] THEN "runq" ELSE td_state[u]]
      /\ ts_blocked' = [ts_blocked EXCEPT ![q] = {}]
      /\ ts_owner' = NoThread /\ tc_lock' = NoThread
      /\ UNCHANGED <<ts_pending, lock>>
  BY DEF Wake, ChainUnlock
<1>2. tc_lock = t /\ Waking(t) /\ Knows(t)
  BY <1>1 DEF ThreadInv, UnderChain
<1>3. Alone(t) /\ ChainView(t) /\ rw_lock # RW_DESTROYED
  BY <1>1, <1>2, ChainFacts
<1>4. pc'[t] = "caller" /\ \A u \in Threads : u # t => pc'[u] = pc[u] /\ v'[u] = v[u]
  BY DEF Moves, TypeOK
<1>5. /\ ts_blocked' \in [Queues -> SUBSET Threads]
      /\ td_state' \in [Threads -> {"running", "runq", "lock"}]
  BY <1>1 DEF TypeOK
<1>6. TypeOK'
  BY <1>1, <1>5 DEF TypeOK, Moves
<1>7. WordInv' /\ HoldInv'
  BY <1>1, <1>3 DEF WordInv, HoldInv, ReadHolds
<1>8. ThreadInv(t)'
  BY <1>1, <1>4 DEF ThreadInv, Knows, Snapshot, Waking, UnderChain, HasRead_v
<1>9. OthersStay(t) /\ OthersKeep(t)
  BY <1>1, <1>4 DEF OthersStay, OthersKeep
<1>10. \A p : Wakes(t, p)' = FALSE
  BY <1>4 DEF Wakes
<1>11. /\ ts_blocked'[q] = {}
       /\ \A p \in Queues : p # q => ts_blocked'[p] = ts_blocked[p]
  BY <1>1 DEF TypeOK
<1>12. ts_pending = {}
  BY <1>3 DEF ChainView
<1>13. /\ Wakes(t, "shared") => q = "shared"
       /\ Wakes(t, "exclusive") => q = "exclusive"
       /\ q = "exclusive" => pc[t] = "ru_wake" /\ WW \in v[t].flags
       /\ q = "shared" => ts_blocked["exclusive"] = {}
  BY <1>2 DEF Wakes, WakeQueue, Waking
<1>14. FlagOf(t, RW, "shared", "r_wait")' /\ FlagOf(t, WW, "exclusive", "w_wait")'
  BY <1>1, <1>3, <1>4, <1>10, <1>11, <1>13 DEF ChainView, FlagOf, Queues
<1>15. OwnerOf(t)'
  BY <1>1, <1>2, <1>11, <1>13 DEF OwnerOf, SomeBlocked, Waking, Queues
<1>16. ComesTo(t)'
  <2> SUFFICES ASSUME SomeBlocked'
               PROVE  \E u \in Threads : ActiveWriter(u)'
    BY DEF ComesTo
  <2>1. q = "exclusive"
    BY <1>11, <1>13 DEF SomeBlocked, Queues
  <2>2. PICK u \in Threads : u \in ts_blocked["exclusive"]
    BY <1>2, <1>13, <2>1 DEF Waking, WakeQueue, TypeOK, Queues
  <2>3. pc[u] = "w_blocked" /\ u # t
    BY <2>2 DEF BlockedInv, Queued
  <2> QED BY <1>4, <1>11, <2>1, <2>3 DEF ActiveWriter
<1>17. ChainView(t)'
  BY <1>1, <1>12, <1>14, <1>15, <1>16 DEF ChainView
<1>18. Queued'
  <2>1. \A p \in Queues : p # q => \A u \in ts_blocked[p] : u \notin ts_blocked[q] /\ u # t
    BY DEF BlockedInv, Queued, Queues
  <2> QED BY <1>1, <1>4, <1>11, <1>12, <2>1 DEF BlockedInv, Queued, TypeOK, Queues
<1> QED BY <1>1, <1>2, <1>6, <1>7, <1>8, <1>9, <1>17, <1>18, ChainStep

(* The wakeup by the last reader keeps the invariant.                      *)
LEMMA RunlockWakeStep ==
  ASSUME IInv, NEW t \in Threads, RunlockWake(t)
  PROVE  IInv'
<1>1. Moves(t, "caller")
  BY GotoMoves DEF IInv, RunlockWake, Return, Locations
<1>2. WakeQueue(v[t].flags) \in Queues
  BY DEF WakeQueue, Queues
<1> QED BY <1>1, <1>2, WakeStep DEF RunlockWake, At, Wakes


(* turnstile_broadcast() of __rw_wunlock_hard().                           *)
LEMMA WunlockBroadcastStep ==
  ASSUME IInv, NEW t \in Threads, WunlockBroadcast(t)
  PROVE  IInv'
<1> USE RwLockAssumption DEF IInv, lock
<1>1. PICK q : q = WakeQueue(rw_lock.flags)
  OBVIOUS
<1>2. /\ td_state[t] = "running" /\ pc[t] = "wu_tc"
      /\ ts_pending' = ts_pending \cup ts_blocked[q]
      /\ ts_blocked' = [ts_blocked EXCEPT ![q] = {}]
      /\ UNCHANGED <<lock, tc_lock, ts_owner, td_state>>
  BY <1>1 DEF WunlockBroadcast, At
<1>3. tc_lock = t /\ rw_lock.owner = t /\ rw_recurse = 0 /\ Waiters(rw_lock) # {}
  BY <1>2 DEF ThreadInv, Knows, UnderChain
<1>4. Alone(t) /\ ChainView(t) /\ rw_lock # RW_DESTROYED
  BY <1>2, <1>3, ChainFacts
<1>5. ts_pending = {}
  BY <1>2, <1>4 DEF ChainView
<1>6. Moves(t, "wu_store") /\ v'[t] = rw_lock
  BY GotoWithMoves DEF TypeOK, WunlockBroadcast, Locations
<1>7. pc'[t] = "wu_store" /\ \A u \in Threads : u # t => pc'[u] = pc[u] /\ v'[u] = v[u]
  BY <1>6 DEF Moves, TypeOK
<1>8. \A p : Wakes(t, p) = FALSE /\ Wakes(t, p)' = FALSE
  BY <1>2, <1>7 DEF Wakes
<1>9. /\ WW \in rw_lock.flags <=> ts_blocked["exclusive"] # {}
      /\ RW \in rw_lock.flags <=> ts_blocked["shared"] # {}
      /\ SomeBlocked /\ ts_owner = rw_lock.owner
  BY <1>2, <1>3, <1>4, <1>8
     DEF ChainView, FlagOf, OwnerOf, SomeBlocked, Waiters, RW_LOCK_WAITERS
<1>10. /\ q \in Queues /\ ts_blocked[q] # {}
       /\ q = "exclusive" <=> WW \in rw_lock.flags
  BY <1>1, <1>9 DEF WakeQueue, SomeBlocked, Queues
<1>11. /\ ts_blocked'[q] = {}
       /\ \A p \in Queues : p # q => ts_blocked'[p] = ts_blocked[p]
  BY <1>2, <1>10 DEF TypeOK
<1>12. ts_blocked' \in [Queues -> SUBSET Threads] /\ ts_pending' \subseteq Threads
  BY <1>2, <1>10 DEF TypeOK
<1>13. TypeOK'
  BY <1>2, <1>6, <1>12 DEF TypeOK, Moves
<1>14. WordInv' /\ HoldInv' /\ ~ Free(rw_lock)
  BY <1>2, <1>3, <1>4, ReaderFacts DEF WordInv, HoldInv, ReadHolds, Free
<1>15. \A u \in ts_pending' : u \in ts_blocked[q] /\ u \in Threads /\ u # t
  BY <1>2, <1>5, <1>12, <1>10 DEF BlockedInv, Queued, Queues
<1>16. Queued'
  BY <1>2, <1>5, <1>7, <1>10, <1>11, <1>15 DEF BlockedInv, Queued, TypeOK, Queues
<1>17. ThreadInv(t)'
  <2>1. Knows(t)' /\ Snapshot(t)'
    BY <1>2, <1>3, <1>6, <1>7 DEF Knows, Snapshot, HasRead_v
  <2>2. WW \in rw_lock.flags => \A u \in ts_pending' : pc'[u] = "w_blocked"
    BY <1>7, <1>10, <1>15 DEF BlockedInv, Queued
  <2>3. Waking(t)'
    BY <1>1, <1>2, <1>5, <1>6, <1>7, <1>10, <1>11, <2>2 DEF Waking
  <2> QED BY <1>2, <1>3, <1>7, <2>1, <2>3 DEF ThreadInv, UnderChain
<1>18. OthersStay(t) /\ OthersKeep(t)
  BY <1>2, <1>7 DEF OthersStay, OthersKeep
<1>19. FlagOf(t, RW, "shared", "r_wait")' /\ FlagOf(t, WW, "exclusive", "w_wait")'
  BY <1>1, <1>2, <1>6, <1>7, <1>8, <1>9, <1>10, <1>11 DEF FlagOf, Queues
<1>20. OwnerOf(t)' /\ ComesTo(t)'
  BY <1>2, <1>9, <1>14 DEF OwnerOf, ComesTo
<1>21. ChainView(t)'
  BY <1>7, <1>19, <1>20 DEF ChainView
<1> QED BY <1>2, <1>3, <1>13, <1>14, <1>16, <1>17, <1>18, <1>21, ChainStep

(* The plain store that releases the lock: of the flags that the store     *)
(* clears the threads are on the pending list.                             *)
LEMMA WunlockStoreStep ==
  ASSUME IInv, NEW t \in Threads, WunlockStore(t)
  PROVE  IInv'
<1> USE RwLockAssumption DEF IInv
<1> DEFINE f == v[t].flags
<1>1. /\ td_state[t] = "running" /\ pc[t] = "wu_store"
      /\ rw_lock' = Released(f)
      /\ wheld' = [wheld EXCEPT ![t] = 0]
      /\ UNCHANGED <<rw_recurse, rheld, tc_lock, queues, td_state>>
  BY DEF WunlockStore, At
<1>2. /\ tc_lock = t /\ rw_lock.owner = t /\ rw_recurse = 0
      /\ Waiters(v[t]) = Waiters(rw_lock) /\ Waiters(v[t]) # {} /\ Waking(t)
  BY <1>1 DEF ThreadInv, Knows, Snapshot, UnderChain, HasRead_v
<1>3. Alone(t) /\ ChainView(t) /\ rw_lock # RW_DESTROYED
  BY <1>1, <1>2, ChainFacts
<1>4. f \in SUBSET {RW, WW, WS}
  BY DEF TypeOK, Words
<1>5. /\ rw_lock' \in Words /\ rw_lock'.read /\ rw_lock'.owner = NoThread
      /\ rw_lock'.readers = 0 /\ rw_lock'.flags = IF WW \in f THEN f \cap {RW} ELSE {}
  BY <1>1, <1>4, ReleasedWord
<1>6. Moves(t, "wu_unpend") /\ v'[t] = v[t]
  BY GotoWithMoves DEF TypeOK, WunlockStore, KeepV, Locations
<1>7. pc'[t] = "wu_unpend" /\ \A u \in Threads : u # t => pc'[u] = pc[u] /\ v'[u] = v[u]
  BY <1>6 DEF Moves, TypeOK
<1>8. /\ WW \in f <=> WW \in rw_lock.flags
      /\ RW \in f <=> RW \in rw_lock.flags
  BY <1>2 DEF Waiters, RW_LOCK_WAITERS
<1>9. \A q : Wakes(t, q) = FALSE /\ Wakes(t, q)' = FALSE
  BY <1>1, <1>7 DEF Wakes
<1>10. /\ ts_blocked["exclusive"] = {}
       /\ ts_blocked["shared"] # {} <=> WW \in f /\ RW \in f
       /\ ts_pending # {}
       /\ WW \in f => \A u \in ts_pending : pc[u] = "w_blocked"
  BY <1>1, <1>2, <1>3, <1>8, <1>9 DEF Waking, ChainView, FlagOf, WakeQueue
<1> HIDE DEF f
<1>11. TypeOK'
  BY <1>1, <1>5, <1>6 DEF TypeOK, Moves, queues
<1>12. WordInv'
  BY <1>5 DEF WordInv, RW, WW, WS
<1>13. HoldInv'
  <2>1. rw_lock.readers = 0
    BY <1>2, ReaderFacts
  <2> QED BY <1>1, <1>2, <1>5, <2>1 DEF HoldInv, ReadHolds, TypeOK
<1>14. ThreadInv(t)'
  BY <1>1, <1>2, <1>5, <1>7, <1>10
     DEF ThreadInv, Knows, Snapshot, Waking, UnderChain, HasRead_v, queues
<1>15. OthersStay(t) /\ OthersKeep(t)
  BY <1>1, <1>2, <1>7, ReaderFacts DEF OthersStay, OthersKeep
<1>16. FlagOf(t, RW, "shared", "r_wait")' /\ FlagOf(t, WW, "exclusive", "w_wait")'
  BY <1>1, <1>5, <1>7, <1>9, <1>10 DEF FlagOf, queues, RW, WW
<1>17. OwnerOf(t)'
  BY <1>7 DEF OwnerOf
<1>18. ComesTo(t)'
  <2> SUFFICES ASSUME SomeBlocked'
               PROVE  \E u \in Threads : ActiveWriter(u)'
    BY DEF ComesTo
  <2>1. WW \in f
    BY <1>1, <1>10 DEF SomeBlocked, queues
  <2>2. PICK u \in ts_pending : u \in Threads /\ pc[u] = "w_blocked"
    BY <1>10, <2>1 DEF TypeOK
  <2> QED BY <1>1, <1>7, <1>10, <2>2 DEF ActiveWriter, queues
<1>19. ChainView(t)'
  BY <1>7, <1>16, <1>17, <1>18 DEF ChainView
<1>20. Queued'
  BY <1>1, <1>7 DEF BlockedInv, Queued, TypeOK, Queues, queues
<1> QED BY <1>1, <1>2, <1>11, <1>12, <1>13, <1>14, <1>15, <1>19, <1>20, ChainStep

(* turnstile_unpend().                                                     *)
LEMMA WunlockUnpendStep ==
  ASSUME IInv, NEW t \in Threads, WunlockUnpend(t)
  PROVE  IInv'
<1> USE RwLockAssumption DEF IInv, lock
<1>1. /\ td_state[t] = "running" /\ pc[t] = "wu_unpend"
      /\ td_state' = [u \in Threads |-> IF u \in ts_pending THEN "runq" ELSE td_state[u]]
      /\ ts_pending' = {} /\ ts_owner' = NoThread /\ tc_lock' = NoThread
      /\ UNCHANGED <<lock, ts_blocked>>
  BY DEF WunlockUnpend, At, ChainUnlock
<1>2. tc_lock = t /\ Waking(t)
  BY <1>1 DEF ThreadInv, UnderChain
<1>3. Alone(t) /\ ChainView(t) /\ rw_lock # RW_DESTROYED
  BY <1>1, <1>2, ChainFacts
<1>4. Moves(t, "caller")
  BY GotoMoves DEF WunlockUnpend, Return, Locations
<1>5. pc'[t] = "caller" /\ \A u \in Threads : u # t => pc'[u] = pc[u] /\ v'[u] = v[u]
  BY <1>4 DEF Moves, TypeOK
<1>6. td_state' \in [Threads -> {"running", "runq", "lock"}]
  BY <1>1 DEF TypeOK
<1>7. TypeOK'
  BY <1>1, <1>4, <1>6 DEF TypeOK, Moves
<1>8. WordInv' /\ HoldInv'
  BY <1>1, <1>3 DEF WordInv, HoldInv, ReadHolds
<1>9. ThreadInv(t)'
  BY <1>1, <1>5 DEF ThreadInv, Knows, Snapshot, Waking, UnderChain, HasRead_v
<1>10. OthersStay(t) /\ OthersKeep(t)
  BY <1>1, <1>5 DEF OthersStay, OthersKeep
<1>11. \A q : Wakes(t, q) = FALSE /\ Wakes(t, q)' = FALSE
  BY <1>1, <1>5 DEF Wakes
<1>12. FlagOf(t, RW, "shared", "r_wait")' /\ FlagOf(t, WW, "exclusive", "w_wait")'
  BY <1>1, <1>3, <1>5, <1>11 DEF ChainView, FlagOf
<1>13. OwnerOf(t)'
  BY <1>1, <1>2 DEF OwnerOf, Waking, SomeBlocked
<1>14. \A u \in Threads : ActiveWriter(u) => ActiveWriter(u)'
  BY <1>1, <1>5 DEF ActiveWriter
<1>15. ComesTo(t)'
  BY <1>1, <1>3, <1>11, <1>14 DEF ChainView, ComesTo, SomeBlocked
<1>16. ChainView(t)'
  BY <1>1, <1>12, <1>13, <1>15 DEF ChainView
<1>17. Queued'
  <2>1. \A q \in Queues : \A u \in ts_blocked[q] : u \notin ts_pending /\ u # t /\ u \in Threads
    BY <1>1 DEF BlockedInv, Queued, TypeOK, Queues
  <2> QED BY <1>1, <1>5, <2>1 DEF BlockedInv, Queued, Queues
<1> QED BY <1>1, <1>2, <1>7, <1>8, <1>9, <1>10, <1>16, <1>17, ChainStep


(* The store of rw_downgrade(): waiters flags stay set for writers.        *)
LEMMA DowngradeStoreStep ==
  ASSUME IInv, NEW t \in Threads, DowngradeStore(t)
  PROVE  IInv'
<1> USE RwLockAssumption DEF IInv
<1> DEFINE f == v[t].flags
<1> DEFINE g == IF WW \in f THEN f \cap RW_LOCK_WAITERS ELSE {}
<1>1. /\ td_state[t] = "running" /\ pc[t] = "d_tc"
      /\ rw_lock' = ReadLocked(1, g)
      /\ wheld' = [wheld EXCEPT ![t] = 0]
      /\ rheld' = [rheld EXCEPT ![t] = 1]
      /\ UNCHANGED <<rw_recurse, tc_lock, queues, td_state>>
  BY DEF DowngradeStore, At
<1>2. /\ tc_lock = t /\ rw_lock.owner = t /\ rw_recurse = 0
      /\ Waiters(v[t]) = Waiters(rw_lock) /\ Waiters(v[t]) # {}
  BY <1>1 DEF ThreadInv, Knows, Snapshot, UnderChain, HasRead_v
<1>3. Alone(t) /\ ChainView(t) /\ rw_lock # RW_DESTROYED
  BY <1>1, <1>2, ChainFacts
<1>4. g \in SUBSET {RW, WW, WS}
  BY DEF RW_LOCK_WAITERS
<1>5. /\ rw_lock' \in Words /\ rw_lock'.read /\ rw_lock'.owner = NoThread
      /\ rw_lock'.readers = 1 /\ rw_lock'.flags = g
  BY <1>1, <1>4, WordTypes DEF ReadLocked
<1>6. Moves(t, "d_wake") /\ v'[t] = v[t]
  BY GotoWithMoves DEF TypeOK, DowngradeStore, KeepV, Locations
<1>7. pc'[t] = "d_wake" /\ \A u \in Threads : u # t => pc'[u] = pc[u] /\ v'[u] = v[u]
  BY <1>6 DEF Moves, TypeOK
<1>8. \A q : Wakes(t, q) = FALSE /\ (Wakes(t, q)' <=> WW \notin f /\ q = "shared")
  BY <1>1, <1>6, <1>7 DEF Wakes
<1>9. /\ WW \in f <=> ts_blocked["exclusive"] # {}
      /\ RW \in f <=> ts_blocked["shared"] # {}
      /\ SomeBlocked /\ ts_owner = t
  BY <1>1, <1>2, <1>3, <1>8
     DEF ChainView, FlagOf, OwnerOf, SomeBlocked, Waiters, RW_LOCK_WAITERS
<1>10. TypeOK'
  BY <1>1, <1>5, <1>6 DEF TypeOK, Moves, queues
<1>11. WordInv' /\ ~ Free(rw_lock')
  BY <1>5 DEF WordInv, Free
<1>12. HoldInv'
  BY <1>1, <1>2, <1>5, WriteToReadHolds
<1>13. rheld'[t] = 1 /\ \A u \in Threads : u # t => rheld'[u] = rheld[u]
  BY <1>1 DEF TypeOK
<1>14. ThreadInv(t)'
  <2>1. Knows(t)' /\ Snapshot(t)'
    BY <1>7, <1>13 DEF Knows, Snapshot, HasRead_v
  <2>2. Waking(t)'
    BY <1>1, <1>6, <1>7, <1>9 DEF Waking, SomeBlocked, queues
  <2> QED BY <1>1, <1>2, <1>7, <2>1, <2>2 DEF ThreadInv, UnderChain
<1>15. OthersStay(t) /\ OthersKeep(t)
  BY <1>1, <1>2, <1>7, <1>13, ReaderFacts DEF OthersStay, OthersKeep
<1>16. FlagOf(t, RW, "shared", "r_wait")' /\ FlagOf(t, WW, "exclusive", "w_wait")'
  BY <1>1, <1>5, <1>7, <1>8, <1>9 DEF FlagOf, queues, RW_LOCK_WAITERS, RW, WW
<1>17. OwnerOf(t)' /\ ComesTo(t)'
  BY <1>7, <1>11 DEF OwnerOf, ComesTo
<1>18. ChainView(t)'
  BY <1>1, <1>3, <1>16, <1>17 DEF ChainView, queues
<1>19. Queued'
  BY <1>1, <1>7 DEF BlockedInv, Queued, TypeOK, Queues, queues
<1> HIDE DEF f, g
<1> QED BY <1>1, <1>2, <1>10, <1>11, <1>12, <1>14, <1>15, <1>18, <1>19, ChainStep

(* Waiting readers are woken, or the turnstile is disowned.                *)
LEMMA DowngradeWakeStep ==
  ASSUME IInv, NEW t \in Threads, DowngradeWake(t)
  PROVE  IInv'
<1> USE RwLockAssumption DEF IInv
<1>1. td_state[t] = "running" /\ pc[t] = "d_wake" /\ UNCHANGED lock
  BY DEF DowngradeWake, At
<1>2. Moves(t, "caller")
  BY GotoMoves DEF DowngradeWake, Return, Locations
<1>3. CASE WW \notin v[t].flags /\ Wake(t, "shared")
  BY <1>1, <1>2, <1>3, WakeStep DEF Wakes, Queues
<1>4. CASE WW \in v[t].flags /\ Disown(t)
  <2> USE DEF lock
  <2>1. /\ ts_owner' = NoThread /\ tc_lock' = NoThread
        /\ UNCHANGED <<ts_blocked, ts_pending, td_state>>
    BY <1>4 DEF Disown, ChainUnlock
  <2>2. tc_lock = t /\ rheld[t] > 0
    BY <1>1 DEF ThreadInv, Knows, UnderChain
  <2>3. Alone(t) /\ ChainView(t) /\ rw_lock # RW_DESTROYED
    BY <1>1, <2>2, ChainFacts
  <2>4. rw_lock.owner = NoThread /\ ~ Free(rw_lock)
    BY <2>2, ReaderFacts DEF Free
  <2>5. pc'[t] = "caller" /\ \A u \in Threads : u # t => pc'[u] = pc[u] /\ v'[u] = v[u]
    BY <1>2 DEF Moves, TypeOK
  <2>6. TypeOK'
    BY <1>1, <1>2, <2>1 DEF TypeOK, Moves
  <2>7. WordInv' /\ HoldInv'
    BY <1>1, <2>3 DEF WordInv, HoldInv, ReadHolds
  <2>8. ThreadInv(t)'
    BY <2>1, <2>5 DEF ThreadInv, Knows, Snapshot, Waking, UnderChain, HasRead_v
  <2>9. OthersStay(t) /\ OthersKeep(t)
    BY <1>1, <2>5 DEF OthersStay, OthersKeep
  <2>10. \A q : Wakes(t, q) = FALSE /\ Wakes(t, q)' = FALSE
    BY <1>1, <1>4, <2>5 DEF Wakes
  <2>11. FlagOf(t, RW, "shared", "r_wait")' /\ FlagOf(t, WW, "exclusive", "w_wait")'
    BY <1>1, <2>1, <2>3, <2>5, <2>10 DEF ChainView, FlagOf
  <2>12. OwnerOf(t)' /\ ComesTo(t)'
    BY <1>1, <2>1, <2>4 DEF OwnerOf, ComesTo
  <2>13. ChainView(t)'
    BY <1>1, <2>1, <2>3, <2>11, <2>12 DEF ChainView
  <2>14. Queued'
    BY <1>1, <2>1, <2>5 DEF BlockedInv, Queued, TypeOK, Queues
  <2> QED BY <1>1, <2>1, <2>2, <2>6, <2>7, <2>8, <2>9, <2>13, <2>14, ChainStep
<1> QED BY <1>3, <1>4 DEF DowngradeWake


-----------------------------------------------------------------------------
(***************************************************************************)
(* The theorems.                                                           *)
(***************************************************************************)

(* The invariant holds after rw_init().                                    *)
LEMMA InitOK == Init => IInv
<1> SUFFICES ASSUME Init PROVE IInv
  OBVIOUS
<1> USE RwLockAssumption DEF Init
<1>1. /\ rw_lock.read /\ rw_lock.owner = NoThread /\ rw_lock.readers = 0 /\ rw_lock.flags = {}
      /\ rw_lock # RW_DESTROYED
  BY DEF RW_UNLOCKED, RW_DESTROYED, ReadLocked, WriteLocked
<1>2. \A t \in Threads : pc[t] = "caller" /\ wheld[t] = 0 /\ rheld[t] = 0
  OBVIOUS
<1>3. ts_blocked["shared"] = {} /\ ts_blocked["exclusive"] = {}
  BY DEF Queues
<1>4. TypeOK
  BY WordTypes DEF TypeOK, Locations
<1>5. WordInv
  BY <1>1 DEF WordInv
<1>6. HoldInv
  <2>1. ReadHolds = {}
    BY <1>2 DEF ReadHolds
  <2> QED BY <1>1, <1>2, <2>1, FS_EmptySet DEF HoldInv
<1>7. BlockedInv
  BY <1>3 DEF BlockedInv, Queued
<1>8. \A t \in Threads : ThreadInv(t)
  BY <1>2 DEF ThreadInv, Knows, Snapshot, Waking, UnderChain, HasRead_v
<1>9. FlagInv(RW, "shared") /\ FlagInv(WW, "exclusive")
  BY <1>1, <1>2, <1>3 DEF FlagInv, Joining, Taken
<1>10. OwnerInv /\ WriterComes
  BY <1>3 DEF OwnerInv, WriterComes, SomeBlocked
<1> QED BY <1>4, <1>5, <1>6, <1>7, <1>8, <1>9, <1>10 DEF IInv

(* It holds while nothing happens.                                         *)
LEMMA StutterOK == IInv /\ UNCHANGED vars => IInv'
<1> SUFFICES ASSUME IInv, UNCHANGED vars PROVE IInv'
  OBVIOUS
<1> USE DEF IInv, vars
<1>1. TypeOK' /\ WordInv' /\ HoldInv' /\ BlockedInv'
  BY DEF TypeOK, WordInv, HoldInv, ReadHolds, BlockedInv, Queued
<1>2. \A t \in Threads : ThreadInv(t)'
  BY DEF ThreadInv, Knows, Snapshot, Waking, SomeBlocked
<1>3. FlagInv(RW, "shared")' /\ FlagInv(WW, "exclusive")'
  BY DEF FlagInv, AboutToWake, Joining, Taken
<1>4. OwnerInv' /\ WriterComes'
  BY DEF OwnerInv, WriterComes, SomeBlocked, AboutToWake, ActiveWriter
<1> QED BY <1>1, <1>2, <1>3, <1>4

(* Every step of every thread keeps it.                                    *)
LEMMA StepOK == IInv /\ [Next]_vars => IInv'
<1> SUFFICES ASSUME IInv, [Next]_vars PROVE IInv'
  OBVIOUS
<1>1. CASE UNCHANGED vars
  BY <1>1, StutterOK
<1>2. ASSUME NEW t \in Threads, Inside(t) PROVE IInv'
  <2>1. CASE \/ RlockLoop(t) \/ RlockSpin(t) \/ RlockReadSpin(t) \/ RlockTrywait(t)
             \/ RlockRead(t) \/ RlockRunning(t) \/ RlockCas(t) \/ RlockWait(t)
             \/ RlockResume(t)
    BY <2>1, RlockLoopStep, RlockSpinStep, RlockReadSpinStep, TrywaitStep, RlockReadStep,
       RunningStep, RlockCasStep, BlockStep, RlockResumeStep
  <2>2. CASE \/ WlockLoop(t) \/ WlockSpin(t) \/ WlockReadSpin(t) \/ WlockTrywait(t)
             \/ WlockRead(t) \/ WlockRunning(t) \/ WlockCas(t) \/ WlockWait(t)
             \/ WlockResume(t) \/ Claim(t)
    BY <2>2, WlockLoopStep, WlockSpinStep, WlockReadSpinStep, TrywaitStep, WlockReadStep,
       RunningStep, WlockCasStep, BlockStep, WlockResumeStep, ClaimStep
  <2>3. CASE \/ RunlockAgain(t) \/ RunlockChain(t) \/ RunlockCas(t) \/ RunlockWake(t)
             \/ WunlockChain(t) \/ WunlockBroadcast(t) \/ WunlockStore(t)
             \/ WunlockUnpend(t)
    BY <2>3, RunlockStep, UnlockChainStep, RunlockCasStep, RunlockWakeStep,
       WunlockBroadcastStep, WunlockStoreStep, WunlockUnpendStep
  <2>4. CASE \/ UpgradeAgain(t) \/ UpgradeTrywait(t) \/ UpgradeRead(t) \/ UpgradeCas(t)
             \/ DowngradeChain(t) \/ DowngradeStore(t) \/ DowngradeWake(t)
    BY <2>4, UpgradeStep, TrywaitStep, UpgradeReadStep, UpgradeCasStep, UnlockChainStep,
       DowngradeStoreStep, DowngradeWakeStep
  <2> QED BY <1>2, <2>1, <2>2, <2>3, <2>4 DEF Inside
<1>3. ASSUME NEW t \in Threads,
             \/ Rlock(t) \/ TryRlock(t) \/ Runlock(t)
             \/ Wlock(t) \/ TryWlock(t) \/ Wunlock(t)
             \/ TryUpgrade(t) \/ Downgrade(t)
             \/ Destroy(t) \/ Reinit(t)
             \/ Preempt(t) \/ Dispatch(t)
      PROVE  IInv'
  BY <1>3, RlockStep, TryRlockStep, RunlockStep, WlockStep, TryWlockStep, WunlockStep,
     UpgradeStep, DowngradeStep, LifeStep, CpuStep
<1> QED BY <1>1, <1>2, <1>3 DEF Next

(* The inductive invariant of the reader/writer lock of kern_rwlock.c.     *)
THEOREM Invariance == Spec => []IInv
BY InitOK, StepOK, PTL DEF Spec

(* The lock word and the holds of the callers agree, however many threads  *)
(* there are and however deep they recurse.                                *)
THEOREM HoldsAccounted == Spec => []HoldAccounting
<1>1. IInv => HoldAccounting
  BY DEF IInv, WordInv, HoldInv, HoldAccounting
<1> QED BY <1>1, Invariance, PTL

(* No wakeup is lost: threads on a queue of the turnstile are seen by the  *)
(* one that releases the lock, are being woken, or wait for a writer that  *)
(* is on its way.                                                          *)
THEOREM NobodyIsStranded == Spec => []NoStrandedWaiter
<1>1. IInv => NoStrandedWaiter
  <2> SUFFICES ASSUME IInv PROVE NoStrandedWaiter
    OBVIOUS
  <2> USE DEF IInv
  <2>1. CASE rw_lock = RW_DESTROYED
    <3>1. ~ SomeBlocked
      BY <2>1, DestroyedIdle DEF SomeBlocked, BlockedInv, Queued, TypeOK, Queues
    <3> QED BY <3>1 DEF NoStrandedWaiter, SomeBlocked, Queues
  <2>2. CASE rw_lock # RW_DESTROYED
    <3>1. /\ ts_blocked["exclusive"] # {} => WW \in rw_lock.flags \/ AboutToWake("exclusive")
          /\ ts_blocked["shared"] # {} => RW \in rw_lock.flags \/ AboutToWake("shared")
      BY <2>2 DEF FlagInv
    <3> QED BY <3>1 DEF NoStrandedWaiter, WriterComes, Free, SomeBlocked, Queues
  <2> QED BY <2>1, <2>2
<1> QED BY <1>1, Invariance, PTL

(* What kern_rwlock.c and subr_turnstile.c assert about the turnstile, and *)
(* what turnstile_wait() and turnstile_claim() rely on, holds.             *)
THEOREM TurnstilesAssert == Spec => []TurnstileAsserts
<1>1. IInv => TurnstileAsserts
  <2> SUFFICES ASSUME IInv, NEW t \in Threads
               PROVE  TurnstileAsserts!(t)
    BY DEF TurnstileAsserts
  <2> USE DEF IInv
  <2>1. SomeBlocked <=> \E q \in Queues : ts_blocked[q] # {}
    BY DEF SomeBlocked, Queues
  <2>2. Knows(t) /\ Snapshot(t) /\ Waking(t) /\ (pc[t] \in UnderChain => tc_lock = t)
    BY DEF ThreadInv
  <2>3. pc[t] = "wu_tc" => ts_blocked[WakeQueue(rw_lock.flags)] # {} /\ ts_owner = t
    <3> SUFFICES ASSUME pc[t] = "wu_tc"
                 PROVE  ts_blocked[WakeQueue(rw_lock.flags)] # {} /\ ts_owner = t
      OBVIOUS
    <3>1. ChainView(t) /\ rw_lock.owner = t /\ Waiters(rw_lock) # {}
      BY <2>2, ChainFacts DEF UnderChain, Knows
    <3> QED BY <3>1 DEF ChainView, FlagOf, Wakes, OwnerOf, SomeBlocked, WakeQueue,
                        Waiters, RW_LOCK_WAITERS
  <2>4. pc[t] \in {"r_wait", "w_wait"} /\ SomeBlocked => ts_owner = rw_lock.owner
    BY <2>2, ChainFacts DEF ChainView, OwnerOf, UnderChain
  <2> QED BY <2>1, <2>2, <2>3, <2>4 DEF Knows, Snapshot, Waking, Waiters
<1> QED BY <1>1, Invariance, PTL


-----------------------------------------------------------------------------
(***************************************************************************)
(* The rwlock implements the abstract lock: the abstract holds are the     *)
(* holds of the callers.                                                   *)
(***************************************************************************)

(* One more reader is an abstract read acquisition: there is no writer.    *)
LEMMA ReadGainMaps ==
  ASSUME IInv, NEW t \in Threads, rw_lock.read, ReadGain(t)
  PROVE  Abstract!ReadAcquire(t)
<1>1. \A u \in Threads : wheld[u] = 0
  BY ReaderFacts, RwLockAssumption DEF IInv, WordInv
<1> QED BY <1>1 DEF ReadGain, Abstract!ReadAcquire

(* Taking a free lock is an abstract write acquisition: nobody holds it.   *)
LEMMA WriteGainMaps ==
  ASSUME IInv, NEW t \in Threads, Free(rw_lock), NEW f, WriteGain(t, f)
  PROVE  Abstract!WriteAcquire(t)
<1>1. \A u \in Threads : wheld[u] = 0 /\ rheld[u] = 0
  BY ReaderFacts, RwLockAssumption DEF IInv, WordInv, Free
<1>2. wheld[t] + 1 = 1
  BY <1>1
<1>3. wheld' = [wheld EXCEPT ![t] = wheld[t] + 1] /\ UNCHANGED rheld
  BY <1>2, Zenon DEF WriteGain
<1> QED BY <1>1, <1>3 DEF Abstract!WriteAcquire

(* Recursion is an abstract write acquisition by the owner.                *)
LEMMA RecurseMaps ==
  ASSUME IInv, NEW t \in Threads, rw_lock.owner = t, Recurse(t)
  PROVE  Abstract!WriteAcquire(t)
<1>1. \A u \in Threads : rheld[u] = 0 /\ (u # t => wheld[u] = 0)
  BY ReaderFacts DEF IInv
<1> QED BY <1>1 DEF Recurse, Abstract!WriteAcquire

(* Dropping a read hold is an abstract read release.                       *)
LEMMA ReadDropMaps ==
  ASSUME NEW t \in Threads, rheld[t] > 0, NEW w, ReadDrop(t, w)
  PROVE  Abstract!ReadRelease(t)
BY DEF ReadDrop, Abstract!ReadRelease

(* A successful rw_try_upgrade() is an abstract upgrade: the count of one  *)
(* is the only read hold of the only reader.                               *)
LEMMA ReadToWriteMaps ==
  ASSUME IInv, NEW t \in Threads, rheld[t] > 0, rw_lock.readers <= 1,
         NEW f, ReadToWrite(t, f)
  PROVE  Abstract!Upgrade(t)
<1>1. rheld[t] = 1 /\ \A u \in Threads : u # t => rheld[u] = 0
  BY ReaderFacts DEF IInv
<1>2. rheld = [u \in Threads |-> IF u = t THEN 1 ELSE 0]
  BY <1>1 DEF IInv, TypeOK
<1>3. rheld' = [rheld EXCEPT ![t] = 0]
  BY <1>1 DEF ReadToWrite, IInv, TypeOK
<1> QED BY <1>2, <1>3 DEF ReadToWrite, Abstract!Upgrade

(* A release of an unrecursed write hold.                                  *)
LEMMA WriteDropMaps ==
  ASSUME IInv, NEW t \in Threads, rw_lock.owner = t, rw_recurse = 0,
         wheld' = [wheld EXCEPT ![t] = 0], UNCHANGED rheld
  PROVE  Abstract!WriteRelease(t)
<1>1. wheld[t] = 1
  BY ReaderFacts DEF IInv
<1> QED BY <1>1 DEF Abstract!WriteRelease, IInv, TypeOK

(* rw_downgrade() is an abstract downgrade.                                *)
LEMMA WriteToReadMaps ==
  ASSUME IInv, NEW t \in Threads, rw_lock.owner = t, rw_recurse = 0,
         wheld' = [wheld EXCEPT ![t] = 0], rheld' = [rheld EXCEPT ![t] = 1]
  PROVE  Abstract!Downgrade(t)
<1>1. wheld[t] = 1
  BY ReaderFacts DEF IInv
<1> QED BY <1>1 DEF Abstract!Downgrade

Maps(t) ==
  \/ UNCHANGED Abstract!vars
  \/ Abstract!WriteAcquire(t) \/ Abstract!WriteRelease(t)
  \/ Abstract!ReadAcquire(t) \/ Abstract!ReadRelease(t)
  \/ Abstract!Upgrade(t) \/ Abstract!Downgrade(t)

(* RW_UNLOCKED is a free word.                                             *)
LEMMA UnlockedIsFree == Free(RW_UNLOCKED)
BY DEF Free, RW_UNLOCKED, ReadLocked

(* The operations that callers start.                                      *)
LEMMA CallerMaps ==
  ASSUME IInv, NEW t \in Threads,
         \/ Rlock(t) \/ TryRlock(t) \/ Runlock(t)
         \/ Wlock(t) \/ TryWlock(t) \/ Wunlock(t)
         \/ TryUpgrade(t) \/ Downgrade(t)
         \/ Destroy(t) \/ Reinit(t)
         \/ Preempt(t) \/ Dispatch(t)
  PROVE  Maps(t)
<1> USE DEF Maps, Abstract!vars, lock
<1>1. CASE Rlock(t) \/ Destroy(t) \/ Reinit(t) \/ Preempt(t) \/ Dispatch(t)
  BY <1>1 DEF Rlock, Destroy, Reinit, Preempt, Dispatch
<1>2. CASE TryRlock(t)
  BY <1>2, ReadGainMaps DEF TryRlock
<1>3. CASE Runlock(t)
  BY <1>3, ReadDropMaps DEF Runlock, RunlockLoop
<1>4. CASE Wlock(t)
  BY <1>4, WriteGainMaps, RecurseMaps, UnlockedIsFree DEF Wlock
<1>5. CASE TryWlock(t)
  BY <1>5, WriteGainMaps, RecurseMaps, UnlockedIsFree DEF TryWlock
<1>6. CASE Wunlock(t)
  <2>1. rw_lock.owner = t /\ wheld[t] > 0
    BY <1>6 DEF Wunlock, IInv, HoldInv
  <2>2. CASE wheld' = [wheld EXCEPT ![t] = @ - 1] /\ UNCHANGED rheld
    BY <2>1, <2>2 DEF Abstract!WriteRelease
  <2>3. CASE rw_recurse = 0 /\ wheld' = [wheld EXCEPT ![t] = 0] /\ UNCHANGED rheld
    BY <2>1, <2>3, WriteDropMaps
  <2> QED BY <1>6, <2>2, <2>3 DEF Wunlock
<1>7. CASE TryUpgrade(t)
  BY <1>7, ReadToWriteMaps DEF TryUpgrade, UpgradeLoop
<1>8. CASE Downgrade(t)
  <2>1. wheld[t] = 1
    BY <1>8 DEF Downgrade
  <2>2. rw_lock.owner = t /\ rw_recurse = 0
    BY <2>1 DEF IInv, HoldInv
  <2> QED BY <1>8, <2>2, WriteToReadMaps DEF Downgrade
<1> QED BY <1>1, <1>2, <1>3, <1>4, <1>5, <1>6, <1>7, <1>8

(* The steps inside the code.                                              *)
LEMMA InsideMaps ==
  ASSUME IInv, NEW t \in Threads, Inside(t)
  PROVE  Maps(t)
<1> USE DEF Maps, Abstract!vars, lock
<1>1. Knows(t) /\ Snapshot(t)
  BY DEF IInv, ThreadInv
<1>2. CASE RlockLoop(t)
  BY <1>2, ReadGainMaps DEF RlockLoop, RW_CAN_READ
<1>3. CASE \/ RlockSpin(t) \/ RlockReadSpin(t) \/ RlockTrywait(t)
           \/ RlockRead(t) \/ RlockRunning(t) \/ RlockCas(t) \/ RlockWait(t)
           \/ RlockResume(t)
  BY <1>3 DEF RlockSpin, OwnerSpin, RlockReadSpin, RlockTrywait, Trywait, RlockRead,
     RlockRunning, OwnerCheck, RlockCas, FlagCas, SetFlag, RlockWait, Wait, RlockResume, Cancel
<1>4. CASE WlockLoop(t)
  BY <1>4, WriteGainMaps, UnlockedIsFree DEF WlockLoop, SetFlag
<1>5. CASE \/ WlockSpin(t) \/ WlockReadSpin(t) \/ WlockTrywait(t)
           \/ WlockRead(t) \/ WlockRunning(t) \/ WlockWait(t)
           \/ WlockResume(t) \/ Claim(t)
  BY <1>5 DEF WlockSpin, OwnerSpin, WlockReadSpin, WlockTrywait, Trywait, WlockRead,
     WlockRunning, OwnerCheck, WlockWait, Wait, WlockResume, Claim, Cancel
<1>6. CASE WlockCas(t)
  BY <1>6, WriteGainMaps DEF WlockCas, Free, FlagCas, SetFlag, Cancel
<1>7. CASE RunlockAgain(t)
  BY <1>1, <1>7, ReadDropMaps DEF RunlockAgain, RunlockLoop, At, Knows
<1>8. CASE RunlockCas(t)
  BY <1>1, <1>8, ReadDropMaps DEF RunlockCas, At, Knows, Cancel
<1>9. CASE \/ RunlockChain(t) \/ RunlockWake(t) \/ WunlockChain(t)
           \/ WunlockBroadcast(t) \/ WunlockUnpend(t)
  BY <1>9 DEF RunlockChain, RunlockWake, WunlockChain, WunlockBroadcast, WunlockUnpend
<1>10. CASE WunlockStore(t)
  BY <1>1, <1>10, WriteDropMaps DEF WunlockStore, At, Knows
<1>11. CASE UpgradeAgain(t)
  BY <1>1, <1>11, ReadToWriteMaps DEF UpgradeAgain, UpgradeLoop, At, Knows
<1>12. CASE UpgradeCas(t)
  BY <1>1, <1>12, ReadToWriteMaps DEF UpgradeCas, At, Knows, Snapshot, Cancel
<1>13. CASE \/ UpgradeTrywait(t) \/ UpgradeRead(t) \/ DowngradeChain(t) \/ DowngradeWake(t)
  BY <1>13 DEF UpgradeTrywait, Trywait, UpgradeRead, DowngradeChain, DowngradeWake, Cancel
<1>14. CASE DowngradeStore(t)
  BY <1>1, <1>14, WriteToReadMaps DEF DowngradeStore, At, Knows
<1> QED BY <1>2, <1>3, <1>4, <1>5, <1>6, <1>7, <1>8, <1>9, <1>10, <1>11, <1>12, <1>13,
           <1>14 DEF Inside

(* Every step is a step of the abstract lock, or does not show.            *)
LEMMA StepMaps == IInv /\ [Next]_vars => [Abstract!Next]_(Abstract!vars)
<1> SUFFICES ASSUME IInv, [Next]_vars PROVE [Abstract!Next]_(Abstract!vars)
  OBVIOUS
<1>1. CASE UNCHANGED vars
  BY <1>1 DEF vars, Abstract!vars
<1>2. CASE Next
  <2>1. PICK t \in Threads : Maps(t)
    BY <1>2, CallerMaps, InsideMaps DEF Next
  <2> QED BY <2>1 DEF Maps, Abstract!Next
<1> QED BY <1>1, <1>2

(* The reader/writer lock of kern_rwlock.c is the lock of AbstractLock:    *)
(* writers exclude everybody, readers only writers, and upgrade and        *)
(* downgrade leave no window.                                              *)
THEOREM Refinement == Spec => ImplementsLock
<1>1. Init => Abstract!Init
  BY DEF Init, Abstract!Init
<1> QED BY <1>1, StepMaps, Invariance, PTL DEF Spec, ImplementsLock, Abstract!Spec


(* A write hold excludes every hold of every other thread, and no thread   *)
(* holds the lock both ways: what rw_wlock() and rw_rlock() are for.       *)
THEOREM MutualExclusion == Spec => []Abstract!Exclusion
<1>1. IInv => Abstract!Exclusion
  <2> SUFFICES ASSUME IInv, NEW t \in Threads, NEW u \in Threads, wheld[t] > 0
               PROVE  rheld[u] = 0 /\ (u # t => wheld[u] = 0)
    BY DEF Abstract!Exclusion
  <2>1. rheld \in [Threads -> Nat] /\ wheld \in [Threads -> Nat]
    BY DEF IInv, TypeOK
  <2>2. rw_lock.owner = t /\ (u # t => ~ (wheld[u] > 0))
    BY DEF IInv, HoldInv
  <2>3. rw_lock.readers = 0
    BY <2>2, RwLockAssumption DEF IInv, WordInv
  <2>4. ReadHolds = {}
    BY <2>3, FS_EmptySet DEF IInv, HoldInv
  <2>5. rheld[u] > 0 => <<u, rheld[u]>> \in ReadHolds
    BY <2>1 DEF ReadHolds
  <2> QED BY <2>1, <2>2, <2>4, <2>5
<1> QED BY <1>1, Invariance, PTL

=============================================================================
