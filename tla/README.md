# TLA+ models of the kernel's synchronization core

The repository is a FreeBSD 11-CURRENT kernel tree (`src/sys`), annotated by its
author while reading McKusick's book, with notes on single paths through the
kernel (`open.md`, `bio.md`, `lookup.md`, ...). It has no tests. This project
models the part that everything else in the tree stands on and that is hardest
to test: the locks, the queues threads block on, the races between wakeups,
timeouts and signals, and two users of all that, task queues and pipes.

## 1. The system

### 1.1 Inventory

`PROJECT.json` lists every part of the tree. The parts that carry concurrent
control of their own are:

| Part | Source | State | Operations | Hard because |
|---|---|---|---|---|
| Sleep mutexes | `kern_mutex.c`, `mutex.h` | lock word (owner, CONTESTED, RECURSED), recursion count | lock, trylock, unlock, destroy | lock-free fast paths; the word changes between a read and the compare-and-set; a lock is not handed off |
| Spin mutexes, thread locks | `kern_mutex.c` | lock word, recursion; `td_lock` | `mtx_lock_spin`, `thread_lock`, `thread_lock_block/unblock/set` | the pointer to the lock moves while it is being acquired |
| Reader/writer locks | `kern_rwlock.c`, `rwlock.h` | word (owner or reader count, three waiter flags) | read, write, try, upgrade, downgrade | two queues, one woken at a time; readers come in without locks; write spinners |
| Turnstiles | `subr_turnstile.c` | two queues, pending list, owner, lent priorities | wait, signal, broadcast, unpend, claim, disown, propagate | shared by mutexes and rwlocks, chains of owners |
| Sleep queues | `subr_sleepqueue.c` | queue per channel, thread flags, callout | add, four waits, signal, broadcast, timeout, abort, remove | a thread is queued before it sleeps; timeouts and signals hit it anywhere on the way |
| Condition variables | `kern_condvar.c` | count of waiters with a sticky bound | waits, signal, broadcast | the count is only a hint and must never be too small |
| sleep/wakeup | `kern_synch.c` | - | `_sleep`, `wakeup`, `wakeup_one` | as above |
| Callouts | `kern_timeout.c` | wheel and expiry list per CPU, running callout, deferred migration | reset, stop, drain, softclock | a handler is running, about to run, or done but not yet forgotten; the callout moves between CPUs meanwhile |
| Counting semaphores | `kern_sema.c` | value, waiters | wait, timedwait, trywait, post | a woken thread is overtaken |
| sx locks, lockmgr, rmlocks, range locks | `kern_sx.c`, `kern_lock.c`, `kern_rmlock.c`, `kern_rangelock.c` | words and queues like the above | shared/exclusive/upgrade/drain | see the plan |
| Task queues | `subr_taskqueue.c` | list, running tasks, barriers and markers, armed timeouts | enqueue, run, cancel, drain, block, free | a task may be enqueued while it runs, and run twice at once; workers are woken after the mutex is dropped |
| Vnodes, buffers, name cache | `vfs_subr.c`, `vfs_bio.c`, `vfs_cache.c` | reference counts, lists, flags | vget/vrele/vgone, getblk/brelse, cache_enter/zap | counts and identity change while a lock is dropped |
| Pipes | `sys_pipe.c` | ring, map of a direct write, flags, busy count | read, write, poll, close | all sleep on one channel; wakeups clear flags of others; the mutex is dropped for every copy |

How they interact: a mutex or rwlock that cannot be had puts the thread on the
lock's turnstile; a condition variable, `_sleep()` or sx lock puts it on a sleep
queue; both use a hash chain's spin mutex that becomes the sleeping thread's
`td_lock`. `sleepq_timeout()` is called by the callout code, and so is
`taskqueue_timeout_func()`; callouts take the caller's mutex and sleep in
`callout_drain()`; task queues and pipes sleep on a mutex with `msleep()`; signals reach a
sleeper through `tdsigwakeup()` and `sleepq_abort()`. Semaphores are built from a
mutex and a condition variable. Everything above (VFS, VM, IPC) calls these.

What makes them correct: exclusion and accounting of holds; no waiter without
somebody who knows that it must be woken; kernel assertions that hold in every
interleaving; nothing of one sleep that reaches into the next; and that blocked
threads get on in the end.

### 1.2 Modules

| Module | Models | Granularity of a step |
|---|---|---|
| `AbstractLock` | what a mutex or rwlock promises its callers | an acquire, release, upgrade or downgrade |
| `SleepMutex` | one `MTX_DEF` mutex and its turnstile | one shared memory access, or a stretch under the chain's spin lock |
| `ThreadLock` | spin mutexes and the lock of one thread | one shared memory access |
| `RwLock` | one rwlock and its turnstile | as `SleepMutex`; a read and the compare-and-set that retries on failure are one step |
| `SleepQueue` | sleep queues, condition variables, sleep/wakeup, the timeout callout, signals to sleepers | a critical section of the chain lock or thread lock |
| `Sema` | counting semaphores | a critical section of `sema_mtx` |
| `Callout` | callouts on several CPUs: reset, stop, drain, softclock | a critical section of a `cc_lock`, of the callout's lock or of the sleep queue chain |
| `TaskQueue` | a task queue with its threads and timeout tasks | a critical section of `tq_mutex`, or what is done without it |
| `ByteStream` | what a pipe promises | bytes go in, bytes come out, an end is closed |
| `Pipe` | one direction of a pipe | a critical section of `PIPE_MTX` |

Each but `AbstractLock` and `ByteStream` has an `MC...` module with model values,
symmetry sets and, for `SleepQueue`, a view; the proofs about a module `M` are in
`MProofs`, for all modules but these two. `SleepMutex` and `RwLock` refine
`AbstractLock`, `Pipe` refines `ByteStream`. `Sema` takes from `SleepMutex` that `sema_mtx` excludes, and from
`SleepQueue` that a thread is on the queue before the interlock is released;
`TaskQueue` and `Pipe` take the same of `msleep()`, and `TaskQueue` uses callouts as
`Callout` shows them to behave with a lock and `CALLOUT_RETURNUNLOCKED`.

Memory model: amd64. Locked operations are sequentially consistent, and the plain
stores that matter are releases after which the storing thread does not read
back, so steps interleave.

Operators named `X_Something` with the comment *mutation* are wrong versions of
`X`; nothing uses them. They show which mistake in the code each property would
catch.

**SleepMutex.** Variables are the fields (`mtx_lock` as an owner and a set of
flags, `mtx_recurse`, `ts_blocked`, `ts_pending`, `ts_owner`), the chain's spin lock `tc_lock`,
`td_state` of each thread (running, runnable, inhibited), the local `v`, and `pc`.
`Lock`, `Trylock`, `Unlock` are the inline paths; `LockSleep` to `WaitReturn` are
`__mtx_lock_sleep()`, split where it reads the word, looks whether the owner runs,
takes the chain lock, reads the word again, sets `MTX_CONTESTED` and blocks;
`UnlockSleep` to `UnlockUnpend` are `__mtx_unlock_sleep()`. `Preempt` and `Dispatch` are
the scheduler: a thread that holds a spin lock is not preempted. `td_locks` counts
holds as the caller does and is what the refinement mapping uses.

**ThreadLock.** One thread `td` whose lock moves among the spin mutexes of its
containers; several CPUs lock it, move it, block it, and use the containers'
mutexes for themselves. `blocked_lock` is a mutex nobody can acquire.
`md_spinlock_count` follows `spinlock_enter()` and `spinlock_exit()`, which the
spin loop calls unbalanced in order to let interrupts in.

**RwLock.** The word is a record: read or write, owner, number of readers, flags.
All paths of the file are there: the three spin modes with `rowner_retries`,
`RW_CAN_READ` with the exception for threads that hold read locks elsewhere
(`ReadElsewhere`), the claim of a turnstile by a writer that finds the lock free,
both wake paths, upgrade and downgrade.

**SleepQueue.** A sleep is `Sleep` (sleepq_lock to sleepq_set_timeout), `Relock` if
the interlock is sleepable, then `Wait` or `CatchSignals`, `CheckSignals`,
`CatchReturn`; `Resume` and `SyncResume` are the two places where `mi_switch()`
returns. Wakers are `CvSignal`, `CvBroadcast`, `WakeupIdent` and `SleepqRemove`; timers are
`CalloutFire`, `SleepqTimeout`, `CalloutDone`, which keep apart that the callout has
been taken off the wheel, that its handler has done its work, and that
`softclock_call_cc()` has forgotten it; `PostSignal` and `SignalWakeup` are the two
critical sections of signal delivery. `TailRace` says whether a thread may begin
another timed sleep while the CPU that ran its last timeout is still between the
last two; in the kernel it may.

**Sema.** The value, `sema_waiters`, and where each thread is: elsewhere, queued
on `sema_cv`, or resumed and after `sema_mtx`.

**Callout.** Variables are the fields of `struct callout` and of each CPU's
`struct callout_cpu`. `callout_process` moves a due callout to the expiry list;
`SoftclockCall`, `GetLock`, `HandlerUnlock`, `HandlerReturn`, `SoftclockDone`, `DrainFunction`,
`WakeDrainers` and `MigrationDone` are `softclock_call_cc()`, cut where it drops the CPU's lock;
`HandlerReset`, `HandlerStop` and `callout_deactivate` are what a handler may do to its
own callout. `callout_reset` with `ResetMoves` and `ResetMoved` is
`callout_reset_sbt_on()`, at once, deferred, or by way of `CPUBLOCK`; `callout_drain`,
`DrainAgain`, `DrainLocksChain`, `DrainSleeps` and `DrainResumes` are the loop of
`_callout_stop_safe()` with its two locks. `armed` and `waits` are history: what
clients asked for, and what was running when a drain was called.
While softclock calls the function of a `callout_async_drain()`, `cc_curr` is NULL and a
migration that was deferred while the handler ran is still to come (`DrainWindow`).
Handlers reset their callouts whether or not such a drain has been asked for, and
everybody may stop and drain in the window. One precondition is put on clients
(`ResetAllowed`): they do not call `callout_reset()` in the window. The code does
not test for it; the reset would unlink a callout that is on no list, or put one on a
list that softclock is about to put on another. A stop or a drain in the window returns -1 and
does not stop the callout (section 4), and `armed` stays as it is there.

**TaskQueue.** Workers are the threads of `taskqueue_thread_loop()`, clients call
the interface, each from one thread. A barrier and a marker, which the code keeps
on the stack of the client, have the name of the client. `unlocked` are those
between `TQ_UNLOCK()` and the call of `tq_enqueue`. `taskqueue_create` may get any
subset of its threads. Preconditions of the callers: `taskqueue_free()` is called once,
with no timeout armed and no other call beginning.

**Pipe.** `pipe` is `struct pipe`, `call` the uio and the locals of each thread. The
functions are operators on the pipe, and a step runs from one loss of the mutex to
the next: `Read` and `Write` are the entries, `ReadSpace`, `ReadCopied`, `ReadDirect`,
`WriteSpace`, `WriteCopied`, `DirectBuild`, `DirectClone` and `CloseFree` the returns from places
where the mutex was dropped with `PIPE_LOCKFL` set, `ReadAwake`, `WriteAwake` and
`CloseAwake` the returns of `msleep()`. A byte is its writer and its index in the
write, so that the refinement tells lost, doubled and reordered bytes apart.
`Kva` is how full the memory of all pipes is; any resize may fail for lack of it. `PipeSizes`
are the sizes that doubling leads to from `SMALL_PIPE_SIZE`, which is all that `pipespace()` is
asked for.

## 2. What is checked

| Run | Instance | States | Shows |
|---|---|---|---|
| `mutex` | 3 threads, recursion to depth 2 | 30,973 | `HoldAccounting`, `NoStrandedWaiter`, `TurnstileAsserts`, refinement of `AbstractLock`; `BlockedIsWoken` under fairness |
| `threadlock` | 3 CPUs, 3 mutexes, 2 holds | 296,211 | `ThreadLockHeld`, `SpinAccounting`, `SpinlockBalance` |
| `rwlock_safety` | 3 threads, all operations, 2 holds, 1 spin retry | 238,618 | `HoldAccounting`, `NoStrandedWaiter`, `TurnstileAsserts`, refinement |
| `rwlock_live` | 3 threads, no try operations, no recursion | 57,470 | `WaitersAreWoken` |
| `sleepq_safety` | 2 threads, a condition variable with a sleepable interlock and an identifier, count bound 1 | 2,059,484 | `QueueAccounting`, `WaitersCounted`, `FlagAsserts`, `NothingLeftBehind` |
| `sleepq_live` | 1 thread, `TailRace` off | 23,895 | `WokenReturns`, `TimedSleepEnds` |
| `sleepq_yield_doc` | 1 thread, `TailRace` on | - | violation, finding 1 |
| `sema` | 4 threads, value up to 3 | 10,336 | `WaitersCounted`, `NoLostPost`, `ValueIsTaken` |
| `callout` | 1 callout of each kind, 2 CPUs, 2 clients | 202,900 | `ListsAgree`, `ScheduledAsAsked`, `DrainWaitsForHandler`; `DrainIsWoken`, `ArmedFires` under fairness |
| `callout_drain_doc` | 1 client | - | violation, finding 2 |
| `taskqueue` | 2 workers, 2 clients, 1 timeout task, counts up to 2 | 855,688 | `ListsAgree`, `NobodyStranded`, `FreedIsUnused`, `DrainsWait`; `CallsReturn` under fairness |
| `pipe` | 1 reader, 2 writers, ring of 2 or 4 bytes, writes of 3 bytes and of 2 or 3, one writer non-blocking at will | 1,204,076 | `TypeOK` with the assertions on the ring, `NobodyStranded`, `PollIsTold`, refinement of `ByteStream` |

**Bounds.** Three threads on a lock are an owner, one that blocks and one that
steals or joins; the reader/writer cases need a reader and a writer waiting while a
third holds the lock. Depth 2 reaches the first and the last recursion level.
`MaxHolds`, `MaxRecurse` and `MaxValue` bound what callers do, not the code. In
`SleepQueue` threads meet only through the queue, the chain lock and `cv_waiters`, so
two are enough with the bound of `cv_waiters` at 1; liveness concerns one thread
against wakers, timer and signals, which need no thread of the set.
One callout is enough for `Callout`: callouts meet only in `cc_curr` of a CPU, and two
callouts, without liveness, were checked once: with two clients and the kinds
`"mpsafe"` and `"locked"` (6.9 million states up to symmetry), and with one client and all kinds
(1.2 million), no error. Two
workers are needed for a task to run twice at once, two clients for a drain against a
cancel, an enqueue or a free; a second task of a higher priority was checked without
liveness (2.7 million states, no error). In `Pipe` `PIPE_BUF` is 2 and a direct write
needs 3 bytes, so a write of 2 is atomic and may wrap around, one of 3 is direct when
the ring has 4 bytes and buffered and split when it has 2; two writers are
needed to meet at `PIPE_DIRECTW`, and each goes through the reader. A
non-blocking reader, writes of 2 bytes by both writers, two readers with two writers
and no resizing, and two interchangeable writers that all select were checked without
error too, each by itself.
Symmetry is used only in runs without liveness. The view of `sleepq_safety` leaves out
`rval` and `woken`, which no step reads and no invariant of the run mentions.

**Deadlock** is checked except in four runs. In `threadlock` callers at their bound
of holds may stop with each other's mutexes, as real callers without a lock
order would. In `sleepq_safety` a thread stuck by finding 1 can stop everything. In `taskqueue`
everything stops when the clients sleep in drains of tasks that were cancelled; in
`pipe` when both ends are closed. What must not stop there is stated by
`NobodyStranded` of each module and by `CallsReturn`.

**Fairness.** `Inside` (and `Timer`, `SignalWakeup`): a thread inside the lock code
gets its next step done, however often it is preempted or loses a race for a spin
lock: strong fairness, because spin locks are held for bounded times and arbitration
among CPUs is random, not adversarial. `Dispatch`: the scheduler runs every runnable
thread. `Unlock`: callers leave their critical sections, and do not lock and unlock
for ever above the same depth of recursion. Timeouts expire. In `Callout` handlers return, clients drop their locks, and both
softclock and clients get a lock that is free again and again; in `TaskQueue` a worker,
a client inside a call and softclock take their next step, tasks return (weak
fairness: `tq_mutex` is held for one step). `Pipe` has no fairness: its
`NobodyStranded` and `PollIsTold` say of every state in which all are asleep that it is
right for them to sleep. Nothing is assumed
about callers that want a lock, about wakers, or about signals. `rwlock_live`
leaves out the try operations and `ReadElsewhere`: with them the code lets readers
pass waiting writers and makes no promise. Spin mutexes are unfair by design,
so `ThreadLock` has no liveness property.

## 3. What is proved

TLAPS checks the following for every value of the constants that the named
`ASSUME`s allow (distinct special values, positive bounds, finite sets of threads
where a cardinality is used).

* `SleepMutexProofs`: `TypeCorrect`, `HoldsAccounted`, `NoLostWakeup`, `AssertsHold`,
  `Refinement` (the mutex implements `AbstractLock`) and `MutualExclusion` (whoever holds
  it holds it alone). The invariant `IInv` adds to
  the checked properties: who holds the chain lock (`ChainInv`), that the turnstile's
  queues hold exactly the inhibited threads (`BlockInv`), what each location says
  about ownership (`OwnerInv`), that `MTX_CONTESTED` has a reason and stays set while a
  thread under the chain lock counts on it (`ContestedInv`), and that a waker keeps the
  turnstile until it has woken everybody (`PendingInv`). `ContestedInv` is the heart: a
  waiter that saw the flag does no compare-and-set, so only the chain lock keeps the
  word from having been released since.
* `RwLockProofs`: `HoldsAccounted`, `NobodyIsStranded`, `TurnstilesAssert`, `Refinement`
  (the rwlock implements `AbstractLock`, every step of every path) and `MutualExclusion`. Readers come and go
  without the chain lock, so what a thread has read goes stale; what stays is that
  the waiter flags change under the chain lock only, and that while one is set the
  owner stays and a held lock is not freed without it. `Snapshot` states this of each
  location that has read the word, `FlagInv` that a flag is set exactly for a
  queue with threads, but between the steps of the one that holds the chain lock, and
  `Waking` what the two-step wakeups leave behind. The steps fall into those of threads off the
  chain lock (`OutsideStep`) and those of its holder (`ChainStep`). The reader count is the
  cardinality of the set of all read holds (`ReadHolds`), to which an acquisition
  adds one element; no induction over the threads is needed.
* `ThreadLockProofs`: `TypeCorrect`, `ThreadIsLocked`, `SpinHoldsAccounted` and
  `SpinlocksBalance`. The first
  three are inductive together with the fact that CPUs past the
  acquisition work on a container's mutex; the lemmas say how an acquisition, a
  release and a move of `td_lock` change the recorded and the counted holds. The balance
  of `spinlock_enter()` and `spinlock_exit()` follows from them, again by counting a set
  of holds (`SpinHolds`).
* `SleepQueueProofs`: `TypeCorrect`, `QueuesAgree`, `WaitersNeverMissed`,
  `FlagAssertsHold` and `NothingIsLeft`. The invariant speaks of each thread by
  itself (`Place`, `Queue`, `Timeouts`, `SignalFlags`): for instance, while
  `TDF_TIMEOUT` is set the callout is not armed, and if it is running the thread has
  yielded to it. Steps for one thread leave the others alone (`SameThread`), and
  `LeaveStep` is the argument for `sleepq_check_timeout()`: each way out finds the
  timeout over, stopped or not yet run, and then waits. The theorems hold with
  `TailRace` on: finding 1 costs a thread its wakeup, but no invariant.
* `SemaProofs`: `TypeCorrect`, `WaitersExact` and `NoPostIsLost`, inductive together.
* `CalloutProofs`: `ListsAlwaysAgree`, `AlwaysScheduledAsAsked` and `DrainsWaitForHandler`. The
  invariant says of each CPU what its softclock knows of the callout in its
  hands (`CpuInv`: for instance, a callout in progress belongs to this CPU, and once
  its handler has been entered `cc_cancel` is set if it has a lock, and a deferred
  migration outlives `cc_curr` in `DrainWindow` only), of each callout what flags,
  `c_cpu`, lists and the deferred migration say of each other (`CalloutInv`), of each client
  what it remembers of a callout it moves or drains (`ClientInv`), and that a callout is
  moved by one at a time (`MoverInv`), which is why `CPUBLOCK` needs no owner. The
  theorems are those of `Spec`, so under `ResetAllowed`; `AlwaysScheduledAsAsked` has the
  exception of `armed` for a stop in `DrainWindow`, and `DrainsWaitForHandler` none.
* `TaskQueueProofs`: `ListsAlwaysAgree`, `NobodyIsStranded`, `FreedQueueIsUnused` and
  `DrainsAlwaysWait`. First come lemmas on what appending, inserting by priority, taking off and
  removing do to the elements of a list and to their order. The invariant adds to the
  checked properties that a barrier is run by one worker at a time (`BarrierInv`), what
  `taskqueue_free()` leaves alone (`FreeInv`), and, for the drains, where that which a client
  waits for is (`OwedInv`): queued before its barrier or running, and on `tq_active`
  before its marker. A worker that takes the next task keeps its place in that order
  or goes behind all markers, so when a marker is first all it waited for has returned.

* `PipeProofs`: `TypeCorrect`, `NobodyIsStranded`, `PollersAreTold` and `Refinement` (the pipe
  implements `ByteStream`). A step of `Pipe` runs
  through several functions of the file before it gives the mutex up, so the proof is
  organised by functions: `Mid` is what holds of the pipe while a thread has the mutex,
  as far as the others are concerned, and each function has a lemma that takes `Mid` and
  what the code before the call has established to the invariant after the
  step. The invariant says what each location may count on: a sleeper that its flag
  is set (`CanSleep`), the owner of `PIPE_LOCKFL` what the flag protects while the mutex is
  dropped (`Working`). Then, across threads: a writer sleeps for room only over
  bytes (`RoomWaits`); a reader sleeps over bytes only while some writer is at a place after
  which it will tell (`ByteWaits`, `WillTell`), and never over a mapped direct write
  (`MapWaits`); and the same of `select()`. These hold in every state, where the checked
  properties speak of those in which nobody is awake. `pipe_busy` is the cardinality of the
  set of threads inside a call, `PIPE_LOCKFL` is set exactly for its one owner. `PollersAreTold` assumes
  that mapping the pages of a direct write does not fail (`"build"` not in `Faults`): after that failure
  the code does not call `pipeselwakeup()` (see section 4), and the property is false. The others
  hold with every failure.

  `Refinement` has three parts. Ring lemmas: a copy out of the ring drops bytes from its front, one
  into it appends them, around its end or not, and a resize and the clone of a direct write keep
  them in order (`TakenRing`, `PutRing`, `pipespaceRing`, `CloneRing`, and `MappedTake` for
  the pages). These compare sequences position by position, so they need no
  induction. Then a lemma per function: whatever way a step takes from a copy to the loss of the
  mutex, it changes neither the bytes nor what is left of the call (`Ends`), since it only sets and
  clears flags that do not say where the bytes are (`Like`). Last, one lemma per action, which puts a
  step of the stream, or none, at the copy it begins with. Beside `IInv` this takes `StreamInv`: a
  write of at most `PIPE_BUF` bytes is copied with all that is left of it, only larger ones go directly, no
  copy into the pipe is under way once `PIPE_EOF` is set, and who is inside while which end is open.

Only model-checked: liveness (the prover has no rule for fairness).

## 4. Findings

1. `sleepq_check_timeout()`: when `callout_stop()` returns 0 the thread yields to a
   handler that it takes to be running. If a timed sleep is begun and woken while the
   CPU that ran the previous sleep's timeout is still in the tail of `softclock_call_cc()`,
   the new callout is a deferred migration; `callout_stop()` cancels that and still returns 0
   because the old one is current. Nobody resumes the thread. (`sleepq_yield_doc`)
2. `callout_drain()` is said to "wait for the current invocation to finish". A handler
   that has reset its own callout and not returned yet is running and pending at
   once; `_callout_stop_safe()` looks at pending first, takes the callout off the wheel
   and returns. (`callout_drain_doc`; `DrainWaitsForHandler` is what does hold.)

Observations without a run:

* `mutex.h` says of `mtx_trylock()` "It does NOT handle recursion"; it does. The comment in
  `__rw_wunlock_hard()` says readers are woken first; the code wakes the writers and keeps
  `RW_LOCK_READ_WAITERS`, consistently. `cv_timedwait()` "Returns 0 if the process was
  resumed by cv_signal": with a sleepable interlock the timeout can mark a thread that is
  queued and not asleep, and a signal spent on it comes back as `EWOULDBLOCK`.
* A stop can be ignored. A callout whose handler runs is asked to drain with
  `callout_async_drain()`, and the handler or a client resets it to another CPU, which is
  deferred. When the handler has returned, softclock sets `cc_curr` to NULL and drops the CPU's
  lock to call the drain function (`kern_timeout.c:747-756`). A `callout_stop()` or
  `callout_drain()` now clears `CALLOUT_PENDING`, finds `cc_curr` to be another callout
  and returns -1 with `CALLOUT_DFRMIGRATION` still set (`:1193-1209`, `:1247-1253`); softclock goes on
  to migrate and arm the callout (`:777-811`), and its handler runs after the stop. The
  comment at `:1202` says "Get rid of the migration first. [...] When the callout wheel runs, it
  will ignore this callout." If these two branches set `armed` to FALSE, TLC
  violates `ScheduledAsAsked` in nine states: `callout_reset`, `callout_process`,
  `SoftclockCall`, `HandlerReturn`, `callout_async_drain`, `callout_reset` to the other CPU,
  `SoftclockDone`, `callout_stop`. Also, the drain function may be called while the callout
  is pending again, because nothing but `cc_waiting` refuses a reset.
* `callout_schedule()` reads `c_cpu` without a lock: while the callout moves it may read `CPUBLOCK`.
* `taskqueue_cancel()` wakes nobody who drains the task it takes off the queue.
  `taskqueue_drain_timeout()` of an armed task takes the callout away and leaves
  `DT_CALLOUT_ARMED` and `tq_callouts` as they are. `taskqueue_timeout_func()` lowers
  `tq_callouts` without waking `taskqueue_terminate()`, so that `taskqueue_free()` with an armed
  timeout may sleep for ever; that is the precondition of `taskqueue_free`, and
  `CallsReturn` and `ListsAgree` say nothing of it. New tasks can pass the barrier of
  `taskqueue_drain_tq_queue()`, against its comment, when the last task of the list has a
  lower priority than they have; the drain still waits for what it found.
* Pipes: a direct write whose pages cannot be mapped clears `PIPE_DIRECTW` without
  `pipeselwakeup()`, so a thread that selects for writing is not told (with `"build"` in
  `Faults` TLC finds it; `pipe` leaves it out). A second direct write, or a resize, may replace
  the map before the first writer has released its pages. A writer with a non-blocking
  descriptor sleeps in "pipbww" while a direct write is pending. After an interrupted
  direct write has been copied into the ring, another writer may sleep although there is room,
  until a reader comes: `NobodyStranded` asks only that there is something to read.

## 5. What is not modelled

Inside the modelled files: lock profiling, lockstat, KTR and WITNESS hooks;
priority lending and thread priorities; the loan of turnstile and sleepqueue
structures, which only changes where the queue is stored; debugger commands and
statistics. Callouts: direct execution in the clock interrupt, `timeout(9)` with its
free list, Giant and shared locks, the hashing of times to buckets and
`callout_schedule()`. Task queues: those of software interrupts, enqueue functions that are
called with `tq_mutex` held, `taskqueue_member()`, the result of
`taskqueue_cancel()` (`EBUSY` for a running task). Pipes: the reverse direction and
the freeing of the pair, knotes and SIGIO, named pipes, MAC checks, ioctl, stat, time
stamps, and references to pages. Outside: see the components
marked `not_modelled` in `PROJECT.json`, each with its reason. File systems, compatibility
layers, drivers and the hypervisor are mostly formats and dispatch; VM, process life
cycle and soft updates are projects of their own.

## 6. Plan

In this order; the first uses what is here.

1. `Turnstile`: priority lending along chains of owners (`propagate_priority()`,
   `turnstile_adjust()`, `turnstile_unpend()`, `turnstile_disown()`): a thread's lent
   priority is that of the best waiter behind it; queues stay sorted; the lock order of the
   chain walk.
2. `SxLock`: over sleep queues, with interruptible waits; implements `AbstractLock`
   extended by failure. Then `LockMgr`: sharing, upgrade, drain.
3. `RmLock` (per-CPU trackers and the revocation rendezvous) and `RangeLock` (grants are
   first come first served among overlapping ranges; never two overlapping writers).
4. `BufRing` (multi-producer ring of `buf_ring.h`) as a refinement of a FIFO.
5. `Vnode`: use and hold counts, `vget()` against `vgone()` and the free list; then
   `BufCache`: identity of a buffer across sleeps in `getblk()`.
