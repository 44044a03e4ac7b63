----------------------------- MODULE TaskQueue -----------------------------
(***************************************************************************)
(* Task queues served by kernel threads (sys/kern/subr_taskqueue.c):        *)
(* clients, running tasks and timeouts queue tasks, worker threads run them *)
(* in order of priority, and clients cancel and drain tasks, drain or block *)
(* the queue, and free it.                                                  *)
(*                                                                          *)
(* A step is a critical section of tq_mutex, from TQ_LOCK() or the return   *)
(* of a sleep to TQ_UNLOCK() or the next sleep, or what is done without it: *)
(* the call of tq_enqueue after TQ_UNLOCK() (TQ_FLAGS_UNLOCKED_ENQUEUE),    *)
(* callout_drain(), the work of softclock().  A sleep drops tq_mutex and    *)
(* waits in one step, which is what SleepQueue shows of it.  A callout      *)
(* behaves as in module Callout, on one CPU, with tq_mutex as its lock and  *)
(* CALLOUT_RETURNUNLOCKED.                                                  *)
(***************************************************************************)
EXTENDS Naturals, FiniteSets, SequencesExt

CONSTANTS
  Tasks,
  TimeoutTasks,      \* those of struct timeout_task
  ta_priority,       \* the priority of each task
  USHRT_MAX,         \* bound of ta_pending and the priority of a barrier
  Workers,           \* the kernel threads
  Clients,           \* a client is also the name of its barrier on tq_queue
                     \* and of its marker on tq_active
  NoTask

ASSUME TaskQueueAssumption ==
  /\ TimeoutTasks \subseteq Tasks
  /\ USHRT_MAX \in Nat \ {0}
  /\ ta_priority \in [Tasks -> 0..USHRT_MAX]
  /\ IsFiniteSet(Workers) /\ IsFiniteSet(Clients) /\ IsFiniteSet(Tasks)
  /\ Tasks \cap Workers = {} /\ Tasks \cap Clients = {}
  /\ Workers \cap Clients = {} /\ NoTask \notin Tasks \cup Clients

VARIABLES
  tq_exists,         \* between taskqueue_create() and free()
  tq_flags, tq_queue, tq_active, tq_tcount, tq_callouts,
  ta_pending,
  tb_running,        \* of each worker's struct taskqueue_busy
  f,                 \* the timeout tasks with DT_CALLOUT_ARMED
  callout,
  wpc,               \* where each worker is
  pc, task,          \* where each client is, and the task it drains
  asleep,            \* the clients that sleep
  unlocked,          \* those that will call tq_enqueue next: a client, a
                     \* worker in a task, the callout of a timeout task
  owed,              \* history: what a draining client found queued
                     \* (tasks) or running (workers)
  missed             \* history: clients whose task was cancelled while they
                     \* waited for it, timeout tasks whose callout a drain
                     \* took away

Queueable == Tasks \cup Clients
lists == <<tq_queue, tq_active, ta_pending, tb_running>>
flags == <<tq_exists, tq_flags>>
counts == <<tq_tcount, tq_callouts>>
timeouts == <<f, callout>>
client == <<pc, task>>
vars == <<flags, lists, counts, timeouts, wpc, client, asleep, unlocked,
          owed, missed>>

(* A callout may be scheduled, softclock() may be about to call it, skip   *)
(* it (cc_cancel) or have called it, and a thread may wait in              *)
(* callout_drain().                                                        *)
Callout == [pending : BOOLEAN, exec : {"idle", "getlock", "skip", "tail"},
            waiting : BOOLEAN]
IdleCallout == [pending |-> FALSE, exec |-> "idle", waiting |-> FALSE]

TypeOK ==
  /\ tq_exists \in BOOLEAN
  /\ tq_flags \subseteq {"ACTIVE", "BLOCKED"}
  /\ tq_queue \in Seq(Queueable)
  /\ tq_active \in Seq(Workers \cup Clients)
  /\ tq_tcount \in 0..Cardinality(Workers)
  /\ tq_callouts \in 0..(Cardinality(TimeoutTasks) + Cardinality(Clients))
  /\ ta_pending \in [Queueable -> 0..USHRT_MAX]
  /\ tb_running \in [Workers -> Queueable \cup {NoTask}]
  /\ f \subseteq TimeoutTasks
  /\ callout \in [TimeoutTasks -> Callout]
  /\ wpc \in [Workers -> {"none", "awake", "run", "asleep", "shutdown"}]
  /\ pc \in [Clients -> {"idle", "drain", "barrier", "marker", "callout",
                         "free"}]
  /\ task \in [Clients -> Tasks \cup {NoTask}]
  /\ asleep \subseteq Clients
  /\ unlocked \subseteq Clients \cup Workers \cup TimeoutTasks
  /\ owed \in [Clients -> SUBSET (Queueable \cup Workers)]
  /\ missed \subseteq Clients \cup TimeoutTasks

Init ==
  /\ tq_exists = FALSE
  /\ tq_flags = {}
  /\ tq_queue = <<>>
  /\ tq_active = <<>>
  /\ tq_tcount = 0
  /\ tq_callouts = 0
  /\ ta_pending = [t \in Queueable |-> 0]
  /\ tb_running = [w \in Workers |-> NoTask]
  /\ f = {}
  /\ callout = [t \in TimeoutTasks |-> IdleCallout]
  /\ wpc = [w \in Workers |-> "none"]
  /\ pc = [c \in Clients |-> "idle"]
  /\ task = [c \in Clients |-> NoTask]
  /\ asleep = {}
  /\ unlocked = {}
  /\ owed = [c \in Clients |-> {}]
  /\ missed = {}

-----------------------------------------------------------------------------
(* Helpers. *)

ACTIVE == "ACTIVE" \in tq_flags
BLOCKED == "BLOCKED" \in tq_flags

(* A client between two calls; once one has called taskqueue_free() the    *)
(* others start no further call.                                           *)
MayCall(c) ==
  /\ tq_exists /\ ACTIVE
  /\ pc[c] = "idle" /\ c \notin unlocked

task_is_running_First(t) ==   \* mutation: only the first of tq_active
  /\ tq_active # <<>>
  /\ Head(tq_active) \in Workers
  /\ tb_running[Head(tq_active)] = t

task_is_running(t) ==
  \E i \in DOMAIN tq_active :
    tq_active[i] \in Workers /\ tb_running[tq_active[i]] = t

wakeup_tq_None ==   \* mutation: no wakeup(tq)
  wpc

(* wakeup(tq), and wakeup_one(tq) with the worker the sleep queue chooses. *)
wakeup_tq == [w \in Workers |-> IF wpc[w] = "asleep" THEN "awake" ELSE wpc[w]]
wakeup_one_tq ==
  \/ \E w \in Workers : /\ wpc[w] = "asleep"
                        /\ wpc' = [wpc EXCEPT ![w] = "awake"]
  \/ (\A w \in Workers : wpc[w] # "asleep") /\ UNCHANGED wpc

(* Who sleeps on a task, or waits for a barrier. *)
Sleepers(t) == {c \in Clients : pc[c] = "drain" /\ task[c] = t} \cup ({t} \cap Clients)

(* The marker that a list begins with, if it does. *)
FirstMarker(active) ==
  IF active = <<>> THEN {} ELSE {Head(active)} \cap Clients

Priority(t) == IF t \in Tasks THEN ta_priority[t] ELSE USHRT_MAX

(* Where taskqueue_enqueue_locked() puts a task. *)
Insert(q, t) ==
  LET lower == {i \in DOMAIN q : Priority(q[i]) < Priority(t)}
  IN  IF q = <<>> \/ Priority(Last(q)) >= Priority(t) THEN Append(q, t)
      ELSE InsertAt(q, Min(lower), t)

(* Multiple enqueues are counted, up to a bound. *)
PendingAfter(n) == IF n < USHRT_MAX THEN n + 1 ELSE n

(* taskqueue_enqueue_locked() by a, up to TQ_UNLOCK(). *)
taskqueue_enqueue_locked(a, t) ==
  \/ /\ ta_pending[t] > 0
     /\ ta_pending' = [ta_pending EXCEPT ![t] = PendingAfter(@)]
     /\ UNCHANGED <<tq_queue, unlocked>>
  \/ /\ ta_pending[t] = 0
     /\ tq_queue' = Insert(tq_queue, t)
     /\ ta_pending' = [ta_pending EXCEPT ![t] = 1]
     /\ unlocked' = unlocked \cup {a}

-----------------------------------------------------------------------------
(* Creation. *)

(* taskqueue_start_threads(): kthread_add() fails for the threads that are *)
(* not in S.                                                               *)
_taskqueue_start_threads(S) ==
  /\ tq_tcount' = Cardinality(S)
  /\ wpc' = [w \in Workers |-> IF w \in S THEN "awake" ELSE "none"]

(* taskqueue_create(), with the threads. *)
taskqueue_create(c, S) ==
  /\ ~ tq_exists
  /\ tq_exists' = TRUE
  /\ tq_flags' = {"ACTIVE"}
  /\ tq_queue' = <<>>
  /\ tq_active' = <<>>
  /\ tq_callouts' = 0
  /\ ta_pending' = [t \in Queueable |-> 0]
  /\ _taskqueue_start_threads(S)
  /\ UNCHANGED <<tb_running, timeouts, client, asleep, unlocked, owed, missed>>

-----------------------------------------------------------------------------
(* Enqueueing. *)

taskqueue_enqueue(c, t) ==
  /\ MayCall(c)
  /\ taskqueue_enqueue_locked(c, t)
  /\ UNCHANGED <<flags, tq_active, tb_running, counts, timeouts, wpc, client,
                 asleep, owed, missed>>

(* A task queues itself or another one. *)
TaskEnqueues(w, t) ==
  /\ wpc[w] = "run"
  /\ tb_running[w] \in Tasks
  /\ w \notin unlocked
  /\ taskqueue_enqueue_locked(w, t)
  /\ UNCHANGED <<flags, tq_active, tb_running, counts, timeouts, wpc, client,
                 asleep, owed, missed>>

(* The end of taskqueue_enqueue_locked(): taskqueue_thread_enqueue(),      *)
(* without tq_mutex.                                                       *)
tq_enqueue(a) ==
  /\ a \in unlocked
  /\ unlocked' = unlocked \ {a}
  /\ \/ ~ BLOCKED /\ wakeup_one_tq
     \/ BLOCKED /\ UNCHANGED wpc
  /\ UNCHANGED <<flags, lists, counts, timeouts, client, asleep, owed, missed>>

(* callout_reset() with tq_mutex held.  A callout that waits for tq_mutex  *)
(* is cancelled first; one that a thread drains is not scheduled.          *)
callout_reset(t) ==
  LET co == callout[t]
      refused == co.exec # "idle" /\ co.waiting
  IN  /\ callout' = [callout EXCEPT
                       ![t].exec = IF @ = "getlock" THEN "skip" ELSE @,
                       ![t].pending = @ \/ ~ refused]
      /\ missed' = IF co.pending \/ ~ refused THEN missed \ {t}
                   ELSE missed \cup {t}

(* Whether the callout is started: always, or only if it is not armed. *)
Starts(t, ticks) == ticks = "positive" \/ t \notin f

(* taskqueue_enqueue_timeout() with ticks = 0, > 0 and < 0. *)
taskqueue_enqueue_timeout(c, t, ticks) ==
  /\ MayCall(c)
  /\ \/ /\ ticks = "zero"
        /\ taskqueue_enqueue_locked(c, t)
        /\ UNCHANGED <<tq_callouts, timeouts, missed>>
     \/ /\ ticks # "zero"
        /\ f' = f \cup {t}
        /\ tq_callouts' = IF t \in f THEN tq_callouts ELSE tq_callouts + 1
        /\ \/ /\ Starts(t, ticks)
              /\ callout_reset(t)
           \/ /\ ~ Starts(t, ticks)
              /\ UNCHANGED <<callout, missed>>
        /\ UNCHANGED <<tq_queue, ta_pending, unlocked>>
  /\ UNCHANGED <<flags, tq_active, tb_running, tq_tcount, wpc, client, asleep,
                 owed>>

(* softclock(): the callout is due. *)
CalloutDue(t) ==
  /\ callout[t].pending
  /\ callout[t].exec = "idle"
  /\ callout' = [callout EXCEPT ![t].pending = FALSE, ![t].exec = "getlock"]
  /\ UNCHANGED <<flags, lists, counts, f, wpc, client, asleep, unlocked, owed,
                 missed>>

(* softclock() gets tq_mutex: the callout was cancelled meanwhile, or      *)
(* taskqueue_timeout_func() runs.                                          *)
taskqueue_timeout_func(t) ==
  /\ callout' = [callout EXCEPT ![t].exec = "tail"]
  /\ \/ /\ callout[t].exec = "skip"
        /\ UNCHANGED <<tq_queue, ta_pending, tq_callouts, f, unlocked>>
     \/ /\ callout[t].exec = "getlock"
        /\ f' = f \ {t}
        /\ tq_callouts' = tq_callouts - 1
        /\ taskqueue_enqueue_locked(t, t)
  /\ UNCHANGED <<flags, tq_active, tb_running, tq_tcount, wpc, client, asleep,
                 owed, missed>>

(* The end of softclock_call_cc(). *)
CalloutDone(t) ==
  /\ callout[t].exec = "tail"
  /\ t \notin unlocked
  /\ callout' = [callout EXCEPT ![t].exec = "idle", ![t].waiting = FALSE]
  /\ asleep' = asleep \ {c \in Clients : pc[c] = "callout" /\ task[c] = t}
  /\ UNCHANGED <<flags, lists, counts, f, wpc, client, unlocked, owed, missed>>

-----------------------------------------------------------------------------
(* The worker threads. *)

MoreWork == tq_queue # <<>>

(* What a worker does when it holds tq_mutex and is on no list, given the  *)
(* lists: taskqueue_run_locked() takes the next task, or the queue is      *)
(* empty and taskqueue_thread_loop() sleeps or ends.  o is owed so far.    *)
NextTask(w, active, o) ==
  \/ /\ MoreWork
     /\ LET t == Head(tq_queue)
        IN  /\ tq_queue' = Tail(tq_queue)
            /\ tq_active' = Append(active, w)
            /\ ta_pending' = [ta_pending EXCEPT ![t] = 0]
            /\ tb_running' = [tb_running EXCEPT ![w] = t]
            /\ owed' = [c \in Clients |-> IF t \in o[c] THEN (o[c] \ {t}) \cup {w}
                                          ELSE o[c]]
     /\ wpc' = [wpc EXCEPT ![w] = "run"]
  \/ /\ ~ MoreWork
     /\ tq_active' = active
     /\ tb_running' = [tb_running EXCEPT ![w] = NoTask]
     /\ wpc' = [wpc EXCEPT ![w] = IF ACTIVE THEN "asleep" ELSE "shutdown"]
     /\ owed' = o
     /\ UNCHANGED <<tq_queue, ta_pending>>

(* taskqueue_thread_loop() gets tq_mutex after the INIT callback or after  *)
(* its sleep.                                                              *)
taskqueue_thread_loop(w) ==
  /\ wpc[w] = "awake"
  /\ NextTask(w, tq_active, owed)
  /\ UNCHANGED <<flags, counts, timeouts, client, asleep, unlocked, missed>>

Wakeups_Marker(t, active) ==   \* mutation: only a waiting marker is woken
  asleep \ FirstMarker(active)

(* The clients that sleep on after wakeup(task) and wakeup(tb_first). *)
Wakeups(t, active) == asleep \ (Sleepers(t) \cup FirstMarker(active))

(* A task returns: the rest of the loop of taskqueue_run_locked(). *)
taskqueue_run_locked(w) ==
  LET active == RemoveFirst(tq_active, w)
  IN  /\ wpc[w] = "run"
      /\ w \notin unlocked
      /\ asleep' = Wakeups(tb_running[w], active)
      /\ NextTask(w, active, [c \in Clients |-> owed[c] \ {w}])
      /\ UNCHANGED <<flags, counts, timeouts, client, unlocked, missed>>

(* The SHUTDOWN callback has returned: taskqueue_thread_loop() ends. *)
WorkerExits(w) ==
  /\ wpc[w] = "shutdown"
  /\ tq_tcount' = tq_tcount - 1
  /\ asleep' = asleep \ {c \in Clients : pc[c] = "free"}
  /\ wpc' = [wpc EXCEPT ![w] = "none"]
  /\ UNCHANGED <<flags, lists, tq_callouts, timeouts, client, unlocked, owed,
                 missed>>

-----------------------------------------------------------------------------
(* Blocking, cancelling. *)

taskqueue_block(c) ==
  /\ MayCall(c)
  /\ tq_flags' = tq_flags \cup {"BLOCKED"}
  /\ UNCHANGED <<tq_exists, lists, counts, timeouts, wpc, client, asleep,
                 unlocked, owed, missed>>

taskqueue_unblock(c) ==
  /\ MayCall(c)
  /\ tq_flags' = tq_flags \ {"BLOCKED"}
  /\ \/ tq_queue # <<>> /\ wakeup_one_tq
     \/ tq_queue = <<>> /\ UNCHANGED wpc
  /\ UNCHANGED <<tq_exists, lists, counts, timeouts, client, asleep, unlocked,
                 owed, missed>>

taskqueue_cancel_locked_Busy(t) ==   \* mutation: a running task stays
  /\ tq_queue' = IF task_is_running(t) THEN tq_queue ELSE RemoveFirst(tq_queue, t)
  /\ ta_pending' = [ta_pending EXCEPT ![t] = 0]
  /\ owed' = [c \in Clients |-> owed[c] \ {t}]

taskqueue_cancel_locked(t) ==
  /\ tq_queue' = RemoveFirst(tq_queue, t)
  /\ ta_pending' = [ta_pending EXCEPT ![t] = 0]
  /\ owed' = [c \in Clients |-> owed[c] \ {t}]

(* The clients that sleep in taskqueue_drain() for a task that is only     *)
(* pending: nobody wakes them when it is cancelled.                        *)
NotWoken(t) ==
  IF ta_pending[t] > 0 THEN asleep \cap Sleepers(t) ELSE {}

taskqueue_cancel(c, t) ==
  /\ MayCall(c)
  /\ taskqueue_cancel_locked(t)
  /\ missed' = missed \cup NotWoken(t)
  /\ UNCHANGED <<flags, tq_active, tb_running, counts, timeouts, wpc, client,
                 asleep, unlocked>>

(* callout_stop() with tq_mutex held. *)
callout_stop(t) ==
  callout' = [callout EXCEPT
                ![t].pending = FALSE,
                ![t].exec = IF @ = "getlock" THEN "skip" ELSE @]

taskqueue_cancel_timeout(c, t) ==
  /\ MayCall(c)
  /\ callout_stop(t)
  /\ taskqueue_cancel_locked(t)
  /\ f' = f \ {t}
  /\ tq_callouts' = IF t \in f THEN tq_callouts - 1 ELSE tq_callouts
  /\ missed' = (missed \cup NotWoken(t)) \ {t}
  /\ UNCHANGED <<flags, tq_active, tb_running, tq_tcount, wpc, client, asleep,
                 unlocked>>

-----------------------------------------------------------------------------
(* Draining. *)

Returns(c) ==
  /\ pc' = [pc EXCEPT ![c] = "idle"]
  /\ task' = [task EXCEPT ![c] = NoTask]
  /\ owed' = [owed EXCEPT ![c] = {}]
  /\ missed' = missed \ {c}

(* The pending and the running invocations of a task. *)
Invocations(t) ==
  {u \in {t} : ta_pending[u] > 0} \cup {w \in Workers : tb_running[w] = t}

Busy(t) == ta_pending[t] # 0 \/ task_is_running(t)

(* taskqueue_drain() of a task that it has to wait for. *)
taskqueue_drain(c, t) ==
  /\ MayCall(c)
  /\ Busy(t)
  /\ pc' = [pc EXCEPT ![c] = "drain"]
  /\ task' = [task EXCEPT ![c] = t]
  /\ owed' = [owed EXCEPT ![c] = Invocations(t)]
  /\ asleep' = asleep \cup {c}
  /\ UNCHANGED <<flags, lists, counts, timeouts, wpc, unlocked, missed>>

(* The loop of taskqueue_drain(): sleep, or return. *)
DrainLoop(c) ==
  /\ pc[c] = "drain" /\ c \notin asleep
  /\ \/ /\ Busy(task[c])
        /\ asleep' = asleep \cup {c}
        /\ UNCHANGED <<client, owed, missed>>
     \/ /\ ~ Busy(task[c])
        /\ Returns(c)
        /\ UNCHANGED asleep
  /\ UNCHANGED <<flags, lists, counts, timeouts, wpc, unlocked>>

taskqueue_drain_timeout(c, t) ==
  /\ MayCall(c)
  /\ pc' = [pc EXCEPT ![c] = "callout"]
  /\ task' = [task EXCEPT ![c] = t]
  /\ owed' = [owed EXCEPT ![c] = Invocations(t)]
  /\ UNCHANGED <<flags, lists, counts, timeouts, wpc, asleep, unlocked, missed>>

(* callout_drain(), then taskqueue_drain().  A callout that is pending is  *)
(* taken off its list, one that is running is waited for.                  *)
callout_drain(c) ==
  LET t == task[c]
      co == callout[t]
      goOn == pc' = [pc EXCEPT ![c] = "drain"] /\ UNCHANGED asleep
  IN  /\ pc[c] = "callout" /\ c \notin asleep
      /\ \/ /\ co.pending
            /\ callout' = [callout EXCEPT ![t].pending = FALSE]
            /\ missed' = missed \cup {t}
            /\ goOn
         \/ /\ ~ co.pending /\ co.exec = "idle"
            /\ goOn
            /\ UNCHANGED <<callout, missed>>
         \/ /\ ~ co.pending /\ co.exec # "idle"
            /\ callout' = [callout EXCEPT ![t].waiting = TRUE]
            /\ asleep' = asleep \cup {c}
            /\ UNCHANGED <<pc, missed>>
      /\ UNCHANGED <<flags, lists, counts, f, wpc, task, unlocked, owed>>

(* taskqueue_drain_tq_queue() of a queue that is not empty: the barrier. *)
DrainQueue(c) ==
  /\ tq_queue # <<>>
  /\ tq_queue' = Append(tq_queue, c)
  /\ ta_pending' = [ta_pending EXCEPT ![c] = 1]
  /\ pc' = [pc EXCEPT ![c] = "barrier"]
  /\ asleep' = asleep \cup {c}

(* taskqueue_drain_tq_active() up to its sleep: the marker. *)
DrainActive(c) ==
  /\ tq_active # <<>>
  /\ tq_callouts' = tq_callouts + 1
  /\ tq_active' = Append(tq_active, c)
  /\ pc' = [pc EXCEPT ![c] = "marker"]
  /\ asleep' = asleep \cup {c}

taskqueue_drain_all(c) ==
  /\ MayCall(c)
  /\ owed' = [owed EXCEPT ![c] = ToSet(tq_queue) \cup
                                 {w \in Workers : tb_running[w] # NoTask}]
  /\ \/ DrainQueue(c) /\ UNCHANGED <<tq_active, tq_callouts>>
     \/ /\ tq_queue = <<>>
        /\ DrainActive(c)
        /\ UNCHANGED <<tq_queue, ta_pending>>
  /\ UNCHANGED <<flags, tb_running, tq_tcount, timeouts, wpc, task, unlocked,
                 missed>>

(* taskqueue_drain_all() after the barrier; its ta_pending is 0, see       *)
(* ListsAgree.                                                             *)
BarrierPassed(c) ==
  /\ pc[c] = "barrier" /\ c \notin asleep
  /\ ta_pending[c] = 0
  /\ \/ /\ DrainActive(c)
        /\ UNCHANGED <<task, owed, missed>>
     \/ /\ tq_active = <<>>
        /\ Returns(c)
        /\ UNCHANGED <<tq_active, tq_callouts, asleep>>
  /\ UNCHANGED <<flags, tq_queue, ta_pending, tb_running, tq_tcount, timeouts,
                 wpc, unlocked>>

(* The rest of taskqueue_drain_tq_active(). *)
MarkerIsFirst(c) ==
  LET active == Tail(tq_active)
  IN  /\ pc[c] = "marker" /\ c \notin asleep
      /\ Head(tq_active) = c
      /\ tq_active' = active
      /\ tq_callouts' = tq_callouts - 1
      /\ asleep' = (asleep \ FirstMarker(active)) \
                   {d \in Clients : pc[d] = "free" /\ ~ ACTIVE}
      /\ Returns(c)
      /\ UNCHANGED <<flags, tq_queue, ta_pending, tb_running, tq_tcount,
                     timeouts, wpc, unlocked>>

-----------------------------------------------------------------------------
(* Termination. *)

(* taskqueue_free().  The caller sees to it that no other call is under    *)
(* way, but for taskqueue_drain_all() past its barrier, and that no        *)
(* timeout is armed or runs.                                               *)
taskqueue_free(c) ==
  /\ MayCall(c)
  /\ \A d \in Clients : pc[d] \in {"idle", "marker"}
  /\ unlocked \subseteq Workers
  /\ f = {}
  /\ \A t \in TimeoutTasks : callout[t].exec = "idle"
  /\ tq_flags' = tq_flags \ {"ACTIVE"}
  /\ pc' = [pc EXCEPT ![c] = "free"]
  /\ UNCHANGED <<tq_exists, lists, counts, timeouts, wpc, task, asleep,
                 unlocked, owed, missed>>

MustWait_Threads ==   \* mutation: does not wait for drain_tq_active()
  tq_tcount > 0

MustWait == tq_tcount > 0 \/ tq_callouts > 0

(* The loop of taskqueue_terminate(), and the end of taskqueue_free(). *)
taskqueue_terminate(c) ==
  /\ pc[c] = "free" /\ c \notin asleep
  /\ \/ /\ MustWait
        /\ wpc' = wakeup_tq
        /\ asleep' = asleep \cup {c}
        /\ UNCHANGED <<tq_exists, pc>>
     \/ /\ ~ MustWait
        /\ tq_exists' = FALSE
        /\ pc' = [pc EXCEPT ![c] = "idle"]
        /\ UNCHANGED <<wpc, asleep>>
  /\ UNCHANGED <<tq_flags, lists, counts, timeouts, task, unlocked, owed, missed>>

-----------------------------------------------------------------------------

Worker(w) ==
  \/ taskqueue_thread_loop(w)
  \/ taskqueue_run_locked(w)
  \/ WorkerExits(w)
  \/ tq_enqueue(w)

Softclock(t) ==
  \/ CalloutDue(t) \/ taskqueue_timeout_func(t) \/ tq_enqueue(t)
  \/ CalloutDone(t)

ClientGoesOn(c) ==
  \/ DrainLoop(c) \/ callout_drain(c) \/ BarrierPassed(c) \/ MarkerIsFirst(c)
  \/ taskqueue_terminate(c) \/ tq_enqueue(c)

ClientCalls(c) ==
  \/ \E S \in SUBSET Workers : taskqueue_create(c, S)
  \/ \E t \in Tasks :
       taskqueue_enqueue(c, t) \/ taskqueue_cancel(c, t) \/ taskqueue_drain(c, t)
  \/ \E t \in TimeoutTasks :
       \/ \E ticks \in {"zero", "positive", "negative"} :
            taskqueue_enqueue_timeout(c, t, ticks)
       \/ taskqueue_cancel_timeout(c, t)
       \/ taskqueue_drain_timeout(c, t)
  \/ taskqueue_drain_all(c)
  \/ taskqueue_block(c) \/ taskqueue_unblock(c)
  \/ taskqueue_free(c)

Next ==
  \/ \E w \in Workers : Worker(w) \/ \E t \in Tasks : TaskEnqueues(w, t)
  \/ \E t \in TimeoutTasks : Softclock(t)
  \/ \E c \in Clients : ClientGoesOn(c) \/ ClientCalls(c)

Spec == Init /\ [][Next]_vars

(* Every thread gets tq_mutex in the end and runs, tasks and callbacks     *)
(* return, time passes.                                                    *)
Fairness ==
  /\ \A w \in Workers : WF_vars(Worker(w))
  /\ \A t \in TimeoutTasks : WF_vars(Softclock(t))
  /\ \A c \in Clients : WF_vars(ClientGoesOn(c))

FairSpec == Spec /\ Fairness

-----------------------------------------------------------------------------

(* The callout of t will call taskqueue_timeout_func(). *)
WillFire(t) ==
  callout[t].pending \/ callout[t].exec = "getlock"

(* tq_callouts counts the armed timeout tasks and the markers.  A callout  *)
(* that is not armed never fires (the "Stray timeout" assertion), and an   *)
(* armed one does, unless taskqueue_drain_timeout() took it away.          *)
TimeoutsCounted ==
  /\ tq_exists => tq_callouts = Cardinality(f) + Cardinality(ToSet(tq_active) \ Workers)
  /\ \A t \in TimeoutTasks : WillFire(t) <=> t \in f \ missed

(* The lists, the counts and those who are on the lists agree: a task is   *)
(* on tq_queue once, as long as ta_pending says so; a worker is on         *)
(* tq_active while it runs a task.  A barrier and a marker are on a list   *)
(* or in a worker's hands only while the client whose stack they are on    *)
(* sleeps for them: when the client runs again its barrier is done, and    *)
(* its marker the first.                                                   *)
ListsAgree ==
  /\ TypeOK
  /\ TimeoutsCounted
  /\ IsInjective(tq_queue) /\ IsInjective(tq_active)
  /\ tq_exists => \A t \in Queueable : ta_pending[t] > 0 <=> t \in ToSet(tq_queue)
  /\ \A w \in Workers : /\ wpc[w] = "run" <=> w \in ToSet(tq_active)
                        /\ wpc[w] = "run" <=> tb_running[w] # NoTask
  /\ \A c \in Clients :
       /\ c \in ToSet(tq_queue) \/ task_is_running(c) <=>
            pc[c] = "barrier" /\ c \in asleep
       /\ c \in ToSet(tq_active) <=> pc[c] = "marker"
       /\ pc[c] = "marker" /\ c \notin asleep => Head(tq_active) = c

(* A queued task is never left to sleeping workers, unless the queue is    *)
(* blocked, and nobody sleeps on for something that has happened, unless   *)
(* the task it drained was cancelled: an enqueue without tq_mutex, the     *)
(* single wakeup of taskqueue_unblock() and the wakeups of a worker that   *)
(* returns lose nothing.                                                   *)
NobodyStranded ==
  /\ tq_queue # <<>> /\ ~ BLOCKED /\ tq_tcount > 0 =>
       unlocked # {} \/ \E w \in Workers : wpc[w] \in {"awake", "run"}
  /\ \A c \in asleep \ missed :
       \/ pc[c] = "drain" /\ Busy(task[c])
       \/ pc[c] = "barrier" /\ Busy(c)
       \/ pc[c] = "marker" /\ Head(tq_active) # c
       \/ pc[c] = "callout" /\ callout[task[c]].exec # "idle"
       \/ pc[c] = "free" /\ MustWait

(* When taskqueue_free() releases the memory nobody uses the queue any     *)
(* more, nor will: no worker, no client inside a call, no barrier and no   *)
(* marker.                                                                 *)
FreedIsUnused ==
  ~ tq_exists =>
    /\ \A w \in Workers : wpc[w] = "none"
    /\ \A c \in Clients : pc[c] = "idle"
    /\ unlocked = {} /\ tq_active = <<>>

(* Whatever was queued or running when a client called taskqueue_drain(),  *)
(* taskqueue_drain_all() or taskqueue_drain_timeout() has returned, or was *)
(* cancelled, when that call returns.                                      *)
DrainsWait ==
  [][\A c \in Clients : pc[c] # "idle" /\ pc'[c] = "idle" => owed[c] = {}]_vars

Enqueues ==
  \E t \in Tasks :
    \/ \E c \in Clients : taskqueue_enqueue(c, t)
    \/ \E c \in Clients : t \in TimeoutTasks /\ taskqueue_enqueue_timeout(c, t, "zero")
    \/ \E w \in Workers : TaskEnqueues(w, t)
    \/ t \in TimeoutTasks /\ taskqueue_timeout_func(t)

(* A client that drains a task, a timeout task or the queue returns, and   *)
(* so does taskqueue_free(), unless tasks are queued for ever, the queue   *)
(* stays blocked (which taskqueue_free() overcomes), has no thread, or the *)
(* task was cancelled while the client slept for it.                       *)
CallsReturn ==
  \A c \in Clients :
    \/ []<>(pc[c] = "idle")
    \/ []<><<Enqueues>>_vars
    \/ <>[](pc[c] # "free" /\ (BLOCKED \/ tq_tcount = 0 \/ c \in missed))

=============================================================================
