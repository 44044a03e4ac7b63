----------------------------- MODULE SleepQueue -----------------------------
(***************************************************************************)
(* Sleep queues (sys/kern/subr_sleepqueue.c), and on top of them condition  *)
(* variables (sys/kern/kern_condvar.c) and sleep/wakeup                     *)
(* (sys/kern/kern_synch.c): threads that wait on a channel, wakeups, the    *)
(* timeout of a sleep with the callout behind it (sys/kern/kern_timeout.c), *)
(* and signals.                                                             *)
(*                                                                          *)
(* A step is a critical section of the chain lock sc_lock or of a thread    *)
(* lock; the lock of a thread that sleeps on a channel is that channel's    *)
(* sc_lock.  sc_lock is a variable because a thread keeps it from           *)
(* sleepq_add() to the wait, while timeouts and signals go on.  Each        *)
(* channel has a chain, and each thread a process, of its own.              *)
(* Priorities, the loan of sleepqueue structures and the interlock's state  *)
(* are left out: sleepq_signal() may pick any thread, and EINTR stands for  *)
(* ERESTART too.                                                            *)
(***************************************************************************)
EXTENDS Naturals, FiniteSets

CONSTANTS
  Threads,           \* the threads that sleep
  Channels,          \* wait channels
  Condvars,          \* those that are condition variables
  SleepableLocks,    \* those whose interlock is LC_SLEEPABLE (sx, lockmgr)
  CV_WAITERS_BOUND,  \* INT_MAX in the code
  ThrWakers,         \* threads that call thr_wake() on themselves
  TailRace,          \* may a thread start a timed sleep while the CPU that
                     \* ran its last timeout is still in softclock_call_cc()?
  NoThread, NoChannel

ASSUME SleepQueueAssumption ==
  /\ IsFiniteSet(Threads)
  /\ Condvars \subseteq Channels
  /\ SleepableLocks \subseteq Channels
  /\ CV_WAITERS_BOUND \in Nat \ {0}
  /\ ThrWakers \subseteq Threads
  /\ TailRace \in BOOLEAN
  /\ NoThread \notin Threads
  /\ NoChannel \notin Channels

VARIABLES
  sc_lock,           \* who holds the chain lock of each channel
  sq_blocked,        \* the threads on each channel's queue
  cv_waiters,        \* the count each condition variable keeps of them
  td_wchan,          \* the channel each thread is queued on
  td_sleeping,       \* TD_IS_SLEEPING(): switched away
  td_flags,          \* TDF_ flags
  td_slpcallout,     \* the callout of the thread's timeout
  TDP_WAKEUP,        \* the td_pflags bit of that name
  p_lock,            \* PROC_LOCK of each thread's process
  sigpending,        \* a signal that cursig() would return
  sleep,             \* arguments of the thread's sleep
  rcatch,            \* local of sleepq_wait_sig() and sleepq_timedwait_sig()
  rval,              \* what the last sleep returned
  woken,             \* history: was this sleep ended by a wakeup?
  pc

queues == <<sq_blocked, td_wchan>>
signals == <<p_lock, sigpending, TDP_WAKEUP>>
vars == <<sc_lock, queues, cv_waiters, td_sleeping, td_flags, td_slpcallout,
          signals, sleep, rcatch, rval, woken, pc>>

Flags == {"SINTR", "SLEEPABORT", "TIMEOUT", "TIMOFAIL", "NEEDSIGCHK"}

(* pending and migrating are CALLOUT_PENDING and CALLOUT_DFRMIGRATION;     *)
(* cc_exec_curr is the callout from "entered" on: sleepq_timeout() waits   *)
(* for the thread lock, "left" when it has done its work.                  *)
Callouts ==
  [pending : BOOLEAN, migrating : BOOLEAN, exec : {"none", "entered", "left"}]

Results == {"0", "EWOULDBLOCK", "EINTR"}

TypeOK ==
  /\ sc_lock \in [Channels -> Threads \cup {NoThread}]
  /\ sq_blocked \in [Channels -> SUBSET Threads]
  /\ cv_waiters \in [Condvars -> 0 .. CV_WAITERS_BOUND]
  /\ td_wchan \in [Threads -> Channels \cup {NoChannel}]
  /\ td_sleeping \in [Threads -> BOOLEAN]
  /\ td_flags \in [Threads -> SUBSET Flags]
  /\ td_slpcallout \in [Threads -> Callouts]
  /\ TDP_WAKEUP \in [Threads -> BOOLEAN]
  /\ p_lock \in [Threads -> {"free", "self", "sender"}]
  /\ sigpending \in [Threads -> BOOLEAN]
  /\ sleep \in [Threads -> [chan : Channels \cup {NoChannel},
                            timed : BOOLEAN, intr : BOOLEAN]]
  /\ rcatch \in [Threads -> Results]
  /\ rval \in [Threads -> Results]
  /\ woken \in [Threads -> BOOLEAN]
  /\ pc \in [Threads -> {"caller", "unlock", "wait", "sigcheck", "sigret",
                         "asleep", "sync"}]

NoSleep == [chan |-> NoChannel, timed |-> FALSE, intr |-> FALSE]
IdleCallout == [pending |-> FALSE, migrating |-> FALSE, exec |-> "none"]

Init ==
  /\ sc_lock = [c \in Channels |-> NoThread]
  /\ sq_blocked = [c \in Channels |-> {}]
  /\ cv_waiters = [c \in Condvars |-> 0]
  /\ td_wchan = [t \in Threads |-> NoChannel]
  /\ td_sleeping = [t \in Threads |-> FALSE]
  /\ td_flags = [t \in Threads |-> {}]
  /\ td_slpcallout = [t \in Threads |-> IdleCallout]
  /\ TDP_WAKEUP = [t \in Threads |-> FALSE]
  /\ p_lock = [t \in Threads |-> "free"]
  /\ sigpending = [t \in Threads |-> FALSE]
  /\ sleep = [t \in Threads |-> NoSleep]
  /\ rcatch = [t \in Threads |-> "0"]
  /\ rval = [t \in Threads |-> "0"]
  /\ woken = [t \in Threads |-> FALSE]
  /\ pc = [t \in Threads |-> "caller"]

-----------------------------------------------------------------------------

Goto(t, l) == pc' = [pc EXCEPT ![t] = l]
OnSleepq(t) == td_wchan[t] # NoChannel   \* TD_ON_SLEEPQ()

(* The thread lock of t can be had: it is sc_lock while t sleeps there. *)
LockFree(t) == td_sleeping[t] /\ OnSleepq(t) => sc_lock[td_wchan[t]] = NoThread

(* sleepq_resume_thread() of the threads S, but for TD_CLR_SLEEPING(). *)
Dequeue(S) ==
  /\ sq_blocked' = [c \in Channels |-> sq_blocked[c] \ S]
  /\ td_wchan' = [t \in Threads |-> IF t \in S THEN NoChannel ELSE td_wchan[t]]

(* sleepq_resume_thread() by another thread, leaving t the flags f. *)
ResumeThread(t, f) ==
  /\ Dequeue({t})
  /\ td_flags' = [td_flags EXCEPT ![t] = f \ {"SINTR"}]
  /\ td_sleeping' = [td_sleeping EXCEPT ![t] = FALSE]

(* callout_reset_sbt_on(): on a CPU other than the one that still runs it, *)
(* the callout is put off until that one is done with it.                  *)
callout_reset(c) == [c EXCEPT !.pending = TRUE, !.migrating = (c.exec # "none")]

(* callout_stop() clears pending and migrating; 0 says that the callout is *)
(* running, 1 that it was stopped, and -1 (1 here, for callers of          *)
(* callout_stop() test for 0) that there was nothing to stop.              *)
callout_stop(c) ==
  IF c.exec # "none" /\ (~ c.pending \/ c.migrating) THEN 0 ELSE 1

Stopped(c) == [c EXCEPT !.pending = FALSE, !.migrating = FALSE]

-----------------------------------------------------------------------------

CV_WAITERS_INC_Unbound(c) == cv_waiters[c] + 1   \* mutation

CV_WAITERS_INC(c) ==
  IF cv_waiters[c] < CV_WAITERS_BOUND THEN cv_waiters[c] + 1 ELSE cv_waiters[c]

sleepq_add(t, c, intr) ==
  /\ sq_blocked' = [sq_blocked EXCEPT ![c] = @ \cup {t}]
  /\ td_wchan' = [td_wchan EXCEPT ![t] = c]
  /\ td_flags' = [td_flags EXCEPT ![t] =
                    IF intr THEN (@ \ {"SLEEPABORT"}) \cup {"SINTR"} ELSE @]

(* cv_wait(), cv_wait_sig(), cv_timedwait(), cv_timedwait_sig() and        *)
(* _sleep() up to the release of the interlock: sleepq_lock(),             *)
(* CV_WAITERS_INC(), sleepq_add() and sleepq_set_timeout().  The chain     *)
(* lock is dropped to release a sleepable interlock.                       *)
Sleep(t, c, timed, intr) ==
  /\ pc[t] = "caller"
  /\ sc_lock[c] = NoThread
  /\ timed /\ ~ TailRace => td_slpcallout[t].exec = "none"
  /\ cv_waiters' = IF c \in Condvars
                   THEN [cv_waiters EXCEPT ![c] = CV_WAITERS_INC(c)]
                   ELSE cv_waiters
  /\ sleepq_add(t, c, intr)
  /\ td_slpcallout' = IF timed
                      THEN [td_slpcallout EXCEPT ![t] = callout_reset(@)]
                      ELSE td_slpcallout
  /\ sleep' = [sleep EXCEPT ![t] = [chan |-> c, timed |-> timed, intr |-> intr]]
  /\ woken' = [woken EXCEPT ![t] = FALSE]
  /\ IF c \in SleepableLocks
     THEN Goto(t, "unlock") /\ UNCHANGED sc_lock
     ELSE Goto(t, "wait") /\ sc_lock' = [sc_lock EXCEPT ![c] = t]
  /\ UNCHANGED <<td_sleeping, signals, rcatch, rval>>

(* sleepq_lock() again, after a sleepable interlock was released. *)
Relock(t) ==
  /\ pc[t] = "unlock"
  /\ sc_lock[sleep[t].chan] = NoThread
  /\ sc_lock' = [sc_lock EXCEPT ![sleep[t].chan] = t]
  /\ Goto(t, "wait")
  /\ UNCHANGED <<queues, cv_waiters, td_sleeping, td_flags, td_slpcallout,
                 signals, sleep, rcatch, rval, woken>>

-----------------------------------------------------------------------------

(* sleepq_check_signals() and the return from the wait: r is what          *)
(* sleepq_catch_signals() returned, rvalt is sleepq_check_timeout()'s.     *)
Return(t, f, r, rvalt) ==
  /\ td_flags' = [td_flags EXCEPT ![t] =
                    IF sleep[t].intr THEN f \ {"SINTR", "SLEEPABORT"} ELSE f]
  /\ rval' = [rval EXCEPT ![t] =
                IF r # "0" THEN r
                ELSE IF sleep[t].intr /\ "SLEEPABORT" \in f THEN "EINTR"
                ELSE rvalt]
  /\ rcatch' = [rcatch EXCEPT ![t] = "0"]
  /\ sleep' = [sleep EXCEPT ![t] = NoSleep]
  /\ Goto(t, "caller")

CheckTimeout_NoSync(t, f, r) ==   \* mutation: callout_stop() is trusted
  LET timed == sleep[t].timed
  IN /\ Return(t, f \ (IF timed THEN {"TIMEOUT", "TIMOFAIL"} ELSE {}), r,
               IF timed /\ "TIMEOUT" \in f THEN "EWOULDBLOCK" ELSE "0")
     /\ td_slpcallout' = IF timed /\ f \cap {"TIMEOUT", "TIMOFAIL"} = {}
                         THEN [td_slpcallout EXCEPT ![t] = Stopped(@)]
                         ELSE td_slpcallout
     /\ UNCHANGED td_sleeping

CheckTimeout_Sticky(t, f, r) ==   \* mutation: TDF_TIMEOUT is not cleared
  \/ /\ ~ sleep[t].timed \/ "TIMEOUT" \in f
     /\ Return(t, f, r, IF sleep[t].timed THEN "EWOULDBLOCK" ELSE "0")
     /\ UNCHANGED <<td_slpcallout, td_sleeping>>
  \/ /\ sleep[t].timed /\ "TIMEOUT" \notin f
     /\ Return(t, f \ {"TIMOFAIL"}, r, "0")
     /\ td_slpcallout' = [td_slpcallout EXCEPT ![t] = Stopped(@)]
     /\ UNCHANGED td_sleeping

(* sleepq_check_timeout(), for a timed sleep, with the flags f: timed out, *)
(* or the timeout ran too late, or it is stopped, or it is running: then   *)
(* yield to it.                                                            *)
CheckTimeout(t, f, r) ==
  \/ /\ ~ sleep[t].timed
     /\ Return(t, f, r, "0")
     /\ UNCHANGED <<td_slpcallout, td_sleeping>>
  \/ /\ sleep[t].timed /\ "TIMEOUT" \in f
     /\ Return(t, f \ {"TIMEOUT"}, r, "EWOULDBLOCK")
     /\ UNCHANGED <<td_slpcallout, td_sleeping>>
  \/ /\ sleep[t].timed /\ "TIMEOUT" \notin f /\ "TIMOFAIL" \in f
     /\ Return(t, f \ {"TIMOFAIL"}, r, "0")
     /\ UNCHANGED <<td_slpcallout, td_sleeping>>
  \/ /\ sleep[t].timed /\ f \cap {"TIMEOUT", "TIMOFAIL"} = {}
     /\ td_slpcallout' = [td_slpcallout EXCEPT ![t] = Stopped(@)]
     /\ \/ /\ callout_stop(td_slpcallout[t]) # 0
           /\ Return(t, f, r, "0")
           /\ UNCHANGED td_sleeping
        \/ /\ callout_stop(td_slpcallout[t]) = 0
           /\ td_flags' = [td_flags EXCEPT ![t] = f \cup {"TIMEOUT"}]
           /\ td_sleeping' = [td_sleeping EXCEPT ![t] = TRUE]
           /\ rcatch' = [rcatch EXCEPT ![t] = r]
           /\ Goto(t, "sync")
           /\ UNCHANGED <<sleep, rval>>

Release(t) == sc_lock' = [sc_lock EXCEPT ![sleep[t].chan] = NoThread]

(* Leave the queue, if still on it, without having slept. *)
GiveUp(t, r) ==
  /\ Dequeue({t})
  /\ Release(t)
  /\ CheckTimeout(t, IF OnSleepq(t) THEN td_flags[t] \ {"SINTR"} ELSE td_flags[t], r)

(* sleepq_switch(), with what follows if it returns without a switch: the  *)
(* thread was woken already, or its timeout ran already.                   *)
Switch(t) ==
  \/ /\ ~ OnSleepq(t) \/ "TIMEOUT" \in td_flags[t]
     /\ GiveUp(t, "0")
  \/ /\ OnSleepq(t) /\ "TIMEOUT" \notin td_flags[t]
     /\ td_sleeping' = [td_sleeping EXCEPT ![t] = TRUE]
     /\ Release(t)
     /\ Goto(t, "asleep")
     /\ UNCHANGED <<queues, td_flags, td_slpcallout, sleep, rcatch, rval>>

(* sleepq_wait() and sleepq_timedwait(). *)
Wait(t) ==
  /\ pc[t] = "wait"
  /\ ~ sleep[t].intr
  /\ Switch(t)
  /\ UNCHANGED <<cv_waiters, signals, woken>>

(* sleepq_catch_signals() of sleepq_wait_sig() and sleepq_timedwait_sig(): *)
(* an earlier thr_wake(), nothing to check, or signals to look at first.   *)
CatchSignals(t) ==
  /\ pc[t] = "wait"
  /\ sleep[t].intr
  /\ \/ /\ TDP_WAKEUP[t]
        /\ TDP_WAKEUP' = [TDP_WAKEUP EXCEPT ![t] = FALSE]
        /\ GiveUp(t, "EINTR")
     \/ /\ ~ TDP_WAKEUP[t] /\ "NEEDSIGCHK" \notin td_flags[t]
        /\ Switch(t)
        /\ UNCHANGED TDP_WAKEUP
     \/ /\ ~ TDP_WAKEUP[t] /\ "NEEDSIGCHK" \in td_flags[t]
        /\ Release(t)
        /\ Goto(t, "sigcheck")
        /\ UNCHANGED <<queues, td_flags, td_sleeping, td_slpcallout, TDP_WAKEUP,
                       sleep, rcatch, rval>>
  /\ UNCHANGED <<cv_waiters, p_lock, sigpending, woken>>

(* PROC_LOCK() and cursig(); without a signal thread_suspend_check(). *)
CheckSignals(t) ==
  /\ pc[t] = "sigcheck"
  /\ p_lock[t] = "free"
  /\ p_lock' = [p_lock EXCEPT ![t] = "self"]
  /\ \E r \in {"0", "EINTR"} :
       /\ sigpending[t] => r = "EINTR"
       /\ rcatch' = [rcatch EXCEPT ![t] = r]
  /\ Goto(t, "sigret")
  /\ UNCHANGED <<sc_lock, queues, cv_waiters, td_sleeping, td_flags,
                 td_slpcallout, sigpending, TDP_WAKEUP, sleep, rval, woken>>

CatchReturn_Blind(t) ==   \* mutation: what happened meanwhile is not looked at
  /\ pc[t] = "sigret"
  /\ sc_lock[sleep[t].chan] = NoThread
  /\ p_lock' = [p_lock EXCEPT ![t] = "free"]
  /\ \/ /\ rcatch[t] = "0"
        /\ td_sleeping' = [td_sleeping EXCEPT ![t] = TRUE]
        /\ Goto(t, "asleep")
        /\ UNCHANGED <<sc_lock, queues, td_flags, td_slpcallout, sleep, rcatch, rval>>
     \/ rcatch[t] # "0" /\ GiveUp(t, rcatch[t])
  /\ UNCHANGED <<cv_waiters, sigpending, TDP_WAKEUP, woken>>

(* All locks taken again: sleep, or leave the queue. *)
CatchReturn(t) ==
  /\ pc[t] = "sigret"
  /\ sc_lock[sleep[t].chan] = NoThread
  /\ p_lock' = [p_lock EXCEPT ![t] = "free"]
  /\ \/ rcatch[t] = "0" /\ Switch(t)
     \/ rcatch[t] # "0" /\ GiveUp(t, rcatch[t])
  /\ UNCHANGED <<cv_waiters, sigpending, TDP_WAKEUP, woken>>

(* mi_switch() returns in sleepq_switch(). *)
Resume(t) ==
  /\ pc[t] = "asleep"
  /\ ~ td_sleeping[t]
  /\ CheckTimeout(t, td_flags[t], rcatch[t])
  /\ UNCHANGED <<sc_lock, queues, cv_waiters, signals, woken>>

(* mi_switch() returns in sleepq_check_timeout(). *)
SyncResume(t) ==
  /\ pc[t] = "sync"
  /\ ~ td_sleeping[t]
  /\ Return(t, td_flags[t], rcatch[t], "0")
  /\ UNCHANGED <<sc_lock, queues, cv_waiters, td_sleeping, td_slpcallout,
                 signals, woken>>

-----------------------------------------------------------------------------

(* sleepq_resume_thread() by a wakeup. *)
Wakeup(S) ==
  /\ Dequeue(S)
  /\ td_flags' = [t \in Threads |->
                    IF t \in S THEN td_flags[t] \ {"SINTR"} ELSE td_flags[t]]
  /\ td_sleeping' = [t \in Threads |-> t \notin S /\ td_sleeping[t]]
  /\ woken' = [t \in Threads |-> t \in S \/ woken[t]]

(* sleepq_signal(): one of the threads on the queue. *)
SignalOne(c) ==
  \/ sq_blocked[c] = {} /\ UNCHANGED <<queues, td_flags, td_sleeping, woken>>
  \/ \E t \in sq_blocked[c] : Wakeup({t})

CvSignal_Decrements(c) ==   \* mutation: a count at the bound is not sticky
  /\ sc_lock[c] = NoThread
  /\ cv_waiters[c] > 0
  /\ cv_waiters' = [cv_waiters EXCEPT ![c] = @ - 1]
  /\ SignalOne(c)
  /\ UNCHANGED <<sc_lock, td_slpcallout, signals, sleep, rcatch, rval, pc>>

(* cv_signal(): once the count has reached its bound it is only good for   *)
(* being nonzero, until the queue is found empty.                          *)
CvSignal(c) ==
  /\ sc_lock[c] = NoThread
  /\ cv_waiters[c] > 0
  /\ \/ /\ cv_waiters[c] = CV_WAITERS_BOUND /\ sq_blocked[c] = {}
        /\ cv_waiters' = [cv_waiters EXCEPT ![c] = 0]
        /\ UNCHANGED <<queues, td_flags, td_sleeping, woken>>
     \/ /\ ~ (cv_waiters[c] = CV_WAITERS_BOUND /\ sq_blocked[c] = {})
        /\ cv_waiters' = [cv_waiters EXCEPT ![c] =
                            IF @ < CV_WAITERS_BOUND THEN @ - 1 ELSE @]
        /\ SignalOne(c)
  /\ UNCHANGED <<sc_lock, td_slpcallout, signals, sleep, rcatch, rval, pc>>

(* cv_broadcastpri(). *)
CvBroadcast(c) ==
  /\ sc_lock[c] = NoThread
  /\ cv_waiters[c] > 0
  /\ cv_waiters' = [cv_waiters EXCEPT ![c] = 0]
  /\ Wakeup(sq_blocked[c])
  /\ UNCHANGED <<sc_lock, td_slpcallout, signals, sleep, rcatch, rval, pc>>

(* wakeup() and wakeup_one(). *)
WakeupIdent(c) ==
  /\ sc_lock[c] = NoThread
  /\ Wakeup(sq_blocked[c]) \/ SignalOne(c)
  /\ UNCHANGED <<sc_lock, cv_waiters, td_slpcallout, signals, sleep, rcatch,
                 rval, pc>>

(* sleepq_remove(). *)
SleepqRemove(t) ==
  /\ OnSleepq(t)
  /\ sc_lock[td_wchan[t]] = NoThread
  /\ ResumeThread(t, td_flags[t])
  /\ UNCHANGED <<sc_lock, cv_waiters, td_slpcallout, signals, sleep, rcatch,
                 rval, woken, pc>>

-----------------------------------------------------------------------------

(* callout_process() runs an expired callout: softclock_call_cc() up to    *)
(* the call of sleepq_timeout().                                           *)
CalloutFire(t) ==
  /\ td_slpcallout[t].pending /\ td_slpcallout[t].exec = "none"
  /\ td_slpcallout' = [td_slpcallout EXCEPT ![t].pending = FALSE,
                                            ![t].exec = "entered"]
  /\ UNCHANGED <<sc_lock, queues, cv_waiters, td_sleeping, td_flags, signals,
                 sleep, rcatch, rval, woken, pc>>

SleepqTimeout_SleepersOnly(t) ==   \* mutation: no mark on a thread still awake
  /\ td_slpcallout[t].exec = "entered"
  /\ LockFree(t)
  /\ td_slpcallout' = [td_slpcallout EXCEPT ![t].exec = "left"]
  /\ IF td_sleeping[t] /\ OnSleepq(t)
     THEN ResumeThread(t, td_flags[t] \cup {"TIMEOUT"})
     ELSE IF "TIMEOUT" \in td_flags[t]
     THEN /\ td_flags' = [td_flags EXCEPT ![t] = @ \ {"TIMEOUT"}]
          /\ td_sleeping' = [td_sleeping EXCEPT ![t] = FALSE]
          /\ UNCHANGED queues
     ELSE /\ td_flags' = [td_flags EXCEPT ![t] = @ \cup {"TIMOFAIL"}]
          /\ UNCHANGED <<queues, td_sleeping>>
  /\ UNCHANGED <<sc_lock, cv_waiters, signals, sleep, rcatch, rval, woken, pc>>

SleepqTimeout_NoYield(t) ==   \* mutation: nobody yields to the timeout
  /\ td_slpcallout[t].exec = "entered"
  /\ LockFree(t)
  /\ td_slpcallout' = [td_slpcallout EXCEPT ![t].exec = "left"]
  /\ IF td_sleeping[t] /\ OnSleepq(t)
     THEN ResumeThread(t, td_flags[t] \cup {"TIMEOUT"})
     ELSE /\ td_flags' = [td_flags EXCEPT ![t] = @ \cup
                 {IF OnSleepq(t) THEN "TIMEOUT" ELSE "TIMOFAIL"}]
          /\ UNCHANGED <<queues, td_sleeping>>
  /\ UNCHANGED <<sc_lock, cv_waiters, signals, sleep, rcatch, rval, woken, pc>>

(* sleepq_timeout(): wake the sleeper; or mark a thread that is queued but *)
(* not asleep yet; or resume a thread that yielded to the timeout; or tell *)
(* a thread that was woken that the timeout has run.                       *)
SleepqTimeout(t) ==
  /\ td_slpcallout[t].exec = "entered"
  /\ LockFree(t)
  /\ td_slpcallout' = [td_slpcallout EXCEPT ![t].exec = "left"]
  /\ \/ /\ OnSleepq(t) /\ td_sleeping[t]
        /\ ResumeThread(t, td_flags[t] \cup {"TIMEOUT"})
     \/ /\ OnSleepq(t) /\ ~ td_sleeping[t]
        /\ td_flags' = [td_flags EXCEPT ![t] = @ \cup {"TIMEOUT"}]
        /\ UNCHANGED <<queues, td_sleeping>>
     \/ /\ ~ OnSleepq(t) /\ "TIMEOUT" \in td_flags[t]
        /\ td_flags' = [td_flags EXCEPT ![t] = @ \ {"TIMEOUT"}]
        /\ td_sleeping' = [td_sleeping EXCEPT ![t] = FALSE]
        /\ UNCHANGED queues
     \/ /\ ~ OnSleepq(t) /\ "TIMEOUT" \notin td_flags[t]
        /\ td_flags' = [td_flags EXCEPT ![t] = @ \cup {"TIMOFAIL"}]
        /\ UNCHANGED <<queues, td_sleeping>>
  /\ UNCHANGED <<sc_lock, cv_waiters, signals, sleep, rcatch, rval, woken, pc>>

(* The tail of softclock_call_cc(): the callout is not current any more,   *)
(* and a deferred migration is carried out.                                *)
CalloutDone(t) ==
  /\ td_slpcallout[t].exec = "left"
  /\ td_slpcallout' = [td_slpcallout EXCEPT ![t].exec = "none",
                                            ![t].migrating = FALSE]
  /\ UNCHANGED <<sc_lock, queues, cv_waiters, td_sleeping, td_flags, signals,
                 sleep, rcatch, rval, woken, pc>>

-----------------------------------------------------------------------------

(* tdsendsignal(), or a request to suspend (no signal for cursig() then):  *)
(* PROC_LOCK and TDF_NEEDSIGCHK or TDF_NEEDSUSPCHK.                        *)
PostSignal(t) ==
  /\ p_lock[t] = "free"
  /\ LockFree(t)
  /\ p_lock' = [p_lock EXCEPT ![t] = "sender"]
  /\ td_flags' = [td_flags EXCEPT ![t] = @ \cup {"NEEDSIGCHK"}]
  /\ \E b \in BOOLEAN : sigpending' = [sigpending EXCEPT ![t] = @ \/ b]
  /\ UNCHANGED <<sc_lock, queues, cv_waiters, td_sleeping, td_slpcallout,
                 TDP_WAKEUP, sleep, rcatch, rval, woken, pc>>

(* tdsigwakeup() and sleepq_abort(), then PROC_UNLOCK(): only an           *)
(* interruptible sleep is aborted, none that has timed out, and not for    *)
(* every signal (a SIGCONT that does nothing, a deferred SIGSTOP).         *)
SignalWakeup(t) ==
  /\ p_lock[t] = "sender"
  /\ LockFree(t)
  /\ p_lock' = [p_lock EXCEPT ![t] = "free"]
  /\ \/ /\ OnSleepq(t) /\ "SINTR" \in td_flags[t] /\ "TIMEOUT" \notin td_flags[t]
        /\ \/ td_sleeping[t] /\ ResumeThread(t, td_flags[t] \cup {"SLEEPABORT"})
           \/ /\ ~ td_sleeping[t]
              /\ td_flags' = [td_flags EXCEPT ![t] = @ \cup {"SLEEPABORT"}]
              /\ UNCHANGED <<queues, td_sleeping>>
     \/ UNCHANGED <<queues, td_flags, td_sleeping>>
  /\ UNCHANGED <<sc_lock, cv_waiters, td_slpcallout, sigpending, TDP_WAKEUP,
                 sleep, rcatch, rval, woken, pc>>

(* ast() handles the signals on the way back to user mode. *)
Ast(t) ==
  /\ pc[t] = "caller"
  /\ p_lock[t] = "free"
  /\ "NEEDSIGCHK" \in td_flags[t]
  /\ td_flags' = [td_flags EXCEPT ![t] = @ \ {"NEEDSIGCHK"}]
  /\ sigpending' = [sigpending EXCEPT ![t] = FALSE]
  /\ UNCHANGED <<sc_lock, queues, cv_waiters, td_sleeping, td_slpcallout,
                 p_lock, TDP_WAKEUP, sleep, rcatch, rval, woken, pc>>

(* sys_thr_wake() on the calling thread itself. *)
ThrWake(t) ==
  /\ pc[t] = "caller"
  /\ t \in ThrWakers
  /\ TDP_WAKEUP' = [TDP_WAKEUP EXCEPT ![t] = TRUE]
  /\ UNCHANGED <<sc_lock, queues, cv_waiters, td_sleeping, td_flags,
                 td_slpcallout, p_lock, sigpending, sleep, rcatch, rval, woken, pc>>

-----------------------------------------------------------------------------

(* The steps of a thread inside a sleep. *)
Inside(t) ==
  \/ Relock(t) \/ Wait(t) \/ CatchSignals(t) \/ CheckSignals(t)
  \/ CatchReturn(t) \/ Resume(t) \/ SyncResume(t)

(* The CPU that runs the thread's timeout. *)
Timer(t) == CalloutFire(t) \/ SleepqTimeout(t) \/ CalloutDone(t)

Next ==
  \/ \E t \in Threads :
       \/ \E c \in Channels, timed, intr \in BOOLEAN : Sleep(t, c, timed, intr)
       \/ Inside(t)
       \/ Timer(t)
       \/ SleepqRemove(t)
       \/ PostSignal(t) \/ SignalWakeup(t) \/ Ast(t) \/ ThrWake(t)
  \/ \E c \in Condvars : CvSignal(c) \/ CvBroadcast(c)
  \/ \E c \in Channels \ Condvars : WakeupIdent(c)

Spec == Init /\ [][Next]_vars

(* Threads that can run do, in spite of others that take the same locks,   *)
(* timeouts expire and their handlers finish, and so do senders of signals. *)
Fairness ==
  \A t \in Threads :
    /\ SF_vars(Inside(t))
    /\ SF_vars(Timer(t))
    /\ SF_vars(SignalWakeup(t))

FairSpec == Spec /\ Fairness

-----------------------------------------------------------------------------

(* Whatever wakeups, timeouts and signals do to a thread on its way into a *)
(* sleep: a thread that has switched away is on the queue of the channel   *)
(* it sleeps on, so a wakeup finds it, or it yielded to its timeout; a     *)
(* thread that is off the queue is not left asleep; and the chain lock is  *)
(* held exactly from sleepq_add() to the wait.                             *)
QueueAccounting ==
  /\ \A t \in Threads, c \in Channels :
       /\ t \in sq_blocked[c] <=> td_wchan[t] = c
       /\ sc_lock[c] = t <=> pc[t] = "wait" /\ sleep[t].chan = c
  /\ \A t \in Threads :
       /\ OnSleepq(t) => sleep[t].chan = td_wchan[t]
       /\ pc[t] = "asleep" => (td_sleeping[t] <=> OnSleepq(t))
       /\ td_sleeping[t] => pc[t] \in {"asleep", "sync"}

(* cv_signal() never passes over a queue with threads on it: timeouts and  *)
(* signals only make cv_waiters too large, and at its bound it sticks.     *)
WaitersCounted ==
  \A c \in Condvars :
    \/ cv_waiters[c] = CV_WAITERS_BOUND
    \/ Cardinality(sq_blocked[c]) <= cv_waiters[c]

(* What the kernel asserts about flags that others set: a timeout that     *)
(* finds TDF_TIMEOUT set runs for a thread that is off the queue and has   *)
(* yielded to it (MPASS in sleepq_timeout()), and an uninterruptible wait  *)
(* starts without TDF_SINTR (in sleepq_wait() and sleepq_timedwait()).     *)
FlagAsserts ==
  \A t \in Threads :
    /\ td_slpcallout[t].exec = "entered" /\ "TIMEOUT" \in td_flags[t]
         => ~ OnSleepq(t) /\ td_sleeping[t]
    /\ pc[t] = "wait" /\ ~ sleep[t].intr => "SINTR" \notin td_flags[t]

(* A sleep leaves nothing behind that could disturb the next one: the      *)
(* thread is on no queue, its flags are clear, and its timeout is neither  *)
(* armed nor about to act on it.                                           *)
NothingLeftBehind ==
  \A t \in Threads :
    pc[t] = "caller" =>
      /\ ~ OnSleepq(t) /\ ~ td_sleeping[t]
      /\ td_flags[t] \subseteq {"NEEDSIGCHK"}
      /\ ~ td_slpcallout[t].pending
      /\ td_slpcallout[t].exec # "entered"

(* A thread that was woken returns from its sleep. *)
WokenReturns ==
  \A t \in Threads : woken[t] /\ pc[t] # "caller" ~> pc[t] = "caller"

(* A sleep with a timeout ends. *)
TimedSleepEnds == \A t \in Threads : []<>(~ sleep[t].timed)

(* What the comment in sleepq_check_timeout() says: if callout_stop()      *)
(* fails the timeout is running on another CPU, so there is something to   *)
(* synchronize with; a thread that yields to its timeout will be resumed.  *)
YieldsToTimeout ==
  \A t \in Threads :
    pc[t] = "sync" /\ td_sleeping[t] => td_slpcallout[t].exec = "entered"

=============================================================================
