-------------------------- MODULE SleepQueueProofs --------------------------
(***************************************************************************)
(* Proofs about SleepQueue, for every finite set of threads, every set of   *)
(* channels and every bound of cv_waiters: the invariants of the run        *)
(* sleepq_safety.                                                           *)
(*                                                                          *)
(* The invariant says of each thread by itself how its place in the sleep,  *)
(* its queue, its flags and its callout agree (ThreadInv), and of each      *)
(* condition variable that it counts its waiters.  A step of or for one     *)
(* thread leaves the others as they were (Same); wakeups are the only steps *)
(* that touch several.                                                      *)
(***************************************************************************)
EXTENDS SleepQueue, FiniteSetTheorems, TLAPS

(* Where a thread is in its sleep, and on which queue. *)
Place(t) ==
  /\ pc[t] = "caller" => sleep[t] = NoSleep
  /\ pc[t] # "caller" => sleep[t].chan \in Channels
  /\ pc[t] \in {"caller", "sync"} => ~ OnSleepq(t)
  /\ OnSleepq(t) => sleep[t].chan = td_wchan[t]
  /\ pc[t] = "asleep" => (td_sleeping[t] <=> OnSleepq(t))
  /\ td_sleeping[t] => pc[t] \in {"asleep", "sync"}

(* The queues and the chain locks, as far as they are about the thread. *)
Queue(t) ==
  \A c \in Channels :
    /\ t \in sq_blocked[c] <=> td_wchan[t] = c
    /\ sc_lock[c] = t <=> pc[t] = "wait" /\ sleep[t].chan = c

(* What the flags of the thread say about its callout. *)
Timeouts(t) ==
  /\ td_slpcallout[t].exec = "entered" => ~ td_slpcallout[t].pending
  /\ "TIMEOUT" \in td_flags[t] =>
       /\ ~ td_slpcallout[t].pending
       /\ "TIMOFAIL" \notin td_flags[t]
       /\ td_slpcallout[t].exec = "entered" => pc[t] = "sync" /\ td_sleeping[t]
  /\ "TIMOFAIL" \in td_flags[t] =>
       /\ ~ td_slpcallout[t].pending
       /\ td_slpcallout[t].exec # "entered"
       /\ pc[t] # "sync"
  /\ ~ sleep[t].timed =>
       /\ "TIMEOUT" \notin td_flags[t] /\ "TIMOFAIL" \notin td_flags[t]
       /\ ~ td_slpcallout[t].pending
       /\ td_slpcallout[t].exec # "entered"
  /\ pc[t] = "sync" =>
       /\ ~ td_slpcallout[t].pending
       /\ td_sleeping[t] <=> "TIMEOUT" \in td_flags[t]
       /\ ~ td_sleeping[t] => td_slpcallout[t].exec # "entered"

(* The flags of an interruptible sleep are set in no other. *)
SignalFlags(t) ==
  ~ sleep[t].intr => "SINTR" \notin td_flags[t] /\ "SLEEPABORT" \notin td_flags[t]

ThreadInv(t) == Place(t) /\ Queue(t) /\ Timeouts(t) /\ SignalFlags(t)

IInv == TypeOK /\ WaitersCounted /\ \A t \in Threads : ThreadInv(t)

(* A step that leaves a thread as it was. *)
Same(u) ==
  /\ td_wchan'[u] = td_wchan[u]
  /\ td_sleeping'[u] = td_sleeping[u]
  /\ td_flags'[u] = td_flags[u]
  /\ td_slpcallout'[u] = td_slpcallout[u]
  /\ sleep'[u] = sleep[u]
  /\ pc'[u] = pc[u]
  /\ \A c \in Channels :
       /\ u \in sq_blocked'[c] <=> u \in sq_blocked[c]
       /\ sc_lock'[c] = u <=> sc_lock[c] = u

(* A thread that a step leaves as it was keeps its invariant. *)
LEMMA SameThread ==
  ASSUME NEW u \in Threads, ThreadInv(u), Same(u)
  PROVE  ThreadInv(u)'
<1> USE DEF Same, ThreadInv
<1>1. Place(u)'
  BY DEF Place, OnSleepq
<1>2. Queue(u)'
  BY DEF Queue
<1>3. Timeouts(u)'
  BY DEF Timeouts
<1>4. SignalFlags(u)'
  BY DEF SignalFlags
<1> QED
  BY <1>1, <1>2, <1>3, <1>4

(* Threads that leave a queue do not upset the count of its waiters. *)
LEMMA FewerWaiters ==
  ASSUME TypeOK, WaitersCounted, cv_waiters' = cv_waiters,
         \A c \in Channels : sq_blocked'[c] \subseteq sq_blocked[c]
  PROVE  WaitersCounted'
<1> SUFFICES ASSUME NEW c \in Condvars, cv_waiters[c] # CV_WAITERS_BOUND
             PROVE  Cardinality(sq_blocked'[c]) <= cv_waiters[c]
  BY DEF WaitersCounted
<1>1. c \in Channels
  BY SleepQueueAssumption
<1>2. IsFiniteSet(sq_blocked[c])
  BY <1>1, SleepQueueAssumption, FS_Subset DEF TypeOK
<1>3. sq_blocked'[c] \in SUBSET sq_blocked[c]
  BY <1>1
<1>4. /\ Cardinality(sq_blocked'[c]) <= Cardinality(sq_blocked[c])
      /\ IsFiniteSet(sq_blocked'[c])
  BY <1>2, <1>3, FS_Subset
<1>5. Cardinality(sq_blocked'[c]) \in Nat /\ Cardinality(sq_blocked[c]) \in Nat
  BY <1>2, <1>4, FS_CardinalityType
<1>6. Cardinality(sq_blocked[c]) <= cv_waiters[c]
  BY DEF WaitersCounted
<1>7. cv_waiters[c] \in Nat
  BY SleepQueueAssumption DEF TypeOK
<1> QED
  BY <1>4, <1>5, <1>6, <1>7

(* A step for one thread: the others stay as they were. *)
LEMMA OneThread ==
  ASSUME IInv, NEW t \in Threads, TypeOK', WaitersCounted', ThreadInv(t)',
         \A u \in Threads \ {t} : Same(u)
  PROVE  IInv'
BY SameThread DEF IInv

(* The callout functions map callouts to callouts. *)
LEMMA CalloutTypes ==
  ASSUME NEW c \in Callouts, NEW e \in {"none", "entered", "left"}
  PROVE  /\ callout_reset(c) \in Callouts
         /\ Stopped(c) \in Callouts
         /\ [c EXCEPT !.pending = FALSE, !.exec = e] \in Callouts
         /\ [c EXCEPT !.exec = e] \in Callouts
         /\ [c EXCEPT !.exec = e, !.migrating = FALSE] \in Callouts
<1>1. callout_reset(c) \in Callouts
  BY DEF callout_reset, Callouts
<1>2. Stopped(c) \in Callouts
  BY DEF Stopped, Callouts
<1> QED
  BY <1>1, <1>2 DEF Callouts

(* cv_init() and the first use of a thread: nobody sleeps. *)
LEMMA InitOK == Init => IInv
<1> SUFFICES ASSUME Init PROVE IInv
  OBVIOUS
<1> USE SleepQueueAssumption DEF Init
<1>1. TypeOK
  BY DEF TypeOK, Callouts, IdleCallout, NoSleep, Results
<1>2. WaitersCounted
  BY FS_EmptySet DEF WaitersCounted
<1>3. ASSUME NEW t \in Threads PROVE ThreadInv(t)
  BY DEF ThreadInv, Place, Queue, Timeouts, SignalFlags, NoSleep, IdleCallout, OnSleepq
<1> QED
  BY <1>1, <1>2, <1>3 DEF IInv

(* sleepq_add() and the timeout of a new sleep. *)
LEMMA SleepStep ==
  ASSUME IInv, NEW t \in Threads, NEW c \in Channels,
         NEW timed \in BOOLEAN, NEW intr \in BOOLEAN, Sleep(t, c, timed, intr)
  PROVE  IInv'
<1> USE SleepQueueAssumption DEF Sleep, sleepq_add
<1>1. TypeOK
  BY DEF IInv
<1>2. ThreadInv(t)
  BY DEF IInv
<1>3. /\ pc[t] = "caller" /\ ~ OnSleepq(t) /\ ~ td_sleeping[t]
      /\ "TIMEOUT" \notin td_flags[t] /\ "TIMOFAIL" \notin td_flags[t]
      /\ ~ td_slpcallout[t].pending /\ td_slpcallout[t].exec # "entered"
      /\ "SINTR" \notin td_flags[t] /\ "SLEEPABORT" \notin td_flags[t]
  BY <1>2 DEF ThreadInv, Place, Timeouts, SignalFlags, NoSleep
<1>4. TypeOK'
  <2>1. td_slpcallout' \in [Threads -> Callouts]
    BY <1>1, CalloutTypes DEF TypeOK
  <2>2. cv_waiters' \in [Condvars -> 0 .. CV_WAITERS_BOUND]
    BY <1>1 DEF TypeOK, CV_WAITERS_INC
  <2>3. td_flags' \in [Threads -> SUBSET Flags]
    BY <1>1 DEF TypeOK, Flags
  <2>4. sq_blocked' \in [Channels -> SUBSET Threads]
    BY <1>1 DEF TypeOK
  <2>5. sleep' \in [Threads -> [chan : Channels \cup {NoChannel},
                                timed : BOOLEAN, intr : BOOLEAN]]
    BY <1>1 DEF TypeOK
  <2>6. woken' \in [Threads -> BOOLEAN]
    BY <1>1 DEF TypeOK
  <2>7. sc_lock' \in [Channels -> Threads \cup {NoThread}]
    <3>1. sc_lock' = sc_lock \/ sc_lock' = [sc_lock EXCEPT ![c] = t]
      OBVIOUS
    <3> QED
      BY <1>1, <3>1 DEF TypeOK
  <2>8. td_wchan' \in [Threads -> Channels \cup {NoChannel}]
    BY <1>1 DEF TypeOK
  <2> QED
    BY <1>1, <2>1, <2>2, <2>3, <2>4, <2>5, <2>6, <2>7, <2>8 DEF TypeOK, signals, Goto
<1>5. WaitersCounted'
  <2> SUFFICES ASSUME NEW d \in Condvars
               PROVE  \/ cv_waiters'[d] = CV_WAITERS_BOUND
                      \/ Cardinality(sq_blocked'[d]) <= cv_waiters'[d]
    BY DEF WaitersCounted
  <2>1. \/ cv_waiters[d] = CV_WAITERS_BOUND
        \/ Cardinality(sq_blocked[d]) <= cv_waiters[d]
    BY DEF IInv, WaitersCounted
  <2>2. d \in Channels /\ cv_waiters[d] \in 0 .. CV_WAITERS_BOUND
    BY <1>1 DEF TypeOK
  <2>3. CASE d # c
    BY <1>1, <2>1, <2>2, <2>3 DEF TypeOK
  <2>4. CASE d = c
    <3>1. /\ sq_blocked'[d] = sq_blocked[d] \cup {t}
          /\ cv_waiters'[d] = CV_WAITERS_INC(d)
      BY <1>1, <2>2, <2>4 DEF TypeOK
    <3>2. IsFiniteSet(sq_blocked[d])
      BY <1>1, <2>2, FS_Subset DEF TypeOK
    <3>3. /\ Cardinality(sq_blocked[d]) \in Nat
          /\ Cardinality(sq_blocked[d] \cup {t})
               \in {Cardinality(sq_blocked[d]), Cardinality(sq_blocked[d]) + 1}
      BY <3>2, FS_AddElement, FS_CardinalityType
    <3> HIDE DEF Sleep, sleepq_add
    <3>4. /\ Cardinality(sq_blocked'[d]) \in Nat
          /\ Cardinality(sq_blocked'[d]) <= Cardinality(sq_blocked[d]) + 1
      BY <3>1, <3>3
    <3>5. CASE cv_waiters[d] = CV_WAITERS_BOUND
      BY <3>1, <3>5 DEF CV_WAITERS_INC
    <3>6. CASE cv_waiters[d] < CV_WAITERS_BOUND
      <4>1. cv_waiters'[d] = cv_waiters[d] + 1
        BY <3>1, <3>6 DEF CV_WAITERS_INC
      <4>2. Cardinality(sq_blocked[d]) <= cv_waiters[d]
        BY <2>1, <2>2, <3>6
      <4> QED
        BY <2>2, <3>3, <3>4, <4>1, <4>2
    <3> QED
      BY <2>2, <3>5, <3>6
  <2> QED
    BY <2>3, <2>4
<1>6. ThreadInv(t)'
  <2>1. Place(t)'
    BY <1>1, <1>3 DEF TypeOK, Place, OnSleepq, Goto
  <2>2. Queue(t)'
    BY <1>1, <1>2, <1>3 DEF TypeOK, Queue, ThreadInv, Goto, OnSleepq
  <2>3. Timeouts(t)'
    BY <1>1, <1>3 DEF TypeOK, Timeouts, Goto, callout_reset, Callouts
  <2>4. SignalFlags(t)'
    BY <1>1, <1>3 DEF TypeOK, SignalFlags, Goto
  <2> QED
    BY <2>1, <2>2, <2>3, <2>4 DEF ThreadInv
<1>7. \A u \in Threads \ {t} : Same(u)
  BY <1>1 DEF TypeOK, Same, Goto
<1> QED
  BY <1>4, <1>5, <1>6, <1>7, OneThread

(* sleepq_resume_thread() takes the threads S off their queues. *)
LEMMA DequeueFacts ==
  ASSUME TypeOK, NEW S \in SUBSET Threads, Dequeue(S)
  PROVE  /\ sq_blocked' \in [Channels -> SUBSET Threads]
         /\ td_wchan' \in [Threads -> Channels \cup {NoChannel}]
         /\ \A c \in Channels : sq_blocked'[c] \subseteq sq_blocked[c]
         /\ \A u \in S : /\ td_wchan'[u] = NoChannel
                         /\ \A c \in Channels : u \notin sq_blocked'[c]
         /\ \A u \in Threads \ S :
              /\ td_wchan'[u] = td_wchan[u]
              /\ \A c \in Channels : u \in sq_blocked'[c] <=> u \in sq_blocked[c]
BY DEF TypeOK, Dequeue

(* The part of a thread's state that sleepq_check_timeout() and what       *)
(* follows it change.                                                      *)
LeaveTypes ==
  /\ td_sleeping \in [Threads -> BOOLEAN]
  /\ td_flags \in [Threads -> SUBSET Flags]
  /\ td_slpcallout \in [Threads -> Callouts]
  /\ sleep \in [Threads -> [chan : Channels \cup {NoChannel},
                            timed : BOOLEAN, intr : BOOLEAN]]
  /\ rcatch \in [Threads -> Results]
  /\ rval \in [Threads -> Results]
  /\ pc \in [Threads -> {"caller", "unlock", "wait", "sigcheck", "sigret",
                         "asleep", "sync"}]

LeaveSame(u) ==
  /\ td_sleeping'[u] = td_sleeping[u]
  /\ td_flags'[u] = td_flags[u]
  /\ td_slpcallout'[u] = td_slpcallout[u]
  /\ sleep'[u] = sleep[u]
  /\ pc'[u] = pc[u]

(* The return from a wait, as far as types and other threads go. *)
LEMMA ReturnTypes ==
  ASSUME TypeOK, NEW t \in Threads, NEW f \in SUBSET Flags, NEW r \in Results,
         NEW rvalt \in Results, Return(t, f, r, rvalt),
         td_slpcallout' \in [Threads -> Callouts],
         \A u \in Threads \ {t} : td_slpcallout'[u] = td_slpcallout[u],
         td_sleeping' = td_sleeping
  PROVE  LeaveTypes' /\ \A u \in Threads \ {t} : LeaveSame(u)
<1> USE DEF Return, Goto
<1>1. td_flags' \in [Threads -> SUBSET Flags]
  BY DEF TypeOK, Flags
<1>2. sleep' \in [Threads -> [chan : Channels \cup {NoChannel},
                              timed : BOOLEAN, intr : BOOLEAN]]
  BY DEF TypeOK, NoSleep
<1>3. rcatch' \in [Threads -> Results] /\ rval' \in [Threads -> Results]
  BY DEF TypeOK, Results
<1>4. \A u \in Threads \ {t} : LeaveSame(u)
  BY DEF TypeOK, LeaveSame
<1> QED
  BY <1>1, <1>2, <1>3, <1>4 DEF TypeOK, LeaveTypes

(* sleepq_check_timeout() of a thread that is off its queue, and what      *)
(* follows: the thread returns with its flags clear and its timeout        *)
(* neither armed nor about to run, or it yields to the timeout.            *)
LEMMA LeaveStep ==
  ASSUME IInv, NEW t \in Threads, NEW f \in SUBSET Flags, NEW r \in Results,
         CheckTimeout(t, f, r),
         pc[t] \notin {"caller", "sync"}, ~ td_sleeping[t],
         f = td_flags[t] \/ f = td_flags[t] \ {"SINTR"},
         td_wchan'[t] = NoChannel
  PROVE  /\ LeaveTypes'
         /\ Place(t)' /\ Timeouts(t)' /\ SignalFlags(t)'
         /\ pc'[t] \in {"caller", "sync"}
         /\ \A u \in Threads \ {t} : LeaveSame(u)
<1>1. TypeOK /\ Place(t) /\ Timeouts(t) /\ SignalFlags(t)
  BY DEF IInv, ThreadInv
<1>2. /\ "TIMEOUT" \in f <=> "TIMEOUT" \in td_flags[t]
      /\ "TIMOFAIL" \in f <=> "TIMOFAIL" \in td_flags[t]
      /\ "SLEEPABORT" \in f <=> "SLEEPABORT" \in td_flags[t]
      /\ "SINTR" \in f => "SINTR" \in td_flags[t]
  OBVIOUS
<1>3. ASSUME NEW g \in SUBSET f, NEW rvalt \in Results, Return(t, g, r, rvalt),
             "TIMEOUT" \notin g, "TIMOFAIL" \notin g,
             td_slpcallout' \in [Threads -> Callouts],
             \A u \in Threads \ {t} : td_slpcallout'[u] = td_slpcallout[u],
             ~ td_slpcallout'[t].pending, td_slpcallout'[t].exec # "entered",
             td_sleeping' = td_sleeping
      PROVE  /\ LeaveTypes'
             /\ Place(t)' /\ Timeouts(t)' /\ SignalFlags(t)'
             /\ pc'[t] \in {"caller", "sync"}
             /\ \A u \in Threads \ {t} : LeaveSame(u)
  <2>1. g \in SUBSET Flags
    BY <1>3
  <2>2. LeaveTypes' /\ \A u \in Threads \ {t} : LeaveSame(u)
    BY <1>1, <1>3, <2>1, ReturnTypes
  <2>3. /\ pc'[t] = "caller" /\ sleep'[t] = NoSleep
        /\ td_flags'[t] = IF sleep[t].intr THEN g \ {"SINTR", "SLEEPABORT"} ELSE g
    BY <1>1, <1>3 DEF Return, Goto, TypeOK
  <2>4. Place(t)'
    BY <1>3, <2>3 DEF Place, OnSleepq, NoSleep
  <2>5. Timeouts(t)'
    BY <1>3, <2>3 DEF Timeouts
  <2>6. SignalFlags(t)'
    BY <1>1, <1>2, <1>3, <2>3 DEF SignalFlags
  <2> QED
    BY <2>2, <2>3, <2>4, <2>5, <2>6
<1>4. CASE ~ sleep[t].timed /\ Return(t, f, r, "0") /\ UNCHANGED <<td_slpcallout, td_sleeping>>
  <2>1. "TIMEOUT" \notin f /\ "TIMOFAIL" \notin f
    BY <1>1, <1>2, <1>4 DEF Timeouts
  <2>2. ~ td_slpcallout[t].pending /\ td_slpcallout[t].exec # "entered"
    BY <1>1, <1>4 DEF Timeouts
  <2>3. "0" \in Results /\ f \in SUBSET f /\ td_slpcallout \in [Threads -> Callouts]
    BY <1>1 DEF Results, TypeOK
  <2> QED
    BY <1>3, <1>4, <2>1, <2>2, <2>3
<1>5. CASE /\ "TIMEOUT" \in f /\ Return(t, f \ {"TIMEOUT"}, r, "EWOULDBLOCK")
           /\ UNCHANGED <<td_slpcallout, td_sleeping>>
  <2>1. "TIMOFAIL" \notin f
    BY <1>1, <1>2, <1>5 DEF Timeouts
  <2>2. ~ td_slpcallout[t].pending /\ td_slpcallout[t].exec # "entered"
    BY <1>1, <1>2, <1>5 DEF Timeouts
  <2>3. /\ "EWOULDBLOCK" \in Results /\ f \ {"TIMEOUT"} \in SUBSET f
        /\ td_slpcallout \in [Threads -> Callouts]
    BY <1>1 DEF Results, TypeOK
  <2>4. "TIMEOUT" \notin f \ {"TIMEOUT"} /\ "TIMOFAIL" \notin f \ {"TIMEOUT"}
    BY <2>1
  <2> QED
    BY <1>3, <1>5, <2>2, <2>3, <2>4
<1>6. CASE /\ "TIMEOUT" \notin f /\ "TIMOFAIL" \in f
           /\ Return(t, f \ {"TIMOFAIL"}, r, "0")
           /\ UNCHANGED <<td_slpcallout, td_sleeping>>
  <2>2. ~ td_slpcallout[t].pending /\ td_slpcallout[t].exec # "entered"
    BY <1>1, <1>2, <1>6 DEF Timeouts
  <2>3. /\ "0" \in Results /\ f \ {"TIMOFAIL"} \in SUBSET f
        /\ td_slpcallout \in [Threads -> Callouts]
    BY <1>1 DEF Results, TypeOK
  <2>4. "TIMEOUT" \notin f \ {"TIMOFAIL"} /\ "TIMOFAIL" \notin f \ {"TIMOFAIL"}
    BY <1>6
  <2> QED
    BY <1>3, <1>6, <2>2, <2>3, <2>4
<1>7. CASE /\ f \cap {"TIMEOUT", "TIMOFAIL"} = {}
           /\ td_slpcallout' = [td_slpcallout EXCEPT ![t] = Stopped(@)]
           /\ callout_stop(td_slpcallout[t]) # 0
           /\ Return(t, f, r, "0")
           /\ UNCHANGED td_sleeping
  <2>1. td_slpcallout[t] \in Callouts
    BY <1>1 DEF TypeOK
  <2>2. Stopped(td_slpcallout[t]) \in Callouts
    BY <2>1 DEF Stopped, Callouts
  <2>3. /\ td_slpcallout' \in [Threads -> Callouts]
        /\ \A u \in Threads \ {t} : td_slpcallout'[u] = td_slpcallout[u]
        /\ td_slpcallout'[t] = Stopped(td_slpcallout[t])
    BY <1>1, <1>7, <2>2 DEF TypeOK
  <2>4. /\ ~ Stopped(td_slpcallout[t]).pending
        /\ Stopped(td_slpcallout[t]).exec = td_slpcallout[t].exec
    BY <2>1 DEF Stopped, Callouts
  <2>5. td_slpcallout[t].exec # "entered"
    BY <1>1, <1>7 DEF callout_stop, Timeouts
  <2>6. "0" \in Results /\ f \in SUBSET f /\ "TIMEOUT" \notin f /\ "TIMOFAIL" \notin f
    BY <1>7 DEF Results
  <2> QED
    BY <1>3, <1>7, <2>3, <2>4, <2>5, <2>6
<1>8. CASE /\ sleep[t].timed /\ f \cap {"TIMEOUT", "TIMOFAIL"} = {}
           /\ td_slpcallout' = [td_slpcallout EXCEPT ![t] = Stopped(@)]
           /\ td_flags' = [td_flags EXCEPT ![t] = f \cup {"TIMEOUT"}]
           /\ td_sleeping' = [td_sleeping EXCEPT ![t] = TRUE]
           /\ rcatch' = [rcatch EXCEPT ![t] = r]
           /\ Goto(t, "sync")
           /\ UNCHANGED <<sleep, rval>>
  <2>1. td_slpcallout[t] \in Callouts
    BY <1>1 DEF TypeOK
  <2>2. Stopped(td_slpcallout[t]) \in Callouts
    BY <2>1 DEF Stopped, Callouts
  <2>3. /\ td_slpcallout' \in [Threads -> Callouts]
        /\ \A u \in Threads \ {t} : td_slpcallout'[u] = td_slpcallout[u]
        /\ td_slpcallout'[t] = Stopped(td_slpcallout[t])
    BY <1>1, <1>8, <2>2 DEF TypeOK
  <2>4. ~ Stopped(td_slpcallout[t]).pending
    BY <2>1 DEF Stopped, Callouts
  <2>5. td_flags'[t] = f \cup {"TIMEOUT"} /\ td_sleeping'[t] = TRUE /\ pc'[t] = "sync"
    BY <1>1, <1>8 DEF TypeOK, Goto
  <2>6. LeaveTypes'
    BY <1>1, <1>8, <2>3 DEF TypeOK, LeaveTypes, Flags, Goto
  <2>7. \A u \in Threads \ {t} : LeaveSame(u)
    BY <1>1, <1>8, <2>3 DEF TypeOK, LeaveSame, Goto
  <2>8. Place(t)'
    BY <1>1, <1>8, <2>5 DEF Place, OnSleepq
  <2>9. Timeouts(t)'
    BY <1>8, <2>3, <2>4, <2>5 DEF Timeouts
  <2>10. SignalFlags(t)'
    BY <1>1, <1>2, <1>8, <2>5 DEF SignalFlags
  <2> QED
    BY <2>5, <2>6, <2>7, <2>8, <2>9, <2>10
<1> QED
  BY <1>4, <1>5, <1>6, <1>7, <1>8 DEF CheckTimeout

(* The variables of the signal code. *)
SignalTypes ==
  /\ p_lock \in [Threads -> {"free", "self", "sender"}]
  /\ sigpending \in [Threads -> BOOLEAN]
  /\ TDP_WAKEUP \in [Threads -> BOOLEAN]

(* A thread inside a wait holds its chain lock, or it is free. *)
LEMMA ReleaseFacts ==
  ASSUME TypeOK, NEW t \in Threads, ThreadInv(t), Release(t),
         pc[t] = "wait" \/ sc_lock[sleep[t].chan] = NoThread,
         pc[t] # "caller"
  PROVE  /\ sc_lock' \in [Channels -> Threads \cup {NoThread}]
         /\ \A c \in Channels : sc_lock'[c] # t
         /\ \A u \in Threads \ {t}, c \in Channels :
              sc_lock'[c] = u <=> sc_lock[c] = u
<1>1. sleep[t].chan \in Channels
  BY DEF ThreadInv, Place
<1>2. sc_lock[sleep[t].chan] \in {t, NoThread}
  BY <1>1 DEF ThreadInv, Queue
<1>3. \A c \in Channels : sc_lock[c] = t => c = sleep[t].chan
  BY DEF ThreadInv, Queue
<1> QED
  BY <1>1, <1>2, <1>3, SleepQueueAssumption DEF Release, TypeOK

(* A thread leaves its queue before it has slept. *)
LEMMA GiveUpStep ==
  ASSUME IInv, NEW t \in Threads, NEW r \in Results, GiveUp(t, r),
         pc[t] \in {"wait", "sigret"},
         pc[t] = "wait" \/ sc_lock[sleep[t].chan] = NoThread,
         UNCHANGED <<cv_waiters, woken>>, SignalTypes'
  PROVE  IInv'
<1>1. TypeOK /\ ThreadInv(t)
  BY DEF IInv
<1>2. Dequeue({t}) /\ Release(t)
  BY DEF GiveUp
<1>3. /\ sq_blocked' \in [Channels -> SUBSET Threads]
      /\ td_wchan' \in [Threads -> Channels \cup {NoChannel}]
      /\ \A c \in Channels : sq_blocked'[c] \subseteq sq_blocked[c]
      /\ td_wchan'[t] = NoChannel
      /\ \A c \in Channels : t \notin sq_blocked'[c]
      /\ \A u \in Threads \ {t} :
           /\ td_wchan'[u] = td_wchan[u]
           /\ \A c \in Channels : u \in sq_blocked'[c] <=> u \in sq_blocked[c]
  BY <1>1, <1>2, DequeueFacts
<1>4. /\ sc_lock' \in [Channels -> Threads \cup {NoThread}]
      /\ \A c \in Channels : sc_lock'[c] # t
      /\ \A u \in Threads \ {t}, c \in Channels : sc_lock'[c] = u <=> sc_lock[c] = u
  BY <1>1, <1>2, ReleaseFacts
<1>5. ~ td_sleeping[t]
  BY <1>1 DEF ThreadInv, Place
<1> DEFINE f == IF OnSleepq(t) THEN td_flags[t] \ {"SINTR"} ELSE td_flags[t]
<1>6. f \in SUBSET Flags
  BY <1>1 DEF TypeOK
<1>7. /\ CheckTimeout(t, f, r)
      /\ f = td_flags[t] \/ f = td_flags[t] \ {"SINTR"}
  BY DEF GiveUp
<1> HIDE DEF f
<1>8. /\ LeaveTypes'
      /\ Place(t)' /\ Timeouts(t)' /\ SignalFlags(t)'
      /\ pc'[t] \in {"caller", "sync"}
      /\ \A u \in Threads \ {t} : LeaveSame(u)
  BY <1>3, <1>5, <1>6, <1>7, LeaveStep
<1>9. TypeOK'
  BY <1>1, <1>3, <1>4, <1>8 DEF TypeOK, LeaveTypes, SignalTypes
<1>10. WaitersCounted'
  BY <1>3, FewerWaiters DEF IInv
<1>11. Queue(t)'
  BY <1>3, <1>4, <1>8, SleepQueueAssumption DEF Queue
<1>12. \A u \in Threads \ {t} : Same(u)
  BY <1>3, <1>4, <1>8 DEF Same, LeaveSame
<1> QED
  BY <1>8, <1>9, <1>10, <1>11, <1>12, OneThread DEF ThreadInv

(* sleepq_switch(). *)
LEMMA SwitchStep ==
  ASSUME IInv, NEW t \in Threads, Switch(t),
         pc[t] \in {"wait", "sigret"},
         pc[t] = "wait" \/ sc_lock[sleep[t].chan] = NoThread,
         UNCHANGED <<cv_waiters, woken>>, SignalTypes'
  PROVE  IInv'
<1>1. TypeOK /\ ThreadInv(t)
  BY DEF IInv
<1>2. CASE GiveUp(t, "0")
  <2>1. "0" \in Results
    BY DEF Results
  <2> QED
    BY <1>2, <2>1, GiveUpStep
<1>3. CASE /\ OnSleepq(t) /\ "TIMEOUT" \notin td_flags[t]
           /\ td_sleeping' = [td_sleeping EXCEPT ![t] = TRUE]
           /\ Release(t)
           /\ Goto(t, "asleep")
           /\ UNCHANGED <<queues, td_flags, td_slpcallout, sleep, rcatch, rval>>
  <2>1. UNCHANGED <<sq_blocked, td_wchan>>
    BY <1>3 DEF queues
  <2>2. /\ sc_lock' \in [Channels -> Threads \cup {NoThread}]
        /\ \A c \in Channels : sc_lock'[c] # t
        /\ \A u \in Threads \ {t}, c \in Channels : sc_lock'[c] = u <=> sc_lock[c] = u
    BY <1>1, <1>3, ReleaseFacts
  <2>3. td_sleeping'[t] = TRUE /\ pc'[t] = "asleep"
    BY <1>1, <1>3 DEF TypeOK, Goto
  <2>4. TypeOK'
    BY <1>1, <1>3, <2>1, <2>2 DEF TypeOK, SignalTypes, Goto
  <2>5. WaitersCounted'
    BY <2>1 DEF IInv, WaitersCounted
  <2>6. Place(t)'
    BY <1>1, <1>3, <2>1, <2>3 DEF ThreadInv, Place, OnSleepq
  <2>7. Queue(t)'
    BY <1>1, <2>1, <2>2, <2>3 DEF ThreadInv, Queue
  <2>8. Timeouts(t)'
    BY <1>1, <1>3, <2>3 DEF ThreadInv, Timeouts
  <2>9. SignalFlags(t)'
    BY <1>1, <1>3 DEF ThreadInv, SignalFlags
  <2>10. \A u \in Threads \ {t} : Same(u)
    BY <1>1, <1>3, <2>1, <2>2 DEF TypeOK, Same, Goto
  <2> QED
    BY <2>4, <2>5, <2>6, <2>7, <2>8, <2>9, <2>10, OneThread DEF ThreadInv
<1> QED
  BY <1>2, <1>3 DEF Switch

(* sleepq_lock() once the sleepable interlock is released. *)
LEMMA RelockStep ==
  ASSUME IInv, NEW t \in Threads, Relock(t)
  PROVE  IInv'
<1> USE SleepQueueAssumption DEF Relock, queues, signals, Goto
<1>1. TypeOK /\ ThreadInv(t)
  BY DEF IInv
<1>2. sleep[t].chan \in Channels
  BY <1>1 DEF ThreadInv, Place
<1>3. TypeOK'
  BY <1>1, <1>2 DEF TypeOK
<1>4. WaitersCounted'
  BY DEF IInv, WaitersCounted
<1>5. pc'[t] = "wait"
  BY <1>1 DEF TypeOK
<1>6. Place(t)' /\ Timeouts(t)' /\ SignalFlags(t)'
  BY <1>1, <1>5 DEF ThreadInv, Place, Timeouts, SignalFlags, OnSleepq
<1>7. Queue(t)'
  BY <1>1, <1>2, <1>5 DEF ThreadInv, Queue, TypeOK
<1>8. \A u \in Threads \ {t} : Same(u)
  BY <1>1, <1>2 DEF TypeOK, Same
<1> QED
  BY <1>3, <1>4, <1>6, <1>7, <1>8, OneThread DEF ThreadInv

(* sleepq_wait() and sleepq_timedwait(). *)
LEMMA WaitStep ==
  ASSUME IInv, NEW t \in Threads, Wait(t)
  PROVE  IInv'
<1>1. SignalTypes'
  BY DEF IInv, TypeOK, SignalTypes, Wait, signals
<1> QED
  BY <1>1, SwitchStep DEF Wait

(* The first part of sleepq_catch_signals(). *)
LEMMA CatchSignalsStep ==
  ASSUME IInv, NEW t \in Threads, CatchSignals(t)
  PROVE  IInv'
<1>1. TypeOK /\ ThreadInv(t) /\ pc[t] = "wait"
  BY DEF IInv, CatchSignals
<1>2. CASE TDP_WAKEUP' = [TDP_WAKEUP EXCEPT ![t] = FALSE] /\ GiveUp(t, "EINTR")
  <2>1. SignalTypes'
    BY <1>1, <1>2 DEF TypeOK, SignalTypes, CatchSignals
  <2>2. "EINTR" \in Results
    BY DEF Results
  <2> QED
    BY <1>1, <1>2, <2>1, <2>2, GiveUpStep DEF CatchSignals
<1>3. CASE Switch(t) /\ UNCHANGED TDP_WAKEUP
  <2>1. SignalTypes'
    BY <1>1, <1>3 DEF TypeOK, SignalTypes, CatchSignals
  <2> QED
    BY <1>1, <1>3, <2>1, SwitchStep DEF CatchSignals
<1>4. CASE /\ Release(t) /\ Goto(t, "sigcheck")
           /\ UNCHANGED <<queues, td_flags, td_sleeping, td_slpcallout, TDP_WAKEUP,
                          sleep, rcatch, rval>>
  <2>1. UNCHANGED <<sq_blocked, td_wchan>> /\ UNCHANGED <<cv_waiters, p_lock, sigpending, woken>>
    BY <1>4 DEF queues, CatchSignals
  <2>2. /\ sc_lock' \in [Channels -> Threads \cup {NoThread}]
        /\ \A c \in Channels : sc_lock'[c] # t
        /\ \A u \in Threads \ {t}, c \in Channels : sc_lock'[c] = u <=> sc_lock[c] = u
    BY <1>1, <1>4, ReleaseFacts
  <2>3. pc'[t] = "sigcheck"
    BY <1>1, <1>4 DEF TypeOK, Goto
  <2>4. TypeOK'
    BY <1>1, <1>4, <2>1, <2>2 DEF TypeOK, Goto
  <2>5. WaitersCounted'
    BY <2>1 DEF IInv, WaitersCounted
  <2>6. Place(t)' /\ Timeouts(t)' /\ SignalFlags(t)'
    BY <1>1, <1>4, <2>1, <2>3 DEF ThreadInv, Place, Timeouts, SignalFlags, OnSleepq
  <2>7. Queue(t)'
    BY <1>1, <2>1, <2>2, <2>3 DEF ThreadInv, Queue
  <2>8. \A u \in Threads \ {t} : Same(u)
    BY <1>1, <1>4, <2>1, <2>2 DEF TypeOK, Same, Goto
  <2> QED
    BY <2>4, <2>5, <2>6, <2>7, <2>8, OneThread DEF ThreadInv
<1> QED
  BY <1>2, <1>3, <1>4 DEF CatchSignals

(* A step after which every thread stands as before, but for its place     *)
(* between the two parts of sleepq_catch_signals().                        *)
LEMMA CheckSignalsStep ==
  ASSUME IInv, NEW t \in Threads, CheckSignals(t)
  PROVE  IInv'
<1> USE DEF CheckSignals, queues, Goto
<1>1. TypeOK /\ ThreadInv(t)
  BY DEF IInv
<1>2. TypeOK'
  BY <1>1 DEF TypeOK, Results
<1>3. WaitersCounted'
  BY DEF IInv, WaitersCounted
<1>4. pc'[t] = "sigret"
  BY <1>1 DEF TypeOK
<1>5. Place(t)' /\ Timeouts(t)' /\ SignalFlags(t)' /\ Queue(t)'
  BY <1>1, <1>4 DEF ThreadInv, Place, Timeouts, SignalFlags, Queue, OnSleepq
<1>6. \A u \in Threads \ {t} : Same(u)
  BY <1>1 DEF TypeOK, Same
<1> QED
  BY <1>2, <1>3, <1>5, <1>6, OneThread DEF ThreadInv

(* The second part of sleepq_catch_signals(). *)
LEMMA CatchReturnStep ==
  ASSUME IInv, NEW t \in Threads, CatchReturn(t)
  PROVE  IInv'
<1>1. SignalTypes' /\ rcatch[t] \in Results
  BY DEF IInv, TypeOK, SignalTypes, CatchReturn
<1> QED
  BY <1>1, SwitchStep, GiveUpStep DEF CatchReturn

(* A thread that was switched away runs again: it is off its queue. *)
LEMMA ResumeStep ==
  ASSUME IInv, NEW t \in Threads, Resume(t)
  PROVE  IInv'
<1>1. TypeOK /\ ThreadInv(t)
  BY DEF IInv
<1>2. /\ pc[t] = "asleep" /\ ~ td_sleeping[t] /\ CheckTimeout(t, td_flags[t], rcatch[t])
      /\ UNCHANGED <<sc_lock, sq_blocked, td_wchan, cv_waiters, woken>> /\ SignalTypes'
  BY <1>1 DEF Resume, queues, signals, TypeOK, SignalTypes
<1>3. td_wchan'[t] = NoChannel
  BY <1>1, <1>2 DEF ThreadInv, Place, OnSleepq
<1>4. td_flags[t] \in SUBSET Flags /\ rcatch[t] \in Results
  BY <1>1 DEF TypeOK
<1>5. /\ LeaveTypes'
      /\ Place(t)' /\ Timeouts(t)' /\ SignalFlags(t)'
      /\ pc'[t] \in {"caller", "sync"}
      /\ \A u \in Threads \ {t} : LeaveSame(u)
  BY <1>2, <1>3, <1>4, LeaveStep
<1>6. TypeOK'
  BY <1>1, <1>2, <1>5 DEF TypeOK, LeaveTypes, SignalTypes
<1>7. WaitersCounted'
  BY <1>2 DEF IInv, WaitersCounted
<1>8. Queue(t)'
  BY <1>1, <1>2, <1>5 DEF ThreadInv, Queue
<1>9. \A u \in Threads \ {t} : Same(u)
  BY <1>2, <1>5 DEF Same, LeaveSame
<1> QED
  BY <1>5, <1>6, <1>7, <1>8, <1>9, OneThread DEF ThreadInv

(* A thread that yielded to its timeout runs again: the timeout is done. *)
LEMMA SyncResumeStep ==
  ASSUME IInv, NEW t \in Threads, SyncResume(t)
  PROVE  IInv'
<1>1. TypeOK /\ ThreadInv(t)
  BY DEF IInv
<1>2. /\ pc[t] = "sync" /\ ~ td_sleeping[t]
      /\ Return(t, td_flags[t], rcatch[t], "0")
      /\ UNCHANGED <<sc_lock, sq_blocked, td_wchan, cv_waiters, td_sleeping,
                     td_slpcallout, woken>> /\ SignalTypes'
  BY <1>1 DEF SyncResume, queues, signals, TypeOK, SignalTypes
<1>3. td_flags[t] \in SUBSET Flags /\ rcatch[t] \in Results /\ "0" \in Results
  BY <1>1 DEF TypeOK, Results
<1>4. td_slpcallout' \in [Threads -> Callouts]
  BY <1>1, <1>2 DEF TypeOK
<1>5. LeaveTypes' /\ \A u \in Threads \ {t} : LeaveSame(u)
  BY <1>1, <1>2, <1>3, <1>4, ReturnTypes
<1>6. /\ pc'[t] = "caller" /\ sleep'[t] = NoSleep
      /\ td_flags'[t] = IF sleep[t].intr THEN td_flags[t] \ {"SINTR", "SLEEPABORT"}
                        ELSE td_flags[t]
  BY <1>1, <1>2 DEF Return, Goto, TypeOK
<1>7. Place(t)'
  BY <1>1, <1>2, <1>6 DEF ThreadInv, Place, OnSleepq, NoSleep
<1>8. Queue(t)'
  BY <1>1, <1>2, <1>6 DEF ThreadInv, Queue
<1>9. Timeouts(t)'
  BY <1>1, <1>2, <1>6 DEF ThreadInv, Timeouts
<1>10. SignalFlags(t)'
  BY <1>1, <1>6 DEF ThreadInv, SignalFlags
<1>11. TypeOK'
  BY <1>1, <1>2, <1>5 DEF TypeOK, LeaveTypes, SignalTypes
<1>12. WaitersCounted'
  BY <1>2 DEF IInv, WaitersCounted
<1>13. \A u \in Threads \ {t} : Same(u)
  BY <1>2, <1>5 DEF Same, LeaveSame
<1> QED
  BY <1>7, <1>8, <1>9, <1>10, <1>11, <1>12, <1>13, OneThread DEF ThreadInv

(* sleepq_resume_thread() by somebody else: the thread is off its queue,   *)
(* awake, and at the same place in its sleep.                              *)
Resumed(u) ==
  /\ td_wchan'[u] = NoChannel
  /\ td_sleeping'[u] = FALSE
  /\ sleep'[u] = sleep[u]
  /\ pc'[u] = pc[u]
  /\ \A c \in Channels :
       /\ u \notin sq_blocked'[c]
       /\ sc_lock'[c] = u <=> sc_lock[c] = u

(* A thread that somebody else took off its queue is in a place that it    *)
(* can leave.                                                              *)
LEMMA ResumedThread ==
  ASSUME NEW u \in Threads, ThreadInv(u), OnSleepq(u), Resumed(u)
  PROVE  Place(u)' /\ Queue(u)'
<1> USE SleepQueueAssumption DEF ThreadInv, Resumed
<1>1. Place(u)'
  BY DEF Place, OnSleepq
<1>2. Queue(u)'
  BY DEF Queue
<1> QED
  BY <1>1, <1>2

(* A wakeup of the threads S of one queue, but for the count of waiters. *)
LEMMA WakeupThreads ==
  ASSUME IInv, NEW c \in Channels, NEW S \in SUBSET sq_blocked[c], Wakeup(S),
         cv_waiters' \in [Condvars -> 0 .. CV_WAITERS_BOUND],
         UNCHANGED <<sc_lock, td_slpcallout, signals, sleep, rcatch, rval, pc>>
  PROVE  /\ TypeOK'
         /\ \A u \in Threads : ThreadInv(u)'
         /\ \A d \in Channels : sq_blocked'[d] = sq_blocked[d] \ S
<1>1. TypeOK /\ \A u \in Threads : ThreadInv(u)
  BY DEF IInv
<1>2. S \in SUBSET Threads
  BY <1>1 DEF TypeOK
<1>3. Dequeue(S)
  BY DEF Wakeup
<1>4. /\ sq_blocked' \in [Channels -> SUBSET Threads]
      /\ td_wchan' \in [Threads -> Channels \cup {NoChannel}]
      /\ \A u \in S : /\ td_wchan'[u] = NoChannel
                      /\ \A d \in Channels : u \notin sq_blocked'[d]
      /\ \A u \in Threads \ S :
           /\ td_wchan'[u] = td_wchan[u]
           /\ \A d \in Channels : u \in sq_blocked'[d] <=> u \in sq_blocked[d]
  BY <1>1, <1>2, <1>3, DequeueFacts
<1>5. /\ td_flags' \in [Threads -> SUBSET Flags]
      /\ td_sleeping' \in [Threads -> BOOLEAN]
      /\ woken' \in [Threads -> BOOLEAN]
  BY <1>1 DEF TypeOK, Wakeup
<1>6. TypeOK'
  BY <1>1, <1>4, <1>5 DEF TypeOK, signals
<1>7. ASSUME NEW u \in Threads PROVE ThreadInv(u)'
  <2>1. CASE u \in S
    <3>1. u \in sq_blocked[c] /\ td_wchan[u] = c /\ OnSleepq(u)
      BY <1>1, <2>1, SleepQueueAssumption DEF ThreadInv, Queue, OnSleepq
    <3>2. td_sleeping'[u] = FALSE /\ td_flags'[u] = td_flags[u] \ {"SINTR"}
      BY <2>1 DEF Wakeup
    <3>3. Resumed(u)
      BY <1>4, <2>1, <3>2 DEF Resumed
    <3>4. Place(u)' /\ Queue(u)'
      BY <1>1, <3>1, <3>3, ResumedThread
    <3>5. pc[u] # "sync"
      BY <1>1, <3>1 DEF ThreadInv, Place
    <3>6. Timeouts(u)'
      BY <1>1, <3>2, <3>5 DEF ThreadInv, Timeouts
    <3>7. SignalFlags(u)'
      BY <1>1, <3>2 DEF ThreadInv, SignalFlags
    <3> QED
      BY <3>4, <3>6, <3>7 DEF ThreadInv
  <2>2. CASE u \notin S
    <3>1. td_sleeping'[u] = td_sleeping[u] /\ td_flags'[u] = td_flags[u]
      BY <1>1, <2>2 DEF Wakeup, TypeOK
    <3>2. Same(u)
      BY <1>4, <2>2, <3>1 DEF Same
    <3> QED
      BY <1>1, <3>2, SameThread
  <2> QED
    BY <2>1, <2>2
<1>8. \A d \in Channels : sq_blocked'[d] = sq_blocked[d] \ S
  BY <1>3 DEF Dequeue
<1> QED
  BY <1>6, <1>7, <1>8

(* cv_broadcastpri(): the queue is empty afterwards. *)
LEMMA CvBroadcastStep ==
  ASSUME IInv, NEW c \in Condvars, CvBroadcast(c)
  PROVE  IInv'
<1>1. TypeOK /\ WaitersCounted /\ c \in Channels
  BY SleepQueueAssumption DEF IInv
<1>2. cv_waiters' \in [Condvars -> 0 .. CV_WAITERS_BOUND]
  BY <1>1, SleepQueueAssumption DEF TypeOK, CvBroadcast
<1>3. /\ TypeOK'
      /\ \A u \in Threads : ThreadInv(u)'
      /\ \A d \in Channels : sq_blocked'[d] = sq_blocked[d] \ sq_blocked[c]
  BY <1>1, <1>2, WakeupThreads DEF CvBroadcast
<1>4. ASSUME NEW d \in Condvars
      PROVE  \/ cv_waiters'[d] = CV_WAITERS_BOUND
             \/ Cardinality(sq_blocked'[d]) <= cv_waiters'[d]
  <2>1. CASE d = c
    <3>1. sq_blocked'[d] = {}
      BY <1>1, <1>3, <2>1
    <3>2. cv_waiters'[d] = 0
      BY <1>1, <2>1 DEF CvBroadcast, TypeOK
    <3> QED
      BY <3>1, <3>2, FS_EmptySet
  <2>2. CASE d # c
    <3>1. cv_waiters'[d] = cv_waiters[d]
      BY <1>1, <2>2 DEF CvBroadcast, TypeOK
    <3>2. d \in Channels
      BY SleepQueueAssumption
    <3>3. sq_blocked[d] \cap sq_blocked[c] = {}
      BY <1>1, <2>2, <3>2 DEF IInv, ThreadInv, Queue, TypeOK
    <3>4. sq_blocked'[d] = sq_blocked[d]
      BY <1>3, <3>2, <3>3
    <3> QED
      BY <1>1, <3>1, <3>4 DEF WaitersCounted
  <2> QED
    BY <2>1, <2>2
<1> QED
  BY <1>3, <1>4 DEF IInv, WaitersCounted

(* wakeup() and wakeup_one() on a channel nobody counts. *)
LEMMA WakeupIdentStep ==
  ASSUME IInv, NEW c \in Channels \ Condvars, WakeupIdent(c)
  PROVE  IInv'
<1>1. TypeOK /\ WaitersCounted
  BY DEF IInv
<1>2. cv_waiters' = cv_waiters /\ cv_waiters' \in [Condvars -> 0 .. CV_WAITERS_BOUND]
  BY <1>1 DEF TypeOK, WakeupIdent
<1>3. ASSUME NEW S \in SUBSET sq_blocked[c], Wakeup(S) PROVE IInv'
  <2>1. /\ TypeOK'
        /\ \A u \in Threads : ThreadInv(u)'
        /\ \A d \in Channels : sq_blocked'[d] = sq_blocked[d] \ S
    BY <1>2, <1>3, WakeupThreads DEF WakeupIdent
  <2>2. WaitersCounted'
    BY <1>1, <1>2, <2>1, FewerWaiters
  <2> QED
    BY <2>1, <2>2 DEF IInv
<1>4. CASE UNCHANGED <<queues, td_flags, td_sleeping, woken>>
  <2>1. \A u \in Threads : Same(u)
    BY <1>4 DEF WakeupIdent, Same, queues
  <2>2. \A u \in Threads : ThreadInv(u)'
    BY <2>1, SameThread DEF IInv
  <2>3. TypeOK'
    BY <1>1, <1>4 DEF WakeupIdent, TypeOK, queues, signals
  <2>4. WaitersCounted'
    BY <1>1, <1>2, <1>4 DEF WaitersCounted, queues
  <2> QED
    BY <2>2, <2>3, <2>4 DEF IInv
<1>5. CASE Wakeup(sq_blocked[c])
  BY <1>3, <1>5
<1>6. CASE \E t \in sq_blocked[c] : Wakeup({t})
  <2>1. PICK t \in sq_blocked[c] : Wakeup({t})
    BY <1>6
  <2>2. {t} \in SUBSET sq_blocked[c]
    OBVIOUS
  <2> QED
    BY <1>3, <2>1, <2>2
<1> QED
  BY <1>4, <1>5, <1>6 DEF WakeupIdent, SignalOne

(* cv_signal(): one thread less on the queue, and one less in the count,   *)
(* unless the count sticks at its bound.                                   *)
LEMMA CvSignalStep ==
  ASSUME IInv, NEW c \in Condvars, CvSignal(c)
  PROVE  IInv'
<1> DEFINE n == IF cv_waiters[c] < CV_WAITERS_BOUND THEN cv_waiters[c] - 1
                ELSE cv_waiters[c]
<1>1. TypeOK /\ WaitersCounted /\ c \in Channels
  BY SleepQueueAssumption DEF IInv
<1>2. /\ cv_waiters[c] \in Nat /\ cv_waiters[c] > 0 /\ cv_waiters[c] <= CV_WAITERS_BOUND
      /\ CV_WAITERS_BOUND \in Nat /\ \A d \in Condvars : d \in Channels
      /\ UNCHANGED <<sc_lock, td_slpcallout, signals, sleep, rcatch, rval, pc>>
  BY <1>1, SleepQueueAssumption DEF TypeOK, CvSignal
<1>3. ASSUME NEW m \in 0 .. CV_WAITERS_BOUND,
             cv_waiters' = [cv_waiters EXCEPT ![c] = m],
             sq_blocked[c] = {},
             UNCHANGED <<queues, td_flags, td_sleeping, woken>>
      PROVE  IInv'
  <2>1. \A u \in Threads : Same(u)
    BY <1>2, <1>3 DEF Same, queues
  <2>2. \A u \in Threads : ThreadInv(u)'
    BY <2>1, SameThread DEF IInv
  <2>3. TypeOK'
    BY <1>1, <1>2, <1>3 DEF TypeOK, queues, signals
  <2>4. Cardinality(sq_blocked[c]) = 0
    BY <1>3, FS_EmptySet
  <2>5. WaitersCounted'
    <3> SUFFICES ASSUME NEW d \in Condvars
                 PROVE  \/ cv_waiters'[d] = CV_WAITERS_BOUND
                        \/ Cardinality(sq_blocked'[d]) <= cv_waiters'[d]
      BY DEF WaitersCounted
    <3>1. sq_blocked' = sq_blocked
      BY <1>3 DEF queues
    <3>2. CASE d = c
      <4>1. cv_waiters'[d] = m
        BY <1>1, <1>3, <3>2 DEF TypeOK
      <4> QED
        BY <2>4, <3>1, <3>2, <4>1
    <3>3. CASE d # c
      <4>1. cv_waiters'[d] = cv_waiters[d]
        BY <1>1, <1>3, <3>3 DEF TypeOK
      <4> QED
        BY <1>1, <3>1, <4>1 DEF WaitersCounted
    <3> QED
      BY <3>2, <3>3
  <2> QED
    BY <2>2, <2>3, <2>5 DEF IInv
<1>4. CASE /\ sq_blocked[c] = {}
           /\ cv_waiters' = [cv_waiters EXCEPT ![c] = 0]
           /\ UNCHANGED <<queues, td_flags, td_sleeping, woken>>
  <2>1. 0 \in 0 .. CV_WAITERS_BOUND
    BY <1>2
  <2> QED
    BY <1>3, <1>4, <2>1
<1>5. n \in 0 .. CV_WAITERS_BOUND
  BY <1>2
<1>6. CASE /\ cv_waiters' = [cv_waiters EXCEPT ![c] = n]
           /\ sq_blocked[c] = {} /\ UNCHANGED <<queues, td_flags, td_sleeping, woken>>
  <2> HIDE DEF n
  <2> QED
    BY <1>3, <1>5, <1>6
<1>7. ASSUME cv_waiters' = [cv_waiters EXCEPT ![c] = n],
             NEW t \in sq_blocked[c], Wakeup({t})
      PROVE  IInv'
  <2>1. {t} \in SUBSET sq_blocked[c]
    OBVIOUS
  <2>2. cv_waiters' \in [Condvars -> 0 .. CV_WAITERS_BOUND]
    BY <1>1, <1>5, <1>7 DEF TypeOK
  <2>3. /\ TypeOK'
        /\ \A u \in Threads : ThreadInv(u)'
        /\ \A d \in Channels : sq_blocked'[d] = sq_blocked[d] \ {t}
    BY <1>1, <1>2, <1>7, <2>1, <2>2, WakeupThreads
  <2>4. ASSUME NEW d \in Condvars
        PROVE  \/ cv_waiters'[d] = CV_WAITERS_BOUND
               \/ Cardinality(sq_blocked'[d]) <= cv_waiters'[d]
    <3>1. CASE d = c
      <4>1. IsFiniteSet(sq_blocked[c])
        BY <1>1, FS_Subset, SleepQueueAssumption DEF TypeOK
      <4>2. /\ Cardinality(sq_blocked[c] \ {t}) = Cardinality(sq_blocked[c]) - 1
            /\ Cardinality(sq_blocked[c]) \in Nat
        BY <4>1, FS_RemoveElement, FS_CardinalityType
      <4>3. cv_waiters'[d] = n /\ sq_blocked'[d] = sq_blocked[c] \ {t}
        BY <1>1, <1>7, <2>3, <3>1 DEF TypeOK
      <4>4. \/ cv_waiters[c] = CV_WAITERS_BOUND
            \/ Cardinality(sq_blocked[c]) <= cv_waiters[c]
        BY <1>1 DEF WaitersCounted
      <4> QED
        BY <1>2, <4>2, <4>3, <4>4
    <3>2. CASE d # c
      <4>1. cv_waiters'[d] = cv_waiters[d]
        BY <1>1, <1>7, <3>2 DEF TypeOK
      <4>2. t \notin sq_blocked[d]
        BY <1>1, <1>2, <3>2 DEF IInv, ThreadInv, Queue, TypeOK
      <4>3. sq_blocked'[d] = sq_blocked[d]
        BY <1>2, <2>3, <4>2
      <4> QED
        BY <1>1, <4>1, <4>3 DEF WaitersCounted
    <3> QED
      BY <3>1, <3>2
  <2> QED
    BY <2>3, <2>4 DEF IInv, WaitersCounted
<1> QED
  BY <1>4, <1>6, <1>7 DEF CvSignal, SignalOne

(* The variables that only the thread itself changes, and a step for the   *)
(* thread t by somebody else.                                              *)
ForThread(t) ==
  /\ UNCHANGED <<sc_lock, cv_waiters, sleep, rcatch, rval, woken, pc>>
  /\ SignalTypes'
  /\ td_sleeping' \in [Threads -> BOOLEAN]
  /\ td_flags' \in [Threads -> SUBSET Flags]
  /\ td_slpcallout' \in [Threads -> Callouts]
  /\ \A u \in Threads \ {t} :
       /\ td_sleeping'[u] = td_sleeping[u]
       /\ td_flags'[u] = td_flags[u]
       /\ td_slpcallout'[u] = td_slpcallout[u]

(* Somebody else takes a thread off its queue. *)
LEMMA ResumeByOther ==
  ASSUME IInv, NEW t \in Threads, OnSleepq(t), Dequeue({t}),
         td_sleeping'[t] = FALSE, ForThread(t), Timeouts(t)', SignalFlags(t)'
  PROVE  IInv'
<1>1. TypeOK /\ WaitersCounted /\ ThreadInv(t)
  BY DEF IInv
<1>2. /\ sq_blocked' \in [Channels -> SUBSET Threads]
      /\ td_wchan' \in [Threads -> Channels \cup {NoChannel}]
      /\ \A c \in Channels : sq_blocked'[c] \subseteq sq_blocked[c]
      /\ td_wchan'[t] = NoChannel
      /\ \A c \in Channels : t \notin sq_blocked'[c]
      /\ \A u \in Threads \ {t} :
           /\ td_wchan'[u] = td_wchan[u]
           /\ \A c \in Channels : u \in sq_blocked'[c] <=> u \in sq_blocked[c]
  BY <1>1, DequeueFacts
<1>3. Place(t)' /\ Queue(t)'
  <2>1. Resumed(t)
    BY <1>2 DEF Resumed, ForThread
  <2> QED
    BY <1>1, <2>1, ResumedThread
<1>4. TypeOK'
  BY <1>1, <1>2 DEF TypeOK, ForThread, SignalTypes
<1>5. WaitersCounted'
  BY <1>1, <1>2, FewerWaiters DEF ForThread
<1>6. \A u \in Threads \ {t} : Same(u)
  BY <1>2 DEF Same, ForThread
<1> QED
  BY <1>3, <1>4, <1>5, <1>6, OneThread DEF ThreadInv

(* Somebody else changes a thread's flags or callout and leaves the queues *)
(* alone.                                                                  *)
LEMMA FlagsByOther ==
  ASSUME IInv, NEW t \in Threads, UNCHANGED queues, ForThread(t),
         Place(t)', Timeouts(t)', SignalFlags(t)'
  PROVE  IInv'
<1>1. TypeOK /\ WaitersCounted /\ ThreadInv(t) /\ UNCHANGED <<sq_blocked, td_wchan>>
  BY DEF IInv, queues
<1>2. Queue(t)'
  BY <1>1 DEF ThreadInv, Queue, ForThread
<1>3. TypeOK'
  BY <1>1 DEF TypeOK, ForThread, SignalTypes
<1>4. WaitersCounted'
  BY <1>1 DEF WaitersCounted, ForThread
<1>5. \A u \in Threads \ {t} : Same(u)
  BY <1>1 DEF Same, ForThread
<1> QED
  BY <1>2, <1>3, <1>4, <1>5, OneThread DEF ThreadInv

(* sleepq_remove(). *)
LEMMA SleepqRemoveStep ==
  ASSUME IInv, NEW t \in Threads, SleepqRemove(t)
  PROVE  IInv'
<1>1. TypeOK /\ ThreadInv(t)
  BY DEF IInv
<1>2. /\ OnSleepq(t) /\ Dequeue({t})
      /\ td_flags' = [td_flags EXCEPT ![t] = td_flags[t] \ {"SINTR"}]
      /\ td_sleeping' = [td_sleeping EXCEPT ![t] = FALSE]
      /\ UNCHANGED <<sc_lock, cv_waiters, td_slpcallout, signals, sleep, rcatch,
                     rval, woken, pc>>
  BY DEF SleepqRemove, ResumeThread
<1>3. ForThread(t)
  BY <1>1, <1>2 DEF ForThread, TypeOK, signals, SignalTypes
<1>4. td_flags'[t] = td_flags[t] \ {"SINTR"} /\ td_sleeping'[t] = FALSE
  BY <1>1, <1>2 DEF TypeOK
<1>5. pc[t] # "sync"
  BY <1>1, <1>2 DEF ThreadInv, Place
<1>6. Timeouts(t)' /\ SignalFlags(t)'
  BY <1>1, <1>2, <1>4, <1>5 DEF ThreadInv, Timeouts, SignalFlags
<1> QED
  BY <1>2, <1>3, <1>4, <1>6, ResumeByOther

(* An expired callout begins to run: it was armed, so no flag of an        *)
(* earlier timeout is left.                                                *)
LEMMA CalloutFireStep ==
  ASSUME IInv, NEW t \in Threads, CalloutFire(t)
  PROVE  IInv'
<1>1. TypeOK /\ ThreadInv(t) /\ td_slpcallout[t] \in Callouts
  BY DEF IInv, TypeOK
<1>2. /\ td_slpcallout[t].pending /\ UNCHANGED queues
      /\ UNCHANGED <<sc_lock, cv_waiters, td_sleeping, td_flags, signals,
                     sleep, rcatch, rval, woken, pc>>
  BY DEF CalloutFire
<1> DEFINE k == [td_slpcallout[t] EXCEPT !.pending = FALSE, !.exec = "entered"]
<1>3. k \in Callouts /\ k.pending = FALSE /\ k.exec = "entered"
  BY <1>1 DEF Callouts
<1>4. td_slpcallout' = [td_slpcallout EXCEPT ![t] = k]
  BY <1>1 DEF CalloutFire, TypeOK
<1> HIDE DEF k
<1>5. ForThread(t)
  BY <1>1, <1>2, <1>3, <1>4 DEF ForThread, TypeOK, signals, SignalTypes
<1>6. td_slpcallout'[t] = k
  BY <1>1, <1>4 DEF TypeOK
<1>7. Place(t)' /\ SignalFlags(t)'
  BY <1>1, <1>2 DEF ThreadInv, Place, SignalFlags, OnSleepq, queues
<1>8. Timeouts(t)'
  BY <1>1, <1>2, <1>3, <1>6 DEF ThreadInv, Timeouts
<1> QED
  BY <1>2, <1>5, <1>7, <1>8, FlagsByOther

(* The CPU that ran the callout is done with it. *)
LEMMA CalloutDoneStep ==
  ASSUME IInv, NEW t \in Threads, CalloutDone(t)
  PROVE  IInv'
<1>1. TypeOK /\ ThreadInv(t) /\ td_slpcallout[t] \in Callouts
  BY DEF IInv, TypeOK
<1>2. /\ td_slpcallout[t].exec = "left" /\ UNCHANGED queues
      /\ UNCHANGED <<sc_lock, cv_waiters, td_sleeping, td_flags, signals,
                     sleep, rcatch, rval, woken, pc>>
  BY DEF CalloutDone
<1> DEFINE k == [td_slpcallout[t] EXCEPT !.exec = "none", !.migrating = FALSE]
<1>3. k \in Callouts /\ k.pending = td_slpcallout[t].pending /\ k.exec = "none"
  BY <1>1 DEF Callouts
<1>4. td_slpcallout' = [td_slpcallout EXCEPT ![t] = k]
  BY <1>1 DEF CalloutDone, TypeOK
<1> HIDE DEF k
<1>5. ForThread(t)
  BY <1>1, <1>2, <1>3, <1>4 DEF ForThread, TypeOK, signals, SignalTypes
<1>6. td_slpcallout'[t] = k
  BY <1>1, <1>4 DEF TypeOK
<1>7. Place(t)' /\ SignalFlags(t)'
  BY <1>1, <1>2 DEF ThreadInv, Place, SignalFlags, OnSleepq, queues
<1>8. Timeouts(t)'
  BY <1>1, <1>2, <1>3, <1>6 DEF ThreadInv, Timeouts
<1> QED
  BY <1>2, <1>5, <1>7, <1>8, FlagsByOther

(* sleepq_timeout().  If the thread is on its queue, TDF_TIMEOUT is not    *)
(* set yet; if it is off the queue with TDF_TIMEOUT set, it has yielded.   *)
LEMMA SleepqTimeoutStep ==
  ASSUME IInv, NEW t \in Threads, SleepqTimeout(t)
  PROVE  IInv'
<1>1. TypeOK /\ ThreadInv(t) /\ td_slpcallout[t] \in Callouts
  BY DEF IInv, TypeOK
<1>2. /\ td_slpcallout[t].exec = "entered"
      /\ UNCHANGED <<sc_lock, cv_waiters, signals, sleep, rcatch, rval, woken, pc>>
  BY DEF SleepqTimeout
<1>3. /\ ~ td_slpcallout[t].pending /\ "TIMOFAIL" \notin td_flags[t]
      /\ sleep[t].timed
      /\ "TIMEOUT" \in td_flags[t] => pc[t] = "sync" /\ td_sleeping[t]
      /\ pc[t] = "sync" => "TIMEOUT" \in td_flags[t]
  BY <1>1, <1>2 DEF ThreadInv, Timeouts
<1> DEFINE k == [td_slpcallout[t] EXCEPT !.exec = "left"]
<1>4. k \in Callouts /\ k.pending = td_slpcallout[t].pending /\ k.exec = "left"
  BY <1>1 DEF Callouts
<1>5. td_slpcallout' = [td_slpcallout EXCEPT ![t] = k]
  BY <1>1 DEF SleepqTimeout, TypeOK
<1> HIDE DEF k
<1>6. /\ td_slpcallout' \in [Threads -> Callouts] /\ td_slpcallout'[t] = k
      /\ \A u \in Threads \ {t} : td_slpcallout'[u] = td_slpcallout[u]
  BY <1>1, <1>4, <1>5 DEF TypeOK
<1>7. CASE OnSleepq(t) /\ td_sleeping[t] /\ ResumeThread(t, td_flags[t] \cup {"TIMEOUT"})
  <2>1. /\ td_flags' = [td_flags EXCEPT ![t] = (td_flags[t] \cup {"TIMEOUT"}) \ {"SINTR"}]
        /\ td_sleeping' = [td_sleeping EXCEPT ![t] = FALSE] /\ Dequeue({t})
    BY <1>7 DEF ResumeThread
  <2>2. ForThread(t)
    BY <1>1, <1>2, <1>6, <2>1 DEF ForThread, TypeOK, signals, SignalTypes, Flags
  <2>3. td_flags'[t] = (td_flags[t] \cup {"TIMEOUT"}) \ {"SINTR"} /\ td_sleeping'[t] = FALSE
    BY <1>1, <2>1 DEF TypeOK
  <2>4. pc[t] # "sync"
    BY <1>1, <1>7 DEF ThreadInv, Place
  <2>5. Timeouts(t)'
    BY <1>2, <1>3, <1>4, <1>6, <2>3, <2>4 DEF Timeouts
  <2>6. SignalFlags(t)'
    BY <1>1, <1>2, <2>3 DEF ThreadInv, SignalFlags
  <2> QED
    BY <1>7, <2>1, <2>2, <2>3, <2>5, <2>6, ResumeByOther
<1>8. CASE /\ OnSleepq(t) /\ ~ td_sleeping[t]
           /\ td_flags' = [td_flags EXCEPT ![t] = td_flags[t] \cup {"TIMEOUT"}]
           /\ UNCHANGED <<queues, td_sleeping>>
  <2>1. ForThread(t)
    BY <1>1, <1>2, <1>6, <1>8 DEF ForThread, TypeOK, signals, SignalTypes, Flags
  <2>2. td_flags'[t] = td_flags[t] \cup {"TIMEOUT"}
    BY <1>1, <1>8 DEF TypeOK
  <2>3. pc[t] # "sync"
    BY <1>1, <1>8 DEF ThreadInv, Place
  <2>4. Timeouts(t)'
    BY <1>2, <1>3, <1>4, <1>6, <2>2, <2>3 DEF Timeouts
  <2>5. SignalFlags(t)' /\ Place(t)'
    BY <1>1, <1>2, <1>8, <2>2 DEF ThreadInv, SignalFlags, Place, OnSleepq, queues
  <2> QED
    BY <1>8, <2>1, <2>4, <2>5, FlagsByOther
<1>9. CASE /\ ~ OnSleepq(t) /\ "TIMEOUT" \in td_flags[t]
           /\ td_flags' = [td_flags EXCEPT ![t] = td_flags[t] \ {"TIMEOUT"}]
           /\ td_sleeping' = [td_sleeping EXCEPT ![t] = FALSE]
           /\ UNCHANGED queues
  <2>1. ForThread(t)
    BY <1>1, <1>2, <1>6, <1>9 DEF ForThread, TypeOK, signals, SignalTypes
  <2>2. td_flags'[t] = td_flags[t] \ {"TIMEOUT"} /\ td_sleeping'[t] = FALSE
    BY <1>1, <1>9 DEF TypeOK
  <2>3. pc[t] = "sync"
    BY <1>3, <1>9
  <2>4. Timeouts(t)'
    BY <1>2, <1>3, <1>4, <1>6, <2>2, <2>3 DEF Timeouts
  <2>5. SignalFlags(t)' /\ Place(t)'
    BY <1>1, <1>2, <1>9, <2>2, <2>3 DEF ThreadInv, SignalFlags, Place, OnSleepq, queues
  <2> QED
    BY <1>9, <2>1, <2>4, <2>5, FlagsByOther
<1>10. CASE /\ ~ OnSleepq(t) /\ "TIMEOUT" \notin td_flags[t]
            /\ td_flags' = [td_flags EXCEPT ![t] = td_flags[t] \cup {"TIMOFAIL"}]
            /\ UNCHANGED <<queues, td_sleeping>>
  <2>1. ForThread(t)
    BY <1>1, <1>2, <1>6, <1>10 DEF ForThread, TypeOK, signals, SignalTypes, Flags
  <2>2. td_flags'[t] = td_flags[t] \cup {"TIMOFAIL"}
    BY <1>1, <1>10 DEF TypeOK
  <2>3. pc[t] # "sync"
    BY <1>3, <1>10
  <2>4. Timeouts(t)'
    BY <1>2, <1>3, <1>4, <1>6, <1>10, <2>2, <2>3 DEF Timeouts
  <2>5. SignalFlags(t)' /\ Place(t)'
    BY <1>1, <1>2, <1>10, <2>2 DEF ThreadInv, SignalFlags, Place, OnSleepq, queues
  <2> QED
    BY <1>10, <2>1, <2>4, <2>5, FlagsByOther
<1> QED
  BY <1>7, <1>8, <1>9, <1>10 DEF SleepqTimeout

(* A signal, or a request to suspend, is posted. *)
LEMMA PostSignalStep ==
  ASSUME IInv, NEW t \in Threads, PostSignal(t)
  PROVE  IInv'
<1>1. TypeOK /\ ThreadInv(t)
  BY DEF IInv
<1>2. /\ td_flags' = [td_flags EXCEPT ![t] = td_flags[t] \cup {"NEEDSIGCHK"}]
      /\ UNCHANGED queues
      /\ UNCHANGED <<sc_lock, cv_waiters, td_sleeping, td_slpcallout,
                     TDP_WAKEUP, sleep, rcatch, rval, woken, pc>>
  BY DEF PostSignal
<1>3. SignalTypes'
  BY <1>1 DEF PostSignal, SignalTypes, TypeOK
<1>4. ForThread(t)
  BY <1>1, <1>2, <1>3 DEF ForThread, TypeOK, Flags
<1>5. td_flags'[t] = td_flags[t] \cup {"NEEDSIGCHK"}
  BY <1>1, <1>2 DEF TypeOK
<1>6. Place(t)' /\ SignalFlags(t)'
  BY <1>1, <1>2, <1>5 DEF ThreadInv, Place, SignalFlags, OnSleepq, queues
<1>7. Timeouts(t)'
  BY <1>1, <1>2, <1>5 DEF ThreadInv, Timeouts
<1> QED
  BY <1>2, <1>4, <1>6, <1>7, FlagsByOther

(* tdsigwakeup(): a sleep is aborted only if TDF_SINTR says that it is     *)
(* interruptible.                                                          *)
LEMMA SignalWakeupStep ==
  ASSUME IInv, NEW t \in Threads, SignalWakeup(t)
  PROVE  IInv'
<1>1. TypeOK /\ ThreadInv(t)
  BY DEF IInv
<1>2. UNCHANGED <<sc_lock, cv_waiters, td_slpcallout, sleep, rcatch, rval, woken, pc>>
  BY DEF SignalWakeup
<1>3. SignalTypes'
  BY <1>1 DEF SignalWakeup, SignalTypes, TypeOK
<1>4. CASE /\ OnSleepq(t) /\ "SINTR" \in td_flags[t]
           /\ ResumeThread(t, td_flags[t] \cup {"SLEEPABORT"})
  <2>1. /\ td_flags' = [td_flags EXCEPT ![t] = (td_flags[t] \cup {"SLEEPABORT"}) \ {"SINTR"}]
        /\ td_sleeping' = [td_sleeping EXCEPT ![t] = FALSE] /\ Dequeue({t})
    BY <1>4 DEF ResumeThread
  <2>2. ForThread(t)
    BY <1>1, <1>2, <1>3, <2>1 DEF ForThread, TypeOK, Flags
  <2>3. td_flags'[t] = (td_flags[t] \cup {"SLEEPABORT"}) \ {"SINTR"} /\ td_sleeping'[t] = FALSE
    BY <1>1, <2>1 DEF TypeOK
  <2>4. pc[t] # "sync"
    BY <1>1, <1>4 DEF ThreadInv, Place
  <2>5. Timeouts(t)'
    BY <1>1, <1>2, <2>3, <2>4 DEF ThreadInv, Timeouts
  <2>6. SignalFlags(t)'
    BY <1>1, <1>2, <1>4, <2>3 DEF ThreadInv, SignalFlags
  <2> QED
    BY <1>4, <2>1, <2>2, <2>3, <2>5, <2>6, ResumeByOther
<1>5. CASE /\ "SINTR" \in td_flags[t]
           /\ td_flags' = [td_flags EXCEPT ![t] = td_flags[t] \cup {"SLEEPABORT"}]
           /\ UNCHANGED <<queues, td_sleeping>>
  <2>1. ForThread(t)
    BY <1>1, <1>2, <1>3, <1>5 DEF ForThread, TypeOK, Flags
  <2>2. td_flags'[t] = td_flags[t] \cup {"SLEEPABORT"}
    BY <1>1, <1>5 DEF TypeOK
  <2>3. Place(t)' /\ SignalFlags(t)'
    BY <1>1, <1>2, <1>5, <2>2 DEF ThreadInv, Place, SignalFlags, OnSleepq, queues
  <2>4. Timeouts(t)'
    BY <1>1, <1>2, <1>5, <2>2 DEF ThreadInv, Timeouts
  <2> QED
    BY <1>5, <2>1, <2>3, <2>4, FlagsByOther
<1>6. CASE UNCHANGED <<queues, td_flags, td_sleeping>>
  <2>1. ForThread(t)
    BY <1>1, <1>2, <1>3, <1>6 DEF ForThread, TypeOK
  <2>2. Place(t)' /\ SignalFlags(t)' /\ Timeouts(t)'
    BY <1>1, <1>2, <1>6 DEF ThreadInv, Place, SignalFlags, Timeouts, OnSleepq, queues
  <2> QED
    BY <1>6, <2>1, <2>2, FlagsByOther
<1> QED
  BY <1>4, <1>5, <1>6 DEF SignalWakeup

(* ast() clears TDF_NEEDSIGCHK of a thread that does not sleep. *)
LEMMA AstStep ==
  ASSUME IInv, NEW t \in Threads, Ast(t)
  PROVE  IInv'
<1>1. TypeOK /\ ThreadInv(t)
  BY DEF IInv
<1>2. /\ td_flags' = [td_flags EXCEPT ![t] = td_flags[t] \ {"NEEDSIGCHK"}]
      /\ UNCHANGED queues
      /\ UNCHANGED <<sc_lock, cv_waiters, td_sleeping, td_slpcallout,
                     TDP_WAKEUP, sleep, rcatch, rval, woken, pc>>
  BY DEF Ast
<1>3. SignalTypes'
  BY <1>1 DEF Ast, SignalTypes, TypeOK
<1>4. ForThread(t)
  BY <1>1, <1>2, <1>3 DEF ForThread, TypeOK, Flags
<1>5. td_flags'[t] = td_flags[t] \ {"NEEDSIGCHK"}
  BY <1>1, <1>2 DEF TypeOK
<1>6. Place(t)' /\ SignalFlags(t)'
  BY <1>1, <1>2, <1>5 DEF ThreadInv, Place, SignalFlags, OnSleepq, queues
<1>7. Timeouts(t)'
  BY <1>1, <1>2, <1>5 DEF ThreadInv, Timeouts
<1> QED
  BY <1>2, <1>4, <1>6, <1>7, FlagsByOther

(* thr_wake() only sets a bit of the caller's td_pflags. *)
LEMMA ThrWakeStep ==
  ASSUME IInv, NEW t \in Threads, ThrWake(t)
  PROVE  IInv'
<1>1. TypeOK /\ ThreadInv(t)
  BY DEF IInv
<1>2. /\ UNCHANGED queues
      /\ UNCHANGED <<sc_lock, cv_waiters, td_sleeping, td_flags, td_slpcallout,
                     sleep, rcatch, rval, woken, pc>>
  BY DEF ThrWake
<1>3. ForThread(t)
  BY <1>1, <1>2 DEF ForThread, TypeOK, ThrWake, SignalTypes
<1>4. Place(t)' /\ SignalFlags(t)' /\ Timeouts(t)'
  BY <1>1, <1>2 DEF ThreadInv, Place, SignalFlags, Timeouts, OnSleepq, queues
<1> QED
  BY <1>2, <1>3, <1>4, FlagsByOther

(* Every step of the specification preserves the invariant. *)
LEMMA StepOK == IInv /\ [Next]_vars => IInv'
<1> SUFFICES ASSUME IInv, [Next]_vars PROVE IInv'
  OBVIOUS
<1>1. CASE UNCHANGED vars
  <2>1. \A u \in Threads : Same(u)
    BY <1>1 DEF vars, queues, Same
  <2>2. \A u \in Threads : ThreadInv(u)'
    BY <2>1, SameThread DEF IInv
  <2>3. TypeOK' /\ WaitersCounted'
    BY <1>1 DEF vars, queues, signals, IInv, TypeOK, WaitersCounted
  <2> QED
    BY <2>2, <2>3 DEF IInv
<1>2. ASSUME NEW t \in Threads, NEW c \in Channels, NEW timed \in BOOLEAN,
             NEW intr \in BOOLEAN, Sleep(t, c, timed, intr)
      PROVE  IInv'
  BY <1>2, SleepStep
<1>3. ASSUME NEW t \in Threads, Inside(t) PROVE IInv'
  BY <1>3, RelockStep, WaitStep, CatchSignalsStep, CheckSignalsStep,
     CatchReturnStep, ResumeStep, SyncResumeStep DEF Inside
<1>4. ASSUME NEW t \in Threads, Timer(t) PROVE IInv'
  BY <1>4, CalloutFireStep, SleepqTimeoutStep, CalloutDoneStep DEF Timer
<1>5. ASSUME NEW t \in Threads,
             SleepqRemove(t) \/ PostSignal(t) \/ SignalWakeup(t) \/ Ast(t) \/ ThrWake(t)
      PROVE  IInv'
  BY <1>5, SleepqRemoveStep, PostSignalStep, SignalWakeupStep, AstStep, ThrWakeStep
<1>6. ASSUME NEW c \in Condvars, CvSignal(c) \/ CvBroadcast(c) PROVE IInv'
  BY <1>6, CvSignalStep, CvBroadcastStep
<1>7. ASSUME NEW c \in Channels \ Condvars, WakeupIdent(c) PROVE IInv'
  BY <1>7, WakeupIdentStep
<1> QED
  BY <1>1, <1>2, <1>3, <1>4, <1>5, <1>6, <1>7 DEF Next

(* The inductive invariant holds in every reachable state. *)
THEOREM Invariance == Spec => []IInv
BY InitOK, StepOK, PTL DEF Spec

(* Type correctness: every variable of the sleep queue code keeps its      *)
(* type, and cv_waiters stays between 0 and its bound.                     *)
THEOREM TypeCorrect == Spec => []TypeOK
<1>1. IInv => TypeOK
  BY DEF IInv
<1> QED
  BY <1>1, Invariance, PTL

(* The queues and the threads agree: whatever wakeups, timeouts and        *)
(* signals do to a thread on its way into a sleep, a thread that has       *)
(* switched away on a channel is on that channel's queue.                  *)
THEOREM QueuesAgree == Spec => []QueueAccounting
<1>1. IInv => QueueAccounting
  BY DEF IInv, ThreadInv, Place, Queue, QueueAccounting
<1> QED
  BY <1>1, Invariance, PTL

(* cv_signal() and cv_broadcastpri() never skip a condition variable that  *)
(* has threads on its queue: cv_waiters counts at least those, or it has   *)
(* stuck at its bound.                                                     *)
THEOREM WaitersNeverMissed == Spec => []WaitersCounted
<1>1. IInv => WaitersCounted
  BY DEF IInv
<1> QED
  BY <1>1, Invariance, PTL

(* The kernel's own assertions on the flags of a sleeping thread never     *)
(* fail: those of sleepq_timeout(), sleepq_wait() and sleepq_timedwait().  *)
THEOREM FlagAssertsHold == Spec => []FlagAsserts
<1>1. ASSUME IInv, NEW t \in Threads
      PROVE  /\ td_slpcallout[t].exec = "entered" /\ "TIMEOUT" \in td_flags[t]
                  => ~ OnSleepq(t) /\ td_sleeping[t]
             /\ pc[t] = "wait" /\ ~ sleep[t].intr => "SINTR" \notin td_flags[t]
  BY <1>1 DEF IInv, ThreadInv, Place, Timeouts, SignalFlags
<1>2. IInv => FlagAsserts
  BY <1>1 DEF FlagAsserts
<1> QED
  BY <1>2, Invariance, PTL

(* A sleep leaves nothing behind: when a thread is back in its caller, it  *)
(* is on no queue, its flags are clear and its timeout cannot act on the   *)
(* next sleep.                                                             *)
THEOREM NothingIsLeft == Spec => []NothingLeftBehind
<1>1. ASSUME IInv, NEW t \in Threads, pc[t] = "caller"
      PROVE  /\ ~ OnSleepq(t) /\ ~ td_sleeping[t]
             /\ td_flags[t] \subseteq {"NEEDSIGCHK"}
             /\ ~ td_slpcallout[t].pending
             /\ td_slpcallout[t].exec # "entered"
  <2>1. TypeOK /\ Place(t) /\ Timeouts(t) /\ SignalFlags(t)
    BY <1>1 DEF IInv, ThreadInv
  <2>2. ~ sleep[t].timed /\ ~ sleep[t].intr
    BY <1>1, <2>1 DEF Place, NoSleep
  <2>3. td_flags[t] \subseteq Flags
    BY <2>1 DEF TypeOK
  <2>4. /\ "TIMEOUT" \notin td_flags[t] /\ "TIMOFAIL" \notin td_flags[t]
        /\ "SINTR" \notin td_flags[t] /\ "SLEEPABORT" \notin td_flags[t]
    BY <2>1, <2>2 DEF Timeouts, SignalFlags
  <2> QED
    BY <1>1, <2>1, <2>2, <2>3, <2>4 DEF Place, Timeouts, Flags
<1>2. IInv => NothingLeftBehind
  BY <1>1 DEF NothingLeftBehind
<1> QED
  BY <1>2, Invariance, PTL

=============================================================================
