------------------------------ MODULE Callout ------------------------------
(***************************************************************************)
(* Callouts (sys/kern/kern_timeout.c): a client arms a callout with         *)
(* callout_reset(), for the current or for another CPU, softclock() of that *)
(* CPU runs its handler, and clients stop or drain it meanwhile.            *)
(*                                                                          *)
(* A step is a critical section of a cc_lock (callout_lock() waits while    *)
(* c_cpu is CPUBLOCK and otherwise ends with the cc_lock of c_cpu held), of *)
(* c_lock, or of the sleep queue chain of cc_waiting.  When a callout is    *)
(* due is up to the environment; the order of a wheel's bucket and of       *)
(* cc_expireq is left out.  Of the two execution entities of a CPU, for     *)
(* softclock() and for the clock interrupt (CALLOUT_DIRECT), the module     *)
(* has the first; both run softclock_call_cc() on fields of their own.      *)
(***************************************************************************)
EXTENDS Naturals, FiniteSets

CONSTANTS
  Callouts, Cpus,
  Threads,           \* the clients
  Kinds,             \* the kinds of callouts there are, see AllKinds
  CPUBLOCK,          \* c_cpu while a callout moves, and "no migration"
  NoCallout, NoOwner

(* How a callout was initialized: callout_init(c, 1) without a lock, or    *)
(* callout_init_mtx() with a lock that softclock() takes before the        *)
(* handler and drops after it, unless CALLOUT_RETURNUNLOCKED leaves that   *)
(* to the handler.                                                         *)
AllKinds == {"mpsafe", "locked", "returnunlocked"}

ASSUME CalloutAssumption ==
  /\ Kinds \subseteq AllKinds
  /\ CPUBLOCK \notin Cpus
  /\ NoCallout \notin Callouts
  /\ NoOwner \notin Threads \cup Cpus
  /\ Threads \cap Cpus = {}

VARIABLES
  kind,              \* kind of each callout, set by its initialization
  c_cpu,
  c_iflags,          \* CALLOUT_ flags: internal,
  c_active,          \* and external (CALLOUT_ACTIVE)
  c_lock,            \* who holds the callout's lock; a CPU is its softclock()
  wheel, expireq,    \* the lists of each CPU
  cc_curr, cc_cancel, cc_waiting, cc_drain, cc_migration_cpu,
  cc_pc,             \* where the CPU's softclock_call_cc() is
  cc_local,          \* its locals: callout and new_cpu
  sq_lock,           \* the chain lock of each CPU's cc_waiting
  pc,                \* where each client is
  local,             \* its locals: callout, CPU (cc or the target), and
  waits,             \* history: invocations that were running when it
                     \* called callout_drain()
  armed              \* history: reset, and neither fired nor stopped since;
                     \* a stop in DrainWindow() does not stop it

lists == <<wheel, expireq>>
callout == <<c_cpu, c_iflags, c_active, lists>>
entity == <<cc_curr, cc_cancel, cc_waiting, cc_drain, cc_migration_cpu>>
softclock == <<cc_pc, cc_local>>
client == <<pc, local, waits>>
vars == <<kind, callout, c_lock, entity, softclock, sq_lock, client, armed>>

IFlags == {"PENDING", "PROCESSED", "DFRMIGRATION"}

TypeOK ==
  /\ kind \in [Callouts -> AllKinds]
  /\ c_cpu \in [Callouts -> Cpus \cup {CPUBLOCK}]
  /\ c_iflags \in [Callouts -> SUBSET IFlags]
  /\ c_active \in [Callouts -> BOOLEAN]
  /\ c_lock \in [Callouts -> Threads \cup Cpus \cup {NoOwner}]
  /\ wheel \in [Cpus -> SUBSET Callouts]
  /\ expireq \in [Cpus -> SUBSET Callouts]
  /\ cc_curr \in [Cpus -> Callouts \cup {NoCallout}]
  /\ cc_cancel \in [Cpus -> BOOLEAN]
  /\ cc_waiting \in [Cpus -> BOOLEAN]
  /\ cc_drain \in [Cpus -> BOOLEAN]
  /\ cc_migration_cpu \in [Cpus -> Cpus \cup {CPUBLOCK}]
  /\ cc_pc \in [Cpus -> {"idle", "getlock", "running", "done", "drain",
                         "wakeup", "switch"}]
  /\ cc_local \in [Cpus -> [c : Callouts \cup {NoCallout},
                            new_cpu : Cpus \cup {CPUBLOCK}]]
  /\ \A x \in Cpus : cc_pc[x] = "switch" => cc_local[x].new_cpu \in Cpus
  /\ sq_lock \in [Cpus -> Threads \cup {NoOwner}]
  /\ pc \in [Threads -> {"caller", "switch", "again", "sqlock", "add",
                         "asleep", "relock"}]
  /\ local \in [Threads -> [c : Callouts \cup {NoCallout},
                            cpu : Cpus \cup {CPUBLOCK}]]
  /\ waits \in [Threads -> SUBSET Cpus]
  /\ armed \in [Callouts -> BOOLEAN]

NoLocals == [c |-> NoCallout, cpu |-> CPUBLOCK]
IdleSoftclock == [c |-> NoCallout, new_cpu |-> CPUBLOCK]

(* callout_cpu_init(), and callout_init() or _callout_init_lock(). *)
Init ==
  /\ kind \in [Callouts -> Kinds]
  /\ \E timeout_cpu \in Cpus : c_cpu = [c \in Callouts |-> timeout_cpu]
  /\ c_iflags = [c \in Callouts |-> {}]
  /\ c_active = [c \in Callouts |-> FALSE]
  /\ c_lock = [c \in Callouts |-> NoOwner]
  /\ wheel = [x \in Cpus |-> {}]
  /\ expireq = [x \in Cpus |-> {}]
  /\ cc_curr = [x \in Cpus |-> NoCallout]
  /\ cc_cancel = [x \in Cpus |-> FALSE]
  /\ cc_waiting = [x \in Cpus |-> FALSE]
  /\ cc_drain = [x \in Cpus |-> FALSE]
  /\ cc_migration_cpu = [x \in Cpus |-> CPUBLOCK]
  /\ cc_pc = [x \in Cpus |-> "idle"]
  /\ cc_local = [x \in Cpus |-> IdleSoftclock]
  /\ sq_lock = [x \in Cpus |-> NoOwner]
  /\ pc = [t \in Threads |-> "caller"]
  /\ local = [t \in Threads |-> NoLocals]
  /\ waits = [t \in Threads |-> {}]
  /\ armed = [c \in Callouts |-> FALSE]

-----------------------------------------------------------------------------
(* Helpers. *)

HasLock(c) == kind[c] # "mpsafe"
callout_pending(c) == "PENDING" \in c_iflags[c]
callout_migrating(c) == "DFRMIGRATION" \in c_iflags[c]
cc_cce_migrating(x) == cc_migration_cpu[x] # CPUBLOCK

(* A client between two calls that holds the locks it needs for c. *)
MayCall(t, c) ==
  /\ pc[t] = "caller"
  /\ HasLock(c) => c_lock[c] = t

(* The handler of c runs on x, with its lock if it needs one for a call. *)
InHandler(x, c) ==
  /\ cc_pc[x] = "running"
  /\ cc_local[x].c = c
  /\ HasLock(c) => c_lock[c] = x

(* softclock() calls the function of callout_async_drain() while c is to   *)
(* migrate: cc_curr is NULL already, the migration still to come, and the  *)
(* callout on no list although its flags may say that it is pending.       *)
DrainWindow(c) ==
  \E x \in Cpus :
    cc_pc[x] = "drain" /\ cc_local[x].c = c /\ cc_cce_migrating(x)

(* The precondition of clients: callout_reset() in that window would take  *)
(* the callout off a list that it is not on, or add it to one before       *)
(* softclock() adds it to another; what the lists are then is undefined.   *)
ResetAllowed(c) == ~ DrainWindow(c)

(* callout_cc_add() on the lists given, for CPU x. *)
callout_cc_add(c, x, w) ==
  /\ wheel' = [w EXCEPT ![x] = @ \cup {c}]
  /\ c_iflags' = [c_iflags EXCEPT ![c] = (@ \cup {"PENDING"}) \ {"PROCESSED"}]
  /\ c_active' = [c_active EXCEPT ![c] = TRUE]

(* LIST_REMOVE() from the wheel of x, or TAILQ_REMOVE() from its expireq. *)
WheelWithout(c, x) ==
  IF "PROCESSED" \in c_iflags[c] THEN wheel
  ELSE [wheel EXCEPT ![x] = @ \ {c}]
ExpireqWithout(c, x) ==
  IF "PROCESSED" \in c_iflags[c] THEN [expireq EXCEPT ![x] = @ \ {c}]
  ELSE expireq

-----------------------------------------------------------------------------
(* callout_process(): a callout of CPU x is due. *)
callout_process(x, c) ==
  /\ c \in wheel[x]
  /\ wheel' = [wheel EXCEPT ![x] = @ \ {c}]
  /\ expireq' = [expireq EXCEPT ![x] = @ \cup {c}]
  /\ c_iflags' = [c_iflags EXCEPT ![c] = @ \cup {"PROCESSED"}]
  /\ UNCHANGED <<kind, c_cpu, c_active, c_lock, entity, softclock, sq_lock,
                 client, armed>>

(* softclock() takes a callout off cc_expireq; softclock_call_cc() up to   *)
(* CC_UNLOCK().                                                            *)
SoftclockCall(x, c) ==
  /\ cc_pc[x] = "idle"
  /\ c \in expireq[x]
  /\ expireq' = [expireq EXCEPT ![x] = @ \ {c}]
  /\ c_iflags' = [c_iflags EXCEPT ![c] = @ \ {"PENDING"}]
  /\ cc_curr' = [cc_curr EXCEPT ![x] = c]
  /\ cc_cancel' = [cc_cancel EXCEPT ![x] = FALSE]
  /\ cc_drain' = [cc_drain EXCEPT ![x] = FALSE]
  /\ cc_local' = [cc_local EXCEPT ![x].c = c]
  /\ cc_pc' = [cc_pc EXCEPT ![x] = IF HasLock(c) THEN "getlock" ELSE "running"]
  /\ armed' = IF HasLock(c) THEN armed ELSE [armed EXCEPT ![c] = FALSE]
  /\ UNCHANGED <<kind, c_cpu, c_active, c_lock, wheel, cc_waiting,
                 cc_migration_cpu, sq_lock, client>>

SkipHandler_Retry(x) ==   \* mutation: waits for the lock again
  UNCHANGED <<cc_pc, waits>>

(* A callout that was cancelled while softclock() switched locks. *)
SkipHandler(x) ==
  /\ cc_pc' = [cc_pc EXCEPT ![x] = "done"]
  /\ waits' = [t \in Threads |-> waits[t] \ {x}]

(* lc_lock(), and the test of cc_cancel: skip the handler or start it. *)
GetLock(x) ==
  LET c == cc_local[x].c
  IN  /\ cc_pc[x] = "getlock"
      /\ c_lock[c] = NoOwner
      /\ \/ /\ cc_cancel[x]
            /\ SkipHandler(x)
            /\ UNCHANGED <<c_lock, cc_cancel, armed>>
         \/ /\ ~ cc_cancel[x]
            /\ cc_cancel' = [cc_cancel EXCEPT ![x] = TRUE]
            /\ c_lock' = [c_lock EXCEPT ![c] = x]
            /\ cc_pc' = [cc_pc EXCEPT ![x] = "running"]
            /\ armed' = [armed EXCEPT ![c] = FALSE]
            /\ UNCHANGED waits
      /\ UNCHANGED <<kind, callout, cc_curr, cc_waiting, cc_drain,
                     cc_migration_cpu, cc_local, sq_lock, pc, local>>

(* A handler of a CALLOUT_RETURNUNLOCKED callout drops the lock. *)
HandlerUnlock(x) ==
  LET c == cc_local[x].c
  IN  /\ cc_pc[x] = "running"
      /\ kind[c] = "returnunlocked"
      /\ c_lock[c] = x
      /\ c_lock' = [c_lock EXCEPT ![c] = NoOwner]
      /\ UNCHANGED <<kind, callout, entity, softclock, sq_lock, client, armed>>

(* callout_deactivate() by a handler that has seen no newer callout_reset(). *)
callout_deactivate(x) ==
  \E c \in Callouts :
    /\ InHandler(x, c)
    /\ ~ callout_pending(c)
    /\ c_active[c]
    /\ c_active' = [c_active EXCEPT ![c] = FALSE]
    /\ UNCHANGED <<kind, c_cpu, c_iflags, lists, c_lock, entity, softclock,
                   sq_lock, client, armed>>

(* The handler returns, and softclock_call_cc() drops the lock for it. *)
HandlerReturn(x) ==
  LET c == cc_local[x].c
  IN  /\ cc_pc[x] = "running"
      /\ kind[c] = "returnunlocked" => c_lock[c] # x
      /\ c_lock' = IF kind[c] = "locked" THEN [c_lock EXCEPT ![c] = NoOwner]
                   ELSE c_lock
      /\ cc_pc' = [cc_pc EXCEPT ![x] = "done"]
      /\ waits' = [t \in Threads |-> waits[t] \ {x}]
      /\ UNCHANGED <<kind, callout, entity, cc_local, sq_lock, pc, local, armed>>

cc_cce_cleanup(x) ==
  /\ cc_cancel' = [cc_cancel EXCEPT ![x] = FALSE]
  /\ cc_migration_cpu' = [cc_migration_cpu EXCEPT ![x] = CPUBLOCK]

Unmigrate(c) == c_iflags' = [c_iflags EXCEPT ![c] = @ \ {"DFRMIGRATION"}]

(* The copies of the cc_migration_ fields. *)
TakeMigration(x) ==
  cc_local' = [cc_local EXCEPT ![x].new_cpu = cc_migration_cpu[x]]

(* A deferred callout stop: c_iflags says that there is no migration. *)
MigrationStopped(x) == ~ callout_migrating(cc_local[x].c)

(* softclock_call_cc() from the test of cc_waiting on: wake a thread in    *)
(* callout_drain(), which cancels a deferred migration, or migrate.        *)
Tail(x) ==
  LET c == cc_local[x].c
  IN  \/ /\ cc_waiting[x]
         /\ \/ /\ cc_cce_migrating(x)
               /\ cc_cce_cleanup(x)
               /\ Unmigrate(c)
               /\ armed' = [armed EXCEPT ![c] = FALSE]
            \/ /\ ~ cc_cce_migrating(x)
               /\ UNCHANGED <<cc_cancel, cc_migration_cpu, c_iflags, armed>>
         /\ cc_waiting' = [cc_waiting EXCEPT ![x] = FALSE]
         /\ cc_pc' = [cc_pc EXCEPT ![x] = "wakeup"]
         /\ UNCHANGED <<c_cpu, cc_local>>
      \/ /\ ~ cc_waiting[x]
         /\ cc_cce_migrating(x)
         /\ ~ MigrationStopped(x)
         /\ cc_cce_cleanup(x)
         /\ Unmigrate(c)
         /\ c_cpu' = [c_cpu EXCEPT ![c] = CPUBLOCK]
         /\ TakeMigration(x)
         /\ cc_pc' = [cc_pc EXCEPT ![x] = "switch"]
         /\ UNCHANGED <<cc_waiting, armed>>
      \/ /\ ~ cc_waiting[x]
         /\ cc_cce_migrating(x) => MigrationStopped(x)
         /\ cc_cancel' = [cc_cancel EXCEPT ![x] = @ /\ ~ cc_cce_migrating(x)]
         /\ cc_migration_cpu' = [cc_migration_cpu EXCEPT ![x] = CPUBLOCK]
         /\ cc_local' = [cc_local EXCEPT ![x] = IdleSoftclock]
         /\ cc_pc' = [cc_pc EXCEPT ![x] = "idle"]
         /\ UNCHANGED <<c_iflags, c_cpu, cc_waiting, armed>>

(* softclock_call_cc() after the handler: CC_LOCK() and cc_curr = NULL. *)
SoftclockDone(x) ==
  /\ cc_pc[x] = "done"
  /\ cc_curr' = [cc_curr EXCEPT ![x] = NoCallout]
  /\ \/ /\ cc_drain[x]
        /\ cc_drain' = [cc_drain EXCEPT ![x] = FALSE]
        /\ cc_pc' = [cc_pc EXCEPT ![x] = "drain"]
        /\ UNCHANGED <<c_cpu, c_iflags, cc_cancel, cc_waiting,
                       cc_migration_cpu, cc_local, armed>>
     \/ /\ ~ cc_drain[x]
        /\ Tail(x)
        /\ UNCHANGED cc_drain
  /\ UNCHANGED <<kind, c_active, lists, c_lock, sq_lock, client>>

(* The function of callout_async_drain() was called; CC_LOCK() again. *)
DrainFunction(x) ==
  /\ cc_pc[x] = "drain"
  /\ Tail(x)
  /\ UNCHANGED <<kind, c_active, lists, c_lock, cc_curr, cc_drain, sq_lock,
                 client>>

(* wakeup(&cc_exec_waiting(cc)). *)
WakeDrainers(x) ==
  /\ cc_pc[x] = "wakeup"
  /\ sq_lock[x] = NoOwner
  /\ pc' = [t \in Threads |-> IF pc[t] = "asleep" /\ local[t].cpu = x
                              THEN "relock" ELSE pc[t]]
  /\ cc_pc' = [cc_pc EXCEPT ![x] = "idle"]
  /\ cc_local' = [cc_local EXCEPT ![x] = IdleSoftclock]
  /\ UNCHANGED <<kind, callout, c_lock, entity, sq_lock, local, waits, armed>>

(* The second half of callout_cpu_switch() in softclock_call_cc(). *)
MigrationDone(x) ==
  LET c == cc_local[x].c
  IN  /\ cc_pc[x] = "switch"
      /\ c_cpu' = [c_cpu EXCEPT ![c] = cc_local[x].new_cpu]
      /\ callout_cc_add(c, cc_local[x].new_cpu, wheel)
      /\ cc_pc' = [cc_pc EXCEPT ![x] = "idle"]
      /\ cc_local' = [cc_local EXCEPT ![x] = IdleSoftclock]
      /\ UNCHANGED <<kind, expireq, c_lock, entity, sq_lock, client, armed>>

-----------------------------------------------------------------------------
(* Clients. *)

Lock(t, c) ==
  /\ pc[t] = "caller"
  /\ HasLock(c)
  /\ \A d \in Callouts : c_lock[d] # t
  /\ c_lock[c] = NoOwner
  /\ c_lock' = [c_lock EXCEPT ![c] = t]
  /\ UNCHANGED <<kind, callout, entity, softclock, sq_lock, client, armed>>

Unlock(t, c) ==
  /\ pc[t] = "caller"
  /\ c_lock[c] = t
  /\ c_lock' = [c_lock EXCEPT ![c] = NoOwner]
  /\ UNCHANGED <<kind, callout, entity, softclock, sq_lock, client, armed>>

(* callout_reset_sbt_on() of a callout whose handler runs on its CPU, as   *)
(* far as it returns early: a thread waits in callout_drain(), or the      *)
(* callout is to migrate already.                                          *)
ResetInProgress(c, cpu) ==
  LET x == c_cpu[c]
  IN  /\ cc_curr[x] = c
      /\ cc_cancel' = [cc_cancel EXCEPT ![x] = @ \/ HasLock(c)]
      /\ \/ /\ cc_waiting[x]
            /\ armed' = [armed EXCEPT ![c] = @ /\ (HasLock(c) => cc_cancel[x])]
            /\ UNCHANGED cc_migration_cpu
         \/ /\ ~ cc_waiting[x]
            /\ callout_migrating(c)
            /\ cc_migration_cpu' = [cc_migration_cpu EXCEPT ![x] = cpu]
            /\ armed' = [armed EXCEPT ![c] = TRUE]
      /\ UNCHANGED <<callout, cc_curr, cc_waiting, cc_drain>>

(* The rest of callout_reset_sbt_on() that ends with the callout on the    *)
(* wheel of its CPU, or with a deferred migration.                         *)
ResetHere(c, cpu) ==
  LET x == c_cpu[c]
      w == IF callout_pending(c) THEN WheelWithout(c, x) ELSE wheel
      q == IF callout_pending(c) THEN ExpireqWithout(c, x) ELSE expireq
  IN  /\ cc_curr[x] = c => ~ cc_waiting[x] /\ ~ callout_migrating(c)
      /\ cc_cancel' = [cc_cancel EXCEPT ![x] = @ \/ (cc_curr[x] = c /\ HasLock(c))]
      /\ expireq' = q
      /\ \/ /\ x = cpu
            /\ callout_cc_add(c, x, w)
            /\ UNCHANGED cc_migration_cpu
         \/ /\ x # cpu
            /\ cc_curr[x] = c
            /\ wheel' = w
            /\ cc_migration_cpu' = [cc_migration_cpu EXCEPT ![x] = cpu]
            /\ c_iflags' = [c_iflags EXCEPT
                              ![c] = @ \cup {"DFRMIGRATION", "PENDING"}]
            /\ c_active' = [c_active EXCEPT ![c] = TRUE]
      /\ armed' = [armed EXCEPT ![c] = TRUE]
      /\ UNCHANGED <<c_cpu, cc_curr, cc_waiting, cc_drain>>

(* callout_reset_sbt_on() by a client, but for callout_cpu_switch(). *)
callout_reset(t, c, cpu) ==
  /\ MayCall(t, c)
  /\ c_cpu[c] # CPUBLOCK
  /\ ResetAllowed(c)
  /\ ResetInProgress(c, cpu) \/ ResetHere(c, cpu)
  /\ UNCHANGED <<kind, c_lock, softclock, sq_lock, client>>

MovesAtOnce_Always(c, cpu) ==   \* mutation: a running callout too
  c_cpu[c] # cpu

(* The callout is for another CPU and not in progress. *)
MovesAtOnce(c, cpu) == c_cpu[c] # cpu /\ cc_curr[c_cpu[c]] # c

(* callout_reset_sbt_on() up to the middle of callout_cpu_switch(). *)
ResetMoves(t, c, cpu) ==
  LET x == c_cpu[c]
  IN  /\ MayCall(t, c)
      /\ x # CPUBLOCK
      /\ ResetAllowed(c)
      /\ MovesAtOnce(c, cpu)
      /\ \/ /\ callout_pending(c)
            /\ wheel' = WheelWithout(c, x)
            /\ expireq' = ExpireqWithout(c, x)
            /\ c_iflags' = [c_iflags EXCEPT ![c] = @ \ {"PENDING"}]
            /\ c_active' = [c_active EXCEPT ![c] = FALSE]
         \/ /\ ~ callout_pending(c)
            /\ UNCHANGED <<lists, c_iflags, c_active>>
      /\ c_cpu' = [c_cpu EXCEPT ![c] = CPUBLOCK]
      /\ pc' = [pc EXCEPT ![t] = "switch"]
      /\ local' = [local EXCEPT ![t] = [c |-> c, cpu |-> cpu]]
      /\ armed' = [armed EXCEPT ![c] = TRUE]
      /\ UNCHANGED <<kind, c_lock, entity, softclock, sq_lock, waits>>

(* The second half of callout_cpu_switch(), and callout_cc_add(). *)
ResetMoved(t) ==
  LET c == local[t].c
  IN  /\ pc[t] = "switch"
      /\ c_cpu' = [c_cpu EXCEPT ![c] = local[t].cpu]
      /\ callout_cc_add(c, local[t].cpu, wheel)
      /\ pc' = [pc EXCEPT ![t] = "caller"]
      /\ local' = [local EXCEPT ![t] = NoLocals]
      /\ UNCHANGED <<kind, expireq, c_lock, entity, softclock, sq_lock, waits,
                     armed>>

(* callout_reset() by the handler itself, the way a periodic timer does;   *)
(* the callout is in progress, so there is no callout_cpu_switch().        *)
HandlerReset(x, cpu) ==
  \E c \in Callouts :
    /\ InHandler(x, c)
    /\ c_cpu[c] # CPUBLOCK
    /\ ResetInProgress(c, cpu) \/ ResetHere(c, cpu)
    /\ UNCHANGED <<kind, c_lock, softclock, sq_lock, client>>

(* The special case at the top of _callout_stop_safe(): a callout that is  *)
(* to migrate when its handler is done is not pending on any list.         *)
NotOnAList(c) ==
  {"DFRMIGRATION", "PENDING"} \subseteq c_iflags[c] /\ c_active[c]
StopFlags(c) ==
  IF NotOnAList(c) THEN c_iflags[c] \ {"PENDING"} ELSE c_iflags[c]

(* _callout_stop_safe() of a pending callout returns 1. *)
StopPending(c) ==
  LET x == c_cpu[c]
  IN  /\ "PENDING" \in StopFlags(c)
      /\ c_iflags' = [c_iflags EXCEPT ![c] = @ \ {"PENDING"}]
      /\ c_active' = [c_active EXCEPT ![c] = FALSE]
      /\ wheel' = WheelWithout(c, x)
      /\ expireq' = ExpireqWithout(c, x)
      /\ armed' = [armed EXCEPT ![c] = FALSE]

StopMigration_Not(c) ==   \* mutation: the deferred migration stays
  /\ c_iflags' = [c_iflags EXCEPT ![c] = StopFlags(c)]
  /\ UNCHANGED cc_migration_cpu

(* A deferred migration of c, if there is one, will not happen. *)
StopMigration(c) ==
  /\ c_iflags' = [c_iflags EXCEPT ![c] = StopFlags(c) \ {"DFRMIGRATION"}]
  /\ cc_migration_cpu' = [cc_migration_cpu EXCEPT
                            ![c_cpu[c]] = IF callout_migrating(c) THEN CPUBLOCK
                                          ELSE @]

(* _callout_stop_safe() with safe = 0 of a callout that is in progress:    *)
(* cancel it (returns 1), or fail to (returns 0).                          *)
StopInProgress(c, drain) ==
  LET x == c_cpu[c]
      cancels == HasLock(c) /\ ~ cc_cancel[x] /\ ~ drain
  IN  /\ cc_curr[x] = c
      /\ cc_cancel' = [cc_cancel EXCEPT ![x] = @ \/ cancels]
      /\ cc_drain' = [cc_drain EXCEPT ![x] = @ \/ drain]
      /\ StopMigration(c)
      /\ armed' = [armed EXCEPT ![c] = @ /\ drain /\ ~ callout_migrating(c)]

(* _callout_stop_safe() with safe = 0; drain says whether there is a       *)
(* function of callout_async_drain().                                      *)
_callout_stop(c, drain) ==
  LET x == c_cpu[c]
  IN  /\ x # CPUBLOCK
      /\ \/ StopPending(c)
            /\ UNCHANGED <<cc_cancel, cc_drain, cc_migration_cpu>>
         \/ /\ "PENDING" \notin StopFlags(c)
            /\ c_active' = [c_active EXCEPT ![c] = FALSE]
            /\ \/ StopInProgress(c, drain)
               \/ /\ cc_curr[x] # c                        \* returns -1
                  /\ c_iflags' = [c_iflags EXCEPT ![c] = StopFlags(c)]
                  /\ armed' = [armed EXCEPT ![c] = @ /\ DrainWindow(c)]
                  /\ UNCHANGED <<cc_cancel, cc_drain, cc_migration_cpu>>
            /\ UNCHANGED lists
      /\ UNCHANGED <<kind, c_cpu, c_lock, cc_curr, cc_waiting, softclock,
                     sq_lock, client>>

callout_stop(t, c) == MayCall(t, c) /\ _callout_stop(c, FALSE)
HandlerStop(x) == \E c \in Callouts : InHandler(x, c) /\ _callout_stop(c, FALSE)
callout_async_drain(t, c) == MayCall(t, c) /\ _callout_stop(c, TRUE)

(* callout_drain(), without any lock. *)
callout_drain(t, c) ==
  /\ pc[t] = "caller"
  /\ \A d \in Callouts : c_lock[d] # t
  /\ pc' = [pc EXCEPT ![t] = "again"]
  /\ local' = [local EXCEPT ![t] = [c |-> c, cpu |-> CPUBLOCK]]
  /\ waits' = [waits EXCEPT ![t] = {x \in Cpus : /\ cc_local[x].c = c
                                                 /\ cc_pc[x] \in {"getlock", "running"}}]
  /\ UNCHANGED <<kind, callout, c_lock, entity, softclock, sq_lock, armed>>

sq_locked(t) == local[t].cpu # CPUBLOCK

(* sleepq_release() if the chain is locked. *)
sleepq_release(t) ==
  sq_lock' = [x \in Cpus |-> IF x = local[t].cpu THEN NoOwner ELSE sq_lock[x]]

DrainReturns(t) ==
  /\ pc' = [pc EXCEPT ![t] = "caller"]
  /\ local' = [local EXCEPT ![t] = NoLocals]
  /\ waits' = [waits EXCEPT ![t] = {}]

MustWait_Cancellable(c) ==   \* mutation: not when it cannot be cancelled
  cc_curr[c_cpu[c]] = c /\ ~ cc_cancel[c_cpu[c]]

(* The callout is running, or just about to run. *)
MustWait(c) == cc_curr[c_cpu[c]] = c

(* _callout_stop_safe() with safe = 1 from "again:" on. *)
DrainAgain(t) ==
  LET c == local[t].c
      x == c_cpu[c]
      special == c_iflags' = [c_iflags EXCEPT ![c] = StopFlags(c)]
  IN  /\ pc[t] = "again"
      /\ x # CPUBLOCK
      /\ \/ /\ sq_locked(t) /\ x # local[t].cpu            \* goto again
            /\ special
            /\ c_active' = [c_active EXCEPT ![c] = @ /\ ~ NotOnAList(c)]
            /\ sleepq_release(t)
            /\ local' = [local EXCEPT ![t].cpu = CPUBLOCK]
            /\ UNCHANGED <<lists, cc_waiting, armed, pc, waits>>
         \/ /\ sq_locked(t) => x = local[t].cpu            \* returns 1
            /\ StopPending(c)
            /\ sleepq_release(t)
            /\ DrainReturns(t)
            /\ UNCHANGED cc_waiting
         \/ /\ sq_locked(t) => x = local[t].cpu
            /\ "PENDING" \notin StopFlags(c)
            /\ special
            /\ c_active' = [c_active EXCEPT ![c] = FALSE]
            /\ \/ /\ ~ MustWait(c)                          \* returns -1
                  /\ armed' = [armed EXCEPT ![c] = @ /\ DrainWindow(c)]
                  /\ sleepq_release(t)
                  /\ DrainReturns(t)
                  /\ UNCHANGED cc_waiting
               \/ /\ MustWait(c)
                  /\ ~ sq_locked(t)
                  /\ pc' = [pc EXCEPT ![t] = "sqlock"]
                  /\ local' = [local EXCEPT ![t].cpu = x]
                  /\ UNCHANGED <<sq_lock, cc_waiting, armed, waits>>
               \/ /\ MustWait(c)
                  /\ sq_locked(t)
                  /\ cc_waiting' = [cc_waiting EXCEPT ![x] = TRUE]
                  /\ pc' = [pc EXCEPT ![t] = "add"]
                  /\ UNCHANGED <<sq_lock, local, armed, waits>>
            /\ UNCHANGED lists
      /\ UNCHANGED <<kind, c_cpu, c_lock, cc_curr, cc_cancel, cc_drain,
                     cc_migration_cpu, softclock>>

DrainLocksChain_Drops(t) ==   \* mutation: the chain lock is not kept
  LET x == local[t].cpu
  IN  /\ pc[t] = "sqlock"
      /\ sq_lock[x] = NoOwner
      /\ UNCHANGED sq_lock
      /\ pc' = [pc EXCEPT ![t] = "again"]
      /\ UNCHANGED <<kind, callout, c_lock, entity, softclock, local, waits,
                     armed>>

(* sleepq_lock(&cc_exec_waiting(cc)), and goto again. *)
DrainLocksChain(t) ==
  LET x == local[t].cpu
  IN  /\ pc[t] = "sqlock"
      /\ sq_lock[x] = NoOwner
      /\ sq_lock' = [sq_lock EXCEPT ![x] = t]
      /\ pc' = [pc EXCEPT ![t] = "again"]
      /\ UNCHANGED <<kind, callout, c_lock, entity, softclock, local, waits,
                     armed>>

(* sleepq_add() and sleepq_wait(), which drops the chain lock. *)
DrainSleeps(t) ==
  /\ pc[t] = "add"
  /\ sleepq_release(t)
  /\ pc' = [pc EXCEPT ![t] = "asleep"]
  /\ UNCHANGED <<kind, callout, c_lock, entity, softclock, local, waits, armed>>

(* CC_LOCK(cc) after the sleep, of the CPU that ran the callout before it, *)
(* and the test of the loop: from the top again, or return 0.              *)
DrainResumes(t) ==
  LET c == local[t].c
  IN  /\ pc[t] = "relock"
      /\ \/ /\ cc_curr[local[t].cpu] = c
            /\ pc' = [pc EXCEPT ![t] = "sqlock"]
            /\ UNCHANGED <<local, waits>>
         \/ /\ cc_curr[local[t].cpu] # c
            /\ DrainReturns(t)
      /\ UNCHANGED <<kind, callout, c_lock, entity, softclock, sq_lock, armed>>

-----------------------------------------------------------------------------

Softclock(x) ==
  \/ \E c \in Callouts : callout_process(x, c) \/ SoftclockCall(x, c)
  \/ GetLock(x)
  \/ HandlerUnlock(x)
  \/ HandlerReturn(x)
  \/ SoftclockDone(x)
  \/ DrainFunction(x)
  \/ WakeDrainers(x)
  \/ MigrationDone(x)
  \/ \E cpu \in Cpus : HandlerReset(x, cpu)
  \/ HandlerStop(x)
  \/ callout_deactivate(x)

Client(t) ==
  \/ \E c \in Callouts :
       \/ Lock(t, c) \/ Unlock(t, c)
       \/ \E cpu \in Cpus : callout_reset(t, c, cpu) \/ ResetMoves(t, c, cpu)
       \/ callout_stop(t, c)
       \/ callout_async_drain(t, c)
       \/ callout_drain(t, c)
  \/ ResetMoved(t)
  \/ DrainAgain(t)
  \/ DrainLocksChain(t)
  \/ DrainSleeps(t)
  \/ DrainResumes(t)

Next == (\E x \in Cpus : Softclock(x)) \/ (\E t \in Threads : Client(t))

Spec == Init /\ [][Next]_vars

(* Time passes; softclock() of each CPU goes on, and a handler returns; a  *)
(* client drops its lock and goes on in a call.  Both get a lock that is   *)
(* free again and again.                                                   *)
SoftclockGoesOn(x) ==
  \/ \E c \in Callouts : SoftclockCall(x, c)
  \/ GetLock(x) \/ HandlerUnlock(x) \/ HandlerReturn(x)
  \/ SoftclockDone(x) \/ DrainFunction(x)
  \/ WakeDrainers(x) \/ MigrationDone(x)

ClientGoesOn(t) ==
  \/ \E c \in Callouts : Unlock(t, c)
  \/ ResetMoved(t)
  \/ DrainAgain(t) \/ DrainLocksChain(t) \/ DrainSleeps(t) \/ DrainResumes(t)

Fairness ==
  /\ \A x \in Cpus, c \in Callouts : WF_vars(callout_process(x, c))
  /\ \A x \in Cpus : SF_vars(SoftclockGoesOn(x))
  /\ \A t \in Threads : SF_vars(ClientGoesOn(t))

FairSpec == Spec /\ Fairness

-----------------------------------------------------------------------------

Moving(c) ==
  \/ \E t \in Threads : pc[t] = "switch" /\ local[t].c = c
  \/ \E x \in Cpus : cc_pc[x] = "switch" /\ cc_local[x].c = c

(* softclock() has taken c and will call its handler unless it is          *)
(* cancelled before it gets the lock.                                      *)
AboutToRun(c) ==
  \E x \in Cpus : cc_pc[x] = "getlock" /\ cc_local[x].c = c /\ ~ cc_cancel[x]

MigrationDeferred(c) ==
  /\ callout_migrating(c)
  /\ \E x \in Cpus : cc_local[x].c = c /\ cc_migration_cpu[x] # CPUBLOCK

(* Whoever locks c_cpu sees a callout that is in progress: it never moves  *)
(* away from the CPU that runs it, no other CPU runs it too, and a         *)
(* migration deferred by a client is forgotten by neither side (the        *)
(* assertions on cc_curr and on migration hold).  A deferred migration is  *)
(* that of cc_curr, or, while the function of callout_async_drain() is     *)
(* called, of the callout whose handler has just returned.                 *)
InProgressIsSeen ==
  \A x \in Cpus :
    /\ cc_pc[x] \in {"getlock", "running", "done"} =>
         cc_curr[x] = cc_local[x].c /\ c_cpu[cc_local[x].c] = x
    /\ cc_cce_migrating(x) =>
         LET c == cc_local[x].c
         IN  /\ cc_curr[x] = c \/ cc_pc[x] = "drain"
             /\ callout_migrating(c) /\ c_cpu[c] = x
             /\ HasLock(c) => cc_cancel[x]
    /\ cc_waiting[x] => cc_curr[x] # NoCallout \/ cc_pc[x] = "drain"

(* Flags, c_cpu and the lists agree in every critical section: a callout   *)
(* is on one list at most, of the CPU that callout_lock() would lock, and  *)
(* its flags say which, so that LIST_REMOVE() and TAILQ_REMOVE() get the   *)
(* right list; the assertions of softclock_call_cc() hold for it.          *)
ListsAgree ==
  /\ TypeOK
  /\ InProgressIsSeen
  /\ \A c \in Callouts, x \in Cpus :
       /\ c \in wheel[x] <=> /\ callout_pending(c) /\ ~ callout_migrating(c)
                             /\ "PROCESSED" \notin c_iflags[c]
                             /\ c_cpu[c] = x
       /\ c \in expireq[x] <=> /\ callout_pending(c) /\ ~ callout_migrating(c)
                               /\ "PROCESSED" \in c_iflags[c]
                               /\ c_cpu[c] = x
       /\ callout_pending(c) => c_active[c]

(* A callout is scheduled, on a list, deferred, on its way to a CPU or     *)
(* waiting for its lock with the handler next, exactly when a client has   *)
(* asked for it: callout_reset() is never lost, and after callout_stop()   *)
(* the handler does not run, whatever softclock() was doing meanwhile,     *)
(* with one exception: a stop or a drain in DrainWindow() returns -1 and   *)
(* leaves the migration to softclock(), which arms the callout again.      *)
ScheduledAsAsked ==
  \A c \in Callouts :
    armed[c] <=> \/ \E x \in Cpus : c \in wheel[x] \cup expireq[x]
                 \/ MigrationDeferred(c) \/ Moving(c) \/ AboutToRun(c)

DrainEnds(t) ==
  pc[t] \in {"again", "relock"} /\ pc'[t] = "caller"

(* callout_drain() that did not find the callout pending again returns     *)
(* after the invocation that was in progress when it was called.           *)
DrainWaitsForHandler ==
  [][\A t \in Threads :
       DrainEnds(t) /\ waits[t] # {} =>
         armed[local[t].c] /\ ~ armed'[local[t].c]]_vars

(* A thread asleep in callout_drain() is woken. *)
DrainIsWoken == \A t \in Threads : pc[t] = "asleep" ~> pc[t] # "asleep"

(* A callout fires, or is stopped, unless it is reset for ever. *)
ArmedFires ==
  \A c \in Callouts :
    []<>(~ armed[c])
    \/ []<><<\E t \in Threads, cpu \in Cpus :
               callout_reset(t, c, cpu) \/ ResetMoves(t, c, cpu)>>_vars
    \/ []<><<\E x, cpu \in Cpus : HandlerReset(x, cpu)>>_vars

(* callout_drain() waits for the current invocation to finish. *)
DrainWaits ==
  [][\A t \in Threads : DrainEnds(t) => waits[t] = {}]_vars

=============================================================================
