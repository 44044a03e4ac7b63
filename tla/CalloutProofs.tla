--------------------------- MODULE CalloutProofs ---------------------------
(***************************************************************************)
(* Proofs about Callout, for any callouts, CPUs and clients: the            *)
(* invariants of the run callout and what callout_drain() waits for.        *)
(*                                                                          *)
(* The inductive invariant says of each CPU what its softclock() knows of   *)
(* the callout in its hands (CpuInv), of each callout what its flags, c_cpu *)
(* and the lists say of each other (CalloutInv), and of each client what it *)
(* remembers of the callout it moves or drains (ClientInv).                 *)
(***************************************************************************)
EXTENDS Callout, TLAPS

InProgress == {"getlock", "running", "done"}

CpuInv(x) ==
  LET c == cc_local[x].c
  IN  /\ cc_pc[x] = "idle" => cc_local[x] = IdleSoftclock
      /\ cc_pc[x] # "idle" => c \in Callouts
      /\ cc_curr[x] = IF cc_pc[x] \in InProgress THEN c ELSE NoCallout
      /\ cc_pc[x] \in InProgress => c_cpu[c] = x
      /\ cc_pc[x] = "getlock" =>
           /\ HasLock(c)
           /\ ~ cc_cancel[x] => ~ callout_pending(c)
      /\ cc_pc[x] \in {"running", "done"} /\ HasLock(c) => cc_cancel[x]
      /\ cc_cce_migrating(x) =>
           /\ cc_pc[x] \in InProgress \cup {"drain"}
           /\ callout_migrating(c) /\ c_cpu[c] = x
           /\ HasLock(c) => cc_cancel[x]
      /\ cc_waiting[x] =>
           /\ cc_pc[x] \in InProgress \cup {"drain"}
           /\ cc_pc[x] \in InProgress \/ cc_cce_migrating(x) => ~ callout_pending(c)
      /\ cc_pc[x] = "switch" => c_cpu[c] = CPUBLOCK

(* The lists and the flags. *)
ListInv(c) ==
  \A x \in Cpus :
    /\ c \in wheel[x] <=> /\ callout_pending(c) /\ ~ callout_migrating(c)
                          /\ "PROCESSED" \notin c_iflags[c]
                          /\ c_cpu[c] = x
    /\ c \in expireq[x] <=> /\ callout_pending(c) /\ ~ callout_migrating(c)
                            /\ "PROCESSED" \in c_iflags[c]
                            /\ c_cpu[c] = x

(* A callout that is scheduled, read off its own fields and its CPU's. *)
Scheduled(c) ==
  \/ c_cpu[c] = CPUBLOCK
  \/ callout_migrating(c)
  \/ callout_pending(c)
  \/ /\ cc_curr[c_cpu[c]] = c
     /\ cc_pc[c_cpu[c]] = "getlock"
     /\ ~ cc_cancel[c_cpu[c]]

CalloutInv(c) ==
  /\ ListInv(c)
  /\ callout_pending(c) => c_active[c]
  /\ callout_migrating(c) =>
       /\ c_cpu[c] # CPUBLOCK
       /\ cc_local[c_cpu[c]].c = c
       /\ cc_cce_migrating(c_cpu[c])
  /\ armed[c] <=> Scheduled(c)
  /\ c_cpu[c] = CPUBLOCK => Moving(c)

ClientInv(t) ==
  LET c == local[t].c
  IN  /\ pc[t] # "caller" => c \in Callouts
      /\ pc[t] = "switch" => local[t].cpu \in Cpus /\ c_cpu[c] = CPUBLOCK
      /\ pc[t] \in {"sqlock", "add", "asleep", "relock"} => local[t].cpu \in Cpus
      /\ pc[t] \in {"caller", "switch"} => waits[t] = {}
      /\ \A x \in waits[t] :
           /\ cc_pc[x] \in {"getlock", "running"}
           /\ cc_local[x].c = c
           /\ local[t].cpu \in {x, CPUBLOCK}

(* A callout is moved by one at a time. *)
MoverInv ==
  /\ \A t, u \in Threads :
       pc[t] = "switch" /\ pc[u] = "switch" /\ local[t].c = local[u].c => t = u
  /\ \A x, y \in Cpus :
       cc_pc[x] = "switch" /\ cc_pc[y] = "switch" /\ cc_local[x].c = cc_local[y].c
         => x = y
  /\ \A t \in Threads, x \in Cpus :
       pc[t] = "switch" /\ cc_pc[x] = "switch" => local[t].c # cc_local[x].c

IInv ==
  /\ TypeOK
  /\ \A x \in Cpus : CpuInv(x)
  /\ \A c \in Callouts : CalloutInv(c)
  /\ \A t \in Threads : ClientInv(t)
  /\ MoverInv
-----------------------------------------------------------------------------
(* What a step leaves alone. *)
SameCpu(y) ==
  /\ cc_pc'[y] = cc_pc[y] /\ cc_local'[y] = cc_local[y]
  /\ cc_curr'[y] = cc_curr[y] /\ cc_cancel'[y] = cc_cancel[y]
  /\ cc_waiting'[y] = cc_waiting[y] /\ cc_drain'[y] = cc_drain[y]
  /\ cc_migration_cpu'[y] = cc_migration_cpu[y]

SameCallout(d) ==
  /\ kind'[d] = kind[d] /\ c_cpu'[d] = c_cpu[d]
  /\ c_iflags'[d] = c_iflags[d] /\ c_active'[d] = c_active[d]
  /\ armed'[d] = armed[d]
  /\ \A x \in Cpus : /\ d \in wheel'[x] <=> d \in wheel[x]
                     /\ d \in expireq'[x] <=> d \in expireq[x]

(* softclock() of y has no more to do with the callout it has called. *)
LetsGo(y) ==
  cc_pc[y] \in {"idle", "wakeup", "drain"} /\ ~ cc_cce_migrating(y)

SameClient(t) == pc'[t] = pc[t] /\ local'[t] = local[t] /\ waits'[t] = waits[t]

(* Whoever moves a callout still moves it. *)
SameMovers ==
  /\ \A t \in Threads : pc[t] = "switch" => pc'[t] = "switch" /\ local'[t] = local[t]
  /\ \A x \in Cpus : cc_pc[x] = "switch" => cc_pc'[x] = "switch" /\ cc_local'[x] = cc_local[x]

NoNewMovers ==
  /\ \A t \in Threads : pc'[t] = "switch" => pc[t] = "switch" /\ local'[t] = local[t]
  /\ \A x \in Cpus : cc_pc'[x] = "switch" => cc_pc[x] = "switch" /\ cc_local'[x] = cc_local[x]

(* A CPU whose fields and whose callout a step leaves alone. *)
LEMMA CpuKept ==
  ASSUME NEW y \in Cpus, CpuInv(y), SameCpu(y),
         cc_local[y].c \in Callouts => SameCallout(cc_local[y].c)
  PROVE  CpuInv(y)'
BY DEF CpuInv, SameCpu, SameCallout, InProgress, HasLock, callout_pending,
       callout_migrating, cc_cce_migrating, IdleSoftclock

(* A CPU whose fields a step leaves alone and that lets its callout go. *)
LEMMA CpuLetsGo ==
  ASSUME NEW y \in Cpus, CpuInv(y), SameCpu(y), LetsGo(y)
  PROVE  CpuInv(y)'
BY DEF CpuInv, SameCpu, LetsGo, InProgress, cc_cce_migrating, IdleSoftclock

(* A callout that a step leaves alone, on a CPU that it leaves alone or    *)
(* that neither has to migrate it nor is about to run it.                  *)
LEMMA CalloutKept ==
  ASSUME NEW d \in Callouts, TypeOK, CalloutInv(d), SameCallout(d),
         c_cpu[d] = CPUBLOCK => Moving(d)',
         c_cpu[d] \in Cpus =>
           \/ SameCpu(c_cpu[d])
           \/ /\ ~ callout_migrating(d)
              /\ cc_curr[c_cpu[d]] # d \/ cc_pc[c_cpu[d]] # "getlock"
              /\ cc_curr'[c_cpu[d]] # d \/ cc_pc'[c_cpu[d]] # "getlock"
  PROVE  CalloutInv(d)'
<1>1. c_cpu[d] \in Cpus \cup {CPUBLOCK}
  BY DEF TypeOK
<1>2. ListInv(d)'
  BY DEF CalloutInv, ListInv, SameCallout, callout_pending, callout_migrating
<1>3. (callout_pending(d) => c_active[d])'
  BY DEF CalloutInv, SameCallout, callout_pending
<1>4. (callout_migrating(d) =>
         /\ c_cpu[d] # CPUBLOCK
         /\ cc_local[c_cpu[d]].c = d
         /\ cc_cce_migrating(c_cpu[d]))'
  BY <1>1 DEF CalloutInv, SameCallout, SameCpu, callout_migrating, cc_cce_migrating
<1>5. Scheduled(d)' <=> Scheduled(d)
  BY <1>1 DEF CalloutInv, Scheduled, SameCallout, SameCpu, callout_migrating, callout_pending
<1>6. (c_cpu[d] = CPUBLOCK => Moving(d))'
  BY DEF SameCallout
<1> QED
  BY <1>2, <1>3, <1>4, <1>5, <1>6 DEF CalloutInv, SameCallout

(* A client that a step leaves alone, and the invocations it waits for. *)
LEMMA ClientKept ==
  ASSUME NEW u \in Threads, ClientInv(u),
         pc'[u] = pc[u], local'[u] = local[u], waits'[u] \subseteq waits[u],
         pc[u] = "switch" => c_cpu'[local[u].c] = c_cpu[local[u].c],
         \A x \in waits'[u] : cc_pc'[x] \in {"getlock", "running"}
                              /\ cc_local'[x].c = cc_local[x].c
  PROVE  ClientInv(u)'
BY DEF ClientInv

(* A callout that is being moved to another CPU stays so while the moving  *)
(* thread stays where it is.                                               *)
LEMMA MovingKept ==
  ASSUME NEW d \in Callouts, Moving(d), SameMovers
  PROVE  Moving(d)'
BY DEF Moving, SameMovers

(* There is still at most one thread that moves a callout if none starts   *)
(* to.                                                                     *)
LEMMA MoverKept ==
  ASSUME MoverInv, NoNewMovers
  PROVE  MoverInv'
BY DEF MoverInv, NoNewMovers

(* A step on one callout and one CPU that has no other in hand. *)
LEMMA OneStep ==
  ASSUME IInv, TypeOK', NEW c \in Callouts, NEW x \in Cpus,
         \A y \in Cpus \ {x} : SameCpu(y),
         \A d \in Callouts \ {c} : SameCallout(d),
         \/ SameCpu(x)
         \/ cc_local[x].c \in {c, NoCallout} /\ cc_curr'[x] \in {c, NoCallout},
         \A d \in Callouts \ {c} : Moving(d) => Moving(d)',
         \A y \in Cpus : y = x \/ cc_local[y].c = c => CpuInv(y)',
         CalloutInv(c)',
         \A u \in Threads : ClientInv(u)',
         MoverInv'
  PROVE  IInv'
<1>1. ASSUME NEW y \in Cpus PROVE CpuInv(y)'
  BY CpuKept DEF IInv
<1>2. ASSUME NEW d \in Callouts PROVE CalloutInv(d)'
  <2>1. CASE d = c
    BY <2>1
  <2>2. CASE d # c
    <3>1. TypeOK /\ CalloutInv(d) /\ SameCallout(d)
      BY <2>2 DEF IInv
    <3>2. c_cpu[d] = CPUBLOCK => Moving(d)'
      BY <3>1, <2>2 DEF CalloutInv
    <3>3. c_cpu[d] \in Cpus =>
            \/ SameCpu(c_cpu[d])
            \/ /\ ~ callout_migrating(d)
               /\ cc_curr[c_cpu[d]] # d /\ cc_curr'[c_cpu[d]] # d
      <4>1. ASSUME c_cpu[d] = x, ~ SameCpu(x)
            PROVE  /\ ~ callout_migrating(d)
                   /\ cc_curr[x] # d /\ cc_curr'[x] # d
        <5>1. CpuInv(x) /\ cc_local[x].c \in {c, NoCallout} /\ d # NoCallout
          BY <4>1, CalloutAssumption DEF IInv
        <5>2. cc_curr[x] # d /\ cc_curr'[x] # d
          BY <2>2, <4>1, <5>1 DEF CpuInv
        <5> QED
          BY <2>2, <3>1, <4>1, <5>1, <5>2 DEF CalloutInv
      <4> QED
        BY <4>1
    <3> QED
      BY <3>1, <3>2, <3>3, CalloutKept
  <2> QED
    BY <2>1, <2>2
<1> QED
  BY <1>1, <1>2 DEF IInv

(* A step that leaves all of this alone. *)
LEMMA NothingChanges ==
  ASSUME IInv, TypeOK', \A y \in Cpus : SameCpu(y),
         \A d \in Callouts : SameCallout(d), \A t \in Threads : SameClient(t)
  PROVE  IInv'
<1>1. SameMovers /\ NoNewMovers
  BY DEF SameCpu, SameClient, SameMovers, NoNewMovers
<1>2. ASSUME NEW y \in Cpus PROVE CpuInv(y)'
  BY CpuKept DEF IInv
<1>3. ASSUME NEW d \in Callouts PROVE CalloutInv(d)'
  BY <1>1, CalloutKept, MovingKept DEF IInv, CalloutInv
<1>4. ASSUME NEW u \in Threads PROVE ClientInv(u)'
  <2>1. ClientInv(u) /\ waits[u] \subseteq Cpus
    BY DEF IInv, TypeOK
  <2> QED
    BY <2>1, ClientKept DEF ClientInv, SameClient, SameCpu, SameCallout
<1>5. MoverInv'
  BY <1>1, MoverKept DEF IInv
<1> QED
  BY <1>2, <1>3, <1>4, <1>5 DEF IInv

(* Initially nothing is scheduled and nobody is in a call. *)
LEMMA InitOK == Init => IInv
<1> SUFFICES ASSUME Init PROVE IInv
  OBVIOUS
<1> USE CalloutAssumption DEF Init
<1>1. TypeOK
  BY DEF TypeOK, AllKinds, IFlags, IdleSoftclock, NoLocals
<1>2. ASSUME NEW x \in Cpus PROVE CpuInv(x)
  BY DEF CpuInv, InProgress, cc_cce_migrating, IdleSoftclock
<1>3. ASSUME NEW c \in Callouts PROVE CalloutInv(c)
  <2>1. c_cpu[c] \in Cpus
    OBVIOUS
  <2> QED
    BY <2>1 DEF CalloutInv, ListInv, Scheduled, callout_pending, callout_migrating
<1>4. ASSUME NEW t \in Threads PROVE ClientInv(t)
  BY DEF ClientInv
<1>5. MoverInv
  BY DEF MoverInv
<1> QED
  BY <1>1, <1>2, <1>3, <1>4, <1>5 DEF IInv

-----------------------------------------------------------------------------
(* The steps of softclock(), and of the clock interrupt. *)

(* callout_process() *)
LEMMA ProcessStep ==
  ASSUME IInv, NEW x \in Cpus, NEW c \in Callouts, callout_process(x, c)
  PROVE  IInv'
<1> USE CalloutAssumption
<1>0. TypeOK /\ CalloutInv(c) /\ \A y \in Cpus : CpuInv(y)
  BY DEF IInv
<1>1. /\ callout_pending(c) /\ ~ callout_migrating(c) /\ c_cpu[c] = x
      /\ "PROCESSED" \notin c_iflags[c]
  BY <1>0 DEF callout_process, CalloutInv, ListInv
<1>2. TypeOK'
  BY <1>0 DEF callout_process, TypeOK, IFlags, entity, softclock, client
<1>3. /\ \A y \in Cpus : SameCpu(y)
      /\ \A t \in Threads : SameClient(t)
      /\ SameMovers /\ NoNewMovers
  BY DEF callout_process, entity, softclock, client, SameCpu, SameClient,
         SameMovers, NoNewMovers
<1>4. \A d \in Callouts \ {c} : SameCallout(d)
  BY <1>0 DEF callout_process, SameCallout, TypeOK
<1>5. /\ c_iflags'[c] = c_iflags[c] \cup {"PROCESSED"}
      /\ \A y \in Cpus : /\ c \in wheel'[y] <=> c \in wheel[y] /\ y # x
                         /\ c \in expireq'[y] <=> c \in expireq[y] \/ y = x
  BY <1>0 DEF callout_process, TypeOK
<1>6. ASSUME NEW y \in Cpus, y = x \/ cc_local[y].c = c PROVE CpuInv(y)'
  BY <1>0, <1>3, <1>4, <1>5, CpuKept
  DEF callout_process, CpuInv, SameCpu, InProgress, HasLock, callout_pending,
      callout_migrating, cc_cce_migrating, IdleSoftclock
<1>7. CalloutInv(c)'
  <2>1. ListInv(c)'
    BY <1>0, <1>1, <1>5 DEF callout_process, CalloutInv, ListInv,
       callout_pending, callout_migrating
  <2>2. Scheduled(c)' /\ Scheduled(c)
    BY <1>1, <1>5 DEF Scheduled, callout_pending
  <2> QED
    BY <1>0, <1>1, <1>5, <2>1, <2>2
    DEF callout_process, CalloutInv, callout_pending, callout_migrating
<1>8. ASSUME NEW u \in Threads PROVE ClientInv(u)'
  BY <1>3, ClientKept DEF callout_process, IInv, softclock, ClientInv, SameClient
<1>9. MoverInv'
  BY <1>3, MoverKept DEF IInv
<1> QED
  BY <1>2, <1>3, <1>4, <1>6, <1>7, <1>8, <1>9, MovingKept, OneStep

(* SoftclockCall() *)
LEMMA CallStep ==
  ASSUME IInv, NEW x \in Cpus, NEW c \in Callouts, SoftclockCall(x, c)
  PROVE  IInv'
<1> USE CalloutAssumption
<1>0. TypeOK /\ CalloutInv(c) /\ \A y \in Cpus : CpuInv(y)
  BY DEF IInv
<1>1. /\ callout_pending(c) /\ ~ callout_migrating(c) /\ c_cpu[c] = x
      /\ cc_curr[x] = NoCallout /\ ~ cc_waiting[x] /\ ~ cc_cce_migrating(x)
      /\ armed[c] /\ "PROCESSED" \in c_iflags[c] /\ cc_local[x].c = NoCallout
  BY <1>0 DEF SoftclockCall, CalloutInv, ListInv, CpuInv, InProgress, Scheduled,
     IdleSoftclock
<1>2. TypeOK'
  BY <1>0 DEF SoftclockCall, TypeOK, IFlags, client
<1>3. /\ \A y \in Cpus \ {x} : SameCpu(y)
      /\ \A t \in Threads : SameClient(t)
      /\ SameMovers /\ NoNewMovers
  BY <1>0 DEF SoftclockCall, TypeOK, client, SameCpu, SameClient, SameMovers,
     NoNewMovers
<1>4. \A d \in Callouts \ {c} : SameCallout(d)
  BY <1>0 DEF SoftclockCall, SameCallout, TypeOK
<1>5. /\ c_iflags'[c] = c_iflags[c] \ {"PENDING"}
      /\ cc_pc'[x] = (IF HasLock(c) THEN "getlock" ELSE "running")
      /\ cc_local'[x].c = c /\ cc_curr'[x] = c /\ ~ cc_cancel'[x]
      /\ cc_migration_cpu' = cc_migration_cpu /\ cc_waiting' = cc_waiting
      /\ kind' = kind /\ c_cpu' = c_cpu /\ c_active' = c_active
      /\ armed'[c] <=> HasLock(c)
      /\ \A y \in Cpus : /\ c \in wheel'[y] <=> c \in wheel[y]
                         /\ c \in expireq'[y] <=> c \in expireq[y] /\ y # x
  BY <1>0, <1>1 DEF SoftclockCall, TypeOK
<1>6. ASSUME NEW y \in Cpus, y = x \/ cc_local[y].c = c PROVE CpuInv(y)'
  <2>1. CASE y = x
    BY <1>1, <1>5, <2>1 DEF CpuInv, InProgress, HasLock, callout_pending, cc_cce_migrating
  <2>2. CASE y # x
    BY <1>0, <1>1, <1>3, <1>5, <1>6, <2>2
    DEF CpuInv, SameCpu, InProgress, HasLock, callout_pending,
        callout_migrating, cc_cce_migrating, IdleSoftclock
  <2> QED
    BY <2>1, <2>2
<1>7. CalloutInv(c)'
  <2>1. ListInv(c)'
    BY <1>0, <1>1, <1>5 DEF CalloutInv, ListInv, callout_pending, callout_migrating
  <2>2. Scheduled(c)' <=> HasLock(c)
    BY <1>1, <1>5 DEF Scheduled, callout_pending, callout_migrating
  <2> QED
    BY <1>0, <1>1, <1>5, <2>1, <2>2
    DEF CalloutInv, callout_pending, callout_migrating
<1>8. ASSUME NEW u \in Threads PROVE ClientInv(u)'
  <2>1. ClientInv(u) /\ x \notin waits[u] /\ waits[u] \subseteq Cpus
    BY <1>0 DEF SoftclockCall, IInv, TypeOK, ClientInv
  <2>2. \A y \in waits[u] : cc_pc'[y] = cc_pc[y] /\ cc_local'[y] = cc_local[y]
    BY <1>3, <2>1 DEF SameCpu
  <2> QED
    BY <1>3, <1>5, <2>1, <2>2 DEF ClientInv, SameClient
<1>9. MoverInv'
  BY <1>3, MoverKept DEF IInv
<1> QED
  BY <1>1, <1>2, <1>3, <1>4, <1>5, <1>6, <1>7, <1>8, <1>9, MovingKept, OneStep
(* GetLock() *)
LEMMA GetLockStep ==
  ASSUME IInv, NEW x \in Cpus, GetLock(x)
  PROVE  IInv'
<1> USE CalloutAssumption
<1> PICK c \in Callouts : cc_local[x].c = c
  BY DEF IInv, CpuInv, GetLock
<1>0. TypeOK /\ CpuInv(x) /\ cc_local[x].c = c /\ cc_pc[x] = "getlock"
  BY DEF IInv, GetLock
<1>1. /\ c_cpu[c] = x /\ cc_curr[x] = c /\ HasLock(c) /\ CalloutInv(c)
  BY <1>0 DEF CpuInv, InProgress, IInv
<1>2. TypeOK'
  <2>1. waits' \in [Threads -> SUBSET Cpus]
    BY <1>0 DEF GetLock, SkipHandler, TypeOK
  <2>2. c_lock' \in [Callouts -> Threads \cup Cpus \cup {NoOwner}]
    <3>1. c_lock' = c_lock \/ c_lock' = [c_lock EXCEPT ![c] = x]
      BY <1>0 DEF GetLock
    <3> QED
      BY <1>0, <3>1 DEF TypeOK
  <2>3. cc_pc' = [cc_pc EXCEPT ![x] = "done"] \/ cc_pc' = [cc_pc EXCEPT ![x] = "running"]
    BY DEF GetLock, SkipHandler
  <2>4. cc_cancel' \in [Cpus -> BOOLEAN] /\ armed' \in [Callouts -> BOOLEAN]
    BY <1>0 DEF GetLock, TypeOK
  <2>5. UNCHANGED <<kind, callout, cc_curr, cc_waiting, cc_drain,
                    cc_migration_cpu, cc_local, sq_lock, pc, local>>
    BY DEF GetLock
  <2> QED
    BY <1>0, <2>1, <2>2, <2>3, <2>4, <2>5 DEF TypeOK, callout, lists
<1>3. /\ \A y \in Cpus \ {x} : SameCpu(y)
      /\ SameMovers /\ NoNewMovers
  BY <1>0 DEF GetLock, SkipHandler, TypeOK, SameCpu, SameMovers, NoNewMovers
<1>4. \A d \in Callouts \ {c} : SameCallout(d)
  BY <1>0, <1>1 DEF GetLock, SameCallout, TypeOK, callout, lists
<1>5. /\ kind' = kind /\ c_cpu' = c_cpu /\ c_iflags' = c_iflags /\ c_active' = c_active
      /\ wheel' = wheel /\ expireq' = expireq
      /\ cc_local' = cc_local /\ cc_curr' = cc_curr /\ cc_waiting' = cc_waiting
      /\ cc_drain' = cc_drain /\ cc_migration_cpu' = cc_migration_cpu
      /\ cc_cancel'[x] /\ pc' = pc /\ local' = local
      /\ \/ cc_cancel[x] /\ cc_pc'[x] = "done" /\ armed' = armed
            /\ waits' = [t \in Threads |-> waits[t] \ {x}]
         \/ ~ cc_cancel[x] /\ cc_pc'[x] = "running" /\ ~ armed'[c]
            /\ waits' = waits
  BY <1>0, <1>1 DEF GetLock, SkipHandler, TypeOK, callout, lists
<1>6. ASSUME NEW y \in Cpus, y = x \/ cc_local[y].c = c PROVE CpuInv(y)'
  <2>1. CASE y = x
    BY <1>0, <1>1, <1>5, <2>1 DEF CpuInv, InProgress, HasLock, callout_pending,
       callout_migrating, cc_cce_migrating
  <2>2. CASE y # x
    BY <1>3, <1>5, <2>2, IInv
    DEF IInv, CpuInv, SameCpu, InProgress, HasLock, callout_pending,
        callout_migrating, cc_cce_migrating, IdleSoftclock
  <2> QED
    BY <2>1, <2>2
<1>7. CalloutInv(c)'
  <2>1. ListInv(c)'
    BY <1>1, <1>5 DEF CalloutInv, ListInv, callout_pending, callout_migrating
  <2>2. Scheduled(c)' <=> armed'[c]
    BY <1>0, <1>1, <1>5 DEF CalloutInv, CpuInv, Scheduled, callout_pending,
       callout_migrating, cc_cce_migrating
  <2> QED
    BY <1>0, <1>1, <1>5, <2>1, <2>2
    DEF CalloutInv, callout_pending, callout_migrating, cc_cce_migrating
<1>8. ASSUME NEW u \in Threads PROVE ClientInv(u)'
  <2>1. ClientInv(u) /\ waits[u] \subseteq Cpus
    BY <1>0 DEF IInv, TypeOK
  <2>2. waits'[u] \subseteq waits[u]
    BY <1>5, <1>0 DEF TypeOK
  <2>3. \A y \in waits'[u] : cc_pc'[y] \in {"getlock", "running"}
    BY <1>3, <1>5, <2>1, <2>2 DEF SameCpu, ClientInv
  <2> QED
    BY <1>5, <2>1, <2>2, <2>3, ClientKept
<1>9. MoverInv'
  BY <1>3, MoverKept DEF IInv
<1> QED
  BY <1>0, <1>1, <1>2, <1>3, <1>4, <1>5, <1>6, <1>7, <1>8, <1>9, MovingKept, OneStep

(* HandlerUnlock(), Lock() and Unlock() *)
LEMMA LockStep ==
  ASSUME IInv, NEW c \in Callouts, NEW o \in Threads \cup Cpus \cup {NoOwner},
         c_lock' = [c_lock EXCEPT ![c] = o],
         UNCHANGED <<kind, callout, entity, softclock, sq_lock, client, armed>>
  PROVE  IInv'
<1>1. TypeOK'
  BY DEF IInv, TypeOK, callout, lists, entity, softclock, client
<1>2. /\ \A y \in Cpus : SameCpu(y)
      /\ \A d \in Callouts : SameCallout(d)
      /\ \A t \in Threads : SameClient(t)
  BY DEF SameCpu, SameCallout, SameClient, callout, lists, entity, softclock, client
<1> QED
  BY <1>1, <1>2, NothingChanges

(* callout_deactivate() *)
LEMMA DeactivateStep ==
  ASSUME IInv, NEW x \in Cpus, callout_deactivate(x)
  PROVE  IInv'
<1> PICK c \in Callouts :
         /\ ~ callout_pending(c)
         /\ c_active' = [c_active EXCEPT ![c] = FALSE]
         /\ UNCHANGED <<kind, c_cpu, c_iflags, lists, c_lock, entity, softclock,
                        sq_lock, client, armed>>
  BY DEF callout_deactivate
<1>1. TypeOK'
  BY DEF IInv, TypeOK, lists, entity, softclock, client
<1>2. /\ \A y \in Cpus : SameCpu(y)
      /\ \A d \in Callouts \ {c} : SameCallout(d)
      /\ SameMovers /\ NoNewMovers
  BY DEF IInv, TypeOK, SameCpu, SameCallout, lists, entity, softclock, client,
     SameMovers, NoNewMovers
<1>3. \A y \in Cpus : CpuInv(y)'
  BY DEF IInv, CpuInv, entity, softclock, InProgress, HasLock, callout_pending,
     callout_migrating, cc_cce_migrating
<1>4. CalloutInv(c)'
  BY DEF IInv, CalloutInv, ListInv, Scheduled, lists, entity, softclock, client,
     callout_pending, callout_migrating, cc_cce_migrating, Moving
<1>5. \A u \in Threads : ClientInv(u)'
  BY DEF IInv, ClientInv, softclock, client
<1>6. MoverInv'
  BY <1>2, MoverKept DEF IInv
<1> QED
  BY <1>1, <1>2, <1>3, <1>4, <1>5, <1>6, MovingKept, OneStep

(* HandlerReturn() *)
LEMMA HandlerReturnStep ==
  ASSUME IInv, NEW x \in Cpus, HandlerReturn(x)
  PROVE  IInv'
<1> USE CalloutAssumption
<1> PICK c \in Callouts : cc_local[x].c = c
  BY DEF IInv, CpuInv, HandlerReturn
<1>0. TypeOK /\ CpuInv(x) /\ cc_local[x].c = c /\ cc_pc[x] = "running"
  BY DEF IInv, HandlerReturn
<1>1. /\ c_cpu[c] = x /\ cc_curr[x] = c /\ CalloutInv(c)
  BY <1>0 DEF CpuInv, InProgress, IInv
<1>2. TypeOK'
  <2>1. waits' \in [Threads -> SUBSET Cpus]
    BY <1>0 DEF HandlerReturn, TypeOK
  <2>2. c_lock' \in [Callouts -> Threads \cup Cpus \cup {NoOwner}]
    BY <1>0 DEF HandlerReturn, TypeOK
  <2> QED
    BY <1>0, <2>1, <2>2 DEF HandlerReturn, TypeOK, callout, lists, entity
<1>3. /\ \A y \in Cpus \ {x} : SameCpu(y)
      /\ \A d \in Callouts : SameCallout(d)
      /\ SameMovers /\ NoNewMovers
  BY <1>0 DEF HandlerReturn, TypeOK, SameCpu, SameCallout, SameMovers,
     NoNewMovers, callout, lists, entity
<1>4. /\ UNCHANGED <<kind, callout, entity, cc_local, pc, local, armed>>
      /\ cc_pc'[x] = "done"
  BY <1>0 DEF HandlerReturn, TypeOK
<1>5. ASSUME NEW y \in Cpus PROVE CpuInv(y)'
  <2>1. CASE y = x
    BY <1>0, <1>4, <2>1 DEF CpuInv, InProgress, HasLock, callout_pending,
       callout_migrating, cc_cce_migrating, callout, entity
  <2>2. CASE y # x
    BY <1>3, <2>2, CpuKept DEF IInv, CpuInv
  <2> QED
    BY <2>1, <2>2
<1>6. CalloutInv(c)'
  <2>1. Scheduled(c)' <=> Scheduled(c)
    BY <1>0, <1>1, <1>4 DEF Scheduled, callout_pending, callout_migrating, callout, entity
  <2> QED
    BY <1>1, <1>0, <1>4, <2>1 DEF CalloutInv, ListInv, callout_pending,
       callout_migrating, cc_cce_migrating, callout, lists, entity
<1>7. ASSUME NEW u \in Threads PROVE ClientInv(u)'
  <2>1. ClientInv(u) /\ waits[u] \subseteq Cpus /\ waits'[u] = waits[u] \ {x}
    BY <1>0 DEF IInv, TypeOK, HandlerReturn
  <2>2. \A y \in waits'[u] : cc_pc'[y] \in {"getlock", "running"}
    BY <1>3, <2>1 DEF SameCpu, ClientInv
  <2> QED
    BY <1>4, <2>1, <2>2, ClientKept DEF callout
<1>8. MoverInv'
  BY <1>3, MoverKept DEF IInv
<1> QED
  BY <1>0, <1>1, <1>2, <1>3, <1>4, <1>5, <1>6, <1>7, <1>8, MovingKept, OneStep
     DEF entity

(* A client does not wait for an invocation that has ended. *)
LEMMA WaitsForNone ==
  ASSUME IInv, NEW x \in Cpus, cc_pc[x] \notin {"getlock", "running"},
         \A y \in Cpus \ {x} : SameCpu(y),
         NEW u \in Threads, SameClient(u),
         pc[u] = "switch" => c_cpu'[local[u].c] = c_cpu[local[u].c]
  PROVE  ClientInv(u)'
<1>1. ClientInv(u) /\ waits[u] \subseteq Cpus
  BY DEF IInv, TypeOK
<1>2. x \notin waits[u]
  BY <1>1 DEF ClientInv
<1>3. \A y \in waits'[u] : /\ cc_pc'[y] \in {"getlock", "running"}
                           /\ cc_local'[y].c = cc_local[y].c
  BY <1>1, <1>2 DEF SameCpu, SameClient, ClientInv
<1> QED
  BY <1>1, <1>3, ClientKept DEF SameClient

(* The function of callout_async_drain() is next. *)
LEMMA DoneDrainStep ==
  ASSUME IInv, NEW x \in Cpus, SoftclockDone(x), cc_drain[x]
  PROVE  IInv'
<1> USE CalloutAssumption
<1> PICK c \in Callouts : cc_local[x].c = c
  BY DEF IInv, CpuInv, SoftclockDone
<1>0. TypeOK /\ CpuInv(x) /\ cc_local[x].c = c /\ cc_pc[x] = "done"
  BY DEF IInv, SoftclockDone
<1>1. /\ c_cpu[c] = x /\ cc_curr[x] = c /\ CalloutInv(c)
  BY <1>0 DEF CpuInv, InProgress, IInv
<1>2. /\ cc_curr' = [cc_curr EXCEPT ![x] = NoCallout]
      /\ cc_drain' = [cc_drain EXCEPT ![x] = FALSE]
      /\ cc_pc' = [cc_pc EXCEPT ![x] = "drain"]
      /\ UNCHANGED <<kind, callout, cc_cancel, cc_waiting, cc_migration_cpu,
                     cc_local, c_lock, sq_lock, client, armed>>
  BY DEF SoftclockDone, callout
<1>3. TypeOK'
  BY <1>0, <1>2 DEF TypeOK, callout, lists, client
<1>4. /\ \A y \in Cpus \ {x} : SameCpu(y)
      /\ \A d \in Callouts : SameCallout(d)
      /\ \A t \in Threads : SameClient(t)
      /\ SameMovers /\ NoNewMovers
  BY <1>0, <1>2 DEF TypeOK, SameCpu, SameCallout, SameClient, SameMovers,
     NoNewMovers, callout, lists, client
<1>5. ASSUME NEW y \in Cpus PROVE CpuInv(y)'
  <2>1. CASE y = x
    BY <1>0, <1>1, <1>2, <2>1 DEF TypeOK, CpuInv, InProgress, HasLock, callout_pending,
       callout_migrating, cc_cce_migrating, callout
  <2>2. CASE y # x
    BY <1>4, <2>2, CpuKept DEF IInv, CpuInv
  <2> QED
    BY <2>1, <2>2
<1>6. CalloutInv(c)'
  <2>1. Scheduled(c)' <=> Scheduled(c)
    BY <1>0, <1>1, <1>2 DEF TypeOK, Scheduled, callout_pending, callout_migrating, callout
  <2> QED
    BY <1>1, <1>2, <2>1 DEF CalloutInv, ListInv, callout_pending,
       callout_migrating, cc_cce_migrating, callout, lists
<1>7. ASSUME NEW u \in Threads PROVE ClientInv(u)'
  BY <1>0, <1>2, <1>4, WaitsForNone DEF callout
<1>8. MoverInv'
  BY <1>4, MoverKept DEF IInv
<1>9. cc_curr[x] \in {c, NoCallout} /\ cc_curr'[x] \in {c, NoCallout}
  BY <1>0, <1>1, <1>2 DEF TypeOK
<1>10. \A d \in Callouts : Moving(d) => Moving(d)'
  BY <1>4, MovingKept
<1> QED
  BY <1>0, <1>3, <1>4, <1>5, <1>6, <1>7, <1>8, <1>9, <1>10, OneStep

(* What SoftclockDone() without a drain function and DrainFunction() do    *)
(* but for Tail().                                                         *)
TailOf(x) ==
  /\ cc_pc[x] \in {"done", "drain"}
  /\ cc_curr' = [cc_curr EXCEPT ![x] = NoCallout]
  /\ Tail(x)
  /\ UNCHANGED <<kind, c_active, lists, c_lock, cc_drain, sq_lock, client>>

(* Of a callout that is to migrate when its handler is done nobody else    *)
(* knows, also while the function of callout_async_drain() is called.      *)
LEMMA TailKnows ==
  ASSUME IInv, NEW x \in Cpus, TailOf(x), cc_cce_migrating(x)
  PROVE  /\ cc_pc[x] \in {"done", "drain"}
         /\ cc_local[x].c \in Callouts
         /\ c_cpu[cc_local[x].c] = x
         /\ callout_migrating(cc_local[x].c)
         /\ armed[cc_local[x].c]
         /\ cc_waiting[x] => ~ callout_pending(cc_local[x].c)
         /\ \A y \in Cpus \ {x} : cc_local[y].c = cc_local[x].c => LetsGo(y)
         /\ \A t \in Threads :
              pc[t] = "switch" => local[t].c # cc_local[x].c
<1>1. CpuInv(x) /\ cc_pc[x] \in {"done", "drain"}
  BY DEF IInv, TailOf
<1>2. /\ cc_local[x].c \in Callouts
      /\ c_cpu[cc_local[x].c] = x
      /\ callout_migrating(cc_local[x].c)
      /\ cc_waiting[x] => ~ callout_pending(cc_local[x].c)
  BY <1>1 DEF CpuInv, InProgress
<1>3. armed[cc_local[x].c]
  BY <1>2 DEF IInv, CalloutInv, Scheduled
<1>4. \A y \in Cpus \ {x} : cc_local[y].c = cc_local[x].c => LetsGo(y)
  BY <1>2, CalloutAssumption DEF IInv, TypeOK, CpuInv, InProgress, LetsGo
<1>5. \A t \in Threads : pc[t] = "switch" => local[t].c # cc_local[x].c
  BY <1>2, CalloutAssumption DEF IInv, ClientInv
<1> QED
  BY <1>1, <1>2, <1>3, <1>4, <1>5

(* A thread waits in callout_drain(), which cancels a migration. *)
LEMMA TailWakesStep ==
  ASSUME IInv, NEW x \in Cpus, TailOf(x), cc_waiting[x], cc_cce_migrating(x)
  PROVE  IInv'
<1> USE CalloutAssumption
<1> PICK c \in Callouts : cc_local[x].c = c
  BY TailKnows
<1>0. TypeOK /\ CpuInv(x) /\ cc_local[x].c = c /\ CalloutInv(c)
  BY DEF IInv
<1>1. /\ c_cpu[c] = x /\ ~ callout_pending(c) /\ callout_migrating(c)
      /\ \A y \in Cpus \ {x} : cc_local[y].c = c => LetsGo(y)
      /\ cc_pc[x] \in {"done", "drain"}
  BY <1>0, TailKnows
<1>2. /\ cc_waiting' = [cc_waiting EXCEPT ![x] = FALSE]
      /\ cc_pc' = [cc_pc EXCEPT ![x] = "wakeup"]
      /\ cc_curr' = [cc_curr EXCEPT ![x] = NoCallout]
      /\ UNCHANGED <<kind, c_cpu, c_active, lists, c_lock, cc_drain, cc_local,
                     sq_lock, client>>
      /\ cc_cancel' = [cc_cancel EXCEPT ![x] = FALSE]
      /\ cc_migration_cpu' = [cc_migration_cpu EXCEPT ![x] = CPUBLOCK]
      /\ c_iflags' = [c_iflags EXCEPT ![c] = @ \ {"DFRMIGRATION"}]
      /\ armed' = [armed EXCEPT ![c] = FALSE]
  BY <1>0 DEF TailOf, Tail, Unmigrate, cc_cce_cleanup
<1>3. TypeOK'
  <2>1. c_iflags' \in [Callouts -> SUBSET IFlags]
    BY <1>0, <1>2 DEF TypeOK
  <2>2. cc_migration_cpu' \in [Cpus -> Cpus \cup {CPUBLOCK}]
    BY <1>0, <1>2 DEF TypeOK
  <2> QED
    BY <1>0, <1>2, <2>1, <2>2 DEF TypeOK, lists, client
<1>4. /\ \A y \in Cpus \ {x} : SameCpu(y)
      /\ \A d \in Callouts \ {c} : SameCallout(d)
      /\ \A t \in Threads : SameClient(t)
      /\ SameMovers /\ NoNewMovers
  BY <1>0, <1>1, <1>2 DEF TypeOK, SameCpu, SameCallout, SameClient, SameMovers,
     NoNewMovers, lists, client
<1>5. /\ c_iflags'[c] = c_iflags[c] \ {"DFRMIGRATION"}
      /\ ~ cc_cce_migrating(x)' /\ ~ cc_waiting'[x] /\ cc_curr'[x] = NoCallout
      /\ cc_pc'[x] = "wakeup" /\ ~ armed'[c]
  BY <1>0, <1>1, <1>2 DEF TypeOK, cc_cce_migrating
<1>6. ASSUME NEW y \in Cpus, y = x \/ cc_local[y].c = c PROVE CpuInv(y)'
  <2>1. CASE y = x
    BY <1>0, <1>2, <1>5, <2>1 DEF CpuInv, InProgress
  <2>2. CASE y # x
    BY <1>1, <1>4, <1>6, <2>2, CpuLetsGo DEF IInv
  <2> QED
    BY <2>1, <2>2
<1>7. CalloutInv(c)'
  <2>1. ListInv(c)'
    BY <1>0, <1>1, <1>2, <1>5 DEF CalloutInv, ListInv, callout_pending,
       callout_migrating, lists
  <2>2. ~ Scheduled(c)'
    BY <1>1, <1>2, <1>5 DEF Scheduled, callout_pending, callout_migrating
  <2> QED
    BY <1>0, <1>1, <1>2, <1>5, <2>1, <2>2
    DEF CalloutInv, callout_pending, callout_migrating
<1>8. ASSUME NEW u \in Threads PROVE ClientInv(u)'
  BY <1>1, <1>2, <1>4, WaitsForNone
<1>9. MoverInv'
  BY <1>4, MoverKept DEF IInv
<1> QED
  BY <1>0, <1>1, <1>3, <1>4, <1>5, <1>6, <1>7, <1>8, <1>9, MovingKept, OneStep

(* The migration that a client has asked for meanwhile. *)
LEMMA TailMigratesStep ==
  ASSUME IInv, NEW x \in Cpus, TailOf(x), ~ cc_waiting[x], cc_cce_migrating(x)
  PROVE  IInv'
<1> USE CalloutAssumption
<1> PICK c \in Callouts : cc_local[x].c = c
  BY TailKnows
<1>0. TypeOK /\ CpuInv(x) /\ cc_local[x].c = c /\ CalloutInv(c)
  BY DEF IInv
<1>1. /\ c_cpu[c] = x
      /\ callout_migrating(c) /\ cc_pc[x] \in {"done", "drain"} /\ armed[c]
      /\ \A y \in Cpus \ {x} : cc_local[y].c = c => LetsGo(y)
      /\ \A t \in Threads : pc[t] = "switch" => local[t].c # c
  BY <1>0, TailKnows
<1>2. /\ cc_cancel' = [cc_cancel EXCEPT ![x] = FALSE]
      /\ cc_migration_cpu' = [cc_migration_cpu EXCEPT ![x] = CPUBLOCK]
      /\ c_iflags' = [c_iflags EXCEPT ![c] = @ \ {"DFRMIGRATION"}]
      /\ c_cpu' = [c_cpu EXCEPT ![c] = CPUBLOCK]
      /\ cc_local' = [cc_local EXCEPT ![x].new_cpu = cc_migration_cpu[x]]
      /\ cc_pc' = [cc_pc EXCEPT ![x] = "switch"]
      /\ cc_curr' = [cc_curr EXCEPT ![x] = NoCallout]
      /\ UNCHANGED <<kind, c_active, lists, c_lock, cc_waiting, cc_drain,
                     sq_lock, client, armed>>
  BY <1>0, <1>1 DEF TailOf, Tail, Unmigrate, cc_cce_cleanup, TakeMigration,
     MigrationStopped
<1>3. TypeOK'
  <2>1. /\ c_iflags' \in [Callouts -> SUBSET IFlags]
        /\ c_cpu' \in [Callouts -> Cpus \cup {CPUBLOCK}]
    BY <1>0, <1>2 DEF TypeOK
  <2>2. /\ cc_local' \in [Cpus -> [c : Callouts \cup {NoCallout},
                                   new_cpu : Cpus \cup {CPUBLOCK}]]
        /\ cc_local'[x].new_cpu \in Cpus /\ cc_local'[x].c = c
        /\ \A y \in Cpus \ {x} : cc_local'[y] = cc_local[y]
    BY <1>0, <1>2 DEF TypeOK, cc_cce_migrating
  <2>3. cc_migration_cpu' \in [Cpus -> Cpus \cup {CPUBLOCK}]
    BY <1>0, <1>2 DEF TypeOK
  <2>4. \A y \in Cpus : cc_pc'[y] = "switch" => cc_local'[y].new_cpu \in Cpus
    BY <1>0, <1>2, <2>2 DEF TypeOK
  <2> QED
    BY <1>0, <1>2, <2>1, <2>2, <2>3, <2>4 DEF TypeOK, lists, client
<1>4. /\ \A y \in Cpus \ {x} : SameCpu(y)
      /\ \A d \in Callouts \ {c} : SameCallout(d)
      /\ \A t \in Threads : SameClient(t)
      /\ SameMovers
  BY <1>0, <1>1, <1>2 DEF TypeOK, SameCpu, SameCallout, SameClient, SameMovers,
     lists, client
<1>5. /\ c_iflags'[c] = c_iflags[c] \ {"DFRMIGRATION"} /\ c_cpu'[c] = CPUBLOCK
      /\ ~ cc_cce_migrating(x)' /\ ~ cc_waiting'[x] /\ cc_curr'[x] = NoCallout
      /\ cc_pc'[x] = "switch" /\ cc_local'[x].c = c
  BY <1>0, <1>1, <1>2 DEF TypeOK, cc_cce_migrating
<1>6. ASSUME NEW y \in Cpus, y = x \/ cc_local[y].c = c PROVE CpuInv(y)'
  <2>1. CASE y = x
    BY <1>0, <1>2, <1>5, <2>1 DEF CpuInv, InProgress
  <2>2. CASE y # x
    BY <1>1, <1>4, <1>6, <2>2, CpuLetsGo DEF IInv
  <2> QED
    BY <2>1, <2>2
<1>7. CalloutInv(c)'
  <2>1. ListInv(c)'
    BY <1>0, <1>1, <1>2, <1>5 DEF CalloutInv, ListInv, lists
  <2>2. Scheduled(c)'
    BY <1>5 DEF Scheduled
  <2>3. Moving(c)'
    BY <1>5 DEF Moving
  <2> QED
    BY <1>0, <1>1, <1>2, <1>5, <2>1, <2>2, <2>3
    DEF CalloutInv, callout_pending, callout_migrating
<1>8. ASSUME NEW u \in Threads PROVE ClientInv(u)'
  <2>1. pc[u] = "switch" => c_cpu'[local[u].c] = c_cpu[local[u].c]
    BY <1>0, <1>1, <1>2 DEF TypeOK
  <2> QED
    BY <1>1, <1>4, <2>1, WaitsForNone
<1>9. MoverInv'
  BY <1>1, <1>2, <1>4, <1>5 DEF IInv, MoverInv, SameCpu, LetsGo, client
<1> QED
  BY <1>0, <1>1, <1>3, <1>4, <1>5, <1>6, <1>7, <1>8, <1>9, MovingKept, OneStep

(* Nothing is to migrate, and the callout may be anywhere by now: back on  *)
(* a list of this CPU, or on another.                                      *)
LEMMA TailEndsStep ==
  ASSUME IInv, NEW x \in Cpus, TailOf(x), ~ cc_cce_migrating(x)
  PROVE  IInv'
<1> USE CalloutAssumption
<1>0. TypeOK /\ CpuInv(x) /\ cc_pc[x] \in {"done", "drain"} /\ cc_local[x].c \in Callouts
  BY DEF IInv, TailOf, CpuInv
<1>1. /\ cc_curr' = [cc_curr EXCEPT ![x] = NoCallout]
      /\ UNCHANGED <<kind, callout, c_lock, cc_drain, sq_lock, client, armed>>
      /\ cc_waiting' = [cc_waiting EXCEPT ![x] = FALSE]
      /\ cc_migration_cpu' = [cc_migration_cpu EXCEPT ![x] = CPUBLOCK]
      /\ cc_cancel' = cc_cancel
      /\ \/ cc_pc' = [cc_pc EXCEPT ![x] = "wakeup"] /\ cc_local' = cc_local
         \/ /\ cc_pc' = [cc_pc EXCEPT ![x] = "idle"]
            /\ cc_local' = [cc_local EXCEPT ![x] = IdleSoftclock]
  <2>1. CASE cc_waiting[x]
    <3>1. cc_migration_cpu = [cc_migration_cpu EXCEPT ![x] = CPUBLOCK]
      BY <1>0 DEF TypeOK, cc_cce_migrating
    <3> QED
      BY <2>1, <3>1 DEF TailOf, Tail, callout
  <2>2. CASE ~ cc_waiting[x]
    <3>1. /\ cc_waiting = [cc_waiting EXCEPT ![x] = FALSE]
          /\ cc_cancel = [cc_cancel EXCEPT ![x] = @ /\ ~ cc_cce_migrating(x)]
      BY <1>0, <2>2 DEF TypeOK
    <3> QED
      BY <2>2, <3>1 DEF TailOf, Tail, callout
  <2> QED
    BY <2>1, <2>2
<1>2. TypeOK'
  <2>1. /\ cc_local' \in [Cpus -> [c : Callouts \cup {NoCallout},
                                   new_cpu : Cpus \cup {CPUBLOCK}]]
        /\ \A y \in Cpus : cc_pc'[y] = "switch" => cc_local'[y].new_cpu \in Cpus
    <3>1. CASE cc_pc' = [cc_pc EXCEPT ![x] = "wakeup"] /\ cc_local' = cc_local
      BY <1>0, <3>1 DEF TypeOK
    <3>2. CASE /\ cc_pc' = [cc_pc EXCEPT ![x] = "idle"]
               /\ cc_local' = [cc_local EXCEPT ![x] = IdleSoftclock]
      BY <1>0, <3>2 DEF TypeOK, IdleSoftclock
    <3> QED
      BY <1>1, <3>1, <3>2
  <2>2. cc_pc' \in [Cpus -> {"idle", "getlock", "running", "done", "drain",
                            "wakeup", "switch"}]
    BY <1>0, <1>1 DEF TypeOK
  <2>3. cc_migration_cpu' \in [Cpus -> Cpus \cup {CPUBLOCK}]
    BY <1>0, <1>1 DEF TypeOK
  <2>4. cc_curr' \in [Cpus -> Callouts \cup {NoCallout}] /\ cc_waiting' \in [Cpus -> BOOLEAN]
    BY <1>0, <1>1 DEF TypeOK
  <2> QED
    BY <1>0, <1>1, <2>1, <2>2, <2>3, <2>4 DEF TypeOK, callout, lists, client
<1>3. /\ \A y \in Cpus \ {x} : SameCpu(y)
      /\ \A d \in Callouts : SameCallout(d)
      /\ \A t \in Threads : SameClient(t)
      /\ SameMovers /\ NoNewMovers
  BY <1>0, <1>1 DEF TypeOK, SameCpu, SameCallout, SameClient, SameMovers,
     NoNewMovers, callout, lists, client
<1>4. /\ ~ cc_cce_migrating(x)' /\ ~ cc_waiting'[x] /\ cc_curr'[x] = NoCallout
      /\ \/ cc_pc'[x] = "wakeup" /\ cc_local'[x] = cc_local[x]
         \/ cc_pc'[x] = "idle" /\ cc_local'[x] = IdleSoftclock
  BY <1>0, <1>1 DEF TypeOK, cc_cce_migrating
<1>5. ASSUME NEW y \in Cpus PROVE CpuInv(y)'
  <2>1. CASE y = x
    BY <1>0, <1>4, <2>1 DEF CpuInv, InProgress, IdleSoftclock
  <2>2. CASE y # x
    BY <1>3, <2>2, CpuKept DEF IInv
  <2> QED
    BY <2>1, <2>2
<1>6. ASSUME NEW d \in Callouts PROVE CalloutInv(d)'
  <2>1. CalloutInv(d) /\ SameCallout(d) /\ (c_cpu[d] = CPUBLOCK => Moving(d)')
    BY <1>3, MovingKept DEF IInv, CalloutInv
  <2>2. c_cpu[d] = x => ~ callout_migrating(d)
    BY <2>1 DEF CalloutInv
  <2>3. cc_pc[x] # "getlock" /\ cc_pc'[x] # "getlock"
    BY <1>0, <1>4
  <2> QED
    BY <1>0, <1>3, <2>1, <2>2, <2>3, CalloutKept
<1>7. ASSUME NEW u \in Threads PROVE ClientInv(u)'
  BY <1>0, <1>1, <1>3, WaitsForNone DEF callout
<1>8. MoverInv'
  BY <1>3, MoverKept DEF IInv
<1> QED
  BY <1>2, <1>5, <1>6, <1>7, <1>8 DEF IInv

(* SoftclockDone() and DrainFunction() *)
LEMMA DoneStep ==
  ASSUME IInv, NEW x \in Cpus, SoftclockDone(x) \/ DrainFunction(x)
  PROVE  IInv'
<1>1. CASE SoftclockDone(x) /\ cc_drain[x]
  BY <1>1, DoneDrainStep
<1>2. CASE SoftclockDone(x) /\ ~ cc_drain[x]
  <2>1. TailOf(x)
    BY <1>2 DEF TailOf, SoftclockDone
  <2> QED
    BY <2>1, TailWakesStep, TailMigratesStep, TailEndsStep
<1>3. CASE DrainFunction(x)
  <2>1. TypeOK /\ CpuInv(x)
    BY DEF IInv
  <2>2. cc_curr[x] = NoCallout
    BY <1>3, <2>1 DEF DrainFunction, CpuInv, InProgress
  <2>3. cc_curr = [cc_curr EXCEPT ![x] = NoCallout]
    BY <2>1, <2>2 DEF TypeOK
  <2>4. TailOf(x)
    BY <1>3, <2>3 DEF TailOf, DrainFunction
  <2> QED
    BY <2>4, TailWakesStep, TailMigratesStep, TailEndsStep
<1> QED
  BY <1>1, <1>2, <1>3

(* WakeDrainers() *)
LEMMA WakeStep ==
  ASSUME IInv, NEW x \in Cpus, WakeDrainers(x)
  PROVE  IInv'
<1> USE CalloutAssumption
<1> PICK c \in Callouts : cc_local[x].c = c
  BY DEF IInv, CpuInv, WakeDrainers
<1>0. TypeOK /\ CpuInv(x) /\ cc_pc[x] = "wakeup"
  BY DEF IInv, WakeDrainers
<1>1. /\ cc_curr[x] = NoCallout /\ ~ cc_cce_migrating(x) /\ ~ cc_waiting[x]
  BY <1>0 DEF CpuInv, InProgress
<1>2. /\ pc' = [t \in Threads |-> IF pc[t] = "asleep" /\ local[t].cpu = x
                                  THEN "relock" ELSE pc[t]]
      /\ cc_pc' = [cc_pc EXCEPT ![x] = "idle"]
      /\ cc_local' = [cc_local EXCEPT ![x] = IdleSoftclock]
      /\ UNCHANGED <<kind, callout, c_lock, entity, sq_lock, local, waits, armed>>
  BY DEF WakeDrainers
<1>3. TypeOK'
  <2>1. pc' \in [Threads -> {"caller", "switch", "again", "sqlock", "add",
                            "asleep", "relock"}]
    BY <1>0, <1>2 DEF TypeOK
  <2>2. /\ cc_local' \in [Cpus -> [c : Callouts \cup {NoCallout},
                                   new_cpu : Cpus \cup {CPUBLOCK}]]
        /\ \A y \in Cpus : cc_pc'[y] = "switch" => cc_local'[y].new_cpu \in Cpus
    BY <1>0, <1>2 DEF TypeOK, IdleSoftclock
  <2> QED
    BY <1>0, <1>2, <2>1, <2>2 DEF TypeOK, callout, lists, entity
<1>4. /\ \A y \in Cpus \ {x} : SameCpu(y)
      /\ \A d \in Callouts : SameCallout(d)
      /\ SameMovers /\ NoNewMovers
  BY <1>0, <1>2 DEF TypeOK, SameCpu, SameCallout, SameMovers, NoNewMovers,
     callout, lists, entity
<1>5. /\ ~ cc_cce_migrating(x)' /\ ~ cc_waiting'[x] /\ cc_curr'[x] = NoCallout
      /\ cc_pc'[x] = "idle" /\ cc_local'[x] = IdleSoftclock
  BY <1>0, <1>1, <1>2 DEF TypeOK, cc_cce_migrating, entity
<1>6. ASSUME NEW y \in Cpus PROVE CpuInv(y)'
  <2>1. CASE y = x
    BY <1>5, <2>1 DEF CpuInv, InProgress, IdleSoftclock
  <2>2. CASE y # x
    BY <1>4, <2>2, CpuKept DEF IInv
  <2> QED
    BY <2>1, <2>2
<1>7. CalloutInv(c)'
  <2>1. CalloutInv(c) /\ SameCallout(c) /\ (c_cpu[c] = CPUBLOCK => Moving(c)')
    BY <1>4, MovingKept DEF IInv, CalloutInv
  <2>2. c_cpu[c] = x => ~ callout_migrating(c)
    BY <1>1, <2>1 DEF CalloutInv
  <2> QED
    BY <1>0, <1>1, <1>4, <1>5, <2>1, <2>2, CalloutKept
<1>8. ASSUME NEW u \in Threads PROVE ClientInv(u)'
  <2>1. ClientInv(u) /\ waits[u] \subseteq Cpus
    BY <1>0 DEF IInv, TypeOK
  <2>2. \A y \in waits[u] : y # x /\ SameCpu(y)
    BY <1>0, <1>4, <2>1 DEF ClientInv
  <2>3. /\ pc'[u] \in {pc[u], "relock"} /\ (pc'[u] # pc[u] => pc[u] = "asleep")
        /\ UNCHANGED <<local, waits, c_cpu>>
    BY <1>2 DEF callout
  <2> QED
    BY <2>1, <2>2, <2>3 DEF ClientInv, SameCpu
<1>9. MoverInv'
  BY <1>4, MoverKept DEF IInv
<1> QED
  BY <1>1, <1>3, <1>4, <1>5, <1>6, <1>7, <1>8, <1>9, MovingKept, OneStep

(* Of a callout that moves nobody else knows. *)
LEMMA MovingAlone ==
  ASSUME IInv, NEW c \in Callouts, c_cpu[c] = CPUBLOCK
  PROVE  /\ ~ callout_migrating(c) /\ armed[c]
         /\ \A y \in Cpus : c \notin wheel[y] /\ c \notin expireq[y]
         /\ \A y \in Cpus : cc_local[y].c = c => LetsGo(y) \/ cc_pc[y] = "switch"
<1>1. CalloutInv(c)
  BY DEF IInv
<1>2. \A y \in Cpus : cc_local[y].c = c => LetsGo(y) \/ cc_pc[y] = "switch"
  <2> SUFFICES ASSUME NEW y \in Cpus, cc_local[y].c = c, cc_pc[y] # "switch"
               PROVE  LetsGo(y)
    OBVIOUS
  <2>1. TypeOK /\ CpuInv(y) /\ y # CPUBLOCK
    BY CalloutAssumption DEF IInv
  <2> QED
    BY <2>1 DEF TypeOK, CpuInv, InProgress, LetsGo
<1> QED
  BY <1>1, <1>2, CalloutAssumption DEF CalloutInv, ListInv, Scheduled

(* callout_cc_add() of a callout that nobody else knows. *)
LEMMA AddedCallout ==
  ASSUME IInv, NEW c \in Callouts, c_cpu[c] = CPUBLOCK, NEW n \in Cpus,
         c_cpu' = [c_cpu EXCEPT ![c] = n], callout_cc_add(c, n, wheel),
         UNCHANGED <<kind, expireq, armed>>
  PROVE  /\ CalloutInv(c)'
         /\ \A d \in Callouts \ {c} : SameCallout(d)
         /\ wheel' \in [Cpus -> SUBSET Callouts]
         /\ c_iflags' \in [Callouts -> SUBSET IFlags]
         /\ c_active' \in [Callouts -> BOOLEAN]
         /\ c_cpu' \in [Callouts -> Cpus \cup {CPUBLOCK}]
<1> USE CalloutAssumption
<1>0. TypeOK /\ CalloutInv(c)
  BY DEF IInv
<1>1. /\ c_iflags'[c] = (c_iflags[c] \cup {"PENDING"}) \ {"PROCESSED"}
      /\ c_cpu'[c] = n /\ c_active'[c]
      /\ \A y \in Cpus : c \in wheel'[y] <=> c \in wheel[y] \/ y = n
  BY <1>0 DEF callout_cc_add, TypeOK
<1>2. ListInv(c)'
  BY <1>1, MovingAlone DEF ListInv, callout_pending, callout_migrating
<1>3. Scheduled(c)' /\ armed'[c]
  BY <1>1, MovingAlone DEF Scheduled, callout_pending
<1>4. CalloutInv(c)'
  BY <1>1, <1>2, <1>3, MovingAlone DEF CalloutInv, callout_pending, callout_migrating
<1>5. \A d \in Callouts \ {c} : SameCallout(d)
  BY <1>0 DEF TypeOK, SameCallout, callout_cc_add
<1>6. /\ wheel' \in [Cpus -> SUBSET Callouts]
      /\ c_active' \in [Callouts -> BOOLEAN]
      /\ c_cpu' \in [Callouts -> Cpus \cup {CPUBLOCK}]
  BY <1>0 DEF TypeOK, callout_cc_add
<1>7. c_iflags' \in [Callouts -> SUBSET IFlags]
  BY <1>0 DEF TypeOK, callout_cc_add, IFlags
<1> QED
  BY <1>4, <1>5, <1>6, <1>7

(* MigrationDone() *)
LEMMA MigrationDoneStep ==
  ASSUME IInv, NEW x \in Cpus, MigrationDone(x)
  PROVE  IInv'
<1> USE CalloutAssumption
<1> PICK c \in Callouts : cc_local[x].c = c
  BY DEF IInv, CpuInv, MigrationDone
<1>0. TypeOK /\ CpuInv(x) /\ cc_pc[x] = "switch" /\ cc_local[x].c = c
  BY DEF IInv, MigrationDone
<1> PICK n \in Cpus : cc_local[x].new_cpu = n
  BY <1>0 DEF TypeOK
<1>1. /\ cc_curr[x] = NoCallout /\ ~ cc_cce_migrating(x) /\ ~ cc_waiting[x]
      /\ c_cpu[c] = CPUBLOCK
  BY <1>0 DEF CpuInv, InProgress
<1>2. /\ c_cpu' = [c_cpu EXCEPT ![c] = n]
      /\ callout_cc_add(c, n, wheel)
      /\ cc_pc' = [cc_pc EXCEPT ![x] = "idle"]
      /\ cc_local' = [cc_local EXCEPT ![x] = IdleSoftclock]
      /\ UNCHANGED <<kind, expireq, c_lock, entity, sq_lock, client, armed>>
  BY <1>0 DEF MigrationDone
<1>3. /\ CalloutInv(c)' /\ \A d \in Callouts \ {c} : SameCallout(d)
      /\ wheel' \in [Cpus -> SUBSET Callouts]
      /\ c_iflags' \in [Callouts -> SUBSET IFlags]
      /\ c_active' \in [Callouts -> BOOLEAN]
      /\ c_cpu' \in [Callouts -> Cpus \cup {CPUBLOCK}]
  BY <1>1, <1>2, AddedCallout
<1>4. TypeOK'
  <2>1. /\ cc_local' \in [Cpus -> [c : Callouts \cup {NoCallout},
                                   new_cpu : Cpus \cup {CPUBLOCK}]]
        /\ \A y \in Cpus : cc_pc'[y] = "switch" => cc_local'[y].new_cpu \in Cpus
    BY <1>0, <1>2 DEF TypeOK, IdleSoftclock
  <2> QED
    BY <1>0, <1>2, <1>3, <2>1 DEF TypeOK, entity, client
<1>5. /\ \A y \in Cpus \ {x} : SameCpu(y)
      /\ \A t \in Threads : SameClient(t)
      /\ NoNewMovers
      /\ \A d \in Callouts \ {c} : Moving(d) => Moving(d)'
  BY <1>0, <1>2 DEF TypeOK, SameCpu, SameClient, NoNewMovers, Moving, entity, client
<1>6. /\ ~ cc_cce_migrating(x)' /\ ~ cc_waiting'[x] /\ cc_curr'[x] = NoCallout
      /\ cc_pc'[x] = "idle" /\ cc_local'[x] = IdleSoftclock
  BY <1>0, <1>1, <1>2 DEF TypeOK, cc_cce_migrating, entity
<1>7. ASSUME NEW y \in Cpus, y = x \/ cc_local[y].c = c PROVE CpuInv(y)'
  <2>1. CASE y = x
    BY <1>6, <2>1 DEF CpuInv, InProgress, IdleSoftclock
  <2>2. CASE y # x
    <3>1. cc_pc[y] # "switch"
      BY <1>0, <1>7, <2>2 DEF IInv, MoverInv
    <3>2. CpuInv(y) /\ SameCpu(y) /\ LetsGo(y)
      BY <1>1, <1>5, <1>7, <2>2, <3>1, MovingAlone DEF IInv
    <3> QED
      BY <3>2, CpuLetsGo
  <2> QED
    BY <2>1, <2>2
<1>8. ASSUME NEW u \in Threads PROVE ClientInv(u)'
  <2>1. pc[u] = "switch" => local[u].c # c
    BY <1>0 DEF IInv, MoverInv
  <2>2. pc[u] = "switch" => c_cpu'[local[u].c] = c_cpu[local[u].c]
    BY <1>0, <1>2, <2>1 DEF TypeOK
  <2> QED
    BY <1>0, <1>5, <2>2, WaitsForNone
<1>9. MoverInv'
  BY <1>5, MoverKept DEF IInv
<1> QED
  BY <1>1, <1>3, <1>4, <1>5, <1>6, <1>7, <1>8, <1>9, OneStep

-----------------------------------------------------------------------------
(* The calls of clients and of handlers. *)

(* Off the list it is on, if it is on one. *)
LEMMA Removed ==
  ASSUME IInv, NEW c \in Callouts, NEW x \in Cpus, c_cpu[c] = x
  PROVE  /\ WheelWithout(c, x) \in [Cpus -> SUBSET Callouts]
         /\ ExpireqWithout(c, x) \in [Cpus -> SUBSET Callouts]
         /\ \A y \in Cpus : /\ c \notin WheelWithout(c, x)[y]
                            /\ c \notin ExpireqWithout(c, x)[y]
         /\ \A d \in Callouts \ {c}, y \in Cpus :
              /\ d \in WheelWithout(c, x)[y] <=> d \in wheel[y]
              /\ d \in ExpireqWithout(c, x)[y] <=> d \in expireq[y]
<1>1. TypeOK /\ ListInv(c)
  BY DEF IInv, CalloutInv
<1>2. CASE "PROCESSED" \in c_iflags[c]
  BY <1>1, <1>2 DEF TypeOK, ListInv, WheelWithout, ExpireqWithout
<1>3. CASE "PROCESSED" \notin c_iflags[c]
  BY <1>1, <1>3 DEF TypeOK, ListInv, WheelWithout, ExpireqWithout
<1> QED
  BY <1>2, <1>3

(* Who has a callout in hand that is not moving. *)
LEMMA InHands ==
  ASSUME IInv, NEW c \in Callouts, NEW x \in Cpus, c_cpu[c] = x
  PROVE  /\ \A y \in Cpus \ {x} : cc_local[y].c = c => LetsGo(y)
         /\ cc_local[x].c = c => cc_pc[x] # "switch"
         /\ cc_curr[x] = c <=> cc_local[x].c = c /\ cc_pc[x] \in InProgress
         /\ cc_curr[x] = c => (callout_migrating(c) <=> cc_cce_migrating(x))
         /\ callout_migrating(c) => cc_curr[x] = c \/ DrainWindow(c)
         /\ cc_local[x].c = c /\ cc_curr[x] # c /\ ~ DrainWindow(c) => LetsGo(x)
         /\ \A t \in Threads : pc[t] = "switch" => local[t].c # c
<1> USE CalloutAssumption
<1>0. CpuInv(x) /\ CalloutInv(c)
  BY DEF IInv
<1>1. \A y \in Cpus \ {x} : cc_local[y].c = c => LetsGo(y)
  BY DEF IInv, TypeOK, CpuInv, InProgress, LetsGo
<1>2. cc_local[x].c = c => cc_pc[x] # "switch"
  BY <1>0 DEF CpuInv
<1>3. cc_curr[x] = c <=> cc_local[x].c = c /\ cc_pc[x] \in InProgress
  BY <1>0 DEF CpuInv, InProgress
<1>4. cc_curr[x] = c => (callout_migrating(c) <=> cc_cce_migrating(x))
  BY <1>0, <1>3 DEF CpuInv, CalloutInv
<1>5. callout_migrating(c) => cc_curr[x] = c \/ DrainWindow(c)
  BY <1>0, <1>3 DEF CpuInv, CalloutInv, DrainWindow
<1>6. cc_local[x].c = c /\ cc_curr[x] # c /\ ~ DrainWindow(c) => LetsGo(x)
  BY <1>0, <1>2, <1>3 DEF IInv, TypeOK, CpuInv, DrainWindow, InProgress, LetsGo
<1>7. \A t \in Threads : pc[t] = "switch" => local[t].c # c
  BY DEF IInv, ClientInv
<1> QED
  BY <1>1, <1>2, <1>3, <1>4, <1>5, <1>6, <1>7

(* A callout that is neither on a list nor in progress is not scheduled,   *)
(* but while the function of callout_async_drain() is called.              *)
LEMMA NotScheduled ==
  ASSUME IInv, NEW c \in Callouts, NEW x \in Cpus, c_cpu[c] = x, cc_curr[x] # c,
         ~ callout_pending(c) \/ callout_migrating(c)
  PROVE  armed[c] => DrainWindow(c)
<1>1. CalloutInv(c) /\ x # CPUBLOCK
  BY CalloutAssumption DEF IInv
<1> QED
  BY <1>1, InHands DEF CalloutInv, Scheduled

(* A call on a callout that is not moving, which leaves c_cpu, where       *)
(* softclock() is and what is in progress as they are.                     *)
LEMMA CallBy ==
  ASSUME IInv, TypeOK', NEW c \in Callouts, NEW x \in Cpus, c_cpu[c] = x,
         UNCHANGED <<cc_curr, softclock>>,
         \A y \in Cpus \ {x} : SameCpu(y),
         \A d \in Callouts \ {c} : SameCallout(d),
         cc_curr[x] # c => SameCpu(x),
         CpuInv(x)', CalloutInv(c)',
         \A t \in Threads : pc'[t] # pc[t] => "switch" \notin {pc[t], pc'[t]},
         \A t \in Threads : pc[t] = "switch" => local'[t] = local[t],
         \A t \in Threads : ClientInv(t)'
  PROVE  IInv'
<1>1. TypeOK /\ SameMovers /\ NoNewMovers
  BY DEF IInv, softclock, SameMovers, NoNewMovers
<1>2. ASSUME NEW y \in Cpus, y = x \/ cc_local[y].c = c PROVE CpuInv(y)'
  <2>1. CASE y = x
    BY <2>1
  <2>2. CASE y # x
    BY <1>2, <2>2, InHands, CpuLetsGo DEF IInv
  <2> QED
    BY <2>1, <2>2
<1>3. MoverInv'
  BY <1>1, MoverKept DEF IInv
<1>4. \/ SameCpu(x)
      \/ cc_local[x].c \in {c, NoCallout} /\ cc_curr'[x] \in {c, NoCallout}
  BY InHands
<1> QED
  BY <1>1, <1>2, <1>3, <1>4, MovingKept, OneStep

(* Such a call without a step of a client's own. *)
LEMMA CallOn ==
  ASSUME IInv, TypeOK', NEW c \in Callouts, NEW x \in Cpus, c_cpu[c] = x,
         UNCHANGED <<c_cpu, cc_curr, softclock, client>>,
         \A y \in Cpus \ {x} : SameCpu(y),
         \A d \in Callouts \ {c} : SameCallout(d),
         cc_curr[x] # c => SameCpu(x),
         CpuInv(x)', CalloutInv(c)'
  PROVE  IInv'
<1>1. ASSUME NEW u \in Threads PROVE ClientInv(u)'
  BY DEF IInv, ClientInv, softclock, client
<1> QED
  BY <1>1, CallBy DEF client

(* ResetInProgress() *)
LEMMA ResetInProgressStep ==
  ASSUME IInv, NEW c \in Callouts, NEW cpu \in Cpus, NEW x \in Cpus,
         c_cpu[c] = x, ResetInProgress(c, cpu),
         UNCHANGED <<kind, c_lock, softclock, sq_lock, client>>
  PROVE  IInv'
<1> USE CalloutAssumption
<1>0. TypeOK /\ CpuInv(x) /\ CalloutInv(c)
  BY DEF IInv
<1>1. /\ cc_curr[x] = c /\ cc_local[x].c = c /\ cc_pc[x] \in InProgress
      /\ callout_migrating(c) <=> cc_cce_migrating(x)
  BY InHands DEF ResetInProgress
<1>2. /\ cc_cancel' = [cc_cancel EXCEPT ![x] = @ \/ HasLock(c)]
      /\ \/ /\ cc_waiting[x]
            /\ armed' = [armed EXCEPT ![c] = @ /\ (HasLock(c) => cc_cancel[x])]
            /\ UNCHANGED cc_migration_cpu
         \/ /\ ~ cc_waiting[x]
            /\ callout_migrating(c)
            /\ cc_migration_cpu' = [cc_migration_cpu EXCEPT ![x] = cpu]
            /\ armed' = [armed EXCEPT ![c] = TRUE]
      /\ UNCHANGED <<callout, cc_curr, cc_waiting, cc_drain>>
  BY DEF ResetInProgress
<1>3. TypeOK'
  <2>1. cc_cancel' \in [Cpus -> BOOLEAN] /\ armed' \in [Callouts -> BOOLEAN]
    BY <1>0, <1>2 DEF TypeOK
  <2>2. cc_migration_cpu' \in [Cpus -> Cpus \cup {CPUBLOCK}]
    BY <1>0, <1>2 DEF TypeOK
  <2>3. UNCHANGED <<callout, cc_curr, cc_waiting, cc_drain>>
    BY <1>2
  <2> QED
    BY <1>0, <2>1, <2>2, <2>3 DEF TypeOK, callout, lists, softclock, client
<1>4. /\ \A y \in Cpus \ {x} : SameCpu(y)
      /\ \A d \in Callouts \ {c} : SameCallout(d)
  BY <1>0, <1>2 DEF TypeOK, SameCpu, SameCallout, callout, lists, softclock
<1>5. /\ cc_cancel'[x] <=> cc_cancel[x] \/ HasLock(c)
      /\ cc_cce_migrating(x)' <=> cc_cce_migrating(x)
      /\ armed'[c] <=> \/ cc_waiting[x] /\ armed[c] /\ (HasLock(c) => cc_cancel[x])
                       \/ ~ cc_waiting[x]
      /\ cc_waiting[x] \/ callout_migrating(c)
      /\ cc_waiting' = cc_waiting /\ cc_drain' = cc_drain /\ cc_curr' = cc_curr
      /\ c_iflags' = c_iflags /\ c_cpu' = c_cpu /\ c_active' = c_active
      /\ wheel' = wheel /\ expireq' = expireq
      /\ cc_pc' = cc_pc /\ cc_local' = cc_local
  BY <1>0, <1>1, <1>2 DEF TypeOK, cc_cce_migrating, callout, lists, softclock
<1>6. CpuInv(x)'
  BY <1>0, <1>1, <1>5 DEF CpuInv, InProgress, HasLock, callout_pending, callout_migrating
<1>7. CalloutInv(c)'
  <2>1. ListInv(c)'
    BY <1>0, <1>5 DEF CalloutInv, ListInv, callout_pending, callout_migrating
  <2>2. Scheduled(c)' <=> armed'[c]
    <3>1. armed[c] <=> \/ callout_migrating(c)
                       \/ callout_pending(c)
                       \/ cc_pc[x] = "getlock" /\ ~ cc_cancel[x]
      BY <1>0, <1>1 DEF CalloutInv, Scheduled
    <3>2. Scheduled(c)' <=> \/ callout_migrating(c)
                            \/ callout_pending(c)
                            \/ cc_pc[x] = "getlock" /\ ~ cc_cancel'[x]
      BY <1>1, <1>5 DEF Scheduled, callout_pending, callout_migrating
    <3>3. /\ cc_waiting[x] => ~ callout_pending(c)
          /\ cc_pc[x] = "getlock" => HasLock(c)
          /\ callout_migrating(c) /\ HasLock(c) => cc_cancel[x]
      BY <1>0, <1>1 DEF CpuInv
    <3> QED
      BY <3>1, <3>2, <3>3, <1>5
  <2> QED
    BY <1>0, <1>1, <1>5, <2>1, <2>2
    DEF CalloutInv, callout_pending, callout_migrating
<1> QED
  BY <1>1, <1>2, <1>3, <1>4, <1>5, <1>6, <1>7, CallOn DEF softclock

(* ResetHere() *)
LEMMA ResetHereStep ==
  ASSUME IInv, NEW c \in Callouts, NEW cpu \in Cpus, NEW x \in Cpus,
         c_cpu[c] = x, ~ DrainWindow(c), ResetHere(c, cpu),
         UNCHANGED <<kind, c_lock, softclock, sq_lock, client>>
  PROVE  IInv'
<1> USE CalloutAssumption
<1>0. TypeOK /\ CpuInv(x) /\ CalloutInv(c)
  BY DEF IInv
<1>1. /\ cc_curr[x] = c <=> cc_local[x].c = c /\ cc_pc[x] \in InProgress
      /\ cc_local[x].c = c /\ cc_curr[x] # c => LetsGo(x)
      /\ ~ callout_migrating(c)
      /\ cc_curr[x] = c => ~ cc_waiting[x] /\ ~ cc_cce_migrating(x)
  BY InHands DEF ResetHere
<1> DEFINE w == IF callout_pending(c) THEN WheelWithout(c, x) ELSE wheel
           q == IF callout_pending(c) THEN ExpireqWithout(c, x) ELSE expireq
<1>2. /\ w \in [Cpus -> SUBSET Callouts] /\ q \in [Cpus -> SUBSET Callouts]
      /\ \A y \in Cpus : c \notin w[y] /\ c \notin q[y]
      /\ \A d \in Callouts \ {c}, y \in Cpus :
           (d \in w[y] <=> d \in wheel[y]) /\ (d \in q[y] <=> d \in expireq[y])
  BY <1>0, Removed DEF CalloutInv, ListInv, TypeOK
<1>3. /\ cc_cancel' = [cc_cancel EXCEPT ![x] = @ \/ (cc_curr[x] = c /\ HasLock(c))]
      /\ expireq' = q
      /\ \/ /\ x = cpu
            /\ callout_cc_add(c, x, w)
            /\ UNCHANGED cc_migration_cpu
         \/ /\ x # cpu
            /\ cc_curr[x] = c
            /\ wheel' = w
            /\ cc_migration_cpu' = [cc_migration_cpu EXCEPT ![x] = cpu]
            /\ c_iflags' = [c_iflags EXCEPT
                              ![c] = @ \cup {"DFRMIGRATION", "PENDING"}]
            /\ c_active' = [c_active EXCEPT ![c] = TRUE]
      /\ armed' = [armed EXCEPT ![c] = TRUE]
      /\ UNCHANGED <<c_cpu, cc_curr, cc_waiting, cc_drain>>
  BY DEF ResetHere
<1> HIDE DEF w, q
<1>4. TypeOK'
  <2>1. cc_cancel' \in [Cpus -> BOOLEAN] /\ armed' \in [Callouts -> BOOLEAN]
    BY <1>0, <1>3 DEF TypeOK
  <2>2. cc_migration_cpu' \in [Cpus -> Cpus \cup {CPUBLOCK}]
    BY <1>0, <1>3 DEF TypeOK
  <2>3. wheel' \in [Cpus -> SUBSET Callouts] /\ expireq' \in [Cpus -> SUBSET Callouts]
    BY <1>2, <1>3 DEF callout_cc_add
  <2>4. c_iflags' \in [Callouts -> SUBSET IFlags]
    <3>1. CASE x = cpu
      <4>1. c_iflags' = [c_iflags EXCEPT ![c] = (@ \cup {"PENDING"}) \ {"PROCESSED"}]
        BY <1>3, <3>1 DEF callout_cc_add
      <4> QED
        BY <1>0, <4>1 DEF TypeOK, IFlags
    <3>2. CASE x # cpu
      <4>1. c_iflags' = [c_iflags EXCEPT ![c] = @ \cup {"DFRMIGRATION", "PENDING"}]
        BY <1>3, <3>2
      <4> QED
        BY <1>0, <4>1 DEF TypeOK, IFlags
    <3> QED
      BY <3>1, <3>2
  <2>5. c_active' \in [Callouts -> BOOLEAN]
    BY <1>0, <1>3 DEF TypeOK, callout_cc_add
  <2>6. UNCHANGED <<c_cpu, cc_curr, cc_waiting, cc_drain>>
    BY <1>3
  <2> QED
    BY <1>0, <2>1, <2>2, <2>3, <2>4, <2>5, <2>6 DEF TypeOK, softclock, client
<1>5. \A y \in Cpus \ {x} : SameCpu(y)
  BY <1>0, <1>3 DEF TypeOK, SameCpu, softclock
<1>6. \A d \in Callouts \ {c} : SameCallout(d)
  <2>1. \A d \in Callouts \ {c}, y \in Cpus :
          (d \in wheel'[y] <=> d \in wheel[y]) /\ (d \in expireq'[y] <=> d \in expireq[y])
    BY <1>2, <1>3 DEF callout_cc_add
  <2> QED
    BY <1>0, <1>3, <2>1 DEF TypeOK, SameCallout, callout_cc_add
<1>7. cc_curr[x] # c => SameCpu(x)
  BY <1>0, <1>3 DEF TypeOK, SameCpu, softclock
<1>8. /\ callout_pending(c)' /\ c_active'[c] /\ armed'[c]
      /\ cc_cancel'[x] <=> cc_cancel[x] \/ (cc_curr[x] = c /\ HasLock(c))
      /\ UNCHANGED <<c_cpu, cc_curr, cc_waiting, cc_drain, cc_pc, cc_local>>
  <2>1. callout_pending(c)' /\ c_active'[c]
    BY <1>0, <1>3 DEF TypeOK, callout_pending, callout_cc_add
  <2>2. /\ armed'[c]
        /\ cc_cancel'[x] <=> cc_cancel[x] \/ (cc_curr[x] = c /\ HasLock(c))
    BY <1>0, <1>3 DEF TypeOK
  <2> QED
    BY <1>3, <2>1, <2>2 DEF softclock
<1>9. \/ /\ ~ callout_migrating(c)' /\ "PROCESSED" \notin c_iflags'[c]
         /\ cc_migration_cpu' = cc_migration_cpu
         /\ \A y \in Cpus : (c \in wheel'[y] <=> y = x) /\ c \notin expireq'[y]
      \/ /\ callout_migrating(c)' /\ cc_cce_migrating(x)' /\ cc_curr[x] = c
         /\ \A y \in Cpus : c \notin wheel'[y] /\ c \notin expireq'[y]
  BY <1>0, <1>1, <1>2, <1>3 DEF TypeOK, callout_migrating, callout_cc_add, cc_cce_migrating
<1>10. CpuInv(x)'
  <2>1. CASE cc_curr[x] = c
    BY <1>0, <1>1, <1>8, <1>9, <2>1 DEF CpuInv, InProgress, HasLock, cc_cce_migrating
  <2>2. CASE cc_curr[x] # c /\ cc_local[x].c # c
    BY <1>0, <1>7, <1>6, <2>2, CpuKept
  <2>3. CASE cc_curr[x] # c /\ cc_local[x].c = c
    BY <1>0, <1>1, <1>7, <2>3, CpuLetsGo
  <2> QED
    BY <2>1, <2>2, <2>3
<1>11. CalloutInv(c)'
  <2>1. ListInv(c)'
    BY <1>8, <1>9 DEF ListInv
  <2>2. Scheduled(c)'
    BY <1>8 DEF Scheduled
  <2> QED
    BY <1>1, <1>8, <1>9, <2>1, <2>2 DEF CalloutInv
<1> QED
  BY <1>3, <1>4, <1>5, <1>6, <1>7, <1>10, <1>11, CallOn

(* callout_reset() and HandlerReset() *)
LEMMA ResetStep ==
  ASSUME IInv, NEW c \in Callouts, NEW cpu \in Cpus,
         c_cpu[c] # CPUBLOCK, ~ DrainWindow(c),
         ResetInProgress(c, cpu) \/ ResetHere(c, cpu),
         UNCHANGED <<kind, c_lock, softclock, sq_lock, client>>
  PROVE  IInv'
<1> PICK x \in Cpus : c_cpu[c] = x
  BY DEF IInv, TypeOK
<1> QED
  BY ResetInProgressStep, ResetHereStep

(* ResetMoves() *)
LEMMA ResetMovesStep ==
  ASSUME IInv, NEW t \in Threads, NEW c \in Callouts, NEW cpu \in Cpus,
         ResetMoves(t, c, cpu)
  PROVE  IInv'
<1> USE CalloutAssumption
<1>0. TypeOK /\ CalloutInv(c) /\ c_cpu[c] # CPUBLOCK /\ pc[t] = "caller"
  BY DEF IInv, ResetMoves, MayCall
<1> PICK x \in Cpus : c_cpu[c] = x
  BY <1>0 DEF TypeOK
<1>1. /\ cc_curr[x] # c /\ ~ callout_migrating(c)
      /\ \A y \in Cpus : cc_local[y].c = c => LetsGo(y)
      /\ \A u \in Threads : pc[u] = "switch" => local[u].c # c
  <2>1. cc_curr[x] # c
    BY DEF ResetMoves, MovesAtOnce
  <2>2. ~ DrainWindow(c)
    BY DEF ResetMoves, ResetAllowed
  <2> QED
    BY <2>1, <2>2, InHands
<1>2. /\ c_cpu' = [c_cpu EXCEPT ![c] = CPUBLOCK]
      /\ pc' = [pc EXCEPT ![t] = "switch"]
      /\ local' = [local EXCEPT ![t] = [c |-> c, cpu |-> cpu]]
      /\ armed' = [armed EXCEPT ![c] = TRUE]
      /\ UNCHANGED <<kind, c_lock, entity, softclock, sq_lock, waits>>
      /\ \/ /\ wheel' = WheelWithout(c, x)
            /\ expireq' = ExpireqWithout(c, x)
            /\ c_iflags' = [c_iflags EXCEPT ![c] = @ \ {"PENDING"}]
            /\ c_active' = [c_active EXCEPT ![c] = FALSE]
         \/ /\ ~ callout_pending(c)
            /\ UNCHANGED <<lists, c_iflags, c_active>>
  BY DEF ResetMoves
<1>3. /\ wheel' \in [Cpus -> SUBSET Callouts] /\ expireq' \in [Cpus -> SUBSET Callouts]
      /\ \A y \in Cpus : c \notin wheel'[y] /\ c \notin expireq'[y]
      /\ \A d \in Callouts \ {c}, y \in Cpus :
           (d \in wheel'[y] <=> d \in wheel[y]) /\ (d \in expireq'[y] <=> d \in expireq[y])
  BY <1>0, <1>2, Removed DEF CalloutInv, ListInv, TypeOK, lists
<1>4. TypeOK'
  <2>1. c_iflags' \in [Callouts -> SUBSET IFlags]
    <3>1. \/ c_iflags' = c_iflags
          \/ c_iflags' = [c_iflags EXCEPT ![c] = @ \ {"PENDING"}]
      BY <1>2
    <3> QED
      BY <1>0, <3>1 DEF TypeOK
  <2>2. c_active' \in [Callouts -> BOOLEAN] /\ armed' \in [Callouts -> BOOLEAN]
    BY <1>0, <1>2 DEF TypeOK
  <2>3. /\ c_cpu' \in [Callouts -> Cpus \cup {CPUBLOCK}]
        /\ local' \in [Threads -> [c : Callouts \cup {NoCallout},
                                   cpu : Cpus \cup {CPUBLOCK}]]
        /\ pc' \in [Threads -> {"caller", "switch", "again", "sqlock", "add",
                                "asleep", "relock"}]
        /\ UNCHANGED <<kind, c_lock, entity, softclock, sq_lock, waits>>
    BY <1>0, <1>2 DEF TypeOK
  <2> QED
    BY <1>0, <1>3, <2>1, <2>2, <2>3 DEF TypeOK, entity, softclock
<1>5. /\ \A y \in Cpus : SameCpu(y)
      /\ \A u \in Threads \ {t} : SameClient(u)
      /\ SameMovers
  BY <1>0, <1>2 DEF TypeOK, SameCpu, SameClient, SameMovers, entity, softclock
<1>6. \A d \in Callouts \ {c} : SameCallout(d)
  BY <1>0, <1>2, <1>3 DEF TypeOK, SameCallout
<1>7. /\ c_cpu'[c] = CPUBLOCK /\ armed'[c] /\ ~ callout_migrating(c)' /\ ~ callout_pending(c)'
      /\ pc'[t] = "switch" /\ local'[t] = [c |-> c, cpu |-> cpu]
  BY <1>0, <1>1, <1>2 DEF TypeOK, callout_migrating, callout_pending
<1>8. ASSUME NEW y \in Cpus, y = x \/ cc_local[y].c = c PROVE CpuInv(y)'
  <2>1. CpuInv(y) /\ SameCpu(y)
    BY <1>5 DEF IInv
  <2>2. CASE cc_local[y].c # c
    BY <1>6, <2>1, <2>2, CpuKept
  <2>3. CASE cc_local[y].c = c
    BY <1>1, <2>1, <2>3, CpuLetsGo
  <2> QED
    BY <2>2, <2>3
<1>9. CalloutInv(c)'
  <2>1. ListInv(c)'
    BY <1>3, <1>7 DEF ListInv
  <2>2. Scheduled(c)' /\ Moving(c)'
    BY <1>7 DEF Scheduled, Moving
  <2> QED
    BY <1>7, <2>1, <2>2 DEF CalloutInv
<1>10. ASSUME NEW u \in Threads PROVE ClientInv(u)'
  <2>1. ClientInv(u) /\ waits[u] \subseteq Cpus
    BY <1>0 DEF IInv, TypeOK
  <2>2. CASE u = t
    BY <1>0, <1>2, <1>7, <2>1, <2>2 DEF ClientInv
  <2>3. CASE u # t
    <3>1. pc[u] = "switch" => c_cpu'[local[u].c] = c_cpu[local[u].c]
      BY <1>0, <1>1, <1>2 DEF TypeOK
    <3> QED
      BY <1>5, <2>1, <2>3, <3>1 DEF ClientInv, SameClient, SameCpu
  <2> QED
    BY <2>2, <2>3
<1>11. MoverInv'
  BY <1>1, <1>5, <1>7 DEF IInv, MoverInv, SameCpu, SameClient, LetsGo
<1> QED
  BY <1>4, <1>5, <1>6, <1>8, <1>9, <1>10, <1>11, MovingKept, OneStep

(* ResetMoved() *)
LEMMA ResetMovedStep ==
  ASSUME IInv, NEW t \in Threads, ResetMoved(t)
  PROVE  IInv'
<1> USE CalloutAssumption
<1> PICK c \in Callouts : local[t].c = c
  BY DEF IInv, ClientInv, ResetMoved
<1> PICK n \in Cpus : local[t].cpu = n
  BY DEF IInv, ClientInv, ResetMoved
<1>0. TypeOK /\ c_cpu[c] = CPUBLOCK /\ pc[t] = "switch" /\ ClientInv(t) /\ local[t].c = c
  BY DEF IInv, ClientInv, ResetMoved
<1>1. /\ c_cpu' = [c_cpu EXCEPT ![c] = n]
      /\ callout_cc_add(c, n, wheel)
      /\ pc' = [pc EXCEPT ![t] = "caller"]
      /\ local' = [local EXCEPT ![t] = NoLocals]
      /\ UNCHANGED <<kind, expireq, c_lock, entity, softclock, sq_lock, waits, armed>>
  BY DEF ResetMoved
<1>2. /\ CalloutInv(c)' /\ \A d \in Callouts \ {c} : SameCallout(d)
      /\ wheel' \in [Cpus -> SUBSET Callouts]
      /\ c_iflags' \in [Callouts -> SUBSET IFlags]
      /\ c_active' \in [Callouts -> BOOLEAN]
      /\ c_cpu' \in [Callouts -> Cpus \cup {CPUBLOCK}]
  BY <1>0, <1>1, AddedCallout
<1>3. TypeOK'
  <2>1. local' \in [Threads -> [c : Callouts \cup {NoCallout},
                                cpu : Cpus \cup {CPUBLOCK}]]
    BY <1>0, <1>1 DEF TypeOK, NoLocals
  <2> QED
    BY <1>0, <1>1, <1>2, <2>1 DEF TypeOK, entity, softclock
<1>4. /\ \A y \in Cpus : SameCpu(y)
      /\ \A u \in Threads \ {t} : SameClient(u)
      /\ NoNewMovers
      /\ \A d \in Callouts \ {c} : Moving(d) => Moving(d)'
  BY <1>0, <1>1 DEF TypeOK, SameCpu, SameClient, NoNewMovers, Moving, entity, softclock
<1>5. ASSUME NEW y \in Cpus, y = n \/ cc_local[y].c = c PROVE CpuInv(y)'
  <2>1. CpuInv(y) /\ SameCpu(y)
    BY <1>4 DEF IInv
  <2>2. CASE cc_local[y].c # c
    BY <1>2, <2>1, <2>2, CpuKept
  <2>3. CASE cc_local[y].c = c
    <3>1. LetsGo(y)
      BY <1>0, <2>3, MovingAlone DEF IInv, MoverInv
    <3> QED
      BY <2>1, <3>1, CpuLetsGo
  <2> QED
    BY <2>2, <2>3
<1>6. ASSUME NEW u \in Threads PROVE ClientInv(u)'
  <2>1. ClientInv(u) /\ waits[u] \subseteq Cpus
    BY <1>0 DEF IInv, TypeOK
  <2>2. CASE u = t
    BY <1>0, <1>1, <2>1, <2>2 DEF TypeOK, ClientInv
  <2>3. CASE u # t
    <3>1. pc[u] = "switch" => local[u].c # c
      BY <1>0, <2>3 DEF IInv, MoverInv
    <3>2. pc[u] = "switch" => c_cpu'[local[u].c] = c_cpu[local[u].c]
      BY <1>0, <1>1, <3>1 DEF TypeOK
    <3> QED
      BY <1>4, <2>1, <2>3, <3>2 DEF ClientInv, SameClient, SameCpu
  <2> QED
    BY <2>2, <2>3
<1>7. MoverInv'
  BY <1>4, MoverKept DEF IInv
<1> QED
  BY <1>2, <1>3, <1>4, <1>5, <1>6, <1>7, OneStep

(* What StopFlags() says of the lists. *)
LEMMA StopFlagsSay ==
  ASSUME IInv, NEW c \in Callouts
  PROVE  /\ "PENDING" \in StopFlags(c) <=> callout_pending(c) /\ ~ callout_migrating(c)
         /\ "DFRMIGRATION" \in StopFlags(c) <=> callout_migrating(c)
         /\ "PROCESSED" \in StopFlags(c) <=> "PROCESSED" \in c_iflags[c]
         /\ StopFlags(c) \in SUBSET IFlags
<1>1. CalloutInv(c) /\ c_iflags[c] \in SUBSET IFlags
  BY DEF IInv, TypeOK
<1> QED
  BY <1>1 DEF CalloutInv, StopFlags, NotOnAList, callout_pending, callout_migrating

(* StopPending() *)
LEMMA StopPendingDoes ==
  ASSUME IInv, NEW c \in Callouts, NEW x \in Cpus, c_cpu[c] = x, StopPending(c),
         UNCHANGED <<kind, c_cpu, cc_curr, cc_cancel, cc_drain,
                     cc_migration_cpu, softclock>>,
         \A y \in Cpus : cc_waiting'[y] = cc_waiting[y]
  PROVE  /\ wheel' \in [Cpus -> SUBSET Callouts] /\ expireq' \in [Cpus -> SUBSET Callouts]
         /\ c_iflags' \in [Callouts -> SUBSET IFlags]
         /\ c_active' \in [Callouts -> BOOLEAN] /\ armed' \in [Callouts -> BOOLEAN]
         /\ armed[c] /\ ~ armed'[c]
         /\ \A d \in Callouts \ {c} : SameCallout(d)
         /\ \A y \in Cpus : SameCpu(y)
         /\ CpuInv(x)' /\ CalloutInv(c)'
<1> USE CalloutAssumption
<1>0. TypeOK /\ CpuInv(x) /\ CalloutInv(c)
  BY DEF IInv
<1>1. callout_pending(c) /\ ~ callout_migrating(c)
  BY StopFlagsSay DEF StopPending
<1>2. /\ c_iflags' = [c_iflags EXCEPT ![c] = @ \ {"PENDING"}]
      /\ c_active' = [c_active EXCEPT ![c] = FALSE]
      /\ wheel' = WheelWithout(c, x)
      /\ expireq' = ExpireqWithout(c, x)
      /\ armed' = [armed EXCEPT ![c] = FALSE]
  BY DEF StopPending
<1>3. /\ wheel' \in [Cpus -> SUBSET Callouts] /\ expireq' \in [Cpus -> SUBSET Callouts]
      /\ \A y \in Cpus : c \notin wheel'[y] /\ c \notin expireq'[y]
      /\ \A d \in Callouts \ {c}, y \in Cpus :
           (d \in wheel'[y] <=> d \in wheel[y]) /\ (d \in expireq'[y] <=> d \in expireq[y])
  BY <1>2, Removed
<1>4. /\ c_iflags' \in [Callouts -> SUBSET IFlags]
      /\ c_active' \in [Callouts -> BOOLEAN] /\ armed' \in [Callouts -> BOOLEAN]
  BY <1>0, <1>2 DEF TypeOK
<1>5. \A d \in Callouts \ {c} : SameCallout(d)
  BY <1>0, <1>2, <1>3 DEF TypeOK, SameCallout
<1>6. \A y \in Cpus : SameCpu(y)
  BY DEF SameCpu, softclock
<1>7. /\ ~ callout_pending(c)' /\ ~ callout_migrating(c)' /\ ~ armed'[c]
      /\ \A d \in Callouts \ {c} : c_iflags'[d] = c_iflags[d]
  BY <1>0, <1>1, <1>2 DEF TypeOK, callout_pending, callout_migrating
<1>8. armed[c] /\ ~ (cc_curr[x] = c /\ cc_pc[x] = "getlock" /\ ~ cc_cancel[x])
  BY <1>0, <1>1 DEF CalloutInv, CpuInv, Scheduled, InProgress
<1>9. ~ Scheduled(c)'
  BY <1>7, <1>8 DEF Scheduled, softclock
<1>10. CalloutInv(c)'
  BY <1>3, <1>7, <1>9 DEF CalloutInv, ListInv
<1>11. CpuInv(x)'
  <2>1. CASE cc_local[x].c # c
    BY <1>0, <1>5, <1>6, <2>1, CpuKept
  <2>2. CASE cc_local[x].c = c
    <3>1. ~ cc_cce_migrating(x)
      BY <1>0, <1>1, <2>2 DEF CpuInv
    <3> QED
      BY <1>0, <1>6, <1>7, <2>2, <3>1 DEF CpuInv, SameCpu, InProgress, HasLock,
         cc_cce_migrating, IdleSoftclock
  <2> QED
    BY <2>1, <2>2
<1> QED
  BY <1>3, <1>4, <1>5, <1>6, <1>7, <1>8, <1>10, <1>11

(* The special case at the top of _callout_stop_safe(): the callout is off *)
(* c_iflags' PENDING, and as much scheduled as before.                     *)
LEMMA SpecialDoes ==
  ASSUME IInv, NEW c \in Callouts, NEW x \in Cpus, c_cpu[c] = x,
         c_iflags'[c] = StopFlags(c),
         \A d \in Callouts \ {c} : c_iflags'[d] = c_iflags[d] /\ c_active'[d] = c_active[d],
         "PENDING" \in StopFlags(c) /\ c_active[c] => c_active'[c],
         UNCHANGED <<kind, c_cpu, lists, armed, cc_curr, cc_cancel, cc_drain,
                     cc_migration_cpu, softclock>>,
         \A y \in Cpus : \/ cc_waiting'[y] = cc_waiting[y]
                         \/ y = x /\ cc_curr[x] = c /\ "PENDING" \notin StopFlags(c)
  PROVE  /\ \A d \in Callouts \ {c} : SameCallout(d)
         /\ \A y \in Cpus \ {x} : SameCpu(y)
         /\ cc_curr[x] # c => SameCpu(x)
         /\ CpuInv(x)' /\ CalloutInv(c)'
<1> USE CalloutAssumption
<1>0. TypeOK /\ CpuInv(x) /\ CalloutInv(c)
  BY DEF IInv
<1>3. /\ \A d \in Callouts \ {c} : SameCallout(d)
      /\ \A y \in Cpus \ {x} : SameCpu(y)
      /\ cc_curr[x] # c => SameCpu(x)
  BY <1>0 DEF TypeOK, SameCallout, SameCpu, lists, softclock
<1>4. /\ c_iflags'[c] = StopFlags(c)
      /\ callout_pending(c)' <=> callout_pending(c) /\ ~ callout_migrating(c)
      /\ callout_migrating(c)' <=> callout_migrating(c)
      /\ "PROCESSED" \in c_iflags'[c] <=> "PROCESSED" \in c_iflags[c]
  BY <1>0, StopFlagsSay DEF TypeOK, callout_pending, callout_migrating
<1>5. callout_pending(c)' => c_active'[c]
  BY <1>0, <1>4, StopFlagsSay DEF CalloutInv
<1>6. CpuInv(x)'
  <2>1. CASE cc_curr[x] = c
    <3>1. cc_local[x].c = c /\ cc_pc[x] \in InProgress
      BY <2>1, InHands
    <3>2. cc_waiting'[x] => ~ callout_pending(c)'
      BY <1>0, <1>4, <2>1, <3>1, StopFlagsSay DEF CpuInv
    <3> QED
      BY <1>0, <1>4, <3>1, <3>2 DEF CpuInv, InProgress, HasLock, cc_cce_migrating,
         softclock
  <2>2. CASE cc_curr[x] # c /\ cc_local[x].c # c
    BY <1>0, <1>3, <2>2, CpuKept
  <2>3. CASE cc_curr[x] # c /\ cc_local[x].c = c
    <3>1. SameCpu(x) /\ cc_pc[x] \notin InProgress /\ cc_pc[x] # "switch"
      BY <1>3, <2>3, InHands
    <3> QED
      BY <1>0, <1>4, <2>3, <3>1 DEF CpuInv, SameCpu, InProgress, HasLock,
         cc_cce_migrating, IdleSoftclock
  <2> QED
    BY <2>1, <2>2, <2>3
<1>7. CalloutInv(c)'
  <2>1. ListInv(c)'
    BY <1>0, <1>4 DEF CalloutInv, ListInv, lists
  <2>2. Scheduled(c)' <=> Scheduled(c)
    BY <1>4 DEF Scheduled, softclock
  <2> QED
    BY <1>0, <1>4, <1>5, <2>1, <2>2 DEF CalloutInv, cc_cce_migrating, softclock
<1> QED
  BY <1>3, <1>6, <1>7

(* _callout_stop() *)
LEMMA StopStep ==
  ASSUME IInv, NEW c \in Callouts, NEW drain \in BOOLEAN, _callout_stop(c, drain)
  PROVE  IInv'
<1> USE CalloutAssumption
<1>0. TypeOK /\ CalloutInv(c) /\ c_cpu[c] # CPUBLOCK
  BY DEF IInv, _callout_stop
<1> PICK x \in Cpus : c_cpu[c] = x
  BY <1>0 DEF TypeOK
<1>1. /\ UNCHANGED <<kind, c_cpu, c_lock, cc_curr, cc_waiting, softclock, sq_lock, client>>
      /\ CpuInv(x)
  BY DEF _callout_stop, IInv
<1>2. CASE /\ StopPending(c)
           /\ UNCHANGED <<cc_cancel, cc_drain, cc_migration_cpu>>
  <2>1. /\ wheel' \in [Cpus -> SUBSET Callouts] /\ expireq' \in [Cpus -> SUBSET Callouts]
        /\ c_iflags' \in [Callouts -> SUBSET IFlags]
        /\ c_active' \in [Callouts -> BOOLEAN] /\ armed' \in [Callouts -> BOOLEAN]
        /\ \A d \in Callouts \ {c} : SameCallout(d)
        /\ \A y \in Cpus : SameCpu(y)
        /\ CpuInv(x)' /\ CalloutInv(c)'
    BY <1>1, <1>2, StopPendingDoes
  <2>2. TypeOK'
    BY <1>0, <1>1, <1>2, <2>1 DEF TypeOK, softclock, client
  <2> QED
    BY <1>1, <2>1, <2>2, CallOn
<1>3. CASE /\ "PENDING" \notin StopFlags(c)
           /\ c_active' = [c_active EXCEPT ![c] = FALSE]
           /\ StopInProgress(c, drain)
           /\ UNCHANGED lists
  <2>1. /\ cc_curr[x] = c
        /\ cc_cancel' = [cc_cancel EXCEPT ![x] = @ \/ (HasLock(c) /\ ~ cc_cancel[x] /\ ~ drain)]
        /\ cc_drain' = [cc_drain EXCEPT ![x] = @ \/ drain]
        /\ c_iflags' = [c_iflags EXCEPT ![c] = StopFlags(c) \ {"DFRMIGRATION"}]
        /\ cc_migration_cpu' = [cc_migration_cpu EXCEPT
                                  ![x] = IF callout_migrating(c) THEN CPUBLOCK ELSE @]
        /\ armed' = [armed EXCEPT ![c] = @ /\ drain /\ ~ callout_migrating(c)]
    BY <1>3 DEF StopInProgress, StopMigration
  <2>2. /\ cc_local[x].c = c /\ cc_pc[x] \in InProgress
        /\ callout_migrating(c) <=> cc_cce_migrating(x)
        /\ ~ callout_migrating(c) => ~ callout_pending(c)
    BY <1>3, <2>1, InHands, StopFlagsSay
  <2>3. TypeOK'
    <3>1. c_iflags' \in [Callouts -> SUBSET IFlags]
      BY <1>0, <2>1, StopFlagsSay DEF TypeOK
    <3>2. cc_migration_cpu' \in [Cpus -> Cpus \cup {CPUBLOCK}]
      BY <1>0, <2>1 DEF TypeOK
    <3>3. /\ cc_cancel' \in [Cpus -> BOOLEAN] /\ cc_drain' \in [Cpus -> BOOLEAN]
          /\ armed' \in [Callouts -> BOOLEAN] /\ c_active' \in [Callouts -> BOOLEAN]
      BY <1>0, <1>3, <2>1 DEF TypeOK
    <3> QED
      BY <1>0, <1>1, <1>3, <3>1, <3>2, <3>3 DEF TypeOK, lists, softclock, client
  <2>4. /\ \A y \in Cpus \ {x} : SameCpu(y)
        /\ \A d \in Callouts \ {c} : SameCallout(d)
    BY <1>0, <1>1, <1>3, <2>1 DEF TypeOK, SameCpu, SameCallout, lists, softclock
  <2>5. /\ ~ callout_pending(c)' /\ ~ callout_migrating(c)' /\ ~ cc_cce_migrating(x)'
        /\ cc_cancel'[x] <=> cc_cancel[x] \/ (HasLock(c) /\ ~ drain)
        /\ armed'[c] <=> armed[c] /\ drain /\ ~ callout_migrating(c)
        /\ UNCHANGED <<cc_pc, cc_local, cc_curr, cc_waiting, c_cpu, kind, wheel, expireq>>
    <3>1. c_iflags'[c] = StopFlags(c) \ {"DFRMIGRATION"}
      BY <1>0, <2>1 DEF TypeOK
    <3>2. ~ callout_pending(c)' /\ ~ callout_migrating(c)'
      BY <1>3, <3>1 DEF callout_pending, callout_migrating
    <3>3. ~ cc_cce_migrating(x)'
      BY <1>0, <2>1, <2>2 DEF TypeOK, cc_cce_migrating
    <3> QED
      BY <1>0, <1>1, <1>3, <2>1, <3>2, <3>3 DEF TypeOK, softclock, lists
  <2>6. CpuInv(x)'
    BY <1>1, <2>2, <2>5 DEF CpuInv, InProgress, HasLock
  <2>7. CalloutInv(c)'
    <3>1. ListInv(c)'
      BY <1>0, <2>2, <2>5 DEF CalloutInv, ListInv
    <3>2. armed[c] <=> \/ callout_migrating(c)
                       \/ cc_pc[x] = "getlock" /\ ~ cc_cancel[x]
      BY <1>0, <2>1, <2>2 DEF CalloutInv, Scheduled
    <3>3. Scheduled(c)' <=> cc_pc[x] = "getlock" /\ ~ cc_cancel'[x]
      BY <2>1, <2>5 DEF Scheduled
    <3>4. /\ cc_pc[x] = "getlock" => HasLock(c)
          /\ callout_migrating(c) /\ HasLock(c) => cc_cancel[x]
      BY <1>1, <2>2 DEF CpuInv
    <3>5. Scheduled(c)' <=> armed'[c]
      BY <2>5, <3>2, <3>3, <3>4
    <3> QED
      BY <2>5, <3>1, <3>5 DEF CalloutInv
  <2> QED
    BY <1>1, <2>1, <2>3, <2>4, <2>6, <2>7, CallOn
<1>4. CASE /\ "PENDING" \notin StopFlags(c)
           /\ c_active' = [c_active EXCEPT ![c] = FALSE]
           /\ cc_curr[x] # c
           /\ c_iflags' = [c_iflags EXCEPT ![c] = StopFlags(c)]
           /\ armed' = [armed EXCEPT ![c] = @ /\ DrainWindow(c)]
           /\ UNCHANGED <<cc_cancel, cc_drain, cc_migration_cpu>>
           /\ UNCHANGED lists
  <2>1. armed' = armed
    <3>1. armed[c] => DrainWindow(c)
      BY <1>4, NotScheduled, StopFlagsSay
    <3> QED
      BY <1>0, <1>4, <3>1 DEF TypeOK
  <2>2. /\ c_iflags' \in [Callouts -> SUBSET IFlags] /\ c_iflags'[c] = StopFlags(c)
        /\ \A d \in Callouts \ {c} : c_iflags'[d] = c_iflags[d]
    BY <1>0, <1>4, StopFlagsSay DEF TypeOK
  <2>3. /\ c_active' \in [Callouts -> BOOLEAN]
        /\ \A d \in Callouts \ {c} : c_active'[d] = c_active[d]
    BY <1>0, <1>4 DEF TypeOK
  <2>4. TypeOK'
    BY <1>0, <1>1, <1>4, <2>1, <2>2, <2>3 DEF TypeOK, lists, softclock, client
  <2>5. /\ \A d \in Callouts \ {c} : SameCallout(d)
        /\ \A y \in Cpus \ {x} : SameCpu(y)
        /\ SameCpu(x)
        /\ CpuInv(x)' /\ CalloutInv(c)'
    BY <1>1, <1>4, <2>1, <2>2, <2>3, SpecialDoes
  <2> QED
    BY <1>1, <2>4, <2>5, CallOn
<1> QED
  BY <1>2, <1>3, <1>4 DEF _callout_stop

(* The step of one client in callout_drain(). *)
LEMMA OwnStep ==
  ASSUME IInv, NEW t \in Threads, ClientInv(t)', UNCHANGED <<c_cpu, softclock>>,
         \A u \in Threads \ {t} : SameClient(u)
  PROVE  \A u \in Threads : ClientInv(u)'
<1> SUFFICES ASSUME NEW u \in Threads, u # t PROVE ClientInv(u)'
  OBVIOUS
<1>1. ClientInv(u) /\ SameClient(u)
  BY DEF IInv
<1> QED
  BY <1>1 DEF ClientInv, SameClient, softclock

(* DrainAgain() *)
LEMMA DrainAgainStep ==
  ASSUME IInv, NEW t \in Threads, DrainAgain(t)
  PROVE  IInv'
<1> USE CalloutAssumption
<1>0. TypeOK /\ ClientInv(t) /\ pc[t] = "again" /\ c_cpu[local[t].c] # CPUBLOCK
  BY DEF IInv, DrainAgain
<1> PICK c \in Callouts : local[t].c = c
  BY <1>0 DEF ClientInv
<1> PICK x \in Cpus : c_cpu[c] = x
  BY <1>0 DEF TypeOK
<1>1. UNCHANGED <<kind, c_cpu, c_lock, cc_curr, cc_cancel, cc_drain,
                  cc_migration_cpu, softclock>>
  BY DEF DrainAgain
<1>2. sq_lock' \in [Cpus -> Threads \cup {NoOwner}]
  <2>1. sq_lock' = sq_lock \/ sleepq_release(t)
    BY DEF DrainAgain
  <2> QED
    BY <1>0, <2>1 DEF TypeOK, sleepq_release
<1>3. \A y \in waits[t] : y = x
  BY <1>0, <1>1 DEF IInv, TypeOK, CpuInv, ClientInv, InProgress
<1>4. ASSUME \/ DrainReturns(t)
             \/ /\ UNCHANGED <<pc, waits>>
                /\ local' = [local EXCEPT ![t].cpu = CPUBLOCK]
             \/ /\ pc' = [pc EXCEPT ![t] = "sqlock"]
                /\ local' = [local EXCEPT ![t].cpu = x]
                /\ UNCHANGED waits
             \/ /\ pc' = [pc EXCEPT ![t] = "add"]
                /\ local[t].cpu = x
                /\ UNCHANGED <<local, waits>>
      PROVE  /\ pc' \in [Threads -> {"caller", "switch", "again", "sqlock", "add",
                                     "asleep", "relock"}]
             /\ local' \in [Threads -> [c : Callouts \cup {NoCallout},
                                        cpu : Cpus \cup {CPUBLOCK}]]
             /\ waits' \in [Threads -> SUBSET Cpus]
             /\ \A u \in Threads : pc'[u] # pc[u] => "switch" \notin {pc[u], pc'[u]}
             /\ \A u \in Threads : pc[u] = "switch" => local'[u] = local[u]
             /\ \A u \in Threads : ClientInv(u)'
  <2>1. pc' \in [Threads -> {"caller", "switch", "again", "sqlock", "add",
                             "asleep", "relock"}]
    BY <1>0, <1>4 DEF TypeOK, DrainReturns
  <2>2. local' \in [Threads -> [c : Callouts \cup {NoCallout},
                                cpu : Cpus \cup {CPUBLOCK}]]
    <3> DEFINE Locals == [c : Callouts \cup {NoCallout}, cpu : Cpus \cup {CPUBLOCK}]
    <3>1. local \in [Threads -> Locals] /\ x \in Cpus \cup {CPUBLOCK}
      BY <1>0 DEF TypeOK
    <3>2. NoLocals \in Locals
      BY DEF NoLocals
    <3>3. \A m \in Locals, n \in Cpus \cup {CPUBLOCK} : [m EXCEPT !.cpu = n] \in Locals
      OBVIOUS
    <3>4. \/ local' = [local EXCEPT ![t] = NoLocals]
          \/ local' = [local EXCEPT ![t] = [local[t] EXCEPT !.cpu = CPUBLOCK]]
          \/ local' = [local EXCEPT ![t] = [local[t] EXCEPT !.cpu = x]]
          \/ local' = local
      BY <1>4 DEF DrainReturns
    <3> HIDE DEF Locals
    <3>5. \E l \in Locals : local' = [local EXCEPT ![t] = l] \/ local' = local
      BY <3>1, <3>2, <3>3, <3>4
    <3>6. local' \in [Threads -> Locals]
      BY <3>1, <3>5
    <3> QED
      BY <3>6 DEF Locals
  <2>3. waits' \in [Threads -> SUBSET Cpus]
    BY <1>0, <1>4 DEF TypeOK, DrainReturns
  <2>4. \A u \in Threads \ {t} : SameClient(u)
    BY <1>0, <1>4 DEF TypeOK, SameClient, DrainReturns
  <2>5. pc'[t] \in {"caller", "again", "sqlock", "add"}
    BY <1>0, <1>4 DEF TypeOK, DrainReturns
  <2>6. ClientInv(t)'
    <3>1. CASE DrainReturns(t)
      BY <1>0, <3>1 DEF TypeOK, DrainReturns, ClientInv
    <3>2. CASE /\ UNCHANGED <<pc, waits>>
               /\ local' = [local EXCEPT ![t].cpu = CPUBLOCK]
      BY <1>0, <1>1, <3>2 DEF TypeOK, ClientInv, softclock
    <3>3. CASE /\ pc' = [pc EXCEPT ![t] = "sqlock"]
               /\ local' = [local EXCEPT ![t].cpu = x]
               /\ UNCHANGED waits
      BY <1>0, <1>1, <1>3, <3>3 DEF TypeOK, ClientInv, softclock
    <3>4. CASE /\ pc' = [pc EXCEPT ![t] = "add"]
               /\ local[t].cpu = x
               /\ UNCHANGED <<local, waits>>
      BY <1>0, <1>1, <1>3, <3>4 DEF TypeOK, ClientInv, softclock
    <3> QED
      BY <1>4, <3>1, <3>2, <3>3, <3>4
  <2> QED
    BY <1>0, <1>1, <2>1, <2>2, <2>3, <2>4, <2>5, <2>6, OwnStep DEF SameClient
<1>5. CASE /\ StopPending(c)
           /\ DrainReturns(t)
           /\ UNCHANGED cc_waiting
  <2>1. /\ wheel' \in [Cpus -> SUBSET Callouts] /\ expireq' \in [Cpus -> SUBSET Callouts]
        /\ c_iflags' \in [Callouts -> SUBSET IFlags]
        /\ c_active' \in [Callouts -> BOOLEAN] /\ armed' \in [Callouts -> BOOLEAN]
        /\ \A d \in Callouts \ {c} : SameCallout(d)
        /\ \A y \in Cpus : SameCpu(y)
        /\ CpuInv(x)' /\ CalloutInv(c)'
    BY <1>1, <1>5, StopPendingDoes
  <2>2. TypeOK'
    BY <1>0, <1>1, <1>2, <1>4, <1>5, <2>1 DEF TypeOK, softclock
  <2> QED
    BY <1>1, <1>4, <1>5, <2>1, <2>2, CallBy
<1>6. CASE ~ (StopPending(c) /\ DrainReturns(t) /\ UNCHANGED cc_waiting)
  <2>1. /\ c_iflags' = [c_iflags EXCEPT ![c] = StopFlags(c)]
        /\ \/ c_active' = [c_active EXCEPT ![c] = @ /\ ~ NotOnAList(c)]
           \/ /\ "PENDING" \notin StopFlags(c)
              /\ c_active' = [c_active EXCEPT ![c] = FALSE]
        /\ UNCHANGED lists
        /\ \/ UNCHANGED armed
           \/ /\ cc_curr[x] # c /\ "PENDING" \notin StopFlags(c)
              /\ armed' = [armed EXCEPT ![c] = @ /\ DrainWindow(c)]
    BY <1>6 DEF DrainAgain, MustWait
  <2>2. \/ UNCHANGED cc_waiting
        \/ /\ cc_waiting' = [cc_waiting EXCEPT ![x] = TRUE]
           /\ cc_curr[x] = c /\ "PENDING" \notin StopFlags(c)
    BY <1>6 DEF DrainAgain, MustWait
  <2>3. /\ cc_waiting' \in [Cpus -> BOOLEAN]
        /\ \A y \in Cpus : \/ cc_waiting'[y] = cc_waiting[y]
                           \/ y = x /\ cc_curr[x] = c /\ "PENDING" \notin StopFlags(c)
    BY <1>0, <2>2 DEF TypeOK
  <2>4. \/ DrainReturns(t)
        \/ /\ UNCHANGED <<pc, waits>>
           /\ local' = [local EXCEPT ![t].cpu = CPUBLOCK]
        \/ /\ pc' = [pc EXCEPT ![t] = "sqlock"]
           /\ local' = [local EXCEPT ![t].cpu = x]
           /\ UNCHANGED waits
        \/ /\ pc' = [pc EXCEPT ![t] = "add"]
           /\ local[t].cpu = x
           /\ UNCHANGED <<local, waits>>
    BY <1>6 DEF DrainAgain
  <2>5. armed' = armed
    <3>1. cc_curr[x] # c /\ "PENDING" \notin StopFlags(c) /\ armed[c] => DrainWindow(c)
      BY NotScheduled, StopFlagsSay
    <3> QED
      BY <1>0, <2>1, <3>1 DEF TypeOK
  <2>6. /\ c_iflags' \in [Callouts -> SUBSET IFlags]
        /\ c_active' \in [Callouts -> BOOLEAN]
        /\ \A d \in Callouts \ {c} : SameCallout(d)
        /\ \A y \in Cpus \ {x} : SameCpu(y)
        /\ cc_curr[x] # c => SameCpu(x)
        /\ CpuInv(x)' /\ CalloutInv(c)'
    <3>1. /\ c_active' \in [Callouts -> BOOLEAN]
          /\ \A d \in Callouts \ {c} : c_active'[d] = c_active[d]
      BY <1>0, <2>1 DEF TypeOK
    <3>2. "PENDING" \in StopFlags(c) /\ c_active[c] => c_active'[c]
      <4>1. "PENDING" \in StopFlags(c) => ~ NotOnAList(c)
        BY DEF StopFlags
      <4> QED
        BY <1>0, <2>1, <4>1 DEF TypeOK
    <3>3. /\ c_iflags' \in [Callouts -> SUBSET IFlags] /\ c_iflags'[c] = StopFlags(c)
          /\ \A d \in Callouts \ {c} : c_iflags'[d] = c_iflags[d]
      BY <1>0, <2>1, StopFlagsSay DEF TypeOK
    <3> QED
      BY <1>1, <2>1, <2>3, <2>5, <3>1, <3>2, <3>3, SpecialDoes
  <2>7. /\ pc' \in [Threads -> {"caller", "switch", "again", "sqlock", "add",
                                "asleep", "relock"}]
        /\ local' \in [Threads -> [c : Callouts \cup {NoCallout},
                                   cpu : Cpus \cup {CPUBLOCK}]]
        /\ waits' \in [Threads -> SUBSET Cpus]
        /\ \A u \in Threads : pc'[u] # pc[u] => "switch" \notin {pc[u], pc'[u]}
        /\ \A u \in Threads : pc[u] = "switch" => local'[u] = local[u]
        /\ \A u \in Threads : ClientInv(u)'
    BY <1>4, <2>4
  <2>8. TypeOK'
    BY <1>0, <1>1, <1>2, <2>1, <2>3, <2>5, <2>6, <2>7 DEF TypeOK, softclock, lists
  <2> QED
    BY <1>1, <2>6, <2>7, <2>8, CallBy
<1> QED
  BY <1>5, <1>6

(* A step of one client that touches nothing but its own state. *)
LEMMA ClientOnly ==
  ASSUME IInv, TypeOK', NEW t \in Threads, ClientInv(t)',
         "switch" \notin {pc[t], pc'[t]},
         UNCHANGED <<kind, callout, entity, softclock, armed>>,
         \A u \in Threads \ {t} : SameClient(u)
  PROVE  IInv'
<1>1. /\ \A y \in Cpus : SameCpu(y)
      /\ \A d \in Callouts : SameCallout(d)
  BY DEF SameCpu, SameCallout, callout, lists, entity, softclock
<1>2. SameMovers /\ NoNewMovers
  BY <1>1 DEF SameMovers, NoNewMovers, SameClient, SameCpu
<1>3. ASSUME NEW y \in Cpus PROVE CpuInv(y)'
  BY <1>1, CpuKept DEF IInv
<1>4. ASSUME NEW d \in Callouts PROVE CalloutInv(d)'
  BY <1>1, <1>2, CalloutKept, MovingKept DEF IInv, CalloutInv
<1>5. \A u \in Threads : ClientInv(u)'
  BY OwnStep DEF callout
<1>6. MoverInv'
  BY <1>2, MoverKept DEF IInv
<1> QED
  BY <1>3, <1>4, <1>5, <1>6 DEF IInv

(* callout_drain() *)
LEMMA DrainStep ==
  ASSUME IInv, NEW t \in Threads, NEW c \in Callouts, callout_drain(t, c)
  PROVE  IInv'
<1>0. TypeOK
  BY DEF IInv
<1>1. TypeOK'
  <2>1. local' \in [Threads -> [c : Callouts \cup {NoCallout},
                                cpu : Cpus \cup {CPUBLOCK}]]
    BY <1>0 DEF callout_drain, TypeOK
  <2>2. waits' \in [Threads -> SUBSET Cpus]
    BY <1>0 DEF callout_drain, TypeOK
  <2> QED
    BY <1>0, <2>1, <2>2 DEF callout_drain, TypeOK, callout, lists, entity, softclock
<1>2. ClientInv(t)'
  BY <1>0 DEF callout_drain, TypeOK, ClientInv, softclock
<1>3. "switch" \notin {pc[t], pc'[t]} /\ \A u \in Threads \ {t} : SameClient(u)
  BY <1>0 DEF callout_drain, TypeOK, SameClient
<1> QED
  BY <1>1, <1>2, <1>3, ClientOnly DEF callout_drain

(* DrainLocksChain(), DrainSleeps() and DrainResumes() *)
LEMMA DrainGoesOnStep ==
  ASSUME IInv, NEW t \in Threads,
         DrainLocksChain(t) \/ DrainSleeps(t) \/ DrainResumes(t)
  PROVE  IInv'
<1>0. TypeOK /\ ClientInv(t)
  BY DEF IInv
<1>1. UNCHANGED <<kind, callout, c_lock, entity, softclock, armed>>
  BY DEF DrainLocksChain, DrainSleeps, DrainResumes
<1>2. \/ /\ pc[t] \in {"sqlock", "add", "relock"}
         /\ \E p \in {"again", "asleep", "sqlock"} : pc' = [pc EXCEPT ![t] = p]
         /\ pc[t] = "sqlock" \/ pc'[t] # "again"
         /\ UNCHANGED <<local, waits>>
      \/ pc[t] = "relock" /\ DrainReturns(t)
  BY <1>0 DEF DrainLocksChain, DrainSleeps, DrainResumes, TypeOK
<1>3. /\ pc' \in [Threads -> {"caller", "switch", "again", "sqlock", "add",
                              "asleep", "relock"}]
      /\ local' \in [Threads -> [c : Callouts \cup {NoCallout},
                                 cpu : Cpus \cup {CPUBLOCK}]]
      /\ waits' \in [Threads -> SUBSET Cpus]
      /\ "switch" \notin {pc[t], pc'[t]}
      /\ \A u \in Threads \ {t} : SameClient(u)
  <2>1. pc' \in [Threads -> {"caller", "switch", "again", "sqlock", "add",
                             "asleep", "relock"}]
    BY <1>0, <1>2 DEF TypeOK, DrainReturns
  <2>2. local' \in [Threads -> [c : Callouts \cup {NoCallout},
                                cpu : Cpus \cup {CPUBLOCK}]]
    <3>1. NoLocals \in [c : Callouts \cup {NoCallout}, cpu : Cpus \cup {CPUBLOCK}]
      BY DEF NoLocals
    <3>2. local' = local \/ local' = [local EXCEPT ![t] = NoLocals]
      BY <1>2 DEF DrainReturns
    <3> QED
      BY <1>0, <3>1, <3>2 DEF TypeOK
  <2>3. waits' \in [Threads -> SUBSET Cpus]
    BY <1>0, <1>2 DEF TypeOK, DrainReturns
  <2>4. "switch" \notin {pc[t], pc'[t]} /\ \A u \in Threads \ {t} : SameClient(u)
    BY <1>0, <1>2 DEF TypeOK, DrainReturns, SameClient
  <2> QED
    BY <2>1, <2>2, <2>3, <2>4
<1>4. sq_lock' \in [Cpus -> Threads \cup {NoOwner}]
  <2>1. \/ sq_lock' = sq_lock
        \/ sq_lock' = [sq_lock EXCEPT ![local[t].cpu] = t]
        \/ sleepq_release(t)
    BY DEF DrainLocksChain, DrainSleeps, DrainResumes
  <2> QED
    BY <1>0, <2>1 DEF TypeOK, sleepq_release
<1>5. TypeOK'
  BY <1>0, <1>1, <1>3, <1>4 DEF TypeOK, callout, lists, entity, softclock
<1>6. ClientInv(t)'
  <2>1. CASE DrainReturns(t)
    BY <1>0, <2>1 DEF TypeOK, DrainReturns, ClientInv
  <2>2. CASE /\ pc[t] \in {"sqlock", "add", "relock"}
             /\ pc'[t] \in {"again", "asleep", "sqlock"}
             /\ UNCHANGED <<local, waits>>
    BY <1>0, <1>1, <2>2 DEF ClientInv, softclock
  <2> QED
    BY <1>0, <1>2, <2>1, <2>2 DEF TypeOK
<1> QED
  BY <1>1, <1>3, <1>5, <1>6, ClientOnly

-----------------------------------------------------------------------------
(* The invariant is inductive. *)
LEMMA NextOK == IInv /\ [Next]_vars => IInv'
<1> SUFFICES ASSUME IInv, [Next]_vars PROVE IInv'
  OBVIOUS
<1> USE CalloutAssumption
<1>1. ASSUME NEW x \in Cpus, Softclock(x) PROVE IInv'
  <2>1. ASSUME NEW c \in Callouts, callout_process(x, c) \/ SoftclockCall(x, c)
        PROVE  IInv'
    BY <2>1, ProcessStep, CallStep
  <2>2. ASSUME HandlerUnlock(x) PROVE IInv'
    <3>1. cc_local[x].c \in Callouts
      BY <2>2 DEF IInv, CpuInv, HandlerUnlock
    <3> QED
      BY <2>2, <3>1, LockStep DEF HandlerUnlock
  <2>3. ASSUME NEW cpu \in Cpus, HandlerReset(x, cpu) PROVE IInv'
    <3>1. PICK c \in Callouts :
            /\ InHandler(x, c) /\ c_cpu[c] # CPUBLOCK
            /\ ResetInProgress(c, cpu) \/ ResetHere(c, cpu)
            /\ UNCHANGED <<kind, c_lock, softclock, sq_lock, client>>
      BY <2>3 DEF HandlerReset
    <3>2. c_cpu[c] = x /\ cc_pc[x] = "running"
      BY <3>1 DEF IInv, CpuInv, InHandler, InProgress
    <3>3. ~ DrainWindow(c)
      BY <3>2 DEF IInv, CpuInv, DrainWindow
    <3> QED
      BY <3>1, <3>3, ResetStep
  <2>4. ASSUME HandlerStop(x) PROVE IInv'
    BY <2>4, StopStep DEF HandlerStop
  <2> QED
    BY <1>1, <2>1, <2>2, <2>3, <2>4, GetLockStep, HandlerReturnStep, DoneStep,
       WakeStep, MigrationDoneStep, DeactivateStep DEF Softclock
<1>2. ASSUME NEW t \in Threads, Client(t) PROVE IInv'
  <2>1. ASSUME NEW c \in Callouts, Lock(t, c) \/ Unlock(t, c) PROVE IInv'
    BY <2>1, LockStep DEF Lock, Unlock
  <2>2. ASSUME NEW c \in Callouts, NEW cpu \in Cpus,
               callout_reset(t, c, cpu) \/ ResetMoves(t, c, cpu)
        PROVE  IInv'
    BY <2>2, ResetStep, ResetMovesStep DEF callout_reset, ResetAllowed
  <2>3. ASSUME NEW c \in Callouts, callout_stop(t, c) \/ callout_async_drain(t, c)
        PROVE  IInv'
    BY <2>3, StopStep DEF callout_stop, callout_async_drain
  <2> QED
    BY <1>2, <2>1, <2>2, <2>3, DrainStep, ResetMovedStep, DrainAgainStep,
       DrainGoesOnStep DEF Client
<1>3. ASSUME UNCHANGED vars PROVE IInv'
  <2>1. /\ \A y \in Cpus : SameCpu(y)
        /\ \A d \in Callouts : SameCallout(d)
        /\ \A t \in Threads : SameClient(t)
        /\ TypeOK'
    BY <1>3 DEF IInv, TypeOK, SameCpu, SameCallout, SameClient, vars, callout, lists,
       entity, softclock, client
  <2> QED
    BY <2>1, NothingChanges
<1> QED
  BY <1>1, <1>2, <1>3 DEF Next

(* What is said of the CPUs, the callouts and the clients holds in every   *)
(* reachable state.                                                        *)
THEOREM Invariance == Spec => []IInv
BY InitOK, NextOK, PTL DEF Spec

(* The inductive invariant gives ListsAgree.                               *)
LEMMA IInvListsAgree == IInv => ListsAgree
<1> SUFFICES ASSUME IInv PROVE ListsAgree
  OBVIOUS
<1>1. TypeOK
  BY DEF IInv
<1>2. InProgressIsSeen
  <2> SUFFICES ASSUME NEW x \in Cpus
               PROVE  /\ cc_pc[x] \in {"getlock", "running", "done"} =>
                           cc_curr[x] = cc_local[x].c /\ c_cpu[cc_local[x].c] = x
                      /\ cc_cce_migrating(x) =>
                           LET c == cc_local[x].c
                           IN  /\ cc_curr[x] = c \/ cc_pc[x] = "drain"
                               /\ callout_migrating(c) /\ c_cpu[c] = x
                               /\ HasLock(c) => cc_cancel[x]
                      /\ cc_waiting[x] => cc_curr[x] # NoCallout \/ cc_pc[x] = "drain"
    BY DEF InProgressIsSeen
  <2>1. CpuInv(x)
    BY DEF IInv
  <2> QED
    BY <2>1, CalloutAssumption DEF CpuInv, InProgress
<1> QED
  BY <1>1, <1>2 DEF IInv, CalloutInv, ListInv, ListsAgree

(* The inductive invariant gives ScheduledAsAsked.                         *)
LEMMA IInvScheduledAsAsked == IInv => ScheduledAsAsked
<1> SUFFICES ASSUME IInv, NEW c \in Callouts
             PROVE  armed[c] <=> \/ \E x \in Cpus : c \in wheel[x] \cup expireq[x]
                                 \/ MigrationDeferred(c) \/ Moving(c) \/ AboutToRun(c)
  BY DEF ScheduledAsAsked
<1>0. /\ TypeOK /\ CalloutInv(c) /\ (armed[c] <=> Scheduled(c))
      /\ c_cpu[c] \in Cpus \cup {CPUBLOCK}
  BY DEF IInv, CalloutInv, TypeOK
<1>1. ASSUME c_cpu[c] = CPUBLOCK PROVE Moving(c)
  BY <1>0, <1>1 DEF CalloutInv
<1>2. ASSUME callout_migrating(c) PROVE MigrationDeferred(c)
  <2>1. /\ c_cpu[c] \in Cpus /\ cc_local[c_cpu[c]].c = c
        /\ cc_cce_migrating(c_cpu[c])
    BY <1>0, <1>2 DEF CalloutInv
  <2> QED
    BY <1>2, <2>1 DEF MigrationDeferred, cc_cce_migrating
<1>3. ASSUME callout_pending(c), ~ callout_migrating(c), c_cpu[c] # CPUBLOCK
      PROVE  \E x \in Cpus : c \in wheel[x] \cup expireq[x]
  BY <1>0, <1>3 DEF CalloutInv, ListInv
<1>4. ASSUME c_cpu[c] # CPUBLOCK, cc_curr[c_cpu[c]] = c, cc_pc[c_cpu[c]] = "getlock",
             ~ cc_cancel[c_cpu[c]]
      PROVE  AboutToRun(c)
  <2>1. cc_local[c_cpu[c]].c = c
    BY <1>0, <1>4, InHands
  <2> QED
    BY <1>0, <1>4, <2>1 DEF AboutToRun
<1>5. ASSUME NEW x \in Cpus, c \in wheel[x] \cup expireq[x] PROVE callout_pending(c)
  BY <1>0, <1>5 DEF CalloutInv, ListInv
<1>6. ASSUME Moving(c) PROVE c_cpu[c] = CPUBLOCK
  BY <1>6 DEF IInv, Moving, CpuInv, ClientInv
<1>7. ASSUME AboutToRun(c)
      PROVE  /\ cc_curr[c_cpu[c]] = c /\ cc_pc[c_cpu[c]] = "getlock"
             /\ ~ cc_cancel[c_cpu[c]]
  <2> PICK x \in Cpus : cc_pc[x] = "getlock" /\ cc_local[x].c = c /\ ~ cc_cancel[x]
    BY <1>7 DEF AboutToRun
  <2>1. CpuInv(x)
    BY DEF IInv
  <2> QED
    BY <2>1 DEF CpuInv, InProgress
<1> QED
  BY <1>0, <1>1, <1>2, <1>3, <1>4, <1>5, <1>6, <1>7 DEF Scheduled, MigrationDeferred

(* Flags, c_cpu and the lists agree in every critical section: a callout   *)
(* is on the one list its flags and c_cpu name, softclock() of c_cpu is    *)
(* the one that runs it, and a deferred migration is seen by both sides,   *)
(* as long as no client resets a callout in DrainWindow() (ResetAllowed);  *)
(* handlers reset it, and everybody stops and drains it, at any time.      *)
THEOREM ListsAlwaysAgree == Spec => []ListsAgree
BY Invariance, IInvListsAgree, PTL

(* No callout_reset() is lost and no handler is called after a             *)
(* callout_stop(), wherever softclock() was meanwhile: in DrainWindow()    *)
(* alone, where clients may not reset (ResetAllowed), a stop or a drain    *)
(* does not stop the callout and a deferred migration arms it.             *)
THEOREM AlwaysScheduledAsAsked == Spec => []ScheduledAsAsked
BY Invariance, IInvScheduledAsAsked, PTL

(* Only the two ends of callout_drain() make it return. *)
LEMMA WhoEndsADrain ==
  ASSUME IInv, Next, NEW t \in Threads, DrainEnds(t)
  PROVE  DrainAgain(t) \/ DrainResumes(t)
<1>0. TypeOK /\ pc[t] \in {"again", "relock"} /\ pc'[t] = "caller"
  BY DEF IInv, DrainEnds
<1>1. ASSUME NEW x \in Cpus, Softclock(x) PROVE FALSE
  <2>1. pc' = pc \/ WakeDrainers(x)
    BY <1>1 DEF Softclock, callout_process, SoftclockCall, GetLock, SkipHandler,
       HandlerUnlock, HandlerReturn, SoftclockDone, DrainFunction, MigrationDone,
       HandlerReset, HandlerStop, _callout_stop, callout_deactivate, client
  <2> QED
    BY <1>0, <2>1 DEF WakeDrainers
<1>2. ASSUME NEW u \in Threads, Client(u) PROVE u = t /\ (DrainAgain(t) \/ DrainResumes(t))
  <2>1. CASE \/ \E c \in Callouts :
                  \/ Lock(u, c) \/ Unlock(u, c)
                  \/ \E cpu \in Cpus : callout_reset(u, c, cpu)
                  \/ callout_stop(u, c) \/ callout_async_drain(u, c)
    BY <1>0, <2>1 DEF Lock, Unlock, callout_reset, callout_stop, callout_async_drain,
       _callout_stop, client
  <2>2. CASE \/ \E c \in Callouts :
                  \/ \E cpu \in Cpus : ResetMoves(u, c, cpu)
                  \/ callout_drain(u, c)
             \/ ResetMoved(u) \/ DrainLocksChain(u) \/ DrainSleeps(u)
    BY <1>0, <2>2 DEF TypeOK, ResetMoves, MayCall, callout_drain, ResetMoved,
       DrainLocksChain, DrainSleeps
  <2>3. CASE DrainAgain(u) \/ DrainResumes(u)
    <3>1. u # t => pc'[t] = pc[t]
      BY <1>0, <2>3 DEF TypeOK, DrainAgain, DrainResumes, DrainReturns
    <3> QED
      BY <1>0, <2>3, <3>1
  <2> QED
    BY <1>2, <2>1, <2>2, <2>3 DEF Client
<1> QED
  BY <1>1, <1>2 DEF Next

(* callout_drain() that does not find the callout pending again, and stop  *)
(* it, returns after the invocation that was in progress when it was       *)
(* called.                                                                 *)
THEOREM DrainsWaitForHandler == Spec => DrainWaitsForHandler
<1>1. ASSUME IInv, Next, NEW t \in Threads, DrainEnds(t), waits[t] # {}
      PROVE  armed[local[t].c] /\ ~ armed'[local[t].c]
  <2>0. TypeOK /\ ClientInv(t)
    BY <1>1 DEF IInv
  <2> PICK x \in waits[t] : TRUE
    BY <1>1
  <2>1. /\ x \in Cpus /\ local[t].c \in Callouts
        /\ cc_curr[x] = local[t].c /\ c_cpu[local[t].c] = x
    BY <1>1, <2>0, CalloutAssumption
    DEF IInv, TypeOK, ClientInv, CpuInv, InProgress, DrainEnds
  <2>2. CASE DrainAgain(t)
    <3>1. StopPending(local[t].c)
      BY <1>1, <2>0, <2>1, <2>2 DEF DrainAgain, MustWait, DrainEnds, TypeOK
    <3>2. callout_pending(local[t].c) /\ CalloutInv(local[t].c)
      BY <1>1, <2>1, <3>1, StopFlagsSay DEF StopPending, IInv
    <3> QED
      BY <2>0, <2>1, <3>1, <3>2 DEF StopPending, CalloutInv, Scheduled, TypeOK
  <2>3. CASE DrainResumes(t)
    <3>1. local[t].cpu = x
      BY <2>0, <2>3, CalloutAssumption DEF ClientInv, DrainResumes
    <3> QED
      BY <1>1, <2>0, <2>1, <2>3, <3>1 DEF DrainResumes, DrainEnds, TypeOK
  <2> QED
    BY <1>1, <2>2, <2>3, WhoEndsADrain
<1>2. IInv /\ [Next]_vars =>
        [\A t \in Threads : DrainEnds(t) /\ waits[t] # {} =>
           armed[local[t].c] /\ ~ armed'[local[t].c]]_vars
  BY <1>1
<1> QED
  BY <1>2, Invariance, PTL DEF Spec, DrainWaitsForHandler

=============================================================================
