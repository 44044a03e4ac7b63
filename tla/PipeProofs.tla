----------------------------- MODULE PipeProofs -----------------------------
(***************************************************************************)
(* Proofs about pipes, for any number of readers and writers and any sizes: *)
(* the ring keeps its bounds and PIPE_LOCKFL its one owner, no sleeper is   *)
(* forgotten, and neither is a thread in select(); and the pipe is a        *)
(* stream of bytes.                                                         *)
(*                                                                          *)
(* A step hands the pipe from one function of the file to the next, and     *)
(* gives it up at the end (Goto).  Mid says what holds of the pipe in       *)
(* between, while thread t has the mutex: everything that concerns the      *)
(* others.  There is a lemma for each function, from what Mid and the code  *)
(* before the call give it to the invariant after the step.                 *)
(***************************************************************************)
EXTENDS Pipe, FiniteSetTheorems, SequenceTheorems, WellFoundedInduction, TLAPS

(* Where a thread waits for PIPE_LOCKFL, for room, for either room or      *)
(* bytes, and where a writer will see to it that a reader is told of what  *)
(* is in the ring.                                                         *)
LockWaits == {"rdlk", "rdlk2", "wrlk", "wrlk2", "wrlk3", "dwlk", "dwlk2",
              "cllk", "cllk2"}
WriteWaits == {"pipbww", "pipewr", "pipdww", "pipdwt"}
Waits == WriteWaits \cup {"piperd"}
WillTell == {"wrlk2", "wrlk3", "dwlk", "dwlk2", "wrcopy", "dwclone"}

ReaderLocations ==
  {"idle", "poll", "rdlk", "rdlk2", "piperd", "rdspace", "rdcopy", "rddirect",
   "cllk", "pipecl", "cllk2", "clfree"}
WriterLocations ==
  {"idle", "poll", "wrlk", "wrlk2", "wrlk3", "pipbww", "pipewr", "dwlk",
   "dwlk2", "pipdww", "pipdwt", "wrspace", "wrcopy", "dwbuild", "dwclone"}

Pipes ==
  [state : SUBSET Flags, busy : Nat, present : {"ACTIVE", "FINALIZED"},
   size : {0} \cup PipeSizes, in : Nat, out : Nat, cnt : Nat,
   buffer : [0..(BIG_PIPE_SIZE - 1) -> Byte \cup {None}],
   ms : Seq(Byte), pos : Nat, mapcnt : Nat,
   asleep : SUBSET Threads, sel : SUBSET Threads]

CallRecs ==
  [uio : Seq(Byte), resid : Nat, orig_resid : Nat, nread : BOOLEAN,
   nonblock : BOOLEAN, size : Nat, error : BOOLEAN]

(* The ring and the map of a direct write, of which only one has bytes. *)
PipeOK(p) ==
  /\ p \in Pipes
  /\ p.cnt <= p.size /\ p.in <= p.size /\ p.out <= p.size
  /\ p.out = p.size => p.size = 0
  /\ p.out + p.cnt \in {p.in, p.in + p.size}
  /\ p.pos + p.mapcnt <= Len(p.ms) /\ p.mapcnt <= p.size
  /\ Has(p, "DIRECTW") => p.size # 0 /\ p.cnt = 0
  /\ p.present # "ACTIVE" => Has(p, "EOF")

(* What a sleeping thread may count on: its flag is set, so that the next  *)
(* one to change what it waits for wakes it.                               *)
CanSleep(p, l) ==
  /\ l \in LockWaits \cup Waits \cup {"pipecl"}
  /\ l \in LockWaits => Has(p, "LWANT") /\ Has(p, "LOCKFL")
  /\ l = "pipecl" => Has(p, "EOF") /\ Has(p, "WANT") /\ p.busy > 0
  /\ l \in Waits => ~ Has(p, "EOF")
  /\ l \in WriteWaits => Has(p, "WANTW")
  /\ l = "piperd" => Has(p, "WANTR")
Sleeping(u, p, l) == u \in p.asleep => CanSleep(p, l)

Selecting(u, p, l) ==
  u \in p.sel =>
    /\ l = "poll" /\ Has(p, "SEL") /\ ~ Has(p, "EOF")
    /\ u \in Writers => p.size # 0

(* What PIPE_LOCKFL protects while the mutex is dropped. *)
Working(p, l, c) ==
  /\ l \in Unlocked => Has(p, "LOCKFL")
  /\ l \in {"rdspace", "wrspace", "wrcopy", "dwclone"} => ~ Has(p, "DIRECTW")
  /\ l = "rdspace" => p.size # 0 /\ p.cnt <= SMALL_PIPE_SIZE /\ ~ c.nread
  /\ l = "rdcopy" =>
       c.size > 0 /\ c.size <= p.size - p.out /\ c.size <= p.cnt /\ c.size <= c.resid
  /\ l = "rddirect" =>
       /\ Has(p, "DIRECTW")
       /\ c.size > 0 /\ c.size <= p.mapcnt /\ c.size <= c.resid
  /\ l = "wrspace" => ~ Has(p, "EOF") /\ c.size \in PipeSizes /\ p.cnt <= c.size
  /\ l = "wrcopy" =>
       c.size > 0 /\ c.size <= Len(c.uio) /\ c.size <= p.size - p.cnt
  /\ l = "dwbuild" => Has(p, "DIRECTW") /\ p.mapcnt = 0
  /\ l = "dwclone" => p.cnt = p.mapcnt /\ p.in = p.cnt /\ p.out = 0
  /\ l = "clfree" => Has(p, "EOF")

(* The locals, and how far the call has come. *)
CallOK(p, l, c) ==
  /\ Len(c.uio) <= c.orig_resid
  /\ l = "rdlk" => ~ c.nread
  /\ l \in {"dwlk", "pipdww", "dwbuild"} => c.uio # <<>>
  /\ l \in WriterLocations \ {"idle", "poll", "wrlk", "wrspace"} => p.size # 0
  /\ l \in {"pipecl", "cllk2"} => Has(p, "EOF")

At(u, p, l, c) ==
  /\ u \in Readers => l \in ReaderLocations
  /\ u \in Writers => l \in WriterLocations
  /\ Sleeping(u, p, l) /\ Selecting(u, p, l) /\ Working(p, l, c) /\ CallOK(p, l, c)

(* A writer sleeps for room only while there is something to read. *)
HasBytes(p) == p.cnt > 0 \/ (Has(p, "DIRECTW") /\ p.mapcnt > 0)
RoomWaits(T, p) ==
  \A u \in T : u \in p.asleep /\ pc[u] \in WriteWaits => HasBytes(p)

(* A reader sleeps only while there is nothing to read, or a writer is     *)
(* about to tell it.                                                       *)
SomeWillTell(T) == \E w \in T : pc[w] \in WillTell
MapWaits(T, p) ==
  \A u \in T : u \in p.asleep /\ pc[u] = "piperd" =>
    ~ (Has(p, "DIRECTW") /\ p.mapcnt > 0)
ByteWaits(T, p) ==
  \A u \in T : u \in p.asleep /\ pc[u] = "piperd" => p.cnt = 0 \/ SomeWillTell(T)

(* A pending direct write has bytes, or is being mapped. *)
Mapping(T) == \E w \in T : pc[w] = "dwbuild"
MapReady(T, p) ==
  Has(p, "DIRECTW") /\ ~ Has(p, "EOF") => p.mapcnt > 0 \/ Mapping(T)

(* The same for select(). *)
MapSelects(T, p) ==
  p.sel \cap Readers # {} => ~ Has(p, "DIRECTW") \/ Mapping(T)
ByteSelects(T, p) ==
  p.sel \cap Readers # {} => p.cnt = 0 \/ SomeWillTell(T)
SomeReads(T) == \E r \in T : pc[r] \in {"rdcopy", "rddirect"}
RoomSelects(T, p) ==
  "build" \notin Faults /\ p.sel \cap Writers # {} =>
    \/ Has(p, "DIRECTW") \/ p.size - p.cnt < PIPE_BUF
    \/ SomeReads(T)
    \/ p.cnt > 0 /\ SomeWillTell(T)
(* What is enough before a writer that will tell. *)
FullSelects(T, p) ==
  "build" \notin Faults /\ p.sel \cap Writers # {} =>
    Has(p, "DIRECTW") \/ SomeReads(T) \/ p.cnt > 0

(* PIPE_LOCKFL has one owner, and pipe_busy counts the calls. *)
Owners(T) == {u \in T : pc[u] \in Unlocked}
BusyOnes(T) == {u \in T : pc[u] \in Busy}

TypeInv ==
  /\ pc \in [Threads -> Locations]
  /\ call \in [Threads -> CallRecs]
  /\ \A u \in intr : u \in Threads /\ u \notin pipe.asleep /\ pc[u] \in Catch
  /\ open \subseteq {"read", "write"}

IInv ==
  /\ TypeInv
  /\ PipeOK(pipe)
  /\ \A u \in Threads : At(u, pipe, pc[u], call[u])
  /\ Has(pipe, "LOCKFL") <=> Owners(Threads) # {}
  /\ \A u, v \in Owners(Threads) : u = v
  /\ IsFiniteSet(BusyOnes(Threads)) /\ pipe.busy = Cardinality(BusyOnes(Threads))
  /\ RoomWaits(Threads, pipe)
  /\ MapWaits(Threads, pipe) /\ ByteWaits(Threads, pipe)
  /\ MapReady(Threads, pipe)
  /\ MapSelects(Threads, pipe) /\ ByteSelects(Threads, pipe)
  /\ RoomSelects(Threads, pipe)

-----------------------------------------------------------------------------
(***************************************************************************)
(* The pipe while thread t has the mutex.                                   *)
(***************************************************************************)

Others(t) == Threads \ {t}

(* b is 1 if pipe_busy counts t, and k says whether t owns PIPE_LOCKFL. *)
Mid0(t, p, b, k) ==
  /\ PipeOK(p)
  /\ p.asleep \ {t} \subseteq pipe.asleep
  /\ \A u \in Others(t) : At(u, p, pc[u], call[u])
  /\ Has(p, "LOCKFL") <=> (k \/ Owners(Others(t)) # {})
  /\ k => Owners(Others(t)) = {}
  /\ \A u, v \in Owners(Others(t)) : u = v
  /\ IsFiniteSet(BusyOnes(Others(t)))
  /\ p.busy = Cardinality(BusyOnes(Others(t))) + b

Mid(t, p, b, k) == Mid0(t, p, b, k) /\ t \notin p.asleep /\ t \notin p.sel

(* What a reader finds and has to leave, and what a writer that will tell. *)
ForReader(t, p) ==
  /\ MapReady(Others(t), p)
  /\ MapWaits(Others(t), p) /\ ByteWaits(Others(t), p)
  /\ MapSelects(Others(t), p) /\ ByteSelects(Others(t), p)

ForWriter(t, p) ==
  /\ MapReady(Others(t), p)
  /\ RoomWaits(Others(t), p)
  /\ MapWaits(Others(t), p) /\ MapSelects(Others(t), p)
  /\ FullSelects(Others(t), p)

ForAll(t, p) ==
  /\ ForReader(t, p)
  /\ RoomWaits(Others(t), p) /\ RoomSelects(Others(t), p)

(* Where a step may leave a thread. *)
Leaves(t, p, l) ==
  /\ RoomWaits(Others(t), p) /\ (l \in WriteWaits => HasBytes(p))
  /\ MapWaits(Others(t), p)
  /\ l = "piperd" => ~ HasBytes(p)
  /\ l \in WillTell \/ ByteWaits(Others(t), p)
  /\ l = "dwbuild" \/ MapReady(Others(t), p)
  /\ l = "dwbuild" \/ MapSelects(Others(t), p)
  /\ l \in WillTell \/ ByteSelects(Others(t), p)
  /\ \/ l \in {"rdcopy", "rddirect"}
     \/ RoomSelects(Others(t), p)
     \/ l \in WillTell /\ FullSelects(Others(t), p)

(* Only wakeups, and flags that nobody loses who waits for them. *)
Keeps(p, q) ==
  /\ p \in Pipes /\ q \in Pipes
  /\ q.size = p.size /\ q.in = p.in /\ q.out = p.out /\ q.cnt = p.cnt
  /\ q.ms = p.ms /\ q.pos = p.pos /\ q.mapcnt = p.mapcnt
  /\ q.present = p.present
  /\ q.asleep \subseteq p.asleep /\ q.sel \subseteq p.sel
  /\ Has(q, "EOF") <=> Has(p, "EOF")
  /\ Has(q, "DIRECTW") <=> Has(p, "DIRECTW")
  /\ q.asleep = {} \/ \A f \in {"WANTR", "WANTW", "WANT", "LWANT"} : Has(p, f) => Has(q, f)
  /\ q.sel = {} \/ (Has(p, "SEL") => Has(q, "SEL"))

(* The functions on the flags keep what there is. *)
LEMMA SetKeeps ==
  ASSUME NEW p \in Pipes,
         NEW F \in SUBSET {"WANTR", "WANTW", "WANT", "LWANT", "SEL", "LOCKFL"}
  PROVE  /\ Keeps(p, Set(p, F)) /\ Set(p, F).busy = p.busy
         /\ Set(p, F).state = p.state \cup F
         /\ Set(p, F).asleep = p.asleep /\ Set(p, F).sel = p.sel
BY DEF Set, Keeps, Has, Pipes, Flags

LEMMA wakeupKeeps ==
  ASSUME NEW p \in Pipes
  PROVE  /\ Keeps(p, wakeup(p)) /\ wakeup(p).busy = p.busy
         /\ wakeup(p).state = p.state /\ wakeup(p).asleep = {} /\ wakeup(p).sel = p.sel
BY DEF wakeup, Keeps, Has, Pipes

LEMMA WakeIfKeeps ==
  ASSUME NEW p \in Pipes, NEW f \in {"WANTR", "WANTW", "WANT", "LWANT"}
  PROVE  /\ Keeps(p, WakeIf(p, f)) /\ WakeIf(p, f).busy = p.busy
         /\ WakeIf(p, f).state = p.state \ {f}
         /\ Has(p, f) => WakeIf(p, f).asleep = {}
         /\ ~ Has(p, f) => WakeIf(p, f) = p
         /\ WakeIf(p, f).sel = p.sel
BY DEF WakeIf, wakeup, Clear, Keeps, Has, Pipes, Flags

LEMMA selKeeps ==
  ASSUME NEW p \in Pipes
  PROVE  /\ Keeps(p, pipeselwakeup(p)) /\ pipeselwakeup(p).busy = p.busy
         /\ pipeselwakeup(p).state = p.state \ {"SEL"}
         /\ Has(p, "SEL") => pipeselwakeup(p).sel = {}
         /\ ~ Has(p, "SEL") => pipeselwakeup(p) = p
         /\ pipeselwakeup(p).asleep = p.asleep
BY DEF pipeselwakeup, Clear, Keeps, Has, Pipes, Flags

LEMMA unlockKeeps ==
  ASSUME NEW p \in Pipes
  PROVE  /\ Keeps(p, pipeunlock(p)) /\ pipeunlock(p).busy = p.busy
         /\ pipeunlock(p).state = p.state \ {"LOCKFL", "LWANT"}
         /\ Has(p, "LWANT") => pipeunlock(p).asleep = {}
         /\ ~ Has(p, "LWANT") => pipeunlock(p).asleep = p.asleep
         /\ pipeunlock(p).sel = p.sel
BY DEF pipeunlock, WakeIf, wakeup, Clear, Keeps, Has, Pipes, Flags

LEMMA KeepsTrans ==
  ASSUME NEW p, NEW q, NEW r, Keeps(p, q), Keeps(q, r) PROVE Keeps(p, r)
BY DEF Keeps

(* And with it, what was said of those who wait. *)
LEMMA KeepsFacts ==
  ASSUME NEW p, NEW q, Keeps(p, q), NEW T \in SUBSET Threads
  PROVE  /\ RoomWaits(T, p) => RoomWaits(T, q)
         /\ MapWaits(T, p) => MapWaits(T, q)
         /\ ByteWaits(T, p) => ByteWaits(T, q)
         /\ MapReady(T, p) => MapReady(T, q)
         /\ MapSelects(T, p) => MapSelects(T, q)
         /\ ByteSelects(T, p) => ByteSelects(T, q)
         /\ RoomSelects(T, p) => RoomSelects(T, q)
         /\ FullSelects(T, p) => FullSelects(T, q)
<1>1. /\ RoomWaits(T, p) => RoomWaits(T, q)
      /\ MapWaits(T, p) => MapWaits(T, q)
      /\ ByteWaits(T, p) => ByteWaits(T, q)
      /\ MapReady(T, p) => MapReady(T, q)
  BY DEF Keeps, RoomWaits, HasBytes, MapWaits, ByteWaits, MapReady
<1>2. /\ MapSelects(T, p) => MapSelects(T, q)
      /\ ByteSelects(T, p) => ByteSelects(T, q)
      /\ RoomSelects(T, p) => RoomSelects(T, q)
      /\ FullSelects(T, p) => FullSelects(T, q)
  <2>1. \A S : q.sel \cap S # {} => p.sel \cap S # {}
    BY DEF Keeps
  <2> QED BY <2>1 DEF Keeps, MapSelects, ByteSelects, RoomSelects, FullSelects
<1> QED BY <1>1, <1>2

(* A thread that does not run finds the pipe as it left it. *)
LEMMA AtKeeps ==
  ASSUME NEW p, NEW q, Keeps(p, q), NEW u \in Threads, NEW l, NEW c, At(u, p, l, c),
         u \in q.asleep /\ l = "pipecl" => q.busy > 0,
         (l \in Unlocked \/ (u \in q.asleep /\ l \in LockWaits)) => Has(q, "LOCKFL")
  PROVE  At(u, q, l, c)
<1>1. Sleeping(u, q, l)
  BY DEF At, Sleeping, CanSleep, Keeps
<1>2. Selecting(u, q, l)
  BY DEF At, Selecting, Keeps
<1>3. Working(q, l, c)
  BY DEF At, Working, Keeps
<1>4. CallOK(q, l, c)
  BY DEF At, CallOK, Keeps
<1> QED BY <1>1, <1>2, <1>3, <1>4 DEF At

LEMMA KeepsOK ==
  ASSUME NEW p, NEW q, Keeps(p, q), PipeOK(p) PROVE PipeOK(q)
BY DEF Keeps, PipeOK

LEMMA KeepsMid ==
  ASSUME NEW t \in Threads, NEW p, NEW q, NEW b \in {0, 1}, NEW k \in BOOLEAN,
         Mid(t, p, b, k), Keeps(p, q), q.busy = p.busy,
         Has(q, "LOCKFL") <=> Has(p, "LOCKFL")
  PROVE  Mid(t, q, b, k)
<1>1. PipeOK(q)
  BY KeepsOK DEF Mid, Mid0
<1>2. ASSUME NEW u \in Others(t) PROVE At(u, q, pc[u], call[u])
  <2>1. At(u, p, pc[u], call[u]) /\ u \in Threads
    BY DEF Mid, Mid0, Others
  <2>2. u \in q.asleep /\ pc[u] = "pipecl" => q.busy > 0
    BY <2>1 DEF At, Sleeping, CanSleep, Keeps
  <2>3. (pc[u] \in Unlocked \/ (u \in q.asleep /\ pc[u] \in LockWaits)) => Has(q, "LOCKFL")
    BY <2>1 DEF At, Sleeping, CanSleep, Working, Keeps
  <2> QED BY <2>1, <2>2, <2>3, AtKeeps
<1>3. q.asleep \subseteq p.asleep /\ q.sel \subseteq p.sel
  BY DEF Keeps
<1> QED BY <1>1, <1>2, <1>3 DEF Mid, Mid0

LEMMA KeepsFor ==
  ASSUME NEW t \in Threads, NEW p, NEW q, Keeps(p, q)
  PROVE  /\ ForReader(t, p) => ForReader(t, q)
         /\ ForWriter(t, p) => ForWriter(t, q)
         /\ ForAll(t, p) => ForAll(t, q)
<1>1. Others(t) \in SUBSET Threads
  BY DEF Others
<1> QED BY <1>1, KeepsFacts DEF ForReader, ForWriter, ForAll

LEMMA SizeFacts ==
  /\ PIPE_BUF \in Nat \ {0} /\ PIPE_MINDIRECT \in Nat \ {0} /\ MINPIPESIZE \in Nat \ {0}
  /\ SMALL_PIPE_SIZE \in Nat \ {0} /\ BIG_PIPE_SIZE \in Nat \ {0}
  /\ PIPE_BUF <= SMALL_PIPE_SIZE
  /\ SMALL_PIPE_SIZE \in PipeSizes /\ PIPE_SIZE \in PipeSizes /\ BIG_PIPE_SIZE \in PipeSizes
  /\ \A s \in PipeSizes : s \in Nat /\ SMALL_PIPE_SIZE <= s /\ s <= BIG_PIPE_SIZE
<1>1. /\ PIPE_BUF \in Nat \ {0} /\ PIPE_MINDIRECT \in Nat \ {0} /\ MINPIPESIZE \in Nat \ {0}
      /\ SMALL_PIPE_SIZE \in Nat \ {0} /\ BIG_PIPE_SIZE \in Nat \ {0}
      /\ PIPE_BUF <= SMALL_PIPE_SIZE
      /\ SMALL_PIPE_SIZE \in PipeSizes /\ PIPE_SIZE \in PipeSizes
      /\ BIG_PIPE_SIZE \in PipeSizes
      /\ PipeSizes \subseteq SMALL_PIPE_SIZE..BIG_PIPE_SIZE
  BY PipeAssumption
<1> QED BY <1>1

LEMMA Fields ==
  ASSUME NEW p, PipeOK(p)
  PROVE  /\ p \in Pipes
         /\ p.size \in Nat /\ p.cnt \in Nat /\ p.in \in Nat /\ p.out \in Nat
         /\ p.mapcnt \in Nat /\ p.pos \in Nat /\ p.busy \in Nat
         /\ p.size # 0 => /\ p.size \in PipeSizes /\ p.size <= BIG_PIPE_SIZE
                          /\ p.size >= SMALL_PIPE_SIZE /\ p.size >= PIPE_BUF
<1>1. /\ p \in Pipes /\ p.size \in {0} \cup PipeSizes
      /\ p.cnt \in Nat /\ p.in \in Nat /\ p.out \in Nat
      /\ p.mapcnt \in Nat /\ p.pos \in Nat /\ p.busy \in Nat
  BY DEF PipeOK, Pipes
<1>2. ASSUME NEW s \in {0} \cup PipeSizes
      PROVE  /\ s \in Nat
             /\ s # 0 => /\ s \in PipeSizes /\ s <= BIG_PIPE_SIZE
                        /\ s >= SMALL_PIPE_SIZE /\ s >= PIPE_BUF
  BY SizeFacts
<1> QED BY <1>1, <1>2

(* What all may count on is enough for a writer: a ring without room has   *)
(* bytes.                                                                  *)
LEMMA AllIsForWriter ==
  ASSUME NEW t \in Threads, NEW p, PipeOK(p), ForAll(t, p),
         \A u \in p.sel : Selecting(u, p, "poll")
  PROVE  ForWriter(t, p)
<1>1. p.sel \cap Writers # {} => p.size # 0
  BY DEF Selecting
<1>2. FullSelects(Others(t), p)
  <2>1. p.size # 0 /\ p.size - p.cnt < PIPE_BUF => p.cnt > 0
    BY Fields, SizeFacts
  <2> QED BY <1>1, <2>1 DEF ForAll, RoomSelects, FullSelects
<1> QED BY <1>2 DEF ForAll, ForReader, ForWriter

LEMMA MidSelects ==
  ASSUME NEW t \in Threads, NEW p, NEW b, NEW k, Mid(t, p, b, k)
  PROVE  \A u \in p.sel : /\ u \in Others(t) /\ Has(p, "SEL") /\ ~ Has(p, "EOF")
                          /\ Selecting(u, p, "poll")
<1> SUFFICES ASSUME NEW u \in p.sel
             PROVE  /\ u \in Others(t) /\ Has(p, "SEL") /\ ~ Has(p, "EOF")
                    /\ Selecting(u, p, "poll")
  OBVIOUS
<1>1. u \in Others(t)
  BY DEF Mid, Mid0, PipeOK, Pipes, Others
<1>2. Selecting(u, p, pc[u])
  BY <1>1 DEF Mid, Mid0, At
<1> QED BY <1>1, <1>2 DEF Selecting

(* The functions on the flags, in the middle of a step. *)
LEMMA MidSet ==
  ASSUME NEW t \in Threads, NEW p, NEW b \in {0, 1}, NEW k \in BOOLEAN, Mid(t, p, b, k),
         NEW F \in SUBSET {"WANTR", "WANTW", "WANT", "LWANT", "SEL"}
  PROVE  Mid(t, Set(p, F), b, k) /\ Keeps(p, Set(p, F))
<1>1. p \in Pipes
  BY DEF Mid, Mid0, PipeOK
<1>2. Keeps(p, Set(p, F)) /\ Set(p, F).busy = p.busy /\ Set(p, F).state = p.state \cup F
  BY <1>1, SetKeeps
<1> QED BY <1>2, KeepsMid DEF Has

LEMMA MidWakeup ==
  ASSUME NEW t \in Threads, NEW p, NEW b \in {0, 1}, NEW k \in BOOLEAN, Mid(t, p, b, k)
  PROVE  Mid(t, wakeup(p), b, k) /\ Keeps(p, wakeup(p)) /\ wakeup(p).asleep = {}
<1>1. p \in Pipes
  BY DEF Mid, Mid0, PipeOK
<1> QED BY <1>1, wakeupKeeps, KeepsMid DEF Has

LEMMA MidWakeIf ==
  ASSUME NEW t \in Threads, NEW p, NEW b \in {0, 1}, NEW k \in BOOLEAN, Mid(t, p, b, k),
         NEW f \in {"WANTR", "WANTW", "WANT", "LWANT"}
  PROVE  /\ Mid(t, WakeIf(p, f), b, k) /\ Keeps(p, WakeIf(p, f))
         /\ f = "WANTR" => \A u \in WakeIf(p, f).asleep : pc[u] # "piperd"
         /\ f = "WANTW" => \A u \in WakeIf(p, f).asleep : pc[u] \notin WriteWaits
<1>1. p \in Pipes
  BY DEF Mid, Mid0, PipeOK
<1>2. /\ Keeps(p, WakeIf(p, f)) /\ WakeIf(p, f).busy = p.busy
      /\ WakeIf(p, f).state = p.state \ {f}
  BY <1>1, WakeIfKeeps
<1>3. Mid(t, WakeIf(p, f), b, k)
  BY <1>2, KeepsMid DEF Has
<1>4. ASSUME NEW u \in WakeIf(p, f).asleep
      PROVE  /\ f = "WANTR" => pc[u] # "piperd"
             /\ f = "WANTW" => pc[u] \notin WriteWaits
  <2>1. ~ Has(p, f) /\ WakeIf(p, f) = p
    BY <1>1, WakeIfKeeps
  <2>2. u \in Others(t) /\ u \in p.asleep
    BY <1>1, <2>1 DEF Mid, Others, Pipes
  <2>3. Sleeping(u, p, pc[u])
    BY <2>2 DEF Mid, Mid0, At
  <2> QED BY <2>1, <2>2, <2>3 DEF Sleeping, CanSleep
<1> QED BY <1>2, <1>3, <1>4

LEMMA MidSel ==
  ASSUME NEW t \in Threads, NEW p, NEW b \in {0, 1}, NEW k \in BOOLEAN, Mid(t, p, b, k)
  PROVE  /\ Mid(t, pipeselwakeup(p), b, k) /\ Keeps(p, pipeselwakeup(p))
         /\ pipeselwakeup(p).sel = {} /\ pipeselwakeup(p).asleep = p.asleep
<1>1. p \in Pipes
  BY DEF Mid, Mid0, PipeOK
<1>2. /\ Keeps(p, pipeselwakeup(p)) /\ pipeselwakeup(p).busy = p.busy
      /\ pipeselwakeup(p).state = p.state \ {"SEL"}
      /\ pipeselwakeup(p).asleep = p.asleep
  BY <1>1, selKeeps
<1>3. Mid(t, pipeselwakeup(p), b, k)
  BY <1>2, KeepsMid DEF Has
<1>4. pipeselwakeup(p).sel = {}
  BY <1>1, MidSelects, selKeeps
<1> QED BY <1>2, <1>3, <1>4

LEMMA MidUnlock ==
  ASSUME NEW t \in Threads, NEW p, NEW b \in {0, 1}, Mid(t, p, b, TRUE)
  PROVE  /\ Mid(t, pipeunlock(p), b, FALSE) /\ Keeps(p, pipeunlock(p))
         /\ ~ Has(pipeunlock(p), "LOCKFL") /\ pipeunlock(p).sel = p.sel
<1> DEFINE q == pipeunlock(p)
<1>1. p \in Pipes
  BY DEF Mid, Mid0, PipeOK
<1>2. /\ Keeps(p, q) /\ q.busy = p.busy /\ q.state = p.state \ {"LOCKFL", "LWANT"}
      /\ Has(p, "LWANT") => q.asleep = {}
      /\ q.sel = p.sel
  BY <1>1, unlockKeeps
<1> HIDE DEF q
<1>3. PipeOK(q)
  BY <1>2, KeepsOK DEF Mid, Mid0
<1>4. ~ Has(q, "LOCKFL")
  BY <1>2 DEF Has
<1>5. ASSUME NEW u \in Others(t) PROVE At(u, q, pc[u], call[u])
  <2>1. At(u, p, pc[u], call[u]) /\ u \in Threads
    BY DEF Mid, Mid0, Others
  <2>2. u \in q.asleep => u \in p.asleep /\ ~ Has(p, "LWANT")
    BY <1>2 DEF Keeps
  <2>3. u \in q.asleep /\ pc[u] = "pipecl" => q.busy > 0
    BY <1>2, <2>1, <2>2 DEF At, Sleeping, CanSleep
  <2>4. pc[u] \notin Unlocked
    BY DEF Mid, Mid0, Owners
  <2>5. ~ (u \in q.asleep /\ pc[u] \in LockWaits)
    BY <2>1, <2>2 DEF At, Sleeping, CanSleep
  <2> QED BY <1>2, <2>1, <2>3, <2>4, <2>5, AtKeeps
<1>6. q.asleep \subseteq p.asleep
  BY <1>2 DEF Keeps
<1>7. Mid(t, q, b, FALSE)
  BY <1>2, <1>3, <1>4, <1>5, <1>6 DEF Mid, Mid0
<1> QED BY <1>2, <1>4, <1>7 DEF q

LEMMA MidLock ==
  ASSUME NEW t \in Threads, NEW p, NEW b \in {0, 1}, Mid(t, p, b, FALSE),
         ~ Has(p, "LOCKFL")
  PROVE  Mid(t, pipelock(p), b, TRUE) /\ Keeps(p, pipelock(p))
<1> DEFINE q == pipelock(p)
<1>1. p \in Pipes
  BY DEF Mid, Mid0, PipeOK
<1>2. /\ Keeps(p, q) /\ q.busy = p.busy /\ q.state = p.state \cup {"LOCKFL"}
      /\ q.asleep = p.asleep /\ q.sel = p.sel
  BY <1>1, SetKeeps DEF pipelock
<1> HIDE DEF q
<1>3. PipeOK(q) /\ Has(q, "LOCKFL")
  BY <1>2, KeepsOK DEF Mid, Mid0, Has
<1>4. ASSUME NEW u \in Others(t) PROVE At(u, q, pc[u], call[u])
  <2>1. At(u, p, pc[u], call[u]) /\ u \in Threads
    BY DEF Mid, Mid0, Others
  <2>2. u \in q.asleep /\ pc[u] = "pipecl" => q.busy > 0
    BY <1>2, <2>1 DEF At, Sleeping, CanSleep
  <2> QED BY <1>2, <1>3, <2>1, <2>2, AtKeeps
<1>5. Owners(Others(t)) = {}
  BY DEF Mid, Mid0
<1>6. Mid(t, q, b, TRUE)
  BY <1>2, <1>3, <1>4, <1>5 DEF Mid, Mid0
<1> QED BY <1>2, <1>6 DEF q

-----------------------------------------------------------------------------
(***************************************************************************)
(* Into the middle of a step, and out of it.                                *)
(***************************************************************************)

LEMMA NoCallOK == NoCall \in CallRecs /\ NoCall.uio = <<>> /\ NoCall.orig_resid = 0
BY DEF NoCall, CallRecs

CallOf(l, c) == IF l = "idle" THEN NoCall ELSE c

(* A thread gives up the mutex at l. *)
LEMMA Land ==
  ASSUME IInv, NEW t \in Threads, NEW q, NEW b \in {0, 1}, NEW k \in BOOLEAN,
         NEW l \in Locations, NEW c \in CallRecs,
         Mid0(t, q, b, k), At(t, q, l, CallOf(l, c)), Leaves(t, q, l),
         b = 1 <=> l \in Busy, k <=> l \in Unlocked,
         Goto(t, l, q, c), intr' = intr \ {t}, open' \subseteq {"read", "write"}
  PROVE  IInv'
<1>1. /\ pipe' = q /\ pc \in [Threads -> Locations] /\ call \in [Threads -> CallRecs]
      /\ pc' = [pc EXCEPT ![t] = l] /\ call' = [call EXCEPT ![t] = CallOf(l, c)]
  BY DEF Goto, IInv, TypeInv, CallOf
<1>2. /\ pc'[t] = l /\ \A u \in Others(t) : pc'[u] = pc[u]
      /\ call'[t] = CallOf(l, c) /\ \A u \in Others(t) : call'[u] = call[u]
      /\ Threads = Others(t) \cup {t} /\ t \notin Others(t)
  BY <1>1 DEF Others
<1>3. TypeInv'
  <2>1. call' \in [Threads -> CallRecs] /\ pc' \in [Threads -> Locations]
    BY <1>1, NoCallOK DEF CallOf
  <2>2. ASSUME NEW u \in intr'
        PROVE  u \in Threads /\ u \notin pipe'.asleep /\ pc'[u] \in Catch
    <3>1. u \in Others(t) /\ u \notin pipe.asleep /\ pc[u] \in Catch
      BY DEF IInv, TypeInv, Others
    <3>2. u \notin q.asleep
      BY <1>2, <3>1 DEF Mid0
    <3> QED BY <1>1, <1>2, <3>1, <3>2
  <2> QED BY <2>1, <2>2 DEF TypeInv
<1>4. PipeOK(q)
  BY DEF Mid0
<1>5. \A u \in Threads : At(u, q, pc'[u], call'[u])
  BY <1>2 DEF Mid0
<1>6. Owners(Threads)' = Owners(Others(t)) \cup (IF k THEN {t} ELSE {})
  BY <1>2 DEF Owners
<1>7. Has(q, "LOCKFL") <=> Owners(Threads)' # {}
  BY <1>6 DEF Mid0
<1>8. \A u, v \in Owners(Threads)' : u = v
  BY <1>6 DEF Mid0
<1>9. BusyOnes(Threads)' = BusyOnes(Others(t)) \cup (IF b = 1 THEN {t} ELSE {})
  BY <1>2 DEF BusyOnes
<1>10. /\ IsFiniteSet(BusyOnes(Threads)')
       /\ q.busy = Cardinality(BusyOnes(Threads)')
  <2>1. IsFiniteSet(BusyOnes(Others(t))) /\ q.busy = Cardinality(BusyOnes(Others(t))) + b
    BY DEF Mid0
  <2>2. t \notin BusyOnes(Others(t)) /\ Cardinality(BusyOnes(Others(t))) \in Nat
    BY <1>2, <2>1, FS_CardinalityType DEF BusyOnes
  <2>3. CASE b = 1
    BY <1>9, <2>1, <2>2, <2>3, FS_AddElement
  <2>4. CASE b = 0
    BY <1>9, <2>1, <2>2, <2>4
  <2> QED BY <2>3, <2>4
<1>11. /\ SomeWillTell(Others(t)) => SomeWillTell(Threads)'
       /\ Mapping(Others(t)) => Mapping(Threads)'
       /\ SomeReads(Others(t)) => SomeReads(Threads)'
       /\ l \in WillTell => SomeWillTell(Threads)'
       /\ l = "dwbuild" => Mapping(Threads)'
       /\ l \in {"rdcopy", "rddirect"} => SomeReads(Threads)'
  BY <1>2 DEF SomeWillTell, Mapping, SomeReads
<1>12. RoomWaits(Threads, pipe)'
  BY <1>1, <1>2 DEF RoomWaits, Leaves, HasBytes, Has
<1>13. MapWaits(Threads, pipe)' /\ ByteWaits(Threads, pipe)'
  BY <1>1, <1>2, <1>4, <1>11, Fields DEF MapWaits, ByteWaits, Leaves, HasBytes, Has
<1>14. MapReady(Threads, pipe)' /\ MapSelects(Threads, pipe)' /\ ByteSelects(Threads, pipe)'
  BY <1>1, <1>11 DEF MapReady, MapSelects, ByteSelects, Leaves, Has
<1>15. RoomSelects(Threads, pipe)'
  BY <1>1, <1>11 DEF RoomSelects, FullSelects, Leaves, Has
<1> QED BY <1>1, <1>3, <1>4, <1>5, <1>7, <1>8, <1>10, <1>12, <1>13, <1>14, <1>15
        DEF IInv, Has

(* Where each side may be. *)
Place(t, l) ==
  /\ t \in Readers => l \in ReaderLocations
  /\ t \in Writers => l \in WriterLocations

(* A thread goes to sleep at l. *)
LEMMA LandAsleep ==
  ASSUME IInv, NEW t \in Threads, NEW p, NEW b \in {0, 1}, NEW l, NEW c \in CallRecs,
         Mid(t, p, b, FALSE), CanSleep(p, l), CallOK(p, l, c), Place(t, l), Leaves(t, p, l),
         b = 1 <=> l \in Busy,
         msleep(t, l, p, c), intr' = intr \ {t}, open' \subseteq {"read", "write"}
  PROVE  IInv'
<1> DEFINE q == [p EXCEPT !.asleep = @ \cup {t}]
<1>1. /\ l \in LockWaits \cup Waits \cup {"pipecl"} /\ l \in Locations
      /\ l \notin Unlocked /\ l \notin {"idle", "poll"}
  BY DEF CanSleep, LockWaits, Waits, WriteWaits, Locations, Catch, NoCatch, Unlocked
<1>2. PipeOK(p) /\ p \in Pipes
  BY DEF Mid, Mid0, PipeOK
<1>3. /\ q \in Pipes /\ q.asleep = p.asleep \cup {t} /\ q.sel = p.sel
      /\ q.size = p.size /\ q.in = p.in /\ q.out = p.out /\ q.cnt = p.cnt
      /\ q.ms = p.ms /\ q.pos = p.pos /\ q.mapcnt = p.mapcnt
      /\ q.present = p.present /\ q.state = p.state /\ q.busy = p.busy
  BY <1>2 DEF Pipes
<1>4. Goto(t, l, q, c)
  BY DEF msleep
<1> HIDE DEF q
<1>5. \A u \in Others(t) : At(u, q, pc[u], call[u])
  <2> SUFFICES ASSUME NEW u \in Others(t) PROVE At(u, q, pc[u], call[u])
    OBVIOUS
  <2>1. At(u, p, pc[u], call[u]) /\ u # t
    BY DEF Mid, Mid0, Others
  <2> QED BY <1>3, <2>1 DEF At, Sleeping, CanSleep, Selecting, Working, CallOK, Has
<1>6. PipeOK(q)
  BY <1>2, <1>3 DEF PipeOK, Has
<1>7. Mid0(t, q, b, FALSE)
  BY <1>3, <1>5, <1>6 DEF Mid, Mid0, Has
<1>8. At(t, q, l, CallOf(l, c))
  <2>1. CallOf(l, c) = c
    BY <1>1 DEF CallOf
  <2>2. Working(q, l, c)
    BY <1>1 DEF Working, LockWaits, Waits, WriteWaits, Unlocked
  <2>3. Sleeping(t, q, l) /\ Selecting(t, q, l) /\ CallOK(q, l, c)
    BY <1>3 DEF Mid, Sleeping, CanSleep, Selecting, CallOK, Has
  <2> QED BY <2>1, <2>2, <2>3 DEF At, Place
<1>9. Leaves(t, q, l)
  BY <1>3 DEF Leaves, RoomWaits, HasBytes, MapWaits, ByteWaits, MapReady, MapSelects,
              ByteSelects, RoomSelects, FullSelects, Has, Others
<1> QED BY <1>1, <1>4, <1>7, <1>8, <1>9, Land

(* A thread that is awake takes the mutex. *)
LEMMA Enter ==
  ASSUME IInv, NEW t \in Threads
  PROVE  /\ Mid0(t, pipe, IF pc[t] \in Busy THEN 1 ELSE 0, pc[t] \in Unlocked)
         /\ t \notin pipe.asleep /\ t \notin pipe.sel =>
              Mid(t, pipe, IF pc[t] \in Busy THEN 1 ELSE 0, pc[t] \in Unlocked)
         /\ MapWaits(Others(t), pipe) /\ RoomWaits(Others(t), pipe)
         /\ pc[t] # "dwbuild" => MapReady(Others(t), pipe) /\ MapSelects(Others(t), pipe)
         /\ pc[t] \notin WillTell => ByteWaits(Others(t), pipe) /\ ByteSelects(Others(t), pipe)
         /\ pc[t] \notin WillTell \cup {"rdcopy", "rddirect"} => RoomSelects(Others(t), pipe)
         /\ pc[t] \notin {"rdcopy", "rddirect"} => FullSelects(Others(t), pipe)
         /\ At(t, pipe, pc[t], call[t]) /\ call[t] \in CallRecs /\ pc[t] \in Locations
<1> DEFINE b == IF pc[t] \in Busy THEN 1 ELSE 0
           k == pc[t] \in Unlocked
<1>1. /\ Threads = Others(t) \cup {t} /\ t \notin Others(t)
      /\ PipeOK(pipe) /\ b \in {0, 1} /\ k \in BOOLEAN
      /\ b = 1 <=> pc[t] \in Busy
      /\ k <=> pc[t] \in Unlocked
  BY DEF Others, IInv
<1> HIDE DEF b, k
<1>2. Owners(Threads) = Owners(Others(t)) \cup (IF k THEN {t} ELSE {})
  BY <1>1 DEF Owners
<1>3. BusyOnes(Threads) = BusyOnes(Others(t)) \cup (IF b = 1 THEN {t} ELSE {})
  BY <1>1 DEF BusyOnes
<1>4. t \notin Owners(Others(t)) /\ t \notin BusyOnes(Others(t))
  BY <1>1 DEF Owners, BusyOnes
<1>5. /\ IsFiniteSet(BusyOnes(Others(t)))
      /\ pipe.busy = Cardinality(BusyOnes(Others(t))) + b
  <2>1. IsFiniteSet(BusyOnes(Threads)) /\ pipe.busy = Cardinality(BusyOnes(Threads))
    BY DEF IInv
  <2>2. CASE b = 1
    <3>1. BusyOnes(Others(t)) = BusyOnes(Threads) \ {t} /\ t \in BusyOnes(Threads)
      BY <1>3, <1>4, <2>2
    <3>2. Cardinality(BusyOnes(Threads)) \in Nat
      BY <2>1, FS_CardinalityType
    <3>3. /\ IsFiniteSet(BusyOnes(Others(t)))
          /\ Cardinality(BusyOnes(Others(t))) = Cardinality(BusyOnes(Threads)) - 1
      BY <2>1, <3>1, FS_RemoveElement
    <3> QED BY <2>1, <2>2, <3>2, <3>3
  <2>3. CASE b = 0
    <3>1. Cardinality(BusyOnes(Threads)) \in Nat
      BY <2>1, FS_CardinalityType
    <3>2. BusyOnes(Others(t)) = BusyOnes(Threads)
      BY <1>3, <2>3
    <3> QED BY <2>1, <2>3, <3>1, <3>2
  <2> QED BY <1>1, <2>2, <2>3
<1>6. Mid0(t, pipe, b, k)
  <2>1. /\ Has(pipe, "LOCKFL") <=> Owners(Threads) # {}
        /\ \A u, v \in Owners(Threads) : u = v
        /\ \A u \in Threads : At(u, pipe, pc[u], call[u])
    BY DEF IInv
  <2>2. \A u \in Others(t) : At(u, pipe, pc[u], call[u])
    BY <1>1, <2>1
  <2>3. /\ Has(pipe, "LOCKFL") <=> (k \/ Owners(Others(t)) # {})
        /\ k => Owners(Others(t)) = {}
        /\ \A u, v \in Owners(Others(t)) : u = v
    BY <1>2, <1>4, <2>1
  <2> QED BY <1>1, <1>5, <2>2, <2>3 DEF Mid0
<1>7. /\ pc[t] \notin WillTell => (SomeWillTell(Threads) <=> SomeWillTell(Others(t)))
      /\ pc[t] # "dwbuild" => (Mapping(Threads) <=> Mapping(Others(t)))
      /\ pc[t] \notin {"rdcopy", "rddirect"} => (SomeReads(Threads) <=> SomeReads(Others(t)))
  BY <1>1 DEF SomeWillTell, Mapping, SomeReads
<1>8. MapWaits(Others(t), pipe) /\ RoomWaits(Others(t), pipe)
  BY <1>1 DEF IInv, MapWaits, RoomWaits
<1>9. /\ pc[t] # "dwbuild" => MapReady(Others(t), pipe) /\ MapSelects(Others(t), pipe)
      /\ pc[t] \notin WillTell => ByteWaits(Others(t), pipe) /\ ByteSelects(Others(t), pipe)
  BY <1>1, <1>7 DEF IInv, MapReady, MapSelects, ByteWaits, ByteSelects
<1>10. pc[t] \notin WillTell \cup {"rdcopy", "rddirect"} => RoomSelects(Others(t), pipe)
  BY <1>7 DEF IInv, RoomSelects
<1>11. pc[t] \notin {"rdcopy", "rddirect"} => FullSelects(Others(t), pipe)
  <2>1. pipe.sel \cap Writers # {} => pipe.size # 0
    BY <1>1 DEF IInv, At, Selecting, Threads
  <2>2. pipe.size # 0 /\ pipe.size - pipe.cnt < PIPE_BUF => pipe.cnt > 0
    BY <1>1, Fields, SizeFacts
  <2> QED BY <1>7, <2>1, <2>2 DEF IInv, RoomSelects, FullSelects
<1> QED BY <1>6, <1>8, <1>9, <1>10, <1>11 DEF IInv, TypeInv, Mid, b, k

(* It is done with the pipe. *)
LEMMA LandIdle ==
  ASSUME IInv, NEW t \in Threads, NEW q, Mid(t, q, 0, FALSE), Leaves(t, q, "idle"),
         Return(t, q), intr' = intr \ {t}, open' \subseteq {"read", "write"}
  PROVE  IInv'
<1>1. /\ "idle" \in Locations /\ "idle" \notin Busy /\ "idle" \notin Unlocked
      /\ "idle" \in ReaderLocations /\ "idle" \in WriterLocations
  BY DEF Locations, Busy, Unlocked, ReaderLocations, WriterLocations
<1>2. CallOf("idle", NoCall) = NoCall
  BY DEF CallOf
<1>3. At(t, q, "idle", NoCall)
  <2>1. CallOK(q, "idle", NoCall)
    BY NoCallOK DEF CallOK
  <2>2. Working(q, "idle", NoCall)
    BY <1>1 DEF Working
  <2> QED BY <1>1, <2>1, <2>2 DEF At, Mid, Sleeping, Selecting
<1>4. Goto(t, "idle", q, NoCall)
  BY DEF Return
<1>5. Mid0(t, q, 0, FALSE)
  BY DEF Mid
<1>6. /\ 0 \in {0, 1} /\ (0 = 1 <=> "idle" \in Busy)
      /\ FALSE \in BOOLEAN /\ (FALSE <=> "idle" \in Unlocked)
  BY <1>1
<1> QED BY <1>1, <1>2, <1>3, <1>4, <1>5, <1>6, NoCallOK, Land

(* It drops the mutex and keeps PIPE_LOCKFL. *)
LEMMA LandUnlocked ==
  ASSUME IInv, NEW t \in Threads, NEW q, NEW b \in {0, 1}, NEW l \in Unlocked,
         NEW c \in CallRecs,
         Mid(t, q, b, TRUE), Working(q, l, c), CallOK(q, l, c), Place(t, l),
         Leaves(t, q, l), b = 1 <=> l \in Busy,
         Goto(t, l, q, c), intr' = intr \ {t}, open' \subseteq {"read", "write"}
  PROVE  IInv'
<1>1. l \in Locations /\ l # "idle" /\ CallOf(l, c) = c
  BY DEF Locations, Unlocked, CallOf
<1>2. At(t, q, l, c)
  BY DEF At, Mid, Sleeping, Selecting, Place
<1>3. Mid0(t, q, b, TRUE)
  BY DEF Mid
<1> QED BY <1>1, <1>2, <1>3, Land

-----------------------------------------------------------------------------
(***************************************************************************)
(* The end of a call.                                                       *)
(***************************************************************************)

(* One less in the pipe; the last one tells pipeclose(). *)
Out(p) == [p EXCEPT !.busy = @ - 1]
LastOut(p, flag) ==
  IF Out(p).busy = 0 /\ Has(Out(p), "WANT") THEN wakeup(Clear(Out(p), {"WANT", flag}))
  ELSE Out(p)

LEMMA MidOut ==
  ASSUME NEW t \in Threads, NEW p, NEW k \in BOOLEAN, Mid(t, p, 1, k),
         NEW flag \in {"WANTR", "WANTW"}
  PROVE  LET q == LastOut(p, flag)
         IN  /\ Mid(t, q, 0, k) /\ Keeps(p, q) /\ q.sel = p.sel
             /\ \/ q.asleep = {} /\ Out(p).busy = 0 /\ Has(Out(p), "WANT")
                \/ q = Out(p) /\ ~ (Out(p).busy = 0 /\ Has(Out(p), "WANT"))
<1> DEFINE q == LastOut(p, flag)
<1>1. p \in Pipes /\ PipeOK(p) /\ p.busy \in Nat
  BY Fields DEF Mid, Mid0
<1>2. /\ IsFiniteSet(BusyOnes(Others(t)))
      /\ p.busy = Cardinality(BusyOnes(Others(t))) + 1
      /\ Cardinality(BusyOnes(Others(t))) \in Nat
  BY FS_CardinalityType DEF Mid, Mid0
<1>3. p.busy > 0 /\ p.busy - 1 = Cardinality(BusyOnes(Others(t))) /\ p.busy - 1 \in Nat
  BY <1>1, <1>2
<1>4. /\ Keeps(p, q) /\ q.busy = p.busy - 1 /\ q.sel = p.sel
      /\ Has(q, "LOCKFL") <=> Has(p, "LOCKFL")
      /\ \/ q.asleep = {} /\ Out(p).busy = 0 /\ Has(Out(p), "WANT")
         \/ q = Out(p) /\ ~ (Out(p).busy = 0 /\ Has(Out(p), "WANT"))
      /\ q.asleep # {} /\ Has(p, "WANT") => q.busy # 0
  BY <1>1, <1>3 DEF LastOut, Out, wakeup, Clear, Keeps, Has, Pipes, Flags
<1> HIDE DEF q
<1>5. PipeOK(q)
  BY <1>1, <1>4, KeepsOK
<1>6. ASSUME NEW u \in Others(t) PROVE At(u, q, pc[u], call[u])
  <2>1. At(u, p, pc[u], call[u]) /\ u \in Threads
    BY DEF Mid, Mid0, Others
  <2>2. u \in q.asleep => u \in p.asleep
    BY <1>4 DEF Keeps
  <2>3. u \in q.asleep /\ pc[u] = "pipecl" => q.busy > 0
    <3>1. u \in q.asleep /\ pc[u] = "pipecl" => Has(p, "WANT") /\ q.asleep # {}
      BY <2>1, <2>2 DEF At, Sleeping, CanSleep
    <3>2. u \in q.asleep /\ pc[u] = "pipecl" => q.busy # 0
      BY <1>4, <3>1
    <3>3. q.busy \in Nat
      BY <1>3, <1>4
    <3> QED BY <3>2, <3>3
  <2>4. (pc[u] \in Unlocked \/ (u \in q.asleep /\ pc[u] \in LockWaits)) => Has(q, "LOCKFL")
    BY <1>4, <2>1, <2>2 DEF At, Sleeping, CanSleep, Working
  <2> QED BY <1>4, <2>1, <2>3, <2>4, AtKeeps
<1>7. q.asleep \subseteq p.asleep
  BY <1>4 DEF Keeps
<1>8. q.busy = Cardinality(BusyOnes(Others(t))) + 0
  BY <1>2, <1>3, <1>4
<1>9. Mid(t, q, 0, k)
  BY <1>4, <1>5, <1>6, <1>7, <1>8 DEF Mid, Mid0
<1> QED BY <1>4, <1>9 DEF q

-----------------------------------------------------------------------------
(***************************************************************************)
(* pipe_read().                                                             *)
(***************************************************************************)

LEMMA ReadExitOK ==
  ASSUME IInv, NEW r \in Readers, NEW p0, Mid(r, p0, 1, FALSE), ForReader(r, p0),
         ReadExit(r, p0), intr' = intr \ {r}, open' \subseteq {"read", "write"}
  PROVE  IInv'
<1> DEFINE p == Out(p0)
           q == IF p.busy = 0 /\ Has(p, "WANT") THEN wakeup(Clear(p, {"WANT", "WANTW"}))
                ELSE IF p.cnt < MINPIPESIZE THEN WakeIf(p, "WANTW")
                ELSE p
           z == IF q.size - q.cnt >= PIPE_BUF THEN pipeselwakeup(q) ELSE q
<1>0. r \in Threads /\ Return(r, z)
  BY DEF Threads, ReadExit, Out
<1>1. /\ Mid(r, q, 0, FALSE) /\ Keeps(p0, q)
      /\ q.cnt = 0 => \A u \in q.asleep : pc[u] \notin WriteWaits
  <2>1. /\ Mid(r, LastOut(p0, "WANTW"), 0, FALSE) /\ Keeps(p0, LastOut(p0, "WANTW"))
        /\ \/ LastOut(p0, "WANTW").asleep = {} /\ p.busy = 0 /\ Has(p, "WANT")
           \/ LastOut(p0, "WANTW") = p /\ ~ (p.busy = 0 /\ Has(p, "WANT"))
    BY <1>0, MidOut
  <2>2. CASE p.busy = 0 /\ Has(p, "WANT")
    <3>1. q = LastOut(p0, "WANTW")
      BY <2>2 DEF LastOut
    <3> QED BY <2>1, <2>2, <3>1
  <2>3. CASE ~ (p.busy = 0 /\ Has(p, "WANT"))
    <3>1. Mid(r, p, 0, FALSE) /\ Keeps(p0, p)
      BY <2>1, <2>3
    <3>2. CASE p.cnt < MINPIPESIZE
      <4>1. q = WakeIf(p, "WANTW")
        BY <2>3, <3>2
      <4> HIDE DEF q, p
      <4> QED BY <1>0, <3>1, <4>1, MidWakeIf, KeepsTrans
    <3>3. CASE ~ (p.cnt < MINPIPESIZE)
      <4>1. q = p
        BY <2>3, <3>3
      <4> HIDE DEF q, p
      <4>2. PipeOK(p)
        BY <3>1 DEF Mid, Mid0
      <4>3. p.cnt # 0
        BY <3>3, <4>2, Fields, SizeFacts
      <4> QED BY <3>1, <4>1, <4>3
    <3> QED BY <3>2, <3>3
  <2> QED BY <2>2, <2>3
<1> HIDE DEF q, p
<1>2. PipeOK(q) /\ ForReader(r, q)
  BY <1>0, <1>1, KeepsFor DEF Mid, Mid0
<1>3. /\ Mid(r, z, 0, FALSE) /\ Keeps(q, z) /\ z.asleep = q.asleep
      /\ z.sel # {} => ~ (z.size - z.cnt >= PIPE_BUF)
  <2>1. CASE q.size - q.cnt >= PIPE_BUF
    BY <1>0, <1>1, <2>1, MidSel
  <2>2. CASE ~ (q.size - q.cnt >= PIPE_BUF)
    <3>1. z = q /\ q \in Pipes
      BY <1>2, <2>2, Fields
    <3> QED BY <1>1, <2>2, <3>1 DEF Keeps
  <2> QED BY <2>1, <2>2
<1> HIDE DEF z
<1>4. PipeOK(z) /\ ForReader(r, z) /\ z.cnt = q.cnt
  BY <1>0, <1>2, <1>3, KeepsFor DEF Mid, Mid0, Keeps
<1>5. RoomWaits(Others(r), z)
  BY <1>1, <1>3, <1>4, Fields DEF RoomWaits, HasBytes
<1>6. RoomSelects(Others(r), z)
  <2>1. z.sel # {} => z.size - z.cnt < PIPE_BUF
    BY <1>3, <1>4, Fields, SizeFacts
  <2> QED BY <2>1 DEF RoomSelects
<1>7. Leaves(r, z, "idle")
  BY <1>4, <1>5, <1>6 DEF Leaves, ForReader, WriteWaits
<1> QED BY <1>0, <1>3, <1>7, LandIdle

LEMMA ReadWaitOK ==
  ASSUME IInv, NEW r \in Readers, NEW p0, NEW c \in CallRecs, Mid(r, p0, 1, TRUE),
         ForReader(r, p0), c.nread \/ RoomSelects(Others(r), p0),
         Len(c.uio) <= c.orig_resid, ~ HasBytes(p0), ~ Has(p0, "EOF"),
         ReadWait(r, p0, c), intr' = intr \ {r}, open' \subseteq {"read", "write"}
  PROVE  IInv'
<1> DEFINE p == WakeIf(p0, "WANTW")
           z == pipeunlock(p)
           y == Set(z, {"WANTR"})
<1>0. r \in Threads /\ Others(r) \in SUBSET Threads /\ 1 \in {0, 1}
  BY DEF Threads, Others
<1>1. Mid(r, p, 1, TRUE) /\ Keeps(p0, p) /\ \A u \in p.asleep : pc[u] \notin WriteWaits
  BY <1>0, MidWakeIf
<1>2. Mid(r, z, 1, FALSE) /\ Keeps(p, z)
  BY <1>0, <1>1, MidUnlock
<1>3. Keeps(p0, z) /\ ForReader(r, z)
  BY <1>0, <1>1, <1>2, KeepsTrans, KeepsFor
<1>4. ReadExit(r, z) \/ (~ c.nread /\ msleep(r, "piperd", y, c))
  BY DEF ReadWait
<1>5. CASE ReadExit(r, z)
  <2> HIDE DEF z
  <2> QED BY <1>2, <1>3, <1>5, ReadExitOK
<1>6. CASE ~ c.nread /\ msleep(r, "piperd", y, c)
  <2>1. Mid(r, y, 1, FALSE) /\ Keeps(z, y)
    BY <1>0, <1>2, MidSet
  <2>2. Keeps(p0, y) /\ Keeps(p, y)
    BY <1>2, <1>3, <2>1, KeepsTrans
  <2>3. Has(y, "WANTR")
    <3>1. z \in Pipes
      BY <1>2 DEF Keeps
    <3> QED BY <3>1, SetKeeps DEF Has
  <2> HIDE DEF y, z, p
  <2>4. ForReader(r, y) /\ RoomSelects(Others(r), y)
    BY <1>0, <1>6, <2>2, KeepsFor, KeepsFacts
  <2>5. RoomWaits(Others(r), y)
    BY <1>1, <2>2 DEF RoomWaits, Keeps
  <2>6. ~ HasBytes(y) /\ ~ Has(y, "EOF")
    BY <2>2 DEF HasBytes, Keeps
  <2>7. Leaves(r, y, "piperd")
    BY <2>4, <2>5, <2>6 DEF Leaves, ForReader, WriteWaits
  <2>8. CanSleep(y, "piperd")
    BY <2>3, <2>6 DEF CanSleep, Waits, WriteWaits, LockWaits
  <2>9. CallOK(y, "piperd", c)
    BY DEF CallOK, WriterLocations
  <2>10. Place(r, "piperd") /\ "piperd" \in Busy
    BY PipeAssumption DEF Place, ReaderLocations, Busy, Locations, Catch
  <2> QED BY <1>0, <1>6, <2>1, <2>7, <2>8, <2>9, <2>10, LandAsleep
<1> QED BY <1>4, <1>5, <1>6

(* Waiting for PIPE_LOCKFL. *)
LEMMA LandLockWait ==
  ASSUME IInv, NEW t \in Threads, NEW p, NEW b \in {0, 1}, NEW l \in LockWaits,
         NEW c \in CallRecs,
         Mid(t, p, b, FALSE), Has(p, "LOCKFL"), CallOK(p, l, c), Place(t, l),
         ForAll(t, p) \/ (l \in WillTell /\ ForWriter(t, p)),
         b = 1 <=> l \in Busy,
         LockWait(t, l, p, c), intr' = intr \ {t}, open' \subseteq {"read", "write"}
  PROVE  IInv'
<1> DEFINE q == Set(p, {"LWANT"})
<1>1. Mid(t, q, b, FALSE) /\ Keeps(p, q)
  BY MidSet
<1>2. Has(q, "LWANT") /\ Has(q, "LOCKFL")
  BY <1>1, SetKeeps DEF Has, Keeps
<1>3. msleep(t, l, q, c)
  BY DEF LockWait
<1> HIDE DEF q
<1>4. CanSleep(q, l)
  BY <1>2 DEF CanSleep, LockWaits, Waits, WriteWaits
<1>5. CallOK(q, l, c)
  BY <1>1 DEF CallOK, Keeps
<1>6. Leaves(t, q, l)
  <2>1. l \notin WriteWaits /\ l # "piperd"
    BY DEF LockWaits, WriteWaits
  <2>2. CASE ForAll(t, p)
    <3>1. ForAll(t, q)
      BY <1>1, <2>2, KeepsFor
    <3> QED BY <2>1, <3>1 DEF Leaves, ForAll, ForReader
  <2>3. CASE l \in WillTell /\ ForWriter(t, p)
    <3>1. ForWriter(t, q)
      BY <1>1, <2>3, KeepsFor
    <3> QED BY <2>1, <2>3, <3>1 DEF Leaves, ForWriter
  <2> QED BY <2>2, <2>3
<1> QED BY <1>1, <1>3, <1>4, <1>5, <1>6, LandAsleep

(* Of two or three numbers. *)
LEMMA MinSet ==
  ASSUME NEW T \in SUBSET Nat, T # {}
  PROVE  Min(T) \in T /\ \A y \in T : Min(T) <= y
<1>1. OpToRel(<, Nat) = {ss \in Nat \X Nat : ss[1] < ss[2]}
  BY Zenon DEF OpToRel
<1>2. PICK R : IsWellFoundedOn(R, Nat) /\ R = {ss \in Nat \X Nat : ss[1] < ss[2]}
  BY ONLY <1>1, NatLessThanWellFounded, Zenon
<1>3. PICK x \in T : \A y \in T : ~ (<<y, x>> \in R)
  BY <1>2, WFMin
<1>4. ASSUME NEW y \in T PROVE x <= y
  <2>1. <<y, x>> \in Nat \X Nat /\ <<y, x>>[1] = y /\ <<y, x>>[2] = x
    OBVIOUS
  <2>2. ~ (<<y, x>>[1] < <<y, x>>[2])
    BY <1>2, <1>3, <2>1, Zenon
  <2>3. y \in Nat /\ x \in Nat /\ ~ (y < x)
    BY <2>1, <2>2
  <2> QED BY <2>3
<1> QED BY <1>4 DEF Min

LEMMA Min2 ==
  ASSUME NEW a \in Nat, NEW b \in Nat
  PROVE  /\ Min({a, b}) \in {a, b} /\ Min({a, b}) \in Nat
         /\ Min({a, b}) <= a /\ Min({a, b}) <= b
<1>1. {a, b} \in SUBSET Nat /\ {a, b} # {}
  OBVIOUS
<1>2. Min({a, b}) \in {a, b} /\ \A y \in {a, b} : Min({a, b}) <= y
  BY <1>1, MinSet
<1> QED BY <1>2

LEMMA Min3 ==
  ASSUME NEW a \in Nat, NEW b \in Nat, NEW d \in Nat
  PROVE  /\ Min({a, b, d}) \in {a, b, d} /\ Min({a, b, d}) \in Nat
         /\ Min({a, b, d}) <= a /\ Min({a, b, d}) <= b /\ Min({a, b, d}) <= d
<1>1. {a, b, d} \in SUBSET Nat /\ {a, b, d} # {}
  OBVIOUS
<1>2. Min({a, b, d}) \in {a, b, d} /\ \A y \in {a, b, d} : Min({a, b, d}) <= y
  BY <1>1, MinSet
<1> QED BY <1>2

LEMMA Max2 ==
  ASSUME NEW a \in Nat, NEW b \in Nat
  PROVE  Max({a, b}) = IF a >= b THEN a ELSE b
<1>1. CASE a >= b
  <2>1. a \in {a, b} /\ \A y \in {a, b} : a >= y
    BY <1>1
  <2>2. \A x \in {a, b} : (\A y \in {a, b} : x >= y) => x = a
    BY <1>1
  <2> QED BY <1>1, <2>1, <2>2 DEF Max
<1>2. CASE ~ (a >= b)
  <2>1. b \in {a, b} /\ \A y \in {a, b} : b >= y
    BY <1>2
  <2>2. \A x \in {a, b} : (\A y \in {a, b} : x >= y) => x = b
    BY <1>2
  <2> QED BY <1>2, <2>1, <2>2 DEF Max
<1> QED BY <1>1, <1>2

LEMMA ReadLoopOK ==
  ASSUME IInv, NEW r \in Readers, NEW p, NEW c \in CallRecs, Mid(r, p, 1, TRUE),
         ForReader(r, p), c.nread \/ RoomSelects(Others(r), p),
         Len(c.uio) <= c.orig_resid,
         ReadLoop(r, p, c), intr' = intr \ {r}, open' \subseteq {"read", "write"}
  PROVE  IInv'
<1>0. r \in Threads /\ 1 \in {0, 1} /\ PipeOK(p) /\ r \notin Writers
  BY PipeAssumption DEF Threads, Mid, Mid0
<1>1. /\ Mid(r, pipeunlock(p), 1, FALSE)
      /\ ForReader(r, pipeunlock(p))
  BY <1>0, MidUnlock, KeepsFor
<1>2. CASE ReadExit(r, pipeunlock(p))
  BY <1>1, <1>2, ReadExitOK
<1>3. CASE /\ p.cnt > 0 /\ c.resid # 0
           /\ Goto(r, "rdcopy", p, [c EXCEPT !.size = Min({p.size - p.out, p.cnt, c.resid})])
  <2> DEFINE n == Min({p.size - p.out, p.cnt, c.resid})
             d == [c EXCEPT !.size = n]
  <2>1. /\ p.cnt \in Nat /\ p.size \in Nat /\ p.out \in Nat /\ p.out < p.size
        /\ p.size - p.out \in Nat /\ p.size - p.out > 0
    BY <1>0, <1>3, Fields DEF PipeOK
  <2>2. c.resid \in Nat /\ c.resid > 0
    BY <1>3 DEF CallRecs
  <2>3. n \in Nat /\ n > 0 /\ n <= p.size - p.out /\ n <= p.cnt /\ n <= c.resid
    BY <1>3, <2>1, <2>2, Min3
  <2> HIDE DEF n
  <2>4. /\ d \in CallRecs /\ d.size = n /\ d.resid = c.resid /\ d.uio = c.uio
        /\ d.orig_resid = c.orig_resid
    BY <2>3 DEF CallRecs
  <2>5. Goto(r, "rdcopy", p, d)
    BY <1>3 DEF n
  <2> HIDE DEF d
  <2>6. Working(p, "rdcopy", d)
    BY <2>3, <2>4 DEF Working, Mid, Mid0
  <2>7. CallOK(p, "rdcopy", d)
    BY <2>4 DEF CallOK, WriterLocations
  <2>8. Leaves(r, p, "rdcopy")
    BY <1>3 DEF Leaves, ForReader, RoomWaits, HasBytes, WriteWaits
  <2>9. Place(r, "rdcopy") /\ "rdcopy" \in Busy /\ "rdcopy" \in Unlocked
    BY <1>0 DEF Place, ReaderLocations, Busy, Locations, Unlocked
  <2> QED BY <1>0, <2>4, <2>5, <2>6, <2>7, <2>8, <2>9, LandUnlocked
<1>4. CASE /\ p.mapcnt > 0 /\ Has(p, "DIRECTW") /\ c.resid # 0
           /\ Goto(r, "rddirect", p, [c EXCEPT !.size = Min({p.mapcnt, c.resid})])
  <2> DEFINE n == Min({p.mapcnt, c.resid})
             d == [c EXCEPT !.size = n]
  <2>1. p.mapcnt \in Nat
    BY <1>0, Fields
  <2>2. c.resid \in Nat /\ c.resid > 0
    BY <1>4 DEF CallRecs
  <2>3. n \in Nat /\ n > 0 /\ n <= p.mapcnt /\ n <= c.resid
    BY <1>4, <2>1, <2>2, Min2
  <2> HIDE DEF n
  <2>4. /\ d \in CallRecs /\ d.size = n /\ d.resid = c.resid /\ d.uio = c.uio
        /\ d.orig_resid = c.orig_resid
    BY <2>3 DEF CallRecs
  <2>5. Goto(r, "rddirect", p, d)
    BY <1>4 DEF n
  <2> HIDE DEF d
  <2>6. Working(p, "rddirect", d)
    BY <1>4, <2>3, <2>4 DEF Working, Mid, Mid0
  <2>7. CallOK(p, "rddirect", d)
    BY <2>4 DEF CallOK, WriterLocations
  <2>8. Leaves(r, p, "rddirect")
    BY <1>4 DEF Leaves, ForReader, RoomWaits, HasBytes, WriteWaits
  <2>9. Place(r, "rddirect") /\ "rddirect" \in Busy /\ "rddirect" \in Unlocked
    BY <1>0 DEF Place, ReaderLocations, Busy, Locations, Unlocked
  <2> QED BY <1>0, <2>4, <2>5, <2>6, <2>7, <2>8, <2>9, LandUnlocked
<1>5. CASE ReadWait(r, p, c) /\ ~ HasBytes(p) /\ ~ Has(p, "EOF")
  BY <1>5, ReadWaitOK
<1> QED BY <1>2, <1>3, <1>4, <1>5 DEF ReadLoop, HasBytes

LEMMA ReadLockedOK ==
  ASSUME IInv, NEW r \in Readers, NEW p, NEW c \in CallRecs, Mid(r, p, 1, TRUE),
         ForAll(r, p), ~ c.nread, Len(c.uio) <= c.orig_resid,
         ReadLocked(r, p, c), intr' = intr \ {r}, open' \subseteq {"read", "write"}
  PROVE  IInv'
<1>0. r \in Threads /\ 1 \in {0, 1} /\ PipeOK(p) /\ r \notin Writers
  BY PipeAssumption DEF Threads, Mid, Mid0
<1>1. CASE ReadLoop(r, p, c)
  BY <1>1, ReadLoopOK DEF ForAll
<1>2. CASE /\ ~ Has(p, "DIRECTW") /\ p.size > SMALL_PIPE_SIZE /\ p.cnt <= SMALL_PIPE_SIZE
           /\ Goto(r, "rdspace", p, c)
  <2>1. p.size # 0
    BY <1>0, <1>2, Fields, SizeFacts
  <2>2. Working(p, "rdspace", c)
    BY <1>2, <2>1 DEF Working, Mid, Mid0
  <2>3. CallOK(p, "rdspace", c)
    BY DEF CallOK, WriterLocations
  <2>4. Leaves(r, p, "rdspace")
    BY DEF Leaves, ForAll, ForReader, WriteWaits
  <2>5. Place(r, "rdspace") /\ "rdspace" \in Busy /\ "rdspace" \in Unlocked
    BY <1>0 DEF Place, ReaderLocations, Busy, Locations, Unlocked
  <2> QED BY <1>0, <1>2, <2>2, <2>3, <2>4, <2>5, LandUnlocked
<1> QED BY <1>1, <1>2 DEF ReadLocked

LEMMA ReadStartOK ==
  ASSUME IInv, NEW r \in Readers, NEW p, NEW c \in CallRecs, Mid(r, p, 1, FALSE),
         ForAll(r, p), ~ c.nread, Len(c.uio) <= c.orig_resid,
         ReadStart(r, p, c), intr' = intr \ {r}, open' \subseteq {"read", "write"}
  PROVE  IInv'
<1>0. r \in Threads /\ 1 \in {0, 1} /\ r \notin Writers
  BY PipeAssumption DEF Threads
<1>1. CASE Has(p, "LOCKFL")
  <2>1. CallOK(p, "rdlk", c)
    BY DEF CallOK, WriterLocations
  <2>2. Place(r, "rdlk") /\ "rdlk" \in Busy /\ "rdlk" \in LockWaits
    BY <1>0 DEF Place, ReaderLocations, Busy, Locations, Catch, LockWaits
  <2>3. LockWait(r, "rdlk", p, c)
    BY <1>1 DEF ReadStart
  <2> QED BY <1>0, <1>1, <2>1, <2>2, <2>3, LandLockWait
<1>2. CASE ~ Has(p, "LOCKFL")
  <2>1. Mid(r, pipelock(p), 1, TRUE) /\ ForAll(r, pipelock(p))
    BY <1>0, <1>2, MidLock, KeepsFor
  <2>2. ReadLocked(r, pipelock(p), c)
    BY <1>2 DEF ReadStart
  <2> QED BY <2>1, <2>2, ReadLockedOK
<1> QED BY <1>1, <1>2

LEMMA ReadAgainOK ==
  ASSUME IInv, NEW r \in Readers, NEW p, NEW c \in CallRecs, Mid(r, p, 1, FALSE),
         ForAll(r, p), Len(c.uio) <= c.orig_resid,
         ReadAgain(r, p, c), intr' = intr \ {r}, open' \subseteq {"read", "write"}
  PROVE  IInv'
<1>0. r \in Threads /\ 1 \in {0, 1} /\ r \notin Writers
  BY PipeAssumption DEF Threads
<1>1. CASE Has(p, "LOCKFL")
  <2>1. CallOK(p, "rdlk2", c)
    BY DEF CallOK, WriterLocations
  <2>2. Place(r, "rdlk2") /\ "rdlk2" \in Busy /\ "rdlk2" \in LockWaits
    BY <1>0 DEF Place, ReaderLocations, Busy, Locations, Catch, LockWaits
  <2>3. LockWait(r, "rdlk2", p, c)
    BY <1>1 DEF ReadAgain
  <2> QED BY <1>0, <1>1, <2>1, <2>2, <2>3, LandLockWait
<1>2. CASE ~ Has(p, "LOCKFL")
  <2>1. Mid(r, pipelock(p), 1, TRUE) /\ ForAll(r, pipelock(p))
    BY <1>0, <1>2, MidLock, KeepsFor
  <2>2. ReadLoop(r, pipelock(p), c)
    BY <1>2 DEF ReadAgain
  <2> QED BY <2>1, <2>2, ReadLoopOK DEF ForAll
<1> QED BY <1>1, <1>2

(* The owner of PIPE_LOCKFL may change the bytes. *)
LEMMA MidData ==
  ASSUME NEW t \in Threads, NEW p, NEW q, NEW b \in {0, 1}, Mid(t, p, b, TRUE), PipeOK(q),
         q.asleep \subseteq p.asleep, q.sel \subseteq p.sel, q.busy = p.busy,
         q.asleep = {} \/ \A f \in {"WANTR", "WANTW", "WANT", "LWANT"} : Has(p, f) => Has(q, f),
         Has(q, "SEL") <=> Has(p, "SEL"), Has(q, "EOF") <=> Has(p, "EOF"),
         Has(q, "LOCKFL"), p.size # 0 => q.size # 0
  PROVE  Mid(t, q, b, TRUE)
<1>1. ASSUME NEW u \in Others(t) PROVE At(u, q, pc[u], call[u])
  <2>1. At(u, p, pc[u], call[u]) /\ u \in Threads
    BY DEF Mid, Mid0, Others
  <2>2. pc[u] \notin Unlocked
    BY DEF Mid, Mid0, Owners
  <2>3. Sleeping(u, q, pc[u])
    BY <2>1 DEF At, Sleeping, CanSleep
  <2>4. Selecting(u, q, pc[u])
    BY <2>1 DEF At, Selecting
  <2>5. Working(q, pc[u], call[u])
    BY <2>2 DEF Working, Unlocked
  <2>6. CallOK(q, pc[u], call[u])
    BY <2>1 DEF At, CallOK
  <2> QED BY <2>1, <2>3, <2>4, <2>5, <2>6 DEF At
<1> QED BY <1>1 DEF Mid, Mid0

(* What is read leaves the ring. *)
(* Positions in the ring, as facts about numbers. *)
LEMMA WithinCopy ==
  ASSUME NEW i \in Nat, NEW m \in Nat, NEW g \in Nat, NEW n \in Nat,
         i >= m, i < m + g, g <= n
  PROVE  i - m + 1 \in 1..n
OBVIOUS

LEMMA WrapAround ==
  ASSUME NEW m \in Nat, NEW n \in Nat, NEW cnt \in Nat, NEW size \in Nat,
         m <= size, m + n >= size, n <= size - cnt
  PROVE  m + n - size \in Nat /\ m + n - size <= size
OBVIOUS

LEMMA WrappedEnd ==
  ASSUME NEW o \in Nat, NEW cnt \in Nat, NEW m \in Nat, NEW n \in Nat, NEW size \in Nat,
         o + cnt = m
  PROVE  o + (cnt + n) = (m + n - size) + size
OBVIOUS

LEMMA TakenOK ==
  ASSUME NEW p, PipeOK(p), NEW n \in Nat, n > 0, n <= p.size - p.out, n <= p.cnt
  PROVE  LET q == Taken(p, n)
         IN  /\ PipeOK(q)
             /\ q.cnt = p.cnt - n /\ q.size = p.size /\ q.state = p.state
             /\ q.busy = p.busy /\ q.asleep = p.asleep /\ q.sel = p.sel
             /\ q.mapcnt = p.mapcnt /\ q.present = p.present
             /\ q.ms = p.ms /\ q.pos = p.pos
<1> DEFINE q == Taken(p, n)
           f == [i \in DOMAIN p.buffer |->
                   IF i >= p.out /\ i < p.out + n THEN None ELSE p.buffer[i]]
           o == IF p.cnt = n THEN 0 ELSE IF p.out + n >= p.size THEN 0 ELSE p.out + n
           j == IF p.cnt = n THEN 0 ELSE p.in
<1>1. /\ p \in Pipes /\ p.buffer \in [0..(BIG_PIPE_SIZE - 1) -> Byte \cup {None}]
      /\ p.size \in Nat /\ p.cnt \in Nat /\ p.in \in Nat /\ p.out \in Nat
  BY Fields DEF Pipes
<1>2. f \in [0..(BIG_PIPE_SIZE - 1) -> Byte \cup {None}]
  BY <1>1
<1>3. q = [p EXCEPT !.buffer = f, !.out = o, !.in = j, !.cnt = p.cnt - n]
  BY DEF Taken
<1>4. /\ p.cnt - n \in Nat /\ o \in Nat /\ j \in Nat
      /\ p.cnt - n <= p.size /\ j <= p.size /\ o <= p.size /\ (o = p.size => p.size = 0)
      /\ o + (p.cnt - n) \in {j, j + p.size}
  <2>1. /\ p.cnt <= p.size /\ p.in <= p.size /\ p.out <= p.size
        /\ p.out + p.cnt = p.in \/ p.out + p.cnt = p.in + p.size
    BY DEF PipeOK
  <2>2. CASE p.cnt = n
    <3>1. o = 0 /\ j = 0
      BY <2>2
    <3> HIDE DEF o, j
    <3> QED BY <1>1, <2>1, <2>2, <3>1
  <2>3. CASE p.cnt # n /\ p.out + n >= p.size
    <3>1. o = 0 /\ j = p.in
      BY <2>3
    <3>2. p.out + n = p.size /\ p.cnt > n
      BY <1>1, <2>3
    <3>3. p.out + p.cnt # p.in
      BY <1>1, <2>1, <3>2
    <3>4. p.cnt - n = p.in
      BY <1>1, <2>1, <3>2, <3>3
    <3> HIDE DEF o, j
    <3> QED BY <1>1, <2>1, <3>1, <3>2, <3>4
  <2>4. CASE p.cnt # n /\ ~ (p.out + n >= p.size)
    <3>1. o = p.out + n /\ j = p.in
      BY <2>4
    <3>2. p.out + n < p.size /\ p.cnt - n \in Nat
      BY <1>1, <2>4
    <3>3. o + (p.cnt - n) = p.out + p.cnt
      BY <1>1, <3>1
    <3> HIDE DEF o, j
    <3>4. o \in Nat /\ o < p.size
      BY <1>1, <3>1, <3>2
    <3>5. p.cnt - n <= p.size
      BY <1>1, <2>1
    <3>6. o + (p.cnt - n) \in {j, j + p.size}
      BY <2>1, <3>1, <3>3
    <3> QED BY <1>1, <2>1, <3>1, <3>2, <3>4, <3>5, <3>6
  <2> QED BY <2>2, <2>3, <2>4
<1> HIDE DEF f, o, j
<1>5. /\ q \in Pipes /\ q.out = o /\ q.in = j
      /\ q.cnt = p.cnt - n /\ q.size = p.size /\ q.state = p.state
      /\ q.busy = p.busy /\ q.asleep = p.asleep /\ q.sel = p.sel
      /\ q.mapcnt = p.mapcnt /\ q.present = p.present
      /\ q.ms = p.ms /\ q.pos = p.pos
  BY <1>1, <1>2, <1>3, <1>4 DEF Pipes
<1> HIDE DEF q
<1>6. ~ Has(q, "DIRECTW")
  BY <1>1, <1>5 DEF Has, PipeOK
<1>7. PipeOK(q)
  BY <1>4, <1>5, <1>6 DEF PipeOK, Has
<1> QED BY <1>5, <1>7 DEF q

LEMMA ReadSome ==
  ASSUME NEW c \in CallRecs, c.size <= c.resid
  PROVE  LET d == [c EXCEPT !.resid = @ - c.size, !.nread = TRUE, !.size = 0]
         IN  /\ d \in CallRecs /\ d.nread /\ d.uio = c.uio
             /\ d.orig_resid = c.orig_resid
<1>1. c.resid \in Nat /\ c.size \in Nat
  BY DEF CallRecs
<1>2. c.resid - c.size \in Nat
  BY <1>1
<1>3. TRUE \in BOOLEAN
  OBVIOUS
<1> QED BY <1>2, <1>3 DEF CallRecs

LEMMA ReadCopiedOK ==
  ASSUME IInv, NEW r \in Readers, ReadCopied(r) PROVE IInv'
<1> DEFINE c == call[r]
           q == Taken(pipe, c.size)
           d == [c EXCEPT !.resid = @ - c.size, !.nread = TRUE, !.size = 0]
<1>0. /\ r \in Threads /\ 1 \in {0, 1} /\ pc[r] = "rdcopy"
      /\ "rdcopy" \in Busy /\ "rdcopy" \in Unlocked
      /\ "rdcopy" \notin WillTell /\ "rdcopy" \notin Catch
      /\ open' \subseteq {"read", "write"}
  BY DEF Threads, ReadCopied, Back, Busy, Locations, Unlocked, WillTell, Catch, IInv, TypeInv
<1>1. At(r, pipe, "rdcopy", c)
  BY <1>0 DEF IInv
<1>2. r \notin pipe.asleep /\ r \notin pipe.sel
  BY <1>0, <1>1 DEF At, Sleeping, CanSleep, Selecting, LockWaits, Waits, WriteWaits
<1>3. intr' = intr \ {r}
  BY <1>0 DEF ReadCopied, Back, IInv, TypeInv
<1>4. Mid(r, pipe, 1, TRUE) /\ ForReader(r, pipe) /\ c \in CallRecs
  BY <1>0, <1>2, Enter DEF ForReader
<1>5. CASE ReadLoop(r, q, d)
  <2>1. PipeOK(pipe) /\ c.size \in Nat
    BY <1>4 DEF Mid, Mid0, CallRecs
  <2>2. /\ c.size > 0 /\ c.size <= pipe.size - pipe.out /\ c.size <= pipe.cnt
        /\ c.size <= c.resid
    BY <1>1 DEF At, Working
  <2>3. /\ d \in CallRecs /\ d.nread /\ d.uio = c.uio /\ d.orig_resid = c.orig_resid
    BY <1>4, <2>2, ReadSome
  <2>4. /\ PipeOK(q) /\ q.cnt = pipe.cnt - c.size /\ q.size = pipe.size
        /\ q.state = pipe.state /\ q.busy = pipe.busy /\ q.asleep = pipe.asleep
        /\ q.sel = pipe.sel /\ q.mapcnt = pipe.mapcnt
    BY <2>1, <2>2, TakenOK
  <2> HIDE DEF q, d
  <2>5. Has(q, "LOCKFL")
    BY <1>4, <2>4 DEF Mid, Mid0, Has
  <2>6. Mid(r, q, 1, TRUE)
    BY <1>0, <1>4, <2>4, <2>5, MidData DEF Has
  <2>7. pipe.cnt = 0 => q.cnt = 0
    BY <2>1, <2>2, <2>4, Fields
  <2>8. ForReader(r, q)
    BY <1>4, <2>4, <2>7 DEF ForReader, MapReady, MapWaits, ByteWaits, MapSelects,
                            ByteSelects, Has
  <2>9. Len(d.uio) <= d.orig_resid
    BY <1>1, <2>3 DEF At, CallOK
  <2> QED BY <1>0, <1>3, <1>5, <2>3, <2>6, <2>8, <2>9, ReadLoopOK
<1>6. CASE ReadExit(r, pipeunlock(pipe))
  <2>1. Mid(r, pipeunlock(pipe), 1, FALSE) /\ ForReader(r, pipeunlock(pipe))
    BY <1>0, <1>4, MidUnlock, KeepsFor
  <2> QED BY <1>0, <1>3, <1>6, <2>1, ReadExitOK
<1> QED BY <1>5, <1>6 DEF ReadCopied

(* Back with PIPE_LOCKFL, or from msleep(). *)
LEMMA EnterUnlocked ==
  ASSUME IInv, NEW t \in Threads, NEW l \in Unlocked, pc[t] = l, intr' = intr,
         UNCHANGED open
  PROVE  /\ t \notin pipe.asleep /\ t \notin pipe.sel
         /\ intr' = intr \ {t} /\ open' \subseteq {"read", "write"}
         /\ At(t, pipe, l, call[t]) /\ call[t] \in CallRecs
         /\ Mid(t, pipe, IF l \in Busy THEN 1 ELSE 0, TRUE)
<1>1. l \notin LockWaits \cup Waits \cup {"pipecl"} /\ l # "poll" /\ l \notin Catch
  BY DEF Unlocked, LockWaits, Waits, WriteWaits, Catch
<1>2. At(t, pipe, l, call[t])
  BY DEF IInv
<1>3. t \notin pipe.asleep /\ t \notin pipe.sel
  BY <1>1, <1>2 DEF At, Sleeping, CanSleep, Selecting
<1>4. t \notin intr /\ open' \subseteq {"read", "write"}
  BY <1>1 DEF IInv, TypeInv
<1> QED BY <1>2, <1>3, <1>4, Enter

LEMMA EnterAwake ==
  ASSUME IInv, NEW t \in Threads, NEW l \in LockWaits \cup Waits \cup {"pipecl"}, Awake(t, l)
  PROVE  /\ t \notin pipe.asleep /\ t \notin pipe.sel
         /\ intr' = intr \ {t} /\ open' \subseteq {"read", "write"}
         /\ At(t, pipe, l, call[t]) /\ call[t] \in CallRecs
         /\ Mid(t, pipe, IF l \in Busy THEN 1 ELSE 0, FALSE)
         /\ ForWriter(t, pipe)
         /\ l \notin WillTell => ForAll(t, pipe)
<1>1. l # "poll" /\ l \notin Unlocked /\ l # "dwbuild" /\ l \notin {"rdcopy", "rddirect"}
  BY DEF Unlocked, LockWaits, Waits, WriteWaits
<1>2. /\ At(t, pipe, l, call[t]) /\ pc[t] = l /\ t \notin pipe.asleep
      /\ intr' = intr \ {t} /\ open' \subseteq {"read", "write"}
  BY DEF IInv, TypeInv, Awake
<1>3. t \notin pipe.sel
  BY <1>1, <1>2 DEF At, Selecting
<1>4. (pc[t] \in Unlocked) = FALSE
  BY <1>1, <1>2
<1> QED BY <1>1, <1>2, <1>3, <1>4, Enter DEF ForWriter, ForAll, ForReader

LEMMA ReadDirectOK ==
  ASSUME IInv, NEW r \in Readers, ReadDirect(r) PROVE IInv'
<1> DEFINE c == call[r]
           p == [pipe EXCEPT !.pos = @ + c.size, !.mapcnt = @ - c.size]
           q == IF p.mapcnt = 0 THEN wakeup(Clear(p, {"DIRECTW", "WANTW"})) ELSE p
           d == [c EXCEPT !.resid = @ - c.size, !.nread = TRUE, !.size = 0]
<1>0. /\ r \in Threads /\ 1 \in {0, 1} /\ pc[r] = "rddirect" /\ r \notin Writers
      /\ "rddirect" \in Busy /\ "rddirect" \in Unlocked /\ "rddirect" \notin WillTell
      /\ intr' = intr /\ UNCHANGED open
  BY PipeAssumption DEF Threads, ReadDirect, Back, Busy, Locations, Unlocked, WillTell
<1>1. /\ At(r, pipe, "rddirect", c) /\ r \notin pipe.asleep /\ r \notin pipe.sel
      /\ intr' = intr \ {r} /\ open' \subseteq {"read", "write"}
      /\ Mid(r, pipe, 1, TRUE) /\ c \in CallRecs
  BY <1>0, EnterUnlocked
<1>2. ForReader(r, pipe)
  BY <1>0, <1>1, Enter DEF ForReader
<1>3. CASE ReadLoop(r, q, d)
  <2>1. PipeOK(pipe) /\ c.size \in Nat
    BY <1>1 DEF Mid, Mid0, CallRecs
  <2>2. /\ c.size > 0 /\ c.size <= pipe.mapcnt /\ c.size <= c.resid
        /\ Has(pipe, "DIRECTW") /\ Has(pipe, "LOCKFL")
    BY <1>0, <1>1 DEF At, Working
  <2>3. d \in CallRecs /\ d.nread /\ d.uio = c.uio /\ d.orig_resid = c.orig_resid
    BY <1>1, <2>2, ReadSome
  <2> HIDE DEF d
  <2>4. /\ pipe \in Pipes /\ pipe.mapcnt \in Nat /\ pipe.pos \in Nat /\ pipe.cnt = 0
        /\ pipe.size # 0 /\ pipe.mapcnt > 0
    BY <2>1, <2>2, Fields DEF PipeOK
  <2>5. /\ q \in Pipes /\ q.mapcnt = pipe.mapcnt - c.size /\ q.pos = pipe.pos + c.size
        /\ q.size = pipe.size /\ q.in = pipe.in /\ q.out = pipe.out /\ q.cnt = pipe.cnt
        /\ q.ms = pipe.ms /\ q.present = pipe.present /\ q.busy = pipe.busy
        /\ q.sel = pipe.sel
        /\ \/ q.mapcnt = 0 /\ q.asleep = {} /\ q.state = pipe.state \ {"DIRECTW", "WANTW"}
           \/ q.mapcnt # 0 /\ q.asleep = pipe.asleep /\ q.state = pipe.state
    <3>0. c.size \in Nat
      BY <2>1
    <3> HIDE DEF c
    <3>1. /\ p \in Pipes /\ p.mapcnt = pipe.mapcnt - c.size /\ p.pos = pipe.pos + c.size
          /\ p.size = pipe.size /\ p.in = pipe.in /\ p.out = pipe.out /\ p.cnt = pipe.cnt
          /\ p.ms = pipe.ms /\ p.present = pipe.present /\ p.busy = pipe.busy
          /\ p.sel = pipe.sel /\ p.asleep = pipe.asleep /\ p.state = pipe.state
      <4>1. pipe.mapcnt - c.size \in Nat /\ pipe.pos + c.size \in Nat
        BY <2>2, <2>4, <3>0
      <4> QED BY <2>4, <4>1 DEF Pipes
    <3> HIDE DEF p
    <3> QED BY <3>1 DEF wakeup, Clear, Pipes, Flags
  <2> HIDE DEF q
  <2>6. PipeOK(q)
    <3>1. q.pos + q.mapcnt = pipe.pos + pipe.mapcnt /\ q.mapcnt <= pipe.mapcnt
      BY <2>1, <2>4, <2>5
    <3>2. q.mapcnt <= q.size
      BY <2>1, <2>4, <2>5, Fields DEF PipeOK
    <3> QED BY <2>1, <2>5, <3>1, <3>2 DEF PipeOK, Has
  <2>7. Mid(r, q, 1, TRUE)
    BY <1>0, <1>1, <2>2, <2>5, <2>6, MidData DEF Has
  <2>8. ForReader(r, q)
    <3>1. Has(q, "DIRECTW") => q.mapcnt > 0 /\ Has(pipe, "DIRECTW")
      BY <2>5, <2>6, Fields DEF Has
    <3>2. q.asleep \subseteq pipe.asleep /\ q.cnt = 0 /\ q.sel = pipe.sel
      BY <2>4, <2>5
    <3> QED BY <1>2, <2>2, <2>4, <3>1, <3>2
            DEF ForReader, MapReady, MapWaits, ByteWaits, MapSelects, ByteSelects
  <2>9. Len(d.uio) <= d.orig_resid
    BY <1>1, <2>3 DEF At, CallOK
  <2> QED BY <1>0, <1>1, <1>3, <2>3, <2>7, <2>8, <2>9, ReadLoopOK
<1>4. CASE ReadExit(r, pipeunlock(pipe))
  <2>1. Mid(r, pipeunlock(pipe), 1, FALSE) /\ ForReader(r, pipeunlock(pipe))
    BY <1>0, <1>1, <1>2, MidUnlock, KeepsFor
  <2> QED BY <1>0, <1>1, <1>4, <2>1, ReadExitOK
<1> QED BY <1>3, <1>4 DEF ReadDirect

(* The ring is moved into a new one that is large enough. *)
LEMMA SegmentOK ==
  ASSUME NEW p \in Pipes, NEW i \in Nat, NEW n \in Nat, i + n <= BIG_PIPE_SIZE
  PROVE  /\ Segment(p, i, n) \in Seq(Byte \cup {None}) /\ Len(Segment(p, i, n)) = n
<1>1. p.buffer \in [0..(BIG_PIPE_SIZE - 1) -> Byte \cup {None}] /\ BIG_PIPE_SIZE \in Nat
  BY SizeFacts DEF Pipes
<1>2. \A j \in 1..n : p.buffer[i + j - 1] \in Byte \cup {None}
  <2> SUFFICES ASSUME NEW j \in 1..n PROVE p.buffer[i + j - 1] \in Byte \cup {None}
    OBVIOUS
  <2>1. i + j - 1 \in 0..(BIG_PIPE_SIZE - 1)
    BY <1>1
  <2> QED BY <1>1, <2>1
<1>3. Segment(p, i, n) \in [1..n -> Byte \cup {None}]
  BY <1>2 DEF Segment
<1> HIDE DEF Segment
<1>4. \A f \in [1..n -> Byte \cup {None}] : f \in Seq(Byte \cup {None}) /\ Len(f) = n
  <2> SUFFICES ASSUME NEW f \in [1..n -> Byte \cup {None}]
               PROVE  f \in Seq(Byte \cup {None}) /\ Len(f) = n
    OBVIOUS
  <2>1. f \in Seq(Byte \cup {None})
    BY SeqDef
  <2>2. DOMAIN f = 1..Len(f) /\ Len(f) \in Nat /\ DOMAIN f = 1..n
    BY <2>1, LenProperties
  <2> QED BY <2>1, <2>2
<1> QED BY <1>3, <1>4

LEMMA pipespaceOK ==
  ASSUME NEW p, PipeOK(p), ~ Has(p, "DIRECTW"), NEW n \in PipeSizes, p.cnt <= n
  PROVE  LET q == pipespace_new(p, n)
         IN  /\ PipeOK(q)
             /\ q.size = n /\ q.size # 0 /\ q.cnt = p.cnt /\ q.state = p.state
             /\ q.busy = p.busy /\ q.asleep = p.asleep /\ q.sel = p.sel
             /\ q.present = p.present
<1> DEFINE firstseg == p.size - p.out
           copied == IF p.cnt = 0 THEN <<>>
                     ELSE IF p.in <= p.out
                          THEN Segment(p, p.out, firstseg)
                               \o (IF p.cnt > firstseg THEN Segment(p, 0, p.in) ELSE <<>>)
                          ELSE Segment(p, p.out, p.cnt)
           f == [i \in DOMAIN p.buffer |-> IF i < p.cnt THEN copied[i + 1] ELSE None]
           q == pipespace_new(p, n)
           B == Byte \cup {None}
<1>1. /\ p \in Pipes /\ p.buffer \in [0..(BIG_PIPE_SIZE - 1) -> B]
      /\ p.size \in Nat /\ p.cnt \in Nat /\ p.in \in Nat /\ p.out \in Nat
      /\ n \in Nat /\ n # 0 /\ BIG_PIPE_SIZE \in Nat /\ p.size <= BIG_PIPE_SIZE
  <2>1. p \in Pipes /\ p.buffer \in [0..(BIG_PIPE_SIZE - 1) -> B]
    BY DEF PipeOK, Pipes
  <2>2. /\ p.size \in Nat /\ p.cnt \in Nat /\ p.in \in Nat /\ p.out \in Nat
        /\ p.size # 0 => p.size <= BIG_PIPE_SIZE
    BY Fields
  <2>3. n \in Nat /\ n # 0 /\ BIG_PIPE_SIZE \in Nat
    BY SizeFacts
  <2>4. p.size <= BIG_PIPE_SIZE
    BY <2>2, <2>3
  <2> QED BY <2>1, <2>2, <2>3, <2>4
<1> HIDE DEF B
<1>2. /\ p.cnt <= p.size /\ p.in <= p.size /\ p.out <= p.size
      /\ p.out + p.cnt = p.in \/ p.out + p.cnt = p.in + p.size
  BY DEF PipeOK
<1>3. copied \in Seq(B) /\ Len(copied) = p.cnt
  <2>1. CASE p.cnt = 0
    BY <2>1
  <2>2. CASE p.cnt # 0 /\ p.in <= p.out
    <3>1. p.out + p.cnt = p.in + p.size /\ firstseg \in Nat
      BY <1>1, <1>2, <2>2
    <3>2. /\ Segment(p, p.out, firstseg) \in Seq(B)
          /\ Len(Segment(p, p.out, firstseg)) = firstseg
      <4>1. p.out + firstseg <= BIG_PIPE_SIZE
        BY <1>1, <1>2
      <4> QED BY <1>1, <3>1, <4>1, SegmentOK DEF B
    <3>3. Segment(p, 0, p.in) \in Seq(B) /\ Len(Segment(p, 0, p.in)) = p.in
      <4>1. 0 + p.in <= BIG_PIPE_SIZE /\ 0 \in Nat
        BY <1>1, <1>2
      <4> QED BY <1>1, <4>1, SegmentOK DEF B
    <3>4. CASE p.cnt > firstseg
      <4>1. copied = Segment(p, p.out, firstseg) \o Segment(p, 0, p.in)
        BY <2>2, <3>4
      <4>2. firstseg + p.in = p.cnt
        BY <1>1, <3>1
      <4>3. firstseg \in Nat
        BY <3>1
      <4> DEFINE a == Segment(p, p.out, firstseg)
                 d == Segment(p, 0, p.in)
      <4>4. a \in Seq(B) /\ d \in Seq(B) /\ Len(a) = firstseg /\ Len(d) = p.in
        BY <3>2, <3>3
      <4>5. copied = a \o d
        BY <4>1
      <4> HIDE DEF a, d, firstseg, copied
      <4>6. a \o d \in Seq(B) /\ Len(a \o d) = Len(a) + Len(d)
        BY <4>4, ConcatProperties
      <4> QED BY <4>2, <4>4, <4>5, <4>6
    <3>5. CASE ~ (p.cnt > firstseg)
      <4>1. copied = Segment(p, p.out, firstseg) \o <<>>
        BY <2>2, <3>5
      <4>2. firstseg = p.cnt
        BY <1>1, <3>1, <3>5
      <4> QED BY <3>2, <4>1, <4>2, ConcatEmptySeq
    <3> QED BY <3>4, <3>5
  <2>3. CASE p.cnt # 0 /\ ~ (p.in <= p.out)
    <3>1. p.out + p.cnt = p.in
      BY <1>1, <1>2, <2>3
    <3>2. copied = Segment(p, p.out, p.cnt)
      BY <2>3
    <3>3. p.out + p.cnt <= BIG_PIPE_SIZE
      BY <1>1, <1>2, <3>1
    <3>4. Segment(p, p.out, p.cnt) \in Seq(B) /\ Len(Segment(p, p.out, p.cnt)) = p.cnt
      BY <1>1, <3>3, SegmentOK DEF B
    <3> QED BY <3>2, <3>4
  <2> QED BY <2>1, <2>2, <2>3
<1> HIDE DEF copied
<1>4. f \in [0..(BIG_PIPE_SIZE - 1) -> B]
  <2>1. \A i \in 0..(BIG_PIPE_SIZE - 1) : i < p.cnt => copied[i + 1] \in B
    <3> SUFFICES ASSUME NEW i \in 0..(BIG_PIPE_SIZE - 1), i < p.cnt
                 PROVE  copied[i + 1] \in B
      OBVIOUS
    <3>1. i + 1 \in 1..Len(copied)
      BY <1>1, <1>3
    <3> QED BY <1>3, <3>1, ElementOfSeq
  <2>2. None \in B /\ DOMAIN p.buffer = 0..(BIG_PIPE_SIZE - 1)
    BY <1>1 DEF B
  <2> QED BY <2>1, <2>2
<1>5. q = [p EXCEPT !.size = Max({p.cnt, n}), !.in = p.cnt, !.out = 0, !.buffer = f,
                    !.ms = <<>>, !.pos = 0, !.mapcnt = 0]
  BY DEF pipespace_new, copied
<1>6. Max({p.cnt, n}) = n
  BY <1>1, Max2
<1> HIDE DEF f
<1>7. /\ q \in Pipes /\ q.size = n /\ q.in = p.cnt /\ q.out = 0 /\ q.cnt = p.cnt
      /\ q.ms = <<>> /\ q.pos = 0 /\ q.mapcnt = 0 /\ q.state = p.state
      /\ q.busy = p.busy /\ q.asleep = p.asleep /\ q.sel = p.sel
      /\ q.present = p.present
  <2>1. q = [p EXCEPT !.size = n, !.in = p.cnt, !.out = 0, !.buffer = f,
                      !.ms = <<>>, !.pos = 0, !.mapcnt = 0]
    BY <1>5, <1>6
  <2>2. <<>> \in Seq(Byte) /\ n \in {0} \cup PipeSizes
    OBVIOUS
  <2> HIDE DEF q
  <2> QED BY <1>1, <1>4, <2>1, <2>2 DEF Pipes, B
<1> HIDE DEF q
<1>8. PipeOK(q)
  BY <1>1, <1>7 DEF PipeOK, Has
<1> QED BY <1>1, <1>7, <1>8 DEF q

(* With or without memory. *)
LEMMA ResizedOK ==
  ASSUME NEW p, PipeOK(p), ~ Has(p, "DIRECTW"), NEW n \in PipeSizes, p.cnt <= n,
         NEW q \in Resized(p, n)
  PROVE  /\ PipeOK(q)
         /\ q.size = p.size \/ q.size = n \/ p.size = 0
         /\ p.size # 0 => q.size # 0
         /\ q.cnt = p.cnt /\ q.state = p.state
         /\ q.busy = p.busy /\ q.asleep = p.asleep /\ q.sel = p.sel
         /\ q.present = p.present
<1>1. CASE q = p
  BY <1>1
<1>2. CASE q = pipespace_new(p, n)
  BY <1>2, pipespaceOK
<1>3. CASE p.size = 0 /\ q = pipespace_new(p, SMALL_PIPE_SIZE)
  <2>1. SMALL_PIPE_SIZE \in PipeSizes /\ p.cnt <= SMALL_PIPE_SIZE
    BY <1>3, SizeFacts, Fields DEF PipeOK
  <2> QED BY <1>3, <2>1, pipespaceOK
<1> QED BY <1>1, <1>2, <1>3 DEF Resized

(* Nobody waits for less, or for more, than before. *)
LEMMA ResizedKeeps ==
  ASSUME NEW T \in SUBSET Threads, NEW p, NEW q, PipeOK(p), PipeOK(q),
         ~ Has(p, "DIRECTW"), q.cnt = p.cnt, q.state = p.state, q.asleep = p.asleep,
         q.sel = p.sel
  PROVE  /\ RoomWaits(T, p) => RoomWaits(T, q)
         /\ MapWaits(T, q) /\ MapReady(T, q) /\ MapSelects(T, q)
         /\ ByteWaits(T, p) => ByteWaits(T, q)
         /\ ByteSelects(T, p) => ByteSelects(T, q)
         /\ FullSelects(T, p) => FullSelects(T, q)
         /\ q.size <= p.size => (RoomSelects(T, p) => RoomSelects(T, q))
<1>1. /\ RoomWaits(T, p) => RoomWaits(T, q)
      /\ MapWaits(T, q) /\ MapReady(T, q) /\ MapSelects(T, q)
      /\ ByteWaits(T, p) => ByteWaits(T, q)
      /\ ByteSelects(T, p) => ByteSelects(T, q)
      /\ FullSelects(T, p) => FullSelects(T, q)
  BY DEF RoomWaits, HasBytes, MapWaits, MapReady, MapSelects, ByteWaits, ByteSelects,
         FullSelects, Has
<1>2. q.size <= p.size /\ p.size - p.cnt < PIPE_BUF => q.size - q.cnt < PIPE_BUF
  BY Fields, SizeFacts
<1> QED BY <1>1, <1>2 DEF RoomSelects, Has

LEMMA ReadSpaceOK ==
  ASSUME IInv, NEW r \in Readers, ReadSpace(r) PROVE IInv'
<1>0. /\ r \in Threads /\ 1 \in {0, 1} /\ pc[r] = "rdspace" /\ Others(r) \in SUBSET Threads
      /\ "rdspace" \in Busy /\ "rdspace" \in Unlocked
      /\ "rdspace" \notin WillTell \cup {"rdcopy", "rddirect", "dwbuild"}
      /\ intr' = intr /\ UNCHANGED open
  BY DEF Threads, ReadSpace, Back, Busy, Locations, Unlocked, WillTell, Others
<1>1. /\ At(r, pipe, "rdspace", call[r]) /\ r \notin pipe.asleep /\ r \notin pipe.sel
      /\ intr' = intr \ {r} /\ open' \subseteq {"read", "write"}
      /\ Mid(r, pipe, 1, TRUE) /\ call[r] \in CallRecs
  BY <1>0, EnterUnlocked
<1>2. ForAll(r, pipe)
  BY <1>0, <1>1, Enter DEF ForReader, ForAll
<1>3. PICK q \in Resized(pipe, SMALL_PIPE_SIZE) : ReadLoop(r, q, call[r])
  BY DEF ReadSpace
<1>4. /\ PipeOK(pipe) /\ ~ Has(pipe, "DIRECTW") /\ pipe.size # 0
      /\ pipe.cnt <= SMALL_PIPE_SIZE /\ SMALL_PIPE_SIZE \in PipeSizes
      /\ Has(pipe, "LOCKFL")
  BY <1>0, <1>1, SizeFacts DEF At, Working, Mid, Mid0
<1>5. /\ PipeOK(q) /\ q.size <= pipe.size /\ q.size # 0
      /\ q.cnt = pipe.cnt /\ q.state = pipe.state
      /\ q.busy = pipe.busy /\ q.asleep = pipe.asleep /\ q.sel = pipe.sel
  BY <1>4, ResizedOK, Fields
<1>6. Mid(r, q, 1, TRUE)
  BY <1>0, <1>1, <1>4, <1>5, MidData DEF Has
<1>7. ForReader(r, q) /\ RoomSelects(Others(r), q)
  BY <1>0, <1>2, <1>4, <1>5, ResizedKeeps DEF ForAll, ForReader
<1>8. Len(call[r].uio) <= call[r].orig_resid
  BY <1>1 DEF At, CallOK
<1> QED BY <1>1, <1>3, <1>6, <1>7, <1>8, ReadLoopOK

LEMMA ReadAwakeOK ==
  ASSUME IInv, NEW r \in Readers, ReadAwake(r) PROVE IInv'
<1>0. /\ r \in Threads
      /\ \A l \in {"rdlk", "piperd", "rdlk2"} :
           l \in LockWaits \cup Waits \cup {"pipecl"} /\ l \in Busy /\ l \notin WillTell
  BY DEF Threads, Busy, Locations, Catch, WillTell, LockWaits, Waits
<1>1. PICK l \in {"rdlk", "piperd", "rdlk2"} :
        /\ Awake(r, l)
        /\ \/ ReadExit(r, pipe)
           \/ l = "rdlk" /\ ReadStart(r, pipe, call[r])
           \/ ReadAgain(r, pipe, call[r])
  BY DEF ReadAwake
<1>2. /\ intr' = intr \ {r} /\ open' \subseteq {"read", "write"}
      /\ At(r, pipe, l, call[r]) /\ call[r] \in CallRecs
      /\ Mid(r, pipe, 1, FALSE) /\ ForAll(r, pipe)
  BY <1>0, <1>1, EnterAwake
<1>3. /\ Len(call[r].uio) <= call[r].orig_resid
      /\ l = "rdlk" => ~ call[r].nread
  BY <1>2 DEF At, CallOK
<1>4. CASE ReadExit(r, pipe)
  BY <1>2, <1>4, ReadExitOK DEF ForAll
<1>5. CASE l = "rdlk" /\ ReadStart(r, pipe, call[r])
  BY <1>2, <1>3, <1>5, ReadStartOK
<1>6. CASE ReadAgain(r, pipe, call[r])
  BY <1>2, <1>3, <1>6, ReadAgainOK
<1> QED BY <1>1, <1>4, <1>5, <1>6

(* A call begins. *)
LEMMA EnterIdle ==
  ASSUME IInv, NEW t \in Threads, pc[t] \in {"idle", "poll"}, pc[t] = "idle" \/ t \notin pipe.sel,
         intr' = intr
  PROVE  /\ t \notin pipe.asleep /\ t \notin pipe.sel /\ intr' = intr \ {t}
         /\ Mid(t, pipe, 0, FALSE) /\ ForAll(t, pipe)
<1>1. /\ pc[t] \notin LockWaits \cup Waits \cup {"pipecl"} /\ pc[t] \notin Unlocked
      /\ pc[t] \notin Busy /\ pc[t] \notin WillTell /\ pc[t] \notin Catch
      /\ pc[t] \notin {"rdcopy", "rddirect", "dwbuild"}
  BY DEF LockWaits, Waits, WriteWaits, Unlocked, Busy, WillTell, Catch
<1>2. At(t, pipe, pc[t], call[t])
  BY DEF IInv
<1>3. t \notin pipe.asleep /\ t \notin pipe.sel
  BY <1>1, <1>2 DEF At, Sleeping, CanSleep, Selecting
<1>4. t \notin intr
  BY <1>1 DEF IInv, TypeInv
<1>5. (pc[t] \in Unlocked) = FALSE
  BY <1>1
<1> QED BY <1>1, <1>3, <1>4, <1>5, Enter DEF ForAll, ForReader

LEMMA MidIn ==
  ASSUME NEW t \in Threads, NEW p, NEW k \in BOOLEAN, Mid(t, p, 0, k)
  PROVE  LET q == [p EXCEPT !.busy = @ + 1]
         IN  Mid(t, q, 1, k) /\ Keeps(p, q)
<1> DEFINE q == [p EXCEPT !.busy = @ + 1]
<1>1. p \in Pipes /\ PipeOK(p) /\ p.busy \in Nat
  BY Fields DEF Mid, Mid0
<1>2. p.busy = Cardinality(BusyOnes(Others(t))) + 0 /\ IsFiniteSet(BusyOnes(Others(t)))
  BY DEF Mid, Mid0
<1>3. Cardinality(BusyOnes(Others(t))) \in Nat
  BY <1>2, FS_CardinalityType
<1>4. /\ Keeps(p, q) /\ q.busy = p.busy + 1 /\ q.state = p.state
      /\ q.asleep = p.asleep /\ q.sel = p.sel
  <2>1. p.busy + 1 \in Nat
    BY <1>1
  <2>2. q \in Pipes
    BY <1>1, <2>1 DEF Pipes
  <2> QED BY <1>1, <2>2 DEF Keeps, Pipes, Has
<1> HIDE DEF q
<1>5. PipeOK(q)
  BY <1>1, <1>4, KeepsOK
<1>6. q.busy = Cardinality(BusyOnes(Others(t))) + 1 /\ q.busy > 0
  BY <1>2, <1>3, <1>4
<1>7. ASSUME NEW u \in Others(t) PROVE At(u, q, pc[u], call[u])
  <2>1. At(u, p, pc[u], call[u]) /\ u \in Threads
    BY DEF Mid, Mid0, Others
  <2>2. (pc[u] \in Unlocked \/ (u \in q.asleep /\ pc[u] \in LockWaits)) => Has(q, "LOCKFL")
    BY <1>4, <2>1 DEF At, Sleeping, CanSleep, Working, Has
  <2> QED BY <1>4, <1>6, <2>1, <2>2, AtKeeps
<1>8. Mid(t, q, 1, k)
  BY <1>4, <1>5, <1>6, <1>7 DEF Mid, Mid0, Has
<1> QED BY <1>4, <1>8 DEF q

LEMMA FlagIsBoolean ==
  ASSUME NEW t, NEW nb \in {FALSE, (t \in FNONBLOCK)} PROVE nb \in BOOLEAN
<1>1. (t \in FNONBLOCK) = TRUE \/ (t \in FNONBLOCK) = FALSE
  OBVIOUS
<1>2. nb = FALSE \/ nb = (t \in FNONBLOCK)
  OBVIOUS
<1> QED BY <1>1, <1>2, Zenon

LEMMA ReadOK ==
  ASSUME IInv, NEW r \in Readers, Read(r) PROVE IInv'
<1>1. PICK n \in ReadSizes, nb \in {FALSE, (r \in FNONBLOCK)} :
        ReadStart(r, [pipe EXCEPT !.busy = @ + 1],
                  [NoCall EXCEPT !.resid = n, !.nonblock = nb])
  BY DEF Read
<1> DEFINE c == [NoCall EXCEPT !.resid = n, !.nonblock = nb]
           q == [pipe EXCEPT !.busy = @ + 1]
<1>2. r \in Threads /\ pc[r] = "idle" /\ intr' = intr /\ open' \subseteq {"read", "write"}
  BY DEF Read, Calls, Threads, IInv, TypeInv
<1>3. intr' = intr \ {r} /\ Mid(r, pipe, 0, FALSE) /\ ForAll(r, pipe)
  BY <1>2, EnterIdle
<1>4. Mid(r, q, 1, FALSE) /\ Keeps(pipe, q)
  BY <1>2, <1>3, MidIn
<1>5. n \in Nat
  BY PipeAssumption
<1>6. c \in CallRecs /\ ~ c.nread /\ c.uio = <<>> /\ c.orig_resid = 0
  <2>1. nb \in BOOLEAN
    BY FlagIsBoolean
  <2>2. c \in CallRecs
    BY <1>5, <2>1, NoCallOK DEF CallRecs
  <2> QED BY <2>2 DEF NoCall
<1>7. Len(c.uio) <= c.orig_resid
  BY <1>6
<1>8. ReadStart(r, q, c)
  BY <1>1
<1> HIDE DEF c, q
<1>9. ForAll(r, q)
  BY <1>2, <1>3, <1>4, KeepsFor
<1> QED BY <1>2, <1>3, <1>4, <1>6, <1>7, <1>8, <1>9, ReadStartOK

-----------------------------------------------------------------------------
(***************************************************************************)
(* pipe_write().                                                            *)
(***************************************************************************)

(* Before a writer leaves: whoever is told of bytes, and who of room. *)
LEMMA WriteLastOK ==
  ASSUME IInv, NEW w \in Writers, NEW p0, NEW c, Mid(w, p0, 1, TRUE), ForWriter(w, p0),
         WriteLast(w, p0, c), intr' = intr \ {w}, open' \subseteq {"read", "write"}
  PROVE  IInv'
<1> DEFINE p == Out(p0)
           q == IF p.busy = 0 /\ Has(p, "WANT") THEN wakeup(Clear(p, {"WANT", "WANTR"}))
                ELSE IF p.cnt > 0 THEN WakeIf(p, "WANTR")
                ELSE p
           y == IF q.cnt > 0 THEN pipeselwakeup(q) ELSE q
           z == pipeunlock(y)
<1>0. w \in Threads /\ Others(w) \in SUBSET Threads /\ Return(w, z) /\ 0 \in {0, 1}
  BY DEF Threads, Others, WriteLast, Out
<1>1. /\ Mid(w, q, 0, TRUE) /\ Keeps(p0, q)
      /\ q.cnt > 0 => \A u \in q.asleep : pc[u] # "piperd"
  <2>1. /\ Mid(w, LastOut(p0, "WANTR"), 0, TRUE) /\ Keeps(p0, LastOut(p0, "WANTR"))
        /\ \/ LastOut(p0, "WANTR").asleep = {} /\ p.busy = 0 /\ Has(p, "WANT")
           \/ LastOut(p0, "WANTR") = p /\ ~ (p.busy = 0 /\ Has(p, "WANT"))
    BY <1>0, MidOut
  <2>2. CASE p.busy = 0 /\ Has(p, "WANT")
    <3>1. q = LastOut(p0, "WANTR")
      BY <2>2 DEF LastOut
    <3> QED BY <2>1, <2>2, <3>1
  <2>3. CASE ~ (p.busy = 0 /\ Has(p, "WANT"))
    <3>1. Mid(w, p, 0, TRUE) /\ Keeps(p0, p)
      BY <2>1, <2>3
    <3>2. CASE p.cnt > 0
      <4>1. q = WakeIf(p, "WANTR")
        BY <2>3, <3>2
      <4> HIDE DEF q, p
      <4> QED BY <1>0, <3>1, <4>1, MidWakeIf, KeepsTrans
    <3>3. CASE ~ (p.cnt > 0)
      <4>1. q = p
        BY <2>3, <3>3
      <4> HIDE DEF q, p
      <4> QED BY <3>1, <3>3, <4>1
    <3> QED BY <3>2, <3>3
  <2> QED BY <2>2, <2>3
<1> HIDE DEF q, p
<1>2. PipeOK(q)
  BY <1>1 DEF Mid, Mid0
<1>3. /\ Mid(w, y, 0, TRUE) /\ Keeps(q, y) /\ y.asleep = q.asleep
      /\ y.cnt > 0 => y.sel = {}
  <2>1. CASE q.cnt > 0
    BY <1>0, <1>1, <2>1, MidSel
  <2>2. CASE ~ (q.cnt > 0)
    <3>1. y = q /\ q \in Pipes
      BY <1>2, <2>2, Fields
    <3> QED BY <1>1, <2>2, <3>1 DEF Keeps
  <2> QED BY <2>1, <2>2
<1> HIDE DEF y
<1>4. Mid(w, z, 0, FALSE) /\ Keeps(y, z) /\ z.sel = y.sel
  BY <1>0, <1>3, MidUnlock
<1> HIDE DEF z
<1>5. ForWriter(w, z) /\ PipeOK(z) /\ z.cnt = q.cnt /\ z.cnt = y.cnt /\ z.cnt \in Nat
  <2>1. Keeps(p0, z)
    BY <1>1, <1>3, <1>4, KeepsTrans
  <2> QED BY <1>0, <1>3, <1>4, <2>1, KeepsFor, Fields DEF Mid, Mid0, Keeps
<1>6. /\ ByteWaits(Others(w), z) /\ ByteSelects(Others(w), z)
  <2>1. z.cnt > 0 => \A u \in z.asleep : pc[u] # "piperd"
    BY <1>1, <1>3, <1>4, <1>5 DEF Keeps
  <2>2. z.cnt > 0 => z.sel = {}
    BY <1>3, <1>4, <1>5
  <2>3. z.cnt > 0 \/ z.cnt = 0
    BY <1>5
  <2> QED BY <2>1, <2>2, <2>3 DEF ByteWaits, ByteSelects
<1>7. RoomSelects(Others(w), z)
  <2>1. z.cnt > 0 => z.sel = {}
    BY <1>3, <1>4, <1>5
  <2> QED BY <1>5, <2>1 DEF ForWriter, FullSelects, RoomSelects
<1>8. Leaves(w, z, "idle")
  BY <1>5, <1>6, <1>7 DEF Leaves, ForWriter, WriteWaits
<1> QED BY <1>0, <1>4, <1>8, LandIdle

LEMMA WriteEndOK ==
  ASSUME IInv, NEW w \in Writers, NEW p, NEW c \in CallRecs, Mid(w, p, 1, FALSE),
         ForWriter(w, p), p.size # 0, Len(c.uio) <= c.orig_resid,
         WriteEnd(w, p, c), intr' = intr \ {w}, open' \subseteq {"read", "write"}
  PROVE  IInv'
<1>0. w \in Threads /\ 1 \in {0, 1} /\ w \notin Readers
  BY PipeAssumption DEF Threads
<1>1. CASE Has(p, "LOCKFL")
  <2>1. CallOK(p, "wrlk3", c)
    BY DEF CallOK
  <2>2. Place(w, "wrlk3") /\ "wrlk3" \in Busy /\ "wrlk3" \in LockWaits /\ "wrlk3" \in WillTell
    BY <1>0 DEF Place, WriterLocations, Busy, Locations, NoCatch, LockWaits, WillTell
  <2>3. LockWait(w, "wrlk3", p, c)
    BY <1>1 DEF WriteEnd
  <2> QED BY <1>0, <1>1, <2>1, <2>2, <2>3, LandLockWait
<1>2. CASE ~ Has(p, "LOCKFL")
  <2>1. Mid(w, pipelock(p), 1, TRUE) /\ ForWriter(w, pipelock(p))
    BY <1>0, <1>2, MidLock, KeepsFor
  <2>2. WriteLast(w, pipelock(p), c)
    BY <1>2 DEF WriteEnd
  <2> QED BY <2>1, <2>2, WriteLastOK
<1> QED BY <1>1, <1>2

LEMMA error1OK ==
  ASSUME IInv, NEW w \in Writers, NEW p, NEW c \in CallRecs, Mid(w, p, 1, FALSE),
         ForWriter(w, p), p.size # 0, Len(c.uio) <= c.orig_resid,
         error1(w, p, c), intr' = intr \ {w}, open' \subseteq {"read", "write"}
  PROVE  IInv'
<1>0. w \in Threads /\ 1 \in {0, 1}
  BY DEF Threads
<1>1. Mid(w, wakeup(p), 1, FALSE) /\ Keeps(p, wakeup(p))
  BY <1>0, MidWakeup
<1>2. ForWriter(w, wakeup(p)) /\ wakeup(p).size # 0
  BY <1>0, <1>1, KeepsFor DEF Keeps
<1> QED BY <1>1, <1>2, WriteEndOK DEF error1

(* All readers are told before a writer waits for room. *)
LEMMA WriteWaitOK ==
  ASSUME IInv, NEW w \in Writers, NEW l \in WriteWaits, NEW p, NEW c \in CallRecs,
         Mid(w, p, 1, TRUE), HasBytes(p), ~ Has(p, "EOF"), p.size # 0,
         Len(c.uio) <= c.orig_resid, l = "pipdww" => c.uio # <<>>,
         WriteWait(w, l, p, c), intr' = intr \ {w}, open' \subseteq {"read", "write"}
  PROVE  IInv'
<1> DEFINE q == WakeIf(p, "WANTR")
           x == pipeselwakeup(q)
           y == Set(x, {"WANTW"})
           z == pipeunlock(y)
<1>0. w \in Threads /\ 1 \in {0, 1} /\ w \notin Readers /\ msleep(w, l, z, c)
  BY PipeAssumption DEF Threads, WriteWait
<1>1. Mid(w, q, 1, TRUE) /\ Keeps(p, q) /\ \A u \in q.asleep : pc[u] # "piperd"
  BY <1>0, MidWakeIf
<1> HIDE DEF q
<1>2. Mid(w, x, 1, TRUE) /\ Keeps(q, x) /\ x.sel = {}
  BY <1>0, <1>1, MidSel
<1> HIDE DEF x
<1>3. Mid(w, y, 1, TRUE) /\ Keeps(x, y) /\ Has(y, "WANTW")
  <2>1. x \in Pipes
    BY <1>2 DEF Keeps
  <2> QED BY <1>0, <1>2, <2>1, MidSet, SetKeeps DEF Has
<1> HIDE DEF y
<1>4. /\ Mid(w, z, 1, FALSE) /\ Keeps(y, z) /\ Has(z, "WANTW")
  <2>1. y \in Pipes
    BY <1>3 DEF Keeps
  <2> QED BY <1>0, <1>3, <2>1, MidUnlock, unlockKeeps DEF Has
<1> HIDE DEF z
<1>5. Keeps(p, z) /\ Keeps(q, z) /\ Keeps(x, z)
  BY <1>1, <1>2, <1>3, <1>4, KeepsTrans
<1>6. /\ HasBytes(z) /\ ~ Has(z, "EOF") /\ z.size # 0 /\ z.sel = {}
      /\ \A u \in z.asleep : pc[u] # "piperd"
  BY <1>1, <1>2, <1>5 DEF Keeps, HasBytes
<1>7. PipeOK(z)
  BY <1>4 DEF Mid, Mid0
<1>8. Has(z, "DIRECTW") => z.mapcnt > 0
  BY <1>6, <1>7, Fields DEF HasBytes, PipeOK
<1>9. Leaves(w, z, l)
  <2>1. l # "piperd"
    BY DEF WriteWaits
  <2>2. RoomWaits(Others(w), z) /\ MapWaits(Others(w), z) /\ ByteWaits(Others(w), z)
    BY <1>6 DEF RoomWaits, MapWaits, ByteWaits
  <2>3. /\ MapReady(Others(w), z) /\ MapSelects(Others(w), z)
        /\ ByteSelects(Others(w), z) /\ RoomSelects(Others(w), z)
    BY <1>6, <1>8 DEF MapReady, MapSelects, ByteSelects, RoomSelects
  <2> QED BY <1>6, <2>1, <2>2, <2>3 DEF Leaves
<1>10. CanSleep(z, l)
  BY <1>4, <1>6 DEF CanSleep, WriteWaits, Waits, LockWaits
<1>11. CallOK(z, l, c)
  BY <1>6 DEF CallOK, WriteWaits
<1>12. Place(w, l) /\ l \in Busy
  BY <1>0 DEF Place, WriteWaits, WriterLocations, Busy, Locations, Catch
<1> QED BY <1>0, <1>4, <1>9, <1>10, <1>11, <1>12, LandAsleep

(* While a writer owns PIPE_LOCKFL nobody maps: a direct write has bytes. *)
LEMMA DirectHasBytes ==
  ASSUME NEW w \in Threads, NEW p, NEW b, Mid(w, p, b, TRUE), MapReady(Others(w), p),
         Has(p, "DIRECTW"), ~ Has(p, "EOF")
  PROVE  HasBytes(p)
<1>1. ~ Mapping(Others(w))
  BY DEF Mid, Mid0, Owners, Mapping, Unlocked
<1> QED BY <1>1 DEF MapReady, HasBytes

LEMMA DirectLockedOK ==
  ASSUME IInv, NEW w \in Writers, NEW p, NEW c \in CallRecs, Mid(w, p, 1, TRUE),
         ForWriter(w, p), p.size # 0, Len(c.uio) <= c.orig_resid, c.uio # <<>>,
         DirectLocked(w, p, c), intr' = intr \ {w}, open' \subseteq {"read", "write"}
  PROVE  IInv'
<1> DEFINE q == [p EXCEPT !.mapcnt = 0]
           d == Set(q, {"DIRECTW"})
<1>0. w \in Threads /\ 1 \in {0, 1} /\ w \notin Readers /\ PipeOK(p) /\ Has(p, "LOCKFL")
  BY PipeAssumption DEF Threads, Mid, Mid0
<1>1. CASE error1(w, pipeunlock(p), c)
  <2>1. Mid(w, pipeunlock(p), 1, FALSE) /\ Keeps(p, pipeunlock(p))
    BY <1>0, MidUnlock
  <2>2. ForWriter(w, pipeunlock(p)) /\ pipeunlock(p).size # 0
    BY <1>0, <2>1, KeepsFor DEF Keeps
  <2> QED BY <1>1, <2>1, <2>2, error1OK
<1>2. CASE ~ Has(p, "EOF") /\ Has(p, "DIRECTW") /\ WriteWait(w, "pipdww", p, c)
  <2>1. HasBytes(p) /\ "pipdww" \in WriteWaits
    BY <1>0, <1>2, DirectHasBytes DEF ForWriter, WriteWaits
  <2> QED BY <1>2, <2>1, WriteWaitOK
<1>3. /\ q \in Pipes /\ q.mapcnt = 0
      /\ q.size = p.size /\ q.in = p.in /\ q.out = p.out /\ q.cnt = p.cnt
      /\ q.ms = p.ms /\ q.pos = p.pos /\ q.asleep = p.asleep /\ q.sel = p.sel
      /\ q.present = p.present /\ q.state = p.state /\ q.busy = p.busy
  <2>1. p \in Pipes
    BY <1>0, Fields
  <2> QED BY <2>1 DEF Pipes
<1>4. q.pos + q.mapcnt <= Len(q.ms) /\ q.mapcnt <= q.size
  <2>1. p.pos \in Nat /\ p.mapcnt \in Nat /\ p.size \in Nat /\ Len(p.ms) \in Nat
    BY <1>0, Fields, LenProperties DEF Pipes
  <2>2. p.pos + p.mapcnt <= Len(p.ms)
    BY <1>0 DEF PipeOK
  <2> QED BY <1>3, <2>1, <2>2
<1> HIDE DEF q
<1>5. CASE ~ Has(p, "EOF") /\ ~ Has(p, "DIRECTW") /\ p.cnt > 0 /\ WriteWait(w, "pipdww", q, c)
  <2>1. PipeOK(q)
    BY <1>0, <1>3, <1>4, <1>5 DEF PipeOK, Has
  <2>2. Mid(w, q, 1, TRUE)
    BY <1>0, <1>3, <2>1, MidData DEF Has
  <2>3. HasBytes(q) /\ ~ Has(q, "EOF") /\ q.size # 0 /\ "pipdww" \in WriteWaits
    BY <1>3, <1>5 DEF HasBytes, Has, WriteWaits
  <2> QED BY <1>5, <2>2, <2>3, WriteWaitOK
<1>6. CASE ~ Has(p, "EOF") /\ ~ Has(p, "DIRECTW") /\ ~ (p.cnt > 0) /\ Goto(w, "dwbuild", d, c)
  <2>0. p.cnt = 0
    BY <1>0, <1>6, Fields
  <2>1. /\ d \in Pipes /\ d.mapcnt = 0 /\ d.cnt = 0
        /\ d.size = p.size /\ d.in = p.in /\ d.out = p.out
        /\ d.ms = p.ms /\ d.pos = p.pos /\ d.asleep = p.asleep /\ d.sel = p.sel
        /\ d.present = p.present /\ d.state = p.state \cup {"DIRECTW"} /\ d.busy = p.busy
    BY <1>3, <2>0 DEF Set, Pipes, Flags
  <2> HIDE DEF d
  <2>2. PipeOK(d)
    BY <1>0, <1>3, <1>4, <2>0, <2>1 DEF PipeOK, Has
  <2>3. Mid(w, d, 1, TRUE)
    BY <1>0, <2>1, <2>2, MidData DEF Has
  <2>4. Working(d, "dwbuild", c)
    BY <1>0, <2>1 DEF Working, Has
  <2>5. CallOK(d, "dwbuild", c)
    BY <2>1 DEF CallOK
  <2>6. RoomWaits(Others(w), d)
    BY <1>6, <2>0, <2>1 DEF ForWriter, RoomWaits, HasBytes
  <2>7. Leaves(w, d, "dwbuild")
    BY <2>1, <2>6 DEF Leaves, MapWaits, ByteWaits, ByteSelects, RoomSelects, Has, WriteWaits
  <2>8. Place(w, "dwbuild") /\ "dwbuild" \in Busy /\ "dwbuild" \in Unlocked
    BY <1>0 DEF Place, WriterLocations, Busy, Locations, Unlocked
  <2> QED BY <1>0, <1>6, <2>3, <2>4, <2>5, <2>7, <2>8, LandUnlocked
<1> QED BY <1>1, <1>2, <1>5, <1>6 DEF DirectLocked, q

LEMMA pipe_direct_writeOK ==
  ASSUME IInv, NEW w \in Writers, NEW p, NEW c \in CallRecs, Mid(w, p, 1, FALSE),
         ForWriter(w, p), p.size # 0, Len(c.uio) <= c.orig_resid, c.uio # <<>>,
         pipe_direct_write(w, p, c), intr' = intr \ {w}, open' \subseteq {"read", "write"}
  PROVE  IInv'
<1>0. w \in Threads /\ 1 \in {0, 1} /\ w \notin Readers
  BY PipeAssumption DEF Threads
<1>1. CASE Has(p, "LOCKFL")
  <2>1. CallOK(p, "dwlk", c)
    BY DEF CallOK
  <2>2. Place(w, "dwlk") /\ "dwlk" \in Busy /\ "dwlk" \in LockWaits /\ "dwlk" \in WillTell
    BY <1>0 DEF Place, WriterLocations, Busy, Locations, Catch, LockWaits, WillTell
  <2>3. LockWait(w, "dwlk", p, c)
    BY <1>1 DEF pipe_direct_write
  <2> QED BY <1>0, <1>1, <2>1, <2>2, <2>3, LandLockWait
<1>2. CASE ~ Has(p, "LOCKFL")
  <2>1. Mid(w, pipelock(p), 1, TRUE) /\ Keeps(p, pipelock(p))
    BY <1>0, <1>2, MidLock
  <2>2. ForWriter(w, pipelock(p)) /\ pipelock(p).size # 0
    BY <1>0, <2>1, KeepsFor DEF Keeps
  <2>3. DirectLocked(w, pipelock(p), c)
    BY <1>2 DEF pipe_direct_write
  <2> QED BY <2>1, <2>2, <2>3, DirectLockedOK
<1> QED BY <1>1, <1>2

LEMMA WriteBodyOK ==
  ASSUME IInv, NEW w \in Writers, NEW p, NEW c \in CallRecs, Mid(w, p, 1, TRUE),
         ForWriter(w, p), p.size # 0, Len(c.uio) <= c.orig_resid, c.uio # <<>>,
         WriteBody(w, p, c), intr' = intr \ {w}, open' \subseteq {"read", "write"}
  PROVE  IInv'
<1> DEFINE room == p.size - p.cnt
           space == IF room < Len(c.uio) /\ c.orig_resid <= PIPE_BUF THEN 0 ELSE room
           n == Min({space, Len(c.uio)})
           d == [c EXCEPT !.size = n]
<1>0. w \in Threads /\ 1 \in {0, 1} /\ w \notin Readers /\ PipeOK(p)
  BY PipeAssumption DEF Threads, Mid, Mid0
<1>1. /\ p.size \in Nat /\ p.cnt \in Nat /\ p.cnt <= p.size /\ room \in Nat
      /\ p.size >= PIPE_BUF /\ PIPE_BUF \in Nat
  BY <1>0, Fields, SizeFacts DEF PipeOK
<1>2. /\ c.uio \in Seq(Byte) /\ Len(c.uio) \in Nat /\ Len(c.uio) > 0
      /\ c.orig_resid \in Nat
  BY EmptySeq, LenProperties DEF CallRecs
<1>3. space \in Nat /\ space <= room
  BY <1>1
<1>4. space = 0 => p.cnt > 0
  BY <1>1, <1>2
<1> HIDE DEF space
<1>5. n \in Nat /\ n <= space /\ n <= Len(c.uio) /\ (space > 0 => n > 0)
  BY <1>2, <1>3, Min2
<1> HIDE DEF n
<1>6. /\ Mid(w, pipeunlock(p), 1, FALSE)
      /\ ForWriter(w, pipeunlock(p)) /\ pipeunlock(p).size # 0
  <2>1. Mid(w, pipeunlock(p), 1, FALSE) /\ Keeps(p, pipeunlock(p))
    BY <1>0, MidUnlock
  <2> QED BY <1>0, <2>1, KeepsFor DEF Keeps
<1>7. CASE WriteEnd(w, pipeunlock(p), c)
  BY <1>6, <1>7, WriteEndOK
<1>8. CASE pipe_direct_write(w, pipeunlock(p), c)
  BY <1>6, <1>8, pipe_direct_writeOK
<1>9. CASE ~ Has(p, "EOF") /\ Has(p, "DIRECTW") /\ WriteWait(w, "pipbww", p, c)
  <2>1. HasBytes(p) /\ "pipbww" \in WriteWaits
    BY <1>0, <1>9, DirectHasBytes DEF ForWriter, WriteWaits
  <2> QED BY <1>9, <2>1, WriteWaitOK
<1>10. CASE ~ Has(p, "DIRECTW") /\ space > 0 /\ Goto(w, "wrcopy", p, d)
  <2>1. /\ d \in CallRecs /\ d.uio = c.uio /\ d.orig_resid = c.orig_resid /\ d.size = n
    BY <1>5 DEF CallRecs
  <2> HIDE DEF d
  <2>2. d.size > 0 /\ d.size <= Len(d.uio) /\ d.size <= p.size - p.cnt
    BY <1>1, <1>2, <1>3, <1>5, <1>10, <2>1
  <2>3. Working(p, "wrcopy", d)
    BY <1>10, <2>2 DEF Working, Mid, Mid0
  <2>4. CallOK(p, "wrcopy", d)
    BY <2>1 DEF CallOK
  <2>5. Place(w, "wrcopy") /\ "wrcopy" \in Busy /\ "wrcopy" \in Unlocked /\ "wrcopy" \in WillTell
    BY <1>0 DEF Place, WriterLocations, Busy, Locations, Unlocked, WillTell
  <2>6. Leaves(w, p, "wrcopy")
    BY <2>5 DEF Leaves, ForWriter, WriteWaits
  <2> QED BY <1>0, <1>10, <2>1, <2>3, <2>4, <2>5, <2>6, LandUnlocked
<1>11. CASE WriteEnd(w, pipeunlock(WakeIf(p, "WANTR")), c)
  <2> DEFINE q == WakeIf(p, "WANTR")
             z == pipeunlock(q)
  <2>1. Mid(w, q, 1, TRUE) /\ Keeps(p, q)
    BY <1>0, MidWakeIf
  <2> HIDE DEF q
  <2>2. Mid(w, z, 1, FALSE) /\ Keeps(q, z)
    BY <1>0, <2>1, MidUnlock
  <2>3. WriteEnd(w, z, c)
    BY <1>11 DEF q
  <2> HIDE DEF z
  <2>4. Keeps(p, z)
    BY <2>1, <2>2, KeepsTrans
  <2>5. ForWriter(w, z) /\ z.size # 0
    BY <1>0, <2>4, KeepsFor DEF Keeps
  <2> QED BY <2>2, <2>3, <2>5, WriteEndOK
<1>12. CASE ~ Has(p, "EOF") /\ space = 0 /\ WriteWait(w, "pipewr", p, c)
  <2>1. HasBytes(p) /\ "pipewr" \in WriteWaits
    BY <1>4, <1>12 DEF HasBytes, WriteWaits
  <2> QED BY <1>12, <2>1, WriteWaitOK
<1>13. space > 0 \/ space = 0
  BY <1>3
<1> QED BY <1>7, <1>8, <1>9, <1>10, <1>11, <1>12, <1>13 DEF WriteBody, space, n

LEMMA WriteLoopOK ==
  ASSUME IInv, NEW w \in Writers, NEW p, NEW c \in CallRecs, Mid(w, p, 1, FALSE),
         ForWriter(w, p), p.size # 0, Len(c.uio) <= c.orig_resid,
         WriteLoop(w, p, c), intr' = intr \ {w}, open' \subseteq {"read", "write"}
  PROVE  IInv'
<1>0. w \in Threads /\ 1 \in {0, 1} /\ w \notin Readers
  BY PipeAssumption DEF Threads
<1>1. CASE WriteEnd(w, p, c)
  BY <1>1, WriteEndOK
<1>2. CASE Has(p, "LOCKFL") /\ LockWait(w, "wrlk2", p, c)
  <2>1. CallOK(p, "wrlk2", c)
    BY DEF CallOK
  <2>2. Place(w, "wrlk2") /\ "wrlk2" \in Busy /\ "wrlk2" \in LockWaits /\ "wrlk2" \in WillTell
    BY <1>0 DEF Place, WriterLocations, Busy, Locations, NoCatch, LockWaits, WillTell
  <2> QED BY <1>0, <1>2, <2>1, <2>2, LandLockWait
<1>3. CASE c.uio # <<>> /\ ~ Has(p, "LOCKFL") /\ WriteBody(w, pipelock(p), c)
  <2>1. Mid(w, pipelock(p), 1, TRUE) /\ Keeps(p, pipelock(p))
    BY <1>0, <1>3, MidLock
  <2>2. ForWriter(w, pipelock(p)) /\ pipelock(p).size # 0
    BY <1>0, <2>1, KeepsFor DEF Keeps
  <2> QED BY <1>3, <2>1, <2>2, WriteBodyOK
<1> QED BY <1>1, <1>2, <1>3 DEF WriteLoop

(* Before the reading end is closed, nobody waits for the rundown. *)
LEMMA MidOutOpen ==
  ASSUME NEW t \in Threads, NEW p, NEW k \in BOOLEAN, Mid(t, p, 1, k), ~ Has(p, "EOF")
  PROVE  Mid(t, Out(p), 0, k) /\ Keeps(p, Out(p))
<1> DEFINE q == Out(p)
<1>1. p \in Pipes /\ PipeOK(p) /\ p.busy \in Nat
  BY Fields DEF Mid, Mid0
<1>2. /\ p.busy = Cardinality(BusyOnes(Others(t))) + 1
      /\ Cardinality(BusyOnes(Others(t))) \in Nat
  BY FS_CardinalityType DEF Mid, Mid0
<1>3. p.busy - 1 = Cardinality(BusyOnes(Others(t))) + 0 /\ p.busy - 1 \in Nat
  BY <1>1, <1>2
<1>4. /\ Keeps(p, q) /\ q.busy = p.busy - 1 /\ q.state = p.state
      /\ q.asleep = p.asleep /\ q.sel = p.sel
  <2>1. q \in Pipes
    BY <1>1, <1>3 DEF Pipes, Out
  <2> QED BY <1>1, <2>1 DEF Keeps, Pipes, Has, Out
<1> HIDE DEF q
<1>5. PipeOK(q)
  BY <1>1, <1>4, KeepsOK
<1>6. ASSUME NEW u \in Others(t) PROVE At(u, q, pc[u], call[u])
  <2>1. At(u, p, pc[u], call[u]) /\ u \in Threads
    BY DEF Mid, Mid0, Others
  <2>2. ~ (u \in q.asleep /\ pc[u] = "pipecl")
    BY <1>4, <2>1 DEF At, Sleeping, CanSleep
  <2>3. (pc[u] \in Unlocked \/ (u \in q.asleep /\ pc[u] \in LockWaits)) => Has(q, "LOCKFL")
    BY <1>4, <2>1 DEF At, Sleeping, CanSleep, Working, Has
  <2> QED BY <1>4, <2>1, <2>2, <2>3, AtKeeps
<1>7. q.busy = Cardinality(BusyOnes(Others(t))) + 0
  BY <1>3, <1>4
<1>8. Mid(t, q, 0, k)
  BY <1>4, <1>5, <1>6, <1>7 DEF Mid, Mid0, Has
<1> QED BY <1>4, <1>8 DEF q

LEMMA WriteSizedOK ==
  ASSUME IInv, NEW w \in Writers, NEW p, NEW c \in CallRecs, Mid(w, p, 1, TRUE),
         ForWriter(w, p), ~ Has(p, "EOF"), Len(c.uio) <= c.orig_resid,
         WriteSized(w, p, c), intr' = intr \ {w}, open' \subseteq {"read", "write"}
  PROVE  IInv'
<1>0. w \in Threads /\ 1 \in {0, 1} /\ 0 \in {0, 1} /\ Others(w) \in SUBSET Threads
  BY DEF Threads, Others
<1>1. CASE p.size = 0 /\ Return(w, pipeunlock(Out(p)))
  <2> DEFINE z == pipeunlock(Out(p))
  <2>1. Mid(w, Out(p), 0, TRUE) /\ Keeps(p, Out(p))
    BY <1>0, MidOutOpen
  <2>2. Mid(w, z, 0, FALSE) /\ Keeps(Out(p), z)
    BY <1>0, <2>1, MidUnlock
  <2>3. Return(w, z)
    BY <1>1
  <2> HIDE DEF z
  <2>4. Keeps(p, z)
    BY <2>1, <2>2, KeepsTrans
  <2>5. ForWriter(w, z) /\ z.size = 0
    BY <1>0, <1>1, <2>4, KeepsFor DEF Keeps
  <2>6. z.cnt = 0
    <3>1. PipeOK(z)
      BY <2>2 DEF Mid, Mid0
    <3> QED BY <2>5, <3>1, Fields DEF PipeOK
  <2>7. z.sel \cap Writers = {}
    BY <1>0, <2>2, <2>5, MidSelects DEF Selecting
  <2>8. Leaves(w, z, "idle")
    BY <2>5, <2>6, <2>7 DEF Leaves, ForWriter, ByteWaits, ByteSelects, RoomSelects, WriteWaits
  <2> QED BY <1>0, <2>2, <2>3, <2>8, LandIdle
<1>2. CASE p.size # 0 /\ WriteLoop(w, pipeunlock(p), c)
  <2>1. Mid(w, pipeunlock(p), 1, FALSE) /\ Keeps(p, pipeunlock(p))
    BY <1>0, MidUnlock
  <2>2. ForWriter(w, pipeunlock(p)) /\ pipeunlock(p).size # 0
    BY <1>0, <1>2, <2>1, KeepsFor DEF Keeps
  <2> QED BY <1>2, <2>1, <2>2, WriteLoopOK
<1> QED BY <1>1, <1>2 DEF WriteSized, Out

(* The size asked for is one of the sizes, and what is there fits. *)
LEMMA desiredsizeOK ==
  ASSUME NEW p, PipeOK(p), NEW n \in Nat, NEW kva
  PROVE  desiredsize(p, n, kva) \in PipeSizes /\ p.cnt <= desiredsize(p, n, kva)
<1> DEFINE s == Max({SMALL_PIPE_SIZE, p.size})
           D == {d \in PipeSizes : d >= s /\ (d >= p.cnt + n \/ d = BIG_PIPE_SIZE)}
<1>1. /\ p.size \in Nat /\ p.cnt \in Nat /\ p.cnt <= p.size
      /\ SMALL_PIPE_SIZE \in PipeSizes /\ SMALL_PIPE_SIZE \in Nat
      /\ BIG_PIPE_SIZE \in PipeSizes
      /\ p.size # 0 => p.size \in PipeSizes
      /\ \A x \in PipeSizes : x \in Nat /\ SMALL_PIPE_SIZE <= x /\ x <= BIG_PIPE_SIZE
  BY Fields, SizeFacts DEF PipeOK
<1>2. s = IF SMALL_PIPE_SIZE >= p.size THEN SMALL_PIPE_SIZE ELSE p.size
  BY <1>1, Max2
<1> HIDE DEF s
<1>3. s \in PipeSizes /\ s \in Nat /\ p.cnt <= s
  BY <1>1, <1>2
<1>4. Min(D) \in D
  <2>1. BIG_PIPE_SIZE \in D
    BY <1>1, <1>3
  <2>2. D \in SUBSET Nat /\ D # {}
    BY <1>1, <2>1
  <2> HIDE DEF D
  <2> QED BY <2>2, MinSet
<1>5. Min(D) \in PipeSizes /\ Min(D) >= s
  BY <1>4
<1>6. Min(D) \in Nat
  BY <1>1, <1>5
<1>7. p.cnt <= Min(D)
  <2> HIDE DEF D
  <2> QED BY <1>1, <1>3, <1>5, <1>6
<1>8. desiredsize(p, n, kva) = IF kva = "half" THEN Min(D)
        ELSE IF kva = "full" /\ p.size > SMALL_PIPE_SIZE /\ p.cnt <= SMALL_PIPE_SIZE
        THEN SMALL_PIPE_SIZE ELSE s
  BY DEF desiredsize, s
<1> HIDE DEF D
<1> QED BY <1>1, <1>3, <1>5, <1>7, <1>8

LEMMA WriteLockedOK ==
  ASSUME IInv, NEW w \in Writers, NEW p0, NEW c \in CallRecs, Mid(w, p0, 0, TRUE),
         ForAll(w, p0), Len(c.uio) <= c.orig_resid,
         WriteLocked(w, p0, c), intr' = intr \ {w}, open' \subseteq {"read", "write"}
  PROVE  IInv'
<1> DEFINE p == [p0 EXCEPT !.busy = @ + 1]
<1>0. w \in Threads /\ 1 \in {0, 1} /\ 0 \in {0, 1} /\ w \notin Readers
  BY PipeAssumption DEF Threads
<1>1. CASE Return(w, pipeunlock(p0))
  <2>1. Mid(w, pipeunlock(p0), 0, FALSE) /\ ForAll(w, pipeunlock(p0))
    BY <1>0, MidUnlock, KeepsFor
  <2>2. Leaves(w, pipeunlock(p0), "idle")
    BY <2>1 DEF Leaves, ForAll, ForReader, WriteWaits
  <2> QED BY <1>0, <1>1, <2>1, <2>2, LandIdle
<1>2. Mid(w, p, 1, TRUE) /\ Keeps(p0, p)
  BY <1>0, MidIn
<1>3. CASE /\ ~ Has(p0, "EOF")
           /\ \E kva \in Kva :
                LET d == desiredsize(p, Len(c.uio), kva)
                IN IF d # p.size /\ ~ Has(p, "DIRECTW")
                   THEN Goto(w, "wrspace", p, [c EXCEPT !.size = d])
                   ELSE WriteSized(w, p, c)
  <2> HIDE DEF p
  <2>1. PICK kva \in Kva :
          \/ /\ ~ Has(p, "DIRECTW")
             /\ Goto(w, "wrspace", p,
                     [c EXCEPT !.size = desiredsize(p, Len(c.uio), kva)])
          \/ WriteSized(w, p, c)
    BY <1>3
  <2>2. PipeOK(p) /\ ForAll(w, p) /\ ~ Has(p, "EOF")
    BY <1>0, <1>2, <1>3, KeepsFor DEF Keeps, Mid, Mid0
  <2>3. CASE WriteSized(w, p, c)
    <3>1. ForWriter(w, p)
      BY <1>0, <1>2, <2>2, MidSelects, AllIsForWriter
    <3> QED BY <1>2, <2>2, <2>3, <3>1, WriteSizedOK
  <2>4. CASE /\ ~ Has(p, "DIRECTW")
             /\ Goto(w, "wrspace", p,
                     [c EXCEPT !.size = desiredsize(p, Len(c.uio), kva)])
    <3> DEFINE n == desiredsize(p, Len(c.uio), kva)
               d == [c EXCEPT !.size = n]
    <3>1. Len(c.uio) \in Nat
      BY LenProperties DEF CallRecs
    <3>2. n \in PipeSizes /\ p.cnt <= n
      BY <2>2, <3>1, desiredsizeOK
    <3>3. Goto(w, "wrspace", p, d)
      BY <2>4
    <3> HIDE DEF n
    <3>4. n \in Nat
      BY <3>2, SizeFacts
    <3>5. d \in CallRecs /\ d.size = n /\ d.uio = c.uio /\ d.orig_resid = c.orig_resid
      BY <3>4 DEF CallRecs
    <3> HIDE DEF d
    <3>6. Working(p, "wrspace", d)
      BY <1>2, <2>2, <2>4, <3>2, <3>5 DEF Working, Mid, Mid0
    <3>7. CallOK(p, "wrspace", d)
      BY <3>5 DEF CallOK
    <3>8. Leaves(w, p, "wrspace")
      BY <2>2 DEF Leaves, ForAll, ForReader, WriteWaits
    <3>9. Place(w, "wrspace") /\ "wrspace" \in Busy /\ "wrspace" \in Unlocked
      BY <1>0 DEF Place, WriterLocations, Busy, Locations, Unlocked
    <3> QED BY <1>0, <1>2, <3>3, <3>5, <3>6, <3>7, <3>8, <3>9, LandUnlocked
  <2> QED BY <2>1, <2>3, <2>4
<1> QED BY <1>1, <1>3 DEF WriteLocked

LEMMA WriteStartOK ==
  ASSUME IInv, NEW w \in Writers, NEW p, NEW c \in CallRecs, Mid(w, p, 0, FALSE),
         ForAll(w, p), Len(c.uio) <= c.orig_resid,
         WriteStart(w, p, c), intr' = intr \ {w}, open' \subseteq {"read", "write"}
  PROVE  IInv'
<1>0. w \in Threads /\ 0 \in {0, 1} /\ w \notin Readers
  BY PipeAssumption DEF Threads
<1>1. CASE Has(p, "LOCKFL")
  <2>1. CallOK(p, "wrlk", c)
    BY DEF CallOK
  <2>2. Place(w, "wrlk") /\ "wrlk" \notin Busy /\ "wrlk" \in LockWaits
    BY <1>0 DEF Place, WriterLocations, Busy, LockWaits
  <2>3. LockWait(w, "wrlk", p, c)
    BY <1>1 DEF WriteStart
  <2>4. 0 = 1 <=> "wrlk" \in Busy
    BY <2>2
  <2> QED BY <1>0, <1>1, <2>1, <2>2, <2>3, <2>4, LandLockWait
<1>2. CASE ~ Has(p, "LOCKFL")
  <2>1. Mid(w, pipelock(p), 0, TRUE) /\ ForAll(w, pipelock(p))
    BY <1>0, <1>2, MidLock, KeepsFor
  <2>2. WriteLocked(w, pipelock(p), c)
    BY <1>2 DEF WriteStart
  <2> QED BY <2>1, <2>2, WriteLockedOK
<1> QED BY <1>1, <1>2

LEMMA WriteOK ==
  ASSUME IInv, NEW w \in Writers, Write(w) PROVE IInv'
<1>1. PICK n \in WriteSizes[w], nb \in {FALSE, (w \in FNONBLOCK)} :
        WriteStart(w, pipe, [NoCall EXCEPT !.uio = [i \in 1..n |-> <<w, i>>],
                                           !.orig_resid = n, !.nonblock = nb])
  BY DEF Write
<1> DEFINE u == [i \in 1..n |-> <<w, i>>]
           c == [NoCall EXCEPT !.uio = u, !.orig_resid = n, !.nonblock = nb]
<1>2. w \in Threads /\ pc[w] = "idle" /\ intr' = intr /\ open' \subseteq {"read", "write"}
  BY DEF Write, Calls, Threads, IInv, TypeInv
<1>3. intr' = intr \ {w} /\ Mid(w, pipe, 0, FALSE) /\ ForAll(w, pipe)
  BY <1>2, EnterIdle
<1>4. n \in Nat
  <2>1. WriteSizes[w] \in SUBSET (Nat \ {0})
    BY PipeAssumption
  <2> QED BY <2>1
<1>5. u \in Seq(Byte) /\ Len(u) = n
  <2>1. u \in [1..n -> Byte]
    <3>1. \A i \in 1..n : <<w, i>> \in Byte
      BY <1>4 DEF Byte
    <3> QED BY <3>1
  <2> HIDE DEF u
  <2>2. u \in Seq(Byte)
    BY <1>4, <2>1, SeqDef
  <2>3. DOMAIN u = 1..Len(u) /\ Len(u) \in Nat /\ DOMAIN u = 1..n
    BY <2>1, <2>2, LenProperties
  <2> QED BY <1>4, <2>2, <2>3
<1>6. WriteStart(w, pipe, c)
  BY <1>1
<1> HIDE DEF u
<1>7. c \in CallRecs /\ c.uio = u /\ c.orig_resid = n
  <2>1. nb \in BOOLEAN
    BY FlagIsBoolean
  <2> QED BY <1>4, <1>5, <2>1, NoCallOK DEF CallRecs
<1> HIDE DEF c
<1>8. Len(c.uio) <= c.orig_resid
  BY <1>4, <1>5, <1>7
<1> QED BY <1>2, <1>3, <1>6, <1>7, <1>8, WriteStartOK

LEMMA WriteSpaceOK ==
  ASSUME IInv, NEW w \in Writers, WriteSpace(w) PROVE IInv'
<1> DEFINE c == [call[w] EXCEPT !.size = 0]
<1>0. /\ w \in Threads /\ 1 \in {0, 1} /\ pc[w] = "wrspace" /\ Others(w) \in SUBSET Threads
      /\ "wrspace" \in Busy /\ "wrspace" \in Unlocked
      /\ "wrspace" \notin WillTell \cup {"rdcopy", "rddirect", "dwbuild"}
      /\ intr' = intr /\ UNCHANGED open
  BY DEF Threads, WriteSpace, Back, Busy, Locations, Unlocked, WillTell, Others
<1>1. /\ At(w, pipe, "wrspace", call[w]) /\ w \notin pipe.asleep /\ w \notin pipe.sel
      /\ intr' = intr \ {w} /\ open' \subseteq {"read", "write"}
      /\ Mid(w, pipe, 1, TRUE) /\ call[w] \in CallRecs
  BY <1>0, EnterUnlocked
<1>2. ForWriter(w, pipe)
  BY <1>0, <1>1, Enter DEF ForWriter
<1>3. PICK q \in Resized(pipe, call[w].size) : WriteSized(w, q, c)
  BY DEF WriteSpace
<1>4. /\ PipeOK(pipe) /\ ~ Has(pipe, "DIRECTW") /\ ~ Has(pipe, "EOF")
      /\ call[w].size \in PipeSizes /\ pipe.cnt <= call[w].size
      /\ Has(pipe, "LOCKFL")
  BY <1>0, <1>1 DEF At, Working, Mid, Mid0
<1>5. /\ PipeOK(q) /\ (pipe.size # 0 => q.size # 0)
      /\ q.cnt = pipe.cnt /\ q.state = pipe.state
      /\ q.busy = pipe.busy /\ q.asleep = pipe.asleep /\ q.sel = pipe.sel
  BY <1>4, ResizedOK
<1>6. Mid(w, q, 1, TRUE) /\ ~ Has(q, "EOF")
  BY <1>0, <1>1, <1>4, <1>5, MidData DEF Has
<1>7. ForWriter(w, q)
  BY <1>0, <1>2, <1>4, <1>5, ResizedKeeps DEF ForWriter
<1>8. c \in CallRecs /\ c.uio = call[w].uio /\ c.orig_resid = call[w].orig_resid
  BY <1>1 DEF CallRecs
<1>9. Len(c.uio) <= c.orig_resid
  BY <1>1, <1>8 DEF At, CallOK
<1> QED BY <1>1, <1>3, <1>6, <1>7, <1>8, <1>9, WriteSizedOK

(* Parts of what a writer writes. *)
LEMMA RestOK ==
  ASSUME NEW u \in Seq(Byte), NEW n \in Nat, n <= Len(u)
  PROVE  /\ SubSeq(u, 1, n) \in Seq(Byte) /\ Len(SubSeq(u, 1, n)) = n
         /\ Rest(u, n) \in Seq(Byte) /\ Len(Rest(u, n)) \in Nat /\ Len(Rest(u, n)) <= Len(u)
<1>1. Len(u) \in Nat /\ \A i \in 1..Len(u) : u[i] \in Byte
  BY LenProperties, ElementOfSeq
<1>2. SubSeq(u, 1, n) \in Seq(Byte) /\ Len(SubSeq(u, 1, n)) = IF 1 <= n THEN n - 1 + 1 ELSE 0
  <2>1. 1 \in Int /\ n \in Int /\ \A i \in 1..n : u[i] \in Byte
    BY <1>1
  <2> QED BY <2>1, SubSeqProperties
<1>3. /\ Rest(u, n) \in Seq(Byte)
      /\ Len(Rest(u, n)) = IF n + 1 <= Len(u) THEN Len(u) - (n + 1) + 1 ELSE 0
  <2>1. n + 1 \in Int /\ Len(u) \in Int /\ \A i \in (n + 1)..Len(u) : u[i] \in Byte
    BY <1>1
  <2> QED BY <2>1, SubSeqProperties DEF Rest
<1> QED BY <1>1, <1>2, <1>3

(* What is written is put behind the rest, around the end if need be. *)
LEMMA PutOK ==
  ASSUME NEW p, PipeOK(p), ~ Has(p, "DIRECTW"), NEW s \in Seq(Byte), Len(s) > 0,
         Len(s) <= p.size - p.cnt
  PROVE  LET q == Put(p, s)
         IN  /\ PipeOK(q) /\ q.cnt > 0
             /\ q.size = p.size /\ q.state = p.state
             /\ q.busy = p.busy /\ q.asleep = p.asleep /\ q.sel = p.sel
<1> DEFINE n == Len(s)
           g == Min({p.size - p.in, n})
           j == IF p.in + n >= p.size THEN n - g ELSE p.in + n
           f == [i \in DOMAIN p.buffer |->
                   IF i >= p.in /\ i < p.in + g THEN s[i - p.in + 1]
                   ELSE IF i < n - g THEN s[g + i + 1]
                   ELSE p.buffer[i]]
           q == Put(p, s)
<1>1. /\ p \in Pipes /\ p.buffer \in [0..(BIG_PIPE_SIZE - 1) -> Byte \cup {None}]
      /\ DOMAIN p.buffer = 0..(BIG_PIPE_SIZE - 1)
  BY DEF PipeOK, Pipes
<1>2. p.size \in Nat /\ p.cnt \in Nat /\ p.in \in Nat /\ p.out \in Nat
  BY Fields
<1>3. n \in Nat /\ n > 0 /\ n <= p.size - p.cnt /\ \A i \in 1..n : s[i] \in Byte
  BY LenProperties, ElementOfSeq
<1>4. q = [p EXCEPT !.buffer = f, !.in = j, !.cnt = p.cnt + n]
  BY DEF Put
<1> HIDE DEF n, q
<1>5. /\ p.cnt <= p.size /\ p.in <= p.size /\ p.out <= p.size
      /\ p.out = p.size => p.size = 0
      /\ p.out + p.cnt = p.in \/ p.out + p.cnt = p.in + p.size
  BY DEF PipeOK
<1>6. g \in {p.size - p.in, n} /\ g \in Nat /\ g <= p.size - p.in /\ g <= n
  <2>1. p.size - p.in \in Nat
    BY <1>2, <1>5
  <2> QED BY <1>3, <2>1, Min2
<1> HIDE DEF g
<1>7. f \in [0..(BIG_PIPE_SIZE - 1) -> Byte \cup {None}]
  <2>1. ASSUME NEW i \in 0..(BIG_PIPE_SIZE - 1), i >= p.in, i < p.in + g
        PROVE  s[i - p.in + 1] \in Byte
    <3>0. i \in Nat /\ p.in \in Nat /\ g \in Nat /\ n \in Nat /\ g <= n
      BY <1>2, <1>3, <1>6, SizeFacts
    <3>1. i - p.in + 1 \in 1..n
      BY <2>1, <3>0, WithinCopy
    <3> QED BY <1>3, <3>1
  <2>2. ASSUME NEW i \in 0..(BIG_PIPE_SIZE - 1), i < n - g
        PROVE  s[g + i + 1] \in Byte
    <3>1. g + i + 1 \in 1..n
      BY <1>3, <1>6, <2>2, SizeFacts
    <3> QED BY <1>3, <3>1
  <2> QED BY <1>1, <2>1, <2>2
<1>8. /\ j \in Nat /\ j <= p.size /\ p.cnt + n \in Nat /\ p.cnt + n <= p.size
      /\ p.cnt + n > 0
      /\ p.out + (p.cnt + n) \in {j, j + p.size}
  <2>0. p.cnt + n \in Nat /\ p.cnt + n <= p.size /\ p.cnt + n > 0
    BY <1>2, <1>3
  <2>1. CASE p.in + n >= p.size
    <3>1. g = p.size - p.in
      BY <1>2, <1>3, <1>5, <1>6, <2>1
    <3>2. j = p.in + n - p.size
      BY <1>2, <1>3, <2>1, <3>1
    <3>3. p.out + p.cnt = p.in
      BY <1>2, <1>3, <1>5, <2>1
    <3> HIDE DEF j
    <3>4. j \in Nat /\ j <= p.size
      <4>1. /\ p.in \in Nat /\ n \in Nat /\ p.cnt \in Nat /\ p.size \in Nat
            /\ p.in <= p.size /\ n <= p.size - p.cnt
        BY <1>2, <1>3, <1>5
      <4> HIDE DEF n
      <4> QED BY <2>1, <3>2, <4>1, WrapAround
    <3>5. p.out + (p.cnt + n) = j + p.size
      <4>1. /\ p.out \in Nat /\ p.cnt \in Nat /\ p.in \in Nat /\ n \in Nat
            /\ p.size \in Nat
        BY <1>2, <1>3
      <4>2. p.out + (p.cnt + n) = (p.in + n - p.size) + p.size
        BY <3>3, <4>1, WrappedEnd
      <4> QED BY <3>2, <4>2
    <3> QED BY <2>0, <3>4, <3>5
  <2>2. CASE ~ (p.in + n >= p.size)
    <3>1. j = p.in + n
      BY <2>2
    <3> HIDE DEF j
    <3>2. j \in Nat /\ j <= p.size
      BY <1>2, <1>3, <2>2, <3>1
    <3>3. p.out + (p.cnt + n) = j \/ p.out + (p.cnt + n) = j + p.size
      <4>1. p.out + (p.cnt + n) = (p.out + p.cnt) + n
        BY <1>2, <1>3
      <4>2. CASE p.out + p.cnt = p.in
        BY <3>1, <4>1, <4>2
      <4>3. CASE p.out + p.cnt = p.in + p.size
        <5>1. (p.in + p.size) + n = (p.in + n) + p.size
          BY <1>2, <1>3
        <5> QED BY <3>1, <4>1, <4>3, <5>1
      <4> QED BY <1>5, <4>2, <4>3
    <3> QED BY <2>0, <3>2, <3>3
  <2> QED BY <2>1, <2>2
<1> HIDE DEF f, j
<1>9. /\ q \in Pipes /\ q.in = j /\ q.cnt = p.cnt + n /\ q.out = p.out
      /\ q.size = p.size /\ q.state = p.state
      /\ q.busy = p.busy /\ q.asleep = p.asleep /\ q.sel = p.sel
      /\ q.mapcnt = p.mapcnt /\ q.present = p.present
      /\ q.ms = p.ms /\ q.pos = p.pos
  BY <1>1, <1>4, <1>7, <1>8 DEF Pipes
<1>10. PipeOK(q)
  BY <1>8, <1>9 DEF PipeOK, Has
<1> QED BY <1>8, <1>9, <1>10 DEF q

(* Bytes in the ring, and no direct write: that is all a writer needs. *)
LEMMA RingForWriter ==
  ASSUME NEW t, NEW p, p.cnt > 0, ~ Has(p, "DIRECTW") PROVE ForWriter(t, p)
BY DEF ForWriter, MapReady, RoomWaits, HasBytes, MapWaits, MapSelects, FullSelects

LEMMA WriteCopiedOK ==
  ASSUME IInv, NEW w \in Writers, WriteCopied(w) PROVE IInv'
<1> DEFINE u == call[w].uio
           n == call[w].size
           c == [call[w] EXCEPT !.uio = Rest(u, n), !.size = 0]
           q == Put(pipe, SubSeq(u, 1, n))
           z == pipeunlock(q)
<1>0. /\ w \in Threads /\ 1 \in {0, 1} /\ pc[w] = "wrcopy"
      /\ "wrcopy" \in Busy /\ "wrcopy" \in Unlocked
      /\ "wrcopy" \notin {"rdcopy", "rddirect", "dwbuild"}
      /\ "wrcopy" \in WriterLocations \ {"idle", "poll", "wrlk", "wrspace"}
      /\ intr' = intr /\ UNCHANGED open
  BY DEF Threads, WriteCopied, Back, Busy, Locations, Unlocked, WriterLocations
<1>1. /\ At(w, pipe, "wrcopy", call[w]) /\ w \notin pipe.asleep /\ w \notin pipe.sel
      /\ intr' = intr \ {w} /\ open' \subseteq {"read", "write"}
      /\ Mid(w, pipe, 1, TRUE) /\ call[w] \in CallRecs
  BY <1>0, EnterUnlocked
<1>2. /\ PipeOK(pipe) /\ ~ Has(pipe, "DIRECTW") /\ Has(pipe, "LOCKFL") /\ pipe.size # 0
      /\ n > 0 /\ n <= Len(u) /\ n <= pipe.size - pipe.cnt
      /\ Len(u) <= call[w].orig_resid
  BY <1>0, <1>1 DEF At, Working, CallOK, Mid, Mid0
<1>3. u \in Seq(Byte) /\ n \in Nat /\ Len(u) \in Nat /\ call[w].orig_resid \in Nat
  BY <1>1, LenProperties DEF CallRecs
<1>4. CASE WriteLoop(w, z, c)
  <2>1. /\ SubSeq(u, 1, n) \in Seq(Byte) /\ Len(SubSeq(u, 1, n)) = n
        /\ Rest(u, n) \in Seq(Byte) /\ Len(Rest(u, n)) \in Nat /\ Len(Rest(u, n)) <= Len(u)
    BY <1>2, <1>3, RestOK
  <2>2. /\ PipeOK(q) /\ q.cnt > 0 /\ q.size = pipe.size /\ q.state = pipe.state
        /\ q.busy = pipe.busy /\ q.asleep = pipe.asleep /\ q.sel = pipe.sel
    BY <1>2, <2>1, PutOK
  <2>3. c \in CallRecs /\ c.uio = Rest(u, n) /\ c.orig_resid = call[w].orig_resid
    BY <1>1, <2>1 DEF CallRecs
  <2>4. Len(c.uio) <= c.orig_resid
    BY <1>2, <1>3, <2>1, <2>3
  <2> HIDE DEF q, c
  <2>5. Mid(w, q, 1, TRUE)
    BY <1>0, <1>1, <1>2, <2>2, MidData DEF Has
  <2>6. ForWriter(w, q)
    BY <1>2, <2>2, RingForWriter DEF Has
  <2>7. Mid(w, z, 1, FALSE) /\ Keeps(q, z)
    BY <1>0, <2>5, MidUnlock
  <2>8. ForWriter(w, z) /\ z.size # 0
    BY <1>0, <1>2, <2>2, <2>6, <2>7, KeepsFor DEF Keeps
  <2> HIDE DEF z
  <2> QED BY <1>1, <1>4, <2>3, <2>4, <2>7, <2>8, WriteLoopOK
<1>5. CASE WriteEnd(w, pipeunlock(pipe), call[w])
  <2>1. ForWriter(w, pipe)
    BY <1>0, <1>1, Enter DEF ForWriter
  <2>2. Mid(w, pipeunlock(pipe), 1, FALSE) /\ Keeps(pipe, pipeunlock(pipe))
    BY <1>0, <1>1, MidUnlock
  <2>3. ForWriter(w, pipeunlock(pipe)) /\ pipeunlock(pipe).size # 0
    BY <1>0, <1>2, <2>1, <2>2, KeepsFor DEF Keeps
  <2> QED BY <1>1, <1>2, <1>5, <2>2, <2>3, WriteEndOK
<1> QED BY <1>4, <1>5 DEF WriteCopied

-----------------------------------------------------------------------------
(***************************************************************************)
(* pipe_direct_write().                                                     *)
(***************************************************************************)

LEMMA UnmapOK ==
  ASSUME NEW p, PipeOK(p)
  PROVE  LET q == Unmap(p)
         IN  /\ PipeOK(q) /\ q.mapcnt = 0 /\ q.size = p.size /\ q.cnt = p.cnt
             /\ q.state = p.state /\ q.busy = p.busy /\ q.asleep = p.asleep
             /\ q.sel = p.sel
<1> DEFINE q == Unmap(p)
<1>1. p \in Pipes /\ p.size \in Nat
  BY Fields
<1>2. <<>> \in Seq(Byte) /\ Len(<<>>) = 0
  OBVIOUS
<1>3. /\ q \in Pipes /\ q.mapcnt = 0 /\ q.pos = 0 /\ q.ms = <<>>
      /\ q.size = p.size /\ q.in = p.in /\ q.out = p.out /\ q.cnt = p.cnt
      /\ q.asleep = p.asleep /\ q.sel = p.sel
      /\ q.present = p.present /\ q.state = p.state /\ q.busy = p.busy
  BY <1>1, <1>2 DEF Unmap, Pipes
<1> HIDE DEF q
<1>4. q.pos + q.mapcnt <= Len(q.ms) /\ q.mapcnt <= q.size
  BY <1>1, <1>2, <1>3
<1>5. PipeOK(q)
  BY <1>3, <1>4 DEF PipeOK, Has
<1> QED BY <1>3, <1>5 DEF q

LEMMA MidUnmap ==
  ASSUME NEW t \in Threads, NEW p, Mid(t, p, 1, TRUE)
  PROVE  /\ Mid(t, Unmap(p), 1, TRUE) /\ Unmap(p).size = p.size
         /\ Unmap(p).state = p.state /\ Unmap(p).asleep = p.asleep
         /\ Unmap(p).sel = p.sel /\ Unmap(p).cnt = p.cnt
<1> DEFINE q == Unmap(p)
<1>1. PipeOK(p) /\ Has(p, "LOCKFL")
  BY DEF Mid, Mid0
<1>2. /\ PipeOK(q) /\ q.size = p.size /\ q.cnt = p.cnt
      /\ q.state = p.state /\ q.busy = p.busy /\ q.asleep = p.asleep
      /\ q.sel = p.sel
  BY <1>1, UnmapOK
<1> HIDE DEF q
<1>3. Mid(t, q, 1, TRUE)
  BY <1>1, <1>2, MidData DEF Has
<1> QED BY <1>2, <1>3 DEF q

(* What a direct write needs while it holds the mutex: it has not told     *)
(* anybody of the map yet.                                                 *)
ForDirect(t, p) ==
  RoomWaits(Others(t), p) /\ MapReady(Others(t), p) /\ FullSelects(Others(t), p)

LEMMA DirectOverOK ==
  ASSUME IInv, NEW w \in Writers, NEW p, NEW c \in CallRecs, Mid(w, p, 1, TRUE),
         ForDirect(w, p), p.size # 0, Len(c.uio) <= c.orig_resid,
         DirectOver(w, p, c), intr' = intr \ {w}, open' \subseteq {"read", "write"}
  PROVE  IInv'
<1> DEFINE q == Clear([p EXCEPT !.in = p.mapcnt, !.out = 0, !.cnt = p.mapcnt], {"DIRECTW"})
<1>0. /\ w \in Threads /\ 1 \in {0, 1} /\ w \notin Readers /\ PipeOK(p)
      /\ Has(p, "LOCKFL") /\ p \in Pipes
  BY PipeAssumption DEF Threads, Mid, Mid0, PipeOK
<1>1. CASE Has(p, "DIRECTW") /\ Goto(w, "dwclone", q, c)
  <2>1. p.mapcnt \in Nat /\ p.mapcnt <= p.size /\ p.size \in Nat /\ p.cnt = 0
    BY <1>0, <1>1, Fields DEF PipeOK
  <2>2. /\ q \in Pipes /\ q.in = p.mapcnt /\ q.out = 0 /\ q.cnt = p.mapcnt
        /\ q.size = p.size /\ q.ms = p.ms /\ q.pos = p.pos /\ q.mapcnt = p.mapcnt
        /\ q.asleep = p.asleep /\ q.sel = p.sel /\ q.present = p.present
        /\ q.state = p.state \ {"DIRECTW"} /\ q.busy = p.busy
    BY <1>0, <2>1 DEF Clear, Pipes, Flags
  <2> HIDE DEF q
  <2>3. q.out + q.cnt = q.in /\ q.out <= q.size /\ q.out # q.size
    BY <2>1, <2>2
  <2>4. PipeOK(q)
    BY <1>0, <2>1, <2>2, <2>3 DEF PipeOK, Has
  <2>5. Mid(w, q, 1, TRUE)
    BY <1>0, <2>2, <2>4, MidData DEF Has
  <2>6. Working(q, "dwclone", c)
    BY <1>0, <2>2 DEF Working, Has
  <2>7. CallOK(q, "dwclone", c)
    BY <2>2 DEF CallOK
  <2>8. ~ Has(q, "DIRECTW")
    BY <2>2 DEF Has
  <2>9. RoomWaits(Others(w), q)
    BY <2>1, <2>2 DEF ForDirect, RoomWaits, HasBytes
  <2>10. FullSelects(Others(w), q)
    <3>1. q.sel # {} => q.cnt > 0
      <4>1. p.sel # {} => ~ Has(p, "EOF")
        BY <1>0, MidSelects
      <4>2. ~ Has(p, "EOF") => HasBytes(p)
        BY <1>0, <1>1, DirectHasBytes DEF ForDirect
      <4> QED BY <2>1, <2>2, <4>1, <4>2 DEF HasBytes
    <3> QED BY <3>1 DEF FullSelects
  <2>11. Place(w, "dwclone") /\ "dwclone" \in Busy /\ "dwclone" \in Unlocked
    BY <1>0 DEF Place, WriterLocations, Busy, Locations, Unlocked
  <2>12. Leaves(w, q, "dwclone")
    BY <2>8, <2>9, <2>10 DEF Leaves, MapWaits, MapReady, MapSelects, WriteWaits, WillTell
  <2> QED BY <1>0, <1>1, <2>5, <2>6, <2>7, <2>11, <2>12, LandUnlocked
<1>2. CASE /\ ~ Has(p, "DIRECTW")
           /\ \/ WriteEnd(w, pipeunlock(Unmap(p)), c)
              \/ WriteLoop(w, pipeunlock(Unmap(p)), c)
  <2> DEFINE y == Unmap(p)
             z == pipeunlock(y)
  <2>1. /\ Mid(w, y, 1, TRUE) /\ y.size = p.size /\ y.state = p.state
        /\ y.asleep = p.asleep /\ y.sel = p.sel /\ y.cnt = p.cnt
    BY <1>0, MidUnmap
  <2> HIDE DEF y
  <2>2. ForWriter(w, y)
    BY <1>2, <2>1 DEF ForDirect, ForWriter, RoomWaits, HasBytes, MapReady, MapWaits,
                      MapSelects, FullSelects, Has
  <2>3. Mid(w, z, 1, FALSE) /\ Keeps(y, z)
    BY <1>0, <2>1, MidUnlock
  <2>4. ForWriter(w, z) /\ z.size # 0
    BY <1>0, <2>1, <2>2, <2>3, KeepsFor DEF Keeps
  <2>5. WriteEnd(w, z, c) \/ WriteLoop(w, z, c)
    BY <1>2 DEF y
  <2> HIDE DEF z
  <2> QED BY <2>3, <2>4, <2>5, WriteEndOK, WriteLoopOK
<1> QED BY <1>1, <1>2 DEF DirectOver

LEMMA DirectLoopOK ==
  ASSUME IInv, NEW w \in Writers, NEW p, NEW c \in CallRecs, Mid(w, p, 1, TRUE),
         ForDirect(w, p), p.size # 0, Len(c.uio) <= c.orig_resid,
         DirectLoop(w, p, c), intr' = intr \ {w}, open' \subseteq {"read", "write"}
  PROVE  IInv'
<1>0. w \in Threads /\ 1 \in {0, 1}
  BY DEF Threads
<1>1. CASE DirectOver(w, p, c)
  BY <1>1, DirectOverOK
<1>2. CASE Has(p, "EOF") /\ error1(w, pipeunlock(pipeselwakeup(Unmap(p))), c)
  <2> DEFINE x == Unmap(p)
             y == pipeselwakeup(x)
             z == pipeunlock(y)
  <2>1. Mid(w, x, 1, TRUE) /\ x.size = p.size /\ x.state = p.state
    BY <1>0, MidUnmap
  <2> HIDE DEF x
  <2>2. Mid(w, y, 1, TRUE) /\ Keeps(x, y) /\ y.sel = {}
    BY <1>0, <2>1, MidSel
  <2> HIDE DEF y
  <2>3. Mid(w, z, 1, FALSE) /\ Keeps(y, z) /\ z.sel = {}
    BY <1>0, <2>2, MidUnlock
  <2>4. error1(w, z, c)
    BY <1>2 DEF x, y
  <2> HIDE DEF z
  <2>5. Has(z, "EOF") /\ z.size # 0
    <3>1. Keeps(x, z)
      BY <2>2, <2>3, KeepsTrans
    <3> QED BY <1>2, <2>1, <3>1 DEF Keeps, Has
  <2>6. \A u \in Others(w) : u \in z.asleep => pc[u] \notin Waits
    BY <2>3, <2>5 DEF Mid, Mid0, At, Sleeping, CanSleep
  <2>7. ForWriter(w, z)
    BY <2>3, <2>5, <2>6 DEF ForWriter, MapReady, RoomWaits, MapWaits, MapSelects,
                            FullSelects, Waits
  <2> QED BY <2>3, <2>4, <2>5, <2>7, error1OK
<1>3. CASE Has(p, "DIRECTW") /\ ~ Has(p, "EOF") /\ WriteWait(w, "pipdwt", p, c)
  <2>1. HasBytes(p) /\ "pipdwt" \in WriteWaits /\ "pipdwt" # "pipdww"
    BY <1>0, <1>3, DirectHasBytes DEF ForDirect, WriteWaits
  <2> QED BY <1>3, <2>1, WriteWaitOK
<1> QED BY <1>1, <1>2, <1>3 DEF DirectLoop

LEMMA DirectAgainOK ==
  ASSUME IInv, NEW w \in Writers, NEW p, NEW c \in CallRecs, Mid(w, p, 1, FALSE),
         ForWriter(w, p), p.size # 0, Len(c.uio) <= c.orig_resid,
         DirectAgain(w, p, c), intr' = intr \ {w}, open' \subseteq {"read", "write"}
  PROVE  IInv'
<1>0. w \in Threads /\ 1 \in {0, 1} /\ w \notin Readers
  BY PipeAssumption DEF Threads
<1>1. CASE Has(p, "LOCKFL")
  <2>1. CallOK(p, "dwlk2", c)
    BY DEF CallOK
  <2>2. Place(w, "dwlk2") /\ "dwlk2" \in Busy /\ "dwlk2" \in LockWaits /\ "dwlk2" \in WillTell
    BY <1>0 DEF Place, WriterLocations, Busy, Locations, NoCatch, LockWaits, WillTell
  <2>3. LockWait(w, "dwlk2", p, c)
    BY <1>1 DEF DirectAgain
  <2> QED BY <1>0, <1>1, <2>1, <2>2, <2>3, LandLockWait
<1>2. CASE ~ Has(p, "LOCKFL")
  <2>1. Mid(w, pipelock(p), 1, TRUE) /\ Keeps(p, pipelock(p))
    BY <1>0, <1>2, MidLock
  <2>2. ForWriter(w, pipelock(p)) /\ pipelock(p).size # 0
    BY <1>0, <2>1, KeepsFor DEF Keeps
  <2>3. DirectLoop(w, pipelock(p), c)
    BY <1>2 DEF DirectAgain
  <2> QED BY <2>1, <2>2, <2>3, DirectLoopOK DEF ForWriter, ForDirect
<1> QED BY <1>1, <1>2

LEMMA DirectBuildOK ==
  ASSUME IInv, NEW w \in Writers, DirectBuild(w) PROVE IInv'
<1> DEFINE u == call[w].uio
           n == Min({Len(u), pipe.size})
           q == [pipe EXCEPT !.ms = SubSeq(u, 1, n), !.pos = 0, !.mapcnt = n]
           c == [call[w] EXCEPT !.uio = Rest(u, n)]
<1>0. /\ w \in Threads /\ 1 \in {0, 1} /\ pc[w] = "dwbuild"
      /\ "dwbuild" \in Busy /\ "dwbuild" \in Unlocked
      /\ "dwbuild" \notin {"rdcopy", "rddirect"}
      /\ "dwbuild" \in WriterLocations \ {"idle", "poll", "wrlk", "wrspace"}
      /\ intr' = intr /\ UNCHANGED open
  BY DEF Threads, DirectBuild, Back, Busy, Locations, Unlocked, WriterLocations
<1>1. /\ At(w, pipe, "dwbuild", call[w]) /\ w \notin pipe.asleep /\ w \notin pipe.sel
      /\ intr' = intr \ {w} /\ open' \subseteq {"read", "write"}
      /\ Mid(w, pipe, 1, TRUE) /\ call[w] \in CallRecs
  BY <1>0, EnterUnlocked
<1>2. /\ PipeOK(pipe) /\ Has(pipe, "DIRECTW") /\ Has(pipe, "LOCKFL") /\ pipe.size # 0
      /\ pipe.mapcnt = 0 /\ u # <<>> /\ Len(u) <= call[w].orig_resid
      /\ pipe.cnt = 0 /\ pipe \in Pipes /\ pipe.size \in Nat
  BY <1>0, <1>1, Fields DEF At, Working, CallOK, Mid, Mid0, PipeOK
<1>3. u \in Seq(Byte) /\ Len(u) \in Nat /\ Len(u) > 0 /\ call[w].orig_resid \in Nat
  BY <1>1, <1>2, EmptySeq, LenProperties DEF CallRecs
<1>4. n \in Nat /\ n > 0 /\ n <= Len(u) /\ n <= pipe.size
  BY <1>2, <1>3, Min2
<1>5. RoomWaits(Others(w), pipe)
  BY <1>0, <1>1, Enter
<1>6. CASE DirectLoop(w, q, c)
  <2> HIDE DEF n
  <2>1. /\ SubSeq(u, 1, n) \in Seq(Byte) /\ Len(SubSeq(u, 1, n)) = n
        /\ Rest(u, n) \in Seq(Byte) /\ Len(Rest(u, n)) \in Nat /\ Len(Rest(u, n)) <= Len(u)
    BY <1>3, <1>4, RestOK
  <2>2. c \in CallRecs /\ c.uio = Rest(u, n) /\ c.orig_resid = call[w].orig_resid
    BY <1>1, <2>1 DEF CallRecs
  <2>3. /\ q \in Pipes /\ q.mapcnt = n /\ q.pos = 0 /\ q.ms = SubSeq(u, 1, n)
        /\ q.size = pipe.size /\ q.in = pipe.in /\ q.out = pipe.out /\ q.cnt = pipe.cnt
        /\ q.asleep = pipe.asleep /\ q.sel = pipe.sel /\ q.present = pipe.present
        /\ q.state = pipe.state /\ q.busy = pipe.busy
    BY <1>2, <1>4, <2>1 DEF Pipes
  <2> HIDE DEF q, c
  <2>4. q.pos + q.mapcnt <= Len(q.ms) /\ q.mapcnt <= q.size /\ q.mapcnt > 0
    BY <1>4, <2>1, <2>3
  <2>5. PipeOK(q)
    BY <1>2, <2>3, <2>4 DEF PipeOK, Has
  <2>6. Mid(w, q, 1, TRUE)
    BY <1>0, <1>1, <1>2, <2>3, <2>5, MidData DEF Has
  <2>7. Has(q, "DIRECTW")
    BY <1>2, <2>3 DEF Has
  <2>8. ForDirect(w, q)
    BY <2>4, <2>7 DEF ForDirect, RoomWaits, HasBytes, MapReady, FullSelects
  <2>9. Len(c.uio) <= c.orig_resid
    BY <1>2, <1>3, <2>1, <2>2
  <2>10. q.size # 0
    BY <1>2, <2>3
  <2> QED BY <1>1, <1>6, <2>2, <2>6, <2>8, <2>9, <2>10, DirectLoopOK
<1>7. CASE "build" \in Faults /\ error1(w, pipeunlock(Clear(pipe, {"DIRECTW"})), call[w])
  <2> DEFINE y == Clear(pipe, {"DIRECTW"})
             z == pipeunlock(y)
  <2>1. /\ y \in Pipes /\ y.mapcnt = pipe.mapcnt /\ y.pos = pipe.pos /\ y.ms = pipe.ms
        /\ y.size = pipe.size /\ y.in = pipe.in /\ y.out = pipe.out /\ y.cnt = pipe.cnt
        /\ y.asleep = pipe.asleep /\ y.sel = pipe.sel /\ y.present = pipe.present
        /\ y.state = pipe.state \ {"DIRECTW"} /\ y.busy = pipe.busy
    BY <1>2 DEF Clear, Pipes, Flags
  <2>2. error1(w, z, call[w])
    BY <1>7
  <2> HIDE DEF y
  <2>3. PipeOK(y) /\ ~ Has(y, "DIRECTW")
    BY <1>2, <2>1 DEF PipeOK, Has
  <2>4. Mid(w, y, 1, TRUE)
    BY <1>0, <1>1, <1>2, <2>1, <2>3, MidData DEF Has
  <2>5. RoomWaits(Others(w), y)
    BY <1>2, <1>5, <2>1 DEF RoomWaits, HasBytes
  <2>6. ForWriter(w, y)
    BY <1>7, <2>3, <2>5 DEF ForWriter, MapReady, MapWaits, MapSelects, FullSelects
  <2>7. Mid(w, z, 1, FALSE) /\ Keeps(y, z)
    BY <1>0, <2>4, MidUnlock
  <2>8. ForWriter(w, z) /\ z.size # 0
    BY <1>0, <1>2, <2>1, <2>6, <2>7, KeepsFor DEF Keeps
  <2> HIDE DEF z
  <2> QED BY <1>1, <1>2, <2>2, <2>7, <2>8, error1OK
<1> QED BY <1>6, <1>7 DEF DirectBuild

LEMMA MappedOK ==
  ASSUME NEW p, p.ms \in Seq(Byte), p.pos \in Nat, p.mapcnt \in Nat,
         p.pos + p.mapcnt <= Len(p.ms)
  PROVE  Mapped(p) \in Seq(Byte) /\ Len(Mapped(p)) = p.mapcnt
<1> DEFINE a == p.pos + 1
           b == p.pos + p.mapcnt
<1>1. Len(p.ms) \in Nat /\ \A i \in 1..Len(p.ms) : p.ms[i] \in Byte
  BY LenProperties, ElementOfSeq
<1>2. a \in Int /\ b \in Int /\ \A i \in a..b : p.ms[i] \in Byte
  BY <1>1
<1>3. (IF a <= b THEN b - a + 1 ELSE 0) = p.mapcnt
  OBVIOUS
<1>4. Mapped(p) = SubSeq(p.ms, a, b)
  BY DEF Mapped
<1> HIDE DEF a, b
<1>5. SubSeq(p.ms, a, b) \in Seq(Byte) /\ Len(SubSeq(p.ms, a, b)) = IF a <= b THEN b - a + 1 ELSE 0
  BY <1>2, SubSeqProperties
<1> QED BY <1>3, <1>4, <1>5

LEMMA DirectCloneOK ==
  ASSUME IInv, NEW w \in Writers, DirectClone(w) PROVE IInv'
<1> DEFINE m == Mapped(pipe)
           f == [i \in DOMAIN pipe.buffer |-> IF i < pipe.mapcnt THEN m[i + 1] ELSE None]
           p == [pipe EXCEPT !.buffer = f]
           y == Unmap(p)
           z == pipeunlock(y)
<1>0. /\ w \in Threads /\ 1 \in {0, 1} /\ pc[w] = "dwclone"
      /\ "dwclone" \in Busy /\ "dwclone" \in Unlocked
      /\ "dwclone" \notin {"rdcopy", "rddirect", "dwbuild"}
      /\ "dwclone" \in WriterLocations \ {"idle", "poll", "wrlk", "wrspace"}
      /\ intr' = intr /\ UNCHANGED open
  BY DEF Threads, DirectClone, Back, Busy, Locations, Unlocked, WriterLocations
<1>1. /\ At(w, pipe, "dwclone", call[w]) /\ w \notin pipe.asleep /\ w \notin pipe.sel
      /\ intr' = intr \ {w} /\ open' \subseteq {"read", "write"}
      /\ Mid(w, pipe, 1, TRUE) /\ call[w] \in CallRecs
  BY <1>0, EnterUnlocked
<1>2. ForWriter(w, pipe)
  BY <1>0, <1>1, Enter DEF ForWriter
<1>3. /\ PipeOK(pipe) /\ ~ Has(pipe, "DIRECTW") /\ Has(pipe, "LOCKFL") /\ pipe.size # 0
      /\ Len(call[w].uio) <= call[w].orig_resid
  BY <1>0, <1>1 DEF At, Working, CallOK, Mid, Mid0
<1>4. /\ pipe \in Pipes /\ pipe.ms \in Seq(Byte) /\ pipe.pos \in Nat /\ pipe.mapcnt \in Nat
      /\ pipe.pos + pipe.mapcnt <= Len(pipe.ms) /\ Len(pipe.ms) \in Nat
      /\ pipe.buffer \in [0..(BIG_PIPE_SIZE - 1) -> Byte \cup {None}]
  BY <1>3, LenProperties DEF PipeOK, Pipes
<1>5. m \in Seq(Byte) /\ Len(m) = pipe.mapcnt
  BY <1>4, MappedOK
<1> HIDE DEF m
<1>6. f \in [0..(BIG_PIPE_SIZE - 1) -> Byte \cup {None}]
  <2>1. \A i \in 0..(BIG_PIPE_SIZE - 1) : i < pipe.mapcnt => m[i + 1] \in Byte
    <3> SUFFICES ASSUME NEW i \in 0..(BIG_PIPE_SIZE - 1), i < pipe.mapcnt
                 PROVE  m[i + 1] \in Byte
      OBVIOUS
    <3>1. i + 1 \in 1..Len(m)
      BY <1>4, <1>5, SizeFacts
    <3> QED BY <1>5, <3>1, ElementOfSeq
  <2> QED BY <1>4, <2>1
<1>7. WriteEnd(w, z, call[w])
  BY DEF DirectClone, m
<1> HIDE DEF f
<1>8. /\ p \in Pipes /\ p.mapcnt = pipe.mapcnt /\ p.pos = pipe.pos /\ p.ms = pipe.ms
      /\ p.size = pipe.size /\ p.in = pipe.in /\ p.out = pipe.out /\ p.cnt = pipe.cnt
      /\ p.asleep = pipe.asleep /\ p.sel = pipe.sel /\ p.present = pipe.present
      /\ p.state = pipe.state /\ p.busy = pipe.busy
  BY <1>4, <1>6 DEF Pipes
<1> HIDE DEF p
<1>9. PipeOK(p)
  BY <1>3, <1>8 DEF PipeOK, Has
<1>10. Mid(w, p, 1, TRUE)
  BY <1>0, <1>1, <1>3, <1>8, <1>9, MidData DEF Has
<1>11. /\ Mid(w, y, 1, TRUE) /\ y.size = pipe.size /\ y.state = pipe.state
       /\ y.asleep = pipe.asleep /\ y.sel = pipe.sel /\ y.cnt = pipe.cnt
  BY <1>0, <1>8, <1>10, MidUnmap
<1> HIDE DEF y
<1>12. ForWriter(w, y)
  BY <1>2, <1>3, <1>11 DEF ForWriter, RoomWaits, HasBytes, MapReady, MapWaits,
                           MapSelects, FullSelects, Has
<1>13. Mid(w, z, 1, FALSE) /\ Keeps(y, z)
  BY <1>0, <1>11, MidUnlock
<1>14. ForWriter(w, z) /\ z.size # 0
  BY <1>0, <1>3, <1>11, <1>12, <1>13, KeepsFor DEF Keeps
<1> HIDE DEF z
<1> QED BY <1>1, <1>3, <1>7, <1>13, <1>14, WriteEndOK

LEMMA WriteAwakeOK ==
  ASSUME IInv, NEW w \in Writers, WriteAwake(w) PROVE IInv'
<1> DEFINE L == {"wrlk2", "wrlk3", "pipbww", "pipewr", "dwlk", "pipdww", "pipdwt", "dwlk2"}
           d == [call[w] EXCEPT !.error = w \in intr]
<1>0. /\ w \in Threads
      /\ "wrlk" \in LockWaits /\ "wrlk" \notin WillTell /\ "wrlk" \notin Busy
      /\ \A l \in L : /\ l \in LockWaits \cup Waits \cup {"pipecl"} /\ l \in Busy
                      /\ l \in WriterLocations \ {"idle", "poll", "wrlk", "wrspace"}
  BY DEF Threads, Busy, Locations, Catch, NoCatch, WillTell, LockWaits, Waits, WriteWaits,
         WriterLocations
<1>1. CASE Awake(w, "wrlk") /\ (Return(w, pipe) \/ WriteStart(w, pipe, call[w]))
  <2>1. /\ intr' = intr \ {w} /\ open' \subseteq {"read", "write"}
        /\ At(w, pipe, "wrlk", call[w]) /\ call[w] \in CallRecs
        /\ Mid(w, pipe, 0, FALSE) /\ ForAll(w, pipe)
    BY <1>0, <1>1, EnterAwake
  <2>2. CASE Return(w, pipe)
    <3>1. Leaves(w, pipe, "idle")
      BY <2>1 DEF Leaves, ForAll, ForReader, WriteWaits
    <3> QED BY <1>0, <2>1, <2>2, <3>1, LandIdle
  <2>3. CASE WriteStart(w, pipe, call[w])
    <3>1. Len(call[w].uio) <= call[w].orig_resid
      BY <2>1 DEF At, CallOK
    <3> QED BY <2>1, <2>3, <3>1, WriteStartOK
  <2> QED BY <1>1, <2>2, <2>3
<1>2. ASSUME NEW l \in L, Awake(w, l),
             \/ WriteLoop(w, pipe, call[w]) \/ WriteEnd(w, pipe, call[w])
             \/ DirectAgain(w, pipe, d) \/ DirectAgain(w, pipe, call[w])
             \/ /\ l \in {"dwlk", "pipdww"}
                /\ error1(w, pipe, call[w]) \/ pipe_direct_write(w, pipe, call[w])
      PROVE  IInv'
  <2>1. /\ intr' = intr \ {w} /\ open' \subseteq {"read", "write"}
        /\ At(w, pipe, l, call[w]) /\ call[w] \in CallRecs
        /\ Mid(w, pipe, 1, FALSE) /\ ForWriter(w, pipe)
    BY <1>0, <1>2, EnterAwake
  <2>2. /\ Len(call[w].uio) <= call[w].orig_resid /\ pipe.size # 0
        /\ l \in {"dwlk", "pipdww"} => call[w].uio # <<>>
    BY <1>0, <2>1 DEF At, CallOK
  <2>3. CASE WriteLoop(w, pipe, call[w])
    BY <2>1, <2>2, <2>3, WriteLoopOK
  <2>4. CASE WriteEnd(w, pipe, call[w])
    BY <2>1, <2>2, <2>4, WriteEndOK
  <2>5. CASE DirectAgain(w, pipe, call[w])
    BY <2>1, <2>2, <2>5, DirectAgainOK
  <2>6. CASE DirectAgain(w, pipe, d)
    <3>1. (w \in intr) \in BOOLEAN
      OBVIOUS
    <3>2. d \in CallRecs /\ d.uio = call[w].uio /\ d.orig_resid = call[w].orig_resid
      BY <2>1, <3>1 DEF CallRecs
    <3> HIDE DEF d
    <3> QED BY <2>1, <2>2, <2>6, <3>2, DirectAgainOK
  <2>7. CASE l \in {"dwlk", "pipdww"} /\ error1(w, pipe, call[w])
    BY <2>1, <2>2, <2>7, error1OK
  <2>8. CASE l \in {"dwlk", "pipdww"} /\ pipe_direct_write(w, pipe, call[w])
    BY <2>1, <2>2, <2>8, pipe_direct_writeOK
  <2> QED BY <1>2, <2>3, <2>4, <2>5, <2>6, <2>7, <2>8
<1> QED BY <1>1, <1>2 DEF WriteAwake

-----------------------------------------------------------------------------
(***************************************************************************)
(* pipeclose().                                                             *)
(***************************************************************************)

(* Nobody waits in a pipe whose other end is closed. *)
LEMMA EofForAll ==
  ASSUME NEW t \in Threads, NEW p, NEW b, NEW k, Mid(t, p, b, k), Has(p, "EOF")
  PROVE  ForAll(t, p)
<1>1. p.sel = {}
  BY MidSelects
<1>2. \A u \in Others(t) : u \in p.asleep => pc[u] \notin Waits
  BY DEF Mid, Mid0, At, Sleeping, CanSleep
<1> QED BY <1>1, <1>2 DEF ForAll, ForReader, MapReady, MapWaits, ByteWaits, MapSelects,
                          ByteSelects, RoomWaits, RoomSelects, Waits

LEMMA MidEof ==
  ASSUME NEW t \in Threads, NEW p, NEW b \in {0, 1}, NEW k \in BOOLEAN, Mid(t, p, b, k),
         p.sel = {}, \A u \in Others(t) : u \in p.asleep => pc[u] \notin Waits,
         \A u \in Others(t) : pc[u] # "wrspace"
  PROVE  Mid(t, Set(p, {"EOF"}), b, k) /\ Has(Set(p, {"EOF"}), "EOF")
<1> DEFINE q == Set(p, {"EOF"})
<1>1. p \in Pipes /\ PipeOK(p)
  BY DEF Mid, Mid0, PipeOK
<1>2. /\ q \in Pipes /\ q.mapcnt = p.mapcnt /\ q.pos = p.pos /\ q.ms = p.ms
      /\ q.size = p.size /\ q.in = p.in /\ q.out = p.out /\ q.cnt = p.cnt
      /\ q.asleep = p.asleep /\ q.sel = p.sel /\ q.present = p.present
      /\ q.state = p.state \cup {"EOF"} /\ q.busy = p.busy
  BY <1>1 DEF Set, Pipes, Flags
<1> HIDE DEF q
<1>3. PipeOK(q)
  BY <1>1, <1>2 DEF PipeOK, Has
<1>4. ASSUME NEW u \in Others(t) PROVE At(u, q, pc[u], call[u])
  <2>1. At(u, p, pc[u], call[u])
    BY DEF Mid, Mid0
  <2>2. Sleeping(u, q, pc[u])
    BY <1>2, <2>1 DEF At, Sleeping, CanSleep, Has
  <2>3. Selecting(u, q, pc[u])
    BY <1>2 DEF Selecting
  <2>4. Working(q, pc[u], call[u])
    BY <1>2, <2>1 DEF At, Working, Has
  <2>5. CallOK(q, pc[u], call[u])
    BY <1>2, <2>1 DEF At, CallOK, Has
  <2> QED BY <2>1, <2>2, <2>3, <2>4, <2>5 DEF At
<1>5. Mid(t, q, b, k) /\ Has(q, "EOF")
  BY <1>2, <1>3, <1>4 DEF Mid, Mid0, Has
<1> QED BY <1>5 DEF q

LEMMA CloseLoopOK ==
  ASSUME IInv, NEW r \in Readers, NEW p, Mid(r, wakeup(p), 0, TRUE), p \in Pipes,
         Has(p, "EOF"), p.busy = 0 => Mid(r, p, 0, TRUE),
         CloseLoop(r, p, NoCall), intr' = intr \ {r}, open' \subseteq {"read", "write"}
  PROVE  IInv'
<1>0. /\ r \in Threads /\ 0 \in {0, 1} /\ r \notin Writers /\ NoCall \in CallRecs
      /\ Len(NoCall.uio) <= NoCall.orig_resid /\ ~ NoCall.nread
  BY PipeAssumption, NoCallOK DEF Threads, NoCall
<1>1. CASE p.busy > 0 /\ msleep(r, "pipecl", pipeunlock(Set(wakeup(p), {"WANT"})), NoCall)
  <2> DEFINE x == wakeup(p)
             y == Set(x, {"WANT"})
             z == pipeunlock(y)
  <2>1. Mid(r, x, 0, TRUE) /\ Has(x, "EOF") /\ x.busy > 0 /\ x \in Pipes
    BY <1>1, wakeupKeeps DEF Has, Keeps
  <2>2. msleep(r, "pipecl", z, NoCall)
    BY <1>1
  <2> HIDE DEF x
  <2>3. Mid(r, y, 0, TRUE) /\ Has(y, "WANT") /\ Has(y, "EOF") /\ y.busy > 0 /\ y \in Pipes
    <3>1. Mid(r, y, 0, TRUE)
      BY <1>0, <2>1, MidSet
    <3>2. y \in Pipes /\ y.busy = x.busy /\ y.state = x.state \cup {"WANT"}
      BY <2>1, SetKeeps DEF Keeps
    <3> QED BY <2>1, <3>1, <3>2 DEF Has
  <2> HIDE DEF y
  <2>4. Mid(r, z, 0, FALSE) /\ Has(z, "WANT") /\ Has(z, "EOF") /\ z.busy > 0
    BY <1>0, <2>3, MidUnlock, unlockKeeps DEF Has
  <2> HIDE DEF z
  <2>5. CanSleep(z, "pipecl")
    BY <2>4 DEF CanSleep, LockWaits, Waits, WriteWaits
  <2>6. CallOK(z, "pipecl", NoCall)
    BY <1>0, <2>4 DEF CallOK, WriterLocations
  <2>7. ForAll(r, z)
    BY <1>0, <2>4, EofForAll
  <2>8. Leaves(r, z, "pipecl")
    BY <2>7 DEF Leaves, ForAll, ForReader, WriteWaits
  <2>9. Place(r, "pipecl") /\ (0 = 1 <=> "pipecl" \in Busy)
    BY <1>0 DEF Place, ReaderLocations, Busy
  <2> QED BY <1>0, <2>2, <2>4, <2>5, <2>6, <2>8, <2>9, LandAsleep
<1>2. CASE ~ (p.busy > 0) /\ Goto(r, "clfree", p, NoCall)
  <2>1. Mid(r, p, 0, TRUE)
    <3>1. p.busy \in Nat
      BY DEF Pipes
    <3>2. p.busy = 0
      BY <1>2, <3>1
    <3> QED BY <3>2
  <2>2. Working(p, "clfree", NoCall)
    BY <2>1 DEF Working, Mid, Mid0
  <2>3. CallOK(p, "clfree", NoCall)
    BY <1>0 DEF CallOK, WriterLocations
  <2>4. ForAll(r, p)
    BY <1>0, <2>1, EofForAll
  <2>5. Leaves(r, p, "clfree")
    BY <2>4 DEF Leaves, ForAll, ForReader, WriteWaits
  <2>6. Place(r, "clfree") /\ (0 = 1 <=> "clfree" \in Busy) /\ "clfree" \in Unlocked
    BY <1>0 DEF Place, ReaderLocations, Busy, Unlocked
  <2> QED BY <1>0, <1>2, <2>1, <2>2, <2>3, <2>5, <2>6, LandUnlocked
<1> QED BY <1>1, <1>2 DEF CloseLoop

LEMMA CloseLockedOK ==
  ASSUME IInv, NEW r \in Readers, NEW p, Mid(r, p, 0, TRUE),
         CloseLocked(r, p, NoCall), intr' = intr \ {r}, open' \subseteq {"read", "write"}
  PROVE  IInv'
<1> DEFINE x == pipeselwakeup(p)
           y == Set(x, {"EOF"})
<1>0. r \in Threads /\ 0 \in {0, 1} /\ CloseLoop(r, y, NoCall)
  BY DEF Threads, CloseLocked
<1>1. Mid(r, x, 0, TRUE) /\ x.sel = {} /\ x \in Pipes
  BY <1>0, MidSel DEF Keeps
<1> HIDE DEF x
<1>2. y \in Pipes /\ Has(y, "EOF") /\ y.busy = x.busy /\ wakeup(y) = Set(wakeup(x), {"EOF"})
  BY <1>1 DEF Set, wakeup, Has, Pipes, Flags
<1>3. \A u \in Others(r) : pc[u] # "wrspace"
  BY <1>1 DEF Mid, Mid0, Owners, Unlocked
<1>4. Mid(r, wakeup(y), 0, TRUE)
  <2>1. /\ Mid(r, wakeup(x), 0, TRUE) /\ wakeup(x).asleep = {} /\ wakeup(x).sel = {}
    BY <1>0, <1>1, MidWakeup, wakeupKeeps
  <2> QED BY <1>0, <1>2, <1>3, <2>1, MidEof
<1>5. y.busy = 0 => Mid(r, y, 0, TRUE)
  <2> SUFFICES ASSUME y.busy = 0 PROVE Mid(r, y, 0, TRUE)
    OBVIOUS
  <2>1. BusyOnes(Others(r)) = {}
    <3>1. /\ IsFiniteSet(BusyOnes(Others(r)))
          /\ x.busy = Cardinality(BusyOnes(Others(r))) + 0
      BY <1>1 DEF Mid, Mid0
    <3>2. Cardinality(BusyOnes(Others(r))) \in Nat
      BY <3>1, FS_CardinalityType
    <3>3. Cardinality(BusyOnes(Others(r))) = 0
      BY <1>2, <3>1, <3>2
    <3> QED BY <3>1, <3>3, FS_EmptySet
  <2>2. \A u \in Others(r) : pc[u] \notin Waits
    BY <2>1 DEF BusyOnes, Waits, WriteWaits, Busy, Locations, Catch
  <2> QED BY <1>0, <1>1, <1>3, <2>2, MidEof
<1> HIDE DEF y
<1> QED BY <1>0, <1>2, <1>4, <1>5, CloseLoopOK

LEMMA CloseStartOK ==
  ASSUME IInv, NEW r \in Readers, NEW p, Mid(r, p, 0, FALSE), ForAll(r, p),
         CloseStart(r, p, NoCall), intr' = intr \ {r}, open' \subseteq {"read", "write"}
  PROVE  IInv'
<1>0. /\ r \in Threads /\ 0 \in {0, 1} /\ r \notin Writers /\ NoCall \in CallRecs
      /\ Len(NoCall.uio) <= NoCall.orig_resid
  BY PipeAssumption, NoCallOK DEF Threads, NoCall
<1>1. CASE Has(p, "LOCKFL")
  <2>1. CallOK(p, "cllk", NoCall)
    BY <1>0 DEF CallOK, WriterLocations
  <2>2. Place(r, "cllk") /\ (0 = 1 <=> "cllk" \in Busy) /\ "cllk" \in LockWaits
    BY <1>0 DEF Place, ReaderLocations, Busy, LockWaits
  <2>3. LockWait(r, "cllk", p, NoCall)
    BY <1>1 DEF CloseStart
  <2> QED BY <1>0, <1>1, <2>1, <2>2, <2>3, LandLockWait
<1>2. CASE ~ Has(p, "LOCKFL")
  <2>1. Mid(r, pipelock(p), 0, TRUE)
    BY <1>0, <1>2, MidLock
  <2>2. CloseLocked(r, pipelock(p), NoCall)
    BY <1>2 DEF CloseStart
  <2> QED BY <2>1, <2>2, CloseLockedOK
<1> QED BY <1>1, <1>2

LEMMA CloseAgainOK ==
  ASSUME IInv, NEW r \in Readers, NEW p, Mid(r, p, 0, FALSE), Has(p, "EOF"),
         CloseAgain(r, p, NoCall), intr' = intr \ {r}, open' \subseteq {"read", "write"}
  PROVE  IInv'
<1>0. /\ r \in Threads /\ 0 \in {0, 1} /\ r \notin Writers /\ NoCall \in CallRecs
      /\ Len(NoCall.uio) <= NoCall.orig_resid
  BY PipeAssumption, NoCallOK DEF Threads, NoCall
<1>1. CASE Has(p, "LOCKFL")
  <2>1. CallOK(p, "cllk2", NoCall)
    BY <1>0 DEF CallOK, WriterLocations
  <2>2. Place(r, "cllk2") /\ (0 = 1 <=> "cllk2" \in Busy) /\ "cllk2" \in LockWaits
    BY <1>0 DEF Place, ReaderLocations, Busy, LockWaits
  <2>3. LockWait(r, "cllk2", p, NoCall)
    BY <1>1 DEF CloseAgain
  <2>4. ForAll(r, p)
    BY <1>0, EofForAll
  <2> QED BY <1>0, <1>1, <2>1, <2>2, <2>3, <2>4, LandLockWait
<1>2. CASE ~ Has(p, "LOCKFL")
  <2> DEFINE q == pipelock(p)
  <2>1. Mid(r, q, 0, TRUE) /\ Keeps(p, q) /\ CloseLoop(r, q, NoCall)
    BY <1>0, <1>2, MidLock DEF CloseAgain
  <2> HIDE DEF q
  <2>2. Has(q, "EOF") /\ q \in Pipes
    BY <2>1 DEF Keeps
  <2>3. Mid(r, wakeup(q), 0, TRUE)
    BY <1>0, <2>1, MidWakeup
  <2> QED BY <2>1, <2>2, <2>3, CloseLoopOK
<1> QED BY <1>1, <1>2

LEMMA CloseReaderOK ==
  ASSUME IInv, NEW r \in Readers, CloseReader(r) PROVE IInv'
<1>1. /\ r \in Threads /\ pc[r] = "idle" /\ intr' = intr /\ open' \subseteq {"read", "write"}
      /\ CloseStart(r, pipe, NoCall)
  BY DEF Threads, CloseReader, Calls, IInv, TypeInv
<1>2. intr' = intr \ {r} /\ Mid(r, pipe, 0, FALSE) /\ ForAll(r, pipe)
  BY <1>1, EnterIdle
<1> QED BY <1>1, <1>2, CloseStartOK

LEMMA CloseAwakeOK ==
  ASSUME IInv, NEW r \in Readers, CloseAwake(r) PROVE IInv'
<1>0. /\ r \in Threads
      /\ \A l \in {"cllk", "pipecl", "cllk2"} :
           l \in LockWaits \cup Waits \cup {"pipecl"} /\ l \notin Busy /\ l \notin WillTell
  BY DEF Threads, Busy, WillTell, LockWaits
<1>1. PICK l \in {"cllk", "pipecl", "cllk2"} :
        /\ Awake(r, l)
        /\ \/ l = "cllk" /\ CloseStart(r, pipe, NoCall)
           \/ l # "cllk" /\ CloseAgain(r, pipe, NoCall)
  BY DEF CloseAwake
<1>2. /\ intr' = intr \ {r} /\ open' \subseteq {"read", "write"}
      /\ At(r, pipe, l, call[r]) /\ Mid(r, pipe, 0, FALSE) /\ ForAll(r, pipe)
  BY <1>0, <1>1, EnterAwake
<1>3. l # "cllk" => Has(pipe, "EOF")
  BY <1>2 DEF At, CallOK
<1> QED BY <1>1, <1>2, <1>3, CloseStartOK, CloseAgainOK

LEMMA CloseFreeOK ==
  ASSUME IInv, NEW r \in Readers, CloseFree(r) PROVE IInv'
<1> DEFINE f == [i \in DOMAIN pipe.buffer |-> None]
           k == [pipe EXCEPT !.buffer = f, !.mapcnt = 0, !.pos = 0, !.ms = <<>>]
           q == [k EXCEPT !.present = "FINALIZED"]
           z == pipeunlock(q)
<1>0. /\ r \in Threads /\ 0 \in {0, 1} /\ pc[r] = "clfree"
      /\ "clfree" \notin Busy /\ "clfree" \in Unlocked
      /\ intr' = intr /\ UNCHANGED open /\ Return(r, z)
  BY DEF Threads, CloseFree, pipe_free_kmem, Back, Busy, Unlocked
<1>1. /\ At(r, pipe, "clfree", call[r])
      /\ intr' = intr \ {r} /\ open' \subseteq {"read", "write"}
      /\ Mid(r, pipe, 0, TRUE)
  BY <1>0, EnterUnlocked
<1>2. /\ PipeOK(pipe) /\ Has(pipe, "EOF") /\ Has(pipe, "LOCKFL")
      /\ pipe \in Pipes /\ pipe.size \in Nat
      /\ DOMAIN pipe.buffer = 0..(BIG_PIPE_SIZE - 1)
  BY <1>0, <1>1, Fields DEF At, Working, Mid, Mid0, Pipes
<1>3. f \in [0..(BIG_PIPE_SIZE - 1) -> Byte \cup {None}] /\ <<>> \in Seq(Byte)
  BY <1>2
<1> HIDE DEF f
<1>4. /\ q \in Pipes /\ q.mapcnt = 0 /\ q.pos = 0 /\ q.ms = <<>>
      /\ q.size = pipe.size /\ q.in = pipe.in /\ q.out = pipe.out /\ q.cnt = pipe.cnt
      /\ q.asleep = pipe.asleep /\ q.sel = pipe.sel
      /\ q.state = pipe.state /\ q.busy = pipe.busy
  BY <1>2, <1>3 DEF Pipes
<1> HIDE DEF q
<1>5. PipeOK(q)
  <2>1. q.pos + q.mapcnt <= Len(q.ms) /\ q.mapcnt <= q.size
    BY <1>2, <1>4
  <2> QED BY <1>2, <1>4, <2>1 DEF PipeOK, Has
<1>6. Mid(r, q, 0, TRUE)
  BY <1>0, <1>1, <1>2, <1>4, <1>5, MidData DEF Has
<1>7. Mid(r, z, 0, FALSE) /\ Keeps(q, z)
  BY <1>0, <1>6, MidUnlock
<1> HIDE DEF z
<1>8. Has(z, "EOF")
  BY <1>2, <1>4, <1>7 DEF Keeps, Has
<1>9. ForAll(r, z)
  BY <1>0, <1>7, <1>8, EofForAll
<1>10. Leaves(r, z, "idle")
  BY <1>9 DEF Leaves, ForAll, ForReader, WriteWaits
<1> QED BY <1>0, <1>1, <1>7, <1>10, LandIdle

LEMMA CloseWriterOK ==
  ASSUME IInv, NEW w \in Writers, CloseWriter(w) PROVE IInv'
<1>0. /\ w \in Threads /\ 0 \in {0, 1} /\ pc[w] = "idle" /\ intr' = intr
      /\ open' \subseteq {"read", "write"}
      /\ \A u \in Writers : pc[u] = "idle"
  BY DEF Threads, CloseWriter, Calls, IInv, TypeInv
<1>1. intr' = intr \ {w} /\ Mid(w, pipe, 0, FALSE) /\ ForAll(w, pipe)
  BY <1>0, EnterIdle
<1>2. CASE Return(w, pipe)
  <2>1. Leaves(w, pipe, "idle")
    BY <1>1 DEF Leaves, ForAll, ForReader, WriteWaits
  <2> QED BY <1>0, <1>1, <1>2, <2>1, LandIdle
<1>3. CASE Return(w, wakeup(Set(pipeselwakeup(pipe), {"EOF"})))
  <2> DEFINE x == pipeselwakeup(pipe)
             y == wakeup(x)
             z == Set(y, {"EOF"})
  <2>1. Mid(w, x, 0, FALSE) /\ x.sel = {} /\ x \in Pipes
    BY <1>0, <1>1, MidSel DEF Keeps
  <2>2. Return(w, wakeup(Set(x, {"EOF"})))
    BY <1>3
  <2> HIDE DEF x
  <2>3. wakeup(Set(x, {"EOF"})) = z
    BY <2>1 DEF Set, wakeup, Pipes
  <2>4. Mid(w, y, 0, FALSE) /\ y.asleep = {} /\ y.sel = {}
    BY <1>0, <2>1, MidWakeup, wakeupKeeps
  <2> HIDE DEF y
  <2>5. \A u \in Others(w) : pc[u] # "wrspace"
    BY <1>0, <1>1 DEF Mid, Mid0, At, Others, Threads, ReaderLocations
  <2>6. Mid(w, z, 0, FALSE) /\ Has(z, "EOF")
    BY <1>0, <2>4, <2>5, MidEof
  <2>7. Return(w, z)
    BY <2>2, <2>3
  <2> HIDE DEF z
  <2>8. ForAll(w, z)
    BY <1>0, <2>6, EofForAll
  <2>9. Leaves(w, z, "idle")
    BY <2>8 DEF Leaves, ForAll, ForReader, WriteWaits
  <2> QED BY <1>0, <1>1, <2>6, <2>7, <2>9, LandIdle
<1> QED BY <1>2, <1>3 DEF CloseWriter

-----------------------------------------------------------------------------
(***************************************************************************)
(* select() and signals.                                                    *)
(***************************************************************************)

LEMMA PollOK ==
  ASSUME IInv, NEW t \in Threads, Poll(t) PROVE IInv'
<1> DEFINE q == Set([pipe EXCEPT !.sel = @ \cup {t}], {"SEL"})
<1>0. /\ pc[t] \in {"idle", "poll"} /\ (pc[t] = "idle" \/ t \notin pipe.sel) /\ intr' = intr
      /\ open' \subseteq {"read", "write"} /\ 0 \in {0, 1} /\ Others(t) \in SUBSET Threads
      /\ t \in Readers <=> t \notin Writers
  BY PipeAssumption DEF Poll, Calls, IInv, TypeInv, Others, Threads
<1>1. /\ intr' = intr \ {t} /\ Mid(t, pipe, 0, FALSE) /\ ForAll(t, pipe)
      /\ t \notin pipe.asleep
  BY <1>0, EnterIdle
<1>2. CASE Return(t, pipe)
  <2>1. Leaves(t, pipe, "idle")
    BY <1>1 DEF Leaves, ForAll, ForReader, WriteWaits
  <2> QED BY <1>0, <1>1, <1>2, <2>1, LandIdle
<1>3. CASE ~ Ready(t, pipe) /\ Goto(t, "poll", q, NoCall)
  <2>1. PipeOK(pipe) /\ pipe \in Pipes /\ pipe.cnt \in Nat
    BY <1>1, Fields DEF Mid, Mid0
  <2>2. /\ q \in Pipes /\ q.mapcnt = pipe.mapcnt /\ q.pos = pipe.pos /\ q.ms = pipe.ms
        /\ q.size = pipe.size /\ q.in = pipe.in /\ q.out = pipe.out /\ q.cnt = pipe.cnt
        /\ q.asleep = pipe.asleep /\ q.present = pipe.present /\ q.busy = pipe.busy
        /\ q.sel = pipe.sel \cup {t} /\ q.state = pipe.state \cup {"SEL"}
    BY <2>1 DEF Set, Pipes, Flags
  <2> HIDE DEF q
  <2>3. PipeOK(q)
    BY <2>1, <2>2 DEF PipeOK, Has
  <2>4. ASSUME NEW u \in Others(t) PROVE At(u, q, pc[u], call[u])
    <3>1. At(u, pipe, pc[u], call[u]) /\ u # t
      BY <1>1 DEF Mid, Mid0, Others
    <3>2. Sleeping(u, q, pc[u]) /\ Selecting(u, q, pc[u])
      BY <2>2, <3>1 DEF At, Sleeping, CanSleep, Selecting, Has
    <3>3. Working(q, pc[u], call[u]) /\ CallOK(q, pc[u], call[u])
      BY <2>2, <3>1 DEF At, Working, CallOK, Has
    <3> QED BY <3>1, <3>2, <3>3 DEF At
  <2>5. Mid0(t, q, 0, FALSE)
    BY <1>1, <2>2, <2>3, <2>4 DEF Mid, Mid0, Has
  <2>6. /\ ~ Has(pipe, "EOF")
        /\ t \in Writers => pipe.size # 0 /\ (Has(pipe, "DIRECTW") \/ ~ (pipe.size - pipe.cnt >= PIPE_BUF))
        /\ t \in Readers => ~ Has(pipe, "DIRECTW") /\ pipe.cnt = 0
    BY <1>0, <1>3, <2>1 DEF Ready, PipeOK
  <2>7. Has(pipe, "DIRECTW") \/ ~ (pipe.size - pipe.cnt >= PIPE_BUF)
        => Has(pipe, "DIRECTW") \/ pipe.size - pipe.cnt < PIPE_BUF
    BY <2>1, Fields, SizeFacts
  <2>8. At(t, q, "poll", NoCall)
    <3>1. Sleeping(t, q, "poll") /\ Selecting(t, q, "poll")
      BY <1>1, <2>2, <2>6 DEF Sleeping, Selecting, Has
    <3>2. Working(q, "poll", NoCall) /\ CallOK(q, "poll", NoCall)
      BY NoCallOK DEF Working, CallOK, Unlocked
    <3> QED BY <3>1, <3>2 DEF At, ReaderLocations, WriterLocations
  <2>9. Leaves(t, q, "poll")
    <3>1. /\ RoomWaits(Others(t), q) /\ MapWaits(Others(t), q) /\ ByteWaits(Others(t), q)
          /\ MapReady(Others(t), q)
      BY <1>1, <2>2 DEF ForAll, ForReader, RoomWaits, HasBytes, MapWaits, ByteWaits, MapReady, Has
    <3>2. /\ q.sel \cap Readers # {} => pipe.sel \cap Readers # {} \/ t \in Readers
          /\ q.sel \cap Writers # {} => pipe.sel \cap Writers # {} \/ t \in Writers
      BY <2>2
    <3>3. MapSelects(Others(t), q) /\ ByteSelects(Others(t), q)
      BY <1>1, <2>2, <2>6, <3>2 DEF ForAll, ForReader, MapSelects, ByteSelects, Has
    <3>4. RoomSelects(Others(t), q)
      BY <1>1, <2>2, <2>6, <2>7, <3>2 DEF ForAll, RoomSelects, Has
    <3> QED BY <3>1, <3>3, <3>4 DEF Leaves, WriteWaits
  <2>10. /\ "poll" \in Locations /\ (0 = 1 <=> "poll" \in Busy) /\ (FALSE <=> "poll" \in Unlocked)
         /\ FALSE \in BOOLEAN /\ CallOf("poll", NoCall) = NoCall
    BY DEF Locations, Busy, Unlocked, CallOf
  <2> QED BY <1>0, <1>1, <1>3, <2>5, <2>8, <2>9, <2>10, NoCallOK, Land
<1> QED BY <1>2, <1>3 DEF Poll

LEMMA PollEndsOK ==
  ASSUME IInv, NEW t \in Threads, PollEnds(t) PROVE IInv'
<1> DEFINE q == [pipe EXCEPT !.sel = @ \ {t}]
<1>0. /\ pc[t] = "poll" /\ intr' = intr /\ open' \subseteq {"read", "write"}
      /\ 0 \in {0, 1} /\ Return(t, q) /\ Others(t) \in SUBSET Threads
  BY DEF PollEnds, IInv, TypeInv, Others
<1>1. /\ "poll" \notin LockWaits \cup Waits \cup {"pipecl"} /\ "poll" \notin Unlocked
      /\ "poll" \notin Busy /\ "poll" \notin WillTell /\ "poll" \notin Catch
      /\ "poll" \notin {"rdcopy", "rddirect", "dwbuild"}
  BY DEF LockWaits, Waits, WriteWaits, Unlocked, Busy, WillTell, Catch
<1>2. t \notin pipe.asleep /\ t \notin intr
  BY <1>0, <1>1 DEF IInv, TypeInv, At, Sleeping, CanSleep
<1>3. Mid0(t, pipe, 0, FALSE) /\ ForAll(t, pipe)
  <2>1. (pc[t] \in Unlocked) = FALSE
    BY <1>0, <1>1
  <2> QED BY <1>0, <1>1, <2>1, Enter DEF ForAll, ForReader
<1>4. pipe \in Pipes /\ PipeOK(pipe)
  BY <1>3 DEF Mid0, PipeOK
<1>5. /\ Keeps(pipe, q) /\ q.state = pipe.state /\ q.busy = pipe.busy
      /\ q.sel = pipe.sel \ {t} /\ q.asleep = pipe.asleep
  BY <1>4 DEF Keeps, Pipes, Has
<1> HIDE DEF q
<1>6. PipeOK(q)
  BY <1>4, <1>5, KeepsOK
<1>7. ASSUME NEW u \in Others(t) PROVE At(u, q, pc[u], call[u])
  <2>1. At(u, pipe, pc[u], call[u]) /\ u \in Threads
    BY <1>3 DEF Mid0, Others
  <2>2. /\ u \in q.asleep /\ pc[u] = "pipecl" => q.busy > 0
        /\ (pc[u] \in Unlocked \/ (u \in q.asleep /\ pc[u] \in LockWaits)) => Has(q, "LOCKFL")
    BY <1>5, <2>1 DEF At, Sleeping, CanSleep, Working, Has
  <2> QED BY <1>5, <2>1, <2>2, AtKeeps
<1>8. Mid(t, q, 0, FALSE)
  BY <1>2, <1>3, <1>5, <1>6, <1>7 DEF Mid, Mid0, Has
<1>9. ForAll(t, q)
  BY <1>3, <1>5, KeepsFor
<1>10. Leaves(t, q, "idle")
  BY <1>9 DEF Leaves, ForAll, ForReader, WriteWaits
<1>11. intr' = intr \ {t}
  BY <1>0, <1>2
<1> QED BY <1>0, <1>8, <1>10, <1>11, LandIdle

(* Nobody moves, and no flag is lost. *)
LEMMA SamePlaces ==
  ASSUME IInv, Keeps(pipe, pipe'), pipe'.busy = pipe.busy, pipe'.state = pipe.state,
         UNCHANGED <<pc, call, open>>,
         \A u \in intr' : u \in Threads /\ u \notin pipe'.asleep /\ pc[u] \in Catch
  PROVE  IInv'
<1>1. /\ TypeInv /\ PipeOK(pipe) /\ \A u \in Threads : At(u, pipe, pc[u], call[u])
      /\ Threads \in SUBSET Threads
  BY DEF IInv
<1>2. TypeInv'
  BY <1>1 DEF TypeInv
<1>3. PipeOK(pipe')
  BY <1>1, KeepsOK
<1>4. ASSUME NEW u \in Threads PROVE At(u, pipe', pc[u], call[u])
  <2>1. At(u, pipe, pc[u], call[u]) /\ pipe'.asleep \subseteq pipe.asleep
    BY <1>1 DEF Keeps
  <2>2. /\ u \in pipe'.asleep /\ pc[u] = "pipecl" => pipe'.busy > 0
        /\ (pc[u] \in Unlocked \/ (u \in pipe'.asleep /\ pc[u] \in LockWaits)) => Has(pipe', "LOCKFL")
    BY <2>1 DEF At, Sleeping, CanSleep, Working, Has
  <2> QED BY <2>1, <2>2, AtKeeps
<1>5. /\ RoomWaits(Threads, pipe') /\ MapWaits(Threads, pipe') /\ ByteWaits(Threads, pipe')
      /\ MapReady(Threads, pipe') /\ MapSelects(Threads, pipe')
      /\ ByteSelects(Threads, pipe') /\ RoomSelects(Threads, pipe')
  BY <1>1, KeepsFacts DEF IInv
<1>6. /\ RoomWaits(Threads, pipe)' /\ MapWaits(Threads, pipe)' /\ ByteWaits(Threads, pipe)'
      /\ MapReady(Threads, pipe)' /\ MapSelects(Threads, pipe)'
      /\ ByteSelects(Threads, pipe)' /\ RoomSelects(Threads, pipe)'
  BY <1>5 DEF RoomWaits, MapWaits, ByteWaits, MapReady, MapSelects, ByteSelects,
              RoomSelects, SomeWillTell, Mapping, SomeReads, HasBytes, Has
<1>7. Owners(Threads)' = Owners(Threads) /\ BusyOnes(Threads)' = BusyOnes(Threads)
  BY DEF Owners, BusyOnes
<1>8. /\ Has(pipe, "LOCKFL")' <=> Owners(Threads)' # {}
      /\ \A u, v \in Owners(Threads)' : u = v
      /\ IsFiniteSet(BusyOnes(Threads)') /\ pipe'.busy = Cardinality(BusyOnes(Threads)')
  BY <1>7 DEF IInv, Has
<1>9. \A u \in Threads : At(u, pipe', pc'[u], call'[u])
  BY <1>4
<1> QED BY <1>2, <1>3, <1>6, <1>8, <1>9 DEF IInv, Has

LEMMA SignalOK ==
  ASSUME IInv, NEW t \in Threads, Signal(t) PROVE IInv'
<1>1. pipe \in Pipes
  BY DEF IInv, PipeOK
<1>2. /\ Keeps(pipe, pipe') /\ pipe'.busy = pipe.busy /\ pipe'.state = pipe.state
      /\ pipe'.asleep = pipe.asleep \ {t}
  <2> DEFINE q == [pipe EXCEPT !.asleep = @ \ {t}]
  <2>1. /\ Keeps(pipe, q) /\ q.busy = pipe.busy /\ q.state = pipe.state
        /\ q.asleep = pipe.asleep \ {t}
    BY <1>1 DEF Keeps, Pipes, Has
  <2>2. pipe' = q
    BY DEF Signal
  <2> HIDE DEF q
  <2> QED BY <2>1, <2>2
<1>3. UNCHANGED <<pc, call, open>> /\ intr' = intr \cup {t} /\ pc[t] \in Catch
  BY DEF Signal
<1>4. \A u \in intr' : u \in Threads /\ u \notin pipe'.asleep /\ pc[u] \in Catch
  BY <1>2, <1>3 DEF IInv, TypeInv
<1> QED BY <1>2, <1>3, <1>4, SamePlaces

LEMMA StutterOK == IInv /\ UNCHANGED vars => IInv'
<1> SUFFICES ASSUME IInv, UNCHANGED vars PROVE IInv'
  OBVIOUS
<1>1. Keeps(pipe, pipe') /\ pipe'.busy = pipe.busy /\ pipe'.state = pipe.state
  BY DEF IInv, PipeOK, Keeps, vars
<1>2. \A u \in intr' : u \in Threads /\ u \notin pipe'.asleep /\ pc[u] \in Catch
  BY DEF IInv, TypeInv, vars
<1> QED BY <1>1, <1>2, SamePlaces DEF vars

LEMMA InitOK == Init => IInv
<1> SUFFICES ASSUME Init PROVE IInv
  OBVIOUS
<1> DEFINE f == [i \in 0..(BIG_PIPE_SIZE - 1) |-> None]
<1>1. PICK s \in {0, SMALL_PIPE_SIZE, PIPE_SIZE} :
        pipe = [state |-> {}, busy |-> 0, present |-> "ACTIVE",
                size |-> s, in |-> 0, out |-> 0, cnt |-> 0, buffer |-> f,
                ms |-> <<>>, pos |-> 0, mapcnt |-> 0, asleep |-> {}, sel |-> {}]
  BY DEF Init
<1>2. /\ s \in {0} \cup PipeSizes /\ s \in Nat
      /\ f \in [0..(BIG_PIPE_SIZE - 1) -> Byte \cup {None}]
      /\ <<>> \in Seq(Byte) /\ Len(<<>>) = 0
  BY SizeFacts
<1> HIDE DEF f
<1>3. /\ pipe.state = {} /\ pipe.busy = 0 /\ pipe.present = "ACTIVE" /\ pipe.size = s
      /\ pipe.in = 0 /\ pipe.out = 0 /\ pipe.cnt = 0 /\ pipe.ms = <<>> /\ pipe.pos = 0
      /\ pipe.mapcnt = 0 /\ pipe.asleep = {} /\ pipe.sel = {}
  BY <1>1
<1>4. pipe \in Pipes
  BY <1>1, <1>2 DEF Pipes
<1>5. PipeOK(pipe)
  BY <1>2, <1>3, <1>4 DEF PipeOK, Has
<1>6. /\ pc = [t \in Threads |-> "idle"] /\ call = [t \in Threads |-> NoCall]
      /\ intr = {} /\ open = {"read", "write"}
  BY DEF Init
<1>7. TypeInv
  BY <1>6, NoCallOK DEF TypeInv, Locations
<1>8. "idle" \notin Unlocked /\ "idle" \notin Busy /\ "idle" \notin WillTell
  BY DEF Unlocked, Busy, WillTell
<1>9. ASSUME NEW u \in Threads PROVE At(u, pipe, pc[u], call[u])
  <2>1. pc[u] = "idle" /\ call[u] = NoCall
    BY <1>6
  <2>2. Working(pipe, "idle", NoCall) /\ CallOK(pipe, "idle", NoCall)
    BY <1>8, NoCallOK DEF Working, CallOK
  <2>3. Sleeping(u, pipe, "idle") /\ Selecting(u, pipe, "idle")
    BY <1>3 DEF Sleeping, Selecting
  <2> QED BY <2>1, <2>2, <2>3 DEF At, ReaderLocations, WriterLocations
<1>10. Owners(Threads) = {} /\ BusyOnes(Threads) = {}
  BY <1>6, <1>8 DEF Owners, BusyOnes
<1>11. ~ Has(pipe, "LOCKFL") /\ ~ Has(pipe, "DIRECTW")
  BY <1>3 DEF Has
<1>12. IsFiniteSet(BusyOnes(Threads)) /\ pipe.busy = Cardinality(BusyOnes(Threads))
  BY <1>3, <1>10, FS_EmptySet
<1>13. /\ RoomWaits(Threads, pipe) /\ MapWaits(Threads, pipe) /\ ByteWaits(Threads, pipe)
       /\ MapReady(Threads, pipe) /\ MapSelects(Threads, pipe)
       /\ ByteSelects(Threads, pipe) /\ RoomSelects(Threads, pipe)
  BY <1>3, <1>11 DEF RoomWaits, MapWaits, ByteWaits, MapReady, MapSelects, ByteSelects,
                     RoomSelects
<1> QED BY <1>5, <1>7, <1>9, <1>10, <1>11, <1>12, <1>13 DEF IInv

LEMMA NextOK == IInv /\ [Next]_vars => IInv'
<1> SUFFICES ASSUME IInv, [Next]_vars PROVE IInv'
  OBVIOUS
<1>1. ASSUME NEW t \in Threads, Inside(t) PROVE IInv'
  BY <1>1, ReadAwakeOK, ReadSpaceOK, ReadCopiedOK, ReadDirectOK, CloseAwakeOK, CloseFreeOK,
     WriteAwakeOK, WriteSpaceOK, WriteCopiedOK, DirectBuildOK, DirectCloneOK DEF Inside
<1>2. ASSUME NEW t \in Threads, Poll(t) \/ PollEnds(t) \/ Signal(t) PROVE IInv'
  BY <1>2, PollOK, PollEndsOK, SignalOK
<1>3. ASSUME NEW r \in Readers, Read(r) \/ CloseReader(r) PROVE IInv'
  BY <1>3, ReadOK, CloseReaderOK
<1>4. ASSUME NEW w \in Writers, Write(w) \/ CloseWriter(w) PROVE IInv'
  BY <1>4, WriteOK, CloseWriterOK
<1>5. CASE UNCHANGED vars
  BY <1>5, StutterOK
<1> QED BY <1>1, <1>2, <1>3, <1>4, <1>5 DEF Next

(* The invariant holds in every reachable state. *)
THEOREM Invariance == Spec => []IInv
BY InitOK, NextOK, PTL DEF Spec

-----------------------------------------------------------------------------
(***************************************************************************)
(* What follows from the invariant.                                         *)
(***************************************************************************)

(* The ring keeps its bounds through every copy, wrap, resize and clone,   *)
(* pipe_busy counts the calls inside, and PIPE_LOCKFL has one owner, who   *)
(* is not asleep: the KASSERTs of sys_pipe.c hold for any number of        *)
(* readers and writers and any chain of buffer sizes.                      *)
THEOREM TypeCorrect == Spec => []TypeOK
<1>1. IInv => TypeOK
  <2> SUFFICES ASSUME IInv PROVE TypeOK
    OBVIOUS
  <2>1. /\ pipe.state \subseteq Flags /\ pipe.size \in {0} \cup PipeSizes
        /\ pipe.buffer \in [0..(BIG_PIPE_SIZE - 1) -> Byte \cup {None}]
        /\ pipe.present \in {"ACTIVE", "FINALIZED"}
        /\ pipe.ms \in Seq(Byte) /\ pipe.asleep \subseteq Threads /\ pipe.sel \subseteq Threads
    BY DEF IInv, PipeOK, Pipes
  <2>2. /\ pipe.cnt \in 0..pipe.size /\ pipe.in \in 0..pipe.size
        /\ pipe.out \in 0..pipe.size
    <3>1. PipeOK(pipe)
      BY DEF IInv
    <3> QED BY <3>1, Fields DEF PipeOK
  <2>3. /\ pipe.out + pipe.cnt \in {pipe.in, pipe.in + pipe.size}
        /\ pipe.pos + pipe.mapcnt <= Len(pipe.ms)
    BY DEF IInv, PipeOK
  <2>4. LockWaits \cup Waits \cup {"pipecl"} \subseteq Catch \cup NoCatch
    BY DEF LockWaits, Waits, WriteWaits, Catch, NoCatch
  <2>5. /\ pipe.asleep \subseteq {t \in Threads : pc[t] \in Catch \cup NoCatch}
        /\ pipe.sel \subseteq {t \in Threads : pc[t] = "poll"}
    BY <2>1, <2>4 DEF IInv, At, Sleeping, CanSleep, Selecting
  <2>6. /\ pc \in [Threads -> Locations] /\ intr \subseteq Threads \ pipe.asleep
        /\ open \subseteq {"read", "write"}
    BY DEF IInv, TypeInv
  <2>7. Cardinality(Owners(Threads)) = IF Has(pipe, "LOCKFL") THEN 1 ELSE 0
    <3>1. CASE Owners(Threads) = {}
      <4>1. ~ Has(pipe, "LOCKFL")
        BY <3>1 DEF IInv
      <4> QED BY <3>1, <4>1, FS_EmptySet
    <3>2. CASE Owners(Threads) # {}
      <4>1. PICK x : x \in Owners(Threads)
        BY <3>2
      <4>2. Owners(Threads) = {x} /\ Has(pipe, "LOCKFL")
        BY <4>1 DEF IInv
      <4> QED BY <4>2, FS_Singleton
    <3> QED BY <3>1, <3>2
  <2>8. pipe.busy = Cardinality(BusyOnes(Threads))
    BY DEF IInv
  <2>9. \A w \in Writers : pc[w] = "wrcopy" => call[w].size <= pipe.size - pipe.cnt
    BY DEF IInv, At, Working, Threads
  <2> QED BY <2>1, <2>2, <2>3, <2>5, <2>6, <2>7, <2>8, <2>9 DEF TypeOK, Owners, BusyOnes
<1> QED BY <1>1, Invariance, PTL

(* When everybody inside is asleep nobody owns PIPE_LOCKFL, waits for it   *)
(* or is about to tell somebody.                                           *)
LEMMA QuietFacts ==
  ASSUME IInv, Quiet
  PROVE  /\ \A t \in pipe.asleep : t \in Threads /\ pc[t] \in Waits \cup {"pipecl"}
         /\ ~ SomeWillTell(Threads) /\ ~ Mapping(Threads) /\ ~ SomeReads(Threads)
<1>1. \A t \in Threads : pc[t] \in {"idle", "poll"} \/
        (t \in pipe.asleep /\ CanSleep(pipe, pc[t]))
  BY DEF IInv, Quiet, At, Sleeping
<1>2. \A t \in Threads : pc[t] \notin Unlocked
  BY <1>1 DEF CanSleep, LockWaits, Waits, WriteWaits, Unlocked
<1>3. ~ Has(pipe, "LOCKFL")
  BY <1>2 DEF IInv, Owners
<1>4. \A t \in Threads : pc[t] \in {"idle", "poll"} \cup Waits \cup {"pipecl"}
  BY <1>1, <1>3 DEF CanSleep
<1>5. \A t \in pipe.asleep : t \in Threads /\ pc[t] \in Waits \cup {"pipecl"}
  <2>1. \A t \in pipe.asleep : t \in Threads /\ CanSleep(pipe, pc[t])
    BY DEF IInv, PipeOK, Pipes, At, Sleeping
  <2> QED BY <1>3, <2>1 DEF CanSleep
<1>6. ~ SomeWillTell(Threads) /\ ~ Mapping(Threads) /\ ~ SomeReads(Threads)
  BY <1>4 DEF SomeWillTell, Mapping, SomeReads, WillTell, Waits, WriteWaits
<1> QED BY <1>5, <1>6

(* What is in the pipe, seen by whoever sleeps. *)
LEMMA ContentsFacts ==
  ASSUME IInv, ~ Has(pipe, "EOF"), \A w \in Writers : pc[w] # "dwclone"
  PROVE  /\ HasBytes(pipe) => Contents # <<>>
         /\ pipe.cnt = 0 /\ ~ Has(pipe, "DIRECTW") => Contents = <<>>
<1> DEFINE ring == Ring(pipe)
<1>1. Contents = IF Has(pipe, "DIRECTW") THEN ring \o Mapped(pipe) ELSE ring
  BY DEF Contents, Bytes
<1>2. DOMAIN ring = 1..pipe.cnt
  BY DEF Ring, RingOf
<1>3. pipe.cnt = 0 => ring = <<>>
  BY DEF Ring, RingOf
<1> HIDE DEF ring
<1>4. PipeOK(pipe) /\ pipe.cnt \in Nat /\ pipe.mapcnt \in Nat /\ pipe.pos \in Nat
  BY Fields DEF IInv
<1>5. CASE Has(pipe, "DIRECTW")
  <2>1. pipe.cnt = 0 /\ ring = <<>>
    BY <1>3, <1>4, <1>5 DEF PipeOK
  <2>2. Mapped(pipe) \in Seq(Byte) /\ Len(Mapped(pipe)) = pipe.mapcnt
    BY <1>4, MappedOK DEF PipeOK, Pipes
  <2>3. Contents = Mapped(pipe)
    BY <1>1, <1>5, <2>1, <2>2, ConcatEmptySeq
  <2>4. HasBytes(pipe) => pipe.mapcnt > 0
    BY <1>4, <2>1 DEF HasBytes
  <2>5. pipe.mapcnt > 0 => Mapped(pipe) # <<>>
    BY <1>4, <2>2
  <2> QED BY <1>5, <2>3, <2>4, <2>5
<1>6. CASE ~ Has(pipe, "DIRECTW")
  <2>1. Contents = ring
    BY <1>1, <1>6
  <2>2. HasBytes(pipe) => pipe.cnt > 0
    BY <1>6 DEF HasBytes
  <2>3. pipe.cnt > 0 => ring # <<>>
    <3>1. pipe.cnt > 0 => 1 \in DOMAIN ring
      BY <1>2, <1>4
    <3>2. DOMAIN <<>> = {}
      OBVIOUS
    <3> QED BY <3>1, <3>2
  <2> QED BY <1>3, <2>1, <2>2, <2>3
<1> QED BY <1>5, <1>6

(* No lost wakeup, though all sleep on one channel and one wakeup clears   *)
(* the flags of others: when everybody in the pipe is asleep, no end is    *)
(* closed, readers sleep because there is nothing to read and writers      *)
(* because there is, and nobody sleeps in pipelock() or pipeclose().       *)
THEOREM NobodyIsStranded == Spec => []NobodyStranded
<1>1. IInv => NobodyStranded
  <2> SUFFICES ASSUME IInv, Quiet, NEW t \in pipe.asleep
               PROVE  /\ ~ Has(pipe, "EOF")
                      /\ \/ pc[t] = "piperd" /\ Contents = <<>> /\ Has(pipe, "WANTR")
                         \/ /\ pc[t] \in {"pipbww", "pipewr", "pipdww", "pipdwt"}
                            /\ Contents # <<>> /\ Has(pipe, "WANTW")
    BY DEF NobodyStranded
  <2>1. /\ \A u \in pipe.asleep : u \in Threads /\ pc[u] \in Waits \cup {"pipecl"}
        /\ ~ SomeWillTell(Threads) /\ ~ Mapping(Threads)
    BY QuietFacts
  <2>2. \A u \in pipe.asleep : CanSleep(pipe, pc[u])
    BY <2>1 DEF IInv, At, Sleeping
  <2>3. pc[t] # "pipecl"
    <3> SUFFICES ASSUME pc[t] = "pipecl" PROVE FALSE
      OBVIOUS
    <3>1. Has(pipe, "EOF") /\ pipe.busy > 0
      BY <2>2 DEF CanSleep
    <3>2. BusyOnes(Threads) # {}
      <4>1. pipe.busy = Cardinality(BusyOnes(Threads)) /\ pipe.busy # 0
        BY <3>1 DEF IInv
      <4> QED BY <4>1, FS_EmptySet
    <3>3. PICK u \in Threads : pc[u] \in Busy
      BY <3>2 DEF BusyOnes
    <3>4. u \in pipe.asleep
      BY <3>3 DEF Quiet, Busy
    <3>5. pc[u] \in Waits
      BY <2>1, <3>3, <3>4 DEF Busy
    <3> QED BY <2>2, <3>1, <3>4, <3>5 DEF CanSleep
  <2>4. pc[t] \in Waits /\ t \in Threads
    BY <2>1, <2>3
  <2>5. ~ Has(pipe, "EOF")
    BY <2>2, <2>4 DEF CanSleep
  <2>6. \A w \in Writers : pc[w] # "dwclone"
    BY <2>1 DEF SomeWillTell, WillTell, Threads
  <2>7. CASE pc[t] = "piperd"
    <3>1. Has(pipe, "WANTR")
      BY <2>2, <2>7 DEF CanSleep
    <3>2. pipe.cnt = 0 /\ ~ (Has(pipe, "DIRECTW") /\ pipe.mapcnt > 0)
      BY <2>1, <2>4, <2>7 DEF IInv, ByteWaits, MapWaits
    <3>3. ~ Has(pipe, "DIRECTW")
      BY <2>1, <2>5, <3>2 DEF IInv, MapReady
    <3> QED BY <2>5, <2>6, <2>7, <3>1, <3>2, <3>3, ContentsFacts
  <2>8. CASE pc[t] \in WriteWaits
    <3>1. Has(pipe, "WANTW") /\ HasBytes(pipe)
      BY <2>2, <2>4, <2>8 DEF CanSleep, IInv, RoomWaits
    <3> QED BY <2>5, <2>6, <2>8, <3>1, ContentsFacts DEF WriteWaits
  <2> QED BY <2>4, <2>7, <2>8 DEF Waits
<1> QED BY <1>1, Invariance, PTL

(* A thread in select() is told of bytes, of room and of the end, as long  *)
(* as the pages of direct writers can be mapped: after a failure of        *)
(* pipe_build_write_buffer() PIPE_DIRECTW is cleared and the readers and   *)
(* writers that sleep are woken, but those in select() are not told of the *)
(* room there is again.                                                    *)
THEOREM PollersAreTold ==
  ASSUME "build" \notin Faults PROVE Spec => []PollIsTold
<1>1. IInv => PollIsTold
  <2> SUFFICES ASSUME IInv, Quiet, NEW t \in pipe.sel PROVE ~ Ready(t, pipe)
    BY DEF PollIsTold
  <2>1. ~ SomeWillTell(Threads) /\ ~ Mapping(Threads) /\ ~ SomeReads(Threads)
    BY QuietFacts
  <2>2. t \in Threads /\ Selecting(t, pipe, pc[t])
    BY DEF IInv, PipeOK, Pipes, At
  <2>3. ~ Has(pipe, "EOF") /\ (t \in Writers => pipe.size # 0)
    BY <2>2 DEF Selecting
  <2>4. pipe.present = "ACTIVE"
    BY <2>3 DEF IInv, PipeOK
  <2>5. PipeOK(pipe)
    BY DEF IInv
  <2>6. CASE t \in Readers
    <3>1. ~ Has(pipe, "DIRECTW") /\ pipe.cnt = 0
      BY <2>1, <2>6 DEF IInv, MapSelects, ByteSelects
    <3> QED BY <2>3, <2>6, <3>1 DEF Ready
  <2>7. CASE t \in Writers /\ t \notin Readers
    <3>1. Has(pipe, "DIRECTW") \/ pipe.size - pipe.cnt < PIPE_BUF
      BY <2>1, <2>7 DEF IInv, RoomSelects
    <3>2. pipe.size - pipe.cnt < PIPE_BUF => ~ (pipe.size - pipe.cnt >= PIPE_BUF)
      BY <2>5, Fields, SizeFacts
    <3> QED BY <2>3, <2>4, <2>7, <3>1, <3>2 DEF Ready
  <2> QED BY <2>2, <2>6, <2>7 DEF Threads
<1> QED BY <1>1, Invariance, PTL

-----------------------------------------------------------------------------
(***************************************************************************)
(* The pipe is a stream of bytes.  A step changes the bytes once, where it  *)
(* comes back from a copy; whatever functions it goes through from there to *)
(* the loss of the mutex, the stream stays as it is (Ends).                 *)
(***************************************************************************)

ReadPlaces == {"rdlk", "rdlk2", "piperd", "rdspace", "rdcopy", "rddirect"}
ClosePlaces == {"cllk", "pipecl", "cllk2", "clfree"}

(* Small writes are copied whole, and large ones alone go directly. *)
Promise(p, l, c) ==
  /\ l = "wrcopy" => (c.orig_resid <= PIPE_BUF => c.size = Len(c.uio))
  /\ l \in {"wrcopy", "dwbuild"} => ~ Has(p, "EOF")
  /\ l \in {"dwlk", "pipdww", "dwbuild"} => Len(c.uio) >= PIPE_MINDIRECT

(* Who is inside while the ends are open. *)
StreamInv ==
  /\ \A w \in Writers : pc[w] \in {"idle", "poll"} => call[w] = NoCall
  /\ \A w \in Writers : Promise(pipe, pc[w], call[w])
  /\ "write" \notin open => \A w \in Writers : pc[w] = "idle"
  /\ \A r \in Readers : pc[r] \in ReadPlaces => "read" \in open
  /\ \A r \in Readers : pc[r] \in ClosePlaces => "read" \notin open
  /\ Has(pipe, "EOF") => open # {"read", "write"}

(* The pipe as the functions hand it on: pipe_busy may be any number. *)
Shapes ==
  [state : SUBSET Flags, busy : Int, present : {"ACTIVE", "FINALIZED"},
   size : {0} \cup PipeSizes, in : Nat, out : Nat, cnt : Nat,
   buffer : [0..(BIG_PIPE_SIZE - 1) -> Byte \cup {None}],
   ms : Seq(Byte), pos : Nat, mapcnt : Nat,
   asleep : SUBSET Threads, sel : SUBSET Threads]

(* The same bytes in the same places. *)
Like(p, q) ==
  /\ p \in Shapes /\ q \in Shapes
  /\ q.size = p.size /\ q.out = p.out /\ q.cnt = p.cnt /\ q.buffer = p.buffer
  /\ q.ms = p.ms /\ q.pos = p.pos /\ q.mapcnt = p.mapcnt
  /\ Has(q, "EOF") <=> Has(p, "EOF")
  /\ Has(q, "DIRECTW") <=> Has(p, "DIRECTW")

LEMMA PipesAreShapes == ASSUME NEW p \in Pipes PROVE p \in Shapes
BY DEF Pipes, Shapes

LEMMA LikeTrans ==
  ASSUME NEW p, NEW q, NEW r, Like(p, q), Like(q, r) PROVE Like(p, r)
BY DEF Like

LEMMA LikeSelf == ASSUME NEW p \in Shapes PROVE Like(p, p)
BY DEF Like

LEMMA LikeSet ==
  ASSUME NEW p \in Shapes,
         NEW F \in SUBSET {"WANTR", "WANTW", "WANT", "LWANT", "SEL", "LOCKFL"}
  PROVE  Like(p, Set(p, F)) /\ Like(p, Clear(p, F))
<1>1. Like(p, Set(p, F))
  BY DEF Set, Like, Has, Shapes, Flags
<1>2. Like(p, Clear(p, F))
  BY DEF Clear, Like, Has, Shapes, Flags
<1> QED BY <1>1, <1>2

LEMMA LikeBusy ==
  ASSUME NEW p \in Shapes, NEW n \in Int
  PROVE  Like(p, [p EXCEPT !.busy = n])
BY DEF Like, Has, Shapes

LEMMA LikeInOut ==
  ASSUME NEW p \in Shapes
  PROVE  Like(p, [p EXCEPT !.busy = @ - 1]) /\ Like(p, [p EXCEPT !.busy = @ + 1])
<1>1. p.busy - 1 \in Int /\ p.busy + 1 \in Int
  BY DEF Shapes
<1> QED BY <1>1, LikeBusy

LEMMA LikeAsleep ==
  ASSUME NEW p \in Shapes, NEW t \in Threads
  PROVE  Like(p, [p EXCEPT !.asleep = @ \cup {t}])
BY DEF Like, Has, Shapes

LEMMA LikeWakeup == ASSUME NEW p \in Shapes PROVE Like(p, wakeup(p))
BY DEF Like, Has, Shapes, wakeup

LEMMA LikeWakeIf ==
  ASSUME NEW p \in Shapes, NEW f \in {"WANTR", "WANTW", "WANT", "LWANT"}
  PROVE  Like(p, WakeIf(p, f))
<1>1. Like(p, Clear(p, {f})) /\ Clear(p, {f}) \in Shapes
  BY LikeSet DEF Like
<1>2. Like(p, wakeup(Clear(p, {f})))
  BY <1>1, LikeWakeup, LikeTrans
<1> QED BY <1>2, LikeSelf DEF WakeIf

LEMMA LikeSel == ASSUME NEW p \in Shapes PROVE Like(p, pipeselwakeup(p))
<1> DEFINE q == [p EXCEPT !.sel = {}]
<1>1. Like(p, q) /\ q \in Shapes
  BY DEF Like, Has, Shapes
<1> HIDE DEF q
<1>2. Like(p, Clear(q, {"SEL"}))
  BY <1>1, LikeSet, LikeTrans
<1> QED BY <1>2, LikeSelf DEF pipeselwakeup, q

LEMMA LikeUnlock == ASSUME NEW p \in Shapes PROVE Like(p, pipeunlock(p))
<1>1. Like(p, Clear(p, {"LOCKFL"})) /\ Clear(p, {"LOCKFL"}) \in Shapes
  BY LikeSet DEF Like
<1> QED BY <1>1, LikeWakeIf, LikeTrans DEF pipeunlock

LEMMA LikeBytes ==
  ASSUME NEW p, NEW q, Like(p, q), NEW b PROVE Bytes(q, b) = Bytes(p, b)
<1>1. Ring(q) = Ring(p)
  BY DEF Ring, Like
<1>2. Mapped(q) = Mapped(p)
  BY DEF Mapped, Like
<1> QED BY <1>1, <1>2 DEF Bytes, Like

(* Some other writer copies its direct write into the ring. *)
Cloned(t) == \E u \in Writers \ {t} : pc[u] = "dwclone"

(* The step leaves the bytes of p, and c as the rest of the call of t,     *)
(* which is now at one of L or over.                                       *)
Ends(t, p, c, L) ==
  \E l \in L \cup {"idle"} : \E d :
    /\ pc' = [pc EXCEPT ![t] = l]
    /\ call' = [call EXCEPT ![t] = d]
    /\ Has(pipe', "EOF") <=> Has(p, "EOF")
    /\ \/ Has(p, "EOF") /\ "read" \notin open'
       \/ Bytes(pipe', l = "dwclone" \/ Cloned(t)) = Bytes(p, Cloned(t))
    /\ \/ l = "idle" /\ d = NoCall
       \/ /\ l \notin {"idle", "poll"}
          /\ d.uio = c.uio /\ d.orig_resid = c.orig_resid
    /\ Promise(pipe', l, d)

LEMMA EndsAt ==
  ASSUME NEW t, NEW p, NEW q, Like(p, q), NEW c, NEW d, NEW L, NEW l \in L,
         l \notin {"idle", "poll", "dwclone"}, Goto(t, l, q, d),
         d.uio = c.uio, d.orig_resid = c.orig_resid, Promise(q, l, d)
  PROVE  Ends(t, p, c, L)
<1>1. pipe' = q /\ pc' = [pc EXCEPT ![t] = l] /\ call' = [call EXCEPT ![t] = d]
  BY DEF Goto
<1>2. Bytes(q, Cloned(t)) = Bytes(p, Cloned(t)) /\ (Has(q, "EOF") <=> Has(p, "EOF"))
  BY LikeBytes DEF Like
<1>3. (l = "dwclone" \/ Cloned(t)) = Cloned(t)
  BY DEF Cloned
<1> QED BY <1>1, <1>2, <1>3 DEF Ends

LEMMA EndsIdle ==
  ASSUME NEW t, NEW p, NEW q, Like(p, q), NEW c, NEW L, Return(t, q)
  PROVE  Ends(t, p, c, L)
<1>1. pipe' = q /\ pc' = [pc EXCEPT ![t] = "idle"] /\ call' = [call EXCEPT ![t] = NoCall]
  BY DEF Return, Goto
<1>2. Bytes(q, Cloned(t)) = Bytes(p, Cloned(t)) /\ (Has(q, "EOF") <=> Has(p, "EOF"))
  BY LikeBytes DEF Like
<1>3. ("idle" = "dwclone" \/ Cloned(t)) = Cloned(t)
  BY DEF Cloned
<1>4. Promise(q, "idle", NoCall)
  BY DEF Promise
<1> QED BY <1>1, <1>2, <1>3, <1>4 DEF Ends

LEMMA EndsAsleep ==
  ASSUME NEW t \in Threads, NEW p, NEW q, Like(p, q), NEW c, NEW d, NEW L, NEW l \in L,
         l \notin {"idle", "poll", "dwclone"}, msleep(t, l, q, d),
         d.uio = c.uio, d.orig_resid = c.orig_resid, Promise(q, l, d)
  PROVE  Ends(t, p, c, L)
<1> DEFINE x == [q EXCEPT !.asleep = @ \cup {t}]
<1>1. Like(q, x)
  BY LikeAsleep DEF Like
<1>2. Like(p, x) /\ Promise(x, l, d)
  BY <1>1, LikeTrans DEF Promise, Like
<1>3. Goto(t, l, x, d)
  BY DEF msleep
<1> HIDE DEF x
<1> QED BY <1>2, <1>3, EndsAt

LEMMA EndsLike ==
  ASSUME NEW t, NEW p, NEW q, Like(p, q), NEW c, NEW L, Ends(t, q, c, L)
  PROVE  Ends(t, p, c, L)
<1>1. Bytes(q, Cloned(t)) = Bytes(p, Cloned(t)) /\ (Has(q, "EOF") <=> Has(p, "EOF"))
  BY LikeBytes DEF Like
<1> QED BY <1>1 DEF Ends

LEMMA EndsLockWait ==
  ASSUME NEW t \in Threads, NEW p \in Shapes, NEW c, NEW L, NEW l \in L,
         l \in {"rdlk", "rdlk2", "wrlk", "wrlk2", "wrlk3", "dwlk", "dwlk2", "cllk", "cllk2"},
         l = "dwlk" => Len(c.uio) >= PIPE_MINDIRECT, LockWait(t, l, p, c)
  PROVE  Ends(t, p, c, L)
<1>1. Like(p, Set(p, {"LWANT"}))
  BY LikeSet
<1>2. Promise(Set(p, {"LWANT"}), l, c)
  BY DEF Promise
<1> QED BY <1>1, <1>2, EndsAsleep DEF LockWait

-----------------------------------------------------------------------------
(* Readers. *)

LEMMA ReadExitEnds ==
  ASSUME NEW r \in Threads, NEW p \in Shapes, NEW c, ReadExit(r, p)
  PROVE  Ends(r, p, c, ReadPlaces)
<1> DEFINE a == [p EXCEPT !.busy = @ - 1]
           q == IF a.busy = 0 /\ Has(a, "WANT") THEN wakeup(Clear(a, {"WANT", "WANTW"}))
                ELSE IF a.cnt < MINPIPESIZE THEN WakeIf(a, "WANTW")
                ELSE a
           x == IF q.size - q.cnt >= PIPE_BUF THEN pipeselwakeup(q) ELSE q
<1>1. Return(r, x)
  BY DEF ReadExit
<1>2. Like(p, a) /\ a \in Shapes
  BY LikeInOut DEF Like
<1> HIDE DEF a
<1>3. Like(a, q) /\ q \in Shapes
  <2>1. Like(a, Clear(a, {"WANT", "WANTW"})) /\ Clear(a, {"WANT", "WANTW"}) \in Shapes
    BY <1>2, LikeSet DEF Like
  <2>2. Like(a, wakeup(Clear(a, {"WANT", "WANTW"})))
    BY <2>1, LikeWakeup, LikeTrans
  <2>3. Like(a, WakeIf(a, "WANTW")) /\ Like(a, a)
    BY <1>2, LikeWakeIf, LikeSelf
  <2> QED BY <2>2, <2>3 DEF Like
<1> HIDE DEF q
<1>4. Like(q, x)
  BY <1>3, LikeSel, LikeSelf
<1> HIDE DEF x
<1>5. Like(p, x)
  BY <1>2, <1>3, <1>4, LikeTrans
<1> QED BY <1>1, <1>5, EndsIdle

LEMMA ReadWaitEnds ==
  ASSUME NEW r \in Threads, NEW p \in Shapes, NEW c, ReadWait(r, p, c)
  PROVE  Ends(r, p, c, ReadPlaces)
<1> DEFINE q == WakeIf(p, "WANTW")
           u == pipeunlock(q)
<1>1. Like(p, q) /\ q \in Shapes
  BY LikeWakeIf DEF Like
<1>2. ReadExit(r, u) \/ msleep(r, "piperd", Set(u, {"WANTR"}), c)
  BY DEF ReadWait
<1> HIDE DEF q
<1>3. Like(p, u) /\ u \in Shapes
  BY <1>1, LikeUnlock, LikeTrans DEF Like
<1> HIDE DEF u
<1>4. CASE ReadExit(r, u)
  BY <1>3, <1>4, ReadExitEnds, EndsLike
<1>5. CASE msleep(r, "piperd", Set(u, {"WANTR"}), c)
  <2>1. Like(p, Set(u, {"WANTR"}))
    BY <1>3, LikeSet, LikeTrans
  <2>2. Promise(Set(u, {"WANTR"}), "piperd", c) /\ "piperd" \in ReadPlaces
    BY DEF Promise, ReadPlaces
  <2> QED BY <1>5, <2>1, <2>2, EndsAsleep
<1> QED BY <1>2, <1>4, <1>5

LEMMA UnlockReadExitEnds ==
  ASSUME NEW r \in Threads, NEW p \in Shapes, NEW c, ReadExit(r, pipeunlock(p))
  PROVE  Ends(r, p, c, ReadPlaces)
<1>1. Like(p, pipeunlock(p)) /\ pipeunlock(p) \in Shapes
  BY LikeUnlock DEF Like
<1> QED BY <1>1, ReadExitEnds, EndsLike

LEMMA ReadLoopEnds ==
  ASSUME NEW r \in Threads, NEW p \in Shapes, NEW c \in CallRecs, ReadLoop(r, p, c)
  PROVE  Ends(r, p, c, ReadPlaces)
<1>1. \A n : /\ [c EXCEPT !.size = n].uio = c.uio
             /\ [c EXCEPT !.size = n].orig_resid = c.orig_resid
  BY DEF CallRecs
<1>2. \A d : Promise(p, "rdcopy", d) /\ Promise(p, "rddirect", d)
  BY DEF Promise
<1>3. Like(p, p) /\ {"rdcopy", "rddirect"} \subseteq ReadPlaces
  BY LikeSelf DEF ReadPlaces
<1>4. CASE ReadExit(r, pipeunlock(p))
  BY <1>4, UnlockReadExitEnds
<1>5. CASE ReadWait(r, p, c)
  BY <1>5, ReadWaitEnds
<1>6. ASSUME NEW n, Goto(r, "rdcopy", p, [c EXCEPT !.size = n])
      PROVE  Ends(r, p, c, ReadPlaces)
  <2> DEFINE d == [c EXCEPT !.size = n]
  <2>1. d.uio = c.uio /\ d.orig_resid = c.orig_resid /\ Goto(r, "rdcopy", p, d)
    BY <1>1, <1>6
  <2> HIDE DEF d
  <2> QED BY <1>2, <1>3, <2>1, EndsAt
<1>7. ASSUME NEW n, Goto(r, "rddirect", p, [c EXCEPT !.size = n])
      PROVE  Ends(r, p, c, ReadPlaces)
  <2> DEFINE d == [c EXCEPT !.size = n]
  <2>1. d.uio = c.uio /\ d.orig_resid = c.orig_resid /\ Goto(r, "rddirect", p, d)
    BY <1>1, <1>7
  <2> HIDE DEF d
  <2> QED BY <1>2, <1>3, <2>1, EndsAt
<1> QED BY <1>4, <1>5, <1>6, <1>7 DEF ReadLoop

LEMMA ReadLockedEnds ==
  ASSUME NEW r \in Threads, NEW p \in Shapes, NEW c \in CallRecs, ReadLocked(r, p, c)
  PROVE  Ends(r, p, c, ReadPlaces)
<1>1. CASE ReadLoop(r, p, c)
  BY <1>1, ReadLoopEnds
<1>2. CASE Goto(r, "rdspace", p, c)
  <2>1. Promise(p, "rdspace", c) /\ "rdspace" \in ReadPlaces
    BY DEF Promise, ReadPlaces
  <2> QED BY <1>2, <2>1, LikeSelf, EndsAt
<1> QED BY <1>1, <1>2 DEF ReadLocked

LEMMA ReadStartEnds ==
  ASSUME NEW r \in Threads, NEW p \in Shapes, NEW c \in CallRecs, ReadStart(r, p, c)
  PROVE  Ends(r, p, c, ReadPlaces)
<1>1. CASE LockWait(r, "rdlk", p, c)
  BY <1>1, EndsLockWait DEF ReadPlaces
<1>2. CASE ReadLocked(r, pipelock(p), c)
  <2>1. Like(p, pipelock(p)) /\ pipelock(p) \in Shapes
    BY LikeSet DEF pipelock, Like
  <2> QED BY <1>2, <2>1, ReadLockedEnds, EndsLike
<1> QED BY <1>1, <1>2 DEF ReadStart

LEMMA ReadAgainEnds ==
  ASSUME NEW r \in Threads, NEW p \in Shapes, NEW c \in CallRecs, ReadAgain(r, p, c)
  PROVE  Ends(r, p, c, ReadPlaces)
<1>1. CASE LockWait(r, "rdlk2", p, c)
  BY <1>1, EndsLockWait DEF ReadPlaces
<1>2. CASE ReadLoop(r, pipelock(p), c)
  <2>1. Like(p, pipelock(p)) /\ pipelock(p) \in Shapes
    BY LikeSet DEF pipelock, Like
  <2> QED BY <1>2, <2>1, ReadLoopEnds, EndsLike
<1> QED BY <1>1, <1>2 DEF ReadAgain

-----------------------------------------------------------------------------
(* Writers. *)

LEMMA WriteLastEnds ==
  ASSUME NEW w \in Threads, NEW p \in Shapes, NEW c, WriteLast(w, p, c)
  PROVE  Ends(w, p, c, WriterLocations)
<1> DEFINE a == [p EXCEPT !.busy = @ - 1]
           q == IF a.busy = 0 /\ Has(a, "WANT") THEN wakeup(Clear(a, {"WANT", "WANTR"}))
                ELSE IF a.cnt > 0 THEN WakeIf(a, "WANTR")
                ELSE a
           x == IF q.cnt > 0 THEN pipeselwakeup(q) ELSE q
<1>1. Return(w, pipeunlock(x))
  BY DEF WriteLast
<1>2. Like(p, a) /\ a \in Shapes
  BY LikeInOut DEF Like
<1> HIDE DEF a
<1>3. Like(a, q) /\ q \in Shapes
  <2>1. Like(a, Clear(a, {"WANT", "WANTR"})) /\ Clear(a, {"WANT", "WANTR"}) \in Shapes
    BY <1>2, LikeSet DEF Like
  <2>2. Like(a, wakeup(Clear(a, {"WANT", "WANTR"})))
    BY <2>1, LikeWakeup, LikeTrans
  <2>3. Like(a, WakeIf(a, "WANTR")) /\ Like(a, a)
    BY <1>2, LikeWakeIf, LikeSelf
  <2> QED BY <2>2, <2>3 DEF Like
<1> HIDE DEF q
<1>4. Like(q, x) /\ x \in Shapes
  BY <1>3, LikeSel, LikeSelf DEF Like
<1> HIDE DEF x
<1>5. Like(p, pipeunlock(x))
  BY <1>2, <1>3, <1>4, LikeUnlock, LikeTrans
<1> QED BY <1>1, <1>5, EndsIdle

LEMMA WriteEndEnds ==
  ASSUME NEW w \in Threads, NEW p \in Shapes, NEW c, WriteEnd(w, p, c)
  PROVE  Ends(w, p, c, WriterLocations)
<1>1. CASE LockWait(w, "wrlk3", p, c)
  BY <1>1, EndsLockWait DEF WriterLocations
<1>2. CASE WriteLast(w, pipelock(p), c)
  <2>1. Like(p, pipelock(p)) /\ pipelock(p) \in Shapes
    BY LikeSet DEF pipelock, Like
  <2> QED BY <1>2, <2>1, WriteLastEnds, EndsLike
<1> QED BY <1>1, <1>2 DEF WriteEnd

LEMMA UnlockWriteEndEnds ==
  ASSUME NEW w \in Threads, NEW p \in Shapes, NEW c,
         WriteEnd(w, pipeunlock(p), c) \/ error1(w, p, c) \/ error1(w, pipeunlock(p), c)
  PROVE  Ends(w, p, c, WriterLocations)
<1> DEFINE q == pipeunlock(p)
<1>1. Like(p, q) /\ q \in Shapes
  BY LikeUnlock DEF Like
<1>2. WriteEnd(w, q, c) \/ WriteEnd(w, wakeup(p), c) \/ WriteEnd(w, wakeup(q), c)
  BY DEF error1
<1> HIDE DEF q
<1>3. /\ Like(p, wakeup(p)) /\ wakeup(p) \in Shapes
      /\ Like(p, wakeup(q)) /\ wakeup(q) \in Shapes
  BY <1>1, LikeWakeup, LikeTrans DEF Like
<1> QED BY <1>1, <1>2, <1>3, WriteEndEnds, EndsLike

LEMMA WriteWaitEnds ==
  ASSUME NEW w \in Threads, NEW p \in Shapes, NEW c, NEW l \in WriteWaits,
         l = "pipdww" => Len(c.uio) >= PIPE_MINDIRECT, WriteWait(w, l, p, c)
  PROVE  Ends(w, p, c, WriterLocations)
<1> DEFINE a == WakeIf(p, "WANTR")
           b == pipeselwakeup(a)
           d == Set(b, {"WANTW"})
           e == pipeunlock(d)
<1>1. msleep(w, l, e, c)
  BY DEF WriteWait
<1>2. Like(p, a) /\ a \in Shapes
  BY LikeWakeIf DEF Like
<1> HIDE DEF a
<1>3. Like(p, b) /\ b \in Shapes
  BY <1>2, LikeSel, LikeTrans DEF Like
<1> HIDE DEF b
<1>4. Like(p, d) /\ d \in Shapes
  BY <1>3, LikeSet, LikeTrans DEF Like
<1> HIDE DEF d
<1>5. Like(p, e)
  BY <1>4, LikeUnlock, LikeTrans
<1>6. Promise(e, l, c) /\ l \in WriterLocations /\ l \notin {"idle", "poll", "dwclone"}
  BY DEF Promise, WriteWaits, WriterLocations
<1> HIDE DEF e
<1> QED BY <1>1, <1>5, <1>6, EndsAsleep

(* What is in the map matters only while it is read. *)
LEMMA EmptyBytes ==
  ASSUME NEW p \in Shapes
  PROVE  /\ p.cnt = 0 => Ring(p) = <<>>
         /\ p.mapcnt = 0 => Mapped(p) = <<>>
         /\ p.cnt = 0 /\ p.pos + p.mapcnt <= Len(p.ms) => Ring(p) \o Mapped(p) = Mapped(p)
<1>1. p.cnt \in Nat /\ p.mapcnt \in Nat /\ p.pos \in Nat /\ p.ms \in Seq(Byte)
  BY DEF Shapes
<1>2. p.cnt = 0 => Ring(p) = <<>>
  BY DEF Ring, RingOf
<1>3. p.mapcnt = 0 => Mapped(p) = <<>>
  <2>1. p.mapcnt = 0 => 1..(p.pos + p.mapcnt - (p.pos + 1) + 1) = {}
    BY <1>1
  <2> QED BY <1>1, <2>1 DEF Mapped
<1>4. p.pos + p.mapcnt <= Len(p.ms) => Mapped(p) \in Seq(Byte)
  BY <1>1, MappedOK
<1> QED BY <1>2, <1>3, <1>4, ConcatEmptySeq

LEMMA EndsSame ==
  ASSUME NEW t, NEW p, NEW q, NEW c, NEW L, Ends(t, q, c, L),
         Has(q, "EOF") <=> Has(p, "EOF"),
         Bytes(q, Cloned(t)) = Bytes(p, Cloned(t)) \/ (Has(p, "EOF") /\ "read" \notin open')
  PROVE  Ends(t, p, c, L)
BY DEF Ends

LEMMA DirectLockedEnds ==
  ASSUME NEW w \in Threads, NEW p \in Shapes, NEW c, ~ Cloned(w),
         Len(c.uio) >= PIPE_MINDIRECT, DirectLocked(w, p, c)
  PROVE  Ends(w, p, c, WriterLocations)
<1> DEFINE q == [p EXCEPT !.mapcnt = 0]
           d == Set(q, {"DIRECTW"})
<1>1. CASE error1(w, pipeunlock(p), c)
  BY <1>1, UnlockWriteEndEnds
<1>2. CASE WriteWait(w, "pipdww", p, c)
  BY <1>2, WriteWaitEnds DEF WriteWaits
<1>3. /\ q \in Shapes /\ q.cnt = p.cnt /\ q.size = p.size /\ q.out = p.out
      /\ q.buffer = p.buffer /\ q.state = p.state /\ q.mapcnt = 0
  BY DEF Shapes
<1>4. Ring(q) = Ring(p)
  BY <1>3 DEF Ring
<1> HIDE DEF q
<1>5. CASE ~ Has(p, "DIRECTW") /\ WriteWait(w, "pipdww", q, c)
  <2>1. Ends(w, q, c, WriterLocations)
    BY <1>3, <1>5, WriteWaitEnds DEF WriteWaits
  <2>2. Bytes(q, Cloned(w)) = Bytes(p, Cloned(w)) /\ (Has(q, "EOF") <=> Has(p, "EOF"))
    BY <1>3, <1>4, <1>5 DEF Bytes, Has
  <2> QED BY <2>1, <2>2, EndsSame
<1>6. CASE /\ ~ Has(p, "EOF") /\ ~ Has(p, "DIRECTW") /\ ~ (p.cnt > 0)
           /\ Goto(w, "dwbuild", d, c)
  <2>1. /\ d \in Shapes /\ d.cnt = p.cnt /\ d.mapcnt = 0 /\ Has(d, "DIRECTW")
        /\ Has(d, "EOF") <=> Has(p, "EOF")
    BY <1>3 DEF Shapes, Set, Has, Flags
  <2> HIDE DEF d
  <2>2. p.cnt = 0
    BY <1>6 DEF Shapes
  <2>3. Ring(p) = <<>> /\ Ring(d) = <<>> /\ Mapped(d) = <<>>
    BY <2>1, <2>2, EmptyBytes
  <2>4. Bytes(d, FALSE) = <<>> /\ Bytes(p, FALSE) = <<>>
    BY <1>6, <2>1, <2>3 DEF Bytes
  <2>5. Like(d, d) /\ Promise(d, "dwbuild", c)
    BY <1>6, <2>1, LikeSelf DEF Promise
  <2>6. Ends(w, d, c, WriterLocations)
    BY <1>6, <2>5, EndsAt DEF WriterLocations
  <2>7. Cloned(w) = FALSE
    BY DEF Cloned
  <2> QED BY <2>1, <2>4, <2>6, <2>7, EndsSame
<1> QED BY <1>1, <1>2, <1>5, <1>6 DEF DirectLocked, q, d

LEMMA pipe_direct_writeEnds ==
  ASSUME NEW w \in Threads, NEW p \in Shapes, NEW c, ~ Cloned(w) \/ Has(p, "LOCKFL"),
         Len(c.uio) >= PIPE_MINDIRECT, pipe_direct_write(w, p, c)
  PROVE  Ends(w, p, c, WriterLocations)
<1>1. CASE LockWait(w, "dwlk", p, c)
  BY <1>1, EndsLockWait DEF WriterLocations
<1>2. CASE ~ Has(p, "LOCKFL") /\ DirectLocked(w, pipelock(p), c)
  <2>1. Like(p, pipelock(p)) /\ pipelock(p) \in Shapes
    BY LikeSet DEF pipelock, Like
  <2> QED BY <1>2, <2>1, DirectLockedEnds, EndsLike
<1> QED BY <1>1, <1>2 DEF pipe_direct_write

LEMMA ShapeSize ==
  ASSUME NEW p \in Shapes PROVE p.size \in Nat /\ p.cnt \in Nat
<1>1. p.size \in {0} \cup PipeSizes /\ p.cnt \in Nat
  BY DEF Shapes
<1>2. CASE p.size \in PipeSizes
  BY <1>1, <1>2, SizeFacts
<1>3. CASE p.size = 0
  BY <1>1, <1>3
<1> QED BY <1>1, <1>2, <1>3

LEMMA WriteBodyEnds ==
  ASSUME NEW w \in Threads, NEW p \in Shapes, NEW c \in CallRecs, ~ Cloned(w),
         WriteBody(w, p, c)
  PROVE  Ends(w, p, c, WriterLocations)
<1> DEFINE room == p.size - p.cnt
           space == IF room < Len(c.uio) /\ c.orig_resid <= PIPE_BUF THEN 0 ELSE room
           d == [c EXCEPT !.size = Min({space, Len(c.uio)})]
<1>1. CASE WriteEnd(w, pipeunlock(p), c)
  BY <1>1, UnlockWriteEndEnds
<1>2. CASE Len(c.uio) >= PIPE_MINDIRECT /\ pipe_direct_write(w, pipeunlock(p), c)
  <2>1. Like(p, pipeunlock(p)) /\ pipeunlock(p) \in Shapes
    BY LikeUnlock DEF Like
  <2> QED BY <1>2, <2>1, pipe_direct_writeEnds, EndsLike
<1>3. CASE WriteWait(w, "pipbww", p, c) \/ WriteWait(w, "pipewr", p, c)
  BY <1>3, WriteWaitEnds DEF WriteWaits
<1>4. CASE ~ Has(p, "EOF") /\ space > 0 /\ Goto(w, "wrcopy", p, d)
  <2>1. p.size \in Nat /\ p.cnt \in Nat /\ c.orig_resid \in Nat /\ c.uio \in Seq(Byte)
    BY ShapeSize DEF CallRecs
  <2>2. /\ d.uio = c.uio /\ d.orig_resid = c.orig_resid
        /\ d.size = Min({space, Len(c.uio)})
    BY DEF CallRecs
  <2>3. Len(c.uio) \in Nat
    BY <2>1, LenProperties
  <2>4. space \in Nat
    BY <1>4, <2>1
  <2>5. ASSUME c.orig_resid <= PIPE_BUF PROVE d.size = Len(d.uio)
    <3>1. space >= Len(c.uio)
      BY <1>4, <2>1, <2>3, <2>5
    <3> HIDE DEF space, d
    <3>2. Min({space, Len(c.uio)}) \in {space, Len(c.uio)} /\ Min({space, Len(c.uio)}) <= Len(c.uio)
          /\ Min({space, Len(c.uio)}) <= space
      BY <2>3, <2>4, Min2
    <3> QED BY <2>2, <2>3, <2>4, <3>1, <3>2
  <2> HIDE DEF d
  <2>6. Promise(p, "wrcopy", d)
    BY <1>4, <2>2, <2>5 DEF Promise
  <2> QED BY <1>4, <2>2, <2>6, LikeSelf, EndsAt DEF WriterLocations
<1>5. CASE WriteEnd(w, pipeunlock(WakeIf(p, "WANTR")), c)
  <2>1. Like(p, WakeIf(p, "WANTR")) /\ WakeIf(p, "WANTR") \in Shapes
    BY LikeWakeIf DEF Like
  <2> QED BY <1>5, <2>1, UnlockWriteEndEnds, EndsLike
<1> QED BY <1>1, <1>2, <1>3, <1>4, <1>5 DEF WriteBody

LEMMA WriteLoopEnds ==
  ASSUME NEW w \in Threads, NEW p \in Shapes, NEW c \in CallRecs,
         ~ Cloned(w) \/ Has(p, "LOCKFL"), WriteLoop(w, p, c)
  PROVE  Ends(w, p, c, WriterLocations)
<1>1. CASE WriteEnd(w, p, c)
  BY <1>1, WriteEndEnds
<1>2. CASE LockWait(w, "wrlk2", p, c)
  BY <1>2, EndsLockWait DEF WriterLocations
<1>3. CASE ~ Has(p, "LOCKFL") /\ WriteBody(w, pipelock(p), c)
  <2>1. Like(p, pipelock(p)) /\ pipelock(p) \in Shapes
    BY LikeSet DEF pipelock, Like
  <2> QED BY <1>3, <2>1, WriteBodyEnds, EndsLike
<1> QED BY <1>1, <1>2, <1>3 DEF WriteLoop

LEMMA UnlockWriteLoopEnds ==
  ASSUME NEW w \in Threads, NEW p \in Shapes, NEW c \in CallRecs, ~ Cloned(w),
         WriteLoop(w, pipeunlock(p), c)
  PROVE  Ends(w, p, c, WriterLocations)
<1>1. Like(p, pipeunlock(p)) /\ pipeunlock(p) \in Shapes
  BY LikeUnlock DEF Like
<1> QED BY <1>1, WriteLoopEnds, EndsLike

LEMMA WriteSizedEnds ==
  ASSUME NEW w \in Threads, NEW p \in Shapes, NEW c \in CallRecs, ~ Cloned(w),
         WriteSized(w, p, c)
  PROVE  Ends(w, p, c, WriterLocations)
<1> DEFINE q == [p EXCEPT !.busy = @ - 1]
<1>1. CASE Return(w, pipeunlock(q))
  <2>1. Like(p, q) /\ q \in Shapes
    BY LikeInOut DEF Like
  <2> HIDE DEF q
  <2>2. Like(p, pipeunlock(q))
    BY <2>1, LikeUnlock, LikeTrans
  <2> QED BY <1>1, <2>2, EndsIdle
<1>2. CASE WriteLoop(w, pipeunlock(p), c)
  BY <1>2, UnlockWriteLoopEnds
<1> QED BY <1>1, <1>2 DEF WriteSized

LEMMA WriteLockedEnds ==
  ASSUME NEW w \in Threads, NEW p \in Shapes, NEW c \in CallRecs, ~ Cloned(w),
         WriteLocked(w, p, c)
  PROVE  Ends(w, p, c, WriterLocations)
<1> DEFINE q == [p EXCEPT !.busy = @ + 1]
<1>1. CASE Return(w, pipeunlock(p))
  BY <1>1, LikeUnlock, EndsIdle
<1>2. Like(p, q) /\ q \in Shapes
  BY LikeInOut DEF Like
<1> HIDE DEF q
<1>3. ASSUME NEW n, Goto(w, "wrspace", q, [c EXCEPT !.size = n])
      PROVE  Ends(w, p, c, WriterLocations)
  <2> DEFINE d == [c EXCEPT !.size = n]
  <2>1. d.uio = c.uio /\ d.orig_resid = c.orig_resid /\ Goto(w, "wrspace", q, d)
    BY <1>3 DEF CallRecs
  <2> HIDE DEF d
  <2>2. Promise(q, "wrspace", d) /\ "wrspace" \in WriterLocations
    BY DEF Promise, WriterLocations
  <2> QED BY <1>2, <2>1, <2>2, EndsAt
<1>4. CASE WriteSized(w, q, c)
  BY <1>2, <1>4, WriteSizedEnds, EndsLike
<1> QED BY <1>1, <1>3, <1>4 DEF WriteLocked, q

LEMMA WriteStartEnds ==
  ASSUME NEW w \in Threads, NEW p \in Shapes, NEW c \in CallRecs,
         ~ Cloned(w) \/ Has(p, "LOCKFL"), WriteStart(w, p, c)
  PROVE  Ends(w, p, c, WriterLocations)
<1>1. CASE LockWait(w, "wrlk", p, c)
  BY <1>1, EndsLockWait DEF WriterLocations
<1>2. CASE ~ Has(p, "LOCKFL") /\ WriteLocked(w, pipelock(p), c)
  <2>1. Like(p, pipelock(p)) /\ pipelock(p) \in Shapes
    BY LikeSet DEF pipelock, Like
  <2> QED BY <1>2, <2>1, WriteLockedEnds, EndsLike
<1> QED BY <1>1, <1>2 DEF WriteStart

LEMMA UnmapSame ==
  ASSUME NEW p \in Shapes
  PROVE  /\ Unmap(p) \in Shapes
         /\ Has(Unmap(p), "EOF") <=> Has(p, "EOF")
         /\ ~ Has(p, "DIRECTW") => Bytes(Unmap(p), FALSE) = Bytes(p, FALSE)
<1> DEFINE q == Unmap(p)
<1>1. /\ q \in Shapes /\ q.cnt = p.cnt /\ q.size = p.size /\ q.out = p.out
      /\ q.buffer = p.buffer /\ q.state = p.state
  <2>1. <<>> \in Seq(Byte)
    OBVIOUS
  <2> QED BY <2>1 DEF Unmap, Shapes
<1> HIDE DEF q
<1>2. Ring(q) = Ring(p)
  BY <1>1 DEF Ring
<1> QED BY <1>1, <1>2 DEF Bytes, Has, q

LEMMA DirectOverEnds ==
  ASSUME NEW w \in Threads, NEW p, PipeOK(p), NEW c \in CallRecs, ~ Cloned(w),
         DirectOver(w, p, c)
  PROVE  Ends(w, p, c, WriterLocations)
<1>0. p \in Shapes /\ Cloned(w) = FALSE
  BY PipesAreShapes DEF PipeOK, Cloned
<1>1. CASE Has(p, "DIRECTW")
  <2> DEFINE a == [p EXCEPT !.in = p.mapcnt, !.out = 0, !.cnt = p.mapcnt]
             q == Clear(a, {"DIRECTW"})
  <2>1. Goto(w, "dwclone", q, c)
    BY <1>1 DEF DirectOver
  <2>2. /\ q.ms = p.ms /\ q.pos = p.pos /\ q.mapcnt = p.mapcnt
        /\ ~ Has(q, "DIRECTW") /\ (Has(q, "EOF") <=> Has(p, "EOF"))
    BY <1>0 DEF Clear, Has, Shapes
  <2> HIDE DEF q
  <2>3. Bytes(q, TRUE) = Mapped(p)
    BY <2>2 DEF Bytes, Mapped
  <2>4. Bytes(p, FALSE) = Mapped(p)
    BY <1>0, <1>1, EmptyBytes DEF Bytes, PipeOK
  <2>5. pipe' = q /\ pc' = [pc EXCEPT ![w] = "dwclone"] /\ call' = [call EXCEPT ![w] = c]
    BY <2>1 DEF Goto
  <2>6. Promise(q, "dwclone", c) /\ "dwclone" \in WriterLocations \cup {"idle"}
    BY DEF Promise, WriterLocations
  <2>7. ("dwclone" = "dwclone" \/ Cloned(w)) = TRUE
    BY <1>0
  <2> QED BY <1>0, <2>2, <2>3, <2>4, <2>5, <2>6, <2>7 DEF Ends
<1>2. CASE ~ Has(p, "DIRECTW")
  <2>1. WriteEnd(w, pipeunlock(Unmap(p)), c) \/ WriteLoop(w, pipeunlock(Unmap(p)), c)
    BY <1>2 DEF DirectOver
  <2>2. Ends(w, Unmap(p), c, WriterLocations)
    BY <1>0, <2>1, UnmapSame, UnlockWriteEndEnds, UnlockWriteLoopEnds
  <2> QED BY <1>0, <1>2, <2>2, UnmapSame, EndsSame
<1> QED BY <1>1, <1>2

LEMMA DirectLoopEnds ==
  ASSUME NEW w \in Threads, NEW p, PipeOK(p), NEW c \in CallRecs, ~ Cloned(w),
         Has(p, "EOF") => "read" \notin open', DirectLoop(w, p, c)
  PROVE  Ends(w, p, c, WriterLocations)
<1>0. p \in Shapes
  BY PipesAreShapes DEF PipeOK
<1>1. CASE DirectOver(w, p, c)
  BY <1>1, DirectOverEnds
<1>2. CASE Has(p, "EOF") /\ error1(w, pipeunlock(pipeselwakeup(Unmap(p))), c)
  <2> DEFINE q == pipeselwakeup(Unmap(p))
  <2>1. Like(Unmap(p), q) /\ q \in Shapes
    BY <1>0, UnmapSame, LikeSel DEF Like
  <2>2. Ends(w, q, c, WriterLocations)
    BY <1>2, <2>1, UnlockWriteEndEnds
  <2> HIDE DEF q
  <2>3. Ends(w, Unmap(p), c, WriterLocations)
    BY <2>1, <2>2, EndsLike
  <2> QED BY <1>0, <1>2, <2>3, UnmapSame, EndsSame
<1>3. CASE WriteWait(w, "pipdwt", p, c)
  BY <1>0, <1>3, WriteWaitEnds DEF WriteWaits
<1> QED BY <1>1, <1>2, <1>3 DEF DirectLoop

LEMMA DirectAgainEnds ==
  ASSUME NEW w \in Threads, NEW p, PipeOK(p), NEW c \in CallRecs,
         ~ Cloned(w) \/ Has(p, "LOCKFL"),
         Has(p, "EOF") => "read" \notin open', DirectAgain(w, p, c)
  PROVE  Ends(w, p, c, WriterLocations)
<1>0. p \in Shapes /\ p \in Pipes
  BY PipesAreShapes DEF PipeOK
<1>1. CASE LockWait(w, "dwlk2", p, c)
  BY <1>0, <1>1, EndsLockWait DEF WriterLocations
<1>2. CASE ~ Has(p, "LOCKFL") /\ DirectLoop(w, pipelock(p), c)
  <2>1. Like(p, pipelock(p)) /\ (Has(pipelock(p), "EOF") <=> Has(p, "EOF"))
    BY <1>0, LikeSet DEF pipelock, Like
  <2>2. PipeOK(pipelock(p))
    BY <1>0, SetKeeps, KeepsOK DEF pipelock
  <2> QED BY <1>2, <2>1, <2>2, DirectLoopEnds, EndsLike
<1> QED BY <1>1, <1>2 DEF DirectAgain

-----------------------------------------------------------------------------
(* The ring as a sequence. *)

Cell == Byte \cup {None}
Place0(size, i) == IF i < size THEN i ELSE i - size

IsRing(N, buffer, size, out, cnt) ==
  /\ N \in Nat /\ buffer \in [0..(N - 1) -> Cell]
  /\ size \in Nat /\ out \in Nat /\ cnt \in Nat
  /\ cnt <= size /\ out <= size /\ (out = size => size = 0) /\ size <= N

IsRead(R, buffer, size, out, cnt) ==
  /\ R \in Seq(Cell) /\ Len(R) = cnt
  /\ \A k \in 1..cnt : R[k] = buffer[Place0(size, out + k - 1)]

LEMMA RingFacts ==
  ASSUME NEW N, NEW buffer, NEW size, NEW out, NEW cnt, IsRing(N, buffer, size, out, cnt)
  PROVE  IsRead(RingOf(buffer, size, out, cnt), buffer, size, out, cnt)
<1> DEFINE R == RingOf(buffer, size, out, cnt)
<1> USE DEF IsRing
<1>1. ASSUME NEW k \in 1..cnt
      PROVE  /\ Place0(size, out + k - 1) \in 0..(size - 1)
             /\ R[k] = buffer[Place0(size, out + k - 1)]
             /\ R[k] \in Cell
  <2>1. Place0(size, out + k - 1) \in 0..(size - 1)
    BY DEF Place0
  <2>2. R[k] = buffer[Place0(size, out + k - 1)]
    BY DEF RingOf, Place0
  <2>3. Place0(size, out + k - 1) \in 0..(N - 1)
    BY <2>1
  <2> QED BY <2>1, <2>2, <2>3
<1>2. DOMAIN R = 1..cnt /\ R = [k \in 1..cnt |-> R[k]]
  BY DEF RingOf
<1> HIDE DEF R
<1>3. R \in [1..cnt -> Cell]
  BY <1>1, <1>2
<1>4. R \in Seq(Cell)
  BY <1>3, SeqDef
<1>5. Len(R) = cnt
  BY <1>2, <1>4, LenProperties
<1> QED BY <1>1, <1>4, <1>5 DEF R, IsRead

(* n bytes are read from the front, up to the end of the buffer. *)
Takes(N, buffer, size, out, cnt, n, f, o) ==
  /\ IsRing(N, buffer, size, out, cnt)
  /\ n \in Nat /\ f \in [0..(N - 1) -> Cell] /\ n <= cnt /\ n <= size - out /\ o \in Nat
  /\ cnt # n => o = IF out + n >= size THEN 0 ELSE out + n
  /\ cnt = n => o = 0
  /\ \A i \in 0..(N - 1) : ~ (i >= out /\ i < out + n) => f[i] = buffer[i]

LEMMA RingTake ==
  ASSUME NEW N, NEW buffer, NEW size, NEW out, NEW cnt, NEW n, NEW f, NEW o,
         Takes(N, buffer, size, out, cnt, n, f, o)
  PROVE  RingOf(f, size, o, cnt - n) = SubSeq(RingOf(buffer, size, out, cnt), n + 1, cnt)
<1> DEFINE R == RingOf(buffer, size, out, cnt)
           Q == RingOf(f, size, o, cnt - n)
           S == SubSeq(R, n + 1, cnt)
<1>0. /\ IsRing(N, buffer, size, out, cnt)
      /\ n \in Nat /\ f \in [0..(N - 1) -> Cell] /\ n <= cnt /\ n <= size - out /\ o \in Nat
      /\ cnt # n => o = IF out + n >= size THEN 0 ELSE out + n
      /\ cnt = n => o = 0
      /\ \A i \in 0..(N - 1) : ~ (i >= out /\ i < out + n) => f[i] = buffer[i]
  BY DEF Takes
<1>1. /\ R \in Seq(Cell) /\ Len(R) = cnt
      /\ \A k \in 1..cnt : R[k] = buffer[Place0(size, out + k - 1)]
  <2>1. IsRead(R, buffer, size, out, cnt)
    BY <1>0, RingFacts
  <2> HIDE DEF R
  <2> QED BY <1>0, <2>1 DEF IsRead
<1>2. IsRing(N, f, size, o, cnt - n)
  BY <1>0 DEF IsRing
<1> HIDE DEF R
<1>3. /\ Q \in Seq(Cell) /\ Len(Q) = cnt - n
      /\ \A k \in 1..(cnt - n) : Q[k] = f[Place0(size, o + k - 1)]
  <2> DEFINE m == cnt - n
  <2>1. m \in Nat /\ IsRing(N, f, size, o, m) /\ Q = RingOf(f, size, o, m)
    BY <1>0, <1>2 DEF IsRing
  <2> HIDE DEF m, Q
  <2>2. IsRead(Q, f, size, o, m)
    BY <1>0, <2>1, RingFacts
  <2> QED BY <1>0, <2>2 DEF m, IsRead
<1> HIDE DEF Q
<1> USE DEF IsRing
<1>4. /\ S \in Seq(Cell) /\ Len(S) = cnt - n
      /\ \A k \in 1..(cnt - n) : S[k] = R[n + k]
  <2>1. \A i \in (n + 1)..cnt : R[i] \in Cell
    BY <1>0, <1>1, ElementOfSeq
  <2>2. /\ S \in Seq(Cell) /\ Len(S) = IF n + 1 <= cnt THEN cnt - (n + 1) + 1 ELSE 0
        /\ \A k \in 1..(cnt - (n + 1) + 1) : S[k] = R[(n + 1) + k - 1]
    <3> DEFINE m == n + 1
    <3>1. m \in Int /\ cnt \in Int /\ \A i \in m..cnt : R[i] \in Cell
      BY <1>0, <2>1
    <3> HIDE DEF m
    <3>2. /\ SubSeq(R, m, cnt) \in Seq(Cell)
          /\ Len(SubSeq(R, m, cnt)) = IF m <= cnt THEN cnt - m + 1 ELSE 0
          /\ \A k \in 1..(cnt - m + 1) : SubSeq(R, m, cnt)[k] = R[m + k - 1]
      BY <3>1, SubSeqProperties
    <3> QED BY <3>2 DEF m
  <2> HIDE DEF S
  <2>3. cnt - (n + 1) + 1 = cnt - n /\ (IF n + 1 <= cnt THEN cnt - (n + 1) + 1 ELSE 0) = cnt - n
    BY <1>0 DEF IsRing
  <2>4. \A k \in 1..(cnt - n) : (n + 1) + k - 1 = n + k
    BY <1>0 DEF IsRing
  <2> QED BY <1>0, <2>2, <2>3, <2>4
<1> HIDE DEF S
<1>5. ASSUME NEW k \in 1..(cnt - n) PROVE Q[k] = S[k]
  <2> DEFINE i == Place0(size, out + (n + k) - 1)
  <2>1. Place0(size, o + k - 1) = i /\ i \in 0..(N - 1) /\ ~ (i >= out /\ i < out + n)
    BY <1>0 DEF Place0
  <2>2. S[k] = buffer[i]
    <3>1. n + k \in 1..cnt
      BY <1>0 DEF IsRing
    <3> QED BY <1>0, <1>1, <1>4, <3>1
  <2>3. Q[k] = f[i]
    BY <1>0, <1>3, <2>1
  <2> QED BY <1>0, <2>1, <2>2, <2>3
<1>6. Q = S
  BY <1>3, <1>4, <1>5, SeqEqual
<1> QED BY <1>6 DEF Q, S, R

(* s is put behind the rest, around the end if need be. *)
Puts(N, buffer, size, out, cnt, in, g, f, s) ==
  /\ IsRing(N, buffer, size, out, cnt)
  /\ in \in Nat /\ g \in Nat /\ f \in [0..(N - 1) -> Cell] /\ s \in Seq(Cell)
  /\ in <= size /\ (out + cnt = in \/ out + cnt = in + size)
  /\ Len(s) <= size - cnt
  /\ (g = size - in \/ g = Len(s)) /\ g <= size - in /\ g <= Len(s)
  /\ \A i \in 0..(N - 1) :
       f[i] = IF i >= in /\ i < in + g THEN s[i - in + 1]
              ELSE IF i < Len(s) - g THEN s[g + i + 1]
              ELSE buffer[i]

LEMMA RingPut ==
  ASSUME NEW N, NEW buffer, NEW size, NEW out, NEW cnt, NEW in, NEW g, NEW f, NEW s,
         Puts(N, buffer, size, out, cnt, in, g, f, s)
  PROVE  RingOf(f, size, out, cnt + Len(s)) = RingOf(buffer, size, out, cnt) \o s
<1> DEFINE n == Len(s)
           R == RingOf(buffer, size, out, cnt)
           Q == RingOf(f, size, out, cnt + n)
           C == R \o s
<1>a. /\ IsRing(N, buffer, size, out, cnt)
      /\ in \in Nat /\ g \in Nat /\ f \in [0..(N - 1) -> Cell] /\ s \in Seq(Cell)
      /\ in <= size /\ (out + cnt = in \/ out + cnt = in + size)
      /\ Len(s) <= size - cnt
      /\ (g = size - in \/ g = Len(s)) /\ g <= size - in /\ g <= Len(s)
      /\ \A i \in 0..(N - 1) :
           f[i] = IF i >= in /\ i < in + g THEN s[i - in + 1]
                  ELSE IF i < Len(s) - g THEN s[g + i + 1]
                  ELSE buffer[i]
  BY DEF Puts
<1>0. n \in Nat /\ cnt + n \in Nat /\ cnt + n <= size /\ n <= size - cnt /\ g <= n
      /\ (g = size - in \/ g = n)
  BY <1>a, LenProperties DEF IsRing
<1>1. /\ R \in Seq(Cell) /\ Len(R) = cnt
      /\ \A k \in 1..cnt : R[k] = buffer[Place0(size, out + k - 1)]
  <2>1. IsRead(R, buffer, size, out, cnt)
    BY <1>a, RingFacts
  <2> HIDE DEF R
  <2> QED BY <1>a, <2>1 DEF IsRead
<1>f. \A i \in 0..(N - 1) :
           f[i] = IF i >= in /\ i < in + g THEN s[i - in + 1]
                  ELSE IF i < n - g THEN s[g + i + 1]
                  ELSE buffer[i]
  BY <1>a DEF IsRing
<1> HIDE DEF R, n
<1>3. /\ Q \in Seq(Cell) /\ Len(Q) = cnt + n
      /\ \A k \in 1..(cnt + n) : Q[k] = f[Place0(size, out + k - 1)]
  <2> DEFINE m == cnt + n
  <2>1. m \in Nat /\ IsRing(N, f, size, out, m) /\ Q = RingOf(f, size, out, m)
    BY <1>a, <1>0 DEF IsRing
  <2> HIDE DEF m, Q
  <2>2. IsRead(Q, f, size, out, m)
    BY <1>a, <2>1, RingFacts
  <2> QED BY <1>a, <2>2 DEF m, IsRead
<1> HIDE DEF Q
<1>4. /\ C \in Seq(Cell) /\ Len(C) = cnt + n
      /\ \A k \in 1..(cnt + n) : C[k] = IF k <= cnt THEN R[k] ELSE s[k - cnt]
  <2>1. R \in Seq(Cell) /\ s \in Seq(Cell)
    BY <1>a, <1>1
  <2>2. /\ C \in Seq(Cell) /\ Len(C) = Len(R) + Len(s)
        /\ \A k \in 1..(Len(R) + Len(s)) :
             C[k] = IF k <= Len(R) THEN R[k] ELSE s[k - Len(R)]
    BY <2>1, ConcatProperties
  <2>3. Len(R) = cnt /\ Len(s) = n
    BY <1>1 DEF n
  <2> HIDE DEF C
  <2> QED BY <2>2, <2>3
<1> HIDE DEF C
<1>5. ASSUME NEW k \in 1..(cnt + n) PROVE Q[k] = C[k]
  <2> DEFINE i == Place0(size, out + k - 1)
  <2>1. i \in 0..(N - 1)
    BY <1>a, <1>0 DEF Place0, IsRing
  <2>2. Q[k] = f[i]
    BY <1>a, <1>3
  <2>p. /\ k <= cnt => ~ (i >= in /\ i < in + g) /\ ~ (i < n - g)
        /\ ~ (k <= cnt) =>
             \/ i >= in /\ i < in + g /\ i - in + 1 = k - cnt
             \/ ~ (i >= in /\ i < in + g) /\ i < n - g /\ g + i + 1 = k - cnt
    <3>1. /\ size \in Nat /\ out \in Nat /\ cnt \in Nat /\ k \in Nat /\ k >= 1 /\ k <= cnt + n
          /\ out < size
      BY <1>a, <1>0 DEF IsRing
    <3>2. n <= size - cnt
      BY <1>a, <1>0
    <3>3. CASE out + cnt = in
      <4>1. CASE out + k - 1 < size
        <5>0. i = out + k - 1
          BY <1>a, <4>1 DEF Place0
        <5> HIDE DEF i
        <5>1. CASE g = n
          BY <1>a, <1>0, <3>1, <3>2, <3>3, <5>0, <5>1
        <5>2. CASE g = size - in
          BY <1>a, <1>0, <3>1, <3>2, <3>3, <4>1, <5>0, <5>2
        <5> QED BY <1>a, <1>0, <5>1, <5>2
      <4>2. CASE ~ (out + k - 1 < size)
        <5>1. i = out + k - 1 - size /\ ~ (k <= cnt) /\ i < in
          BY <1>a, <1>0, <3>1, <3>2, <3>3, <4>2 DEF Place0
        <5>2. g # n
          BY <1>a, <1>0, <3>1, <3>2, <3>3, <4>2
        <5>3. g = size - in
          BY <1>a, <1>0, <5>2
        <5> HIDE DEF i
        <5> QED BY <1>a, <1>0, <3>1, <3>2, <3>3, <5>1, <5>3
      <4> QED BY <1>a, <4>1, <4>2
    <3>4. CASE out + cnt = in + size
      <4>1. CASE out + k - 1 < size
        BY <1>a, <1>0, <3>1, <3>2, <3>4, <4>1 DEF Place0
      <4>2. CASE ~ (out + k - 1 < size)
        BY <1>a, <1>0, <3>1, <3>2, <3>4, <4>2 DEF Place0
      <4> QED BY <1>a, <4>1, <4>2
    <3> QED BY <1>a, <3>3, <3>4
  <2> HIDE DEF i
  <2>3. CASE k <= cnt
    <3>1. ~ (i >= in /\ i < in + g) /\ ~ (i < n - g)
      BY <1>a, <2>p, <2>3
    <3>2. f[i] = buffer[i]
      BY <1>a, <1>f, <2>1, <3>1
    <3>3. C[k] = buffer[i]
      BY <1>a, <1>0, <1>1, <1>4, <2>3 DEF i
    <3> QED BY <1>a, <2>2, <3>2, <3>3
  <2>4. CASE ~ (k <= cnt)
    <3>1. \/ i >= in /\ i < in + g /\ i - in + 1 = k - cnt
          \/ ~ (i >= in /\ i < in + g) /\ i < n - g /\ g + i + 1 = k - cnt
      BY <1>a, <2>p, <2>4
    <3>2. f[i] = s[k - cnt]
      BY <1>a, <1>f, <2>1, <3>1
    <3> QED BY <1>a, <1>4, <2>2, <2>4, <3>2
  <2> QED BY <1>a, <2>3, <2>4
<1>6. Q = C
  BY <1>3, <1>4, <1>5, SeqEqual
<1> QED BY <1>6 DEF Q, C, R, n
LEMMA PipeRing ==
  ASSUME NEW p, PipeOK(p)
  PROVE  /\ IsRing(BIG_PIPE_SIZE, p.buffer, p.size, p.out, p.cnt)
         /\ IsRead(Ring(p), p.buffer, p.size, p.out, p.cnt)
<1>1. p.buffer \in [0..(BIG_PIPE_SIZE - 1) -> Cell]
  BY DEF PipeOK, Pipes, Cell
<1>2. p.size \in Nat /\ p.cnt \in Nat /\ p.out \in Nat /\ (p.size # 0 => p.size <= BIG_PIPE_SIZE)
  BY Fields
<1>3. BIG_PIPE_SIZE \in Nat
  BY SizeFacts
<1>4. p.cnt <= p.size /\ p.out <= p.size /\ (p.out = p.size => p.size = 0)
  BY DEF PipeOK
<1>5. p.size <= BIG_PIPE_SIZE
  BY <1>2, <1>3
<1>6. IsRing(BIG_PIPE_SIZE, p.buffer, p.size, p.out, p.cnt)
  BY <1>1, <1>2, <1>3, <1>4, <1>5 DEF IsRing
<1> QED BY <1>6, RingFacts DEF Ring

LEMMA TakenRing ==
  ASSUME NEW p, PipeOK(p), NEW n \in Nat, n > 0, n <= p.size - p.out, n <= p.cnt
  PROVE  Ring(Taken(p, n)) = SubSeq(Ring(p), n + 1, Len(Ring(p)))
<1> DEFINE q == Taken(p, n)
           f == [i \in DOMAIN p.buffer |->
                   IF i >= p.out /\ i < p.out + n THEN None ELSE p.buffer[i]]
           o == IF p.cnt = n THEN 0 ELSE IF p.out + n >= p.size THEN 0 ELSE p.out + n
<1>1. IsRing(BIG_PIPE_SIZE, p.buffer, p.size, p.out, p.cnt) /\ Len(Ring(p)) = p.cnt
  BY PipeRing DEF IsRead
<1>2. /\ DOMAIN p.buffer = 0..(BIG_PIPE_SIZE - 1) /\ p \in Pipes
      /\ p.buffer \in [0..(BIG_PIPE_SIZE - 1) -> Cell]
  BY DEF PipeOK, Pipes, Cell
<1>3. q.buffer = f /\ q.size = p.size /\ q.out = o /\ q.cnt = p.cnt - n
  BY <1>2 DEF Taken, Pipes
<1>4. f \in [0..(BIG_PIPE_SIZE - 1) -> Cell]
  BY <1>2 DEF Cell
<1>5. \A i \in 0..(BIG_PIPE_SIZE - 1) : ~ (i >= p.out /\ i < p.out + n) => f[i] = p.buffer[i]
  BY <1>2
<1>6. /\ o \in Nat /\ (p.cnt = n => o = 0)
      /\ p.cnt # n => o = IF p.out + n >= p.size THEN 0 ELSE p.out + n
  BY <1>1 DEF IsRing
<1> HIDE DEF q, f, o
<1>7. RingOf(f, p.size, o, p.cnt - n) = SubSeq(RingOf(p.buffer, p.size, p.out, p.cnt), n + 1, p.cnt)
  <2>1. Takes(BIG_PIPE_SIZE, p.buffer, p.size, p.out, p.cnt, n, f, o)
    BY <1>1, <1>4, <1>5, <1>6 DEF Takes
  <2> QED BY <2>1, RingTake
<1> QED BY <1>1, <1>3, <1>7 DEF Ring, q

LEMMA PutRing ==
  ASSUME NEW p, PipeOK(p), NEW s \in Seq(Byte), Len(s) <= p.size - p.cnt
  PROVE  Ring(Put(p, s)) = Ring(p) \o s
<1> DEFINE n == Len(s)
           g == Min({p.size - p.in, n})
           f == [i \in DOMAIN p.buffer |->
                   IF i >= p.in /\ i < p.in + g THEN s[i - p.in + 1]
                   ELSE IF i < n - g THEN s[g + i + 1]
                   ELSE p.buffer[i]]
           q == Put(p, s)
<1>1. IsRing(BIG_PIPE_SIZE, p.buffer, p.size, p.out, p.cnt)
  BY PipeRing
<1>2. /\ DOMAIN p.buffer = 0..(BIG_PIPE_SIZE - 1) /\ p \in Pipes
      /\ p.buffer \in [0..(BIG_PIPE_SIZE - 1) -> Cell]
  BY DEF PipeOK, Pipes, Cell
<1>3. /\ p.in \in Nat /\ p.size \in Nat /\ p.in <= p.size /\ n \in Nat
      /\ p.out + p.cnt = p.in \/ p.out + p.cnt = p.in + p.size
  BY Fields, LenProperties DEF PipeOK
<1>4. q.buffer = f /\ q.size = p.size /\ q.out = p.out /\ q.cnt = p.cnt + n
  BY <1>2 DEF Put, Pipes
<1> HIDE DEF q
<1>5. g \in {p.size - p.in, n} /\ g \in Nat /\ g <= p.size - p.in /\ g <= n
  <2>1. p.size - p.in \in Nat
    BY <1>3
  <2> HIDE DEF n
  <2> QED BY <1>3, <2>1, Min2
<1> HIDE DEF g
<1>6. s \in Seq(Cell) /\ \A i \in 1..n : s[i] \in Cell
  <2>1. \A i \in 1..n : s[i] \in Cell
    BY ElementOfSeq DEF Cell
  <2>2. s \in [1..n -> Byte]
    BY LenProperties
  <2>3. s \in [1..n -> Cell]
    BY <2>2 DEF Cell
  <2> HIDE DEF n
  <2>4. s \in Seq(Cell)
    BY <1>3, <2>3, SeqDef
  <2> QED BY <2>1, <2>4
<1>7. f \in [0..(BIG_PIPE_SIZE - 1) -> Cell]
  <2>1. ASSUME NEW i \in 0..(BIG_PIPE_SIZE - 1), i >= p.in, i < p.in + g
        PROVE  s[i - p.in + 1] \in Cell
    <3>0. i \in Nat /\ p.in \in Nat /\ g \in Nat /\ n \in Nat /\ g <= n
      BY <1>3, <1>5, SizeFacts
    <3>1. i - p.in + 1 \in 1..n
      BY <2>1, <3>0, WithinCopy
    <3> QED BY <1>6, <3>1
  <2>2. ASSUME NEW i \in 0..(BIG_PIPE_SIZE - 1), i < n - g
        PROVE  s[g + i + 1] \in Cell
    <3>1. g + i + 1 \in 1..n
      BY <1>3, <1>5, <2>2, SizeFacts
    <3> QED BY <1>6, <3>1
  <2> QED BY <1>2, <2>1, <2>2
<1>8. \A i \in 0..(BIG_PIPE_SIZE - 1) :
        f[i] = IF i >= p.in /\ i < p.in + g THEN s[i - p.in + 1]
               ELSE IF i < Len(s) - g THEN s[g + i + 1]
               ELSE p.buffer[i]
  BY <1>2
<1> HIDE DEF f
<1>9. RingOf(f, p.size, p.out, p.cnt + Len(s)) = RingOf(p.buffer, p.size, p.out, p.cnt) \o s
  <2>1. g = p.size - p.in \/ g = Len(s)
    BY <1>5
  <2>2. g <= Len(s)
    BY <1>5
  <2>3. Puts(BIG_PIPE_SIZE, p.buffer, p.size, p.out, p.cnt, p.in, g, f, s)
    BY <1>1, <1>3, <1>5, <1>6, <1>7, <1>8, <2>1, <2>2 DEF Puts
  <2> QED BY <2>3, RingPut
<1> QED BY <1>4, <1>9 DEF Ring, q

LEMMA SegmentCells ==
  ASSUME NEW p \in Pipes, NEW i \in Nat, NEW n \in Nat, i + n <= BIG_PIPE_SIZE
  PROVE  /\ Segment(p, i, n) \in Seq(Cell) /\ Len(Segment(p, i, n)) = n
         /\ \A k \in 1..n : Segment(p, i, n)[k] = p.buffer[i + k - 1]
<1>1. \A k \in 1..n : Segment(p, i, n)[k] = p.buffer[i + k - 1]
  BY DEF Segment
<1> QED BY <1>1, SegmentOK DEF Cell

(* The parts of the ring are copied in their order. *)
LEMMA pipespaceRing ==
  ASSUME NEW p, PipeOK(p), ~ Has(p, "DIRECTW"), NEW n \in PipeSizes, p.cnt <= n
  PROVE  Ring(pipespace_new(p, n)) = Ring(p)
<1> DEFINE firstseg == p.size - p.out
           copied == IF p.cnt = 0 THEN <<>>
                     ELSE IF p.in <= p.out
                          THEN Segment(p, p.out, firstseg)
                               \o (IF p.cnt > firstseg THEN Segment(p, 0, p.in) ELSE <<>>)
                          ELSE Segment(p, p.out, p.cnt)
           f == [i \in DOMAIN p.buffer |-> IF i < p.cnt THEN copied[i + 1] ELSE None]
           q == pipespace_new(p, n)
<1>1. /\ p.size \in Nat /\ p.cnt \in Nat /\ p.in \in Nat /\ p.out \in Nat
      /\ p.size <= BIG_PIPE_SIZE /\ BIG_PIPE_SIZE \in Nat
  BY Fields, PipeRing DEF IsRing
<1>2. /\ p.cnt <= p.size /\ p.in <= p.size /\ p.out <= p.size
      /\ p.out + p.cnt = p.in \/ p.out + p.cnt = p.in + p.size
      /\ p \in Pipes /\ DOMAIN p.buffer = 0..(BIG_PIPE_SIZE - 1)
  BY DEF PipeOK, Pipes
<1>3. ASSUME NEW k \in 1..p.cnt PROVE copied[k] = p.buffer[Place0(p.size, p.out + k - 1)]
  <2>1. p.cnt # 0
    BY <1>1, <1>3
  <2>2. CASE p.in <= p.out
    <3>1. p.out + p.cnt = p.in + p.size /\ firstseg \in Nat
      BY <1>1, <1>2, <2>1, <2>2
    <3> DEFINE a == Segment(p, p.out, firstseg)
               d == IF p.cnt > firstseg THEN Segment(p, 0, p.in) ELSE <<>>
    <3>2. /\ a \in Seq(Cell) /\ Len(a) = firstseg
          /\ \A j \in 1..firstseg : a[j] = p.buffer[p.out + j - 1]
      <4>1. p.out + firstseg <= BIG_PIPE_SIZE
        BY <1>1, <1>2
      <4> HIDE DEF firstseg
      <4> QED BY <1>1, <1>2, <3>1, <4>1, SegmentCells
    <3>3. /\ d \in Seq(Cell)
          /\ p.cnt > firstseg =>
               Len(d) = p.in /\ \A j \in 1..p.in : d[j] = p.buffer[0 + j - 1]
      <4>1. 0 + p.in <= BIG_PIPE_SIZE /\ 0 \in Nat
        BY <1>1, <1>2
      <4>2. /\ Segment(p, 0, p.in) \in Seq(Cell) /\ Len(Segment(p, 0, p.in)) = p.in
            /\ \A j \in 1..p.in : Segment(p, 0, p.in)[j] = p.buffer[0 + j - 1]
        BY <1>1, <1>2, <4>1, SegmentCells
      <4> QED BY <4>2
    <3>4. copied = a \o d
      BY <2>1, <2>2
    <3> HIDE DEF a, d, firstseg, copied
    <3>5. \A j \in 1..(Len(a) + Len(d)) : (a \o d)[j] = IF j <= Len(a) THEN a[j] ELSE d[j - Len(a)]
      BY <3>2, <3>3, ConcatProperties
    <3>6. Len(d) \in Nat /\ Len(a) = firstseg
      BY <3>2, <3>3, LenProperties
    <3>7. CASE k <= firstseg
      <4>1. k \in 1..(Len(a) + Len(d)) /\ k \in 1..firstseg
        BY <3>1, <3>6, <3>7
      <4>2. (a \o d)[k] = p.buffer[p.out + k - 1]
        BY <3>2, <3>5, <3>7, <4>1
      <4>3. Place0(p.size, p.out + k - 1) = p.out + k - 1
        BY <1>1, <3>7 DEF Place0, firstseg
      <4> QED BY <3>4, <4>2, <4>3
    <3>8. CASE ~ (k <= firstseg)
      <4>1. p.cnt > firstseg /\ k - firstseg \in 1..p.in
        <5>1. firstseg + p.in = p.cnt
          BY <1>1, <3>1 DEF firstseg
        <5>2. firstseg \in Nat /\ p.in \in Nat /\ p.cnt \in Nat
          BY <1>1, <3>1
        <5> QED BY <3>8, <5>1, <5>2
      <4>2. k \in 1..(Len(a) + Len(d))
        BY <1>1, <3>1, <3>3, <3>6, <3>8, <4>1
      <4>3. (a \o d)[k] = d[k - firstseg]
        BY <3>1, <3>5, <3>6, <3>8, <4>2
      <4>4. d[k - firstseg] = p.buffer[0 + (k - firstseg) - 1]
        BY <3>3, <4>1
      <4>5. Place0(p.size, p.out + k - 1) = 0 + (k - firstseg) - 1
        BY <1>1, <3>8 DEF Place0, firstseg
      <4> QED BY <3>4, <4>3, <4>4, <4>5
    <3> QED BY <3>1, <3>7, <3>8
  <2>3. CASE ~ (p.in <= p.out)
    <3>1. p.out + p.cnt = p.in /\ p.out + p.cnt <= BIG_PIPE_SIZE
      BY <1>1, <1>2, <2>3
    <3>2. copied = Segment(p, p.out, p.cnt)
      BY <2>1, <2>3
    <3> HIDE DEF copied
    <3>3. copied[k] = p.buffer[p.out + k - 1]
      BY <1>1, <1>2, <3>1, <3>2, SegmentCells
    <3>4. Place0(p.size, p.out + k - 1) = p.out + k - 1
      BY <1>1, <1>2, <3>1 DEF Place0
    <3> QED BY <3>3, <3>4
  <2> QED BY <2>2, <2>3
<1>4. q = [p EXCEPT !.size = Max({p.cnt, n}), !.in = p.cnt, !.out = 0, !.buffer = f,
                    !.ms = <<>>, !.pos = 0, !.mapcnt = 0]
  BY DEF pipespace_new
<1> HIDE DEF copied, firstseg
<1>5. q.out = 0 /\ q.cnt = p.cnt /\ q.buffer = f /\ PipeOK(q) /\ q.size = n
  <2>1. PipeOK(q) /\ q.size = n /\ q.cnt = p.cnt
    BY pipespaceOK
  <2>2. q.out = 0 /\ q.buffer = f
    BY <1>2, <1>4 DEF Pipes
  <2> QED BY <2>1, <2>2
<1> HIDE DEF q
<1>6. /\ Ring(q) \in Seq(Cell) /\ Len(Ring(q)) = p.cnt
      /\ \A k \in 1..p.cnt : Ring(q)[k] = f[Place0(n, 0 + k - 1)]
  <2>1. IsRead(Ring(q), f, n, 0, p.cnt)
    BY <1>5, PipeRing
  <2> QED BY <2>1 DEF IsRead
<1>7. /\ Ring(p) \in Seq(Cell) /\ Len(Ring(p)) = p.cnt
      /\ \A k \in 1..p.cnt : Ring(p)[k] = p.buffer[Place0(p.size, p.out + k - 1)]
  BY PipeRing DEF IsRead
<1>8. ASSUME NEW k \in 1..p.cnt PROVE Ring(q)[k] = Ring(p)[k]
  <2>1. n \in Nat
    BY SizeFacts
  <2>2. Place0(n, 0 + k - 1) = k - 1 /\ k - 1 \in 0..(BIG_PIPE_SIZE - 1) /\ k - 1 < p.cnt
    BY <1>1, <1>2, <2>1 DEF Place0
  <2>3. f[k - 1] = copied[k - 1 + 1]
    BY <1>2, <2>2
  <2>4. k - 1 + 1 = k
    OBVIOUS
  <2> HIDE DEF f
  <2> QED BY <1>3, <1>6, <1>7, <2>2, <2>3, <2>4
<1>9. Ring(q) = Ring(p)
  BY <1>6, <1>7, <1>8, SeqEqual
<1> QED BY <1>9 DEF q

LEMMA ResizedRing ==
  ASSUME NEW p, PipeOK(p), ~ Has(p, "DIRECTW"), NEW n \in PipeSizes, p.cnt <= n,
         NEW q \in Resized(p, n)
  PROVE  Bytes(q, FALSE) = Bytes(p, FALSE)
<1>1. Ring(q) = Ring(p)
  <2>1. CASE q = p
    BY <2>1
  <2>2. CASE q = pipespace_new(p, n)
    BY <2>2, pipespaceRing
  <2>3. CASE p.size = 0 /\ q = pipespace_new(p, SMALL_PIPE_SIZE)
    <3>1. SMALL_PIPE_SIZE \in PipeSizes /\ p.cnt <= SMALL_PIPE_SIZE
      BY <2>3, SizeFacts, Fields DEF PipeOK
    <3> QED BY <2>3, <3>1, pipespaceRing
  <2> QED BY <2>1, <2>2, <2>3 DEF Resized
<1>2. q.state = p.state
  BY ResizedOK
<1> QED BY <1>1, <1>2 DEF Bytes, Has

(* What is left of the map goes to the start of the ring. *)
LEMMA CloneRing ==
  ASSUME NEW p, PipeOK(p), p.cnt = p.mapcnt, p.out = 0, NEW q, PipeOK(q),
         q.buffer = [i \in DOMAIN p.buffer |-> IF i < p.mapcnt THEN Mapped(p)[i + 1] ELSE None],
         q.size = p.size, q.out = p.out, q.cnt = p.cnt
  PROVE  Ring(q) = Mapped(p)
<1>1. /\ p.size \in Nat /\ p.cnt \in Nat /\ p.size <= BIG_PIPE_SIZE /\ BIG_PIPE_SIZE \in Nat
      /\ p.cnt <= p.size
  BY PipeRing DEF IsRing
<1>2. DOMAIN p.buffer = 0..(BIG_PIPE_SIZE - 1)
  BY DEF PipeOK, Pipes
<1>3. /\ Ring(q) \in Seq(Cell) /\ Len(Ring(q)) = p.cnt
      /\ \A k \in 1..p.cnt : Ring(q)[k] = q.buffer[Place0(p.size, 0 + k - 1)]
  <2>1. IsRead(Ring(q), q.buffer, p.size, 0, p.cnt)
    BY PipeRing
  <2> QED BY <2>1 DEF IsRead
<1>4. Mapped(p) \in Seq(Cell) /\ Len(Mapped(p)) = p.cnt
  <2>1. Mapped(p) \in Seq(Byte) /\ Len(Mapped(p)) = p.cnt
    BY MappedOK, Fields DEF PipeOK, Pipes
  <2>2. Mapped(p) \in [1..p.cnt -> Byte]
    BY <2>1, LenProperties
  <2>3. Mapped(p) \in [1..p.cnt -> Cell]
    BY <2>2 DEF Cell
  <2> QED BY <1>1, <2>1, <2>3, SeqDef
<1>5. ASSUME NEW k \in 1..p.cnt PROVE Ring(q)[k] = Mapped(p)[k]
  <2>1. Place0(p.size, 0 + k - 1) = k - 1 /\ k - 1 \in 0..(BIG_PIPE_SIZE - 1) /\ k - 1 < p.mapcnt
    BY <1>1 DEF Place0
  <2>2. q.buffer[k - 1] = Mapped(p)[k - 1 + 1]
    BY <1>2, <2>1
  <2>3. k - 1 + 1 = k
    OBVIOUS
  <2> QED BY <1>3, <2>1, <2>2, <2>3
<1> QED BY <1>3, <1>4, <1>5, SeqEqual

(* Bytes are read from the front of the map. *)
LEMMA MappedTake ==
  ASSUME NEW p, PipeOK(p), NEW n \in Nat, n > 0, n <= p.mapcnt, NEW q, q.ms = p.ms,
         q.pos = p.pos + n, q.mapcnt = p.mapcnt - n
  PROVE  /\ Mapped(q) = SubSeq(Mapped(p), n + 1, Len(Mapped(p)))
         /\ q.mapcnt = 0 => Mapped(q) = <<>>
<1>1. /\ p.ms \in Seq(Byte) /\ p.pos \in Nat /\ p.mapcnt \in Nat
      /\ p.pos + p.mapcnt <= Len(p.ms)
  BY Fields DEF PipeOK, Pipes
<1>2. Mapped(p) \in Seq(Byte) /\ Len(Mapped(p)) = p.mapcnt
  BY <1>1, MappedOK
<1> DEFINE a == p.pos + n + 1
           b == p.pos + p.mapcnt
           Q == SubSeq(p.ms, a, b)
           S == SubSeq(Mapped(p), n + 1, p.mapcnt)
<1>3. Mapped(q) = Q
  <2>1. q.pos + 1 = a /\ q.pos + q.mapcnt = b
    BY <1>1
  <2> QED BY <2>1 DEF Mapped
<1>4. Len(p.ms) \in Nat /\ \A i \in 1..Len(p.ms) : p.ms[i] \in Byte
  BY <1>1, LenProperties, ElementOfSeq
<1>5. /\ Q \in Seq(Byte) /\ Len(Q) = p.mapcnt - n
      /\ \A i \in 1..(p.mapcnt - n) : Q[i] = p.ms[p.pos + n + i]
  <2>1. a \in Int /\ b \in Int /\ \A i \in a..b : p.ms[i] \in Byte
    BY <1>1, <1>4
  <2>2. /\ b - a + 1 = p.mapcnt - n /\ (IF a <= b THEN b - a + 1 ELSE 0) = p.mapcnt - n
        /\ \A i \in 1..(p.mapcnt - n) : a + i - 1 = p.pos + n + i
    BY <1>1
  <2> HIDE DEF a, b
  <2>3. /\ Q \in Seq(Byte) /\ Len(Q) = IF a <= b THEN b - a + 1 ELSE 0
        /\ \A i \in 1..(b - a + 1) : Q[i] = p.ms[a + i - 1]
    BY <2>1, SubSeqProperties
  <2> HIDE DEF Q
  <2> QED BY <2>2, <2>3
<1>6. \A i \in 1..p.mapcnt : Mapped(p)[i] = p.ms[p.pos + i]
  <2> DEFINE c == p.pos + 1
  <2>1. c \in Int /\ b \in Int /\ \A i \in c..b : p.ms[i] \in Byte
    BY <1>1, <1>4
  <2>2. b - c + 1 = p.mapcnt /\ \A i \in 1..p.mapcnt : c + i - 1 = p.pos + i
    BY <1>1
  <2>3. Mapped(p) = SubSeq(p.ms, c, b)
    BY DEF Mapped
  <2> HIDE DEF b, c
  <2>4. \A i \in 1..(b - c + 1) : SubSeq(p.ms, c, b)[i] = p.ms[c + i - 1]
    BY <2>1, SubSeqProperties
  <2> QED BY <2>2, <2>3, <2>4
<1>7. /\ S \in Seq(Byte) /\ Len(S) = p.mapcnt - n
      /\ \A i \in 1..(p.mapcnt - n) : S[i] = Mapped(p)[n + i]
  <2> DEFINE m == p.mapcnt
             M == Mapped(p)
  <2>1. n + 1 \in Int /\ m \in Int /\ \A i \in (n + 1)..m : M[i] \in Byte
    BY <1>1, <1>2, ElementOfSeq
  <2>2. /\ m - (n + 1) + 1 = m - n /\ (IF n + 1 <= m THEN m - (n + 1) + 1 ELSE 0) = m - n
        /\ \A i \in 1..(m - n) : (n + 1) + i - 1 = n + i
    BY <1>1
  <2>3. S = SubSeq(M, n + 1, m)
    OBVIOUS
  <2> HIDE DEF m, M, S
  <2>4. /\ SubSeq(M, n + 1, m) \in Seq(Byte)
        /\ Len(SubSeq(M, n + 1, m)) = IF n + 1 <= m THEN m - (n + 1) + 1 ELSE 0
        /\ \A i \in 1..(m - (n + 1) + 1) : SubSeq(M, n + 1, m)[i] = M[(n + 1) + i - 1]
    BY <2>1, SubSeqProperties
  <2>5. /\ S \in Seq(Byte) /\ Len(S) = m - n
        /\ \A i \in 1..(m - n) : S[i] = M[n + i]
    BY <2>2, <2>3, <2>4
  <2> QED BY <2>5 DEF m, M
<1> HIDE DEF Q, S
<1>8. ASSUME NEW i \in 1..(p.mapcnt - n) PROVE Q[i] = S[i]
  <2>1. n + i \in 1..p.mapcnt /\ p.pos + (n + i) = p.pos + n + i
    BY <1>1
  <2> QED BY <1>5, <1>6, <1>7, <2>1
<1>9. Q = S
  BY <1>5, <1>7, <1>8, SeqEqual
<1>10. p.mapcnt - n = 0 => Q = <<>>
  BY <1>5
<1> QED BY <1>2, <1>3, <1>9, <1>10 DEF S

-----------------------------------------------------------------------------
(* What a step does to the stream. *)

Todo == [w \in Writers |-> call[w].uio]
Orig == [w \in Writers |-> call[w].orig_resid]

LEMMA ContentsAfter ==
  ASSUME IInv, NEW t \in Threads, NEW p, NEW c, NEW L, Ends(t, p, c, L),
         t \in Writers \/ "dwclone" \notin L
  PROVE  Contents' = IF "read" \notin open' /\ Has(p, "EOF") THEN <<>>
                     ELSE Bytes(p, Cloned(t))
<1>1. PICK l \in L \cup {"idle"} :
        /\ pc' = [pc EXCEPT ![t] = l]
        /\ Has(pipe', "EOF") <=> Has(p, "EOF")
        /\ \/ Has(p, "EOF") /\ "read" \notin open'
           \/ Bytes(pipe', l = "dwclone" \/ Cloned(t)) = Bytes(p, Cloned(t))
  BY DEF Ends
<1>2. pc \in [Threads -> Locations] /\ Writers \subseteq Threads
  BY DEF IInv, TypeInv, Threads
<1>3. (\E u \in Writers : pc'[u] = "dwclone") = (l = "dwclone" \/ Cloned(t))
  <2>1. \A u \in Writers : u # t => pc'[u] = pc[u]
    BY <1>1, <1>2
  <2>2. pc'[t] = l
    BY <1>1, <1>2
  <2>3. CASE t \in Writers
    BY <2>1, <2>2, <2>3 DEF Cloned
  <2>4. CASE t \notin Writers /\ l # "dwclone"
    BY <2>1, <2>4 DEF Cloned
  <2> QED BY <2>3, <2>4
<1> QED BY <1>1, <1>3 DEF Contents

LEMMA ContentsBefore ==
  ASSUME NEW t, t \in Writers => pc[t] # "dwclone"
  PROVE  Contents = IF "read" \notin open /\ Has(pipe, "EOF") THEN <<>>
                    ELSE Bytes(pipe, Cloned(t))
<1>1. (\E u \in Writers : pc[u] = "dwclone") = Cloned(t)
  BY DEF Cloned
<1> QED BY <1>1 DEF Contents

LEMMA WriterStep ==
  ASSUME IInv, StreamInv, NEW w \in Writers, NEW p, NEW c,
         Ends(w, p, c, WriterLocations), open' = open, "write" \in open,
         Has(p, "EOF") <=> Has(pipe, "EOF")
  PROVE  /\ StreamInv'
         /\ \/ /\ Todo' = [Todo EXCEPT ![w] = c.uio]
               /\ Orig' = [Orig EXCEPT ![w] = c.orig_resid]
            \/ /\ Todo' = [Todo EXCEPT ![w] = <<>>]
               /\ Orig' = [Orig EXCEPT ![w] = 0]
<1>0. PICK l \in WriterLocations \cup {"idle"} : \E d :
        /\ pc' = [pc EXCEPT ![w] = l]
        /\ call' = [call EXCEPT ![w] = d]
        /\ Has(pipe', "EOF") <=> Has(p, "EOF")
        /\ \/ l = "idle" /\ d = NoCall
           \/ /\ l \notin {"idle", "poll"}
              /\ d.uio = c.uio /\ d.orig_resid = c.orig_resid
        /\ Promise(pipe', l, d)
  BY DEF Ends
<1>1. PICK d :
        /\ pc' = [pc EXCEPT ![w] = l]
        /\ call' = [call EXCEPT ![w] = d]
        /\ Has(pipe', "EOF") <=> Has(p, "EOF")
        /\ \/ l = "idle" /\ d = NoCall
           \/ /\ l \notin {"idle", "poll"}
              /\ d.uio = c.uio /\ d.orig_resid = c.orig_resid
        /\ Promise(pipe', l, d)
  BY <1>0
<1>2. /\ pc \in [Threads -> Locations] /\ call \in [Threads -> CallRecs]
      /\ Writers \subseteq Threads /\ w \notin Readers /\ Readers \subseteq Threads
  BY PipeAssumption DEF IInv, TypeInv, Threads
<1>3. \A u \in Threads : u # w => pc'[u] = pc[u] /\ call'[u] = call[u]
  BY <1>1, <1>2
<1>4. pc'[w] = l /\ call'[w] = d
  BY <1>1, <1>2
<1>5. StreamInv'
  <2>1. \A u \in Writers : pc'[u] \in {"idle", "poll"} => call'[u] = NoCall
    BY <1>1, <1>2, <1>3, <1>4 DEF StreamInv
  <2>2. \A u \in Writers : Promise(pipe', pc'[u], call'[u])
    <3>1. \A u \in Writers : u # w => Promise(pipe', pc[u], call[u])
      BY <1>1 DEF StreamInv, Promise
    <3> QED BY <1>1, <1>2, <1>3, <1>4, <3>1
  <2>3. \A r \in Readers : pc'[r] = pc[r]
    BY <1>2, <1>3
  <2>4. Has(pipe', "EOF") => open' # {"read", "write"}
    BY <1>1 DEF StreamInv
  <2> QED BY <2>1, <2>2, <2>3, <2>4 DEF StreamInv
<1>6. NoCall.uio = <<>> /\ NoCall.orig_resid = 0
  BY NoCallOK
<1>7. /\ Todo' = [Todo EXCEPT ![w] = d.uio]
      /\ Orig' = [Orig EXCEPT ![w] = d.orig_resid]
  BY <1>2, <1>3, <1>4 DEF Todo, Orig
<1> QED BY <1>1, <1>5, <1>6, <1>7

LEMMA ReaderStep ==
  ASSUME IInv, StreamInv, NEW r \in Readers, NEW p, NEW c, NEW L,
         Ends(r, p, c, L), open' \subseteq open, "write" \in open => "write" \in open',
         \/ L = ReadPlaces /\ open' = open /\ "read" \in open
         \/ L = ClosePlaces /\ "read" \notin open' /\ \A u \in Readers : u # r => pc[u] \notin ReadPlaces,
         \/ Has(p, "EOF") <=> Has(pipe, "EOF")
         \/ /\ "read" \notin open'
            /\ \A w \in Writers : pc[w] \notin {"wrcopy", "dwbuild"}
  PROVE  StreamInv' /\ Todo' = Todo /\ Orig' = Orig
<1>0. PICK l \in L \cup {"idle"} : \E d :
        /\ pc' = [pc EXCEPT ![r] = l]
        /\ call' = [call EXCEPT ![r] = d]
        /\ Has(pipe', "EOF") <=> Has(p, "EOF")
  BY DEF Ends
<1>1. PICK d :
        /\ pc' = [pc EXCEPT ![r] = l]
        /\ call' = [call EXCEPT ![r] = d]
        /\ Has(pipe', "EOF") <=> Has(p, "EOF")
  BY <1>0
<1>2. /\ pc \in [Threads -> Locations] /\ call \in [Threads -> CallRecs]
      /\ Writers \subseteq Threads /\ r \notin Writers /\ Readers \subseteq Threads
  BY PipeAssumption DEF IInv, TypeInv, Threads
<1>3. \A u \in Threads : u # r => pc'[u] = pc[u] /\ call'[u] = call[u]
  BY <1>1, <1>2
<1>4. pc'[r] = l
  BY <1>1, <1>2
<1>5. \A w \in Writers : pc'[w] = pc[w] /\ call'[w] = call[w]
  BY <1>2, <1>3
<1>6. StreamInv'
  <2>1. \A w \in Writers : pc'[w] \in {"idle", "poll"} => call'[w] = NoCall
    BY <1>5 DEF StreamInv
  <2>2. \A w \in Writers : Promise(pipe', pc'[w], call'[w])
    <3>1. \A w \in Writers : Promise(pipe', pc[w], call[w])
      BY <1>1 DEF StreamInv, Promise
    <3> QED BY <1>5, <3>1
  <2>3. "write" \notin open' => \A w \in Writers : pc'[w] = "idle"
    BY <1>5 DEF StreamInv
  <2>4. \A u \in Readers : pc'[u] \in ReadPlaces => "read" \in open'
    <3>1. CASE L = ReadPlaces /\ open' = open /\ "read" \in open
      BY <3>1
    <3>2. CASE L = ClosePlaces /\ "read" \notin open' /\ \A u \in Readers : u # r => pc[u] \notin ReadPlaces
      BY <1>1, <1>2, <1>3, <1>4, <3>2 DEF ReadPlaces, ClosePlaces
    <3> QED BY <3>1, <3>2
  <2>5. \A u \in Readers : pc'[u] \in ClosePlaces => "read" \notin open'
    <3>1. CASE L = ReadPlaces /\ open' = open /\ "read" \in open
      BY <1>1, <1>2, <1>3, <1>4, <3>1 DEF ReadPlaces, ClosePlaces, StreamInv
    <3>2. CASE "read" \notin open'
      BY <3>2
    <3> QED BY <3>1, <3>2
  <2>6. Has(pipe', "EOF") => open' # {"read", "write"}
    BY <1>1 DEF StreamInv
  <2> QED BY <2>1, <2>2, <2>3, <2>4, <2>5, <2>6 DEF StreamInv
<1>7. Todo' = Todo /\ Orig' = Orig
  BY <1>5 DEF Todo, Orig
<1> QED BY <1>6, <1>7
(* The steps of the stream. *)
StreamStep == Stream!Next \/ UNCHANGED Stream!vars

Same == Contents' = Contents /\ (Has(pipe', "EOF") <=> Has(pipe, "EOF")) /\ open' = open

LEMMA StreamStutters ==
  ASSUME Same, Todo' = Todo, Orig' = Orig
  PROVE  StreamStep
<1>1. (~ Has(pipe', "EOF")) = (~ Has(pipe, "EOF")) /\ ("read" \in open') = ("read" \in open)
  BY DEF Same
<1> QED BY <1>1 DEF Same, Todo, Orig, StreamStep, Stream!vars

LEMMA StreamEnds ==
  ASSUME Same, NEW w \in Writers,
         Todo' = [Todo EXCEPT ![w] = <<>>], Orig' = [Orig EXCEPT ![w] = 0]
  PROVE  StreamStep
<1>1. (~ Has(pipe', "EOF")) = (~ Has(pipe, "EOF")) /\ ("read" \in open') = ("read" \in open)
  BY DEF Same
<1>2. Stream!End(w)
  BY <1>1 DEF Same, Todo, Orig, Stream!End
<1> QED BY <1>2 DEF StreamStep, Stream!Next

LEMMA StreamBegins ==
  ASSUME Same, NEW w \in Writers, NEW s, call[w].orig_resid = 0,
         Todo' = [Todo EXCEPT ![w] = s], Orig' = [Orig EXCEPT ![w] = Len(s)]
  PROVE  StreamStep
<1>1. (~ Has(pipe', "EOF")) = (~ Has(pipe, "EOF")) /\ ("read" \in open') = ("read" \in open)
  BY DEF Same
<1>2. Todo'[w] = s /\ Todo' = [Todo EXCEPT ![w] = Todo'[w]]
      /\ Orig' = [Orig EXCEPT ![w] = Len(Todo'[w])] /\ Orig[w] = 0
  <2>1. [Todo EXCEPT ![w] = s][w] = s
    BY DEF Todo
  <2>2. Orig[w] = 0
    BY DEF Orig
  <2> QED BY <2>1, <2>2
<1>3. Stream!Begin(w)
  BY <1>1, <1>2 DEF Same, Todo, Orig, Stream!Begin
<1> QED BY <1>3 DEF StreamStep, Stream!Next

LEMMA StreamWrites ==
  ASSUME NEW w \in Writers, NEW n \in 1..Len(call[w].uio), ~ Has(pipe, "EOF"),
         call[w].orig_resid <= PIPE_BUF => n = Len(call[w].uio),
         Contents' = Contents \o SubSeq(call[w].uio, 1, n),
         Has(pipe', "EOF") <=> Has(pipe, "EOF"), open' = open,
         \/ Todo' = [Todo EXCEPT ![w] = Rest(call[w].uio, n)] /\ Orig' = Orig
         \/ Todo' = [Todo EXCEPT ![w] = <<>>] /\ Orig' = [Orig EXCEPT ![w] = 0]
  PROVE  StreamStep
<1>1. (~ Has(pipe', "EOF")) = (~ Has(pipe, "EOF")) /\ ("read" \in open') = ("read" \in open)
  OBVIOUS
<1>2. Todo[w] = call[w].uio /\ Orig[w] = call[w].orig_resid
  BY DEF Todo, Orig
<1>3. [Todo EXCEPT ![w] = Rest(call[w].uio, n)] = [Todo EXCEPT ![w] = Stream!Drop(@, n)]
  BY <1>2 DEF Stream!Drop, Rest
<1>4. Stream!Write(w)
  BY <1>1, <1>2, <1>3 DEF Todo, Orig, Stream!Write
<1> QED BY <1>4 DEF StreamStep, Stream!Next

LEMMA StreamReads ==
  ASSUME NEW n \in 1..Len(Contents), "read" \in open,
         Contents' = SubSeq(Contents, n + 1, Len(Contents)),
         Has(pipe', "EOF") <=> Has(pipe, "EOF"), open' = open,
         Todo' = Todo, Orig' = Orig
  PROVE  StreamStep
<1>1. (~ Has(pipe', "EOF")) = (~ Has(pipe, "EOF")) /\ ("read" \in open') = ("read" \in open)
  OBVIOUS
<1>2. Stream!Read
  BY <1>1 DEF Todo, Orig, Stream!Read, Stream!Drop
<1> QED BY <1>2 DEF StreamStep, Stream!Next

LEMMA StreamCloses ==
  ASSUME open' \subseteq open, Has(pipe, "EOF") => Has(pipe', "EOF"),
         Contents' = IF "read" \notin open' /\ Has(pipe', "EOF") THEN <<>> ELSE Contents,
         Todo' = Todo, Orig' = Orig
  PROVE  StreamStep
<1>1. Contents' = IF "read" \in open' \/ ~ Has(pipe', "EOF") THEN Contents ELSE <<>>
  OBVIOUS
<1>2. Stream!Close
  BY <1>1 DEF Todo, Orig, Stream!Close
<1> QED BY <1>2 DEF StreamStep, Stream!Next

-----------------------------------------------------------------------------
(* Steps that move no bytes. *)

LEMMA CloneOwns ==
  ASSUME IInv, NEW t \in Threads
  PROVE  /\ Cloned(t) \in BOOLEAN
         /\ ~ Cloned(t) \/ Has(pipe, "LOCKFL")
         /\ pc[t] \in Unlocked => ~ Cloned(t)
<1>1. \A u \in Writers : u \in Threads
  BY DEF Threads
<1>2. \A u \in Writers : pc[u] = "dwclone" => u \in Owners(Threads)
  BY <1>1 DEF Owners, Unlocked
<1>3. pc[t] \in Unlocked => t \in Owners(Threads)
  BY DEF Owners
<1> QED BY <1>2, <1>3 DEF IInv, Cloned

LEMMA WriterInside ==
  ASSUME IInv, StreamInv, NEW w \in Writers, pc[w] \notin {"idle", "poll"}
  PROVE  "write" \in open /\ (Has(pipe, "EOF") => "read" \notin open)
<1>1. "write" \in open
  BY DEF StreamInv
<1>2. open \subseteq {"read", "write"}
  BY DEF IInv, TypeInv
<1>3. "read" \in open => open = {"read", "write"}
  BY <1>1, <1>2
<1> QED BY <1>1, <1>3 DEF StreamInv

LEMMA ShapeOfPipe == ASSUME IInv PROVE pipe \in Shapes /\ PipeOK(pipe)
BY PipesAreShapes DEF IInv, PipeOK

LEMMA ReaderStutters ==
  ASSUME IInv, StreamInv, NEW r \in Readers, NEW p, NEW c, Ends(r, p, c, ReadPlaces),
         open' = open, "read" \in open,
         Has(p, "EOF") <=> Has(pipe, "EOF"), Bytes(p, Cloned(r)) = Bytes(pipe, Cloned(r))
  PROVE  StreamInv' /\ StreamStep
<1>1. StreamInv' /\ Todo' = Todo /\ Orig' = Orig
  BY ReaderStep
<1>2. r \in Threads /\ r \notin Writers /\ "dwclone" \notin ReadPlaces
  BY PipeAssumption DEF Threads, ReadPlaces
<1>3. Contents' = Contents
  BY <1>2, ContentsAfter, ContentsBefore
<1>4. Has(pipe', "EOF") <=> Has(pipe, "EOF")
  BY DEF Ends
<1> QED BY <1>1, <1>3, <1>4, StreamStutters DEF Same

LEMMA WriterStutters ==
  ASSUME IInv, StreamInv, NEW w \in Writers, NEW p, NEW c, Ends(w, p, c, WriterLocations),
         open' = open, "write" \in open, Contents = IF "read" \notin open /\ Has(pipe, "EOF")
                                                    THEN <<>> ELSE Bytes(p, Cloned(w)),
         Has(p, "EOF") <=> Has(pipe, "EOF"),
         c.uio = call[w].uio, c.orig_resid = call[w].orig_resid
  PROVE  StreamInv' /\ StreamStep
<1>1. /\ StreamInv'
      /\ \/ /\ Todo' = [Todo EXCEPT ![w] = c.uio]
            /\ Orig' = [Orig EXCEPT ![w] = c.orig_resid]
         \/ /\ Todo' = [Todo EXCEPT ![w] = <<>>]
            /\ Orig' = [Orig EXCEPT ![w] = 0]
  BY WriterStep
<1>2. w \in Threads
  BY DEF Threads
<1>3. Contents' = Contents
  BY <1>2, ContentsAfter
<1>4. Has(pipe', "EOF") <=> Has(pipe, "EOF")
  BY DEF Ends
<1>5. Same
  BY <1>3, <1>4 DEF Same
<1>6. CASE Todo' = [Todo EXCEPT ![w] = <<>>] /\ Orig' = [Orig EXCEPT ![w] = 0]
  BY <1>1, <1>5, <1>6, StreamEnds
<1>7. CASE /\ Todo' = [Todo EXCEPT ![w] = c.uio]
           /\ Orig' = [Orig EXCEPT ![w] = c.orig_resid]
  <2>1. Todo' = Todo /\ Orig' = Orig
    BY <1>7 DEF Todo, Orig
  <2> QED BY <1>1, <1>5, <2>1, StreamStutters
<1> QED BY <1>1, <1>6, <1>7

-----------------------------------------------------------------------------
(* Readers. *)

LEMMA ReadStreams ==
  ASSUME IInv, StreamInv, NEW r \in Readers, Read(r)
  PROVE  StreamInv' /\ StreamStep
<1> DEFINE p == [pipe EXCEPT !.busy = @ + 1]
<1>1. PICK n \in ReadSizes, nb \in {FALSE, (r \in FNONBLOCK)} :
        /\ Calls(r, "read") /\ UNCHANGED open
        /\ ReadStart(r, p, [NoCall EXCEPT !.resid = n, !.nonblock = nb])
  BY DEF Read
<1> DEFINE c == [NoCall EXCEPT !.resid = n, !.nonblock = nb]
<1>2. c \in CallRecs
  <2>1. n \in Nat /\ nb \in BOOLEAN
    BY PipeAssumption, FlagIsBoolean
  <2> QED BY <2>1, NoCallOK DEF CallRecs
<1>3. Like(pipe, p) /\ p \in Shapes
  BY ShapeOfPipe, LikeInOut DEF Like
<1> HIDE DEF p, c
<1>4. r \in Threads
  BY DEF Threads
<1>5. Ends(r, p, c, ReadPlaces)
  BY <1>1, <1>2, <1>3, <1>4, ReadStartEnds DEF c
<1>6. Bytes(p, Cloned(r)) = Bytes(pipe, Cloned(r)) /\ (Has(p, "EOF") <=> Has(pipe, "EOF"))
  BY <1>3, LikeBytes DEF Like
<1> QED BY <1>1, <1>5, <1>6, ReaderStutters DEF Calls

LEMMA ReadAwakeStreams ==
  ASSUME IInv, StreamInv, NEW r \in Readers, ReadAwake(r)
  PROVE  StreamInv' /\ StreamStep
<1>1. r \in Threads /\ call[r] \in CallRecs /\ pipe \in Shapes
  BY ShapeOfPipe DEF Threads, IInv, TypeInv
<1>2. Ends(r, pipe, call[r], ReadPlaces) /\ open' = open /\ pc[r] \in ReadPlaces
  <2>1. CASE Awake(r, "rdlk") /\ (ReadExit(r, pipe) \/ ReadStart(r, pipe, call[r]))
    BY <1>1, <2>1, ReadExitEnds, ReadStartEnds DEF Awake, ReadPlaces
  <2>2. CASE \E l \in {"piperd", "rdlk2"} :
               Awake(r, l) /\ (ReadExit(r, pipe) \/ ReadAgain(r, pipe, call[r]))
    BY <1>1, <2>2, ReadExitEnds, ReadAgainEnds DEF Awake, ReadPlaces
  <2> QED BY <2>1, <2>2 DEF ReadAwake
<1>3. "read" \in open
  BY <1>2 DEF StreamInv
<1> QED BY <1>2, <1>3, ReaderStutters

LEMMA ReadSpaceStreams ==
  ASSUME IInv, StreamInv, NEW r \in Readers, ReadSpace(r)
  PROVE  StreamInv' /\ StreamStep
<1>1. r \in Threads /\ call[r] \in CallRecs /\ pipe \in Shapes /\ PipeOK(pipe)
  BY ShapeOfPipe DEF Threads, IInv, TypeInv
<1>2. PICK p \in Resized(pipe, SMALL_PIPE_SIZE) : ReadLoop(r, p, call[r])
  BY DEF ReadSpace
<1>3. pc[r] = "rdspace" /\ open' = open
  BY DEF ReadSpace, Back
<1>4. ~ Has(pipe, "DIRECTW") /\ pipe.cnt <= SMALL_PIPE_SIZE /\ SMALL_PIPE_SIZE \in PipeSizes
  BY <1>1, <1>3, SizeFacts DEF IInv, At, Working
<1>5. PipeOK(p) /\ p.state = pipe.state
  BY <1>1, <1>2, <1>4, ResizedOK
<1>6. Bytes(p, FALSE) = Bytes(pipe, FALSE)
  BY <1>1, <1>2, <1>4, ResizedRing
<1>7. Cloned(r) = FALSE
  BY <1>1, <1>3, CloneOwns DEF Unlocked
<1>8. p \in Shapes
  BY <1>5, PipesAreShapes DEF PipeOK
<1>9. Ends(r, p, call[r], ReadPlaces)
  BY <1>1, <1>2, <1>8, ReadLoopEnds
<1>10. "read" \in open
  BY <1>3 DEF StreamInv, ReadPlaces
<1>11. Has(p, "EOF") <=> Has(pipe, "EOF")
  BY <1>5 DEF Has
<1> QED BY <1>3, <1>6, <1>7, <1>9, <1>10, <1>11, ReaderStutters

LEMMA ReaderReads ==
  ASSUME IInv, StreamInv, NEW r \in Readers, NEW p, NEW c, Ends(r, p, c, ReadPlaces),
         open' = open, "read" \in open, Cloned(r) = FALSE,
         Has(p, "EOF") <=> Has(pipe, "EOF"), NEW s, s = Bytes(pipe, FALSE),
         NEW n \in 1..Len(s), Bytes(p, FALSE) = SubSeq(s, n + 1, Len(s))
  PROVE  StreamInv' /\ StreamStep
<1>1. StreamInv' /\ Todo' = Todo /\ Orig' = Orig
  BY ReaderStep
<1>2. r \in Threads /\ r \notin Writers /\ "dwclone" \notin ReadPlaces
  BY PipeAssumption DEF Threads, ReadPlaces
<1>3. Contents' = Bytes(p, FALSE)
  BY <1>2, ContentsAfter
<1>4. Contents = s
  BY <1>2, ContentsBefore
<1>5. Has(pipe', "EOF") <=> Has(pipe, "EOF")
  BY DEF Ends
<1> QED BY <1>1, <1>3, <1>4, <1>5, StreamReads

LEMMA ReadFaultStreams ==
  ASSUME IInv, StreamInv, NEW r \in Readers, pc[r] \in ReadPlaces, open' = open,
         ReadExit(r, pipeunlock(pipe))
  PROVE  StreamInv' /\ StreamStep
<1>1. Ends(r, pipe, call[r], ReadPlaces)
  BY ShapeOfPipe, UnlockReadExitEnds DEF Threads
<1>2. "read" \in open
  BY DEF StreamInv
<1> QED BY <1>1, <1>2, ReaderStutters

LEMMA ReadCopiedStreams ==
  ASSUME IInv, StreamInv, NEW r \in Readers, ReadCopied(r)
  PROVE  StreamInv' /\ StreamStep
<1> DEFINE c == call[r]
           n == c.size
           q == Taken(pipe, n)
           d == [c EXCEPT !.resid = @ - c.size, !.nread = TRUE, !.size = 0]
<1>1. r \in Threads /\ c \in CallRecs /\ PipeOK(pipe)
  BY ShapeOfPipe DEF Threads, IInv, TypeInv
<1>2. pc[r] = "rdcopy" /\ open' = open /\ pc[r] \in ReadPlaces
  BY DEF ReadCopied, Back, ReadPlaces
<1>3. "read" \in open /\ Cloned(r) = FALSE
  BY <1>1, <1>2, CloneOwns DEF StreamInv, Unlocked
<1>4. CASE ReadLoop(r, q, d)
  <2>1. /\ n \in Nat /\ n > 0 /\ n <= pipe.size - pipe.out /\ n <= pipe.cnt /\ n <= c.resid
    BY <1>1, <1>2 DEF IInv, At, Working, CallRecs
  <2>2. d \in CallRecs
    BY <1>1, <2>1, ReadSome
  <2>3. PipeOK(q) /\ q.state = pipe.state
    BY <1>1, <2>1, TakenOK
  <2>4. Ring(q) = SubSeq(Ring(pipe), n + 1, Len(Ring(pipe)))
    BY <1>1, <2>1, TakenRing
  <2>5. Len(Ring(pipe)) = pipe.cnt
    BY <1>1, PipeRing DEF IsRead
  <2> HIDE DEF q, d, n
  <2>6. n \in 1..Len(Ring(pipe))
    BY <1>1, <2>1, <2>5, Fields
  <2>7. ~ Has(pipe, "DIRECTW")
    BY <1>1, <2>1, Fields DEF PipeOK
  <2>8. Bytes(pipe, FALSE) = Ring(pipe) /\ Bytes(q, FALSE) = Ring(q)
    BY <2>3, <2>7 DEF Bytes, Has
  <2>9. Ends(r, q, d, ReadPlaces)
    BY <1>1, <1>4, <2>2, <2>3, PipesAreShapes, ReadLoopEnds DEF PipeOK
  <2>10. Has(q, "EOF") <=> Has(pipe, "EOF")
    BY <2>3 DEF Has
  <2> QED BY <1>2, <1>3, <2>4, <2>6, <2>8, <2>9, <2>10, ReaderReads
<1>5. CASE ReadExit(r, pipeunlock(pipe))
  BY <1>2, <1>5, ReadFaultStreams
<1> QED BY <1>4, <1>5 DEF ReadCopied

LEMMA ReadDirectStreams ==
  ASSUME IInv, StreamInv, NEW r \in Readers, ReadDirect(r)
  PROVE  StreamInv' /\ StreamStep
<1> DEFINE c == call[r]
           n == c.size
           p == [pipe EXCEPT !.pos = @ + c.size, !.mapcnt = @ - c.size]
           q == IF p.mapcnt = 0 THEN wakeup(Clear(p, {"DIRECTW", "WANTW"})) ELSE p
           d == [c EXCEPT !.resid = @ - c.size, !.nread = TRUE, !.size = 0]
<1>1. r \in Threads /\ c \in CallRecs /\ PipeOK(pipe)
  BY ShapeOfPipe DEF Threads, IInv, TypeInv
<1>2. pc[r] = "rddirect" /\ open' = open /\ pc[r] \in ReadPlaces
  BY DEF ReadDirect, Back, ReadPlaces
<1>3. "read" \in open /\ Cloned(r) = FALSE
  BY <1>1, <1>2, CloneOwns DEF StreamInv, Unlocked
<1>4. CASE ReadLoop(r, q, d)
  <2>1. /\ n \in Nat /\ n > 0 /\ n <= pipe.mapcnt /\ n <= c.resid /\ Has(pipe, "DIRECTW")
    BY <1>1, <1>2 DEF IInv, At, Working, CallRecs
  <2>2. d \in CallRecs
    BY <1>1, <2>1, ReadSome
  <2>3. pipe \in Shapes /\ pipe.mapcnt \in Nat /\ pipe.pos \in Nat /\ pipe.cnt = 0
        /\ pipe.pos + pipe.mapcnt <= Len(pipe.ms) /\ pipe.ms \in Seq(Byte)
    BY <1>1, <2>1, Fields, ShapeOfPipe DEF PipeOK, Pipes
  <2> HIDE DEF d
  <2>4. /\ q \in Shapes /\ q.mapcnt = pipe.mapcnt - n /\ q.pos = pipe.pos + n
        /\ q.cnt = 0 /\ q.ms = pipe.ms
        /\ Has(q, "EOF") <=> Has(pipe, "EOF")
        /\ Has(q, "DIRECTW") <=> q.mapcnt # 0
    <3>1. n = c.size
      OBVIOUS
    <3> HIDE DEF n, c
    <3>2. /\ p \in Shapes /\ p.mapcnt = pipe.mapcnt - n /\ p.pos = pipe.pos + n
          /\ p.cnt = 0 /\ p.ms = pipe.ms /\ p.state = pipe.state
      <4>1. pipe.mapcnt - c.size \in Nat /\ pipe.pos + c.size \in Nat
        BY <2>1, <2>3, <3>1
      <4> QED BY <2>3, <3>1, <4>1 DEF Shapes
    <3> HIDE DEF p
    <3> QED BY <2>1, <3>2 DEF wakeup, Clear, Shapes, Flags, Has
  <2> HIDE DEF q, n, p
  <2>5. q.pos + q.mapcnt <= Len(q.ms)
    BY <2>1, <2>3, <2>4, LenProperties
  <2>6. Bytes(pipe, FALSE) = Mapped(pipe)
    BY <2>1, <2>3, EmptyBytes DEF Bytes
  <2>7. Len(Mapped(pipe)) = pipe.mapcnt
    BY <2>3, MappedOK
  <2>8. /\ Mapped(q) = SubSeq(Mapped(pipe), n + 1, Len(Mapped(pipe)))
        /\ q.mapcnt = 0 => Mapped(q) = <<>>
    BY <1>1, <2>1, <2>4, MappedTake
  <2>9. Bytes(q, FALSE) = Mapped(q)
    BY <2>4, <2>5, <2>8, EmptyBytes DEF Bytes
  <2>10. n \in 1..Len(Mapped(pipe))
    BY <2>1, <2>3, <2>7
  <2>11. Ends(r, q, d, ReadPlaces)
    BY <1>1, <1>4, <2>2, <2>4, ReadLoopEnds
  <2> QED BY <1>2, <1>3, <2>4, <2>6, <2>8, <2>9, <2>10, <2>11, ReaderReads
<1>5. CASE ReadExit(r, pipeunlock(pipe))
  BY <1>2, <1>5, ReadFaultStreams
<1> QED BY <1>4, <1>5 DEF ReadDirect

-----------------------------------------------------------------------------
(* Writers. *)

LEMMA WriteStreams ==
  ASSUME IInv, StreamInv, NEW w \in Writers, Write(w)
  PROVE  StreamInv' /\ StreamStep
<1>1. PICK n \in WriteSizes[w], nb \in {FALSE, (w \in FNONBLOCK)} :
        /\ Calls(w, "write") /\ UNCHANGED open
        /\ WriteStart(w, pipe, [NoCall EXCEPT !.uio = [i \in 1..n |-> <<w, i>>],
                                              !.orig_resid = n, !.nonblock = nb])
  BY DEF Write
<1> DEFINE u == [i \in 1..n |-> <<w, i>>]
           c == [NoCall EXCEPT !.uio = u, !.orig_resid = n, !.nonblock = nb]
<1>2. /\ w \in Threads /\ pc[w] = "idle" /\ "write" \in open /\ open' = open
      /\ pipe \in Shapes
  BY <1>1, ShapeOfPipe DEF Calls, Threads
<1>3. n \in Nat
  <2>1. WriteSizes[w] \in SUBSET (Nat \ {0})
    BY PipeAssumption
  <2> QED BY <2>1
<1>4. u \in Seq(Byte) /\ Len(u) = n
  <2>1. u \in [1..n -> Byte]
    <3>1. \A i \in 1..n : <<w, i>> \in Byte
      BY <1>3 DEF Byte
    <3> QED BY <3>1
  <2> HIDE DEF u
  <2>2. u \in Seq(Byte)
    BY <1>3, <2>1, SeqDef
  <2>3. DOMAIN u = 1..Len(u) /\ Len(u) \in Nat /\ DOMAIN u = 1..n
    BY <2>1, <2>2, LenProperties
  <2> QED BY <1>3, <2>2, <2>3
<1>5. WriteStart(w, pipe, c)
  BY <1>1
<1> HIDE DEF u
<1>6. c \in CallRecs /\ c.uio = u /\ c.orig_resid = n
  <2>1. nb \in BOOLEAN
    BY FlagIsBoolean
  <2> QED BY <1>3, <1>4, <2>1, NoCallOK DEF CallRecs
<1> HIDE DEF c
<1>7. Ends(w, pipe, c, WriterLocations)
  BY <1>2, <1>5, <1>6, CloneOwns, WriteStartEnds
<1>8. /\ StreamInv'
      /\ \/ /\ Todo' = [Todo EXCEPT ![w] = u]
            /\ Orig' = [Orig EXCEPT ![w] = n]
         \/ /\ Todo' = [Todo EXCEPT ![w] = <<>>]
            /\ Orig' = [Orig EXCEPT ![w] = 0]
  BY <1>2, <1>6, <1>7, WriterStep
<1>9. Same
  <2>1. Contents' = Contents
    BY <1>2, <1>7, ContentsAfter, ContentsBefore
  <2>2. Has(pipe', "EOF") <=> Has(pipe, "EOF")
    BY <1>7 DEF Ends
  <2> QED BY <1>2, <2>1, <2>2 DEF Same
<1>10. call[w].orig_resid = 0
  BY <1>2, NoCallOK DEF StreamInv
<1> QED BY <1>4, <1>8, <1>9, <1>10, StreamBegins, StreamEnds

LEMMA WriteAwakeStreams ==
  ASSUME IInv, StreamInv, NEW w \in Writers, WriteAwake(w)
  PROVE  StreamInv' /\ StreamStep
<1> DEFINE c == call[w]
           e == [c EXCEPT !.error = w \in intr]
<1>1. w \in Threads /\ c \in CallRecs /\ pipe \in Shapes /\ PipeOK(pipe)
  BY ShapeOfPipe DEF Threads, IInv, TypeInv
<1>2. open' = open /\ pc[w] \notin {"idle", "poll", "dwclone"}
  BY DEF WriteAwake, Awake
<1>3. "write" \in open /\ (Has(pipe, "EOF") => "read" \notin open')
  BY <1>2, WriterInside
<1>4. ~ Cloned(w) \/ Has(pipe, "LOCKFL")
  BY <1>1, CloneOwns
<1>5. pc[w] \in {"dwlk", "pipdww"} => Len(c.uio) >= PIPE_MINDIRECT
  BY DEF StreamInv, Promise
<1>6. e \in CallRecs /\ e.uio = c.uio /\ e.orig_resid = c.orig_resid
  <2>1. (w \in intr) \in BOOLEAN
    OBVIOUS
  <2> QED BY <1>1, <2>1 DEF CallRecs
<1>7. Ends(w, pipe, c, WriterLocations) \/ Ends(w, pipe, e, WriterLocations)
  <2>1. CASE Return(w, pipe)
    BY <1>1, <2>1, LikeSelf, EndsIdle
  <2>2. CASE WriteStart(w, pipe, c)
    BY <1>1, <1>4, <2>2, WriteStartEnds
  <2>3. CASE WriteLoop(w, pipe, c)
    BY <1>1, <1>4, <2>3, WriteLoopEnds
  <2>4. CASE WriteEnd(w, pipe, c) \/ error1(w, pipe, c)
    BY <1>1, <2>4, WriteEndEnds, UnlockWriteEndEnds
  <2>5. CASE pc[w] \in {"dwlk", "pipdww"} /\ pipe_direct_write(w, pipe, c)
    BY <1>1, <1>4, <1>5, <2>5, pipe_direct_writeEnds
  <2>6. CASE DirectAgain(w, pipe, c)
    BY <1>1, <1>3, <1>4, <2>6, DirectAgainEnds
  <2>7. CASE DirectAgain(w, pipe, e)
    <3> HIDE DEF e
    <3> QED BY <1>1, <1>3, <1>4, <1>6, <2>7, DirectAgainEnds
  <2> QED BY <2>1, <2>2, <2>3, <2>4, <2>5, <2>6, <2>7 DEF WriteAwake, Awake
<1> HIDE DEF e
<1>8. Contents = IF "read" \notin open /\ Has(pipe, "EOF") THEN <<>>
                 ELSE Bytes(pipe, Cloned(w))
  BY <1>2, ContentsBefore
<1> QED BY <1>2, <1>3, <1>6, <1>7, <1>8, WriterStutters

LEMMA WriteSpaceStreams ==
  ASSUME IInv, StreamInv, NEW w \in Writers, WriteSpace(w)
  PROVE  StreamInv' /\ StreamStep
<1> DEFINE c == [call[w] EXCEPT !.size = 0]
<1>1. w \in Threads /\ call[w] \in CallRecs /\ PipeOK(pipe)
  BY ShapeOfPipe DEF Threads, IInv, TypeInv
<1>2. pc[w] = "wrspace" /\ open' = open
  BY DEF WriteSpace, Back
<1>3. "write" \in open /\ Cloned(w) = FALSE
  BY <1>1, <1>2, WriterInside, CloneOwns DEF Unlocked
<1>4. PICK p \in Resized(pipe, call[w].size) : WriteSized(w, p, c)
  BY DEF WriteSpace
<1>5. ~ Has(pipe, "DIRECTW") /\ call[w].size \in PipeSizes /\ pipe.cnt <= call[w].size
  BY <1>1, <1>2 DEF IInv, At, Working
<1>6. PipeOK(p) /\ p.state = pipe.state
  BY <1>1, <1>4, <1>5, ResizedOK
<1>7. Bytes(p, FALSE) = Bytes(pipe, FALSE)
  BY <1>1, <1>4, <1>5, ResizedRing
<1>8. c \in CallRecs /\ c.uio = call[w].uio /\ c.orig_resid = call[w].orig_resid
  BY <1>1 DEF CallRecs
<1> HIDE DEF c
<1>9. Ends(w, p, c, WriterLocations)
  BY <1>1, <1>3, <1>4, <1>6, <1>8, PipesAreShapes, WriteSizedEnds DEF PipeOK
<1>10. Has(p, "EOF") <=> Has(pipe, "EOF")
  BY <1>6 DEF Has
<1>11. Contents = IF "read" \notin open /\ Has(pipe, "EOF") THEN <<>>
                  ELSE Bytes(p, Cloned(w))
  BY <1>2, <1>3, <1>7, ContentsBefore
<1> QED BY <1>2, <1>3, <1>8, <1>9, <1>10, <1>11, WriterStutters

LEMMA DirectCloneStreams ==
  ASSUME IInv, StreamInv, NEW w \in Writers, DirectClone(w)
  PROVE  StreamInv' /\ StreamStep
<1> DEFINE m == Mapped(pipe)
           f == [i \in DOMAIN pipe.buffer |-> IF i < pipe.mapcnt THEN m[i + 1] ELSE None]
           p == [pipe EXCEPT !.buffer = f]
           y == Unmap(p)
<1>1. w \in Threads /\ PipeOK(pipe) /\ pc[w] = "dwclone" /\ open' = open
  BY ShapeOfPipe DEF Threads, DirectClone, Back
<1>2. "write" \in open /\ Cloned(w) = FALSE
  BY <1>1, WriterInside, CloneOwns DEF Unlocked
<1>3. ~ Has(pipe, "DIRECTW") /\ pipe.cnt = pipe.mapcnt /\ pipe.out = 0
  BY <1>1 DEF IInv, At, Working
<1>4. /\ pipe \in Pipes /\ pipe.ms \in Seq(Byte) /\ pipe.pos \in Nat /\ pipe.mapcnt \in Nat
      /\ pipe.pos + pipe.mapcnt <= Len(pipe.ms)
      /\ pipe.buffer \in [0..(BIG_PIPE_SIZE - 1) -> Byte \cup {None}]
  BY <1>1 DEF PipeOK, Pipes
<1>5. m \in Seq(Byte) /\ Len(m) = pipe.mapcnt
  BY <1>4, MappedOK
<1> HIDE DEF m
<1>6. f \in [0..(BIG_PIPE_SIZE - 1) -> Byte \cup {None}]
  <2>1. \A i \in 0..(BIG_PIPE_SIZE - 1) : i < pipe.mapcnt => m[i + 1] \in Byte
    <3> SUFFICES ASSUME NEW i \in 0..(BIG_PIPE_SIZE - 1), i < pipe.mapcnt
                 PROVE  m[i + 1] \in Byte
      OBVIOUS
    <3>1. i + 1 \in 1..Len(m)
      BY <1>4, <1>5, SizeFacts
    <3> QED BY <1>5, <3>1, ElementOfSeq
  <2> QED BY <1>4, <2>1
<1>7. WriteEnd(w, pipeunlock(y), call[w])
  BY DEF DirectClone, m
<1>f. f = [i \in DOMAIN pipe.buffer |-> IF i < pipe.mapcnt THEN Mapped(pipe)[i + 1] ELSE None]
  BY DEF m
<1> HIDE DEF f
<1>8. /\ p \in Pipes /\ p.mapcnt = pipe.mapcnt /\ p.pos = pipe.pos /\ p.ms = pipe.ms
      /\ p.size = pipe.size /\ p.in = pipe.in /\ p.out = pipe.out /\ p.cnt = pipe.cnt
      /\ p.present = pipe.present /\ p.state = pipe.state /\ p.buffer = f
  BY <1>4, <1>6 DEF Pipes
<1> HIDE DEF p
<1>9. PipeOK(p)
  BY <1>1, <1>8 DEF PipeOK, Has
<1>10. Ring(p) = Mapped(pipe)
  <2>1. p.buffer = [i \in DOMAIN pipe.buffer |->
                      IF i < pipe.mapcnt THEN Mapped(pipe)[i + 1] ELSE None]
    BY <1>8, <1>f
  <2> QED BY <1>1, <1>3, <1>8, <1>9, <2>1, CloneRing
<1>11. p \in Shapes /\ ~ Has(p, "DIRECTW") /\ (Has(p, "EOF") <=> Has(pipe, "EOF"))
  BY <1>3, <1>8, PipesAreShapes DEF Has
<1>12. y \in Shapes /\ Bytes(y, FALSE) = Mapped(pipe) /\ (Has(y, "EOF") <=> Has(pipe, "EOF"))
  BY <1>10, <1>11, UnmapSame DEF Bytes
<1> HIDE DEF y
<1>13. Ends(w, y, call[w], WriterLocations)
  BY <1>1, <1>7, <1>12, UnlockWriteEndEnds
<1>14. Contents = IF "read" \notin open /\ Has(pipe, "EOF") THEN <<>>
                  ELSE Bytes(y, Cloned(w))
  <2>1. (\E u \in Writers : pc[u] = "dwclone") = TRUE
    BY <1>1
  <2>2. Bytes(pipe, TRUE) = Mapped(pipe)
    BY <1>3 DEF Bytes
  <2> QED BY <1>2, <1>12, <2>1, <2>2 DEF Contents
<1> QED BY <1>1, <1>2, <1>12, <1>13, <1>14, WriterStutters

LEMMA WriterWrites ==
  ASSUME IInv, StreamInv, NEW w \in Writers, NEW p, NEW c, Ends(w, p, c, WriterLocations),
         open' = open, "write" \in open, Cloned(w) = FALSE, pc[w] # "dwclone",
         ~ Has(pipe, "EOF"), ~ Has(p, "EOF"), NEW n \in 1..Len(call[w].uio),
         call[w].orig_resid <= PIPE_BUF => n = Len(call[w].uio),
         c.uio = Rest(call[w].uio, n), c.orig_resid = call[w].orig_resid,
         Bytes(p, FALSE) = Bytes(pipe, FALSE) \o SubSeq(call[w].uio, 1, n)
  PROVE  StreamInv' /\ StreamStep
<1>1. /\ StreamInv'
      /\ \/ /\ Todo' = [Todo EXCEPT ![w] = c.uio]
            /\ Orig' = [Orig EXCEPT ![w] = c.orig_resid]
         \/ /\ Todo' = [Todo EXCEPT ![w] = <<>>]
            /\ Orig' = [Orig EXCEPT ![w] = 0]
  BY WriterStep
<1>2. [Orig EXCEPT ![w] = c.orig_resid] = Orig
  BY DEF Orig
<1>3. w \in Threads
  BY DEF Threads
<1>4. Contents' = Bytes(p, FALSE) /\ Contents = Bytes(pipe, FALSE)
  BY <1>3, ContentsAfter, ContentsBefore
<1>5. Has(pipe', "EOF") <=> Has(pipe, "EOF")
  BY DEF Ends
<1> QED BY <1>1, <1>2, <1>4, <1>5, StreamWrites

LEMMA WriteCopiedStreams ==
  ASSUME IInv, StreamInv, NEW w \in Writers, WriteCopied(w)
  PROVE  StreamInv' /\ StreamStep
<1> DEFINE u == call[w].uio
           n == call[w].size
           s == SubSeq(u, 1, n)
           c == [call[w] EXCEPT !.uio = Rest(u, n), !.size = 0]
           q == Put(pipe, s)
<1>1. /\ w \in Threads /\ pc[w] = "wrcopy" /\ open' = open /\ call[w] \in CallRecs
      /\ PipeOK(pipe) /\ pipe \in Shapes
  BY ShapeOfPipe DEF Threads, WriteCopied, Back, IInv, TypeInv
<1>2. "write" \in open /\ Cloned(w) = FALSE /\ pc[w] # "dwclone"
  BY <1>1, WriterInside, CloneOwns DEF Unlocked
<1>3. /\ ~ Has(pipe, "DIRECTW") /\ n > 0 /\ n <= Len(u) /\ n <= pipe.size - pipe.cnt
      /\ u \in Seq(Byte) /\ n \in Nat /\ Len(u) \in Nat
  BY <1>1, LenProperties DEF IInv, At, Working, CallRecs
<1>4. ~ Has(pipe, "EOF") /\ (call[w].orig_resid <= PIPE_BUF => n = Len(u))
  BY <1>1 DEF StreamInv, Promise
<1>5. CASE WriteLoop(w, pipeunlock(q), c)
  <2>1. s \in Seq(Byte) /\ Len(s) = n /\ Rest(u, n) \in Seq(Byte)
    BY <1>3, RestOK
  <2>2. PipeOK(q) /\ q.state = pipe.state
    BY <1>1, <1>3, <2>1, PutOK
  <2>3. Ring(q) = Ring(pipe) \o s
    BY <1>1, <1>3, <2>1, PutRing
  <2>4. c \in CallRecs /\ c.uio = Rest(u, n) /\ c.orig_resid = call[w].orig_resid
    BY <1>1, <2>1 DEF CallRecs
  <2> HIDE DEF q, c
  <2>5. Bytes(q, FALSE) = Bytes(pipe, FALSE) \o s /\ ~ Has(q, "EOF")
    BY <1>3, <1>4, <2>2, <2>3 DEF Bytes, Has
  <2>6. Ends(w, q, c, WriterLocations)
    BY <1>1, <1>2, <1>5, <2>2, <2>4, PipesAreShapes, UnlockWriteLoopEnds DEF PipeOK
  <2>7. n \in 1..Len(u)
    BY <1>3
  <2> QED BY <1>1, <1>2, <1>4, <2>4, <2>5, <2>6, <2>7, WriterWrites
<1>6. CASE WriteEnd(w, pipeunlock(pipe), call[w])
  <2>1. Ends(w, pipe, call[w], WriterLocations)
    BY <1>1, <1>6, UnlockWriteEndEnds
  <2>2. Contents = IF "read" \notin open /\ Has(pipe, "EOF") THEN <<>>
                   ELSE Bytes(pipe, Cloned(w))
    BY <1>2, ContentsBefore
  <2> QED BY <1>1, <1>2, <2>1, <2>2, WriterStutters
<1> QED BY <1>5, <1>6 DEF WriteCopied

LEMMA SubSeqAll ==
  ASSUME NEW s \in Seq(Byte), NEW n, n = Len(s) PROVE SubSeq(s, 1, n) = s
<1> DEFINE S == SubSeq(s, 1, n)
<1>1. n \in Nat /\ \A i \in 1..n : s[i] \in Byte
  BY LenProperties, ElementOfSeq
<1>2. /\ S \in Seq(Byte) /\ Len(S) = IF 1 <= n THEN n - 1 + 1 ELSE 0
      /\ \A i \in 1..(n - 1 + 1) : S[i] = s[1 + i - 1]
  <2>1. 1 \in Int /\ n \in Int
    BY <1>1
  <2> QED BY <1>1, <2>1, SubSeqProperties
<1> HIDE DEF S
<1>3. Len(S) = n /\ \A i \in 1..n : S[i] = s[i]
  BY <1>1, <1>2
<1> QED BY <1>2, <1>3, SeqEqual DEF S

LEMMA DirectBuildStreams ==
  ASSUME IInv, StreamInv, NEW w \in Writers, DirectBuild(w)
  PROVE  StreamInv' /\ StreamStep
<1> DEFINE u == call[w].uio
           n == Min({Len(u), pipe.size})
           s == SubSeq(u, 1, n)
           q == [pipe EXCEPT !.ms = s, !.pos = 0, !.mapcnt = n]
           c == [call[w] EXCEPT !.uio = Rest(u, n)]
           y == Clear(pipe, {"DIRECTW"})
<1>1. /\ w \in Threads /\ pc[w] = "dwbuild" /\ open' = open /\ call[w] \in CallRecs
      /\ PipeOK(pipe) /\ pipe \in Shapes
  BY ShapeOfPipe DEF Threads, DirectBuild, Back, IInv, TypeInv
<1>2. "write" \in open /\ Cloned(w) = FALSE /\ pc[w] # "dwclone"
  BY <1>1, WriterInside, CloneOwns DEF Unlocked
<1>3. At(w, pipe, "dwbuild", call[w])
  BY <1>1 DEF IInv
<1>4. /\ Has(pipe, "DIRECTW") /\ pipe.mapcnt = 0 /\ pipe.cnt = 0 /\ pipe.size # 0
      /\ u # <<>> /\ Len(u) <= call[w].orig_resid /\ pipe.size \in Nat /\ pipe \in Pipes
  BY <1>1, <1>3, Fields DEF At, Working, CallOK, PipeOK, WriterLocations
<1>5. u \in Seq(Byte) /\ Len(u) \in Nat /\ Len(u) > 0 /\ call[w].orig_resid \in Nat
  BY <1>1, <1>4, EmptySeq, LenProperties DEF CallRecs
<1>6. n \in Nat /\ n > 0 /\ n <= Len(u) /\ n <= pipe.size
  <2> DEFINE a == Len(u)
             b == pipe.size
  <2>1. a \in Nat /\ a > 0 /\ b \in Nat /\ b # 0 /\ n = Min({a, b})
    BY <1>4, <1>5
  <2> HIDE DEF a, b, n
  <2>2. n \in Nat /\ n > 0 /\ n <= a /\ n <= b
    BY <2>1, Min2
  <2> QED BY <2>2 DEF a, b
<1>7. ~ Has(pipe, "EOF") /\ Len(u) >= PIPE_MINDIRECT
  BY <1>1 DEF StreamInv, Promise
<1>8. ~ (call[w].orig_resid <= PIPE_BUF)
  BY <1>4, <1>5, <1>7, PipeAssumption
<1>9. Bytes(pipe, FALSE) = <<>>
  <2>1. Ring(pipe) = <<>> /\ Mapped(pipe) = <<>>
    BY <1>1, <1>4, EmptyBytes
  <2> QED BY <1>4, <2>1 DEF Bytes
<1>10. CASE DirectLoop(w, q, c)
  <2> HIDE DEF n
  <2>1. s \in Seq(Byte) /\ Len(s) = n /\ Rest(u, n) \in Seq(Byte)
    BY <1>5, <1>6, RestOK
  <2>2. c \in CallRecs /\ c.uio = Rest(u, n) /\ c.orig_resid = call[w].orig_resid
    BY <1>1, <2>1 DEF CallRecs
  <2> HIDE DEF s
  <2>3. /\ q \in Pipes /\ q.mapcnt = n /\ q.pos = 0 /\ q.ms = s
        /\ q.size = pipe.size /\ q.in = pipe.in /\ q.out = pipe.out /\ q.cnt = pipe.cnt
        /\ q.present = pipe.present /\ q.state = pipe.state
    BY <1>4, <1>6, <2>1 DEF Pipes
  <2> HIDE DEF q, c
  <2>4. q.pos + q.mapcnt <= Len(q.ms) /\ q.mapcnt <= q.size
    BY <1>4, <1>6, <2>1, <2>3
  <2>5. PipeOK(q) /\ Has(q, "DIRECTW") /\ ~ Has(q, "EOF")
    BY <1>1, <1>4, <1>7, <2>3, <2>4 DEF PipeOK, Has
  <2>6. Mapped(q) = s
    <3>1. q.pos + 1 = 1 /\ q.pos + q.mapcnt = n
      BY <1>6, <2>3
    <3>2. Mapped(q) = SubSeq(s, 1, n)
      BY <2>3, <3>1 DEF Mapped
    <3> QED BY <2>1, <3>2, SubSeqAll
  <2>7. Bytes(q, FALSE) = s
    <3>1. q \in Shapes /\ q.cnt = 0
      BY <1>4, <2>3, PipesAreShapes
    <3> QED BY <2>4, <2>5, <2>6, <3>1, EmptyBytes DEF Bytes
  <2>8. Bytes(q, FALSE) = Bytes(pipe, FALSE) \o s
    BY <1>9, <2>1, <2>7, ConcatEmptySeq
  <2>9. Ends(w, q, c, WriterLocations)
    BY <1>1, <1>2, <1>10, <2>2, <2>5, DirectLoopEnds
  <2>10. n \in 1..Len(u)
    BY <1>5, <1>6
  <2> QED BY <1>1, <1>2, <1>7, <1>8, <2>2, <2>5, <2>8, <2>9, <2>10, WriterWrites DEF s
<1>11. CASE error1(w, pipeunlock(y), call[w])
  <2>1. /\ y \in Shapes /\ y.cnt = 0 /\ ~ Has(y, "DIRECTW")
        /\ Has(y, "EOF") <=> Has(pipe, "EOF")
    BY <1>1, <1>4 DEF Clear, Shapes, Has, Flags
  <2> HIDE DEF y
  <2>2. Ring(y) = <<>>
    BY <2>1, EmptyBytes
  <2>3. Bytes(y, FALSE) = <<>>
    BY <2>1, <2>2 DEF Bytes
  <2>4. Ends(w, y, call[w], WriterLocations)
    BY <1>1, <1>11, <2>1, UnlockWriteEndEnds
  <2>5. Contents = IF "read" \notin open /\ Has(pipe, "EOF") THEN <<>>
                   ELSE Bytes(y, Cloned(w))
    BY <1>2, <1>9, <2>3, ContentsBefore
  <2> QED BY <1>1, <1>2, <2>1, <2>4, <2>5, WriterStutters
<1> QED BY <1>10, <1>11 DEF DirectBuild

-----------------------------------------------------------------------------
(* The closing of the ends. *)

LEMMA CloseLoopEnds ==
  ASSUME NEW r \in Threads, NEW p \in Shapes, NEW c, CloseLoop(r, p, c)
  PROVE  Ends(r, p, c, ClosePlaces)
<1> DEFINE a == wakeup(p)
           b == Set(a, {"WANT"})
           d == pipeunlock(b)
<1>1. CASE msleep(r, "pipecl", d, c)
  <2>1. Like(p, a) /\ a \in Shapes
    BY LikeWakeup DEF Like
  <2> HIDE DEF a
  <2>2. Like(p, b) /\ b \in Shapes
    BY <2>1, LikeSet, LikeTrans DEF Like
  <2> HIDE DEF b
  <2>3. Like(p, d) /\ Promise(d, "pipecl", c) /\ "pipecl" \in ClosePlaces
    BY <2>2, LikeUnlock, LikeTrans DEF Promise, ClosePlaces
  <2> HIDE DEF d
  <2> QED BY <1>1, <2>3, EndsAsleep
<1>2. CASE Goto(r, "clfree", p, c)
  <2>1. Promise(p, "clfree", c) /\ "clfree" \in ClosePlaces
    BY DEF Promise, ClosePlaces
  <2> QED BY <1>2, <2>1, LikeSelf, EndsAt
<1> QED BY <1>1, <1>2 DEF CloseLoop

LEMMA CloserStep ==
  ASSUME IInv, StreamInv, NEW r \in Readers, NEW p, NEW c, Ends(r, p, c, ClosePlaces),
         open' = open \ {"read"},
         \A u \in Readers : u # r => pc[u] \notin ReadPlaces,
         \/ Has(p, "EOF") <=> Has(pipe, "EOF")
         \/ \A w \in Writers : pc[w] \notin {"wrcopy", "dwbuild"},
         Has(pipe, "EOF") => Has(p, "EOF"),
         ~ Has(p, "EOF") => Bytes(p, Cloned(r)) = Bytes(pipe, Cloned(r))
  PROVE  StreamInv' /\ StreamStep
<1>1. "read" \notin open' /\ open' \subseteq open /\ ("write" \in open => "write" \in open')
  OBVIOUS
<1>2. StreamInv' /\ Todo' = Todo /\ Orig' = Orig
  BY <1>1, ReaderStep
<1>3. r \in Threads /\ r \notin Writers /\ "dwclone" \notin ClosePlaces
  BY PipeAssumption DEF Threads, ClosePlaces
<1>4. Contents' = IF Has(p, "EOF") THEN <<>> ELSE Bytes(p, Cloned(r))
  BY <1>1, <1>3, ContentsAfter
<1>5. ~ Has(p, "EOF") => Contents = Bytes(pipe, Cloned(r))
  BY <1>3, ContentsBefore
<1>6. Has(pipe', "EOF") <=> Has(p, "EOF")
  BY DEF Ends
<1> QED BY <1>1, <1>2, <1>4, <1>5, <1>6, StreamCloses

(* Who comes to set PIPE_EOF has PIPE_LOCKFL: no bytes are on their way in. *)
LEMMA CloseStartStreams ==
  ASSUME IInv, StreamInv, NEW r \in Readers, CloseStart(r, pipe, NoCall),
         open' = open \ {"read"}, \A u \in Readers : u # r => pc[u] \notin ReadPlaces
  PROVE  StreamInv' /\ StreamStep
<1>1. r \in Threads /\ pipe \in Shapes
  BY ShapeOfPipe DEF Threads
<1>2. CASE LockWait(r, "cllk", pipe, NoCall)
  <2>1. Ends(r, pipe, NoCall, ClosePlaces)
    BY <1>1, <1>2, EndsLockWait DEF ClosePlaces
  <2> QED BY <2>1, CloserStep
<1>3. CASE ~ Has(pipe, "LOCKFL") /\ CloseLocked(r, pipelock(pipe), NoCall)
  <2> DEFINE a == pipeselwakeup(pipelock(pipe))
             q == Set(a, {"EOF"})
  <2>1. pipelock(pipe) \in Shapes
    BY <1>1, LikeSet DEF pipelock, Like
  <2>2. a \in Shapes
    BY <2>1, LikeSel DEF Like
  <2>3. CloseLoop(r, q, NoCall)
    BY <1>3 DEF CloseLocked
  <2> HIDE DEF a
  <2>4. q \in Shapes /\ Has(q, "EOF")
    BY <2>2 DEF Set, Shapes, Has, Flags
  <2> HIDE DEF q
  <2>5. Ends(r, q, NoCall, ClosePlaces)
    BY <1>1, <2>3, <2>4, CloseLoopEnds
  <2>6. \A w \in Writers : pc[w] \notin {"wrcopy", "dwbuild"}
    <3>1. \A w \in Writers : pc[w] \in {"wrcopy", "dwbuild"} => w \in Owners(Threads)
      BY DEF Owners, Unlocked, Threads
    <3> QED BY <1>3, <3>1 DEF IInv
  <2> QED BY <2>4, <2>5, <2>6, CloserStep
<1> QED BY <1>2, <1>3 DEF CloseStart

LEMMA CloseReaderStreams ==
  ASSUME IInv, StreamInv, NEW r \in Readers, CloseReader(r)
  PROVE  StreamInv' /\ StreamStep
<1>1. \A u \in Readers : u # r => pc[u] \notin ReadPlaces
  BY DEF CloseReader, ReadPlaces
<1> QED BY <1>1, CloseStartStreams DEF CloseReader

LEMMA Closing ==
  ASSUME StreamInv, NEW r \in Readers, pc[r] \in ClosePlaces
  PROVE  open \ {"read"} = open /\ \A u \in Readers : pc[u] \notin ReadPlaces
<1>1. "read" \notin open
  BY DEF StreamInv
<1> QED BY <1>1 DEF StreamInv

LEMMA CloseAwakeStreams ==
  ASSUME IInv, StreamInv, NEW r \in Readers, CloseAwake(r)
  PROVE  StreamInv' /\ StreamStep
<1>1. r \in Threads /\ pipe \in Shapes
  BY ShapeOfPipe DEF Threads
<1>2. open' = open /\ pc[r] \in ClosePlaces
  BY DEF CloseAwake, Awake, ClosePlaces
<1>3. open' = open \ {"read"} /\ \A u \in Readers : u # r => pc[u] \notin ReadPlaces
  BY <1>2, Closing
<1>4. CASE CloseStart(r, pipe, NoCall)
  BY <1>3, <1>4, CloseStartStreams
<1>5. CASE CloseAgain(r, pipe, NoCall)
  <2>1. CASE LockWait(r, "cllk2", pipe, NoCall)
    <3>1. Ends(r, pipe, NoCall, ClosePlaces)
      BY <1>1, <2>1, EndsLockWait DEF ClosePlaces
    <3> QED BY <1>3, <3>1, CloserStep
  <2>2. CASE CloseLoop(r, pipelock(pipe), NoCall)
    <3>1. Like(pipe, pipelock(pipe)) /\ pipelock(pipe) \in Shapes
      BY <1>1, LikeSet DEF pipelock, Like
    <3>2. Ends(r, pipe, NoCall, ClosePlaces)
      BY <1>1, <2>2, <3>1, CloseLoopEnds, EndsLike
    <3> QED BY <1>3, <3>2, CloserStep
  <2> QED BY <1>5, <2>1, <2>2 DEF CloseAgain
<1> QED BY <1>4, <1>5 DEF CloseAwake

LEMMA CloseFreeStreams ==
  ASSUME IInv, StreamInv, NEW r \in Readers, CloseFree(r)
  PROVE  StreamInv' /\ StreamStep
<1> DEFINE f == [i \in DOMAIN pipe.buffer |-> None]
           k == [pipe EXCEPT !.buffer = f, !.mapcnt = 0, !.pos = 0, !.ms = <<>>]
           p == [k EXCEPT !.present = "FINALIZED"]
<1>1. /\ r \in Threads /\ pipe \in Shapes /\ pc[r] = "clfree" /\ open' = open
      /\ pc[r] \in ClosePlaces
  BY ShapeOfPipe DEF Threads, CloseFree, Back, ClosePlaces
<1>2. open' = open \ {"read"} /\ \A u \in Readers : u # r => pc[u] \notin ReadPlaces
  BY <1>1, Closing
<1>3. Has(pipe, "EOF")
  BY <1>1 DEF IInv, At, Working
<1>4. Return(r, pipeunlock(p))
  BY DEF CloseFree, pipe_free_kmem
<1>5. f \in [0..(BIG_PIPE_SIZE - 1) -> Byte \cup {None}] /\ <<>> \in Seq(Byte)
  BY <1>1 DEF Shapes
<1> HIDE DEF f
<1>6. p \in Shapes /\ Has(p, "EOF")
  BY <1>1, <1>3, <1>5 DEF Shapes, Has
<1> HIDE DEF p
<1>7. Ends(r, p, NoCall, ClosePlaces)
  BY <1>4, <1>6, LikeUnlock, EndsIdle
<1> QED BY <1>2, <1>3, <1>6, <1>7, CloserStep

LEMMA CloseWriterStreams ==
  ASSUME IInv, StreamInv, NEW w \in Writers, CloseWriter(w)
  PROVE  StreamInv' /\ StreamStep
<1> DEFINE a == pipeselwakeup(pipe)
           b == Set(a, {"EOF"})
           q == IF pipe.present = "ACTIVE" THEN wakeup(b) ELSE pipe
<1>1. /\ w \in Threads /\ pipe \in Shapes /\ PipeOK(pipe) /\ open' = open \ {"write"}
      /\ \A u \in Writers : pc[u] = "idle"
      /\ Return(w, q)
  BY ShapeOfPipe DEF Threads, CloseWriter
<1>2. /\ q \in Shapes /\ Has(q, "EOF") /\ (Has(q, "DIRECTW") <=> Has(pipe, "DIRECTW"))
      /\ Ring(q) = Ring(pipe) /\ Mapped(q) = Mapped(pipe)
  <2>1. Like(pipe, a) /\ a \in Shapes
    BY <1>1, LikeSel DEF Like
  <2> HIDE DEF a
  <2>2. /\ b \in Shapes /\ b.size = a.size /\ b.out = a.out /\ b.cnt = a.cnt
        /\ b.buffer = a.buffer /\ b.ms = a.ms /\ b.pos = a.pos /\ b.mapcnt = a.mapcnt
        /\ Has(b, "EOF") /\ (Has(b, "DIRECTW") <=> Has(a, "DIRECTW"))
    BY <2>1 DEF Set, Shapes, Has, Flags
  <2> HIDE DEF b
  <2>3. Like(b, wakeup(b))
    BY <2>2, LikeWakeup
  <2>4. CASE q = wakeup(b)
    <3> HIDE DEF q
    <3> QED BY <2>1, <2>2, <2>3, <2>4 DEF Like, Ring, Mapped
  <2>5. CASE q = pipe /\ pipe.present # "ACTIVE"
    <3> HIDE DEF q
    <3> QED BY <1>1, <2>5 DEF PipeOK
  <2> QED BY <2>4, <2>5
<1> HIDE DEF q
<1>3. /\ pc \in [Threads -> Locations] /\ call \in [Threads -> CallRecs]
  BY DEF IInv, TypeInv
<1>4. call[w] = NoCall
  BY <1>1 DEF StreamInv
<1>5. pipe' = q /\ pc' = pc /\ call' = call
  BY <1>1, <1>3, <1>4 DEF Return, Goto
<1>6. StreamInv'
  <2>1. \A u \in Writers : Promise(pipe', pc'[u], call'[u])
    BY <1>1, <1>5 DEF Promise
  <2>2. \A r \in Readers : pc'[r] \in ReadPlaces => "read" \in open'
    BY <1>1, <1>5 DEF StreamInv
  <2>3. \A r \in Readers : pc'[r] \in ClosePlaces => "read" \notin open'
    BY <1>1, <1>5 DEF StreamInv
  <2>4. \A u \in Writers : pc'[u] \in {"idle", "poll"} => call'[u] = NoCall
    BY <1>5 DEF StreamInv
  <2>5. \A u \in Writers : pc'[u] = "idle"
    BY <1>1, <1>5
  <2>6. open' # {"read", "write"}
    BY <1>1
  <2> QED BY <2>1, <2>2, <2>3, <2>4, <2>5, <2>6 DEF StreamInv
<1>7. Todo' = Todo /\ Orig' = Orig
  BY <1>5 DEF Todo, Orig
<1>8. Contents' = IF "read" \notin open' /\ Has(pipe', "EOF") THEN <<>> ELSE Contents
  <2>1. \A x : Bytes(q, x) = Bytes(pipe, x)
    BY <1>2 DEF Bytes
  <2>2. "read" \in open' <=> "read" \in open
    BY <1>1
  <2>3. Bytes(q, \E u \in Writers : pc[u] = "dwclone")
          = Bytes(pipe, \E u \in Writers : pc[u] = "dwclone")
    BY <2>1
  <2> QED BY <1>2, <1>5, <2>2, <2>3 DEF Contents
<1>9. open' \subseteq open /\ Has(pipe', "EOF")
  BY <1>1, <1>2, <1>5
<1> QED BY <1>6, <1>7, <1>8, <1>9, StreamCloses

-----------------------------------------------------------------------------
(* select() and signals. *)

LEMMA Unmoved ==
  ASSUME IInv, StreamInv, NEW t \in Threads, NEW l, NEW d, NEW q, Like(pipe, q), pipe' = q,
         pc' = [pc EXCEPT ![t] = l], call' = [call EXCEPT ![t] = d], open' = open,
         \/ l = pc[t] /\ d = call[t]
         \/ /\ {l, pc[t]} \subseteq {"idle", "poll"} /\ d = NoCall
            /\ t \in Writers => "write" \in open
  PROVE  StreamInv' /\ StreamStep
<1>1. /\ pc \in [Threads -> Locations] /\ call \in [Threads -> CallRecs]
      /\ Writers \subseteq Threads /\ Readers \subseteq Threads
  BY DEF IInv, TypeInv, Threads
<1>2. /\ \A u \in Threads : u # t => pc'[u] = pc[u] /\ call'[u] = call[u]
      /\ pc'[t] = l /\ call'[t] = d
  BY <1>1
<1>3. Has(pipe', "EOF") <=> Has(pipe, "EOF")
  BY DEF Like
<1>4. \A w \in Writers : call'[w] = call[w]
  <2>1. t \in Writers => d = call[t]
    BY DEF StreamInv
  <2> QED BY <1>1, <1>2, <2>1
<1>5. StreamInv'
  <2>1. \A w \in Writers : pc'[w] \in {"idle", "poll"} => call'[w] = NoCall
    BY <1>1, <1>2 DEF StreamInv
  <2>2. \A w \in Writers : Promise(pipe', pc'[w], call'[w])
    <3>1. \A w \in Writers : Promise(pipe', pc[w], call[w])
      BY <1>3 DEF StreamInv, Promise
    <3>2. \A c : l \in {"idle", "poll"} => Promise(pipe', l, c)
      BY DEF Promise
    <3> QED BY <1>1, <1>2, <3>1, <3>2
  <2>3. "write" \notin open' => \A w \in Writers : pc'[w] = "idle"
    BY <1>1, <1>2 DEF StreamInv
  <2>4. \A u \in Readers : /\ pc'[u] \in ReadPlaces => pc'[u] = pc[u]
                           /\ pc'[u] \in ClosePlaces => pc'[u] = pc[u]
    BY <1>1, <1>2 DEF ReadPlaces, ClosePlaces
  <2>5. Has(pipe', "EOF") => open' # {"read", "write"}
    BY <1>3 DEF StreamInv
  <2> QED BY <2>1, <2>2, <2>3, <2>4, <2>5 DEF StreamInv
<1>6. Contents' = Contents
  <2>1. (\E u \in Writers : pc'[u] = "dwclone") = (\E u \in Writers : pc[u] = "dwclone")
    BY <1>1, <1>2
  <2>2. \A x : Bytes(q, x) = Bytes(pipe, x)
    BY LikeBytes
  <2> DEFINE x == \E u \in Writers : pc[u] = "dwclone"
  <2>3. Bytes(pipe', x) = Bytes(pipe, x)
    BY <2>2
  <2>4. Contents = IF "read" \notin open /\ Has(pipe, "EOF") THEN <<>> ELSE Bytes(pipe, x)
    BY DEF Contents
  <2>5. Contents' = IF "read" \notin open' /\ Has(pipe', "EOF") THEN <<>> ELSE Bytes(pipe', x)
    BY <2>1 DEF Contents
  <2> HIDE DEF x
  <2> QED BY <1>3, <2>3, <2>4, <2>5
<1>7. Todo' = Todo /\ Orig' = Orig
  BY <1>4 DEF Todo, Orig
<1> QED BY <1>3, <1>5, <1>6, <1>7, StreamStutters DEF Same

LEMMA PollStreams ==
  ASSUME IInv, StreamInv, NEW t \in Threads, Poll(t)
  PROVE  StreamInv' /\ StreamStep
<1> DEFINE a == [pipe EXCEPT !.sel = @ \cup {t}]
           q == Set(a, {"SEL"})
<1>1. pipe \in Shapes /\ open' = open /\ pc[t] \in {"idle", "poll"}
  BY ShapeOfPipe DEF Poll, Calls
<1>2. t \in Writers => "write" \in open
  <2>1. CASE Calls(t, "read")
    BY <2>1, PipeAssumption DEF Calls
  <2>2. CASE Calls(t, "write")
    BY <2>2 DEF Calls
  <2>3. CASE pc[t] = "poll"
    BY <2>3 DEF StreamInv
  <2> QED BY <2>1, <2>2, <2>3 DEF Poll
<1>3. Like(pipe, q)
  <2>1. Like(pipe, a) /\ a \in Shapes
    BY <1>1 DEF Like, Has, Shapes
  <2> HIDE DEF a
  <2> QED BY <2>1, LikeSet, LikeTrans
<1>4. CASE Return(t, pipe)
  BY <1>1, <1>2, <1>4, LikeSelf, Unmoved DEF Return, Goto
<1>5. CASE Goto(t, "poll", q, NoCall)
  <2> HIDE DEF q
  <2>1. pipe' = q /\ pc' = [pc EXCEPT ![t] = "poll"] /\ call' = [call EXCEPT ![t] = NoCall]
    BY <1>5 DEF Goto
  <2> QED BY <1>1, <1>2, <1>3, <2>1, Unmoved
<1> QED BY <1>4, <1>5 DEF Poll

LEMMA PollEndsStreams ==
  ASSUME IInv, StreamInv, NEW t \in Threads, PollEnds(t)
  PROVE  StreamInv' /\ StreamStep
<1> DEFINE q == [pipe EXCEPT !.sel = @ \ {t}]
<1>1. /\ pipe \in Shapes /\ open' = open /\ pc[t] = "poll"
      /\ pipe' = q /\ pc' = [pc EXCEPT ![t] = "idle"] /\ call' = [call EXCEPT ![t] = NoCall]
  BY ShapeOfPipe DEF PollEnds, Return, Goto
<1>2. Like(pipe, q)
  BY <1>1 DEF Like, Has, Shapes
<1>3. t \in Writers => "write" \in open
  BY <1>1 DEF StreamInv
<1> HIDE DEF q
<1> QED BY <1>1, <1>2, <1>3, Unmoved

LEMMA SignalStreams ==
  ASSUME IInv, StreamInv, NEW t \in Threads, Signal(t)
  PROVE  StreamInv' /\ StreamStep
<1> DEFINE q == [pipe EXCEPT !.asleep = @ \ {t}]
<1>1. pipe \in Shapes /\ open' = open /\ pipe' = q /\ pc' = pc /\ call' = call
  BY ShapeOfPipe DEF Signal
<1>2. Like(pipe, q)
  BY <1>1 DEF Like, Has, Shapes
<1>3. pc' = [pc EXCEPT ![t] = pc[t]] /\ call' = [call EXCEPT ![t] = call[t]]
  BY <1>1 DEF IInv, TypeInv
<1> HIDE DEF q
<1> QED BY <1>1, <1>2, <1>3, Unmoved

-----------------------------------------------------------------------------
(***************************************************************************)
(* The refinement.                                                          *)
(***************************************************************************)

LEMMA StreamInit == Init => StreamInv /\ Stream!Init
<1> SUFFICES ASSUME Init PROVE StreamInv /\ Stream!Init
  OBVIOUS
<1>1. /\ pc = [t \in Threads |-> "idle"] /\ call = [t \in Threads |-> NoCall]
      /\ open = {"read", "write"} /\ Writers \subseteq Threads /\ Readers \subseteq Threads
  BY DEF Init, Threads
<1>2. pipe.state = {} /\ pipe.cnt = 0
  BY DEF Init
<1>3. ~ Has(pipe, "EOF") /\ ~ Has(pipe, "DIRECTW")
  BY <1>2 DEF Has
<1>4. StreamInv
  <2>1. \A w \in Writers : Promise(pipe, pc[w], call[w])
    BY <1>1 DEF Promise
  <2>2. \A r \in Readers : pc[r] \notin ReadPlaces /\ pc[r] \notin ClosePlaces
    BY <1>1 DEF ReadPlaces, ClosePlaces
  <2>3. \A w \in Writers : call[w] = NoCall /\ pc[w] = "idle"
    BY <1>1
  <2> QED BY <1>3, <2>1, <2>2, <2>3 DEF StreamInv
<1>5. Contents = <<>>
  <2>1. Ring(pipe) = <<>>
    BY <1>2, InitOK, ShapeOfPipe, EmptyBytes
  <2>2. (\E w \in Writers : pc[w] = "dwclone") = FALSE
    BY <1>1
  <2> QED BY <1>3, <2>1, <2>2 DEF Contents, Bytes
<1>6. /\ [w \in Writers |-> call[w].uio] = [w \in Writers |-> <<>>]
      /\ [w \in Writers |-> call[w].orig_resid] = [w \in Writers |-> 0]
  BY <1>1, NoCallOK
<1>7. ("read" \in open) = TRUE /\ (~ Has(pipe, "EOF")) = TRUE
  BY <1>1, <1>3
<1> QED BY <1>4, <1>5, <1>6, <1>7 DEF Stream!Init

LEMMA StreamNext == IInv /\ StreamInv /\ [Next]_vars => StreamInv' /\ StreamStep
<1> SUFFICES ASSUME IInv, StreamInv, [Next]_vars PROVE StreamInv' /\ StreamStep
  OBVIOUS
<1>1. ASSUME NEW t \in Threads, Inside(t) PROVE StreamInv' /\ StreamStep
  BY <1>1, ReadAwakeStreams, ReadSpaceStreams, ReadCopiedStreams, ReadDirectStreams,
     CloseAwakeStreams, CloseFreeStreams, WriteAwakeStreams, WriteSpaceStreams,
     WriteCopiedStreams, DirectBuildStreams, DirectCloneStreams DEF Inside
<1>2. ASSUME NEW t \in Threads, Poll(t) \/ PollEnds(t) \/ Signal(t)
      PROVE  StreamInv' /\ StreamStep
  BY <1>2, PollStreams, PollEndsStreams, SignalStreams
<1>3. ASSUME NEW r \in Readers, Read(r) \/ CloseReader(r) PROVE StreamInv' /\ StreamStep
  BY <1>3, ReadStreams, CloseReaderStreams
<1>4. ASSUME NEW w \in Writers, Write(w) \/ CloseWriter(w) PROVE StreamInv' /\ StreamStep
  BY <1>4, WriteStreams, CloseWriterStreams
<1>5. CASE UNCHANGED vars
  <2>1. pipe' = pipe /\ pc' = pc /\ call' = call /\ open' = open
    BY <1>5 DEF vars
  <2>2. StreamInv'
    BY <2>1 DEF StreamInv, Promise
  <2>3. Same /\ Todo' = Todo /\ Orig' = Orig
    BY <2>1 DEF Same, Contents, Todo, Orig
  <2> QED BY <2>2, <2>3, StreamStutters
<1> QED BY <1>1, <1>2, <1>3, <1>4, <1>5 DEF Next

(* Whatever the pipe is resized to, whoever is interrupted, faults or goes *)
(* away, and whether a write goes through the ring of sys_pipe.c, around   *)
(* its end, or directly from the pages of the writer: the bytes come out   *)
(* in the order in which they went in, none twice and none lost while the  *)
(* reading end is open, and a write of at most PIPE_BUF bytes goes in as a *)
(* whole.                                                                  *)
THEOREM Refinement == Spec => ImplementsStream
<1>1. Init => IInv /\ StreamInv /\ Stream!Init
  BY InitOK, StreamInit
<1>2. IInv /\ StreamInv /\ [Next]_vars => IInv' /\ StreamInv' /\ [Stream!Next]_(Stream!vars)
  BY NextOK, StreamNext DEF StreamStep
<1> QED BY <1>1, <1>2, PTL DEF Spec, ImplementsStream, Stream!Spec

=============================================================================
