-------------------------------- MODULE Pipe --------------------------------
(***************************************************************************)
(* One direction of a pipe (sys/kern/sys_pipe.c): readers and writers, the  *)
(* ring buffer and its resizing, direct writes from the pages of the        *)
(* writer, select, signals, and the closing of both ends.                   *)
(*                                                                          *)
(* A step is a critical section of PIPE_MTX, from PIPE_LOCK() or the return *)
(* of msleep() to PIPE_UNLOCK() or the next msleep().  While the mutex is   *)
(* dropped for uiomove(), the mapping of pages or the allocation of a       *)
(* buffer, the flag PIPE_LOCKFL is all that keeps others away.  Everybody   *)
(* who sleeps, for whatever reason, sleeps on the same channel; msleep()    *)
(* drops the mutex and waits in one step, which is what SleepQueue shows of *)
(* it.  The functions of the file are functions of the struct pipe here.    *)
(***************************************************************************)
EXTENDS Naturals, Sequences, FiniteSetsExt

CONSTANTS
  Readers, Writers,
  PIPE_BUF,
  PIPE_MINDIRECT,
  MINPIPESIZE,
  SMALL_PIPE_SIZE, PIPE_SIZE, BIG_PIPE_SIZE,
  PipeSizes,               \* what doubling makes of the small size, up to the big
  ReadSizes,               \* the lengths callers ask for, and those each
  WriteSizes,              \* writer writes
  FNONBLOCK,               \* the threads with a non-blocking descriptor, besides
                           \* a blocking one
  Pollers,                 \* the threads that use select()
  Faults,                  \* what may fail with EFAULT: "read", "write",
                           \* "build"
  None

Threads == Readers \cup Writers

ASSUME PipeAssumption ==
  /\ Readers \cap Writers = {} /\ None \notin Writers
  /\ {PIPE_BUF, PIPE_MINDIRECT, MINPIPESIZE, SMALL_PIPE_SIZE, PIPE_SIZE,
      BIG_PIPE_SIZE} \subseteq Nat \ {0}
  /\ PIPE_BUF <= SMALL_PIPE_SIZE
  /\ PIPE_BUF < PIPE_MINDIRECT
  /\ {SMALL_PIPE_SIZE, PIPE_SIZE, BIG_PIPE_SIZE} \subseteq PipeSizes
  /\ PipeSizes \subseteq SMALL_PIPE_SIZE..BIG_PIPE_SIZE
  /\ \A s \in PipeSizes :
       /\ s # BIG_PIPE_SIZE => 2 * s \in PipeSizes
       /\ s # SMALL_PIPE_SIZE => \E half \in PipeSizes : s = 2 * half
  /\ ReadSizes \subseteq Nat \ {0}
  /\ WriteSizes \in [Writers -> SUBSET (Nat \ {0})]
  /\ FNONBLOCK \subseteq Threads /\ Pollers \subseteq Threads
  /\ Faults \subseteq {"read", "write", "build"}

VARIABLES
  pipe,      \* struct pipe; asleep are the threads that sleep on it, sel
             \* those recorded in pipe_sel
  pc,        \* where each thread is when the mutex is not its own
  call,      \* the uio and the locals of its call
  intr,      \* the threads whose msleep() returned an error
  open       \* the ends that are open: "read", "write"

vars == <<pipe, pc, call, intr, open>>

Byte == Writers \X Nat
Flags == {"WANTR", "WANTW", "WANT", "SEL", "EOF", "LOCKFL", "LWANT",
          "DIRECTW"}

(* Where msleep() is called; "lk" stands for pipelock(), and the letters   *)
(* in front of it for its callers.                                         *)
Catch == {"rdlk", "rdlk2", "piperd", "wrlk", "pipbww", "pipewr", "dwlk",
          "pipdww", "pipdwt"}
NoCatch == {"wrlk2", "dwlk2", "wrlk3", "cllk", "pipecl", "cllk2"}
Unlocked == {"rdspace", "rdcopy", "rddirect", "wrspace", "wrcopy",
             "dwbuild", "dwclone", "clfree"}
Locations == Catch \cup NoCatch \cup Unlocked \cup {"idle", "poll"}
Busy == Locations \ {"idle", "poll", "wrlk", "cllk", "pipecl", "cllk2", "clfree"}

(* uio is what a writer has still to write, resid what a reader still      *)
(* wants, size what is being copied or allocated.                          *)
NoCall == [uio |-> <<>>, resid |-> 0, orig_resid |-> 0, nread |-> FALSE,
           nonblock |-> FALSE, size |-> 0, error |-> FALSE]

Init ==
  /\ \E s \in {0, SMALL_PIPE_SIZE, PIPE_SIZE} :
       pipe = [state |-> {}, busy |-> 0, present |-> "ACTIVE",
               size |-> s, in |-> 0, out |-> 0, cnt |-> 0,
               buffer |-> [i \in 0..(BIG_PIPE_SIZE - 1) |-> None],
               ms |-> <<>>, pos |-> 0, mapcnt |-> 0,
               asleep |-> {}, sel |-> {}]
  /\ pc = [t \in Threads |-> "idle"]
  /\ call = [t \in Threads |-> NoCall]
  /\ intr = {}
  /\ open = {"read", "write"}

-----------------------------------------------------------------------------
(* struct pipe. *)

Set(p, F) == [p EXCEPT !.state = @ \cup F]
Clear(p, F) == [p EXCEPT !.state = @ \ F]
Has(p, flag) == flag \in p.state

wakeup(p) == [p EXCEPT !.asleep = {}]

(* if (pipe_state & flag) clear it and wake everybody up. *)
WakeIf(p, flag) == IF Has(p, flag) THEN wakeup(Clear(p, {flag})) ELSE p

pipeunlock(p) == WakeIf(Clear(p, {"LOCKFL"}), "LWANT")

pipeselwakeup(p) ==
  IF Has(p, "SEL") THEN Clear([p EXCEPT !.sel = {}], {"SEL"}) ELSE p

(* n bytes of the ring from i on, which pipespace_new() copies, and those  *)
(* of the mapped pages from pos on, which pipe_clone_write_buffer() does.  *)
Segment(p, i, n) == [k \in 1..n |-> p.buffer[i + k - 1]]
Mapped(p) == SubSeq(p.ms, p.pos + 1, p.pos + p.mapcnt)

(* pipespace_new() with memory: the two parts of the ring go to the start  *)
(* of the new one.                                                         *)
pipespace_new(p, n) ==
  LET firstseg == p.size - p.out
      copied == IF p.cnt = 0 THEN <<>>
                ELSE IF p.in <= p.out
                     THEN Segment(p, p.out, firstseg)
                          \o (IF p.cnt > firstseg THEN Segment(p, 0, p.in)
                                                  ELSE <<>>)
                     ELSE Segment(p, p.out, p.cnt)
  IN [p EXCEPT !.size = Max({p.cnt, n}), !.in = p.cnt, !.out = 0,
               !.buffer = [i \in DOMAIN p.buffer |->
                             IF i < p.cnt THEN copied[i + 1] ELSE None],
               !.ms = <<>>, !.pos = 0, !.mapcnt = 0]

(* What pipespace() leaves: the new size, the old one if there is no       *)
(* memory, or the small one instead of none at all.                        *)
Resized(p, n) ==
  {p, pipespace_new(p, n)}
  \cup (IF p.size = 0 THEN {pipespace_new(p, SMALL_PIPE_SIZE)} ELSE {})

(* uiomove() of s into the ring, around its end if need be. *)
Put(p, s) ==
  LET segsize == Min({p.size - p.in, Len(s)})
      in == p.in + Len(s)
  IN [p EXCEPT
       !.buffer = [i \in DOMAIN p.buffer |->
                     IF i >= p.in /\ i < p.in + segsize THEN s[i - p.in + 1]
                     ELSE IF i < Len(s) - segsize THEN s[segsize + i + 1]
                     ELSE p.buffer[i]],
       !.in = IF in >= p.size THEN Len(s) - segsize ELSE in,
       !.cnt = @ + Len(s)]

(* n bytes have been copied out of the ring; what is left of them there    *)
(* is not to be read again.                                                *)
Taken(p, n) ==
  LET out == IF p.out + n >= p.size THEN 0 ELSE p.out + n
      empty == p.cnt = n
  IN [p EXCEPT !.buffer = [i \in DOMAIN p.buffer |->
                             IF i >= p.out /\ i < p.out + n THEN None
                             ELSE p.buffer[i]],
               !.out = IF empty THEN 0 ELSE out,
               !.in = IF empty THEN 0 ELSE @,
               !.cnt = @ - n]

-----------------------------------------------------------------------------
(* Steps: thread t gives up the mutex at l, asleep or not. *)

Goto(t, l, p, c) ==
  /\ pipe' = p
  /\ pc' = [pc EXCEPT ![t] = l]
  /\ call' = [call EXCEPT ![t] = IF l = "idle" THEN NoCall ELSE c]

Return(t, p) == Goto(t, "idle", p, NoCall)

msleep(t, l, p, c) == Goto(t, l, [p EXCEPT !.asleep = @ \cup {t}], c)

(* pipelock(): the flag is taken, or waited for. *)
pipelock(p) == Set(p, {"LOCKFL"})
LockWait(t, l, p, c) == msleep(t, l, Set(p, {"LWANT"}), c)

(* msleep() returned: t has the mutex again. *)
Awake(t, l) ==
  /\ pc[t] = l /\ t \notin pipe.asleep
  /\ intr' = intr \ {t}
  /\ UNCHANGED open

(* Back from where the mutex was dropped with PIPE_LOCKFL set. *)
Back(t, l) == pc[t] = l /\ UNCHANGED <<intr, open>>

Calls(t, end) ==
  /\ pc[t] = "idle" /\ end \in open
  /\ t \in (IF end = "read" THEN Readers ELSE Writers)
  /\ UNCHANGED intr

(* amountpipekva, of all pipes, against maxpipekva: up to a half, up to    *)
(* three quarters, above.                                                  *)
Kva == {"half", "three quarters", "full"}

-----------------------------------------------------------------------------
(* pipe_read(). *)

ReadExit_NoHysteresis(r, p0) ==   \* mutation: only the rundown is looked at
  LET p == [p0 EXCEPT !.busy = @ - 1]
      q == IF p.busy = 0 /\ Has(p, "WANT") THEN wakeup(Clear(p, {"WANT", "WANTW"}))
           ELSE p
  IN Return(r, IF q.size - q.cnt >= PIPE_BUF THEN pipeselwakeup(q) ELSE q)

(* From unlocked_error on. *)
ReadExit(r, p0) ==
  LET p == [p0 EXCEPT !.busy = @ - 1]
      q == IF p.busy = 0 /\ Has(p, "WANT") THEN wakeup(Clear(p, {"WANT", "WANTW"}))
           ELSE IF p.cnt < MINPIPESIZE THEN WakeIf(p, "WANTW")
           ELSE p
  IN Return(r, IF q.size - q.cnt >= PIPE_BUF THEN pipeselwakeup(q) ELSE q)

(* Nothing to read, and not the end of the file. *)
ReadWait(r, p0, c) ==
  LET p == WakeIf(p0, "WANTW")
  IN IF c.nread THEN ReadExit(r, pipeunlock(p))
     ELSE IF c.nonblock THEN ReadExit(r, pipeunlock(p))
     ELSE msleep(r, "piperd", Set(pipeunlock(p), {"WANTR"}), c)

ReadLoop(r, p, c) ==
  IF c.resid = 0 THEN ReadExit(r, pipeunlock(p))
  ELSE IF p.cnt > 0
  THEN Goto(r, "rdcopy", p, [c EXCEPT !.size = Min({p.size - p.out, p.cnt, c.resid})])
  ELSE IF p.mapcnt > 0 /\ Has(p, "DIRECTW")
  THEN Goto(r, "rddirect", p, [c EXCEPT !.size = Min({p.mapcnt, c.resid})])
  ELSE IF Has(p, "EOF") THEN ReadExit(r, pipeunlock(p))
  ELSE ReadWait(r, p, c)

ReadLocked(r, p, c) ==
  \/ ReadLoop(r, p, c)
  \/ /\ "full" \in Kva
     /\ ~ Has(p, "DIRECTW") /\ p.size > SMALL_PIPE_SIZE /\ p.cnt <= SMALL_PIPE_SIZE
     /\ Goto(r, "rdspace", p, c)

ReadStart(r, p, c) ==
  IF Has(p, "LOCKFL") THEN LockWait(r, "rdlk", p, c) ELSE ReadLocked(r, pipelock(p), c)

ReadAgain(r, p, c) ==
  IF Has(p, "LOCKFL") THEN LockWait(r, "rdlk2", p, c) ELSE ReadLoop(r, pipelock(p), c)

Read(r) ==
  \E n \in ReadSizes, nb \in {FALSE, (r \in FNONBLOCK)} :
    /\ Calls(r, "read") /\ UNCHANGED open
    /\ ReadStart(r, [pipe EXCEPT !.busy = @ + 1],
                 [NoCall EXCEPT !.resid = n, !.nonblock = nb])

ReadSpace(r) ==
  /\ Back(r, "rdspace")
  /\ \E p \in Resized(pipe, SMALL_PIPE_SIZE) : ReadLoop(r, p, call[r])

(* uiomove() of part of the ring, or of the pages of a direct write. *)
ReadCopied(r) ==
  /\ Back(r, "rdcopy")
  /\ LET c == call[r]
     IN \/ ReadLoop(r, Taken(pipe, c.size),
                    [c EXCEPT !.resid = @ - c.size, !.nread = TRUE, !.size = 0])
        \/ "read" \in Faults /\ ReadExit(r, pipeunlock(pipe))

ReadDirect(r) ==
  /\ Back(r, "rddirect")
  /\ LET c == call[r]
         p == [pipe EXCEPT !.pos = @ + c.size, !.mapcnt = @ - c.size]
     IN \/ ReadLoop(r, IF p.mapcnt = 0 THEN wakeup(Clear(p, {"DIRECTW", "WANTW"}))
                                       ELSE p,
                    [c EXCEPT !.resid = @ - c.size, !.nread = TRUE, !.size = 0])
        \/ "read" \in Faults /\ ReadExit(r, pipeunlock(pipe))

ReadAwake(r) ==
  \/ /\ Awake(r, "rdlk")
     /\ IF r \in intr THEN ReadExit(r, pipe)
        ELSE ReadStart(r, pipe, call[r])
  \/ \E l \in {"piperd", "rdlk2"} :
       /\ Awake(r, l)
       /\ IF r \in intr THEN ReadExit(r, pipe)
          ELSE ReadAgain(r, pipe, call[r])

-----------------------------------------------------------------------------
(* pipe_write() and pipe_direct_write(). *)

WriteLast_NoSelect(w, p0, c) ==   \* mutation: no pipeselwakeup() at the end
  LET p == [p0 EXCEPT !.busy = @ - 1]
      q == IF p.busy = 0 /\ Has(p, "WANT") THEN wakeup(Clear(p, {"WANT", "WANTR"}))
           ELSE IF p.cnt > 0 THEN WakeIf(p, "WANTR")
           ELSE p
  IN Return(w, pipeunlock(q))

WriteLast(w, p0, c) ==
  LET p == [p0 EXCEPT !.busy = @ - 1]
      q == IF p.busy = 0 /\ Has(p, "WANT") THEN wakeup(Clear(p, {"WANT", "WANTR"}))
           ELSE IF p.cnt > 0 THEN WakeIf(p, "WANTR")
           ELSE p
  IN Return(w, pipeunlock(IF q.cnt > 0 THEN pipeselwakeup(q) ELSE q))

(* The loop is left. *)
WriteEnd(w, p, c) ==
  IF Has(p, "LOCKFL") THEN LockWait(w, "wrlk3", p, c) ELSE WriteLast(w, pipelock(p), c)

(* A writer offers what there is to the readers and sleeps until there is  *)
(* room.                                                                   *)
WriteWait(w, l, p, c) ==
  msleep(w, l, pipeunlock(Set(pipeselwakeup(WakeIf(p, "WANTR")), {"WANTW"})), c)

error1(w, p, c) == WriteEnd(w, wakeup(p), c)

DirectLocked(w, p, c) ==
  IF Has(p, "EOF") THEN error1(w, pipeunlock(p), c)
  ELSE IF Has(p, "DIRECTW") THEN WriteWait(w, "pipdww", p, c)
  ELSE IF p.cnt > 0 THEN WriteWait(w, "pipdww", [p EXCEPT !.mapcnt = 0], c)
  ELSE Goto(w, "dwbuild", Set([p EXCEPT !.mapcnt = 0], {"DIRECTW"}), c)

pipe_direct_write(w, p, c) ==
  IF Has(p, "LOCKFL") THEN LockWait(w, "dwlk", p, c) ELSE DirectLocked(w, pipelock(p), c)

WriteBody(w, p, c) ==
  LET room == p.size - p.cnt
      space == IF room < Len(c.uio) /\ c.orig_resid <= PIPE_BUF THEN 0 ELSE room
  IN IF Has(p, "EOF") THEN WriteEnd(w, pipeunlock(p), c)
     ELSE IF Len(c.uio) >= PIPE_MINDIRECT /\ p.size >= PIPE_MINDIRECT /\ ~ c.nonblock
     THEN pipe_direct_write(w, pipeunlock(p), c)
     ELSE IF Has(p, "DIRECTW") THEN WriteWait(w, "pipbww", p, c)
     ELSE IF space > 0
     THEN Goto(w, "wrcopy", p, [c EXCEPT !.size = Min({space, Len(c.uio)})])
     ELSE IF c.nonblock THEN WriteEnd(w, pipeunlock(WakeIf(p, "WANTR")), c)
     ELSE WriteWait(w, "pipewr", p, c)

WriteLoop(w, p, c) ==
  IF c.uio = <<>> THEN WriteEnd(w, p, c)
  ELSE IF Has(p, "LOCKFL") THEN LockWait(w, "wrlk2", p, c)
  ELSE WriteBody(w, pipelock(p), c)

WriteSized_Busy(w, p, c) ==   \* mutation: pipe_busy not lowered for ENOMEM
  IF p.size = 0 THEN Return(w, pipeunlock(p))
  ELSE WriteLoop(w, pipeunlock(p), c)

(* The buffer has its size; there may still be none. *)
WriteSized(w, p, c) ==
  IF p.size = 0 THEN Return(w, pipeunlock([p EXCEPT !.busy = @ - 1]))
  ELSE WriteLoop(w, pipeunlock(p), c)

(* Doubled until all fits, or made small, as memory allows. *)
desiredsize(p, n, kva) ==
  LET s == Max({SMALL_PIPE_SIZE, p.size})
      grown == Min({d \in PipeSizes :
                      d >= s /\ (d >= p.cnt + n \/ d = BIG_PIPE_SIZE)})
  IN IF kva = "half" THEN grown
     ELSE IF kva = "full" /\ p.size > SMALL_PIPE_SIZE /\ p.cnt <= SMALL_PIPE_SIZE
     THEN SMALL_PIPE_SIZE
     ELSE s

WriteLocked(w, p0, c) ==
  IF p0.present # "ACTIVE" \/ Has(p0, "EOF") THEN Return(w, pipeunlock(p0))
  ELSE \E kva \in Kva :
         LET p == [p0 EXCEPT !.busy = @ + 1]
             d == desiredsize(p, Len(c.uio), kva)
         IN IF d # p.size /\ ~ Has(p, "DIRECTW")
            THEN Goto(w, "wrspace", p, [c EXCEPT !.size = d])
            ELSE WriteSized(w, p, c)

WriteStart(w, p, c) ==
  IF Has(p, "LOCKFL") THEN LockWait(w, "wrlk", p, c) ELSE WriteLocked(w, pipelock(p), c)

Write(w) ==
  \E n \in WriteSizes[w], nb \in {FALSE, (w \in FNONBLOCK)} :
    /\ Calls(w, "write") /\ UNCHANGED open
    /\ WriteStart(w, pipe,
                  [NoCall EXCEPT !.uio = [i \in 1..n |-> <<w, i>>],
                                 !.orig_resid = n, !.nonblock = nb])

WriteSpace(w) ==
  /\ Back(w, "wrspace")
  /\ \E p \in Resized(pipe, call[w].size) :
       WriteSized(w, p, [call[w] EXCEPT !.size = 0])

Rest(s, n) == SubSeq(s, n + 1, Len(s))

WriteCopied(w) ==
  /\ Back(w, "wrcopy")
  /\ LET c == [call[w] EXCEPT !.uio = Rest(@, call[w].size), !.size = 0]
     IN \/ WriteLoop(w, pipeunlock(Put(pipe, SubSeq(call[w].uio, 1, call[w].size))), c)
        \/ "write" \in Faults /\ WriteEnd(w, pipeunlock(pipe), call[w])

(* pipe_destroy_write_buffer(); nobody reads what is left of the map       *)
(* before the next direct write sets it.                                   *)
Unmap(p) == [p EXCEPT !.ms = <<>>, !.pos = 0, !.mapcnt = 0]

DirectOver(w, p, c) ==
  IF Has(p, "DIRECTW")
  THEN Goto(w, "dwclone", Clear([p EXCEPT !.in = p.mapcnt, !.out = 0, !.cnt = p.mapcnt],
                                {"DIRECTW"}), c)
  ELSE IF c.error \/ Has(p, "EOF") THEN WriteEnd(w, pipeunlock(Unmap(p)), c)
  ELSE WriteLoop(w, pipeunlock(Unmap(p)), c)

DirectLoop(w, p, c) ==
  IF c.error \/ ~ Has(p, "DIRECTW") THEN DirectOver(w, p, c)
  ELSE IF Has(p, "EOF") THEN error1(w, pipeunlock(pipeselwakeup(Unmap(p))), c)
  ELSE WriteWait(w, "pipdwt", p, c)

DirectAgain(w, p, c) ==
  IF Has(p, "LOCKFL") THEN LockWait(w, "dwlk2", p, c) ELSE DirectLoop(w, pipelock(p), c)

(* pipe_build_write_buffer() and what follows it. *)
DirectBuild(w) ==
  /\ Back(w, "dwbuild")
  /\ LET u == call[w].uio
         n == Min({Len(u), pipe.size})
     IN \/ DirectLoop(w, [pipe EXCEPT !.ms = SubSeq(u, 1, n), !.pos = 0, !.mapcnt = n],
                      [call[w] EXCEPT !.uio = Rest(u, n)])
        \/ "build" \in Faults /\ error1(w, pipeunlock(Clear(pipe, {"DIRECTW"})), call[w])

DirectClone_FromStart(w) ==   \* mutation: copies from the start of the map
  /\ Back(w, "dwclone")
  /\ LET p == [pipe EXCEPT !.buffer = [i \in DOMAIN @ |->
                 IF i < pipe.mapcnt THEN pipe.ms[i + 1] ELSE None]]
     IN WriteEnd(w, pipeunlock(Unmap(p)), call[w])

(* pipe_clone_write_buffer(), the copy. *)
DirectClone(w) ==
  /\ Back(w, "dwclone")
  /\ LET p == [pipe EXCEPT !.buffer = [i \in DOMAIN @ |->
                 IF i < pipe.mapcnt THEN Mapped(pipe)[i + 1] ELSE None]]
     IN WriteEnd(w, pipeunlock(Unmap(p)), call[w])

WriteAwake(w) ==
  \/ /\ Awake(w, "wrlk")
     /\ IF w \in intr THEN Return(w, pipe)
        ELSE WriteStart(w, pipe, call[w])
  \/ Awake(w, "wrlk2") /\ WriteLoop(w, pipe, call[w])
  \/ Awake(w, "wrlk3") /\ WriteEnd(w, pipe, call[w])
  \/ \E l \in {"pipbww", "pipewr"} :
       /\ Awake(w, l)
       /\ IF w \in intr THEN WriteEnd(w, pipe, call[w]) ELSE WriteLoop(w, pipe, call[w])
  \/ \E l \in {"dwlk", "pipdww"} :
       /\ Awake(w, l)
       /\ IF w \in intr THEN error1(w, pipe, call[w])
          ELSE pipe_direct_write(w, pipe, call[w])
  \/ /\ Awake(w, "pipdwt")
     /\ DirectAgain(w, pipe, [call[w] EXCEPT !.error = w \in intr])
  \/ Awake(w, "dwlk2") /\ DirectAgain(w, pipe, call[w])

-----------------------------------------------------------------------------
(* pipe_poll(), for input on the one end and output on the other. *)

Ready(t, p) ==
  IF t \in Readers THEN Has(p, "DIRECTW") \/ p.cnt > 0 \/ Has(p, "EOF")
  ELSE \/ p.present # "ACTIVE" \/ Has(p, "EOF")
       \/ ~ Has(p, "DIRECTW") /\ (p.size - p.cnt >= PIPE_BUF \/ p.size = 0)

(* selrecord() and the sleep in select(). *)
Poll(t) ==
  /\ t \in Pollers
  /\ \/ \E end \in {"read", "write"} : Calls(t, end)
     \/ pc[t] = "poll" /\ t \notin pipe.sel /\ UNCHANGED intr
  /\ UNCHANGED open
  /\ IF Ready(t, pipe) THEN Return(t, pipe)
     ELSE Goto(t, "poll", Set([pipe EXCEPT !.sel = @ \cup {t}], {"SEL"}), NoCall)

(* select() times out or gets a signal. *)
PollEnds(t) ==
  /\ pc[t] = "poll"
  /\ Return(t, [pipe EXCEPT !.sel = @ \ {t}])
  /\ UNCHANGED <<intr, open>>

-----------------------------------------------------------------------------
(* pipeclose(). *)

CloseLoop(r, p, c) ==
  IF p.busy > 0
  THEN msleep(r, "pipecl", pipeunlock(Set(wakeup(p), {"WANT"})), c)
  ELSE Goto(r, "clfree", p, c)

CloseLocked(r, p, c) == CloseLoop(r, Set(pipeselwakeup(p), {"EOF"}), c)

CloseStart(r, p, c) ==
  IF Has(p, "LOCKFL") THEN LockWait(r, "cllk", p, c) ELSE CloseLocked(r, pipelock(p), c)

CloseAgain(r, p, c) ==
  IF Has(p, "LOCKFL") THEN LockWait(r, "cllk2", p, c) ELSE CloseLoop(r, pipelock(p), c)

(* The last reference to the reading end goes away: no reader is inside. *)
CloseReader(r) ==
  /\ Calls(r, "read")
  /\ \A u \in Readers : pc[u] = "idle"
  /\ open' = open \ {"read"}
  /\ CloseStart(r, pipe, NoCall)

CloseAwake(r) ==
  \/ Awake(r, "cllk") /\ CloseStart(r, pipe, NoCall)
  \/ \E l \in {"pipecl", "cllk2"} :
       Awake(r, l) /\ CloseAgain(r, pipe, NoCall)

pipe_free_kmem(p) ==
  [p EXCEPT !.buffer = [i \in DOMAIN @ |-> None],
            !.mapcnt = 0, !.pos = 0, !.ms = <<>>]

(* PIPE_LOCK() again after pipe_free_kmem(), and the end. *)
CloseFree(r) ==
  /\ Back(r, "clfree")
  /\ Return(r, pipeunlock([pipe_free_kmem(pipe) EXCEPT !.present = "FINALIZED"]))

(* pipeclose() of the peer, as far as it touches this pipe. *)
CloseWriter(w) ==
  /\ Calls(w, "write")
  /\ \A u \in Writers : pc[u] = "idle"
  /\ open' = open \ {"write"}
  /\ Return(w, IF pipe.present = "ACTIVE"
               THEN wakeup(Set(pipeselwakeup(pipe), {"EOF"})) ELSE pipe)

-----------------------------------------------------------------------------

(* A signal ends an interruptible sleep. *)
Signal(t) ==
  /\ t \in pipe.asleep /\ pc[t] \in Catch
  /\ pipe' = [pipe EXCEPT !.asleep = @ \ {t}]
  /\ intr' = intr \cup {t}
  /\ UNCHANGED <<pc, call, open>>

Inside(t) ==
  \/ /\ t \in Readers
     /\ \/ ReadAwake(t) \/ ReadSpace(t) \/ ReadCopied(t) \/ ReadDirect(t)
        \/ CloseAwake(t) \/ CloseFree(t)
  \/ /\ t \in Writers
     /\ \/ WriteAwake(t) \/ WriteSpace(t) \/ WriteCopied(t)
        \/ DirectBuild(t) \/ DirectClone(t)

Next ==
  \/ \E t \in Threads : Inside(t) \/ Poll(t) \/ PollEnds(t) \/ Signal(t)
  \/ \E r \in Readers : Read(r) \/ CloseReader(r)
  \/ \E w \in Writers : Write(w) \/ CloseWriter(w)

Spec == Init /\ [][Next]_vars

-----------------------------------------------------------------------------

(* The types, the bounds of the ring and the KASSERTs about it: the bytes  *)
(* in it end where in points to, what is copied fits, pipe_busy counts the *)
(* calls, and PIPE_LOCKFL has one owner, who is not asleep.                *)
TypeOK ==
  /\ pipe.state \subseteq Flags
  /\ pipe.size \in {0} \cup PipeSizes
  /\ pipe.cnt \in 0..pipe.size /\ pipe.in \in 0..pipe.size
  /\ pipe.out \in 0..pipe.size
  /\ pipe.out + pipe.cnt \in {pipe.in, pipe.in + pipe.size}
  /\ pipe.buffer \in [0..(BIG_PIPE_SIZE - 1) -> Byte \cup {None}]
  /\ pipe.present \in {"ACTIVE", "FINALIZED"}
  /\ pipe.ms \in Seq(Byte) /\ pipe.pos + pipe.mapcnt <= Len(pipe.ms)
  /\ pipe.asleep \subseteq {t \in Threads : pc[t] \in Catch \cup NoCatch}
  /\ pipe.sel \subseteq {t \in Threads : pc[t] = "poll"}
  /\ pc \in [Threads -> Locations]
  /\ intr \subseteq Threads \ pipe.asleep
  /\ open \subseteq {"read", "write"}
  /\ Cardinality({t \in Threads : pc[t] \in Unlocked}) =
       IF Has(pipe, "LOCKFL") THEN 1 ELSE 0
  /\ pipe.busy = Cardinality({t \in Threads : pc[t] \in Busy})
  /\ \A w \in Writers : pc[w] = "wrcopy" => call[w].size <= pipe.size - pipe.cnt

(* The bytes of the ring, oldest first.  A direct write that is being      *)
(* copied into it has its bytes in the pages still.                        *)
RingOf(buffer, size, out, cnt) ==
  [k \in 1..cnt |-> LET i == out + k - 1 IN buffer[IF i < size THEN i ELSE i - size]]
Ring(p) == RingOf(p.buffer, p.size, p.out, p.cnt)

Bytes(p, cloned) ==
  IF Has(p, "DIRECTW") THEN Ring(p) \o Mapped(p)
  ELSE IF cloned THEN Mapped(p)
  ELSE Ring(p)

(* The bytes in the pipe, while there is somebody to read them. *)
Contents ==
  IF "read" \notin open /\ Has(pipe, "EOF") THEN <<>>
  ELSE Bytes(pipe, \E w \in Writers : pc[w] = "dwclone")

(* The pipe is a stream of bytes: whatever is resized, interrupted, copied *)
(* out of the pages of a writer that goes away or written around the end   *)
(* of the ring, the bytes come out as they went in, and a write of at most *)
(* PIPE_BUF bytes is never mixed with another one.                         *)
Stream ==
  INSTANCE ByteStream
    WITH queue <- Contents,
         todo <- [w \in Writers |-> call[w].uio],
         orig <- [w \in Writers |-> call[w].orig_resid],
         readable <- "read" \in open,
         writable <- ~ Has(pipe, "EOF")
ImplementsStream == Stream!Spec

(* Nobody is on the way through the code. *)
Quiet ==
  \A t \in Threads : pc[t] \in {"idle", "poll"} \/ t \in pipe.asleep

(* No lost wakeup: when everybody inside is asleep, readers sleep because  *)
(* there is nothing to read, writers because there is, neither if the      *)
(* other end is closed, and the flag that makes the other side wake them   *)
(* is set; nobody waits for PIPE_LOCKFL or for the pipe to be run down.    *)
(* All sleep on one channel, and wakeups meant for one clear the flags of  *)
(* others.                                                                 *)
NobodyStranded ==
  Quiet =>
    \A t \in pipe.asleep :
      /\ ~ Has(pipe, "EOF")
      /\ \/ pc[t] = "piperd" /\ Contents = <<>> /\ Has(pipe, "WANTR")
         \/ /\ pc[t] \in {"pipbww", "pipewr", "pipdww", "pipdwt"}
            /\ Contents # <<>> /\ Has(pipe, "WANTW")

(* A thread sleeps in select() only while it could neither read nor write  *)
(* as it wants, or somebody is about to tell it.                           *)
PollIsTold == Quiet => \A t \in pipe.sel : ~ Ready(t, pipe)

=============================================================================
