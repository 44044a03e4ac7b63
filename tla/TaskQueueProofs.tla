-------------------------- MODULE TaskQueueProofs --------------------------
(***************************************************************************)
(* Proofs about task queues, for any number of tasks, workers and clients   *)
(* and any priorities: the lists agree with those who are on them, nobody   *)
(* sleeps on for what has happened, a queue that is freed is not used, and  *)
(* drains wait for what they found queued or running.                       *)
(***************************************************************************)
EXTENDS TaskQueue, FiniteSetTheorems, SequenceTheorems,
        WellFoundedInduction, TLAPS

(* a comes before b in s. *)
Before(s, a, b) ==
  \E i, j \in DOMAIN s : i < j /\ s[i] = a /\ s[j] = b

(* A task is queued or runs. *)
Runs(t) == \E w \in Workers : tb_running[w] = t
Outstanding(t) == ta_pending[t] > 0 \/ Runs(t)

(* The tasks and barriers are on tq_queue as ta_pending says, and the      *)
(* workers on tq_active as they run.                                       *)
ListInv ==
  /\ IsInjective(tq_queue) /\ IsInjective(tq_active)
  /\ \A t \in Queueable : ta_pending[t] > 0 <=> t \in ToSet(tq_queue)
  /\ \A w \in Workers : /\ wpc[w] = "run" <=> w \in ToSet(tq_active)
                        /\ wpc[w] = "run" <=> tb_running[w] # NoTask

(* The counts: threads that have not ended, and armed timeouts and         *)
(* markers.                                                                *)
CountInv ==
  /\ tq_tcount = Cardinality({w \in Workers : wpc[w] # "none"})
  /\ tq_callouts = Cardinality(f) + Cardinality(ToSet(tq_active) \ Workers)

(* An armed callout will fire unless a drain took it away; softclock()     *)
(* holds one that is not pending.                                          *)
TimeoutInv ==
  \A t \in TimeoutTasks :
    /\ WillFire(t) <=> t \in f \ missed
    /\ callout[t].exec = "getlock" => ~ callout[t].pending

(* The barrier and the marker of a client. *)
BarrierInv ==
  /\ \A c \in Clients :
       /\ c \in ToSet(tq_queue) \/ Runs(c) <=> pc[c] = "barrier" /\ c \in asleep
       /\ c \in ToSet(tq_queue) => ~ Runs(c)
       /\ c \in ToSet(tq_active) <=> pc[c] = "marker"
       /\ pc[c] = "marker" =>
            /\ tq_active # <<>>
            /\ c \in asleep <=> Head(tq_active) # c
  /\ \A w, x \in Workers :
       tb_running[w] \in Clients /\ tb_running[w] = tb_running[x] => w = x

(* Where a client is, and what it sleeps for. *)
ClientInv ==
  \A c \in Clients :
    /\ pc[c] = "drain" => task[c] \in Tasks
    /\ pc[c] = "callout" => task[c] \in TimeoutTasks
    /\ pc[c] = "idle" => c \notin asleep
    /\ c \in asleep \ missed =>
         /\ pc[c] = "drain" => Outstanding(task[c])
         /\ pc[c] = "callout" => callout[task[c]].exec # "idle"
         /\ pc[c] = "free" => MustWait
    /\ c \in missed => pc[c] = "drain"

(* Who may still call tq_enqueue. *)
UnlockedInv ==
  /\ \A c \in Clients \cap unlocked : pc[c] = "idle"
  /\ \A w \in Workers \cap unlocked : wpc[w] = "run"
  /\ \A t \in TimeoutTasks \cap unlocked : callout[t].exec = "tail"

(* taskqueue_free() leaves workers and markers only. *)
FreeInv ==
  /\ ~ tq_exists => /\ \A w \in Workers : wpc[w] = "none"
                    /\ \A c \in Clients : pc[c] = "idle"
                    /\ ~ ACTIVE
  /\ ~ ACTIVE =>
       /\ unlocked \subseteq Workers /\ f = {}
       /\ \A t \in TimeoutTasks : callout[t].exec = "idle"
       /\ \A c \in Clients : pc[c] \in {"idle", "marker", "free"}
  /\ ACTIVE => /\ \A w \in Workers : wpc[w] # "shutdown"
               /\ \A c \in Clients : pc[c] # "free"
  /\ \A c, d \in Clients : pc[c] = "free" /\ pc[d] = "free" => c = d

(* A queued task finds a worker. *)
WorkInv ==
  tq_queue # <<>> /\ ~ BLOCKED /\ tq_tcount > 0 =>
    unlocked # {} \/ \E w \in Workers : wpc[w] \in {"awake", "run"}

(* What a draining client still has to wait for: in the queue before its   *)
(* barrier, or running, on tq_active before its marker.                    *)
OwedInv ==
  \A c \in Clients :
    /\ pc[c] \in {"idle", "free"} => owed[c] = {}
    /\ pc[c] \in {"drain", "callout"} => owed[c] \subseteq Invocations(task[c])
    /\ pc[c] = "barrier" =>
         \A u \in owed[c] : \/ u \in Workers /\ wpc[u] = "run"
                            \/ Before(tq_queue, u, c)
    /\ pc[c] = "marker" =>
         \A u \in owed[c] : u \in Workers /\ Before(tq_active, u, c)

IInv ==
  /\ TypeOK
  /\ ListInv
  /\ CountInv
  /\ TimeoutInv
  /\ BarrierInv
  /\ ClientInv
  /\ UnlockedInv
  /\ FreeInv
  /\ WorkInv
  /\ OwedInv

-----------------------------------------------------------------------------
(***************************************************************************)
(* The lists: what taking off, appending, inserting and removing does to    *)
(* the elements and to their order.                                         *)
(***************************************************************************)

(* A set of numbers that is not empty has a least element. *)
LEMMA MinSet ==
  ASSUME NEW T \in SUBSET Nat, T # {}
  PROVE  Min(T) \in T /\ \A y \in T : Min(T) <= y
<1>1. OpToRel(<, Nat) = {ss \in Nat \X Nat : ss[1] < ss[2]}
  BY Zenon DEF OpToRel
<1>2. PICK R : IsWellFoundedOn(R, Nat) /\ R = {ss \in Nat \X Nat : ss[1] < ss[2]}
  BY ONLY <1>1, NatLessThanWellFounded, Zenon
<1>3. PICK x \in T : \A y \in T : ~ (<<y, x>> \in R)
  BY <1>2, WFMin
<1>4. ASSUME NEW y \in T PROVE x <= y
  <2>1. <<y, x>> \in Nat \X Nat /\ <<y, x>>[1] = y /\ <<y, x>>[2] = x
    OBVIOUS
  <2>2. ~ (<<y, x>>[1] < <<y, x>>[2])
    BY <1>2, <1>3, <2>1, Zenon
  <2>3. y \in Nat /\ x \in Nat /\ ~ (y < x)
    BY <2>1, <2>2
  <2> QED BY <2>3
<1> QED BY <1>4 DEF Min

(* An element that is not there is put at the end. *)
LEMMA AppendSeq ==
  ASSUME NEW S, NEW s \in Seq(S), NEW e \in S, e \notin ToSet(s), IsInjective(s)
  PROVE  /\ Append(s, e) \in Seq(S) /\ IsInjective(Append(s, e))
         /\ ToSet(Append(s, e)) = ToSet(s) \cup {e}
         /\ \A a, b : Before(s, a, b) => Before(Append(s, e), a, b)
         /\ \A a \in ToSet(s) : Before(Append(s, e), a, e)
         /\ Append(s, e) # <<>>
         /\ Head(Append(s, e)) = IF s = <<>> THEN e ELSE Head(s)
<1>1. /\ Append(s, e) \in Seq(S) /\ Len(Append(s, e)) = Len(s) + 1
      /\ DOMAIN s = 1..Len(s) /\ DOMAIN Append(s, e) = 1..(Len(s) + 1)
      /\ \A i \in 1..Len(s) : Append(s, e)[i] = s[i]
      /\ Append(s, e)[Len(s) + 1] = e
      /\ Len(s) \in Nat
  OBVIOUS
<1>2. IsInjective(Append(s, e))
  BY <1>1 DEF IsInjective, ToSet
<1>3. ToSet(Append(s, e)) = ToSet(s) \cup {e}
  BY <1>1 DEF ToSet
<1>4. ASSUME NEW a, NEW b, Before(s, a, b) PROVE Before(Append(s, e), a, b)
  BY <1>1, <1>4 DEF Before
<1>5. ASSUME NEW a \in ToSet(s) PROVE Before(Append(s, e), a, e)
  <2>1. PICK i \in DOMAIN s : s[i] = a  BY DEF ToSet
  <2> QED BY <1>1, <2>1 DEF Before
<1>6. Append(s, e) # <<>>
  BY <1>1
<1>7. Head(Append(s, e)) = IF s = <<>> THEN e ELSE Head(s)
  <2>1. CASE s = <<>>
    <3>1. Len(s) = 0 /\ Append(s, e)[1] = e
      BY <1>1, <2>1
    <3>2. Head(Append(s, e)) = Append(s, e)[1]
      BY <1>1
    <3> QED BY <2>1, <3>1, <3>2
  <2>2. CASE s # <<>>
    <3>1. 1 \in 1..Len(s) /\ Head(s) = s[1]
      BY <1>1, <2>2
    <3>2. Append(s, e)[1] = s[1] /\ Head(Append(s, e)) = Append(s, e)[1]
      BY <1>1, <3>1
    <3> QED BY <2>2, <3>1, <3>2
  <2> QED BY <2>1, <2>2
<1> QED BY <1>1, <1>2, <1>3, <1>4, <1>5, <1>6, <1>7

(* The first element is taken off. *)
LEMMA TailSeq ==
  ASSUME NEW S, NEW s \in Seq(S), IsInjective(s), s # <<>>
  PROVE  /\ Tail(s) \in Seq(S) /\ IsInjective(Tail(s)) /\ Head(s) \in ToSet(s)
         /\ ToSet(Tail(s)) = ToSet(s) \ {Head(s)}
         /\ \A a, b : Before(s, a, b) /\ a # Head(s) => Before(Tail(s), a, b)
         /\ \A a : ~ Before(s, a, Head(s))
<1>1. /\ Tail(s) \in Seq(S) /\ Len(Tail(s)) = Len(s) - 1
      /\ DOMAIN s = 1..Len(s) /\ DOMAIN Tail(s) = 1..(Len(s) - 1)
      /\ \A i \in 1..(Len(s) - 1) : Tail(s)[i] = s[i + 1]
      /\ Head(s) = s[1] /\ Len(s) \in Nat /\ Len(s) > 0
  OBVIOUS
<1>2. \A i, j \in 1..Len(s) : s[i] = s[j] => i = j
  BY <1>1 DEF IsInjective
<1>3. IsInjective(Tail(s))
  BY <1>1, <1>2 DEF IsInjective
<1>4. ToSet(Tail(s)) = ToSet(s) \ {Head(s)}
  <2>1. ASSUME NEW i \in 1..(Len(s) - 1)
        PROVE  Tail(s)[i] \in ToSet(s) \ {Head(s)}
    BY <1>1, <1>2 DEF ToSet
  <2>2. ASSUME NEW i \in 1..Len(s), s[i] # Head(s)
        PROVE  s[i] \in ToSet(Tail(s))
    <3>1. i - 1 \in 1..(Len(s) - 1) /\ Tail(s)[i - 1] = s[i]
      BY <1>1, <2>2
    <3> QED BY <1>1, <3>1 DEF ToSet
  <2> QED BY <1>1, <2>1, <2>2 DEF ToSet
<1>5. ASSUME NEW a, NEW b, Before(s, a, b), a # Head(s) PROVE Before(Tail(s), a, b)
  <2>1. PICK i, j \in 1..Len(s) : i < j /\ s[i] = a /\ s[j] = b
    BY <1>1, <1>5 DEF Before
  <2>2. /\ i - 1 \in 1..(Len(s) - 1) /\ j - 1 \in 1..(Len(s) - 1) /\ i - 1 < j - 1
        /\ Tail(s)[i - 1] = a /\ Tail(s)[j - 1] = b
    BY <1>1, <1>5, <2>1
  <2> QED BY <1>1, <2>2 DEF Before
<1>6. ASSUME NEW a PROVE ~ Before(s, a, Head(s))
  BY <1>1, <1>2 DEF Before
<1>7. Head(s) \in ToSet(s)
  BY <1>1 DEF ToSet
<1> QED BY <1>1, <1>3, <1>4, <1>5, <1>6, <1>7

(* An element is put somewhere among the others. *)
LEMMA InsertAtSeq ==
  ASSUME NEW S, NEW s \in Seq(S), NEW e \in S, e \notin ToSet(s), IsInjective(s),
         NEW n \in 1..Len(s)
  PROVE  /\ InsertAt(s, n, e) \in Seq(S) /\ IsInjective(InsertAt(s, n, e))
         /\ ToSet(InsertAt(s, n, e)) = ToSet(s) \cup {e}
         /\ \A a, b : Before(s, a, b) => Before(InsertAt(s, n, e), a, b)
<1> DEFINE r == InsertAt(s, n, e)
<1>0. DOMAIN s = 1..Len(s) /\ n \in 1..Len(s) /\ Len(s) \in Nat
  OBVIOUS
<1>1. /\ r \in Seq(S) /\ DOMAIN r = 1..(Len(s) + 1)
      /\ \A i \in 1..(Len(s) + 1) :
           r[i] = IF i < n THEN s[i] ELSE IF i = n THEN e ELSE s[i - 1]
  <2>1. /\ SubSeq(s, 1, n - 1) \in Seq(S) /\ Len(SubSeq(s, 1, n - 1)) = n - 1
        /\ \A i \in 1..(n - 1) : SubSeq(s, 1, n - 1)[i] = s[i]
    BY <1>0
  <2>2. /\ SubSeq(s, n, Len(s)) \in Seq(S) /\ Len(SubSeq(s, n, Len(s))) = Len(s) - n + 1
        /\ \A i \in 1..(Len(s) - n + 1) : SubSeq(s, n, Len(s))[i] = s[n + i - 1]
    BY <1>0
  <2>3. PICK p \in Seq(S) : p = SubSeq(s, 1, n - 1)
    BY <2>1
  <2>4. PICK q \in Seq(S) : q = SubSeq(s, n, Len(s))
    BY <2>2
  <2>5. r = p \o <<e>> \o q
    BY <2>3, <2>4 DEF InsertAt
  <2>6. /\ Len(p) = n - 1 /\ Len(q) = Len(s) - n + 1
        /\ \A i \in 1..(n - 1) : p[i] = s[i]
        /\ \A i \in 1..(Len(s) - n + 1) : q[i] = s[n + i - 1]
    BY <2>1, <2>2, <2>3, <2>4
  <2>a. <<e>> \in Seq(S) /\ Len(<<e>>) = 1 /\ <<e>>[1] = e
    OBVIOUS
  <2>b. PICK z \in Seq(S) : z = <<e>>
    BY <2>a
  <2>7. PICK o \in Seq(S) : o = p \o z
    BY ConcatProperties
  <2>8. /\ Len(o) = n /\ \A i \in 1..n : o[i] = IF i < n THEN s[i] ELSE e
    <3>1. Len(z) = 1 /\ z[1] = e
      BY <2>a, <2>b
    <3>2. Len(o) = n
      <4>1. Len(o) = Len(p) + Len(z)
        BY <2>7, ConcatProperties
      <4> QED BY <1>0, <2>6, <3>1, <4>1
    <3>d. \A i \in 1..n : o[i] = IF i <= Len(p) THEN p[i] ELSE z[i - Len(p)]
      BY <2>6, <2>7, <3>1, <3>2, ConcatProperties
    <3>3. ASSUME NEW i \in 1..n PROVE o[i] = IF i < n THEN s[i] ELSE e
      <4>1. CASE i < n
        BY <1>0, <2>6, <3>d, <4>1
      <4>2. CASE i = n
        <5>1. ~ (i <= Len(p)) /\ i - Len(p) = 1
          BY <1>0, <2>6, <4>2
        <5> QED BY <3>1, <3>d, <4>2, <5>1
      <4> QED BY <1>0, <4>1, <4>2
    <3> QED BY <3>2, <3>3
  <2>c. r = o \o q
    BY <2>5, <2>7, <2>b
  <2> HIDE DEF r
  <2>9. r \in Seq(S) /\ Len(r) = Len(s) + 1
    <3>1. r \in Seq(S) /\ Len(r) = Len(o) + Len(q)
      BY <2>c, ConcatProperties
    <3> QED BY <1>0, <2>6, <2>8, <3>1
  <2>10. ASSUME NEW i \in 1..(Len(s) + 1)
         PROVE  r[i] = IF i < n THEN s[i] ELSE IF i = n THEN e ELSE s[i - 1]
    <3>1. r[i] = IF i <= n THEN o[i] ELSE q[i - n]
      <4>1. \A k \in 1..(Len(o) + Len(q)) :
              r[k] = IF k <= Len(o) THEN o[k] ELSE q[k - Len(o)]
        BY <2>c, ConcatProperties
      <4>2. i \in 1..(Len(o) + Len(q)) /\ Len(o) = n
        BY <1>0, <2>6, <2>8
      <4> QED BY <4>1, <4>2
    <3>2. CASE i <= n
      BY <1>0, <2>8, <3>1, <3>2
    <3>3. CASE i > n
      <4>1. i - n \in 1..(Len(s) - n + 1) /\ n + (i - n) - 1 = i - 1
        BY <1>0, <3>3
      <4> QED BY <1>0, <2>6, <3>1, <3>3, <4>1
    <3> QED BY <1>0, <3>2, <3>3
  <2> QED BY <1>0, <2>9, <2>10
<1> HIDE DEF r
<1>2. \A i, j \in 1..Len(s) : s[i] = s[j] => i = j
  BY <1>0 DEF IsInjective
<1>3. \A i \in 1..Len(s) : s[i] # e
  BY <1>0 DEF ToSet
<1>4. IsInjective(r)
  <2> SUFFICES ASSUME NEW i \in 1..(Len(s) + 1), NEW j \in 1..(Len(s) + 1), r[i] = r[j]
               PROVE  i = j
    BY <1>1 DEF IsInjective
  <2>1. ASSUME NEW k \in 1..(Len(s) + 1), k # n
        PROVE  \E l \in 1..Len(s) : r[k] = s[l] /\ (IF k < n THEN l = k ELSE l = k - 1)
    <3>1. CASE k < n
      <4>1. k \in 1..Len(s) /\ r[k] = s[k]
        BY <1>0, <1>1, <3>1
      <4> QED BY <3>1, <4>1
    <3>2. CASE k > n
      <4>1. k - 1 \in 1..Len(s) /\ r[k] = s[k - 1] /\ ~ (k < n)
        BY <1>0, <1>1, <3>2
      <4> QED BY <4>1
    <3> QED BY <1>0, <2>1, <3>1, <3>2
  <2>2. r[n] = e
    BY <1>0, <1>1
  <2>3. CASE i = n \/ j = n
    BY <1>3, <2>1, <2>2, <2>3
  <2>4. CASE i # n /\ j # n
    <3>1. PICK k \in 1..Len(s) : r[i] = s[k] /\ (IF i < n THEN k = i ELSE k = i - 1)
      BY <2>1, <2>4
    <3>2. PICK l \in 1..Len(s) : r[j] = s[l] /\ (IF j < n THEN l = j ELSE l = j - 1)
      BY <2>1, <2>4
    <3>3. k = l
      BY <1>2, <3>1, <3>2
    <3> QED BY <1>0, <2>4, <3>1, <3>2, <3>3
  <2> QED BY <2>3, <2>4
<1>5. \A i \in 1..Len(s) :
        r[IF i < n THEN i ELSE i + 1] = s[i] /\ (IF i < n THEN i ELSE i + 1) \in DOMAIN r
  BY <1>0, <1>1
<1>6. ToSet(r) = ToSet(s) \cup {e}
  <2>1. ToSet(s) \subseteq ToSet(r)
    BY <1>0, <1>5 DEF ToSet
  <2>2. e \in ToSet(r)
    BY <1>0, <1>1 DEF ToSet
  <2>3. ASSUME NEW i \in DOMAIN r PROVE r[i] \in ToSet(s) \cup {e}
    <3>1. /\ i < n => i \in 1..Len(s)
          /\ i > n => i - 1 \in 1..Len(s)
          /\ i \in 1..(Len(s) + 1)
      BY <1>0, <1>1
    <3>2. r[i] = e \/ \E k \in 1..Len(s) : r[i] = s[k]
      BY <1>0, <1>1, <3>1
    <3> QED BY <1>0, <3>2 DEF ToSet
  <2>4. ToSet(r) \subseteq ToSet(s) \cup {e}
    BY <2>3 DEF ToSet
  <2> QED BY <2>1, <2>2, <2>4
<1>7. ASSUME NEW a, NEW b, Before(s, a, b) PROVE Before(r, a, b)
  <2>1. PICK i, j \in 1..Len(s) : i < j /\ s[i] = a /\ s[j] = b
    BY <1>0, <1>7 DEF Before
  <2>2. PICK k, l \in DOMAIN r : /\ k = IF i < n THEN i ELSE i + 1
                                 /\ l = IF j < n THEN j ELSE j + 1
    BY <1>5
  <2>3. k < l /\ r[k] = a /\ r[l] = b
    BY <1>0, <1>5, <2>1, <2>2
  <2> QED BY <2>3 DEF Before
<1> QED BY <1>1, <1>4, <1>6, <1>7 DEF r

(* An element is removed. *)
LEMMA RemoveSeq ==
  ASSUME NEW S, NEW s \in Seq(S), NEW e, IsInjective(s)
  PROVE  /\ RemoveFirst(s, e) \in Seq(S) /\ IsInjective(RemoveFirst(s, e))
         /\ ToSet(RemoveFirst(s, e)) = ToSet(s) \ {e}
         /\ \A a, b : Before(s, a, b) /\ a # e /\ b # e => Before(RemoveFirst(s, e), a, b)
         /\ s # <<>> /\ Head(s) # e => Head(RemoveFirst(s, e)) = Head(s)
<1>0. DOMAIN s = 1..Len(s) /\ Len(s) \in Nat
  OBVIOUS
<1>1. CASE e \notin ToSet(s)
  <2>1. RemoveFirst(s, e) = s
    BY <1>0, <1>1 DEF RemoveFirst, ToSet
  <2> QED BY <1>1, <2>1
<1>2. CASE e \in ToSet(s)
  <2>1. PICK n \in 1..Len(s) : s[n] = e
    BY <1>0, <1>2 DEF ToSet
  <2>2. \A i, j \in 1..Len(s) : s[i] = s[j] => i = j
    BY <1>0 DEF IsInjective
  <2>3. PICK r : r = RemoveFirst(s, e)
    OBVIOUS
  <2>4. r = SubSeq(s, 1, n - 1) \o SubSeq(s, n + 1, Len(s))
    <3>1. {i \in 1..Len(s) : s[i] = e} = {n}
      BY <2>1, <2>2
    <3>2. Min({n}) = n
      BY DEF Min
    <3>3. RemoveFirst(s, e) = RemoveAt(s, n)
      BY <2>1, <3>1, <3>2 DEF RemoveFirst, SelectInSeq
    <3> QED BY <2>3, <3>3 DEF RemoveAt
  <2>5. PICK p \in Seq(S) : p = SubSeq(s, 1, n - 1)
    <3>1. \A i \in 1..(n - 1) : s[i] \in S
      BY <1>0
    <3>2. n - 1 \in Int /\ 1 \in Int
      OBVIOUS
    <3> QED BY <3>1, <3>2, SubSeqProperties
  <2>6. PICK q : q = SubSeq(s, n + 1, Len(s))
    OBVIOUS
  <2>7. Len(p) = n - 1 /\ \A i \in 1..(n - 1) : p[i] = s[i]
    BY <1>0, <2>5
  <2>8. q \in Seq(S) /\ Len(q) = Len(s) - n /\ \A i \in 1..(Len(s) - n) : q[i] = s[n + i]
    <3>1. \A i \in (n + 1)..Len(s) : s[i] \in S
      BY <1>0
    <3>2. n + 1 \in Int /\ Len(s) \in Int
      BY <1>0
    <3>3. /\ q \in Seq(S) /\ Len(q) = IF n + 1 <= Len(s) THEN Len(s) - (n + 1) + 1 ELSE 0
          /\ \A i \in 1..(Len(s) - (n + 1) + 1) : q[i] = s[(n + 1) + i - 1]
      BY <2>6, <3>1, <3>2, SubSeqProperties
    <3>4. \A i \in 1..(Len(s) - n) : q[i] = s[n + i]
      <4> TAKE i \in 1..(Len(s) - n)
      <4>1. (n + 1) + i - 1 = n + i /\ i \in 1..(Len(s) - (n + 1) + 1)
        BY <1>0
      <4> QED BY <3>3, <4>1
    <3>5. Len(q) = Len(s) - n
      <4>1. (IF n + 1 <= Len(s) THEN Len(s) - (n + 1) + 1 ELSE 0) = Len(s) - n
        <5>1. n \in Int /\ Len(s) \in Int /\ 1 <= n /\ n <= Len(s)
          BY <1>0
        <5> QED BY ONLY <5>1
      <4> QED BY <3>3, <4>1
    <3> QED BY <3>3, <3>4, <3>5
  <2>9. /\ r \in Seq(S) /\ Len(r) = Len(p) + Len(q)
        /\ \A i \in 1..(Len(p) + Len(q)) :
             r[i] = IF i <= Len(p) THEN p[i] ELSE q[i - Len(p)]
    BY <2>4, <2>5, <2>6, <2>8, ConcatProperties
  <2>10. Len(r) = Len(s) - 1 /\ DOMAIN r = 1..(Len(s) - 1)
    BY <1>0, <2>7, <2>8, <2>9
  <2>11. ASSUME NEW i \in 1..(Len(s) - 1)
         PROVE  r[i] = IF i < n THEN s[i] ELSE s[i + 1]
    <3>1. r[i] = IF i <= n - 1 THEN p[i] ELSE q[i - (n - 1)]
      BY <1>0, <2>7, <2>8, <2>9
    <3>2. CASE i < n
      BY <2>7, <3>1, <3>2
    <3>3. CASE i >= n
      <4>1. i - (n - 1) \in 1..(Len(s) - n) /\ n + (i - (n - 1)) = i + 1
        BY <1>0, <3>3
      <4> QED BY <2>8, <3>1, <3>3, <4>1
    <3> QED BY <3>2, <3>3
  <2>12. ASSUME NEW i \in 1..Len(s), i # n
         PROVE  \E k \in 1..(Len(s) - 1) : r[k] = s[i] /\ (IF i < n THEN k = i ELSE k = i - 1)
    <3>1. CASE i < n
      BY <1>0, <2>11, <3>1
    <3>2. CASE i > n
      <4>1. i - 1 \in 1..(Len(s) - 1) /\ ~ (i - 1 < n) /\ (i - 1) + 1 = i
        BY <1>0, <3>2
      <4>2. r[i - 1] = s[i]
        BY <2>11, <4>1
      <4> QED BY <3>2, <4>1, <4>2
    <3> QED BY <2>12, <3>1, <3>2
  <2>13. ASSUME NEW i \in 1..(Len(s) - 1)
         PROVE  \E k \in 1..Len(s) : k # n /\ r[i] = s[k] /\ (IF i < n THEN k = i ELSE k = i + 1)
    <3>1. CASE i < n
      BY <1>0, <2>11, <3>1
    <3>2. CASE i >= n
      <4>1. i + 1 \in 1..Len(s) /\ ~ (i < n) /\ i + 1 # n
        BY <1>0, <3>2
      <4> QED BY <2>11, <4>1
    <3> QED BY <3>1, <3>2
  <2>14. IsInjective(r)
    <3> SUFFICES ASSUME NEW i \in 1..(Len(s) - 1), NEW j \in 1..(Len(s) - 1), r[i] = r[j]
                 PROVE  i = j
      BY <2>10 DEF IsInjective
    <3>1. PICK k \in 1..Len(s) : r[i] = s[k] /\ (IF i < n THEN k = i ELSE k = i + 1)
      BY <2>13
    <3>2. PICK l \in 1..Len(s) : r[j] = s[l] /\ (IF j < n THEN l = j ELSE l = j + 1)
      BY <2>13
    <3>3. k = l
      BY <2>2, <3>1, <3>2
    <3> QED BY <3>1, <3>2, <3>3
  <2>15. ToSet(r) = ToSet(s) \ {e}
    <3>1. ASSUME NEW i \in 1..(Len(s) - 1) PROVE r[i] \in ToSet(s) \ {e}
      <4>1. PICK k \in 1..Len(s) : k # n /\ r[i] = s[k]
        BY <2>13
      <4>2. s[k] # e /\ s[k] \in ToSet(s)
        BY <1>0, <2>1, <2>2, <4>1 DEF ToSet
      <4> QED BY <4>1, <4>2
    <3>2. ASSUME NEW i \in 1..Len(s), s[i] # e PROVE s[i] \in ToSet(r)
      <4>1. PICK k \in 1..(Len(s) - 1) : r[k] = s[i]
        BY <2>1, <2>12, <3>2
      <4> QED BY <2>10, <4>1 DEF ToSet
    <3> QED BY <1>0, <2>10, <3>1, <3>2 DEF ToSet
  <2>16. ASSUME NEW a, NEW b, Before(s, a, b), a # e, b # e PROVE Before(r, a, b)
    <3>1. PICK i, j \in 1..Len(s) : i < j /\ s[i] = a /\ s[j] = b
      BY <1>0, <2>16 DEF Before
    <3>2. i # n /\ j # n
      BY <2>1, <2>16, <3>1
    <3>3. PICK k \in 1..(Len(s) - 1) : r[k] = s[i] /\ (IF i < n THEN k = i ELSE k = i - 1)
      BY <2>12, <3>2
    <3>4. PICK l \in 1..(Len(s) - 1) : r[l] = s[j] /\ (IF j < n THEN l = j ELSE l = j - 1)
      BY <2>12, <3>2
    <3>5. k < l
      BY <3>1, <3>2, <3>3, <3>4
    <3> QED BY <2>10, <3>1, <3>3, <3>4, <3>5 DEF Before
  <2>17. ASSUME Head(s) # e PROVE Head(r) = Head(s)
    <3>1. Head(s) = s[1] /\ 1 # n /\ 1 \in 1..Len(s)
      BY <1>0, <2>1, <2>17
    <3>2. 1 \in 1..(Len(s) - 1) /\ 1 < n
      BY <1>0, <3>1
    <3>3. r[1] = s[1]
      BY <2>11, <3>2
    <3>4. Head(r) = r[1]
      BY <2>9, <2>10, <3>2
    <3> QED BY <3>1, <3>3, <3>4
  <2> QED BY <2>3, <2>9, <2>14, <2>15, <2>16, <2>17
<1> QED BY <1>1, <1>2

(* taskqueue_enqueue_locked() puts a task somewhere on the list and leaves *)
(* the order of the others alone.                                          *)
LEMMA InsertSeq ==
  ASSUME NEW q \in Seq(Queueable), NEW t \in Queueable, t \notin ToSet(q), IsInjective(q)
  PROVE  /\ Insert(q, t) \in Seq(Queueable) /\ IsInjective(Insert(q, t))
         /\ ToSet(Insert(q, t)) = ToSet(q) \cup {t}
         /\ \A a, b : Before(q, a, b) => Before(Insert(q, t), a, b)
<1>1. CASE q = <<>> \/ Priority(Last(q)) >= Priority(t)
  BY <1>1, AppendSeq DEF Insert
<1>2. CASE ~ (q = <<>> \/ Priority(Last(q)) >= Priority(t))
  <2>1. PICK lower : lower = {i \in DOMAIN q : Priority(q[i]) < Priority(t)}
    OBVIOUS
  <2>2. Len(q) \in DOMAIN q /\ Len(q) \in Nat /\ DOMAIN q = 1..Len(q)
    BY <1>2
  <2>3. \A u \in Queueable : Priority(u) \in Nat
    BY TaskQueueAssumption DEF Priority, Queueable
  <2>4. Priority(q[Len(q)]) < Priority(t)
    <3>1. q[Len(q)] \in Queueable
      BY <2>2
    <3>2. Priority(q[Len(q)]) \in Nat /\ Priority(t) \in Nat
      BY <2>3, <3>1
    <3> QED BY <1>2, <3>2 DEF Last
  <2>5. lower \in SUBSET Nat /\ lower # {}
    BY <2>1, <2>2, <2>4
  <2>6. PICK n \in 1..Len(q) : n = Min(lower)
    BY <2>1, <2>2, <2>5, MinSet
  <2>7. Insert(q, t) = InsertAt(q, n, t)
    BY <1>2, <2>1, <2>6 DEF Insert
  <2> QED BY <2>7, InsertAtSeq
<1> QED BY <1>1, <1>2

-----------------------------------------------------------------------------
(***************************************************************************)
(* The steps.                                                               *)
(***************************************************************************)

(* The kernel part of taskqueue_enqueue_locked() that comes after          *)
(* TQ_UNLOCK(): one worker is woken, unless the queue is blocked.          *)
LEMMA tq_enqueueStep ==
  ASSUME IInv, NEW a, tq_enqueue(a)
  PROVE  IInv'
<1>1. /\ a \in unlocked /\ unlocked' = unlocked \ {a}
      /\ UNCHANGED <<tq_exists, tq_flags, tq_queue, tq_active, ta_pending, tb_running,
                     tq_tcount, tq_callouts, f, callout, pc, task, asleep, owed, missed>>
  BY DEF tq_enqueue, flags, lists, counts, timeouts, client
<1>2. /\ wpc' \in [Workers -> {"none", "awake", "run", "asleep", "shutdown"}]
      /\ \A w \in Workers : wpc'[w] = wpc[w] \/ (wpc[w] = "asleep" /\ wpc'[w] = "awake")
  BY DEF tq_enqueue, wakeup_one_tq, IInv, TypeOK
<1>3. TypeOK'
  BY <1>1, <1>2 DEF IInv, TypeOK
<1>4. ListInv'
  BY <1>1, <1>2 DEF IInv, ListInv
<1>5. CountInv'
  <2>1. {w \in Workers : wpc'[w] # "none"} = {w \in Workers : wpc[w] # "none"}
    BY <1>2
  <2> QED BY <1>1, <2>1 DEF IInv, CountInv
<1>6. TimeoutInv'
  BY <1>1 DEF IInv, TimeoutInv, WillFire
<1>7. BarrierInv'
  BY <1>1 DEF IInv, BarrierInv, Runs
<1>8. ClientInv'
  BY <1>1 DEF IInv, ClientInv, Outstanding, Runs, MustWait
<1>9. UnlockedInv'
  BY <1>1, <1>2 DEF IInv, UnlockedInv
<1>10. FreeInv'
  BY <1>1, <1>2 DEF IInv, FreeInv, ACTIVE
<1>11. WorkInv'
  <2> SUFFICES ASSUME tq_queue # <<>>, ~ BLOCKED, tq_tcount > 0,
                      \A w \in Workers : wpc'[w] \notin {"awake", "run"}
               PROVE  FALSE
    BY <1>1 DEF WorkInv, BLOCKED
  <2>1. \A w \in Workers : wpc'[w] = wpc[w] /\ wpc[w] # "asleep"
    BY <1>2 DEF tq_enqueue, wakeup_one_tq, IInv, TypeOK
  <2>2. a \notin Workers
    BY <1>1, <2>1 DEF IInv, UnlockedInv
  <2>3. ACTIVE
    BY <1>1, <2>2 DEF IInv, FreeInv
  <2>4. \A w \in Workers : wpc[w] = "none"
    <3>1. wpc \in [Workers -> {"none", "awake", "run", "asleep", "shutdown"}]
      BY DEF IInv, TypeOK
    <3>2. \A w \in Workers : wpc[w] # "shutdown"
      BY <2>3 DEF IInv, FreeInv
    <3> QED BY <2>1, <3>1, <3>2
  <2>5. {w \in Workers : wpc[w] # "none"} = {}
    BY <2>4
  <2>6. tq_tcount = 0
    BY ONLY <2>5, FS_EmptySet, IInv DEF IInv, CountInv
  <2> QED BY <2>6
<1>12. OwedInv'
  BY <1>1, <1>2 DEF IInv, OwedInv, Invocations, Before
<1> QED BY <1>3, <1>4, <1>5, <1>6, <1>7, <1>8, <1>9, <1>10, <1>11, <1>12 DEF IInv

(* tq_tcount is 0 when all threads have ended, and only then. *)
LEMMA NoThreads ==
  ASSUME CountInv
  PROVE  tq_tcount = 0 <=> \A w \in Workers : wpc[w] = "none"
<1>1. PICK S : S = {w \in Workers : wpc[w] # "none"}
  OBVIOUS
<1>2. IsFiniteSet(S)
  BY <1>1, FS_Subset, TaskQueueAssumption
<1>3. tq_tcount = 0 <=> S = {}
  BY <1>1, <1>2, FS_EmptySet DEF CountInv
<1> QED BY <1>1, <1>3

(* What taskqueue_enqueue_locked() does to the list: a task joins it, the  *)
(* barriers on it stay, in their order.                                    *)
LEMMA EnqueueFacts ==
  ASSUME TypeOK, ListInv, NEW a, NEW t \in Tasks, taskqueue_enqueue_locked(a, t)
  PROVE  /\ tq_queue' \in Seq(Queueable) /\ IsInjective(tq_queue')
         /\ ta_pending' \in [Queueable -> 0..USHRT_MAX]
         /\ \A u \in Queueable : ta_pending'[u] > 0 <=> u \in ToSet(tq_queue')
         /\ \A u \in Queueable : ta_pending[u] > 0 => ta_pending'[u] > 0
         /\ \A c \in Clients : c \in ToSet(tq_queue') <=> c \in ToSet(tq_queue)
         /\ \A x, y : Before(tq_queue, x, y) => Before(tq_queue', x, y)
         /\ \/ unlocked' = unlocked /\ tq_queue' = tq_queue
            \/ unlocked' = unlocked \cup {a}
<1>0. /\ tq_queue \in Seq(Queueable) /\ ta_pending \in [Queueable -> 0..USHRT_MAX]
      /\ USHRT_MAX \in Nat \ {0} /\ t \in Queueable /\ t \notin Clients
  BY TaskQueueAssumption DEF TypeOK, Queueable
<1>1. CASE /\ ta_pending[t] > 0
           /\ ta_pending' = [ta_pending EXCEPT ![t] = PendingAfter(@)]
           /\ UNCHANGED <<tq_queue, unlocked>>
  <2>1. PendingAfter(ta_pending[t]) \in 0..USHRT_MAX /\ PendingAfter(ta_pending[t]) > 0
    BY <1>0, <1>1 DEF PendingAfter
  <2>2. /\ ta_pending' \in [Queueable -> 0..USHRT_MAX]
        /\ \A u \in Queueable : ta_pending'[u] > 0 <=> ta_pending[u] > 0
    BY <1>0, <1>1, <2>1
  <2> QED BY <1>0, <1>1, <2>2 DEF ListInv
<1>2. CASE /\ ta_pending[t] = 0
           /\ tq_queue' = Insert(tq_queue, t)
           /\ ta_pending' = [ta_pending EXCEPT ![t] = 1]
           /\ unlocked' = unlocked \cup {a}
  <2>1. t \notin ToSet(tq_queue) /\ IsInjective(tq_queue)
    BY <1>0, <1>2 DEF ListInv
  <2>2. /\ tq_queue' \in Seq(Queueable) /\ IsInjective(tq_queue')
        /\ ToSet(tq_queue') = ToSet(tq_queue) \cup {t}
        /\ \A x, y : Before(tq_queue, x, y) => Before(tq_queue', x, y)
    BY <1>0, <1>2, <2>1, InsertSeq
  <2>3. /\ ta_pending' \in [Queueable -> 0..USHRT_MAX]
        /\ \A u \in Queueable : ta_pending'[u] > 0 <=> ta_pending[u] > 0 \/ u = t
    BY <1>0, <1>2
  <2> QED BY <1>0, <1>2, <2>2, <2>3 DEF ListInv
<1> QED BY <1>1, <1>2 DEF taskqueue_enqueue_locked

(* A call of taskqueue_enqueue_locked(), given what its callers do to the  *)
(* timeouts.                                                               *)
LEMMA EnqueueStep ==
  ASSUME IInv, NEW a, NEW t \in Tasks, taskqueue_enqueue_locked(a, t),
         UNCHANGED <<tq_exists, tq_flags, tq_active, tb_running, tq_tcount, wpc,
                     pc, task, asleep, owed, missed>>,
         a \in Clients \cup Workers \cup TimeoutTasks,
         a \in Clients => pc[a] = "idle" /\ ACTIVE,
         a \in Workers => wpc[a] = "run",
         a \in TimeoutTasks => callout'[a].exec = "tail" /\ ACTIVE,
         f' \subseteq f, callout' \in [TimeoutTasks -> Callout],
         tq_callouts' \in 0..(Cardinality(TimeoutTasks) + Cardinality(Clients)),
         CountInv', TimeoutInv', ~ ACTIVE => UNCHANGED <<f, callout, tq_callouts>>,
         \A u \in TimeoutTasks :
           callout'[u] = callout[u] \/ (callout'[u].exec # "idle" /\ u \notin unlocked)
  PROVE  IInv'
<1>0. /\ tq_queue' \in Seq(Queueable) /\ IsInjective(tq_queue')
      /\ ta_pending' \in [Queueable -> 0..USHRT_MAX]
      /\ \A u \in Queueable : ta_pending'[u] > 0 <=> u \in ToSet(tq_queue')
      /\ \A u \in Queueable : ta_pending[u] > 0 => ta_pending'[u] > 0
      /\ \A c \in Clients : c \in ToSet(tq_queue') <=> c \in ToSet(tq_queue)
      /\ \A x, y : Before(tq_queue, x, y) => Before(tq_queue', x, y)
      /\ \/ unlocked' = unlocked /\ tq_queue' = tq_queue
         \/ unlocked' = unlocked \cup {a}
  BY EnqueueFacts DEF IInv
<1>1. TypeOK'
  BY <1>0 DEF IInv, TypeOK
<1>2. ListInv'
  BY <1>0 DEF IInv, ListInv
<1>3. BarrierInv'
  BY <1>0 DEF IInv, BarrierInv, Runs
<1>4. ClientInv'
  <2> SUFFICES ASSUME NEW c \in Clients
               PROVE  (/\ pc[c] = "drain" => task[c] \in Tasks
                       /\ pc[c] = "callout" => task[c] \in TimeoutTasks
                       /\ pc[c] = "idle" => c \notin asleep
                       /\ c \in asleep \ missed =>
                            /\ pc[c] = "drain" => Outstanding(task[c])
                            /\ pc[c] = "callout" => callout[task[c]].exec # "idle"
                            /\ pc[c] = "free" => MustWait
                       /\ c \in missed => pc[c] = "drain")'
    BY DEF ClientInv
  <2>1. pc[c] = "drain" /\ Outstanding(task[c]) => Outstanding(task[c])'
    BY <1>0 DEF IInv, ClientInv, Outstanding, Runs, Queueable
  <2>2. pc[c] = "callout" /\ callout[task[c]].exec # "idle" => callout'[task[c]].exec # "idle"
    BY DEF IInv, ClientInv
  <2>3. pc[c] = "free" /\ MustWait => MustWait'
    BY DEF IInv, FreeInv, MustWait
  <2> QED BY <2>1, <2>2, <2>3 DEF IInv, ClientInv
<1>5. UnlockedInv'
  BY <1>0, TaskQueueAssumption DEF IInv, UnlockedInv
<1>6. FreeInv'
  BY <1>0 DEF IInv, FreeInv, ACTIVE
<1>7. WorkInv'
  BY <1>0 DEF IInv, WorkInv, BLOCKED
<1>8. OwedInv'
  <2>1. \A c \in Clients : pc[c] \in {"drain", "callout"} =>
          Invocations(task[c]) \subseteq Invocations(task[c])'
    BY <1>0, TaskQueueAssumption DEF IInv, ClientInv, Invocations, Queueable
  <2>2. \A x, y : Before(tq_active, x, y)' <=> Before(tq_active, x, y)
    BY DEF Before
  <2> QED BY <1>0, <2>1, <2>2 DEF IInv, OwedInv
<1> QED BY <1>1, <1>2, <1>3, <1>4, <1>5, <1>6, <1>7, <1>8 DEF IInv

(* taskqueue_enqueue(), and a task that queues one. *)
LEMMA taskqueue_enqueueStep ==
  ASSUME IInv, NEW t \in Tasks,
         \/ \E c \in Clients : taskqueue_enqueue(c, t)
         \/ \E w \in Workers : TaskEnqueues(w, t)
         \/ \E c \in Clients : /\ MayCall(c) /\ taskqueue_enqueue_locked(c, t)
                               /\ UNCHANGED <<flags, tq_active, tb_running, counts,
                                              timeouts, wpc, client, asleep, owed, missed>>
  PROVE  IInv'
<1>1. PICK a \in Clients \cup Workers :
         /\ taskqueue_enqueue_locked(a, t)
         /\ a \in Clients => pc[a] = "idle" /\ ACTIVE
         /\ a \in Workers => wpc[a] = "run"
         /\ UNCHANGED <<flags, tq_active, tb_running, counts, timeouts, wpc, client,
                        asleep, owed, missed>>
  BY TaskQueueAssumption DEF taskqueue_enqueue, TaskEnqueues, MayCall
<1>2. UNCHANGED <<tq_exists, tq_flags, tq_active, tb_running, tq_tcount, wpc, pc, task,
                  asleep, owed, missed, f, callout, tq_callouts>>
  BY <1>1 DEF flags, counts, timeouts, client
<1>3. CountInv' /\ TimeoutInv'
  BY <1>2 DEF IInv, CountInv, TimeoutInv, WillFire
<1>4. a \notin TimeoutTasks
  BY TaskQueueAssumption
<1>5. /\ callout \in [TimeoutTasks -> Callout]
      /\ tq_callouts \in 0..(Cardinality(TimeoutTasks) + Cardinality(Clients))
  BY DEF IInv, TypeOK
<1> QED BY <1>1, <1>2, <1>3, <1>4, <1>5, EnqueueStep

(* The markers and armed timeouts are finitely many, so that tq_callouts   *)
(* stays within its bounds.                                                *)
LEMMA CountBound ==
  ASSUME NEW F, F \subseteq TimeoutTasks, NEW q \in Seq(Workers \cup Clients)
  PROVE  /\ IsFiniteSet(F) /\ IsFiniteSet(ToSet(q) \ Workers)
         /\ Cardinality(F) \in Nat /\ Cardinality(ToSet(q) \ Workers) \in Nat
         /\ Cardinality(F) + Cardinality(ToSet(q) \ Workers)
              \in 0..(Cardinality(TimeoutTasks) + Cardinality(Clients))
<1>1. IsFiniteSet(TimeoutTasks) /\ IsFiniteSet(Clients)
  BY FS_Subset, TaskQueueAssumption
<1>2. IsFiniteSet(F) /\ Cardinality(F) <= Cardinality(TimeoutTasks)
  BY <1>1, FS_Subset
<1>3. ToSet(q) \ Workers \in SUBSET Clients
  BY DEF ToSet
<1>4. IsFiniteSet(ToSet(q) \ Workers) /\ Cardinality(ToSet(q) \ Workers) <= Cardinality(Clients)
  BY <1>1, <1>3, FS_Subset
<1>5. /\ Cardinality(F) \in Nat /\ Cardinality(ToSet(q) \ Workers) \in Nat
      /\ Cardinality(TimeoutTasks) \in Nat /\ Cardinality(Clients) \in Nat
  BY <1>1, <1>2, <1>4, FS_CardinalityType
<1> QED BY <1>2, <1>4, <1>5

(* An armed timeout more, or less. *)
LEMMA ArmedCount ==
  ASSUME NEW F, F \subseteq TimeoutTasks, NEW t
  PROVE  /\ Cardinality(F \cup {t}) = IF t \in F THEN Cardinality(F) ELSE Cardinality(F) + 1
         /\ Cardinality(F \ {t}) = IF t \in F THEN Cardinality(F) - 1 ELSE Cardinality(F)
<1>1. IsFiniteSet(F)
  BY FS_Subset, TaskQueueAssumption
<1> QED BY <1>1, FS_AddElement, FS_RemoveElement

(* softclock() has tq_mutex: taskqueue_timeout_func() queues the task, or  *)
(* the callout was cancelled.                                              *)
LEMMA taskqueue_timeout_funcStep ==
  ASSUME IInv, NEW t \in TimeoutTasks, taskqueue_timeout_func(t)
  PROVE  IInv'
<1>0. /\ callout' = [callout EXCEPT ![t].exec = "tail"]
      /\ UNCHANGED <<tq_exists, tq_flags, tq_active, tb_running, tq_tcount, wpc, pc,
                     task, asleep, owed, missed>>
      /\ t \in Tasks
  BY TaskQueueAssumption DEF taskqueue_timeout_func, flags, client
<1>1. callout \in [TimeoutTasks -> Callout] /\ f \subseteq TimeoutTasks
  BY DEF IInv, TypeOK
<1>2. /\ callout' \in [TimeoutTasks -> Callout]
      /\ callout'[t].exec = "tail" /\ callout'[t].pending = callout[t].pending
      /\ \A u \in TimeoutTasks : u # t => callout'[u] = callout[u]
  BY <1>0, <1>1 DEF Callout
<1>3. ACTIVE /\ t \notin unlocked
  BY DEF IInv, FreeInv, UnlockedInv, taskqueue_timeout_func
<1>4. CASE /\ callout[t].exec = "skip"
           /\ UNCHANGED <<tq_queue, ta_pending, tq_callouts, f, unlocked>>
  <2>1. TypeOK'
    BY <1>0, <1>2, <1>4 DEF IInv, TypeOK
  <2>2. ListInv'
    BY <1>0, <1>4 DEF IInv, ListInv
  <2>3. CountInv'
    BY <1>0, <1>4 DEF IInv, CountInv
  <2>4. TimeoutInv'
    BY <1>0, <1>2, <1>4 DEF IInv, TimeoutInv, WillFire
  <2>5. BarrierInv'
    BY <1>0, <1>4 DEF IInv, BarrierInv, Runs
  <2>6. ClientInv'
    BY <1>0, <1>2, <1>4 DEF IInv, ClientInv, Outstanding, Runs, MustWait
  <2>7. UnlockedInv'
    BY <1>0, <1>2, <1>3, <1>4 DEF IInv, UnlockedInv
  <2>8. FreeInv'
    BY <1>0, <1>3, <1>4 DEF IInv, FreeInv, ACTIVE
  <2>9. WorkInv'
    BY <1>0, <1>4 DEF IInv, WorkInv, BLOCKED
  <2>10. OwedInv'
    BY <1>0, <1>4 DEF IInv, OwedInv, Invocations, Before
  <2> QED BY <2>1, <2>2, <2>3, <2>4, <2>5, <2>6, <2>7, <2>8, <2>9, <2>10 DEF IInv
<1>5. CASE /\ callout[t].exec = "getlock" /\ f' = f \ {t}
           /\ tq_callouts' = tq_callouts - 1 /\ taskqueue_enqueue_locked(t, t)
  <2>1. t \in f \ missed /\ ~ callout[t].pending
    BY <1>5 DEF IInv, TimeoutInv, WillFire
  <2>2. CountInv'
    <3>1. Cardinality(f') = Cardinality(f) - 1
      BY <1>1, <1>5, <2>1, ArmedCount
    <3>2. Cardinality(f) \in Nat /\ Cardinality(ToSet(tq_active) \ Workers) \in Nat
      BY <1>1, CountBound DEF IInv, TypeOK
    <3>3. tq_callouts' = Cardinality(f') + Cardinality(ToSet(tq_active) \ Workers)
      BY <1>5, <3>1, <3>2 DEF IInv, CountInv
    <3> QED BY <1>0, <3>3 DEF IInv, CountInv
  <2>3. tq_callouts' \in 0..(Cardinality(TimeoutTasks) + Cardinality(Clients))
    <3>1. tq_callouts' = Cardinality(f') + Cardinality(ToSet(tq_active') \ Workers)
      BY <2>2 DEF CountInv
    <3>2. f' \subseteq TimeoutTasks /\ tq_active' \in Seq(Workers \cup Clients)
      BY <1>0, <1>1, <1>5 DEF IInv, TypeOK
    <3> QED BY <3>1, <3>2, CountBound
  <2>4. TimeoutInv'
    BY <1>0, <1>2, <1>5, <2>1 DEF IInv, TimeoutInv, WillFire
  <2>5. f' \subseteq f
    BY <1>5
  <2>6. t \notin Clients /\ t \notin Workers
    BY <1>0, TaskQueueAssumption
  <2>7. \A u \in TimeoutTasks :
          callout'[u] = callout[u] \/ (callout'[u].exec # "idle" /\ u \notin unlocked)
    BY <1>2, <1>3
  <2> QED BY <1>0, <1>2, <1>3, <1>5, <2>2, <2>3, <2>4, <2>5, <2>6, <2>7, EnqueueStep
<1> QED BY <1>4, <1>5 DEF taskqueue_timeout_func

(* softclock() takes a callout that is due. *)
LEMMA CalloutDueStep ==
  ASSUME IInv, NEW t \in TimeoutTasks, CalloutDue(t)
  PROVE  IInv'
<1>0. /\ callout[t].pending /\ callout[t].exec = "idle"
      /\ callout' = [callout EXCEPT ![t].pending = FALSE, ![t].exec = "getlock"]
      /\ UNCHANGED <<tq_exists, tq_flags, tq_queue, tq_active, ta_pending, tb_running,
                     tq_tcount, tq_callouts, f, wpc, pc, task, asleep, unlocked, owed,
                     missed>>
  BY DEF CalloutDue, flags, lists, counts, client
<1>1. callout \in [TimeoutTasks -> Callout]
  BY DEF IInv, TypeOK
<1>2. /\ callout' \in [TimeoutTasks -> Callout]
      /\ callout'[t].exec = "getlock" /\ callout'[t].pending = FALSE
      /\ \A u \in TimeoutTasks : u # t => callout'[u] = callout[u]
  BY <1>0, <1>1 DEF Callout
<1>3. ACTIVE
  BY <1>0 DEF IInv, FreeInv, TimeoutInv, WillFire
<1>4. t \notin unlocked
  BY <1>0 DEF IInv, UnlockedInv
<1>5. TypeOK'
  BY <1>0, <1>2 DEF IInv, TypeOK
<1>6. ListInv'
  BY <1>0 DEF IInv, ListInv
<1>7. CountInv'
  BY <1>0 DEF IInv, CountInv
<1>8. TimeoutInv'
  BY <1>0, <1>2 DEF IInv, TimeoutInv, WillFire
<1>9. BarrierInv'
  BY <1>0 DEF IInv, BarrierInv, Runs
<1>10. ClientInv'
  BY <1>0, <1>2 DEF IInv, ClientInv, Outstanding, Runs, MustWait
<1>11. UnlockedInv'
  BY <1>0, <1>2, <1>4 DEF IInv, UnlockedInv
<1>12. FreeInv'
  BY <1>0, <1>3 DEF IInv, FreeInv, ACTIVE
<1>13. WorkInv'
  BY <1>0 DEF IInv, WorkInv, BLOCKED
<1>14. OwedInv'
  BY <1>0 DEF IInv, OwedInv, Invocations, Before
<1> QED BY <1>5, <1>6, <1>7, <1>8, <1>9, <1>10, <1>11, <1>12, <1>13, <1>14 DEF IInv

(* softclock() is done with a callout and wakes those who drain it. *)
LEMMA CalloutDoneStep ==
  ASSUME IInv, NEW t \in TimeoutTasks, CalloutDone(t)
  PROVE  IInv'
<1>0. /\ callout[t].exec = "tail" /\ t \notin unlocked
      /\ callout' = [callout EXCEPT ![t].exec = "idle", ![t].waiting = FALSE]
      /\ asleep' = asleep \ {c \in Clients : pc[c] = "callout" /\ task[c] = t}
      /\ UNCHANGED <<tq_exists, tq_flags, tq_queue, tq_active, ta_pending, tb_running,
                     tq_tcount, tq_callouts, f, wpc, pc, task, unlocked, owed, missed>>
  BY DEF CalloutDone, flags, lists, counts, client
<1>1. callout \in [TimeoutTasks -> Callout]
  BY DEF IInv, TypeOK
<1>2. /\ callout' \in [TimeoutTasks -> Callout]
      /\ callout'[t].exec = "idle" /\ callout'[t].pending = callout[t].pending
      /\ \A u \in TimeoutTasks : u # t => callout'[u] = callout[u]
  BY <1>0, <1>1 DEF Callout
<1>5. TypeOK'
  BY <1>0, <1>2 DEF IInv, TypeOK
<1>6. ListInv'
  BY <1>0 DEF IInv, ListInv
<1>7. CountInv'
  BY <1>0 DEF IInv, CountInv
<1>8. TimeoutInv'
  BY <1>0, <1>2 DEF IInv, TimeoutInv, WillFire
<1>9. BarrierInv'
  BY <1>0 DEF IInv, BarrierInv, Runs
<1>10. ClientInv'
  BY <1>0, <1>2 DEF IInv, ClientInv, Outstanding, Runs, MustWait
<1>11. UnlockedInv'
  BY <1>0, <1>2 DEF IInv, UnlockedInv
<1>12. FreeInv'
  BY <1>0, <1>2 DEF IInv, FreeInv, ACTIVE
<1>13. WorkInv'
  BY <1>0 DEF IInv, WorkInv, BLOCKED
<1>14. OwedInv'
  BY <1>0 DEF IInv, OwedInv, Invocations, Before
<1> QED BY <1>5, <1>6, <1>7, <1>8, <1>9, <1>10, <1>11, <1>12, <1>13, <1>14 DEF IInv

(* taskqueue_enqueue_timeout(). *)
LEMMA taskqueue_enqueue_timeoutStep ==
  ASSUME IInv, NEW c \in Clients, NEW t \in TimeoutTasks, NEW ticks,
         taskqueue_enqueue_timeout(c, t, ticks)
  PROVE  IInv'
<1>0. /\ UNCHANGED <<tq_exists, tq_flags, tq_active, tb_running, tq_tcount, wpc, pc, task,
                     asleep, owed>>
      /\ MayCall(c) /\ ACTIVE /\ t \in Tasks /\ t \notin Clients
  BY TaskQueueAssumption DEF taskqueue_enqueue_timeout, flags, client, MayCall
<1>1. callout \in [TimeoutTasks -> Callout] /\ f \subseteq TimeoutTasks
  BY DEF IInv, TypeOK
<1>2. CASE /\ taskqueue_enqueue_locked(c, t)
           /\ UNCHANGED <<tq_callouts, timeouts, missed>>
  BY <1>0, <1>2, taskqueue_enqueueStep DEF taskqueue_enqueue_timeout, flags, counts, client
<1>3. CASE /\ f' = f \cup {t}
           /\ tq_callouts' = IF t \in f THEN tq_callouts ELSE tq_callouts + 1
           /\ \/ Starts(t, ticks) /\ callout_reset(t)
              \/ ~ Starts(t, ticks) /\ UNCHANGED <<callout, missed>>
           /\ UNCHANGED <<tq_queue, ta_pending, unlocked>>
  <2>1. /\ callout' \in [TimeoutTasks -> Callout]
        /\ \A u \in TimeoutTasks : u # t => callout'[u] = callout[u]
        /\ callout'[t].exec = callout[t].exec \/
             (callout[t].exec = "getlock" /\ callout'[t].exec = "skip")
    BY <1>1, <1>3 DEF callout_reset, Callout
  <2>2. missed' \ {t} = missed \ {t} /\ missed' \subseteq Clients \cup TimeoutTasks
    BY <1>3 DEF callout_reset, IInv, TypeOK
  <2>3. WillFire(t)' <=> t \in f' \ missed'
    <3>1. CASE ~ Starts(t, ticks) /\ UNCHANGED <<callout, missed>>
      BY <1>3, <3>1 DEF Starts, IInv, TimeoutInv, WillFire
    <3>2. CASE callout_reset(t)
      <4>1. PICK refused \in BOOLEAN :
              refused = (callout[t].exec # "idle" /\ callout[t].waiting)
        OBVIOUS
      <4>2. /\ callout'[t].pending <=> callout[t].pending \/ ~ refused
            /\ callout'[t].exec # "getlock"
            /\ t \in missed' <=> ~ (callout[t].pending \/ ~ refused)
        BY <1>1, <3>2, <4>1 DEF callout_reset, Callout
      <4> QED BY <1>3, <4>2 DEF WillFire
    <3> QED BY <1>3, <3>1, <3>2
  <2>4. TimeoutInv'
    <3>1. callout'[t].exec = "getlock" => ~ callout'[t].pending
      BY <1>1, <1>3 DEF IInv, TimeoutInv, callout_reset, Callout
    <3>2. ASSUME NEW u \in TimeoutTasks, u # t
          PROVE  (WillFire(u) <=> u \in f \ missed)' /\
                 (callout'[u].exec = "getlock" => ~ callout'[u].pending)
      BY <1>3, <2>1, <2>2, <3>2 DEF IInv, TimeoutInv, WillFire
    <3> QED BY <2>3, <3>1, <3>2 DEF TimeoutInv
  <2>5. CountInv'
    <3>1. Cardinality(f') = IF t \in f THEN Cardinality(f) ELSE Cardinality(f) + 1
      BY <1>1, <1>3, ArmedCount
    <3>2. Cardinality(f) \in Nat /\ Cardinality(ToSet(tq_active) \ Workers) \in Nat
      BY <1>1, CountBound DEF IInv, TypeOK
    <3>3. tq_callouts' = Cardinality(f') + Cardinality(ToSet(tq_active) \ Workers)
      BY <1>3, <3>1, <3>2 DEF IInv, CountInv
    <3> QED BY <1>0, <3>3 DEF IInv, CountInv
  <2>6. tq_callouts' \in 0..(Cardinality(TimeoutTasks) + Cardinality(Clients))
    <3>1. tq_callouts' = Cardinality(f') + Cardinality(ToSet(tq_active') \ Workers)
      BY <2>5 DEF CountInv
    <3>2. f' \subseteq TimeoutTasks /\ tq_active' \in Seq(Workers \cup Clients)
      BY <1>0, <1>1, <1>3 DEF IInv, TypeOK
    <3> QED BY <3>1, <3>2, CountBound
  <2>7. TypeOK'
    BY <1>0, <1>1, <1>3, <2>1, <2>2, <2>6 DEF IInv, TypeOK
  <2>8. ListInv'
    BY <1>0, <1>3 DEF IInv, ListInv
  <2>9. BarrierInv'
    BY <1>0, <1>3 DEF IInv, BarrierInv, Runs
  <2>10. ClientInv'
    <3>1. \A d \in Clients : d \in missed' <=> d \in missed
      BY <1>0, <2>2
    <3>2. \A d \in Clients : pc[d] # "free"
      BY <1>0 DEF IInv, FreeInv
    <3>3. \A u \in TimeoutTasks : callout[u].exec # "idle" => callout'[u].exec # "idle"
      BY <2>1
    <3> QED BY <1>0, <1>3, <3>1, <3>2, <3>3 DEF IInv, ClientInv, Outstanding, Runs
  <2>11. UnlockedInv'
    BY <1>0, <1>3, <2>1 DEF IInv, UnlockedInv
  <2>12. FreeInv'
    BY <1>0, <1>3 DEF IInv, FreeInv, ACTIVE
  <2>13. WorkInv'
    BY <1>0, <1>3 DEF IInv, WorkInv, BLOCKED
  <2>14. OwedInv'
    BY <1>0, <1>3 DEF IInv, OwedInv, Invocations, Before
  <2> QED BY <2>4, <2>5, <2>7, <2>8, <2>9, <2>10, <2>11, <2>12, <2>13, <2>14 DEF IInv
<1> QED BY <1>2, <1>3 DEF taskqueue_enqueue_timeout

(* A worker with tq_mutex that is on no list takes the next task, sleeps   *)
(* or ends.  Those who sleep for what it has done so far are awake.        *)
LEMMA NextTaskStep ==
  ASSUME IInv, NEW w \in Workers, wpc[w] \in {"awake", "run"}, w \notin unlocked,
         NEW active \in Seq(Workers \cup Clients), IsInjective(active),
         ToSet(active) = ToSet(tq_active) \ {w},
         \A a, b : Before(tq_active, a, b) /\ a # w /\ b # w => Before(active, a, b),
         tq_active # <<>> /\ Head(tq_active) # w => Head(active) = Head(tq_active),
         NEW o \in [Clients -> SUBSET (Queueable \cup Workers)],
         \A c \in Clients : o[c] = owed[c] \ {w},
         asleep' = asleep \ (Sleepers(tb_running[w]) \cup FirstMarker(active)),
         NextTask(w, active, o),
         UNCHANGED <<flags, counts, timeouts, client, unlocked, missed>>
  PROVE  IInv'
<1> DEFINE t0 == tb_running[w]
<1>0. UNCHANGED <<tq_exists, tq_flags, tq_tcount, tq_callouts, f, callout, pc, task,
                  unlocked, missed>>
  BY DEF flags, counts, timeouts, client
<1>1. /\ tq_queue \in Seq(Queueable) /\ tq_active \in Seq(Workers \cup Clients)
      /\ ta_pending \in [Queueable -> 0..USHRT_MAX]
      /\ tb_running \in [Workers -> Queueable \cup {NoTask}]
      /\ wpc \in [Workers -> {"none", "awake", "run", "asleep", "shutdown"}]
      /\ owed \in [Clients -> SUBSET (Queueable \cup Workers)]
      /\ task \in [Clients -> Tasks \cup {NoTask}]
  BY DEF IInv, TypeOK
<1>2. w \notin Clients /\ w \notin Queueable /\ NoTask \notin Queueable
  BY TaskQueueAssumption DEF Queueable
<1>3. Sleepers(t0) = {c \in Clients : (pc[c] = "drain" /\ task[c] = t0) \/ c = t0}
  BY DEF Sleepers
<1>4. \A c \in Clients : c \in FirstMarker(active) <=> active # <<>> /\ Head(active) = c
  BY DEF FirstMarker
<1> HIDE DEF t0
<1>5. /\ \A c \in Clients : c \in ToSet(active) <=> pc[c] = "marker"
      /\ \A c \in Clients : c \in FirstMarker(active) => pc[c] = "marker"
  <2>1. \A c \in Clients : c \in ToSet(active) <=> pc[c] = "marker"
    BY <1>2 DEF IInv, BarrierInv
  <2>2. active # <<>> => Head(active) \in ToSet(active)
    BY TailSeq
  <2> QED BY <1>4, <2>1, <2>2
<1>6. \A c \in Clients : c \in asleep' <=>
        /\ c \in asleep /\ c # t0
        /\ ~ (pc[c] = "drain" /\ task[c] = t0)
        /\ c \notin FirstMarker(active)
  BY <1>3 DEF t0
<1>7. ASSUME NEW c \in Clients, c = t0 PROVE pc[c] = "barrier"
  BY <1>7 DEF IInv, BarrierInv, Runs, t0
<1>8. PICK t1 \in Queueable \cup {NoTask} :
        /\ tb_running' = [tb_running EXCEPT ![w] = t1]
        /\ \/ MoreWork /\ t1 = Head(tq_queue)
           \/ ~ MoreWork /\ t1 = NoTask
  <2>1. MoreWork => Head(tq_queue) \in Queueable
    BY <1>1 DEF MoreWork
  <2> QED BY <2>1 DEF NextTask
<1>9. /\ \A x \in Workers : tb_running'[x] = IF x = w THEN t1 ELSE tb_running[x]
      /\ tb_running' \in [Workers -> Queueable \cup {NoTask}]
  BY <1>1, <1>8
<1>10. /\ tq_queue' \in Seq(Queueable) /\ IsInjective(tq_queue')
       /\ ToSet(tq_queue') = ToSet(tq_queue) \ {t1}
       /\ t1 # NoTask => t1 \in ToSet(tq_queue)
       /\ t1 = NoTask => tq_queue' = <<>>
       /\ \A a, b : Before(tq_queue, a, b) /\ a # t1 => Before(tq_queue', a, b)
       /\ ta_pending' \in [Queueable -> 0..USHRT_MAX]
       /\ \A u \in Queueable : ta_pending'[u] = IF u = t1 THEN 0 ELSE ta_pending[u]
       /\ wpc' = [wpc EXCEPT ![w] = IF t1 # NoTask THEN "run"
                                    ELSE IF ACTIVE THEN "asleep" ELSE "shutdown"]
       /\ tq_active' = IF t1 # NoTask THEN Append(active, w) ELSE active
       /\ \A c \in Clients : owed'[c] = IF t1 # NoTask /\ t1 \in o[c]
                                        THEN (o[c] \ {t1}) \cup {w} ELSE o[c]
       /\ owed' \in [Clients -> SUBSET (Queueable \cup Workers)]
  <2>1. CASE MoreWork
    <3>1. t1 = Head(tq_queue) /\ tq_queue # <<>> /\ t1 \in ToSet(tq_queue)
          /\ t1 \in Queueable /\ t1 # NoTask /\ IsInjective(tq_queue)
      <4>1. t1 = Head(tq_queue) /\ tq_queue # <<>> /\ IsInjective(tq_queue)
        BY <1>8, <2>1 DEF MoreWork, IInv, ListInv
      <4>2. t1 \in ToSet(tq_queue)
        BY <1>1, <4>1, TailSeq
      <4>3. t1 \in Queueable
        BY <1>1, <4>2 DEF ToSet
      <4> QED BY <1>2, <4>1, <4>2, <4>3
    <3>2. /\ tq_queue' = Tail(tq_queue) /\ tq_active' = Append(active, w)
          /\ ta_pending' = [ta_pending EXCEPT ![t1] = 0]
          /\ owed' = [c \in Clients |-> IF t1 \in o[c] THEN (o[c] \ {t1}) \cup {w} ELSE o[c]]
          /\ wpc' = [wpc EXCEPT ![w] = "run"]
      BY <2>1, <3>1 DEF NextTask
    <3>3. /\ Tail(tq_queue) \in Seq(Queueable) /\ IsInjective(Tail(tq_queue))
          /\ ToSet(Tail(tq_queue)) = ToSet(tq_queue) \ {t1}
          /\ \A a, b : Before(tq_queue, a, b) /\ a # t1 => Before(Tail(tq_queue), a, b)
      BY <1>1, <3>1, TailSeq
    <3>4. /\ ta_pending' \in [Queueable -> 0..USHRT_MAX]
          /\ \A u \in Queueable : ta_pending'[u] = IF u = t1 THEN 0 ELSE ta_pending[u]
      BY <1>1, <3>1, <3>2, TaskQueueAssumption
    <3>5. owed' \in [Clients -> SUBSET (Queueable \cup Workers)]
      BY <3>2
    <3> QED BY <3>1, <3>2, <3>3, <3>4, <3>5
  <2>2. CASE ~ MoreWork
    <3>1. /\ t1 = NoTask /\ tq_queue = <<>> /\ tq_queue' = tq_queue /\ tq_active' = active
          /\ ta_pending' = ta_pending /\ owed' = o
          /\ wpc' = [wpc EXCEPT ![w] = IF ACTIVE THEN "asleep" ELSE "shutdown"]
      BY <1>8, <2>2 DEF NextTask, MoreWork
    <3>2. ToSet(tq_queue) = {}
      BY <3>1 DEF ToSet
    <3>3. IsInjective(tq_queue)
      BY DEF IInv, ListInv
    <3>4. \A u \in Queueable : u # t1
      BY <1>2, <3>1
    <3> QED BY <1>1, <3>1, <3>2, <3>3, <3>4
  <2> QED BY <2>1, <2>2
<1>11. /\ tq_active' \in Seq(Workers \cup Clients) /\ IsInjective(tq_active')
       /\ ToSet(tq_active') = IF t1 # NoTask THEN ToSet(active) \cup {w} ELSE ToSet(active)
       /\ \A a, b : Before(active, a, b) => Before(tq_active', a, b)
       /\ active # <<>> => tq_active' # <<>> /\ Head(tq_active') = Head(active)
  <2>1. w \notin ToSet(active)
    OBVIOUS
  <2>2. CASE t1 # NoTask
    <3>1. tq_active' = Append(active, w) /\ w \in Workers \cup Clients
      BY <1>10, <2>2
    <3> QED BY <2>1, <2>2, <3>1, AppendSeq
  <2>3. CASE t1 = NoTask
    BY <1>10, <2>3
  <2> QED BY <2>2, <2>3
<1>12. \A x \in Workers : wpc'[x] = IF x = w THEN IF t1 # NoTask THEN "run"
                                                  ELSE IF ACTIVE THEN "asleep" ELSE "shutdown"
                                    ELSE wpc[x]
  BY <1>1, <1>10
<1>13. TypeOK'
  <2>1. wpc' \in [Workers -> {"none", "awake", "run", "asleep", "shutdown"}]
    BY <1>1, <1>10
  <2>2. asleep' \subseteq Clients
    BY DEF IInv, TypeOK
  <2> QED BY <1>0, <1>9, <1>10, <1>11, <2>1, <2>2 DEF IInv, TypeOK
<1>14. ListInv'
  <2>1. \A u \in Queueable : ta_pending'[u] > 0 <=> u \in ToSet(tq_queue')
    BY <1>10 DEF IInv, ListInv
  <2>2. \A x \in Workers : /\ wpc'[x] = "run" <=> x \in ToSet(tq_active')
                           /\ wpc'[x] = "run" <=> tb_running'[x] # NoTask
    BY <1>9, <1>11, <1>12 DEF IInv, ListInv
  <2> QED BY <1>10, <1>11, <2>1, <2>2 DEF ListInv
<1>15. CountInv'
  <2>1. {x \in Workers : wpc'[x] # "none"} = {x \in Workers : wpc[x] # "none"}
    BY <1>12
  <2>2. ToSet(tq_active') \ Workers = ToSet(tq_active) \ Workers
    BY <1>11
  <2> QED BY <1>0, <2>1, <2>2 DEF IInv, CountInv
<1>16. TimeoutInv'
  BY <1>0 DEF IInv, TimeoutInv, WillFire
<1>17. BarrierInv'
  <2>1. ASSUME NEW c \in Clients
        PROVE  Runs(c)' <=> c = t1 \/ (Runs(c) /\ c # t0)
    BY <1>9 DEF Runs, IInv, BarrierInv, t0
  <2>2. ASSUME NEW c \in Clients
        PROVE  /\ c \in ToSet(tq_queue)' \/ Runs(c)' <=> pc'[c] = "barrier" /\ c \in asleep'
               /\ c \in ToSet(tq_queue)' => ~ Runs(c)'
    <3>1. c = t0 => Runs(c)
      BY DEF Runs, t0
    <3>2. c = t1 => c \in ToSet(tq_queue)
      BY <1>2, <1>10 DEF Queueable
    <3>3. /\ c \in ToSet(tq_queue) \/ Runs(c) <=> pc[c] = "barrier" /\ c \in asleep
          /\ c \in ToSet(tq_queue) => ~ Runs(c)
      BY DEF IInv, BarrierInv
    <3>4. c \in ToSet(tq_queue') <=> c \in ToSet(tq_queue) /\ c # t1
      BY <1>10
    <3> QED BY <1>0, <1>5, <1>6, <2>1, <3>1, <3>2, <3>3, <3>4
  <2>3. ASSUME NEW c \in Clients
        PROVE  /\ c \in ToSet(tq_active)' <=> pc'[c] = "marker"
               /\ pc'[c] = "marker" =>
                    /\ tq_active' # <<>>
                    /\ c \in asleep' <=> Head(tq_active') # c
    <3>1. c \in ToSet(tq_active)' <=> pc'[c] = "marker"
      BY <1>0, <1>2, <1>5, <1>11
    <3>2. ASSUME pc[c] = "marker"
          PROVE  tq_active' # <<>> /\ (c \in asleep' <=> Head(tq_active') # c)
      <4>1. active # <<>>
        BY <1>5, <3>2 DEF ToSet
      <4>2. tq_active # <<>> /\ (c \in asleep <=> Head(tq_active) # c)
        BY <3>2 DEF IInv, BarrierInv
      <4>3. Head(tq_active) = c => Head(active) = c
        BY <1>2, <4>2
      <4>4. c \in asleep' <=> c \in asleep /\ Head(active) # c
        BY <1>4, <1>6, <1>7, <3>2, <4>1
      <4> QED BY <1>11, <4>1, <4>2, <4>3, <4>4
    <3> QED BY <1>0, <3>1, <3>2
  <2>4. ASSUME NEW x \in Workers, NEW y \in Workers, tb_running'[x] \in Clients,
               tb_running'[x] = tb_running'[y]
        PROVE  x = y
    <3>1. t1 \in Clients => \A z \in Workers : tb_running[z] # t1
      BY <1>2, <1>10 DEF IInv, BarrierInv, Runs, Queueable
    <3> QED BY <1>9, <2>4, <3>1 DEF IInv, BarrierInv
  <2> QED BY <2>2, <2>3, <2>4 DEF BarrierInv
<1>18. ClientInv'
  <2>1. ASSUME NEW c \in Clients, pc[c] = "drain", c \in asleep', Outstanding(task[c])
        PROVE  Outstanding(task[c])'
    <3>1. task[c] \in Queueable /\ task[c] # t0
      BY <1>6, <2>1 DEF IInv, ClientInv, Queueable
    <3>2. CASE ta_pending[task[c]] > 0
      <4>1. CASE task[c] = t1
        BY <1>0, <1>9, <4>1 DEF Outstanding, Runs
      <4>2. CASE task[c] # t1
        BY <1>0, <1>10, <3>1, <3>2, <4>2 DEF Outstanding
      <4> QED BY <4>1, <4>2
    <3>3. CASE Runs(task[c])
      <4>1. PICK x \in Workers : tb_running[x] = task[c]
        BY <3>3 DEF Runs
      <4>2. x # w
        BY <3>1, <4>1 DEF t0
      <4> QED BY <1>0, <1>9, <4>1, <4>2 DEF Outstanding, Runs
    <3> QED BY <2>1, <3>2, <3>3 DEF Outstanding
  <2>2. \A c \in Clients : c \in asleep' => c \in asleep
    BY <1>6
  <2> QED BY <1>0, <2>1, <2>2 DEF IInv, ClientInv, MustWait
<1>19. UnlockedInv'
  BY <1>0, <1>12 DEF IInv, UnlockedInv
<1>20. FreeInv'
  BY <1>0, <1>12 DEF IInv, FreeInv, ACTIVE
<1>21. WorkInv'
  BY <1>10, <1>12 DEF WorkInv
<1>22. OwedInv'
  <2> SUFFICES ASSUME NEW c \in Clients
               PROVE  (/\ pc[c] \in {"idle", "free"} => owed[c] = {}
                       /\ pc[c] \in {"drain", "callout"} => owed[c] \subseteq Invocations(task[c])
                       /\ pc[c] = "barrier" =>
                            \A u \in owed[c] : \/ u \in Workers /\ wpc[u] = "run"
                                               \/ Before(tq_queue, u, c)
                       /\ pc[c] = "marker" =>
                            \A u \in owed[c] : u \in Workers /\ Before(tq_active, u, c))'
    BY DEF OwedInv
  <2>0. /\ owed'[c] = IF t1 # NoTask /\ t1 \in owed[c] \ {w}
                      THEN (owed[c] \ {w, t1}) \cup {w} ELSE owed[c] \ {w}
        /\ owed[c] \subseteq Queueable \cup Workers
    BY <1>1, <1>10
  <2>1. pc[c] \in {"idle", "free"} => owed'[c] = {}
    BY <2>0 DEF IInv, OwedInv
  <2>2. ASSUME pc[c] \in {"drain", "callout"} PROVE owed'[c] \subseteq Invocations(task[c])'
    <3>1. task[c] \in Queueable
      BY <2>2, TaskQueueAssumption DEF IInv, ClientInv, Queueable
    <3>2. owed[c] \subseteq Invocations(task[c])
      BY <2>2 DEF IInv, OwedInv
    <3>3. ASSUME NEW u \in owed[c], u # w, u # t1 PROVE u \in Invocations(task[c])'
      <4>1. \/ u = task[c] /\ ta_pending[u] > 0
            \/ u \in Workers /\ tb_running[u] = task[c]
        BY <3>2 DEF Invocations
      <4>2. \/ u = task[c] /\ ta_pending'[u] > 0
            \/ u \in Workers /\ tb_running'[u] = task[c]
        BY <1>9, <1>10, <3>1, <3>3, <4>1
      <4> QED BY <1>0, <4>2 DEF Invocations
    <3>4. ASSUME t1 # NoTask, t1 \in owed[c] PROVE w \in Invocations(task[c])'
      <4>1. t1 \in Queueable /\ t1 \notin Workers
        BY <3>4, TaskQueueAssumption DEF Queueable
      <4>2. t1 = task[c]
        BY <3>2, <3>4, <4>1 DEF Invocations
      <4> QED BY <1>0, <1>9, <4>2 DEF Invocations
    <3>5. t1 = NoTask => \A u \in owed[c] : u # w => u \in Invocations(task[c])'
      <4>1. ASSUME NEW u \in owed[c], u # w, u = t1, t1 = NoTask
            PROVE  u \in Invocations(task[c])'
        <5>1. u \in Workers /\ tb_running[u] = task[c]
          BY <1>2, <3>1, <3>2, <4>1 DEF Invocations
        <5> QED BY <1>0, <1>9, <4>1, <5>1 DEF Invocations
      <4> QED BY <3>3, <4>1
    <3> QED BY <2>0, <3>3, <3>4, <3>5
  <2>3. ASSUME pc[c] = "barrier", NEW u \in owed'[c]
        PROVE  (u \in Workers /\ wpc'[u] = "run") \/ Before(tq_queue', u, c)
    <3>1. CASE u = w
      BY <1>12, <2>0, <3>1
    <3>2. CASE u # w
      <4>1. u \in owed[c] /\ (t1 # NoTask => u # t1)
        BY <2>0, <2>3, <3>2
      <4>2. (u \in Workers /\ wpc[u] = "run") \/ Before(tq_queue, u, c)
        BY <2>3, <4>1 DEF IInv, OwedInv
      <4>3. t1 = NoTask => ~ Before(tq_queue, u, c)
        <5>1. t1 = NoTask => tq_queue = <<>>
          BY <1>1, <1>2, <1>8 DEF MoreWork
        <5>2. ~ Before(<<>>, u, c)
          BY DEF Before
        <5> QED BY <5>1, <5>2
      <4> QED BY <1>10, <1>12, <3>2, <4>1, <4>2, <4>3
    <3> QED BY <3>1, <3>2
  <2>4. ASSUME pc[c] = "marker", NEW u \in owed'[c]
        PROVE  u \in Workers /\ Before(tq_active', u, c)
    <3>1. \A v \in owed[c] : v \in Workers /\ Before(tq_active, v, c)
      BY <2>4 DEF IInv, OwedInv
    <3>2. t1 # NoTask => t1 \notin owed[c]
      BY <3>1, TaskQueueAssumption DEF Queueable
    <3>3. u \in owed[c] /\ u # w
      BY <2>0, <2>4, <3>2
    <3>4. Before(active, u, c)
      BY <1>2, <3>1, <3>3
    <3> QED BY <1>11, <3>1, <3>3, <3>4
  <2> QED BY <1>0, <2>1, <2>2, <2>3, <2>4
<1> QED BY <1>13, <1>14, <1>15, <1>16, <1>17, <1>18, <1>19, <1>20, <1>21, <1>22 DEF IInv

(* A worker that comes into taskqueue_thread_loop() is on no list, and     *)
(* nobody sleeps for it.                                                   *)
LEMMA taskqueue_thread_loopStep ==
  ASSUME IInv, NEW w \in Workers, taskqueue_thread_loop(w)
  PROVE  IInv'
<1>0. /\ tq_active \in Seq(Workers \cup Clients) /\ w \notin Clients
      /\ owed \in [Clients -> SUBSET (Queueable \cup Workers)]
      /\ w \notin Queueable /\ NoTask \notin Tasks /\ NoTask \notin Clients
      /\ wpc[w] = "awake" /\ asleep' = asleep
  BY TaskQueueAssumption DEF IInv, TypeOK, Queueable, taskqueue_thread_loop
<1>1. tb_running[w] = NoTask /\ w \notin ToSet(tq_active) /\ IsInjective(tq_active)
  BY <1>0 DEF IInv, ListInv
<1>2. w \notin unlocked
  BY <1>0 DEF IInv, UnlockedInv
<1>3. ASSUME NEW c \in Clients, w \in owed[c] PROVE FALSE
  <2>1. \A s, x, y : Before(s, x, y) => x \in ToSet(s)
    BY DEF Before, ToSet
  <2>2. pc[c] \in {"drain", "callout"} => task[c] # NoTask
    BY <1>0, TaskQueueAssumption DEF IInv, ClientInv
  <2>3. w \notin ToSet(tq_queue)
    BY <1>0 DEF IInv, TypeOK, ToSet
  <2>4. w \notin Invocations(task[c]) \/ pc[c] \notin {"drain", "callout"}
    BY <1>0, <1>1, <2>2, TaskQueueAssumption DEF Invocations, IInv, ClientInv
  <2>5. pc[c] \in {"idle", "drain", "barrier", "marker", "callout", "free"}
    BY DEF IInv, TypeOK
  <2> QED BY <1>0, <1>1, <1>3, <2>1, <2>3, <2>4, <2>5 DEF IInv, OwedInv
<1>4. \A c \in Clients : owed[c] = owed[c] \ {w}
  BY <1>3
<1>5. Sleepers(NoTask) = {}
  BY <1>0, TaskQueueAssumption DEF Sleepers, IInv, ClientInv
<1>6. asleep \cap FirstMarker(tq_active) = {}
  <2>1. ASSUME NEW c \in Clients, tq_active # <<>>, Head(tq_active) = c
        PROVE  c \notin asleep
    <3>1. c \in ToSet(tq_active)
      BY <1>0, <1>1, <2>1, TailSeq
    <3> QED BY <2>1, <3>1 DEF IInv, BarrierInv
  <2> QED BY <2>1 DEF FirstMarker
<1>7. asleep' = asleep \ (Sleepers(tb_running[w]) \cup FirstMarker(tq_active))
  BY <1>0, <1>1, <1>5, <1>6
<1>8. ToSet(tq_active) = ToSet(tq_active) \ {w}
  BY <1>1
<1>9. /\ NextTask(w, tq_active, owed)
      /\ UNCHANGED <<flags, counts, timeouts, client, unlocked, missed>>
  BY DEF taskqueue_thread_loop
<1> QED BY <1>0, <1>1, <1>2, <1>4, <1>7, <1>8, <1>9, NextTaskStep

(* A task has returned. *)
LEMMA taskqueue_run_lockedStep ==
  ASSUME IInv, NEW w \in Workers, taskqueue_run_locked(w)
  PROVE  IInv'
<1>0. tq_active \in Seq(Workers \cup Clients) /\ IsInjective(tq_active)
      /\ owed \in [Clients -> SUBSET (Queueable \cup Workers)]
  BY DEF IInv, TypeOK, ListInv
<1>1. PICK active : active = RemoveFirst(tq_active, w)
  OBVIOUS
<1>2. /\ wpc[w] = "run" /\ w \notin unlocked
      /\ asleep' = asleep \ (Sleepers(tb_running[w]) \cup FirstMarker(active))
      /\ NextTask(w, active, [c \in Clients |-> owed[c] \ {w}])
      /\ UNCHANGED <<flags, counts, timeouts, client, unlocked, missed>>
  BY <1>1 DEF taskqueue_run_locked, Wakeups
<1>3. /\ active \in Seq(Workers \cup Clients) /\ IsInjective(active)
      /\ ToSet(active) = ToSet(tq_active) \ {w}
      /\ \A a, b : Before(tq_active, a, b) /\ a # w /\ b # w => Before(active, a, b)
      /\ tq_active # <<>> /\ Head(tq_active) # w => Head(active) = Head(tq_active)
  BY <1>0, <1>1, RemoveSeq
<1>4. PICK o \in [Clients -> SUBSET (Queueable \cup Workers)] :
        o = [c \in Clients |-> owed[c] \ {w}]
  BY <1>0
<1>5. NextTask(w, active, o) /\ \A c \in Clients : o[c] = owed[c] \ {w}
  BY <1>2, <1>4
<1> QED BY <1>2, <1>3, <1>5, NextTaskStep

(* A thread less. *)
LEMMA ThreadCount ==
  ASSUME NEW S, S \subseteq Workers, NEW w \in S
  PROVE  /\ Cardinality(S \ {w}) = Cardinality(S) - 1
         /\ Cardinality(S) \in Nat /\ Cardinality(S \ {w}) \in Nat
         /\ Cardinality(S \ {w}) <= Cardinality(Workers)
<1>1. IsFiniteSet(S) /\ IsFiniteSet(S \ {w})
  BY FS_Subset, TaskQueueAssumption
<1>2. Cardinality(S \ {w}) <= Cardinality(Workers)
  BY FS_Subset, TaskQueueAssumption
<1> QED BY <1>1, <1>2, FS_RemoveElement, FS_CardinalityType

(* A thread ends and wakes taskqueue_terminate(). *)
LEMMA WorkerExitsStep ==
  ASSUME IInv, NEW w \in Workers, WorkerExits(w)
  PROVE  IInv'
<1>0. /\ wpc[w] = "shutdown" /\ tq_tcount' = tq_tcount - 1
      /\ asleep' = asleep \ {c \in Clients : pc[c] = "free"}
      /\ wpc' = [wpc EXCEPT ![w] = "none"]
      /\ UNCHANGED <<tq_exists, tq_flags, tq_queue, tq_active, ta_pending, tb_running,
                     tq_callouts, f, callout, pc, task, unlocked, owed, missed>>
  BY DEF WorkerExits, flags, lists, timeouts, client
<1>1. /\ wpc' \in [Workers -> {"none", "awake", "run", "asleep", "shutdown"}]
      /\ \A x \in Workers : wpc'[x] = IF x = w THEN "none" ELSE wpc[x]
  BY <1>0 DEF IInv, TypeOK
<1>2. PICK S : S = {x \in Workers : wpc[x] # "none"}
  OBVIOUS
<1>3. {x \in Workers : wpc'[x] # "none"} = S \ {w} /\ w \in S /\ S \subseteq Workers
  BY <1>0, <1>1, <1>2
<1>4. tq_tcount = Cardinality(S)
  BY <1>2 DEF IInv, CountInv
<1>5. tq_tcount' = Cardinality(S \ {w}) /\ tq_tcount' \in 0..Cardinality(Workers)
  <2>1. /\ Cardinality(S \ {w}) = Cardinality(S) - 1
        /\ Cardinality(S) \in Nat /\ Cardinality(S \ {w}) \in Nat
        /\ Cardinality(S \ {w}) <= Cardinality(Workers)
    BY <1>3, ThreadCount
  <2>2. Cardinality(Workers) \in Nat
    BY FS_CardinalityType, TaskQueueAssumption
  <2> QED BY <1>0, <1>4, <2>1, <2>2
<1>6. TypeOK'
  BY <1>0, <1>1, <1>5 DEF IInv, TypeOK
<1>7. ListInv'
  BY <1>0, <1>1 DEF IInv, ListInv
<1>8. CountInv'
  BY <1>0, <1>3, <1>5 DEF IInv, CountInv
<1>9. TimeoutInv'
  BY <1>0 DEF IInv, TimeoutInv, WillFire
<1>10. BarrierInv'
  BY <1>0 DEF IInv, BarrierInv, Runs
<1>11. ClientInv'
  BY <1>0 DEF IInv, ClientInv, Outstanding, Runs, MustWait
<1>12. UnlockedInv'
  BY <1>0, <1>1 DEF IInv, UnlockedInv
<1>13. FreeInv'
  BY <1>0, <1>1 DEF IInv, FreeInv, ACTIVE
<1>14. WorkInv'
  <2>1. tq_tcount' > 0 => tq_tcount > 0
    BY <1>0 DEF IInv, TypeOK
  <2> QED BY <1>0, <1>1, <2>1 DEF IInv, WorkInv, BLOCKED
<1>15. OwedInv'
  BY <1>0, <1>1 DEF IInv, OwedInv, Invocations, Before
<1> QED BY <1>6, <1>7, <1>8, <1>9, <1>10, <1>11, <1>12, <1>13, <1>14, <1>15 DEF IInv

(* taskqueue_block() and taskqueue_unblock(): what was queued while the    *)
(* queue was blocked finds a worker.                                       *)
LEMMA taskqueue_blockStep ==
  ASSUME IInv, NEW c \in Clients, taskqueue_block(c) \/ taskqueue_unblock(c)
  PROVE  IInv'
<1>0. /\ MayCall(c) /\ ACTIVE /\ ACTIVE'
      /\ tq_flags' \subseteq {"ACTIVE", "BLOCKED"}
      /\ UNCHANGED <<tq_exists, tq_queue, tq_active, ta_pending, tb_running, tq_tcount,
                     tq_callouts, f, callout, pc, task, asleep, unlocked, owed, missed>>
  BY DEF taskqueue_block, taskqueue_unblock, lists, counts, timeouts, client, MayCall,
         ACTIVE, IInv, TypeOK
<1>1. /\ wpc' \in [Workers -> {"none", "awake", "run", "asleep", "shutdown"}]
      /\ \A w \in Workers : wpc'[w] = wpc[w] \/ (wpc[w] = "asleep" /\ wpc'[w] = "awake")
  BY DEF taskqueue_block, taskqueue_unblock, wakeup_one_tq, IInv, TypeOK
<1>3. TypeOK'
  BY <1>0, <1>1 DEF IInv, TypeOK
<1>4. ListInv'
  BY <1>0, <1>1 DEF IInv, ListInv
<1>5. CountInv'
  <2>1. {w \in Workers : wpc'[w] # "none"} = {w \in Workers : wpc[w] # "none"}
    BY <1>1
  <2> QED BY <1>0, <2>1 DEF IInv, CountInv
<1>6. TimeoutInv'
  BY <1>0 DEF IInv, TimeoutInv, WillFire
<1>7. BarrierInv'
  BY <1>0 DEF IInv, BarrierInv, Runs
<1>8. ClientInv'
  BY <1>0 DEF IInv, ClientInv, Outstanding, Runs, MustWait
<1>9. UnlockedInv'
  BY <1>0, <1>1 DEF IInv, UnlockedInv
<1>10. FreeInv'
  BY <1>0, <1>1 DEF IInv, FreeInv
<1>11. WorkInv'
  <2> SUFFICES ASSUME tq_queue # <<>>, ~ BLOCKED', tq_tcount > 0,
                      \A w \in Workers : wpc'[w] \notin {"awake", "run"}
               PROVE  FALSE
    BY <1>0 DEF WorkInv
  <2>1. \A w \in Workers : wpc'[w] = wpc[w] /\ wpc[w] # "asleep"
    BY <1>1 DEF taskqueue_block, taskqueue_unblock, wakeup_one_tq, IInv, TypeOK, BLOCKED
  <2>2. \A w \in Workers : wpc[w] # "shutdown"
    BY <1>0 DEF IInv, FreeInv
  <2>3. wpc \in [Workers -> {"none", "awake", "run", "asleep", "shutdown"}]
    BY DEF IInv, TypeOK
  <2>4. \A w \in Workers : wpc[w] = "none"
    BY <2>1, <2>2, <2>3
  <2>5. tq_tcount = 0
    BY <2>4, NoThreads DEF IInv
  <2> QED BY <2>5
<1>12. OwedInv'
  BY <1>0, <1>1 DEF IInv, OwedInv, Invocations, Before
<1> QED BY <1>3, <1>4, <1>5, <1>6, <1>7, <1>8, <1>9, <1>10, <1>11, <1>12 DEF IInv

(* A task that does not run is off tq_active: what taskqueue_drain() sees  *)
(* is what there is.                                                       *)
LEMMA BusyIsOutstanding ==
  ASSUME IInv, NEW t \in Queueable
  PROVE  /\ task_is_running(t) <=> Runs(t)
         /\ Busy(t) <=> Outstanding(t)
         /\ Outstanding(t) <=> Invocations(t) # {}
<1>1. t # NoTask /\ ta_pending[t] \in 0..USHRT_MAX
  BY TaskQueueAssumption DEF IInv, TypeOK, Queueable
<1>2. \A w \in Workers : tb_running[w] = t => w \in ToSet(tq_active)
  BY <1>1 DEF IInv, ListInv
<1>3. task_is_running(t) <=> Runs(t)
  BY <1>2 DEF task_is_running, Runs, ToSet
<1>4. ta_pending[t] # 0 <=> ta_pending[t] > 0
  BY <1>1, TaskQueueAssumption
<1>5. Busy(t) <=> Outstanding(t)
  BY <1>3, <1>4 DEF Busy, Outstanding
<1>6. Outstanding(t) <=> Invocations(t) # {}
  BY DEF Outstanding, Runs, Invocations
<1> QED BY <1>3, <1>5, <1>6

(* A task is cancelled: who waited for it is in missed, nobody else        *)
(* notices.                                                                *)
LEMMA CancelStep ==
  ASSUME IInv, NEW t \in Tasks, ACTIVE, taskqueue_cancel_locked(t),
         UNCHANGED <<tq_exists, tq_flags, tq_active, tb_running, tq_tcount, wpc, pc,
                     task, asleep, unlocked>>,
         \A c \in Clients : c \in missed' <=> c \in missed \cup NotWoken(t),
         missed' \subseteq Clients \cup TimeoutTasks,
         f' \subseteq f,
         callout' \in [TimeoutTasks -> Callout],
         \A u \in TimeoutTasks : \/ callout'[u].exec = callout[u].exec
                                 \/ callout[u].exec = "getlock" /\ callout'[u].exec = "skip",
         tq_callouts' \in 0..(Cardinality(TimeoutTasks) + Cardinality(Clients)),
         CountInv', TimeoutInv'
  PROVE  IInv'
<1>0. /\ tq_queue \in Seq(Queueable) /\ IsInjective(tq_queue)
      /\ t \in Queueable /\ t \notin Clients /\ t \notin Workers
      /\ ta_pending \in [Queueable -> 0..USHRT_MAX]
      /\ owed \in [Clients -> SUBSET (Queueable \cup Workers)]
  BY TaskQueueAssumption DEF IInv, TypeOK, ListInv, Queueable
<1>1. /\ tq_queue' \in Seq(Queueable) /\ IsInjective(tq_queue')
      /\ ToSet(tq_queue') = ToSet(tq_queue) \ {t}
      /\ \A a, b : Before(tq_queue, a, b) /\ a # t /\ b # t => Before(tq_queue', a, b)
  BY <1>0, RemoveSeq DEF taskqueue_cancel_locked
<1>2. /\ ta_pending' \in [Queueable -> 0..USHRT_MAX]
      /\ \A u \in Queueable : ta_pending'[u] = IF u = t THEN 0 ELSE ta_pending[u]
  BY <1>0, TaskQueueAssumption DEF taskqueue_cancel_locked
<1>3. /\ owed' \in [Clients -> SUBSET (Queueable \cup Workers)]
      /\ \A c \in Clients : owed'[c] = owed[c] \ {t}
  BY <1>0 DEF taskqueue_cancel_locked
<1>4. TypeOK'
  BY <1>1, <1>2, <1>3 DEF IInv, TypeOK
<1>5. ListInv'
  BY <1>1, <1>2 DEF IInv, ListInv
<1>6. BarrierInv'
  BY <1>0, <1>1 DEF IInv, BarrierInv, Runs
<1>7. ClientInv'
  <2>1. ASSUME NEW c \in Clients, c \in asleep \ missed', pc[c] = "drain"
        PROVE  Outstanding(task[c])'
    <3>1. Outstanding(task[c]) /\ task[c] \in Queueable
      BY <2>1 DEF IInv, ClientInv, Queueable
    <3>2. task[c] = t => ~ (ta_pending[t] > 0)
      BY <2>1 DEF NotWoken, Sleepers
    <3> QED BY <1>2, <3>1, <3>2 DEF Outstanding, Runs
  <2>2. ASSUME NEW c \in Clients, c \in missed'
        PROVE  pc[c] = "drain"
    BY <1>0, <2>2 DEF IInv, ClientInv, NotWoken, Sleepers
  <2>3. \A c \in Clients : pc[c] # "free"
    BY DEF IInv, FreeInv
  <2>4. ASSUME NEW c \in Clients, c \in asleep \ missed', pc[c] = "callout"
        PROVE  callout'[task[c]].exec # "idle"
    BY <2>4 DEF IInv, ClientInv
  <2> QED BY <2>1, <2>2, <2>3, <2>4 DEF IInv, ClientInv
<1>8. UnlockedInv'
  BY DEF IInv, UnlockedInv
<1>9. FreeInv'
  BY DEF IInv, FreeInv, ACTIVE
<1>10. WorkInv'
  <2>1. tq_queue' # <<>> => tq_queue # <<>>
    <3>1. ASSUME tq_queue' # <<>> PROVE ToSet(tq_queue) # {}
      BY <1>1, <3>1, TailSeq
    <3> QED BY <3>1 DEF ToSet
  <2> QED BY <2>1 DEF IInv, WorkInv, BLOCKED
<1>11. OwedInv'
  <2>1. ASSUME NEW c \in Clients, pc[c] \in {"drain", "callout"}
        PROVE  owed'[c] \subseteq Invocations(task[c])'
    <3>1. owed[c] \subseteq Invocations(task[c]) /\ task[c] \in Queueable
      BY <2>1, TaskQueueAssumption DEF IInv, OwedInv, ClientInv, Queueable
    <3> QED BY <1>2, <1>3, <3>1 DEF Invocations
  <2>2. ASSUME NEW c \in Clients, pc[c] = "barrier", NEW u \in owed'[c]
        PROVE  (u \in Workers /\ wpc[u] = "run") \/ Before(tq_queue', u, c)
    BY <1>0, <1>1, <1>3, <2>2 DEF IInv, OwedInv
  <2>3. \A x, y : Before(tq_active, x, y)' <=> Before(tq_active, x, y)
    BY DEF Before
  <2> QED BY <1>3, <2>1, <2>2, <2>3 DEF IInv, OwedInv
<1> QED BY <1>4, <1>5, <1>6, <1>7, <1>8, <1>9, <1>10, <1>11 DEF IInv

(* taskqueue_cancel(). *)
LEMMA taskqueue_cancelStep ==
  ASSUME IInv, NEW c \in Clients, NEW t \in Tasks, taskqueue_cancel(c, t)
  PROVE  IInv'
<1>0. /\ ACTIVE /\ taskqueue_cancel_locked(t) /\ missed' = missed \cup NotWoken(t)
      /\ UNCHANGED <<tq_exists, tq_flags, tq_active, tb_running, tq_tcount, tq_callouts,
                     f, callout, wpc, pc, task, asleep, unlocked>>
  BY DEF taskqueue_cancel, MayCall, flags, counts, timeouts, client
<1>1. /\ callout \in [TimeoutTasks -> Callout]
      /\ tq_callouts \in 0..(Cardinality(TimeoutTasks) + Cardinality(Clients))
      /\ asleep \subseteq Clients /\ missed \subseteq Clients \cup TimeoutTasks
  BY DEF IInv, TypeOK
<1>2. NotWoken(t) \subseteq Clients
  BY <1>1 DEF NotWoken
<1>3. CountInv'
  BY <1>0 DEF IInv, CountInv
<1>4. TimeoutInv'
  <2>1. \A u \in TimeoutTasks : u \in missed' <=> u \in missed
    BY <1>0, <1>2, TaskQueueAssumption
  <2> QED BY <1>0, <2>1 DEF IInv, TimeoutInv, WillFire
<1> QED BY <1>0, <1>1, <1>2, <1>3, <1>4, CancelStep

(* taskqueue_cancel_timeout() also stops the callout and disarms it. *)
LEMMA taskqueue_cancel_timeoutStep ==
  ASSUME IInv, NEW c \in Clients, NEW t \in TimeoutTasks, taskqueue_cancel_timeout(c, t)
  PROVE  IInv'
<1>0. /\ ACTIVE /\ taskqueue_cancel_locked(t) /\ missed' = (missed \cup NotWoken(t)) \ {t}
      /\ f' = f \ {t} /\ callout_stop(t)
      /\ tq_callouts' = IF t \in f THEN tq_callouts - 1 ELSE tq_callouts
      /\ UNCHANGED <<tq_exists, tq_flags, tq_active, tb_running, tq_tcount,
                     wpc, pc, task, asleep, unlocked>>
  BY DEF taskqueue_cancel_timeout, MayCall, flags, client
<1>1. /\ callout \in [TimeoutTasks -> Callout] /\ f \subseteq TimeoutTasks
      /\ asleep \subseteq Clients /\ missed \subseteq Clients \cup TimeoutTasks
      /\ t \in Tasks /\ t \notin Clients
  BY TaskQueueAssumption DEF IInv, TypeOK
<1>2. NotWoken(t) \subseteq Clients
  BY <1>1 DEF NotWoken
<1>3. /\ callout' \in [TimeoutTasks -> Callout]
      /\ ~ callout'[t].pending /\ callout'[t].exec # "getlock"
      /\ callout'[t].exec = callout[t].exec \/
           (callout[t].exec = "getlock" /\ callout'[t].exec = "skip")
      /\ \A u \in TimeoutTasks : u # t => callout'[u] = callout[u]
  BY <1>0, <1>1 DEF callout_stop, Callout
<1>4. TimeoutInv'
  <2>1. \A u \in TimeoutTasks : u # t => (u \in missed' <=> u \in missed)
    BY <1>0, <1>2, TaskQueueAssumption
  <2> QED BY <1>0, <1>3, <2>1 DEF IInv, TimeoutInv, WillFire
<1>5. CountInv'
  <2>1. Cardinality(f') = IF t \in f THEN Cardinality(f) - 1 ELSE Cardinality(f)
    BY <1>0, <1>1, ArmedCount
  <2>2. Cardinality(f) \in Nat /\ Cardinality(ToSet(tq_active) \ Workers) \in Nat
    BY <1>1, CountBound DEF IInv, TypeOK
  <2>3. tq_callouts' = Cardinality(f') + Cardinality(ToSet(tq_active) \ Workers)
    BY <1>0, <2>1, <2>2 DEF IInv, CountInv
  <2> QED BY <1>0, <2>3 DEF IInv, CountInv
<1>6. tq_callouts' \in 0..(Cardinality(TimeoutTasks) + Cardinality(Clients))
  <2>1. tq_callouts' = Cardinality(f') + Cardinality(ToSet(tq_active') \ Workers)
    BY <1>5 DEF CountInv
  <2>2. f' \subseteq TimeoutTasks /\ tq_active' \in Seq(Workers \cup Clients)
    BY <1>0, <1>1 DEF IInv, TypeOK
  <2> QED BY <2>1, <2>2, CountBound
<1>7. /\ \A d \in Clients : d \in missed' <=> d \in missed \cup NotWoken(t)
      /\ missed' \subseteq Clients \cup TimeoutTasks
  BY <1>0, <1>1, <1>2
<1>8. \A u \in TimeoutTasks : \/ callout'[u].exec = callout[u].exec
                              \/ callout[u].exec = "getlock" /\ callout'[u].exec = "skip"
  BY <1>3
<1>9. f' \subseteq f
  BY <1>0
<1> QED BY <1>0, <1>1, <1>3, <1>4, <1>5, <1>6, <1>7, <1>8, <1>9, CancelStep


(* Only the client's own place changes: nothing that another client, a     *)
(* worker or a callout waits for.  The hypotheses are what remains to be   *)
(* shown of the client itself.                                             *)
LEMMA ClientStep ==
  ASSUME IInv, NEW c \in Clients,
         UNCHANGED <<tq_exists, tq_flags, tq_queue, tq_active, ta_pending, tb_running,
                     tq_tcount, tq_callouts, f, wpc, unlocked>>,
         ACTIVE, c \notin unlocked,
         pc[c] \in {"idle", "drain", "callout"}, pc'[c] \in {"idle", "drain", "callout"},
         \A d \in Clients : d # c =>
           /\ pc'[d] = pc[d] /\ task'[d] = task[d] /\ owed'[d] = owed[d]
           /\ d \in asleep' <=> d \in asleep
           /\ d \in missed' <=> d \in missed,
         pc' \in [Clients -> {"idle", "drain", "barrier", "marker", "callout", "free"}],
         task' \in [Clients -> Tasks \cup {NoTask}],
         owed' \in [Clients -> SUBSET (Queueable \cup Workers)],
         asleep' \subseteq Clients, missed' \subseteq Clients \cup TimeoutTasks,
         callout' \in [TimeoutTasks -> Callout],
         \A u \in TimeoutTasks : callout'[u].exec = callout[u].exec,
         TimeoutInv',
         pc'[c] = "idle" => c \notin asleep' /\ c \notin missed' /\ owed'[c] = {},
         pc'[c] = "drain" => /\ task'[c] \in Tasks
                             /\ c \in asleep' \ missed' => Outstanding(task'[c]),
         pc'[c] = "callout" => /\ task'[c] \in TimeoutTasks
                               /\ c \notin missed'
                               /\ c \in asleep' => callout'[task'[c]].exec # "idle",
         pc'[c] # "idle" => owed'[c] \subseteq Invocations(task'[c])
  PROVE  IInv'
<1>1. TypeOK'
  BY DEF IInv, TypeOK
<1>2. ListInv'
  BY DEF IInv, ListInv
<1>3. CountInv'
  BY DEF IInv, CountInv
<1>4. BarrierInv'
  BY DEF IInv, BarrierInv, Runs
<1>5. ClientInv'
  <2>1. \A u : Outstanding(u)' <=> Outstanding(u)
    BY DEF Outstanding, Runs
  <2>2. MustWait' <=> MustWait
    BY DEF MustWait
  <2>3. ASSUME NEW d \in Clients, d # c
        PROVE  (/\ pc[d] = "drain" => task[d] \in Tasks
                /\ pc[d] = "callout" => task[d] \in TimeoutTasks
                /\ pc[d] = "idle" => d \notin asleep
                /\ d \in asleep \ missed =>
                     /\ pc[d] = "drain" => Outstanding(task[d])
                     /\ pc[d] = "callout" => callout[task[d]].exec # "idle"
                     /\ pc[d] = "free" => MustWait
                /\ d \in missed => pc[d] = "drain")'
    <3>1. Outstanding(task[d])' <=> Outstanding(task[d])
      BY <2>3 DEF Outstanding, Runs
    <3> QED BY <2>2, <2>3, <3>1 DEF IInv, ClientInv
  <2>4. (/\ pc[c] = "drain" => task[c] \in Tasks
         /\ pc[c] = "callout" => task[c] \in TimeoutTasks
         /\ pc[c] = "idle" => c \notin asleep
         /\ c \in asleep \ missed =>
              /\ pc[c] = "drain" => Outstanding(task[c])
              /\ pc[c] = "callout" => callout[task[c]].exec # "idle"
              /\ pc[c] = "free" => MustWait
         /\ c \in missed => pc[c] = "drain")'
    <3>1. Outstanding(task'[c]) => Outstanding(task[c])'
      BY DEF Outstanding, Runs
    <3> QED BY <3>1
  <2> QED BY <2>3, <2>4 DEF ClientInv
<1>6. UnlockedInv'
  BY DEF IInv, UnlockedInv
<1>7. FreeInv'
  BY DEF IInv, FreeInv, ACTIVE
<1>8. WorkInv'
  BY DEF IInv, WorkInv, BLOCKED
<1>9. OwedInv'
  <2>1. \A d \in Clients : Invocations(task[d])' = Invocations(task'[d])
    BY DEF Invocations
  <2>2. \A x, y : /\ Before(tq_active, x, y)' <=> Before(tq_active, x, y)
                  /\ Before(tq_queue, x, y)' <=> Before(tq_queue, x, y)
    BY DEF Before
  <2>3. \A d \in Clients : d # c => Invocations(task'[d]) = Invocations(task[d])
    OBVIOUS
  <2> QED BY <2>1, <2>2, <2>3 DEF IInv, OwedInv
<1> QED BY <1>1, <1>2, <1>3, <1>4, <1>5, <1>6, <1>7, <1>8, <1>9 DEF IInv

(* A client whose call returns. *)
LEMMA ReturnFacts ==
  ASSUME IInv, NEW c \in Clients, Returns(c)
  PROVE  /\ pc' \in [Clients -> {"idle", "drain", "barrier", "marker", "callout", "free"}]
         /\ task' \in [Clients -> Tasks \cup {NoTask}]
         /\ owed' \in [Clients -> SUBSET (Queueable \cup Workers)]
         /\ missed' \subseteq Clients \cup TimeoutTasks
         /\ pc'[c] = "idle" /\ owed'[c] = {} /\ c \notin missed'
         /\ \A d \in Clients : d # c =>
              pc'[d] = pc[d] /\ task'[d] = task[d] /\ owed'[d] = owed[d]
         /\ \A d : d # c => (d \in missed' <=> d \in missed)
BY DEF Returns, IInv, TypeOK

(* taskqueue_drain() and taskqueue_drain_timeout() take note of the        *)
(* invocations there are.                                                  *)
LEMMA taskqueue_drainStep ==
  ASSUME IInv, NEW c \in Clients, NEW t \in Tasks,
         taskqueue_drain(c, t) \/ (t \in TimeoutTasks /\ taskqueue_drain_timeout(c, t))
  PROVE  IInv'
<1>0. /\ MayCall(c) /\ task' = [task EXCEPT ![c] = t]
      /\ \/ pc' = [pc EXCEPT ![c] = "drain"] /\ Busy(t) /\ asleep' = asleep \cup {c}
         \/ pc' = [pc EXCEPT ![c] = "callout"] /\ t \in TimeoutTasks /\ asleep' = asleep
      /\ owed' = [owed EXCEPT ![c] = Invocations(t)]
      /\ UNCHANGED <<tq_exists, tq_flags, tq_queue, tq_active, ta_pending, tb_running,
                     tq_tcount, tq_callouts, f, callout, wpc, unlocked, missed>>
  BY DEF taskqueue_drain, taskqueue_drain_timeout, flags, lists, counts, timeouts
<1>1. /\ ACTIVE /\ pc[c] = "idle" /\ c \notin unlocked /\ c \notin asleep
      /\ c \notin missed
  BY <1>0 DEF MayCall, IInv, ClientInv
<1>2. /\ pc \in [Clients -> {"idle", "drain", "barrier", "marker", "callout", "free"}]
      /\ task \in [Clients -> Tasks \cup {NoTask}]
      /\ owed \in [Clients -> SUBSET (Queueable \cup Workers)]
      /\ asleep \subseteq Clients /\ missed \subseteq Clients \cup TimeoutTasks
      /\ callout \in [TimeoutTasks -> Callout]
  BY DEF IInv, TypeOK
<1>3. Invocations(t) \subseteq Queueable \cup Workers
  BY DEF Invocations, Queueable
<1>4. /\ pc' \in [Clients -> {"idle", "drain", "barrier", "marker", "callout", "free"}]
      /\ task' \in [Clients -> Tasks \cup {NoTask}]
      /\ owed' \in [Clients -> SUBSET (Queueable \cup Workers)]
      /\ asleep' \subseteq Clients
  BY <1>0, <1>2, <1>3
<1>5. /\ task'[c] = t /\ owed'[c] = Invocations(t)
      /\ \/ pc'[c] = "drain" /\ Busy(t)
         \/ pc'[c] = "callout" /\ t \in TimeoutTasks /\ c \notin asleep'
      /\ \A d \in Clients : d # c =>
           /\ pc'[d] = pc[d] /\ task'[d] = task[d] /\ owed'[d] = owed[d]
           /\ d \in asleep' <=> d \in asleep
  BY <1>0, <1>1, <1>2
<1>6. TimeoutInv'
  BY <1>0 DEF IInv, TimeoutInv, WillFire
<1>7. Busy(t) => Outstanding(t)
  BY BusyIsOutstanding DEF Queueable
<1>8. /\ pc'[c] # "idle"
      /\ pc'[c] = "drain" => /\ task'[c] \in Tasks
                             /\ c \in asleep' \ missed' => Outstanding(task'[c])
      /\ pc'[c] = "callout" => /\ task'[c] \in TimeoutTasks
                               /\ c \notin missed'
                               /\ c \in asleep' => callout'[task'[c]].exec # "idle"
      /\ pc'[c] # "idle" => owed'[c] \subseteq Invocations(task'[c])
  BY <1>0, <1>1, <1>5, <1>7
<1> QED BY <1>0, <1>1, <1>2, <1>4, <1>5, <1>6, <1>8, ClientStep

(* The loop of taskqueue_drain(). *)
LEMMA DrainLoopStep ==
  ASSUME IInv, NEW c \in Clients, DrainLoop(c)
  PROVE  IInv'
<1>0. /\ pc[c] = "drain" /\ c \notin asleep
      /\ UNCHANGED <<tq_exists, tq_flags, tq_queue, tq_active, ta_pending, tb_running,
                     tq_tcount, tq_callouts, f, callout, wpc, unlocked>>
  BY DEF DrainLoop, flags, lists, counts, timeouts
<1>1. /\ ACTIVE /\ c \notin unlocked
      /\ task[c] \in Tasks /\ owed[c] \subseteq Invocations(task[c])
  BY <1>0 DEF IInv, FreeInv, UnlockedInv, ClientInv, OwedInv
<1>2. /\ pc \in [Clients -> {"idle", "drain", "barrier", "marker", "callout", "free"}]
      /\ task \in [Clients -> Tasks \cup {NoTask}]
      /\ owed \in [Clients -> SUBSET (Queueable \cup Workers)]
      /\ asleep \subseteq Clients /\ missed \subseteq Clients \cup TimeoutTasks
      /\ callout \in [TimeoutTasks -> Callout]
  BY DEF IInv, TypeOK
<1>3. CASE Busy(task[c]) /\ asleep' = asleep \cup {c} /\ UNCHANGED <<client, owed, missed>>
  <2>1. /\ UNCHANGED <<pc, task, owed, missed, callout>>
        /\ asleep' = asleep \cup {c}
    BY <1>0, <1>3 DEF client
  <2>2. Outstanding(task[c])
    BY <1>1, <1>3, BusyIsOutstanding DEF Queueable
  <2>3. TimeoutInv'
    BY <1>0, <2>1 DEF IInv, TimeoutInv, WillFire
  <2>4. asleep' \subseteq Clients
    BY <1>2, <2>1
  <2>5. \A d \in Clients : d # c =>
           /\ pc'[d] = pc[d] /\ task'[d] = task[d] /\ owed'[d] = owed[d]
           /\ d \in asleep' <=> d \in asleep
           /\ d \in missed' <=> d \in missed
    BY <2>1
  <2> QED BY <1>0, <1>1, <1>2, <2>1, <2>2, <2>3, <2>4, <2>5, ClientStep
<1>4. CASE ~ Busy(task[c]) /\ Returns(c) /\ UNCHANGED asleep
  <2>1. /\ pc' \in [Clients -> {"idle", "drain", "barrier", "marker", "callout", "free"}]
        /\ task' \in [Clients -> Tasks \cup {NoTask}]
        /\ owed' \in [Clients -> SUBSET (Queueable \cup Workers)]
        /\ missed' \subseteq Clients \cup TimeoutTasks
        /\ pc'[c] = "idle" /\ owed'[c] = {} /\ c \notin missed'
        /\ \A d \in Clients : d # c =>
             pc'[d] = pc[d] /\ task'[d] = task[d] /\ owed'[d] = owed[d]
        /\ \A d : d # c => (d \in missed' <=> d \in missed)
    BY <1>4, ReturnFacts
  <2>2. TimeoutInv'
    BY <1>0, <2>1, TaskQueueAssumption DEF IInv, TimeoutInv, WillFire
  <2> QED BY <1>0, <1>1, <1>2, <1>4, <2>1, <2>2, ClientStep
<1> QED BY <1>3, <1>4 DEF DrainLoop

(* callout_drain() takes a pending callout away and waits for a running    *)
(* one.                                                                    *)
LEMMA callout_drainStep ==
  ASSUME IInv, NEW c \in Clients, callout_drain(c)
  PROVE  IInv'
<1>0. /\ pc[c] = "callout" /\ c \notin asleep
      /\ UNCHANGED <<tq_exists, tq_flags, tq_queue, tq_active, ta_pending, tb_running,
                     tq_tcount, tq_callouts, f, wpc, task, unlocked, owed>>
  BY DEF callout_drain, flags, lists, counts
<1>1. /\ ACTIVE /\ c \notin unlocked
      /\ task[c] \in TimeoutTasks /\ owed[c] \subseteq Invocations(task[c])
      /\ task[c] \in Tasks /\ c \notin missed
  BY <1>0, TaskQueueAssumption DEF IInv, FreeInv, UnlockedInv, ClientInv, OwedInv
<1>2. /\ pc \in [Clients -> {"idle", "drain", "barrier", "marker", "callout", "free"}]
      /\ task \in [Clients -> Tasks \cup {NoTask}]
      /\ owed \in [Clients -> SUBSET (Queueable \cup Workers)]
      /\ asleep \subseteq Clients /\ missed \subseteq Clients \cup TimeoutTasks
      /\ callout \in [TimeoutTasks -> Callout]
  BY DEF IInv, TypeOK
<1>3. PICK t \in TimeoutTasks : t = task[c] /\ t \notin Clients
  BY <1>1, TaskQueueAssumption
<1>4. CASE /\ callout[t].pending
           /\ callout' = [callout EXCEPT ![t].pending = FALSE]
           /\ missed' = missed \cup {t}
           /\ pc' = [pc EXCEPT ![c] = "drain"] /\ UNCHANGED asleep
  <2>1. /\ callout' \in [TimeoutTasks -> Callout]
        /\ ~ callout'[t].pending /\ callout'[t].exec = callout[t].exec
        /\ \A u \in TimeoutTasks : u # t => callout'[u] = callout[u]
    BY <1>2, <1>4 DEF Callout
  <2>2. TimeoutInv'
    BY <1>0, <1>4, <2>1 DEF IInv, TimeoutInv, WillFire
  <2>3. /\ pc' \in [Clients -> {"idle", "drain", "barrier", "marker", "callout", "free"}]
        /\ pc'[c] = "drain" /\ \A d \in Clients : d # c => pc'[d] = pc[d]
    BY <1>2, <1>4
  <2>4. missed' \subseteq Clients \cup TimeoutTasks
        /\ \A d \in Clients : d # c => (d \in missed' <=> d \in missed)
    BY <1>2, <1>3, <1>4
  <2>5. \A u \in TimeoutTasks : callout'[u].exec = callout[u].exec
    BY <2>1
  <2> QED BY <1>0, <1>1, <1>2, <1>4, <2>1, <2>2, <2>3, <2>4, <2>5, ClientStep
<1>5. CASE /\ pc' = [pc EXCEPT ![c] = "drain"] /\ UNCHANGED asleep
           /\ UNCHANGED <<callout, missed>>
  <2>1. TimeoutInv'
    BY <1>0, <1>5 DEF IInv, TimeoutInv, WillFire
  <2>2. /\ pc' \in [Clients -> {"idle", "drain", "barrier", "marker", "callout", "free"}]
        /\ pc'[c] = "drain" /\ \A d \in Clients : d # c => pc'[d] = pc[d]
    BY <1>2, <1>5
  <2> QED BY <1>0, <1>1, <1>2, <1>5, <2>1, <2>2, ClientStep
<1>6. CASE /\ callout[t].exec # "idle"
           /\ callout' = [callout EXCEPT ![t].waiting = TRUE]
           /\ asleep' = asleep \cup {c}
           /\ UNCHANGED <<pc, missed>>
  <2>1. /\ callout' \in [TimeoutTasks -> Callout]
        /\ callout'[t].exec = callout[t].exec /\ callout'[t].pending = callout[t].pending
        /\ \A u \in TimeoutTasks : u # t => callout'[u] = callout[u]
    BY <1>2, <1>6 DEF Callout
  <2>2. TimeoutInv'
    BY <1>0, <1>6, <2>1 DEF IInv, TimeoutInv, WillFire
  <2>3. asleep' \subseteq Clients /\ \A d \in Clients : d # c => (d \in asleep' <=> d \in asleep)
    BY <1>2, <1>6
  <2>4. \A u \in TimeoutTasks : callout'[u].exec = callout[u].exec
    BY <2>1
  <2> QED BY <1>0, <1>1, <1>2, <1>3, <1>6, <2>1, <2>2, <2>3, <2>4, ClientStep
<1> QED BY <1>3, <1>4, <1>5, <1>6 DEF callout_drain


(* A marker more at the end of tq_active, which was not empty. *)
LEMMA DrainActiveStep ==
  ASSUME IInv, NEW c \in Clients, DrainActive(c), ACTIVE,
         pc[c] \in {"idle", "barrier"}, c \notin asleep, c \notin unlocked,
         owed' \in [Clients -> SUBSET (Queueable \cup Workers)],
         \A d \in Clients : d # c => owed'[d] = owed[d],
         \A u \in owed'[c] : u \in Workers /\ u \in ToSet(tq_active),
         UNCHANGED <<tq_exists, tq_flags, tq_queue, ta_pending, tb_running, tq_tcount, f,
                     callout, wpc, task, unlocked, missed>>
  PROVE  IInv'
<1>0. /\ tq_active # <<>> /\ tq_active' = Append(tq_active, c)
      /\ tq_callouts' = tq_callouts + 1
      /\ pc' = [pc EXCEPT ![c] = "marker"] /\ asleep' = asleep \cup {c}
  BY DEF DrainActive
<1>1. /\ tq_active \in Seq(Workers \cup Clients) /\ IsInjective(tq_active)
      /\ c \notin ToSet(tq_active) /\ c \notin missed
      /\ c \notin ToSet(tq_queue) /\ ~ Runs(c)
      /\ f \subseteq TimeoutTasks
      /\ pc \in [Clients -> {"idle", "drain", "barrier", "marker", "callout", "free"}]
  BY DEF IInv, TypeOK, ListInv, BarrierInv, ClientInv
<1>2. /\ tq_active' \in Seq(Workers \cup Clients) /\ IsInjective(tq_active')
      /\ ToSet(tq_active') = ToSet(tq_active) \cup {c}
      /\ \A a, b : Before(tq_active, a, b) => Before(tq_active', a, b)
      /\ \A a \in ToSet(tq_active) : Before(tq_active', a, c)
      /\ tq_active' # <<>> /\ Head(tq_active') = Head(tq_active)
  BY <1>0, <1>1, AppendSeq
<1>3. /\ pc' \in [Clients -> {"idle", "drain", "barrier", "marker", "callout", "free"}]
      /\ \A d \in Clients : pc'[d] = IF d = c THEN "marker" ELSE pc[d]
  BY <1>0, <1>1
<1>4. CountInv'
  <2>1. PICK M : M = ToSet(tq_active) \ Workers
    OBVIOUS
  <2>2. ToSet(tq_active') \ Workers = M \cup {c} /\ c \notin M
    BY <1>1, <1>2, <2>1, TaskQueueAssumption
  <2>3. /\ IsFiniteSet(M) /\ Cardinality(M) \in Nat /\ Cardinality(f) \in Nat
        /\ tq_callouts = Cardinality(f) + Cardinality(M)
    <3>0. /\ IsFiniteSet(ToSet(tq_active) \ Workers) /\ Cardinality(f) \in Nat
          /\ Cardinality(ToSet(tq_active) \ Workers) \in Nat
      BY <1>1, CountBound
    <3>1. IsFiniteSet(M) /\ Cardinality(M) \in Nat /\ Cardinality(f) \in Nat
      BY <2>1, <3>0, Zenon
    <3>2. tq_callouts = Cardinality(f) + Cardinality(M)
      BY <2>1 DEF IInv, CountInv
    <3> QED BY <3>1, <3>2
  <2>4. Cardinality(M \cup {c}) = Cardinality(M) + 1
    BY <2>2, <2>3, FS_AddElement
  <2>5. tq_callouts' = Cardinality(f) + Cardinality(ToSet(tq_active') \ Workers)
    <3>1. tq_callouts' = Cardinality(f) + Cardinality(M \cup {c})
      BY <1>0, <2>3, <2>4
    <3> QED BY <2>2, <3>1, Zenon
  <2> QED BY <2>5 DEF IInv, CountInv
<1>5. tq_callouts' \in 0..(Cardinality(TimeoutTasks) + Cardinality(Clients))
  <2>1. tq_callouts' = Cardinality(f') + Cardinality(ToSet(tq_active') \ Workers)
    BY <1>4 DEF CountInv
  <2>2. f' \subseteq TimeoutTasks
    BY <1>1
  <2> QED BY <1>2, <2>1, <2>2, CountBound
<1>6. TypeOK'
  BY <1>0, <1>2, <1>3, <1>5 DEF IInv, TypeOK
<1>7. ListInv'
  BY <1>2, TaskQueueAssumption DEF IInv, ListInv
<1>8. TimeoutInv'
  BY DEF IInv, TimeoutInv, WillFire
<1>9. BarrierInv'
  <2>1. ASSUME NEW d \in Clients, d # c
        PROVE  (/\ d \in ToSet(tq_queue) \/ Runs(d) <=> pc[d] = "barrier" /\ d \in asleep
                /\ d \in ToSet(tq_queue) => ~ Runs(d)
                /\ d \in ToSet(tq_active) <=> pc[d] = "marker"
                /\ pc[d] = "marker" =>
                     /\ tq_active # <<>>
                     /\ d \in asleep <=> Head(tq_active) # d)'
    <3>1. Runs(d)' <=> Runs(d)
      BY DEF Runs
    <3> QED BY <1>0, <1>2, <1>3, <2>1, <3>1 DEF IInv, BarrierInv
  <2>2. ~ Runs(c)'
    BY <1>1 DEF Runs
  <2>3. Head(tq_active') # c
    <3>1. Head(tq_active) \in ToSet(tq_active)
      BY <1>0, <1>1, TailSeq
    <3> QED BY <1>1, <1>2, <3>1
  <2>4. (/\ c \in ToSet(tq_queue) \/ Runs(c) <=> pc[c] = "barrier" /\ c \in asleep
         /\ c \in ToSet(tq_queue) => ~ Runs(c)
         /\ c \in ToSet(tq_active) <=> pc[c] = "marker"
         /\ pc[c] = "marker" =>
              /\ tq_active # <<>>
              /\ c \in asleep <=> Head(tq_active) # c)'
    BY <1>0, <1>1, <1>2, <1>3, <2>2, <2>3
  <2>5. \A w, x \in Workers :
          tb_running'[w] \in Clients /\ tb_running'[w] = tb_running'[x] => w = x
    BY DEF IInv, BarrierInv
  <2> QED BY <2>1, <2>4, <2>5 DEF BarrierInv
<1>10. ClientInv'
  <2>1. \A d \in Clients : pc[d] # "free"
    BY DEF IInv, FreeInv
  <2>2. \A d \in Clients : Outstanding(task[d])' <=> Outstanding(task[d])
    BY DEF Outstanding, Runs
  <2> QED BY <1>0, <1>1, <1>3, <2>1, <2>2 DEF IInv, ClientInv
<1>11. UnlockedInv'
  BY <1>3 DEF IInv, UnlockedInv
<1>12. FreeInv'
  BY <1>3 DEF IInv, FreeInv, ACTIVE
<1>13. WorkInv'
  BY DEF IInv, WorkInv, BLOCKED
<1>14. OwedInv'
  <2>1. \A d \in Clients : Invocations(task[d])' = Invocations(task[d])
    BY DEF Invocations
  <2>2. \A x, y : Before(tq_queue, x, y)' <=> Before(tq_queue, x, y)
    BY DEF Before
  <2> QED BY <1>2, <1>3, <2>1, <2>2 DEF IInv, OwedInv
<1> QED BY <1>4, <1>6, <1>7, <1>8, <1>9, <1>10, <1>11, <1>12, <1>13, <1>14 DEF IInv

(* The barrier is queued behind everything that is. *)
LEMMA DrainQueueStep ==
  ASSUME IInv, NEW c \in Clients, DrainQueue(c), MayCall(c),
         owed' = [owed EXCEPT ![c] = ToSet(tq_queue) \cup
                                     {w \in Workers : tb_running[w] # NoTask}],
         UNCHANGED <<tq_exists, tq_flags, tq_active, tb_running, tq_tcount, tq_callouts, f,
                     callout, wpc, task, unlocked, missed>>
  PROVE  IInv'
<1>0. /\ tq_queue # <<>> /\ tq_queue' = Append(tq_queue, c)
      /\ ta_pending' = [ta_pending EXCEPT ![c] = 1]
      /\ pc' = [pc EXCEPT ![c] = "barrier"] /\ asleep' = asleep \cup {c}
  BY DEF DrainQueue
<1>1. /\ tq_queue \in Seq(Queueable) /\ IsInjective(tq_queue) /\ pc[c] = "idle"
      /\ c \notin unlocked /\ ACTIVE /\ c \notin asleep /\ c \notin missed
      /\ c \notin ToSet(tq_queue) /\ ~ Runs(c) /\ c \notin ToSet(tq_active)
      /\ c \in Queueable /\ ta_pending \in [Queueable -> 0..USHRT_MAX]
      /\ owed \in [Clients -> SUBSET (Queueable \cup Workers)]
      /\ pc \in [Clients -> {"idle", "drain", "barrier", "marker", "callout", "free"}]
  BY DEF IInv, TypeOK, ListInv, BarrierInv, ClientInv, MayCall, Queueable
<1>2. /\ tq_queue' \in Seq(Queueable) /\ IsInjective(tq_queue')
      /\ ToSet(tq_queue') = ToSet(tq_queue) \cup {c}
      /\ \A a, b : Before(tq_queue, a, b) => Before(tq_queue', a, b)
      /\ \A a \in ToSet(tq_queue) : Before(tq_queue', a, c)
  BY <1>0, <1>1, AppendSeq
<1>3. /\ pc' \in [Clients -> {"idle", "drain", "barrier", "marker", "callout", "free"}]
      /\ \A d \in Clients : pc'[d] = IF d = c THEN "barrier" ELSE pc[d]
  BY <1>0, <1>1
<1>4. /\ ta_pending' \in [Queueable -> 0..USHRT_MAX]
      /\ \A u \in Queueable : ta_pending'[u] = IF u = c THEN 1 ELSE ta_pending[u]
  BY <1>0, <1>1, TaskQueueAssumption
<1>5. PICK W \in SUBSET Workers : W = {w \in Workers : tb_running[w] # NoTask}
  OBVIOUS
<1>6. /\ owed' \in [Clients -> SUBSET (Queueable \cup Workers)]
      /\ owed'[c] = ToSet(tq_queue) \cup W
      /\ \A d \in Clients : d # c => owed'[d] = owed[d]
  <2>1. ToSet(tq_queue) \subseteq Queueable
    BY <1>1 DEF ToSet
  <2>2. PICK O \in SUBSET (Queueable \cup Workers) : O = ToSet(tq_queue) \cup W
    BY <2>1
  <2>3. owed' = [owed EXCEPT ![c] = O]
    BY <1>5, <2>2
  <2> QED BY <1>1, <2>2, <2>3
<1>7. TypeOK'
  BY <1>0, <1>2, <1>3, <1>4, <1>6 DEF IInv, TypeOK
<1>8. ListInv'
  BY <1>1, <1>2, <1>4 DEF IInv, ListInv
<1>9. CountInv' /\ TimeoutInv'
  BY DEF IInv, CountInv, TimeoutInv, WillFire
<1>10. BarrierInv'
  <2>1. \A d \in Clients : Runs(d)' <=> Runs(d)
    BY DEF Runs
  <2> QED BY <1>0, <1>1, <1>2, <1>3, <2>1 DEF IInv, BarrierInv
<1>11. ClientInv'
  <2>1. \A d \in Clients : pc[d] = "drain" => (Outstanding(task[d])' <=> Outstanding(task[d]))
    BY <1>4, TaskQueueAssumption DEF IInv, ClientInv, Outstanding, Runs, Queueable
  <2>2. MustWait' <=> MustWait
    BY DEF MustWait
  <2> QED BY <1>0, <1>1, <1>3, <2>1, <2>2 DEF IInv, ClientInv
<1>12. UnlockedInv'
  BY <1>1, <1>3 DEF IInv, UnlockedInv
<1>13. FreeInv'
  BY <1>1, <1>3 DEF IInv, FreeInv, ACTIVE
<1>14. WorkInv'
  BY <1>0 DEF IInv, WorkInv, BLOCKED
<1>15. OwedInv'
  <2>1. ASSUME NEW d \in Clients, pc[d] \in {"drain", "callout"}
        PROVE  Invocations(task[d])' = Invocations(task[d])
    <3>1. task[d] \in Queueable /\ task[d] # c
      BY <2>1, TaskQueueAssumption DEF IInv, ClientInv, Queueable
    <3> QED BY <1>4, <3>1 DEF Invocations
  <2>2. \A x, y : Before(tq_active, x, y)' <=> Before(tq_active, x, y)
    BY DEF Before
  <2>3. \A w \in W : w \in Workers /\ wpc[w] = "run"
    BY <1>5 DEF IInv, ListInv
  <2> QED BY <1>2, <1>3, <1>6, <2>1, <2>2, <2>3 DEF IInv, OwedInv
<1> QED BY <1>7, <1>8, <1>9, <1>10, <1>11, <1>12, <1>13, <1>14, <1>15 DEF IInv

(* taskqueue_drain_all(): the barrier, or at once the marker. *)
LEMMA taskqueue_drain_allStep ==
  ASSUME IInv, NEW c \in Clients, taskqueue_drain_all(c)
  PROVE  IInv'
<1>0. /\ MayCall(c)
      /\ owed' = [owed EXCEPT ![c] = ToSet(tq_queue) \cup
                                     {w \in Workers : tb_running[w] # NoTask}]
      /\ UNCHANGED <<tq_exists, tq_flags, tb_running, tq_tcount, f, callout, wpc, task,
                     unlocked, missed>>
  BY DEF taskqueue_drain_all, flags, timeouts
<1>1. CASE DrainQueue(c) /\ UNCHANGED <<tq_active, tq_callouts>>
  BY <1>0, <1>1, DrainQueueStep
<1>2. CASE tq_queue = <<>> /\ DrainActive(c) /\ UNCHANGED <<tq_queue, ta_pending>>
  <2>1. PICK W \in SUBSET Workers : W = {w \in Workers : tb_running[w] # NoTask}
    OBVIOUS
  <2>2. ToSet(tq_queue) \cup W = W
    BY <1>2 DEF ToSet
  <2>3. owed' = [owed EXCEPT ![c] = W] /\ owed \in [Clients -> SUBSET (Queueable \cup Workers)]
    BY <1>0, <2>1, <2>2 DEF IInv, TypeOK
  <2>4. /\ owed' \in [Clients -> SUBSET (Queueable \cup Workers)]
        /\ owed'[c] = W /\ \A d \in Clients : d # c => owed'[d] = owed[d]
    BY <2>3
  <2>5. \A u \in owed'[c] : u \in Workers /\ u \in ToSet(tq_active)
    BY <2>1, <2>4 DEF IInv, ListInv
  <2>6. ACTIVE /\ pc[c] = "idle" /\ c \notin asleep /\ c \notin unlocked
    BY <1>0 DEF MayCall, IInv, ClientInv
  <2> QED BY <1>0, <1>2, <2>4, <2>5, <2>6, DrainActiveStep
<1> QED BY <1>1, <1>2 DEF taskqueue_drain_all


(* After the barrier: nothing runs any more, or the marker is queued behind *)
(* what does.                                                               *)
LEMMA BarrierPassedStep ==
  ASSUME IInv, NEW c \in Clients, BarrierPassed(c)
  PROVE  IInv'
<1>0. /\ pc[c] = "barrier" /\ c \notin asleep
      /\ UNCHANGED <<tq_exists, tq_flags, tq_queue, ta_pending, tb_running, tq_tcount, f,
                     callout, wpc, unlocked>>
  BY DEF BarrierPassed, flags, timeouts
<1>1. /\ ACTIVE /\ c \notin unlocked /\ c \notin ToSet(tq_queue) /\ ~ Runs(c)
      /\ c \notin missed
  BY <1>0 DEF IInv, FreeInv, UnlockedInv, BarrierInv, ClientInv
<1>2. \A u \in owed[c] : u \in Workers /\ u \in ToSet(tq_active)
  <2>1. \A u : ~ Before(tq_queue, u, c)
    BY <1>1 DEF Before, ToSet
  <2> QED BY <1>0, <2>1 DEF IInv, OwedInv, ListInv
<1>3. CASE DrainActive(c) /\ UNCHANGED <<task, owed, missed>>
  <2>1. owed' \in [Clients -> SUBSET (Queueable \cup Workers)]
    BY <1>3 DEF IInv, TypeOK
  <2> QED BY <1>0, <1>1, <1>2, <1>3, <2>1, DrainActiveStep
<1>4. CASE /\ tq_active = <<>> /\ Returns(c)
           /\ UNCHANGED <<tq_active, tq_callouts, asleep>>
  <2>1. /\ pc' \in [Clients -> {"idle", "drain", "barrier", "marker", "callout", "free"}]
        /\ task' \in [Clients -> Tasks \cup {NoTask}]
        /\ owed' \in [Clients -> SUBSET (Queueable \cup Workers)]
        /\ missed' \subseteq Clients \cup TimeoutTasks
        /\ pc'[c] = "idle" /\ owed'[c] = {} /\ c \notin missed'
        /\ \A d \in Clients : d # c =>
             pc'[d] = pc[d] /\ task'[d] = task[d] /\ owed'[d] = owed[d]
        /\ \A d : d # c => (d \in missed' <=> d \in missed)
    BY <1>4, ReturnFacts
  <2>2. TypeOK'
    BY <1>0, <1>4, <2>1 DEF IInv, TypeOK
  <2>3. ListInv'
    BY <1>0, <1>4 DEF IInv, ListInv
  <2>4. CountInv' /\ TimeoutInv'
    BY <1>0, <1>4, <2>1, TaskQueueAssumption DEF IInv, CountInv, TimeoutInv, WillFire
  <2>5. BarrierInv'
    <3>1. \A d \in Clients : Runs(d)' <=> Runs(d)
      BY <1>0 DEF Runs
    <3> QED BY <1>0, <1>1, <1>4, <2>1, <3>1 DEF IInv, BarrierInv
  <2>6. ClientInv'
    <3>1. \A d \in Clients : d # c => (Outstanding(task[d])' <=> Outstanding(task[d]))
      BY <1>0, <2>1 DEF Outstanding, Runs
    <3>2. MustWait' <=> MustWait
      BY <1>0, <1>4 DEF MustWait
    <3> QED BY <1>0, <1>4, <2>1, <3>1, <3>2 DEF IInv, ClientInv
  <2>7. UnlockedInv'
    BY <1>0, <2>1 DEF IInv, UnlockedInv
  <2>8. FreeInv'
    BY <1>0, <1>1, <2>1 DEF IInv, FreeInv, ACTIVE
  <2>9. WorkInv'
    BY <1>0 DEF IInv, WorkInv, BLOCKED
  <2>10. OwedInv'
    <3>1. \A d \in Clients : d # c => Invocations(task[d])' = Invocations(task[d])
      BY <1>0, <2>1 DEF Invocations
    <3>2. \A x, y : /\ Before(tq_queue, x, y)' <=> Before(tq_queue, x, y)
                    /\ Before(tq_active, x, y)' <=> Before(tq_active, x, y)
      BY <1>0, <1>4 DEF Before
    <3> QED BY <1>0, <2>1, <3>1, <3>2 DEF IInv, OwedInv
  <2> QED BY <2>2, <2>3, <2>4, <2>5, <2>6, <2>7, <2>8, <2>9, <2>10 DEF IInv
<1> QED BY <1>3, <1>4 DEF BarrierPassed

(* taskqueue_drain_tq_active() takes its marker off and wakes the next one, *)
(* and taskqueue_terminate().                                               *)
LEMMA MarkerIsFirstStep ==
  ASSUME IInv, NEW c \in Clients, MarkerIsFirst(c)
  PROVE  IInv'
<1>0. PICK active :
      /\ active = Tail(tq_active) /\ pc[c] = "marker" /\ c \notin asleep
      /\ Head(tq_active) = c /\ tq_active' = active
      /\ tq_callouts' = tq_callouts - 1
      /\ asleep' = (asleep \ FirstMarker(active)) \
                   {d \in Clients : pc[d] = "free" /\ ~ ACTIVE}
      /\ Returns(c)
      /\ UNCHANGED <<tq_exists, tq_flags, tq_queue, ta_pending, tb_running, tq_tcount, f,
                     callout, wpc, unlocked>>
  BY DEF MarkerIsFirst, flags, timeouts
<1>1. /\ tq_active \in Seq(Workers \cup Clients) /\ IsInjective(tq_active)
      /\ tq_active # <<>> /\ c \in ToSet(tq_active)
      /\ c \notin ToSet(tq_queue) /\ ~ Runs(c) /\ c \notin Workers
      /\ f \subseteq TimeoutTasks
  BY <1>0, TaskQueueAssumption DEF IInv, TypeOK, ListInv, BarrierInv
<1>2. /\ active \in Seq(Workers \cup Clients) /\ IsInjective(active)
      /\ ToSet(active) = ToSet(tq_active) \ {c}
      /\ \A a, b : Before(tq_active, a, b) /\ a # c => Before(active, a, b)
  BY <1>0, <1>1, TailSeq
<1>3. /\ pc' \in [Clients -> {"idle", "drain", "barrier", "marker", "callout", "free"}]
      /\ task' \in [Clients -> Tasks \cup {NoTask}]
      /\ owed' \in [Clients -> SUBSET (Queueable \cup Workers)]
      /\ missed' \subseteq Clients \cup TimeoutTasks
      /\ pc'[c] = "idle" /\ owed'[c] = {} /\ c \notin missed'
      /\ \A d \in Clients : d # c =>
           pc'[d] = pc[d] /\ task'[d] = task[d] /\ owed'[d] = owed[d]
      /\ \A d : d # c => (d \in missed' <=> d \in missed)
  BY <1>0, ReturnFacts
<1>4. CountInv'
  <2>1. PICK M : M = ToSet(tq_active) \ Workers
    OBVIOUS
  <2>2. ToSet(tq_active') \ Workers = M \ {c} /\ c \in M
    BY <1>0, <1>1, <1>2, <2>1
  <2>3. IsFiniteSet(M) /\ Cardinality(M) \in Nat /\ Cardinality(f) \in Nat
    <3>1. /\ IsFiniteSet(ToSet(tq_active) \ Workers) /\ Cardinality(f) \in Nat
          /\ Cardinality(ToSet(tq_active) \ Workers) \in Nat
      BY <1>1, CountBound
    <3> QED BY <2>1, <3>1, Zenon
  <2>4. tq_callouts = Cardinality(f) + Cardinality(M)
    BY <2>1 DEF IInv, CountInv
  <2>5. Cardinality(M \ {c}) = Cardinality(M) - 1
    BY <2>2, <2>3, FS_RemoveElement
  <2>6. tq_callouts' = Cardinality(f) + Cardinality(ToSet(tq_active') \ Workers)
    <3>1. tq_callouts' = Cardinality(f) + Cardinality(M \ {c})
      BY <1>0, <2>3, <2>4, <2>5
    <3> QED BY <2>2, <3>1, Zenon
  <2> QED BY <1>0, <2>6 DEF IInv, CountInv
<1>5. tq_callouts' \in 0..(Cardinality(TimeoutTasks) + Cardinality(Clients))
  <2>1. tq_callouts' = Cardinality(f') + Cardinality(ToSet(tq_active') \ Workers)
    BY <1>4 DEF CountInv
  <2>2. f' \subseteq TimeoutTasks /\ tq_active' \in Seq(Workers \cup Clients)
    BY <1>0, <1>1, <1>2
  <2> QED BY <2>1, <2>2, CountBound
<1>6. TypeOK'
  BY <1>0, <1>2, <1>3, <1>5 DEF IInv, TypeOK
<1>7. ListInv'
  BY <1>0, <1>1, <1>2 DEF IInv, ListInv
<1>8. TimeoutInv'
  BY <1>0, <1>3, TaskQueueAssumption DEF IInv, TimeoutInv, WillFire
<1>9. FreeInv'
  BY <1>0, <1>3 DEF IInv, FreeInv, ACTIVE
<1>10. BarrierInv'
  <2>1. \A d \in Clients : Runs(d)' <=> Runs(d)
    BY <1>0 DEF Runs
  <2>2. ASSUME NEW d \in Clients, d # c
        PROVE  (/\ d \in ToSet(tq_queue) \/ Runs(d) <=> pc[d] = "barrier" /\ d \in asleep
                /\ d \in ToSet(tq_queue) => ~ Runs(d)
                /\ d \in ToSet(tq_active) <=> pc[d] = "marker"
                /\ pc[d] = "marker" =>
                     /\ tq_active # <<>>
                     /\ d \in asleep <=> Head(tq_active) # d)'
    <3>1. d \in ToSet(tq_active') <=> pc'[d] = "marker"
      BY <1>0, <1>2, <1>3, <2>2 DEF IInv, BarrierInv
    <3>2. ASSUME pc[d] = "marker"
          PROVE  /\ tq_active' # <<>>
                 /\ d \in asleep' <=> Head(tq_active') # d
      <4>1. active # <<>>
        BY <1>0, <1>3, <2>2, <3>1, <3>2 DEF ToSet
      <4>2. d \in asleep
        BY <1>0, <2>2, <3>2 DEF IInv, BarrierInv
      <4>3. d \in asleep' <=> d \notin FirstMarker(active)
        BY <1>0, <3>2, <4>2
      <4> QED BY <1>0, <4>1, <4>3 DEF FirstMarker
    <3>3. pc[d] = "barrier" => (d \in asleep' <=> d \in asleep)
      <4>1. ASSUME pc[d] = "barrier", d \in FirstMarker(active) PROVE FALSE
        <5>1. active # <<>> /\ d = Head(active)
          BY <4>1 DEF FirstMarker
        <5>2. d \in ToSet(active)
          BY <1>2, <5>1, TailSeq
        <5> QED BY <1>0, <1>3, <2>2, <3>1, <4>1, <5>2
      <4> QED BY <1>0, <4>1
    <3> QED BY <1>0, <1>3, <2>1, <2>2, <3>1, <3>2, <3>3 DEF IInv, BarrierInv
  <2>3. (/\ c \in ToSet(tq_queue) \/ Runs(c) <=> pc[c] = "barrier" /\ c \in asleep
         /\ c \in ToSet(tq_queue) => ~ Runs(c)
         /\ c \in ToSet(tq_active) <=> pc[c] = "marker"
         /\ pc[c] = "marker" =>
              /\ tq_active # <<>>
              /\ c \in asleep <=> Head(tq_active) # c)'
    BY <1>0, <1>1, <1>2, <1>3, <2>1
  <2>4. \A w, x \in Workers :
          tb_running'[w] \in Clients /\ tb_running'[w] = tb_running'[x] => w = x
    BY <1>0 DEF IInv, BarrierInv
  <2> QED BY <2>2, <2>3, <2>4 DEF BarrierInv
<1>11. ClientInv'
  <2>1. \A d \in Clients : d # c => (Outstanding(task[d])' <=> Outstanding(task[d]))
    BY <1>0, <1>3 DEF Outstanding, Runs
  <2>2. \A d \in Clients : pc[d] = "free" => d \notin asleep'
    BY <1>0 DEF IInv, FreeInv
  <2>3. asleep' \subseteq asleep
    BY <1>0
  <2> QED BY <1>0, <1>3, <2>1, <2>2, <2>3 DEF IInv, ClientInv
<1>12. UnlockedInv'
  BY <1>0, <1>3 DEF IInv, UnlockedInv
<1>13. WorkInv'
  BY <1>0 DEF IInv, WorkInv, BLOCKED
<1>14. OwedInv'
  <2>1. \A d \in Clients : d # c => Invocations(task[d])' = Invocations(task[d])
    BY <1>0, <1>3 DEF Invocations
  <2>2. \A x, y : Before(tq_queue, x, y)' <=> Before(tq_queue, x, y)
    BY <1>0 DEF Before
  <2>3. \A x, y : Before(tq_active, x, y) /\ x \in Workers => Before(tq_active', x, y)
    BY <1>0, <1>1, <1>2
  <2> QED BY <1>0, <1>3, <2>1, <2>2, <2>3 DEF IInv, OwedInv
<1> QED BY <1>4, <1>6, <1>7, <1>8, <1>9, <1>10, <1>11, <1>12, <1>13, <1>14 DEF IInv


(* taskqueue_free() clears TQ_FLAGS_ACTIVE when only workers and markers   *)
(* are left.                                                               *)
LEMMA taskqueue_freeStep ==
  ASSUME IInv, NEW c \in Clients, taskqueue_free(c)
  PROVE  IInv'
<1>0. /\ MayCall(c) /\ \A d \in Clients : pc[d] \in {"idle", "marker"}
      /\ unlocked \subseteq Workers /\ f = {}
      /\ \A t \in TimeoutTasks : callout[t].exec = "idle"
      /\ tq_flags' = tq_flags \ {"ACTIVE"} /\ pc' = [pc EXCEPT ![c] = "free"]
      /\ UNCHANGED <<tq_exists, tq_queue, tq_active, ta_pending, tb_running, tq_tcount,
                     tq_callouts, f, callout, wpc, task, asleep, unlocked, owed, missed>>
  BY DEF taskqueue_free, lists, counts, timeouts
<1>1. /\ pc[c] = "idle" /\ tq_exists /\ c \notin unlocked /\ c \notin asleep
      /\ c \notin missed /\ owed[c] = {}
      /\ pc \in [Clients -> {"idle", "drain", "barrier", "marker", "callout", "free"}]
  BY <1>0 DEF MayCall, IInv, ClientInv, OwedInv, TypeOK
<1>2. /\ pc' \in [Clients -> {"idle", "drain", "barrier", "marker", "callout", "free"}]
      /\ \A d \in Clients : pc'[d] = IF d = c THEN "free" ELSE pc[d]
      /\ ~ ACTIVE' /\ (BLOCKED' <=> BLOCKED)
  BY <1>0, <1>1 DEF ACTIVE, BLOCKED
<1>3. TypeOK'
  BY <1>0, <1>2 DEF IInv, TypeOK
<1>4. ListInv'
  BY <1>0 DEF IInv, ListInv
<1>5. CountInv' /\ TimeoutInv'
  BY <1>0 DEF IInv, CountInv, TimeoutInv, WillFire
<1>6. BarrierInv'
  <2>1. \A d \in Clients : Runs(d)' <=> Runs(d)
    BY <1>0 DEF Runs
  <2> QED BY <1>0, <1>1, <1>2, <2>1 DEF IInv, BarrierInv
<1>7. ClientInv'
  BY <1>0, <1>1, <1>2 DEF IInv, ClientInv
<1>8. UnlockedInv'
  BY <1>0, <1>1, <1>2 DEF IInv, UnlockedInv
<1>9. FreeInv'
  BY <1>0, <1>1, <1>2 DEF FreeInv
<1>10. WorkInv'
  BY <1>0, <1>2 DEF IInv, WorkInv
<1>11. OwedInv'
  <2>1. \A x, y : /\ Before(tq_queue, x, y)' <=> Before(tq_queue, x, y)
                  /\ Before(tq_active, x, y)' <=> Before(tq_active, x, y)
    BY <1>0 DEF Before
  <2> QED BY <1>0, <1>1, <1>2, <2>1 DEF IInv, OwedInv
<1> QED BY <1>3, <1>4, <1>5, <1>6, <1>7, <1>8, <1>9, <1>10, <1>11 DEF IInv

(* When the counts are zero no thread is left, no timeout is armed and no  *)
(* marker is on the list.                                                  *)
LEMMA NothingLeft ==
  ASSUME IInv, ~ MustWait
  PROVE  /\ \A w \in Workers : wpc[w] = "none"
         /\ f = {} /\ \A c \in Clients : pc[c] # "marker"
<1>1. tq_tcount = 0 /\ tq_callouts = 0
  <2>1. /\ tq_tcount \in 0..Cardinality(Workers)
        /\ tq_callouts \in 0..(Cardinality(TimeoutTasks) + Cardinality(Clients))
    BY DEF IInv, TypeOK
  <2>2. Cardinality(Workers) \in Nat
    BY FS_CardinalityType, TaskQueueAssumption
  <2>3. tq_tcount = 0
    BY <2>1, <2>2 DEF MustWait
  <2>4. IsFiniteSet(TimeoutTasks) /\ IsFiniteSet(Clients)
    BY FS_Subset, TaskQueueAssumption
  <2>5. Cardinality(TimeoutTasks) \in Nat /\ Cardinality(Clients) \in Nat
    BY <2>4, FS_CardinalityType
  <2>6. tq_callouts = 0
    BY <2>1, <2>5 DEF MustWait
  <2> QED BY <2>3, <2>6
<1>2. \A w \in Workers : wpc[w] = "none"
  BY <1>1, NoThreads DEF IInv
<1>4. PICK M : M = ToSet(tq_active) \ Workers
  OBVIOUS
<1>5. /\ IsFiniteSet(M) /\ Cardinality(M) \in Nat
      /\ IsFiniteSet(f) /\ Cardinality(f) \in Nat
  <2>1. /\ IsFiniteSet(ToSet(tq_active) \ Workers) /\ IsFiniteSet(f)
        /\ Cardinality(ToSet(tq_active) \ Workers) \in Nat /\ Cardinality(f) \in Nat
    BY CountBound DEF IInv, TypeOK
  <2> QED BY <1>4, <2>1, Zenon
<1>6. Cardinality(f) + Cardinality(M) = 0
  BY <1>1, <1>4 DEF IInv, CountInv
<1>7. Cardinality(f) = 0 /\ Cardinality(M) = 0
  BY <1>5, <1>6
<1>8. f = {} /\ M = {}
  BY <1>5, <1>7, FS_EmptySet
<1>9. \A c \in Clients : pc[c] # "marker"
  BY <1>4, <1>8, TaskQueueAssumption DEF IInv, BarrierInv
<1> QED BY <1>2, <1>8, <1>9

(* taskqueue_terminate() wakes the workers and sleeps while there are any, *)
(* or markers, and the memory goes when there are none.                    *)
LEMMA taskqueue_terminateStep ==
  ASSUME IInv, NEW c \in Clients, taskqueue_terminate(c)
  PROVE  IInv'
<1>0. /\ pc[c] = "free" /\ c \notin asleep
      /\ UNCHANGED <<tq_flags, tq_queue, tq_active, ta_pending, tb_running, tq_tcount,
                     tq_callouts, f, callout, task, unlocked, owed, missed>>
  BY DEF taskqueue_terminate, lists, counts, timeouts
<1>1. /\ ~ ACTIVE /\ ~ ACTIVE' /\ c \notin missed /\ owed[c] = {}
      /\ pc \in [Clients -> {"idle", "drain", "barrier", "marker", "callout", "free"}]
      /\ \A d \in Clients : pc[d] = "free" => d = c
      /\ \A d \in Clients : pc[d] \in {"idle", "marker", "free"}
      /\ unlocked \subseteq Workers /\ c \notin Workers
  BY <1>0, TaskQueueAssumption DEF IInv, FreeInv, ClientInv, TypeOK, OwedInv, ACTIVE
<1>2. CountInv' /\ TimeoutInv'
  <2>1. {w \in Workers : wpc'[w] # "none"} = {w \in Workers : wpc[w] # "none"}
    BY DEF taskqueue_terminate, wakeup_tq
  <2> QED BY <1>0, <2>1 DEF IInv, CountInv, TimeoutInv, WillFire
<1>3. /\ wpc' \in [Workers -> {"none", "awake", "run", "asleep", "shutdown"}]
      /\ \A w \in Workers : wpc'[w] = wpc[w] \/ (wpc[w] = "asleep" /\ wpc'[w] = "awake")
  BY DEF taskqueue_terminate, wakeup_tq, IInv, TypeOK
<1>4. ListInv'
  BY <1>0, <1>3 DEF IInv, ListInv
<1>5. WorkInv'
  BY <1>0, <1>3 DEF IInv, WorkInv, BLOCKED
<1>6. CASE MustWait /\ asleep' = asleep \cup {c} /\ UNCHANGED <<tq_exists, pc>>
  <2>1. TypeOK'
    BY <1>0, <1>3, <1>6 DEF IInv, TypeOK
  <2>2. BarrierInv'
    <3>1. \A d \in Clients : Runs(d)' <=> Runs(d)
      BY <1>0 DEF Runs
    <3>2. \A d \in Clients : d # c => (d \in asleep' <=> d \in asleep)
      BY <1>6
    <3> QED BY <1>0, <1>6, <3>1, <3>2 DEF IInv, BarrierInv
  <2>3. ClientInv'
    <3>1. MustWait'
      BY <1>0, <1>6 DEF MustWait
    <3> QED BY <1>0, <1>1, <1>6, <3>1 DEF IInv, ClientInv
  <2>4. UnlockedInv'
    BY <1>0, <1>3, <1>6 DEF IInv, UnlockedInv
  <2>5. FreeInv'
    BY <1>0, <1>1, <1>3, <1>6 DEF IInv, FreeInv
  <2>6. OwedInv'
    BY <1>0, <1>3, <1>6 DEF IInv, OwedInv, Invocations, Before
  <2> QED BY <1>2, <1>4, <1>5, <2>1, <2>2, <2>3, <2>4, <2>5, <2>6 DEF IInv
<1>7. CASE /\ ~ MustWait /\ tq_exists' = FALSE /\ pc' = [pc EXCEPT ![c] = "idle"]
           /\ UNCHANGED <<wpc, asleep>>
  <2>0. /\ pc' \in [Clients -> {"idle", "drain", "barrier", "marker", "callout", "free"}]
        /\ \A d \in Clients : pc'[d] = IF d = c THEN "idle" ELSE pc[d]
    BY <1>1, <1>7
  <2>1. TypeOK'
    BY <1>0, <1>7, <2>0 DEF IInv, TypeOK
  <2>2. BarrierInv'
    <3>1. \A d \in Clients : Runs(d)' <=> Runs(d)
      BY <1>0 DEF Runs
    <3> QED BY <1>0, <1>7, <2>0, <3>1 DEF IInv, BarrierInv
  <2>3. ClientInv'
    BY <1>0, <1>1, <1>7, <2>0 DEF IInv, ClientInv
  <2>4. UnlockedInv'
    BY <1>0, <1>1, <1>7, <2>0 DEF IInv, UnlockedInv
  <2>5. FreeInv'
    <3>1. \A w \in Workers : wpc[w] = "none"
      BY <1>7, NothingLeft
    <3>2. \A d \in Clients : pc'[d] = "idle"
      BY <1>1, <1>7, <2>0, NothingLeft
    <3> QED BY <1>0, <1>1, <1>7, <2>0, <3>1, <3>2 DEF IInv, FreeInv
  <2>6. OwedInv'
    BY <1>0, <1>1, <1>7, <2>0 DEF IInv, OwedInv, Invocations, Before
  <2> QED BY <1>2, <1>4, <1>5, <2>1, <2>2, <2>3, <2>4, <2>5, <2>6 DEF IInv
<1> QED BY <1>6, <1>7 DEF taskqueue_terminate

(* taskqueue_create() finds everything at rest. *)
LEMMA taskqueue_createStep ==
  ASSUME IInv, NEW c \in Clients, NEW S \in SUBSET Workers, taskqueue_create(c, S)
  PROVE  IInv'
<1>0. /\ ~ tq_exists /\ tq_exists' = TRUE /\ tq_flags' = {"ACTIVE"}
      /\ tq_queue' = <<>> /\ tq_active' = <<>> /\ tq_callouts' = 0
      /\ ta_pending' = [t \in Queueable |-> 0]
      /\ tq_tcount' = Cardinality(S)
      /\ wpc' = [w \in Workers |-> IF w \in S THEN "awake" ELSE "none"]
      /\ UNCHANGED <<tb_running, f, callout, pc, task, asleep, unlocked, owed, missed>>
  BY DEF taskqueue_create, _taskqueue_start_threads, timeouts, client
<1>1. /\ \A w \in Workers : wpc[w] = "none" /\ tb_running[w] = NoTask
      /\ \A d \in Clients : pc[d] = "idle" /\ d \notin asleep /\ d \notin missed /\ owed[d] = {}
      /\ f = {} /\ unlocked = {}
  <2>1. /\ \A w \in Workers : wpc[w] = "none"
        /\ \A d \in Clients : pc[d] = "idle"
        /\ unlocked \subseteq Workers /\ f = {}
    BY <1>0 DEF IInv, FreeInv
  <2>2. unlocked = {}
    BY <2>1 DEF IInv, UnlockedInv
  <2>3. \A w \in Workers : tb_running[w] = NoTask
    BY <2>1 DEF IInv, ListInv
  <2>4. \A d \in Clients : d \notin asleep /\ d \notin missed /\ owed[d] = {}
    BY <2>1 DEF IInv, ClientInv, OwedInv
  <2> QED BY <2>1, <2>2, <2>3, <2>4
<1>2. /\ wpc' \in [Workers -> {"none", "awake", "run", "asleep", "shutdown"}]
      /\ \A w \in Workers : wpc'[w] = IF w \in S THEN "awake" ELSE "none"
  BY <1>0
<1>3. tq_tcount' \in 0..Cardinality(Workers)
  <2>1. IsFiniteSet(S) /\ Cardinality(S) <= Cardinality(Workers)
    BY FS_Subset, TaskQueueAssumption
  <2>2. Cardinality(S) \in Nat /\ Cardinality(Workers) \in Nat
    BY <2>1, FS_CardinalityType, TaskQueueAssumption
  <2> QED BY <1>0, <2>1, <2>2
<1>4. /\ tq_queue' \in Seq(Queueable) /\ IsInjective(tq_queue') /\ ToSet(tq_queue') = {}
      /\ tq_active' \in Seq(Workers \cup Clients) /\ IsInjective(tq_active')
      /\ ToSet(tq_active') = {}
  BY <1>0 DEF IsInjective, ToSet
<1>5. CountInv' /\ tq_callouts' \in 0..(Cardinality(TimeoutTasks) + Cardinality(Clients))
  <2>1. {w \in Workers : wpc'[w] # "none"} = S
    BY <1>2
  <2>2. f' = {} /\ ToSet(tq_active') \ Workers = {}
    BY <1>0, <1>1, <1>4
  <2>3. Cardinality({}) = 0
    BY FS_EmptySet
  <2>4. tq_tcount' = Cardinality({w \in Workers : wpc'[w] # "none"})
    BY <1>0, <2>1, Zenon
  <2>5. Cardinality(f') = 0 /\ Cardinality(ToSet(tq_active') \ Workers) = 0
    BY <2>2, <2>3, Zenon
  <2>6. tq_callouts' = Cardinality(f') + Cardinality(ToSet(tq_active') \ Workers)
    BY <1>0, <2>5
  <2>7. CountInv'
    BY <2>4, <2>6 DEF CountInv
  <2>8. f' \subseteq TimeoutTasks
    BY <2>2
  <2> QED BY <1>4, <2>6, <2>7, <2>8, CountBound
<1>6. ta_pending' \in [Queueable -> 0..USHRT_MAX] /\ \A t \in Queueable : ta_pending'[t] = 0
  BY <1>0, TaskQueueAssumption
<1>7. TypeOK'
  BY <1>0, <1>2, <1>3, <1>4, <1>5, <1>6 DEF IInv, TypeOK
<1>8. ListInv'
  BY <1>0, <1>1, <1>2, <1>4, <1>6 DEF IInv, ListInv
<1>9. TimeoutInv'
  BY <1>0 DEF IInv, TimeoutInv, WillFire
<1>10. BarrierInv'
  BY <1>0, <1>1, <1>4, TaskQueueAssumption DEF BarrierInv, Runs
<1>11. ClientInv'
  BY <1>0, <1>1 DEF ClientInv
<1>12. UnlockedInv'
  BY <1>0, <1>1 DEF UnlockedInv
<1>13. FreeInv'
  BY <1>0, <1>1, <1>2 DEF FreeInv, ACTIVE
<1>14. WorkInv'
  BY <1>0 DEF WorkInv
<1>15. OwedInv'
  BY <1>0, <1>1 DEF OwedInv
<1> QED BY <1>5, <1>7, <1>8, <1>9, <1>10, <1>11, <1>12, <1>13, <1>14, <1>15 DEF IInv


-----------------------------------------------------------------------------

(* No queue yet. *)
LEMMA InitOK ==
  ASSUME Init
  PROVE  IInv
<1>1. TypeOK
  <2>1. Cardinality(Workers) \in Nat
    BY FS_CardinalityType, TaskQueueAssumption
  <2>2. /\ Cardinality(TimeoutTasks) \in Nat /\ Cardinality(Clients) \in Nat
    BY FS_Subset, FS_CardinalityType, TaskQueueAssumption
  <2>3. /\ tq_tcount \in 0..Cardinality(Workers)
        /\ tq_callouts \in 0..(Cardinality(TimeoutTasks) + Cardinality(Clients))
    BY <2>1, <2>2 DEF Init
  <2>4. ta_pending \in [Queueable -> 0..USHRT_MAX]
    BY TaskQueueAssumption DEF Init
  <2>5. callout \in [TimeoutTasks -> Callout]
    BY DEF Init, Callout, IdleCallout
  <2>6. /\ tq_queue \in Seq(Queueable) /\ tq_active \in Seq(Workers \cup Clients)
        /\ tb_running \in [Workers -> Queueable \cup {NoTask}]
        /\ wpc \in [Workers -> {"none", "awake", "run", "asleep", "shutdown"}]
    BY DEF Init
  <2>7. /\ pc \in [Clients -> {"idle", "drain", "barrier", "marker", "callout", "free"}]
        /\ task \in [Clients -> Tasks \cup {NoTask}]
        /\ owed \in [Clients -> SUBSET (Queueable \cup Workers)]
    BY DEF Init
  <2>8. /\ tq_exists \in BOOLEAN /\ tq_flags \subseteq {"ACTIVE", "BLOCKED"}
        /\ f \subseteq TimeoutTasks /\ asleep \subseteq Clients
        /\ unlocked \subseteq Clients \cup Workers \cup TimeoutTasks
        /\ missed \subseteq Clients \cup TimeoutTasks
    BY DEF Init
  <2> QED BY <2>3, <2>4, <2>5, <2>6, <2>7, <2>8 DEF TypeOK
<1>2. ToSet(tq_queue) = {} /\ ToSet(tq_active) = {}
  BY DEF Init, ToSet
<1>3. ListInv
  BY <1>2 DEF Init, ListInv, IsInjective
<1>4. CountInv
  <2>1. {w \in Workers : wpc[w] # "none"} = {} /\ ToSet(tq_active) \ Workers = {} /\ f = {}
    BY <1>2 DEF Init
  <2>2. Cardinality({}) = 0
    BY FS_EmptySet
  <2>3. /\ Cardinality({w \in Workers : wpc[w] # "none"}) = 0 /\ Cardinality(f) = 0
        /\ Cardinality(ToSet(tq_active) \ Workers) = 0
    BY <2>1, <2>2, Zenon
  <2> QED BY <2>3 DEF Init, CountInv
<1>5. TimeoutInv
  BY DEF Init, TimeoutInv, WillFire, IdleCallout
<1>6. BarrierInv
  BY <1>2, TaskQueueAssumption DEF Init, BarrierInv, Runs
<1>7. ClientInv
  BY DEF Init, ClientInv
<1>8. UnlockedInv
  BY DEF Init, UnlockedInv
<1>9. FreeInv
  BY DEF Init, FreeInv, ACTIVE, IdleCallout
<1>10. WorkInv
  BY DEF Init, WorkInv
<1>11. OwedInv
  BY DEF Init, OwedInv
<1> QED BY <1>1, <1>3, <1>4, <1>5, <1>6, <1>7, <1>8, <1>9, <1>10, <1>11 DEF IInv

(* A step that changes nothing. *)
LEMMA StutterOK ==
  ASSUME IInv, UNCHANGED vars
  PROVE  IInv'
<1>0. UNCHANGED <<tq_exists, tq_flags, tq_queue, tq_active, ta_pending, tb_running,
                  tq_tcount, tq_callouts, f, callout, wpc, pc, task, asleep, unlocked,
                  owed, missed>>
  BY DEF vars, flags, lists, counts, timeouts, client
<1>1. TypeOK' /\ ListInv' /\ CountInv'
  BY <1>0 DEF IInv, TypeOK, ListInv, CountInv
<1>2. TimeoutInv' /\ BarrierInv'
  BY <1>0 DEF IInv, TimeoutInv, WillFire, BarrierInv, Runs
<1>3. ClientInv' /\ UnlockedInv' /\ FreeInv' /\ WorkInv'
  BY <1>0 DEF IInv, ClientInv, Outstanding, Runs, MustWait, UnlockedInv, FreeInv, ACTIVE,
              WorkInv, BLOCKED
<1>4. OwedInv'
  BY <1>0 DEF IInv, OwedInv, Invocations, Before
<1> QED BY <1>1, <1>2, <1>3, <1>4 DEF IInv

(* One case for each action. *)
LEMMA StepOK ==
  ASSUME IInv, [Next]_vars
  PROVE  IInv'
<1>1. CASE UNCHANGED vars
  BY <1>1, StutterOK
<1>2. ASSUME NEW w \in Workers, Worker(w) \/ \E t \in Tasks : TaskEnqueues(w, t)
      PROVE  IInv'
  BY <1>2, taskqueue_thread_loopStep, taskqueue_run_lockedStep, WorkerExitsStep,
     tq_enqueueStep, taskqueue_enqueueStep DEF Worker
<1>3. ASSUME NEW t \in TimeoutTasks, Softclock(t)
      PROVE  IInv'
  BY <1>3, CalloutDueStep, taskqueue_timeout_funcStep, tq_enqueueStep, CalloutDoneStep
     DEF Softclock
<1>4. ASSUME NEW c \in Clients, ClientGoesOn(c)
      PROVE  IInv'
  BY <1>4, DrainLoopStep, callout_drainStep, BarrierPassedStep, MarkerIsFirstStep,
     taskqueue_terminateStep, tq_enqueueStep DEF ClientGoesOn
<1>5. ASSUME NEW c \in Clients, ClientCalls(c)
      PROVE  IInv'
  <2>1. CASE \E S \in SUBSET Workers : taskqueue_create(c, S)
    BY <2>1, taskqueue_createStep
  <2>2. CASE \E t \in Tasks : \/ taskqueue_enqueue(c, t) \/ taskqueue_cancel(c, t)
                              \/ taskqueue_drain(c, t)
    BY <2>2, taskqueue_enqueueStep, taskqueue_cancelStep, taskqueue_drainStep
  <2>3. CASE \E t \in TimeoutTasks :
               \/ \E ticks \in {"zero", "positive", "negative"} :
                    taskqueue_enqueue_timeout(c, t, ticks)
               \/ taskqueue_cancel_timeout(c, t)
               \/ taskqueue_drain_timeout(c, t)
    <3>1. TimeoutTasks \subseteq Tasks
      BY TaskQueueAssumption
    <3> QED BY <2>3, <3>1, taskqueue_enqueue_timeoutStep, taskqueue_cancel_timeoutStep,
               taskqueue_drainStep
  <2>4. CASE taskqueue_drain_all(c) \/ taskqueue_block(c) \/ taskqueue_unblock(c)
             \/ taskqueue_free(c)
    BY <2>4, taskqueue_drain_allStep, taskqueue_blockStep, taskqueue_freeStep
  <2> QED BY <1>5, <2>1, <2>2, <2>3, <2>4 DEF ClientCalls
<1> QED BY <1>1, <1>2, <1>3, <1>4, <1>5 DEF Next

(* The inductive invariant: lists, counts, clients, workers and callouts   *)
(* of a task queue fit together in every reachable state.                  *)
THEOREM Invariance == Spec => []IInv
<1>1. Init => IInv
  BY InitOK
<1>2. IInv /\ [Next]_vars => IInv'
  BY StepOK
<1> QED BY <1>1, <1>2, PTL DEF Spec

(* ListsAgree: a task is on tq_queue once and as long as ta_pending says,  *)
(* a worker on tq_active while it runs a task, barriers and markers only   *)
(* while the client whose stack they are on sleeps for them, and           *)
(* tq_callouts counts markers and armed timeouts.                          *)
THEOREM ListsAlwaysAgree == Spec => []ListsAgree
<1>1. ASSUME IInv PROVE ListsAgree
  <2>1. TimeoutsCounted
    BY <1>1 DEF IInv, CountInv, TimeoutInv, TimeoutsCounted
  <2>2. \A c \in Clients : task_is_running(c) <=> Runs(c)
    BY <1>1, BusyIsOutstanding DEF Queueable
  <2>3. \A c \in Clients :
          /\ c \in ToSet(tq_queue) \/ task_is_running(c) <=>
               pc[c] = "barrier" /\ c \in asleep
          /\ c \in ToSet(tq_active) <=> pc[c] = "marker"
          /\ pc[c] = "marker" /\ c \notin asleep => Head(tq_active) = c
    BY <1>1, <2>2 DEF IInv, BarrierInv
  <2> QED BY <1>1, <2>1, <2>3 DEF IInv, ListInv, ListsAgree
<1> QED BY <1>1, Invariance, PTL

(* NobodyStranded: a task queued on a queue that is not blocked has a      *)
(* worker that will take it or a wakeup under way, and no client sleeps on *)
(* for what has happened, unless its task was cancelled.                   *)
THEOREM NobodyIsStranded == Spec => []NobodyStranded
<1>1. ASSUME IInv PROVE NobodyStranded
  <2>1. ASSUME NEW c \in asleep \ missed
        PROVE  \/ pc[c] = "drain" /\ Busy(task[c])
               \/ pc[c] = "barrier" /\ Busy(c)
               \/ pc[c] = "marker" /\ Head(tq_active) # c
               \/ pc[c] = "callout" /\ callout[task[c]].exec # "idle"
               \/ pc[c] = "free" /\ MustWait
    <3>1. c \in Clients /\ pc[c] \in {"idle", "drain", "barrier", "marker", "callout", "free"}
      BY <1>1 DEF IInv, TypeOK
    <3>2. pc[c] # "idle"
      BY <1>1, <3>1 DEF IInv, ClientInv
    <3>3. pc[c] = "drain" => Busy(task[c])
      BY <1>1, <3>1, BusyIsOutstanding DEF IInv, ClientInv, Queueable
    <3>4. pc[c] = "barrier" => Busy(c)
      <4>1. pc[c] = "barrier" => Outstanding(c)
        BY <1>1, <3>1 DEF IInv, BarrierInv, ListInv, Outstanding, Queueable
      <4> QED BY <1>1, <3>1, <4>1, BusyIsOutstanding DEF Queueable
    <3>5. pc[c] = "marker" => Head(tq_active) # c
      BY <1>1, <3>1 DEF IInv, BarrierInv
    <3>6. /\ pc[c] = "callout" => callout[task[c]].exec # "idle"
          /\ pc[c] = "free" => MustWait
      BY <1>1, <3>1 DEF IInv, ClientInv
    <3> QED BY <3>1, <3>2, <3>3, <3>4, <3>5, <3>6
  <2> QED BY <1>1, <2>1 DEF IInv, WorkInv, NobodyStranded
<1> QED BY <1>1, Invariance, PTL

(* FreedIsUnused: when taskqueue_free() releases the memory no worker, no  *)
(* client, no wakeup under way, no barrier and no marker uses it.          *)
THEOREM FreedQueueIsUnused == Spec => []FreedIsUnused
<1>1. ASSUME IInv, ~ tq_exists
      PROVE  /\ \A w \in Workers : wpc[w] = "none"
             /\ \A c \in Clients : pc[c] = "idle"
             /\ unlocked = {} /\ tq_active = <<>>
  <2>1. /\ \A w \in Workers : wpc[w] = "none"
        /\ \A c \in Clients : pc[c] = "idle"
        /\ unlocked \subseteq Workers
    BY <1>1 DEF IInv, FreeInv
  <2>2. unlocked = {}
    BY <1>1, <2>1 DEF IInv, UnlockedInv
  <2>3. \A x \in Workers \cup Clients : x \notin ToSet(tq_active)
    BY <1>1, <2>1 DEF IInv, ListInv, BarrierInv
  <2>4. tq_active \in Seq(Workers \cup Clients) /\ IsInjective(tq_active)
    BY <1>1 DEF IInv, TypeOK, ListInv
  <2>5. tq_active = <<>>
    <3>1. ToSet(tq_active) \subseteq Workers \cup Clients
      BY <2>4 DEF ToSet
    <3>2. tq_active # <<>> => Head(tq_active) \in ToSet(tq_active)
      BY <2>4, TailSeq
    <3> QED BY <2>3, <3>1, <3>2
  <2> QED BY <2>1, <2>2, <2>5
<1>2. IInv => FreedIsUnused
  BY <1>1 DEF FreedIsUnused
<1> QED BY <1>2, Invariance, PTL

(* A client returns from a call only where the code says so. *)
LEMMA WhoReturns ==
  ASSUME IInv, [Next]_vars, NEW c \in Clients, pc[c] # "idle", pc'[c] = "idle"
  PROVE  \/ DrainLoop(c) /\ ~ Busy(task[c])
         \/ BarrierPassed(c) /\ tq_active = <<>>
         \/ MarkerIsFirst(c)
         \/ taskqueue_terminate(c)
<1>0. pc \in [Clients -> {"idle", "drain", "barrier", "marker", "callout", "free"}]
  BY DEF IInv, TypeOK
<1>1. CASE UNCHANGED vars
  BY <1>1 DEF vars, client
<1>2. ASSUME NEW w \in Workers, Worker(w) \/ \E t \in Tasks : TaskEnqueues(w, t)
      PROVE  UNCHANGED pc
  BY <1>2 DEF Worker, taskqueue_thread_loop, taskqueue_run_locked, WorkerExits, tq_enqueue,
              TaskEnqueues, client
<1>3. ASSUME NEW t \in TimeoutTasks, Softclock(t)
      PROVE  UNCHANGED pc
  BY <1>3 DEF Softclock, CalloutDue, taskqueue_timeout_func, tq_enqueue, CalloutDone, client
<1>4. ASSUME NEW d \in Clients, ClientCalls(d)
      PROVE  UNCHANGED pc \/ \E p : p # "idle" /\ pc' = [pc EXCEPT ![d] = p]
  BY <1>4 DEF ClientCalls, taskqueue_create, taskqueue_enqueue, taskqueue_cancel,
              taskqueue_drain, taskqueue_enqueue_timeout, taskqueue_cancel_timeout,
              taskqueue_drain_timeout, taskqueue_drain_all, DrainQueue, DrainActive,
              taskqueue_block, taskqueue_unblock, taskqueue_free, client
<1>5. ASSUME NEW d \in Clients, ClientGoesOn(d)
      PROVE  \/ UNCHANGED pc \/ \E p : p # "idle" /\ pc' = [pc EXCEPT ![d] = p]
             \/ /\ pc' = [pc EXCEPT ![d] = "idle"]
                /\ \/ DrainLoop(d) /\ ~ Busy(task[d])
                   \/ BarrierPassed(d) /\ tq_active = <<>>
                   \/ MarkerIsFirst(d)
                   \/ taskqueue_terminate(d)
  <2>1. CASE DrainLoop(d)
    BY <2>1 DEF DrainLoop, Returns, client
  <2>2. CASE callout_drain(d)
    BY <2>2 DEF callout_drain
  <2>3. CASE BarrierPassed(d)
    BY <2>3 DEF BarrierPassed, DrainActive, Returns
  <2>4. CASE MarkerIsFirst(d)
    BY <2>4 DEF MarkerIsFirst, Returns
  <2>5. CASE taskqueue_terminate(d)
    BY <2>5 DEF taskqueue_terminate
  <2>6. CASE tq_enqueue(d)
    BY <2>6 DEF tq_enqueue, client
  <2> QED BY <1>5, <2>1, <2>2, <2>3, <2>4, <2>5, <2>6 DEF ClientGoesOn
<1>6. ASSUME NEW d \in Clients, UNCHANGED pc \/ \E p : p # "idle" /\ pc' = [pc EXCEPT ![d] = p]
      PROVE  FALSE
  BY <1>0, <1>6
<1>7. ASSUME NEW d \in Clients, pc' = [pc EXCEPT ![d] = "idle"]
      PROVE  d = c
  BY <1>0, <1>7
<1> QED BY <1>1, <1>2, <1>3, <1>4, <1>5, <1>6, <1>7 DEF Next

(* DrainsWait: what was queued or running when a client began to drain a   *)
(* task, a timeout task or the queue has returned or was cancelled when    *)
(* the client's call returns.                                              *)
THEOREM DrainsAlwaysWait == Spec => DrainsWait
<1>1. ASSUME IInv, [Next]_vars, NEW c \in Clients, pc[c] # "idle", pc'[c] = "idle"
      PROVE  owed[c] = {}
  <2>1. CASE DrainLoop(c) /\ ~ Busy(task[c])
    <3>1. pc[c] = "drain" /\ task[c] \in Queueable
      BY <1>1, <2>1 DEF DrainLoop, IInv, ClientInv, Queueable
    <3>2. Invocations(task[c]) = {}
      BY <1>1, <2>1, <3>1, BusyIsOutstanding
    <3> QED BY <1>1, <3>1, <3>2 DEF IInv, OwedInv
  <2>2. CASE BarrierPassed(c) /\ tq_active = <<>>
    <3>1. pc[c] = "barrier" /\ c \notin asleep
      BY <2>2 DEF BarrierPassed
    <3>2. c \notin ToSet(tq_queue)
      BY <1>1, <3>1 DEF IInv, BarrierInv
    <3>3. \A u : ~ Before(tq_queue, u, c)
      BY <3>2 DEF Before, ToSet
    <3>4. \A w \in Workers : wpc[w] # "run"
      BY <1>1, <2>2 DEF IInv, ListInv, ToSet
    <3> QED BY <1>1, <3>1, <3>3, <3>4 DEF IInv, OwedInv
  <2>3. CASE MarkerIsFirst(c)
    <3>1. pc[c] = "marker" /\ Head(tq_active) = c
      BY <2>3 DEF MarkerIsFirst
    <3>2. /\ tq_active # <<>> /\ tq_active \in Seq(Workers \cup Clients)
          /\ IsInjective(tq_active)
      BY <1>1, <3>1 DEF IInv, BarrierInv, TypeOK, ListInv
    <3>3. \A u : ~ Before(tq_active, u, c)
      BY <3>1, <3>2, TailSeq
    <3> QED BY <1>1, <3>1, <3>3 DEF IInv, OwedInv
  <2>4. CASE taskqueue_terminate(c)
    BY <1>1, <2>4 DEF taskqueue_terminate, IInv, OwedInv
  <2> QED BY <1>1, <2>1, <2>2, <2>3, <2>4, WhoReturns
<1>2. IInv /\ [Next]_vars =>
        [\A c \in Clients : pc[c] # "idle" /\ pc'[c] = "idle" => owed[c] = {}]_vars
  BY <1>1
<1> QED BY <1>2, Invariance, PTL DEF Spec, DrainsWait


=============================================================================
