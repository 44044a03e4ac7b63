---------------------------- MODULE AbstractLock ----------------------------
(***************************************************************************)
(* What the kernel's mutexes and reader/writer locks promise their callers, *)
(* whatever the lock word, the turnstile and the spinning do underneath:    *)
(* a write (exclusive) hold may be recursed by its holder and excludes      *)
(* every other hold; read (shared) holds exclude only write holds.          *)
(*                                                                          *)
(* The holds are counted per thread, from the caller's side of the API, so  *)
(* an implementation that lets one thread release what another acquired, or *)
(* that loses a recursion level, is not a refinement.                       *)
(***************************************************************************)
EXTENDS Naturals

CONSTANT Threads   \* the threads that use the lock

VARIABLES
  wheld,           \* write holds of each thread (recursion included)
  rheld            \* read holds of each thread

vars == <<wheld, rheld>>

TypeOK ==
  /\ wheld \in [Threads -> Nat]
  /\ rheld \in [Threads -> Nat]

Init ==
  /\ wheld = [t \in Threads |-> 0]
  /\ rheld = [t \in Threads |-> 0]

(* Acquire the lock exclusively, or recurse on it. *)
WriteAcquire(t) ==
  /\ \A u \in Threads : rheld[u] = 0 /\ (u # t => wheld[u] = 0)
  /\ wheld' = [wheld EXCEPT ![t] = @ + 1]
  /\ UNCHANGED rheld

(* Drop one level of an exclusive hold. *)
WriteRelease(t) ==
  /\ wheld[t] > 0
  /\ wheld' = [wheld EXCEPT ![t] = @ - 1]
  /\ UNCHANGED rheld

ReadAcquire(t) ==
  /\ \A u \in Threads : wheld[u] = 0
  /\ rheld' = [rheld EXCEPT ![t] = @ + 1]
  /\ UNCHANGED wheld

ReadRelease(t) ==
  /\ rheld[t] > 0
  /\ rheld' = [rheld EXCEPT ![t] = @ - 1]
  /\ UNCHANGED wheld

(* The only read hold becomes a write hold, with no window in between. *)
Upgrade(t) ==
  /\ rheld = [u \in Threads |-> IF u = t THEN 1 ELSE 0]
  /\ rheld' = [rheld EXCEPT ![t] = 0]
  /\ wheld' = [wheld EXCEPT ![t] = 1]

(* An unrecursed write hold becomes a read hold, with no window between. *)
Downgrade(t) ==
  /\ wheld[t] = 1
  /\ wheld' = [wheld EXCEPT ![t] = 0]
  /\ rheld' = [rheld EXCEPT ![t] = 1]

Next ==
  \E t \in Threads :
    \/ WriteAcquire(t)
    \/ WriteRelease(t)
    \/ ReadAcquire(t)
    \/ ReadRelease(t)
    \/ Upgrade(t)
    \/ Downgrade(t)

Spec == Init /\ [][Next]_vars

(* A write hold of one thread excludes every hold of every other thread,   *)
(* and no thread holds the lock both ways.                                 *)
Exclusion ==
  \A t, u \in Threads :
    wheld[t] > 0 => rheld[u] = 0 /\ (u # t => wheld[u] = 0)

=============================================================================
