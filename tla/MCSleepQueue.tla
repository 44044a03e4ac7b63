---------------------------- MODULE MCSleepQueue ----------------------------
(* SleepQueue for model checking. *)
EXTENDS SleepQueue, TLC

CONSTANTS t1, t2, cv, ident

(* With no thread set apart by ThrWakers. *)
Symmetry == Permutations(Threads)

(* rval and woken are history: no step depends on them. *)
NoHistory == <<sc_lock, queues, cv_waiters, td_sleeping, td_flags,
               td_slpcallout, signals, sleep, rcatch, pc>>
=============================================================================
