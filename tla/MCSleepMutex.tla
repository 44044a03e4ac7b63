---------------------------- MODULE MCSleepMutex ----------------------------
(* SleepMutex for model checking: the threads as model values.  No symmetry,
   because the run checks liveness. *)
EXTENDS SleepMutex

CONSTANTS t1, t2, t3
=============================================================================
