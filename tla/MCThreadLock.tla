---------------------------- MODULE MCThreadLock ----------------------------
(* ThreadLock for model checking: interchangeable CPUs and containers. *)
EXTENDS ThreadLock, TLC

Symmetry == Permutations(Cpus) \cup Permutations(Locks)
=============================================================================
