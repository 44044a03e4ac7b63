------------------------------ MODULE MCRwLock ------------------------------
(* RwLock for model checking: threads are interchangeable, apart from those
   that hold another rwlock for reading. *)
EXTENDS RwLock, TLC

CONSTANTS t1, t2, t3

Symmetry == Permutations(Threads \ ReadElsewhere)
=============================================================================
