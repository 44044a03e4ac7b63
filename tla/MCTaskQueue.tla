----------------------------- MODULE MCTaskQueue -----------------------------
(* TaskQueue for model checking; all tasks have the lowest priority. *)
EXTENDS TaskQueue

CONSTANTS w1, w2, c1, c2, tt

Priorities == [t \in Tasks |-> 0]

=============================================================================
