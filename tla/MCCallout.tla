------------------------------ MODULE MCCallout ------------------------------
(* Callout for model checking. *)
EXTENDS Callout, TLC

CONSTANTS t1, t2, c1, c2, x1, x2

Symmetry == Permutations(Cpus) \cup Permutations(Threads)

=============================================================================
