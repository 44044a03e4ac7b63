------------------------------- MODULE MCSema -------------------------------
(* Sema for model checking. *)
EXTENDS Sema

CONSTANTS t1, t2, t3, t4

=============================================================================
