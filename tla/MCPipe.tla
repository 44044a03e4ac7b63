------------------------------- MODULE MCPipe -------------------------------
(* Pipe for model checking. *)
EXTENDS Pipe

CONSTANTS r1, w1, w2

Sizes == [w \in Writers |-> IF w = w1 THEN {3} ELSE {2, 3}]

=============================================================================
