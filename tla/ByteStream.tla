----------------------------- MODULE ByteStream -----------------------------
(***************************************************************************)
(* What a pipe promises: the bytes come out in the order in which they      *)
(* went in, none twice and none lost, and a write of at most PIPE_BUF bytes *)
(* goes in as a whole.                                                      *)
(***************************************************************************)
EXTENDS Naturals, Sequences

CONSTANTS Writers, PIPE_BUF

VARIABLES
  queue,      \* the bytes in the pipe
  todo,       \* what each writer has still to write
  orig,       \* how much it was when its call began
  readable,   \* the reading end is open
  writable    \* nobody has seen the end of the file

vars == <<queue, todo, orig, readable, writable>>

Init ==
  /\ queue = <<>>
  /\ todo = [w \in Writers |-> <<>>]
  /\ orig = [w \in Writers |-> 0]
  /\ readable = TRUE
  /\ writable = TRUE

Drop(s, n) == SubSeq(s, n + 1, Len(s))

(* A write begins, with any bytes at all. *)
Begin(w) ==
  /\ orig[w] = 0
  /\ todo' = [todo EXCEPT ![w] = todo'[w]]
  /\ orig' = [orig EXCEPT ![w] = Len(todo'[w])]
  /\ UNCHANGED <<queue, readable, writable>>

(* It ends; what is left of it is forgotten. *)
End(w) ==
  /\ todo' = [todo EXCEPT ![w] = <<>>]
  /\ orig' = [orig EXCEPT ![w] = 0]
  /\ UNCHANGED <<queue, readable, writable>>

(* Bytes go in; the call may end with it, all written or not. *)
Write(w) ==
  \E n \in 1..Len(todo[w]) :
    /\ writable
    /\ orig[w] <= PIPE_BUF => n = Len(todo[w])
    /\ queue' = queue \o SubSeq(todo[w], 1, n)
    /\ \/ todo' = [todo EXCEPT ![w] = Drop(@, n)] /\ UNCHANGED orig
       \/ todo' = [todo EXCEPT ![w] = <<>>] /\ orig' = [orig EXCEPT ![w] = 0]
    /\ UNCHANGED <<readable, writable>>

Read ==
  \E n \in 1..Len(queue) :
    /\ readable
    /\ queue' = Drop(queue, n)
    /\ UNCHANGED <<todo, orig, readable, writable>>

(* An end is closed.  The file ends at once for readers, and for writers   *)
(* when the closing reader has the pipe to itself; only then are bytes     *)
(* dropped.                                                                *)
Close ==
  /\ readable' \in BOOLEAN /\ writable' \in BOOLEAN
  /\ readable' => readable
  /\ writable' => writable
  /\ queue' = IF readable' \/ writable' THEN queue ELSE <<>>
  /\ UNCHANGED <<todo, orig>>

Next ==
  \/ \E w \in Writers : Begin(w) \/ Write(w) \/ End(w)
  \/ Read \/ Close

Spec == Init /\ [][Next]_vars
=============================================================================
