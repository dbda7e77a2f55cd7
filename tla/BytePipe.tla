------------------------------ MODULE BytePipe -------------------------------
(***************************************************************************)
(* What a buffered character device promises in one direction: bytes come  *)
(* out in the order they went in, each exactly once, and no more than      *)
(* Capacity of them are inside.  A byte is the position it was accepted    *)
(* at, so a pipe that works delivers 1, 2, 3, ...                          *)
(***************************************************************************)
EXTENDS Naturals, Sequences

CONSTANT Capacity

VARIABLES accepted,   \* how many bytes went in
          delivered   \* the bytes that came out, in order

pipeVars == <<accepted, delivered>>

PipeInit == accepted = 0 /\ delivered = <<>>

Inside == accepted - Len(delivered)

Accept(n) ==
  /\ Inside + n <= Capacity
  /\ accepted' = accepted + n
  /\ UNCHANGED delivered

Deliver(n) ==
  /\ n <= Inside
  /\ delivered' = delivered \o [i \in 1..n |-> Len(delivered) + i]
  /\ UNCHANGED accepted

PipeNext == \E n \in 1..Capacity : Accept(n) \/ Deliver(n)

PipeSpec == PipeInit /\ [][PipeNext]_pipeVars

=============================================================================
