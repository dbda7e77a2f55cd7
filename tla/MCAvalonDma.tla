----------------------------- MODULE MCAvalonDma -----------------------------
(* Sends shorter and longer than the receives for TLC.                     *)
EXTENDS AvalonDma

MCLengths == [send |-> {1, 3}, prepare |-> {2}]

=============================================================================
