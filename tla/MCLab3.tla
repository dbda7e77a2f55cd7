------------------------------- MODULE MCLab3 --------------------------------
(* Messages of one and two characters, a ring of three slots, for TLC.     *)
EXTENDS Lab3

MCTimeouts == {2}

=============================================================================
