----------------------------- MODULE MCJtagUart ------------------------------
(* A ring of three slots and FIFOs of one character for TLC; the timeout   *)
(* that ioctl leaves is out of range, and so never passes.                 *)
EXTENDS JtagUart

MCTimeouts == {HostCap + 1}

=============================================================================
