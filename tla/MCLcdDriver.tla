----------------------------- MODULE MCLcdDriver -----------------------------
(* Values of the constants of LcdDriver for TLC.                           *)
EXTENDS LcdDriver

MCByte    == {0, 1}
MCAddress == {0, RegWriteDataAddr, RegWriteCmdAddr}

Write(a, low, high, lanes, begin, count) ==
  [write |-> TRUE, addr |-> a,
   data |-> [l \in Lane |-> IF l = "low" THEN low ELSE high],
   lanes |-> lanes, begin |-> begin, count |-> count]

(* A command, two data words on different lanes, and a burst of two words. *)
MCInputs == {NoWrite,
             Write(RegWriteCmdAddr, 1, 0, Lane, FALSE, 0),
             Write(RegWriteDataAddr, 1, 1, {"high"}, FALSE, 0),
             Write(RegWriteDataAddr, 0, 1, Lane, TRUE, 2)}

(* A burst of two words, for the liveness of a burst.                      *)
MCFewInputs == {NoWrite, Write(RegWriteDataAddr, 1, 1, Lane, TRUE, 2)}

=============================================================================
