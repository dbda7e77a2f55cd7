----------------------------- MODULE MCLcdSystem -----------------------------
(* Values of the constants of LcdSystem for TLC.                           *)
EXTENDS LcdSystem

MCByte    == {0, 1}
MCAddress == {0, RegWriteDataAddr, RegWriteCmdAddr}

Write(a, low, high, lanes, begin, count) ==
  [write |-> TRUE, addr |-> a,
   data |-> [l \in Lane |-> IF l = "low" THEN low ELSE high],
   lanes |-> lanes, begin |-> begin, count |-> count]

(* Commands and data on both lanes, data on one lane, and a write to the   *)
(* register the driver does not send.                                      *)
MCInputs == {NoWrite,
             Write(RegWriteCmdAddr, 1, 0, Lane, FALSE, 0),
             Write(RegWriteDataAddr, 1, 1, Lane, FALSE, 0),
             Write(RegWriteDataAddr, 1, 1, {"low"}, FALSE, 0),
             Write(0, 1, 1, Lane, FALSE, 0)}

=============================================================================
