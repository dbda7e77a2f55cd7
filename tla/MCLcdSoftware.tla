---------------------------- MODULE MCLcdSoftware ----------------------------
(* A command with a parameter, and pictures of a command and two pixels.   *)
EXTENDS LcdSoftware

MCByte    == {0, 1}
MCAddress == {0, RegWriteDataAddr, RegWriteCmdAddr}

Words(low, high) == [l \in Lane |-> IF l = "low" THEN low ELSE high]

MCSetup   == <<[command |-> TRUE, word |-> Words(1, 0)],
               [command |-> FALSE, word |-> Words(1, 1)]>>
MCPicture == <<[command |-> TRUE, word |-> Words(0, 1)],
               [command |-> FALSE, word |-> Words(1, 0)],
               [command |-> FALSE, word |-> Words(0, 0)]>>

MCInputs == {NoWrite} \cup {Request(Program[k]) : k \in 1..Len(Program)}

=============================================================================
