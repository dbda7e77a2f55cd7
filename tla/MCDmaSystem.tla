---------------------------- MODULE MCDmaSystem -----------------------------
(* Values of the constants of DmaSystem for TLC.                           *)
EXTENDS DmaSystem

MCValue   == {0, 1, 8}
MCAddress == {0, RegCtrlAddr, RegSrcLSWAddr, RegDestMSWAddr}

Read(addr, data) == [read |-> TRUE, write |-> FALSE, addr |-> addr, data |-> data]

(* GO, no GO, another source and another destination than after a reset.   *)
MCCpuInputs == {NoAccess, Read(RegCtrlAddr, 8), Read(RegCtrlAddr, 0),
                Read(RegSrcLSWAddr, 1), Read(RegDestMSWAddr, 1)}

(* The least for an answer of another source: GO and that source.          *)
MCFewCpuInputs == {NoAccess, Read(RegCtrlAddr, 8), Read(RegSrcLSWAddr, 1)}

(* The low half of the address tells the words apart.                      *)
MCMemory  == [address \in MCValue \X MCValue |-> address[2]]
MCAnswers == [wait : BOOLEAN, valid : {TRUE}, data : {0, 1}]
               \cup [wait : BOOLEAN, valid : {FALSE}, data : {0}]

=============================================================================
