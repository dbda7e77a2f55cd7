----------------------------- MODULE DmaMaster ------------------------------
(***************************************************************************)
(* The DMA master (dma.vhdl), cycle by cycle: a slave port on which the    *)
(* CPU configures it and a master port on which it copies one word from    *)
(* the source to the destination address, again and again while GO is set. *)
(*                                                                         *)
(* As in LcdDriver one step is one period of Clk_CI.  The outputs of the   *)
(* master port follow from state and registers, so they are operators.     *)
(* The burst registers, the idle counter and the write edge detector       *)
(* decide nothing, RegError is never loaded with anything but zero, and    *)
(* StateResetIntRegData and StateNextBurstItem have no predecessor: they   *)
(* are left out (TypeOK says that they are never entered).  WaitReq_SO is  *)
(* low in every state that can be reached, so the CPU is never held, and   *)
(* ReadDataValid_SO is never driven.  There is no register for the read    *)
(* signal two edges ago, so that nothing looks at p.read and p.write.      *)
(***************************************************************************)
EXTENDS Naturals

CONSTANTS
  Value,      \* the 16-bit words on both ports
  Address,    \* register addresses on the slave port
  CpuInputs,  \* what the CPU drives on the slave port in a period
  Answers     \* what the master port's slaves drive in a period

RegStateAddr   == 0
RegCtrlAddr    == 2
RegSrcMSWAddr  == 8
RegSrcLSWAddr  == 10
RegDestMSWAddr == 12
RegDestLSWAddr == 14
RegDataAddr    == 16

(* Bit 3 of the control register: RegCtrlGo.                               *)
Go(word) == (word \div 8) % 2 = 1

ASSUME DmaValueAssumption == Value \subseteq Nat /\ 0 \in Value /\ 0 \in Address

CpuInput == [read : BOOLEAN, write : BOOLEAN, addr : Address, data : Value]
NoAccess == [read |-> FALSE, write |-> FALSE, addr |-> 0, data |-> 0]

(* Wait request, and the data of an earlier read if valid.                 *)
Answer   == [wait : BOOLEAN, valid : BOOLEAN, data : Value]
NoAnswer == [wait |-> FALSE, valid |-> FALSE, data |-> 0]

ASSUME DmaInputAssumption == CpuInputs \subseteq CpuInput /\ Answers \subseteq Answer

VARIABLES
  state,     \* StatePres_D
  reg,       \* RegState, RegCtrl, RegSrc, RegDest, RegData (Pres_D)
  taken,     \* RegAddressPres_D and RegRxDataPres_D
  s, p,      \* slave port sampled one and two edges ago
  readEdge,  \* Read_Edge_D
  m          \* master port sampled one edge ago: Master_..._S

dmaVars == <<state, reg, taken, s, p, readEdge, m>>

State == {"StateReset", "StateIdle", "StateEvalData", "StateRequestRx",
          "StateRx", "StateTx"}

(* The halves of the two 32-bit addresses are registers of their own.      *)
Field == {"status", "ctrl", "srcMSW", "srcLSW", "destMSW", "destLSW", "data"}
Cleared == [f \in Field |-> 0]

TypeOK ==
  /\ state \in State
  /\ reg \in [Field -> Value]
  /\ taken \in [addr : Address, rx : Value]
  /\ s \in CpuInput /\ p \in CpuInput
  /\ readEdge \in BOOLEAN
  /\ m \in Answer

-----------------------------------------------------------------------------
(* The outputs of the master port in this period.                          *)
MasterRead    == state \in {"StateRequestRx", "StateRx"}
MasterWrite   == state = "StateTx"
Source        == <<reg["srcMSW"], reg["srcLSW"]>>
Destination   == <<reg["destMSW"], reg["destLSW"]>>
MasterAddress == IF MasterRead THEN Source
                 ELSE IF MasterWrite THEN Destination ELSE <<0, 0>>
MasterData    == IF MasterWrite THEN reg["data"] ELSE 0

-----------------------------------------------------------------------------
Init ==
  /\ state = "StateReset"
  /\ reg = Cleared
  /\ taken = [addr |-> 0, rx |-> 0]
  /\ s = NoAccess /\ p = NoAccess /\ readEdge = FALSE
  /\ m = NoAnswer

(* Reset_NRI goes low, at any moment.                                      *)
Reset ==
  /\ state' = "StateReset"
  /\ reg' = Cleared
  /\ taken' = [addr |-> 0, rx |-> 0]
  /\ s' = NoAccess /\ p' = NoAccess /\ readEdge' = FALSE
  /\ m' = NoAnswer

(* syncData and edgeDetect.  Read_Last_D is never loaded, so the "edge" is *)
(* the level of the sampled read signal.                                   *)
Sample(c, a) ==
  s' = c /\ p' = s /\ readEdge' = s.read /\ m' = a

StateReset(c, a) ==
  /\ state = "StateReset"
  /\ Sample(c, a)
  /\ reg' = Cleared /\ taken' = [addr |-> 0, rx |-> 0]
  /\ state' = "StateIdle"

(* A read of the slave port is taken as a request with the data lines of   *)
(* that period; without one GO starts the next word.                       *)
StateIdle(c, a) ==
  /\ state = "StateIdle"
  /\ Sample(c, a)
  /\ \/ /\ readEdge
        /\ taken' = [addr |-> p.addr, rx |-> p.data]
        /\ state' = "StateEvalData"
     \/ /\ ~readEdge
        /\ state' = IF Go(reg["ctrl"]) THEN "StateRequestRx" ELSE "StateIdle"
        /\ UNCHANGED taken
  /\ UNCHANGED reg

(* The register a request for address a writes.                            *)
Target ==
  [a \in {RegStateAddr, RegCtrlAddr, RegSrcMSWAddr, RegSrcLSWAddr,
          RegDestMSWAddr, RegDestLSWAddr, RegDataAddr} |->
     CASE a = RegStateAddr   -> "status"  [] a = RegCtrlAddr    -> "ctrl"
       [] a = RegSrcMSWAddr  -> "srcMSW"  [] a = RegSrcLSWAddr  -> "srcLSW"
       [] a = RegDestMSWAddr -> "destMSW" [] a = RegDestLSWAddr -> "destLSW"
       [] a = RegDataAddr    -> "data"]

(* Bug: looks for the next item of a burst instead of idling.              *)
StateEvalDataBurst(c, a) ==
  /\ state = "StateEvalData"
  /\ Sample(c, a)
  /\ reg' = IF taken.addr \in DOMAIN Target
            THEN [reg EXCEPT ![Target[taken.addr]] = taken.rx] ELSE reg
  /\ state' = "StateNextBurstItem"
  /\ UNCHANGED taken

StateEvalData(c, a) ==
  /\ state = "StateEvalData"
  /\ Sample(c, a)
  /\ reg' = IF taken.addr \in DOMAIN Target
            THEN [reg EXCEPT ![Target[taken.addr]] = taken.rx] ELSE reg
  /\ state' = "StateIdle"
  /\ UNCHANGED taken

(* The read is requested; a wait request seen at the last edge means that  *)
(* it was heard.                                                           *)
StateRequestRx(c, a) ==
  /\ state = "StateRequestRx"
  /\ Sample(c, a)
  /\ state' = IF m.wait THEN "StateRx" ELSE "StateRequestRx"
  /\ UNCHANGED <<reg, taken>>

(* Bug: takes the data lines without looking whether they are valid        *)
(* (ImplementsCopier).                                                     *)
StateRxBlind(c, a) ==
  /\ state = "StateRx"
  /\ Sample(c, a)
  /\ reg' = [reg EXCEPT !["data"] = m.data] /\ state' = "StateTx"
  /\ UNCHANGED taken

(* One period to find the data, with the read still requested.             *)
StateRx(c, a) ==
  /\ state = "StateRx"
  /\ Sample(c, a)
  /\ IF m.valid
     THEN reg' = [reg EXCEPT !["data"] = m.data] /\ state' = "StateTx"
     ELSE state' = "StateRequestRx" /\ UNCHANGED reg
  /\ UNCHANGED taken

(* Bug: leaves on a wait request, as the read does.                        *)
StateTxInverted(c, a) ==
  /\ state = "StateTx"
  /\ Sample(c, a)
  /\ state' = IF m.wait THEN "StateIdle" ELSE "StateTx"
  /\ UNCHANGED <<reg, taken>>

(* The write is requested until no wait request was seen at the last edge. *)
StateTx(c, a) ==
  /\ state = "StateTx"
  /\ Sample(c, a)
  /\ state' = IF m.wait THEN "StateTx" ELSE "StateIdle"
  /\ UNCHANGED <<reg, taken>>

(* One clock period with c on the slave port and a on the master port.     *)
Cycle(c, a) ==
  \/ StateReset(c, a) \/ StateIdle(c, a) \/ StateEvalData(c, a)
  \/ StateRequestRx(c, a) \/ StateRx(c, a) \/ StateTx(c, a)

Next == (\E c \in CpuInputs, a \in Answers : Cycle(c, a)) \/ Reset

(* The clock does not stop, and nobody makes the master wait for ever.      *)
Spec ==
  /\ Init /\ [][Next]_dmaVars
  /\ WF_dmaVars(\E c \in CpuInputs, a \in Answers : Cycle(c, a))
  /\ WF_dmaVars(\E c \in CpuInputs, a \in Answers : ~a.wait /\ Cycle(c, a))

-----------------------------------------------------------------------------
(* The master is the word copier of DmaCopier: it is configured between    *)
(* two words only, source, destination and word do not change while they   *)
(* are on the bus, what it writes is the valid data it saw on the read     *)
(* port when it stopped reading (whichever read that answers: FreshWord of *)
(* DmaSystem), it starts only while GO is set, and every write ends.       *)
Copier == INSTANCE DmaCopier WITH
  Address <- Value \X Value,
  NoAddress <- <<0, 0>>,
  NoWord <- 0,
  phase <- IF MasterWrite THEN "store" ELSE IF MasterRead THEN "fetch" ELSE "idle",
  go   <- Go(reg["ctrl"]),
  src  <- Source,
  dest <- Destination,
  word <- MasterData,
  valid <- m.valid, answer <- m.data

ImplementsCopier == Copier!CopierSpec

(* The registers that start a transfer stay cleared and the master port    *)
(* stays silent: what a CPU that only writes achieves (DmaProofs).         *)
Silent ==
  /\ state \in {"StateReset", "StateIdle"}
  /\ reg = Cleared
  /\ ~readEdge /\ ~s.read

(* A master that never saw a wait request is never past StateRequestRx,     *)
(* which waits for one before it looks for data.                           *)
NeverPastRequest == ~m.wait /\ state \notin {"StateRx", "StateTx"}

=============================================================================
