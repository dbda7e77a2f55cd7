------------------------------ MODULE LcdDriver ------------------------------
(***************************************************************************)
(* The LCD driver (lcdDriver.vhdl), cycle by cycle.                        *)
(*                                                                         *)
(* One step is one period of Clk_CI: the combinational process "logic"     *)
(* drives the panel's pins and WaitReq from the registers as they are, the *)
(* bus master's signals `b' are on the inputs, and the rising edge at the  *)
(* end of the period loads every register.  A value that "logic" does not  *)
(* assign in a state is a latch (the synthesis report lists them): it is   *)
(* UNCHANGED.  `pins' and `waitReq' are the outputs of the last period.    *)
(***************************************************************************)
EXTENDS Naturals

CONSTANTS
  Byte,        \* values of one byte lane of the data bus
  Address,     \* register numbers, the values of Address_DI
  ResetTicks,  \* clock periods of StateLcdReset (500000000 in the code)
  PicSize,     \* generic PICSIZE_DEC: words in the burst stream
  MaxCount,    \* largest value of BurstCount_DI (2^PICSIZE_BIN - 1)
  Inputs       \* the values the bus signals take in a period

RegWriteDataAddr == 2
RegWriteCmdAddr  == 4
NoAddress        == 65535   \* RegAddress after StateResetIntRegData: all ones

ASSUME ByteAssumption    == Byte \subseteq Nat /\ 0 \in Byte
ASSUME AddressAssumption == Address \subseteq Nat /\ 0 \in Address
ASSUME SizeAssumption ==
  ResetTicks \in Nat /\ PicSize \in Nat \ {0} /\ MaxCount \in Nat

Lane == {"low", "high"}
Word == [Lane -> Byte]
Zero == [l \in Lane |-> 0]

(* A word with the byte lanes outside `lanes' cleared: "and BitEnable_D".  *)
Masked(w, lanes) == [l \in Lane |-> IF l \in lanes THEN w[l] ELSE 0]

(* The bus signals of one clock period.                                    *)
BusInput == [write : BOOLEAN, addr : Address, data : Word, lanes : SUBSET Lane,
             begin : BOOLEAN, count : 0 .. MaxCount]
NoWrite  == [write |-> FALSE, addr |-> 0, data |-> Zero, lanes |-> {},
             begin |-> FALSE, count |-> 0]

ASSUME InputsAssumption == Inputs \subseteq BusInput /\ NoWrite \in Inputs

(* The two registers whose value is sent to the panel.                     *)
TxAddress == {RegWriteDataAddr, RegWriteCmdAddr}

(* The panel's pins: data bus, write strobe, chip select and reset (active *)
(* low), data/command select (1 is data).                                  *)
Pins == [db : Word, wr : {0, 1}, cs : {0, 1}, dc : {0, 1}, lcdReset : {0, 1}]

VARIABLES
  state,        \* StatePres_D
  idleCount,    \* IdleCountPres_D
  burstCount,   \* BurstCountPres_D
  reg,          \* internal registers Reg*Pres_D
  s, p, pp,     \* the bus signals sampled one, two and three edges ago
  writeLast,    \* Write_Last_D
  writeEdge,    \* Write_Edge_D
  stream,       \* BurstStream_D
  streamNext,   \* BurstStreamCountNext_D
  streamCount,  \* BurstStreamCountPres_D
  waitReq,      \* WaitReq_SO, a latch
  bitEnable,    \* lanes set in BitEnable_D, a latch that no reset clears
  pins          \* DB_DIO, Wr_NSO, Cs_NSO, DC_NSO, LcdReset_NRO

driverVars == <<state, idleCount, burstCount, reg, s, p, pp, writeLast,
                writeEdge, stream, streamNext, streamCount, waitReq,
                bitEnable, pins>>

State == {"StateReset", "StateLcdReset", "StateResetIntRegData", "StateIdle",
          "StateNextBurstItem", "StateEvalData", "StatePrepareTx", "StateTx"}

Registers == [addr : Address \cup {NoAddress}, rx : Word, lanes : SUBSET Lane,
              begin : BOOLEAN, count : 0 .. MaxCount, data : Word]

(* Every signal stays within the width its VHDL declaration gives it, and  *)
(* the burst stream is never read or written outside of its PicSize words. *)
TypeOK ==
  /\ state \in State
  /\ idleCount \in Nat
  /\ burstCount \in 0 .. MaxCount
  /\ reg \in Registers
  /\ s \in BusInput /\ p \in BusInput /\ pp \in BusInput
  /\ writeLast \in BOOLEAN /\ writeEdge \in BOOLEAN
  /\ stream \in [0 .. PicSize - 1 -> Word]
  /\ streamNext \in Nat /\ streamCount \in Nat
  /\ waitReq \in BOOLEAN
  /\ bitEnable \in SUBSET Lane
  /\ pins \in Pins

-----------------------------------------------------------------------------
(* Registers and pins while Reset_NRI is low, and at power-up.             *)

ClearedRegisters ==
  [addr |-> 0, rx |-> Zero, lanes |-> {}, begin |-> FALSE, count |-> 0,
   data |-> Zero]

RestPins == [db |-> Zero, wr |-> 1, cs |-> 1, dc |-> 1, lcdReset |-> 1]

Init ==
  /\ state = "StateReset"
  /\ idleCount = 0 /\ burstCount = 0
  /\ reg = ClearedRegisters
  /\ s = NoWrite /\ p = NoWrite /\ pp = NoWrite
  /\ writeLast = FALSE /\ writeEdge = FALSE
  /\ stream = [i \in 0 .. PicSize - 1 |-> Zero]
  /\ streamNext = 0 /\ streamCount = 0
  /\ waitReq = FALSE
  /\ bitEnable = {}
  /\ pins = RestPins

(* Reset_NRI goes low: asynchronous, at any moment of any state.  The      *)
(* burst stream and the latch BitEnable_D keep their contents.             *)
Reset ==
  /\ state' = "StateReset"
  /\ idleCount' = 0 /\ burstCount' = 0
  /\ reg' = ClearedRegisters
  /\ s' = NoWrite /\ p' = NoWrite /\ pp' = NoWrite
  /\ writeLast' = FALSE /\ writeEdge' = FALSE
  /\ streamNext' = 0 /\ streamCount' = 0
  /\ waitReq' = FALSE
  /\ pins' = RestPins
  /\ UNCHANGED <<stream, bitEnable>>

-----------------------------------------------------------------------------
(* What every rising edge does, whatever the state.                        *)

(* Bugs that the properties must find are written next to the definition   *)
(* they are a bug of, with the properties that find them: here an edge     *)
(* taken from the next stage (NoWriteLost, ItemsSent), and none at all     *)
(* (Schedule).                                                             *)
SampleLate(b) ==
  s' = b /\ p' = s /\ pp' = p /\ writeLast' = p.write
  /\ writeEdge' = (p.write /\ ~writeLast)

SampleLevel(b) ==
  s' = b /\ p' = s /\ pp' = p /\ writeLast' = s.write /\ writeEdge' = s.write

(* syncData and edgeDetect: the three stages of the bus signals, and a     *)
(* pulse of one period when the sampled write signal rises.                *)
Sample(b) ==
  /\ s' = b
  /\ p' = s
  /\ pp' = p
  /\ writeLast' = s.write
  /\ writeEdge' = (s.write /\ ~writeLast)

(* burstStream and counters: while a burst is registered, words are stored *)
(* as long as fewer than reg.count have been.                              *)
FillStream ==
  /\ streamCount' = streamNext
  /\ IF reg.begin /\ pp.write /\ streamCount < reg.count
     THEN /\ stream' = [stream EXCEPT ![streamCount] = pp.data]
          /\ streamNext' = streamCount + 1
     ELSE /\ streamNext' = IF reg.begin THEN streamCount ELSE 0
          /\ UNCHANGED stream

Clocked(b) == Sample(b) /\ FillStream

(* The registers take their next value, except RegBurstCountPres_D: the    *)
(* clocked process assigns it to itself.                                   *)
Load(next) == reg' = [next EXCEPT !.count = reg.count]

-----------------------------------------------------------------------------
(* The states of process "logic".                                          *)

StateReset(b) ==
  /\ state = "StateReset"
  /\ Clocked(b)
  /\ waitReq' = FALSE
  /\ pins' = RestPins
  /\ Load(ClearedRegisters)
  /\ burstCount' = 0 /\ idleCount' = ResetTicks
  /\ state' = "StateLcdReset"
  /\ UNCHANGED bitEnable

(* The panel is held in reset, and so is the bus, for ResetTicks periods.  *)
StateLcdReset(b) ==
  /\ state = "StateLcdReset"
  /\ Clocked(b)
  /\ waitReq' = TRUE
  /\ pins' = [RestPins EXCEPT !.lcdReset = 0]
  /\ Load(ClearedRegisters)
  /\ IF idleCount > 0
     THEN idleCount' = idleCount - 1 /\ UNCHANGED state
     ELSE idleCount' = 0 /\ state' = "StateResetIntRegData"
  /\ UNCHANGED <<burstCount, bitEnable>>

(* One period to clear the registers; pins and WaitReq keep their value.   *)
StateResetIntRegData(b) ==
  /\ state = "StateResetIntRegData"
  /\ Clocked(b)
  /\ Load([ClearedRegisters EXCEPT !.addr = NoAddress, !.data = reg.data])
  /\ burstCount' = 0 /\ idleCount' = 0
  /\ state' = "StateIdle"
  /\ UNCHANGED <<waitReq, bitEnable, pins>>

(* The registers loaded from the sampled request r.                        *)
Taken(r) ==
  [addr |-> r.addr, rx |-> r.data, begin |-> r.begin,
   lanes |-> IF r.begin THEN Lane ELSE r.lanes, count |-> r.count,
   data |-> reg.data]

(* Wait for an edge of the write signal and take the request that made it, *)
(* which stage P holds.  WaitReq is not assigned here.                     *)
StateIdle(b) ==
  /\ state = "StateIdle"
  /\ Clocked(b)
  /\ pins' = [RestPins EXCEPT !.wr = 0]
  /\ idleCount' = 5
  /\ IF writeEdge
     THEN /\ Load(Taken(p))
          /\ burstCount' = IF p.begin THEN p.count ELSE 0
          /\ state' = "StateEvalData"
     ELSE /\ Load(reg)
          /\ burstCount' = 0
          /\ UNCHANGED state
  /\ UNCHANGED <<waitReq, bitEnable>>

(* Wait until the stream holds more than burstCount words.                 *)
StateNextBurstItem(b) ==
  /\ state = "StateNextBurstItem"
  /\ Clocked(b)
  /\ pins' = [RestPins EXCEPT !.wr = 0]
  /\ idleCount' = 2
  /\ IF streamCount > burstCount
     THEN /\ waitReq' = TRUE
          /\ Load([reg EXCEPT !.data = stream[burstCount]])
          /\ state' = "StateEvalData"
     ELSE /\ waitReq' = FALSE
          /\ Load([reg EXCEPT !.data = Zero])
          /\ UNCHANGED state
  /\ UNCHANGED <<burstCount, bitEnable>>

(* Bug: WaitReq is left latched (WritesComplete).                          *)
StateEvalDataWaits(b) ==
  /\ state = "StateEvalData"
  /\ Clocked(b)
  /\ pins' = [RestPins EXCEPT !.dc = 0]
  /\ idleCount' = 2
  /\ IF reg.addr \in TxAddress
     THEN Load([reg EXCEPT !.data = reg.rx]) /\ state' = "StatePrepareTx"
     ELSE Load(reg) /\ state' = "StateIdle"
  /\ UNCHANGED <<waitReq, burstCount, bitEnable>>

(* A write to any other register than the two that transmit is dropped.    *)
StateEvalData(b) ==
  /\ state = "StateEvalData"
  /\ Clocked(b)
  /\ waitReq' = FALSE
  /\ pins' = [RestPins EXCEPT !.dc = 0]
  /\ idleCount' = 2
  /\ IF reg.addr \in TxAddress
     THEN Load([reg EXCEPT !.data = reg.rx]) /\ state' = "StatePrepareTx"
     ELSE Load(reg) /\ state' = "StateIdle"
  /\ UNCHANGED <<burstCount, bitEnable>>

(* Bugs: the lanes of the word before (PinsFollow), the sampled bus in     *)
(* place of the register (SelectedPinsHold), and no data while Wr is low   *)
(* (SetupWhenLanesKept).                                                   *)
TxPinsStale(wr, lanes) ==
  [db |-> Masked(reg.data, bitEnable), wr |-> wr, cs |-> 0,
   dc |-> IF reg.addr = RegWriteCmdAddr THEN 0 ELSE 1, lcdReset |-> 1]

TxPinsOfBus(wr, lanes) ==
  [db |-> Masked(p.data, lanes), wr |-> wr, cs |-> 0,
   dc |-> IF p.addr = RegWriteCmdAddr THEN 0 ELSE 1, lcdReset |-> 1]

TxPinsLate(wr, lanes) ==
  [db |-> IF wr = 0 THEN Zero ELSE Masked(reg.data, lanes), wr |-> wr, cs |-> 0,
   dc |-> IF reg.addr = RegWriteCmdAddr THEN 0 ELSE 1, lcdReset |-> 1]

(* The pins of a selected panel: command or data after the register's      *)
(* address, the register's value on the lanes `lanes'.                     *)
TxPins(wr, lanes) ==
  [db |-> Masked(reg.data, lanes), wr |-> wr, cs |-> 0,
   dc |-> IF reg.addr = RegWriteCmdAddr THEN 0 ELSE 1, lcdReset |-> 1]

(* Write strobe low.  The lanes are those of the previous transmission.    *)
StatePrepareTx(b) ==
  /\ state = "StatePrepareTx"
  /\ Clocked(b)
  /\ waitReq' = FALSE
  /\ pins' = TxPins(0, bitEnable)
  /\ Load(reg)
  /\ IF idleCount > 0
     THEN idleCount' = idleCount - 1 /\ UNCHANGED state
     ELSE idleCount' = 3 /\ state' = "StateTx"
  /\ UNCHANGED <<burstCount, bitEnable>>

(* Bug: the last item of a burst is not told from the others (TypeOK).     *)
TxAdvanceOn ==
  \/ /\ idleCount > 0
     /\ idleCount' = idleCount - 1
     /\ UNCHANGED <<burstCount, state>>
  \/ /\ idleCount = 0
     /\ burstCount' = burstCount - 1 /\ idleCount' = 0
     /\ state' = "StateNextBurstItem"

(* Bug: the strobe is prepared again after the last item of a burst or a   *)
(* single word, which is sent a second time (ImplementsChannel).           *)
TxAdvanceAgain ==
  \/ /\ idleCount > 0
     /\ idleCount' = idleCount - 1
     /\ UNCHANGED <<burstCount, state>>
  \/ /\ idleCount = 0 /\ burstCount > 0
     /\ burstCount' = burstCount - 1 /\ idleCount' = 0
     /\ state' = "StateNextBurstItem"
  \/ /\ idleCount = 0 /\ burstCount = 0
     /\ burstCount' = 0 /\ idleCount' = 0
     /\ state' = "StatePrepareTx"

(* The periods of a transmission, then the next item of a burst, if any.   *)
TxAdvance ==
  \/ /\ idleCount > 0
     /\ idleCount' = idleCount - 1
     /\ UNCHANGED <<burstCount, state>>
  \/ /\ idleCount = 0 /\ burstCount > 0
     /\ burstCount' = burstCount - 1 /\ idleCount' = 0
     /\ state' = "StateNextBurstItem"
  \/ /\ idleCount = 0 /\ burstCount = 0
     /\ burstCount' = 0 /\ idleCount' = 0
     /\ state' = "StateResetIntRegData"

(* Write strobe high: the panel takes the word at its rising edge.         *)
StateTx(b) ==
  /\ state = "StateTx"
  /\ Clocked(b)
  /\ waitReq' = FALSE
  /\ bitEnable' = reg.lanes
  /\ pins' = TxPins(1, reg.lanes)
  /\ Load(reg)
  /\ TxAdvance

(* One clock period with the bus signals b on the inputs.                  *)
Cycle(b) ==
  \/ StateReset(b) \/ StateLcdReset(b) \/ StateResetIntRegData(b)
  \/ StateIdle(b) \/ StateNextBurstItem(b) \/ StateEvalData(b)
  \/ StatePrepareTx(b) \/ StateTx(b)

(* The driver on a bus whose master does anything at all, Reset_NRI too.   *)
Next == (\E b \in Inputs : Cycle(b)) \/ Reset

(* Clk_CI never stops.                                                     *)
Spec == Init /\ [][Next]_driverVars /\ WF_driverVars(\E b \in Inputs : Cycle(b))

-----------------------------------------------------------------------------
(* The strobe: the panel takes the word on DB when Wr rises while it is    *)
(* selected, so the step that ends with Wr high starts with Wr low.        *)
Strobe == pins.cs = 0 /\ pins'.cs = 0 /\ pins.wr = 0 /\ pins'.wr = 1

(* While the panel stays selected the data/command line does not change,   *)
(* and once Wr has risen neither Wr nor the data do, whatever the master   *)
(* writes meanwhile (PrepareTx and Tx hold the captured registers).        *)
SelectedPinsHold ==
  [][ (pins.cs = 0 /\ pins'.cs = 0)
        => /\ pins'.dc = pins.dc
           /\ pins.wr = 1 => pins'.wr = 1 /\ pins'.db = pins.db ]_driverVars

(* Where the panel can be selected, and what its pins then show.           *)
PinsFollow ==
  pins.cs = 0 =>
    /\ state \in {"StatePrepareTx", "StateTx", "StateResetIntRegData",
                  "StateNextBurstItem", "StateIdle"}
    /\ state \in {"StatePrepareTx", "StateTx"} =>
         pins.dc = IF reg.addr = RegWriteCmdAddr THEN 0 ELSE 1
    /\ state = "StatePrepareTx" => pins.wr = 0
    /\ state = "StateTx" /\ pins.wr = 1 => pins.db = Masked(reg.data, reg.lanes)

(* While the master keeps writing, a driver that waits for the next word   *)
(* of a burst goes on: StateNextBurstItem is there to "wait for next burst *)
(* data", burstStream "fills the burst stream array".  The code does not   *)
(* do it, since RegBurstCountPres_D is never loaded (run LcdDriverBurst).  *)
BurstGoesOn ==
  []<>(pp.write) => (state = "StateNextBurstItem" ~> state # "StateNextBurstItem")

(* RegBurstCountPres_D keeps its reset value, so no word enters the stream.*)
StreamEmpty == reg.count = 0 /\ streamCount = 0 /\ streamNext = 0

=============================================================================
