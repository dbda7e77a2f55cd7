--------------------------- MODULE LcdDriverProofs ---------------------------
(***************************************************************************)
(* Theorems about the LCD driver on a bus that carries anything, for every *)
(* set of inputs, reset time and stream size.                              *)
(***************************************************************************)
EXTENDS LcdDriver, TLAPS

(* "and BitEnable_D" yields a word: lanes are kept or cleared.             *)
LEMMA MaskedWord ==
  ASSUME NEW w \in Word, NEW lanes \in SUBSET Lane
  PROVE  Masked(w, lanes) \in Word
BY ByteAssumption DEF Masked, Word, Lane

LEMMA ConstantTypes ==
  /\ Zero \in Word
  /\ NoWrite \in BusInput
  /\ RestPins \in Pins
  /\ ClearedRegisters \in Registers /\ ClearedRegisters.count = 0
<1>1. Zero \in Word
  BY ByteAssumption DEF Zero, Word
<1>2. ClearedRegisters.count = 0
  BY DEF ClearedRegisters
<1>3. QED
  BY <1>1, <1>2, AddressAssumption, SizeAssumption
  DEF NoWrite, BusInput, RestPins, Pins, ClearedRegisters, Registers

(* A load leaves the registers typed and the burst count at zero.          *)
LEMMA LoadType ==
  ASSUME TypeOK, StreamEmpty, NEW next \in Registers, Load(next)
  PROVE  reg' \in Registers /\ reg'.count = 0
BY DEF TypeOK, StreamEmpty, Load, Registers

(* Sampling and the burst stream are typed and the stream stays empty.     *)
LEMMA ClockedType ==
  ASSUME TypeOK, StreamEmpty, NEW b \in BusInput, Clocked(b)
  PROVE  /\ s' \in BusInput /\ p' \in BusInput /\ pp' \in BusInput
         /\ writeLast' \in BOOLEAN /\ writeEdge' \in BOOLEAN
         /\ stream' = stream /\ streamNext' = 0 /\ streamCount' = 0
<1>1. s.write \in BOOLEAN
  BY DEF TypeOK, BusInput
<1>2. QED
  BY <1>1 DEF TypeOK, StreamEmpty, Clocked, Sample, FillStream

DriverInv == TypeOK /\ StreamEmpty

(* What is left to show of a state: its own outputs and counters.          *)
LEMMA FrameType ==
  ASSUME DriverInv, NEW b \in BusInput, Clocked(b),
         reg' \in Registers, reg'.count = 0, pins' \in Pins,
         state' \in State, idleCount' \in Nat, burstCount' \in 0 .. MaxCount,
         waitReq' \in BOOLEAN, bitEnable' \in SUBSET Lane
  PROVE  DriverInv'
BY ClockedType DEF DriverInv, TypeOK, StreamEmpty

(* One clock period, state by state.                                       *)
LEMMA CycleType ==
  ASSUME DriverInv, NEW b \in BusInput, Cycle(b)
  PROVE  DriverInv'
<1> USE ConstantTypes, SizeAssumption
<1>a. TypeOK /\ StreamEmpty
  BY DEF DriverInv
<1>1. CASE StateReset(b)
  <2>1. reg' \in Registers /\ reg'.count = 0
    BY <1>a, <1>1, LoadType DEF StateReset
  <2>2. state' \in State /\ idleCount' \in Nat /\ burstCount' \in 0 .. MaxCount
    BY <1>1 DEF StateReset, State
  <2>3. waitReq' \in BOOLEAN /\ bitEnable' \in SUBSET Lane /\ pins' \in Pins
    BY <1>a, <1>1 DEF StateReset, TypeOK
  <2>4. QED
    BY <1>1, <2>1, <2>2, <2>3, FrameType DEF StateReset
<1>2. CASE StateLcdReset(b)
  <2>1. reg' \in Registers /\ reg'.count = 0
    BY <1>a, <1>2, LoadType DEF StateLcdReset
  <2>2. pins' \in Pins
    BY <1>2 DEF StateLcdReset, Pins
  <2>3. QED
    BY <1>a, <1>2, <2>1, <2>2, FrameType DEF StateLcdReset, TypeOK, State
<1>3. CASE StateResetIntRegData(b)
  <2> DEFINE next == [ClearedRegisters EXCEPT !.addr = NoAddress, !.data = reg.data]
  <2>1. next \in Registers
    BY <1>a DEF TypeOK, Registers
  <2>2. reg' \in Registers /\ reg'.count = 0
    BY <1>a, <1>3, <2>1, LoadType DEF StateResetIntRegData
  <2>3. QED
    BY <1>a, <1>3, <2>2, FrameType DEF StateResetIntRegData, TypeOK, State
<1>4. CASE StateIdle(b)
  <2>1. Taken(p) \in Registers /\ p.count \in 0 .. MaxCount
    BY <1>a DEF Taken, TypeOK, Registers, BusInput
  <2>2. pins' \in Pins
    BY <1>4 DEF StateIdle, Pins
  <2>3. Load(Taken(p)) \/ Load(reg)
    BY <1>4 DEF StateIdle
  <2>4. reg' \in Registers /\ reg'.count = 0
    BY <1>a, <2>1, <2>3, LoadType DEF TypeOK
  <2>5. QED
    BY <1>a, <1>4, <2>1, <2>2, <2>4, FrameType DEF StateIdle, TypeOK, State
<1>5. CASE StateNextBurstItem(b)
  <2>1. ~(streamCount > burstCount)
    BY <1>a DEF TypeOK, StreamEmpty
  <2>2. pins' \in Pins
    BY <1>5 DEF StateNextBurstItem, Pins
  <2>3. [reg EXCEPT !.data = Zero] \in Registers
    BY <1>a DEF TypeOK, Registers
  <2>4. reg' \in Registers /\ reg'.count = 0
    BY <1>a, <1>5, <2>1, <2>3, LoadType DEF StateNextBurstItem
  <2>5. QED
    BY <1>a, <1>5, <2>1, <2>2, <2>4, FrameType
    DEF StateNextBurstItem, TypeOK, State
<1>6. CASE StateEvalData(b)
  <2>1. pins' \in Pins
    BY <1>6 DEF StateEvalData, Pins
  <2>2. reg \in Registers /\ [reg EXCEPT !.data = reg.rx] \in Registers
    BY <1>a DEF TypeOK, Registers
  <2>3. Load(reg) \/ Load([reg EXCEPT !.data = reg.rx])
    BY <1>6 DEF StateEvalData
  <2>4. reg' \in Registers /\ reg'.count = 0
    BY <1>a, <2>2, <2>3, LoadType
  <2>5. QED
    BY <1>a, <1>6, <2>1, <2>4, FrameType DEF StateEvalData, TypeOK, State
<1>7. ASSUME NEW w \in {0, 1}, NEW lanes \in SUBSET Lane
      PROVE  TxPins(w, lanes) \in Pins
  <2>1. Masked(reg.data, lanes) \in Word
    BY <1>a, MaskedWord DEF TypeOK, Registers
  <2>2. QED
    BY <2>1 DEF TxPins, Pins
<1>8. CASE StatePrepareTx(b)
  <2>1. pins' \in Pins
    BY <1>a, <1>7, <1>8 DEF StatePrepareTx, TypeOK
  <2>2. reg' \in Registers /\ reg'.count = 0
    BY <1>a, <1>8, LoadType DEF StatePrepareTx, TypeOK
  <2>3. state' \in State /\ idleCount' \in Nat /\ burstCount' \in 0 .. MaxCount
    BY <1>a, <1>8 DEF StatePrepareTx, TypeOK, State
  <2>4. waitReq' \in BOOLEAN /\ bitEnable' \in SUBSET Lane
    BY <1>a, <1>8 DEF StatePrepareTx, TypeOK
  <2>5. QED
    BY <1>8, <2>1, <2>2, <2>3, <2>4, FrameType DEF StatePrepareTx
<1>9. CASE StateTx(b)
  <2>1. reg.lanes \in SUBSET Lane
    BY <1>a DEF TypeOK, Registers
  <2>2. pins' \in Pins
    BY <1>7, <1>9, <2>1 DEF StateTx
  <2>3. reg' \in Registers /\ reg'.count = 0
    BY <1>a, <1>9, LoadType DEF StateTx, TypeOK
  <2>4. state' \in State /\ idleCount' \in Nat /\ burstCount' \in 0 .. MaxCount
    BY <1>a, <1>9 DEF StateTx, TxAdvance, TypeOK, State
  <2>5. QED
    BY <1>9, <2>1, <2>2, <2>3, <2>4, FrameType DEF StateTx
<1>10. QED
  BY <1>1, <1>2, <1>3, <1>4, <1>5, <1>6, <1>8, <1>9 DEF Cycle

LEMMA InitType == Init => DriverInv
<1> SUFFICES ASSUME Init PROVE DriverInv
  OBVIOUS
<1>1. stream \in [0 .. PicSize - 1 -> Word]
  BY ConstantTypes DEF Init
<1>2. reg \in Registers /\ reg.count = 0
  BY ConstantTypes DEF Init
<1>3. TypeOK
  <2>1. /\ state \in State /\ idleCount \in Nat /\ burstCount \in 0 .. MaxCount
        /\ streamNext \in Nat /\ streamCount \in Nat
    BY SizeAssumption DEF Init, State
  <2>2. /\ s \in BusInput /\ p \in BusInput /\ pp \in BusInput
        /\ bitEnable \in SUBSET Lane /\ pins \in Pins
    BY ConstantTypes DEF Init
  <2>3. writeLast \in BOOLEAN /\ writeEdge \in BOOLEAN /\ waitReq \in BOOLEAN
    BY DEF Init
  <2>4. QED
    BY <1>1, <1>2, <2>1, <2>2, <2>3 DEF TypeOK
<1>4. StreamEmpty
  BY <1>2 DEF Init, StreamEmpty
<1>5. QED
  BY <1>3, <1>4 DEF DriverInv

LEMMA ResetType == DriverInv /\ Reset => DriverInv'
<1> SUFFICES ASSUME DriverInv, Reset PROVE DriverInv'
  OBVIOUS
<1>1. reg' \in Registers /\ reg'.count = 0
  BY ConstantTypes DEF Reset
<1>2. TypeOK'
  <2>1. /\ state' \in State /\ idleCount' \in Nat /\ burstCount' \in 0 .. MaxCount
        /\ streamNext' \in Nat /\ streamCount' \in Nat
    BY SizeAssumption DEF Reset, State
  <2>2. s' \in BusInput /\ p' \in BusInput /\ pp' \in BusInput /\ pins' \in Pins
    BY ConstantTypes DEF Reset
  <2>3. writeLast' \in BOOLEAN /\ writeEdge' \in BOOLEAN /\ waitReq' \in BOOLEAN
    BY DEF Reset
  <2>4. bitEnable' \in SUBSET Lane /\ stream' \in [0 .. PicSize - 1 -> Word]
    BY DEF Reset, DriverInv, TypeOK
  <2>5. QED
    BY <1>1, <2>1, <2>2, <2>3, <2>4 DEF TypeOK
<1>3. StreamEmpty'
  BY <1>1 DEF Reset, StreamEmpty
<1>4. QED
  BY <1>2, <1>3 DEF DriverInv

(* The invariant the other theorems of this module use: every signal is    *)
(* typed and the burst stream is empty, because RegBurstCountPres_D, the   *)
(* bound up to which it is filled, is never loaded (regUpdate).            *)
THEOREM DriverInvariant == Spec => []DriverInv
<1>1. Init => DriverInv
  BY InitType
<1>2. DriverInv /\ [Next]_driverVars => DriverInv'
  <2> SUFFICES ASSUME DriverInv, [Next]_driverVars
               PROVE  DriverInv'
    OBVIOUS
  <2>1. ASSUME NEW b \in Inputs, Cycle(b) PROVE DriverInv'
    BY <2>1, CycleType, InputsAssumption
  <2>2. CASE Reset
    BY <2>2, ResetType
  <2>3. CASE UNCHANGED driverVars
    BY <2>3 DEF driverVars, DriverInv, TypeOK, StreamEmpty
  <2>4. QED
    BY <2>1, <2>2, <2>3 DEF Next
<1>3. QED
  BY <1>1, <1>2, PTL DEF Spec

(* The registers, counters, latches and pins of the driver keep their      *)
(* widths whatever the bus carries.                                        *)
THEOREM TypeCorrect == Spec => []TypeOK
<1>1. DriverInv => TypeOK
  BY DEF DriverInv
<1>2. QED
  BY <1>1, DriverInvariant, PTL

(* No word of a burst but the first is ever stored.                        *)
THEOREM StreamStaysEmpty == Spec => []StreamEmpty
<1>1. DriverInv => StreamEmpty
  BY DEF DriverInv
<1>2. QED
  BY <1>1, DriverInvariant, PTL

-----------------------------------------------------------------------------
(* The registers a transmission shows keep their value in the states that  *)
(* load the registers with themselves.                                     *)
LEMMA LoadSame ==
  ASSUME TypeOK, Load(reg)
  PROVE  reg' = reg
BY DEF TypeOK, Registers, Load

(* One clock period moves the pins and the state together.                 *)
LEMMA CyclePins ==
  ASSUME TypeOK, PinsFollow, NEW b \in BusInput, Cycle(b)
  PROVE  PinsFollow'
<1>1. CASE StateReset(b) \/ StateLcdReset(b)
  BY <1>1 DEF StateReset, StateLcdReset, RestPins, PinsFollow
<1>2. CASE StateResetIntRegData(b)
  BY <1>2 DEF StateResetIntRegData, PinsFollow
<1>3. CASE StateIdle(b) \/ StateNextBurstItem(b) \/ StateEvalData(b)
  BY <1>3 DEF StateIdle, StateNextBurstItem, StateEvalData, RestPins, PinsFollow
<1>4. CASE StatePrepareTx(b)
  <2>1. reg' = reg /\ pins' = TxPins(0, bitEnable)
    BY <1>4, LoadSame DEF StatePrepareTx
  <2>2. pins'.wr = 0 /\ pins'.dc = IF reg.addr = RegWriteCmdAddr THEN 0 ELSE 1
    BY <2>1 DEF TxPins
  <2>3. state' \in {"StatePrepareTx", "StateTx"}
    BY <1>4 DEF StatePrepareTx
  <2>4. QED
    BY <2>1, <2>2, <2>3 DEF PinsFollow
<1>5. CASE StateTx(b)
  <2>1. reg' = reg /\ pins' = TxPins(1, reg.lanes)
    BY <1>5, LoadSame DEF StateTx
  <2>2. /\ pins'.db = Masked(reg.data, reg.lanes)
        /\ pins'.dc = IF reg.addr = RegWriteCmdAddr THEN 0 ELSE 1
    BY <2>1 DEF TxPins
  <2>3. state' \in {"StateTx", "StateNextBurstItem", "StateResetIntRegData"}
    BY <1>5 DEF StateTx, TxAdvance
  <2>4. Masked(reg.data, reg.lanes)' = Masked(reg.data, reg.lanes)
    BY <2>1 DEF Masked
  <2>5. QED
    BY <2>1, <2>2, <2>3, <2>4 DEF PinsFollow
<1>6. QED
  BY <1>1, <1>2, <1>3, <1>4, <1>5 DEF Cycle

(* The panel is selected in the states that transmit and the one after,    *)
(* and what its pins show is what the registers hold (logic, the states    *)
(* StatePrepareTx, StateTx and the latched StateResetIntRegData).          *)
THEOREM PinsInvariant == Spec => []PinsFollow
<1>1. Init => PinsFollow
  BY DEF Init, RestPins, PinsFollow
<1>2. DriverInv /\ PinsFollow /\ [Next]_driverVars => PinsFollow'
  <2> SUFFICES ASSUME DriverInv, PinsFollow, [Next]_driverVars
               PROVE  PinsFollow'
    OBVIOUS
  <2>1. ASSUME NEW b \in Inputs, Cycle(b) PROVE PinsFollow'
    BY <2>1, CyclePins, InputsAssumption DEF DriverInv
  <2>2. CASE Reset
    BY <2>2 DEF Reset, RestPins, PinsFollow
  <2>3. CASE UNCHANGED driverVars
    BY <2>3 DEF driverVars, PinsFollow, Masked
  <2>4. QED
    BY <2>1, <2>2, <2>3 DEF Next
<1>3. QED
  BY <1>1, <1>2, DriverInvariant, PTL DEF Spec

(* Hold time: a selected panel sees neither its data/command line change,  *)
(* nor the data or the strobe once Wr has risen, whatever the master       *)
(* writes while a word is being sent.                                      *)
THEOREM SelectedPinsStable == Spec => SelectedPinsHold
<1> DEFINE Hold == (pins.cs = 0 /\ pins'.cs = 0)
                     => /\ pins'.dc = pins.dc
                        /\ pins.wr = 1 => pins'.wr = 1 /\ pins'.db = pins.db
<1>1. ASSUME TypeOK, PinsFollow, NEW b \in Inputs, Cycle(b) PROVE Hold
  <2>1. CASE StateReset(b) \/ StateLcdReset(b)
    BY <2>1 DEF StateReset, StateLcdReset, RestPins
  <2>2. CASE StateResetIntRegData(b)
    BY <2>2 DEF StateResetIntRegData
  <2>3. CASE StateIdle(b) \/ StateNextBurstItem(b) \/ StateEvalData(b)
    BY <2>3 DEF StateIdle, StateNextBurstItem, StateEvalData, RestPins
  <2>4. CASE StatePrepareTx(b)
    BY <2>4, <1>1 DEF StatePrepareTx, TxPins, PinsFollow
  <2>5. CASE StateTx(b)
    BY <2>5, <1>1 DEF StateTx, TxPins, PinsFollow
  <2>6. QED
    BY <1>1, <2>1, <2>2, <2>3, <2>4, <2>5 DEF Cycle
<1>2. Reset => Hold
  BY DEF Reset, RestPins
<1>3. DriverInv /\ PinsFollow /\ [Next]_driverVars => [Hold]_driverVars
  BY <1>1, <1>2 DEF Next, DriverInv
<1>4. QED
  BY <1>3, DriverInvariant, PinsInvariant, PTL DEF Spec, SelectedPinsHold

(* In StateNextBurstItem every period is one more of waiting.              *)
LEMMA WaitsForItem ==
  ASSUME DriverInv, NEW b, Cycle(b), state = "StateNextBurstItem"
  PROVE  StateNextBurstItem(b) /\ state' = "StateNextBurstItem"
<1>1. StateNextBurstItem(b)
  BY DEF Cycle, StateReset, StateLcdReset, StateResetIntRegData,
     StateIdle, StateEvalData, StatePrepareTx, StateTx
<1>2. ~(streamCount > burstCount)
  BY DEF DriverInv, TypeOK, StreamEmpty
<1> QED BY <1>1, <1>2 DEF StateNextBurstItem

(* What the code does in place of BurstGoesOn.                             *)
BurstNeverResumes ==
  [][ state = "StateNextBurstItem"
        => state' \in {"StateNextBurstItem", "StateReset"} ]_driverVars

(* A burst of more than its first word never ends: StateNextBurstItem      *)
(* waits for a stream that is never filled, until Reset_NRI.               *)
THEOREM BurstStuck == Spec => BurstNeverResumes
<1> DEFINE Stuck == state = "StateNextBurstItem"
                      => state' \in {"StateNextBurstItem", "StateReset"}
<1>1. DriverInv /\ [Next]_driverVars => [Stuck]_driverVars
  BY WaitsForItem DEF Next, Reset
<1>2. QED
  BY <1>1, DriverInvariant, PTL DEF Spec, BurstNeverResumes

-----------------------------------------------------------------------------
(* A bus on which every write begins a burst of a word or more, as the     *)
(* slave translator of the generated interconnect makes it.                *)

BurstsOnly == \A b \in Inputs : b.write => b.begin /\ b.count > 0

(* A request in the stages is a burst, and the driver has items left as    *)
(* long as it transmits.                                                   *)
BurstInside ==
  /\ s.write => s.begin /\ s.count > 0
  /\ p.write => p.begin /\ p.count > 0
  /\ writeEdge => p.write
  /\ state \in {"StateEvalData", "StatePrepareTx", "StateTx"} => burstCount > 0

(* The driver has sent the first word of a burst, or waits for the next.   *)
Sated == state = "StateNextBurstItem" \/ (state = "StateTx" /\ pins.wr = 1)

OneWord ==
  /\ Strobe => Sated'
  /\ Sated => (Sated' /\ ~Strobe) \/ Reset

LEMMA CycleBurst ==
  ASSUME DriverInv, BurstsOnly, BurstInside, NEW b \in Inputs, Cycle(b)
  PROVE  BurstInside' /\ OneWord
<1>1. /\ s' = b /\ p' = s /\ writeEdge' = (s.write /\ ~writeLast)
  BY DEF Cycle, StateReset, StateLcdReset, StateResetIntRegData, StateIdle,
     StateNextBurstItem, StateEvalData, StatePrepareTx, StateTx, Clocked, Sample
<1>2. /\ s'.write => s'.begin /\ s'.count > 0
      /\ p'.write => p'.begin /\ p'.count > 0
      /\ writeEdge' => p'.write
  BY <1>1 DEF BurstsOnly, BurstInside
<1>3. state' \in {"StateEvalData", "StatePrepareTx", "StateTx"} => burstCount' > 0
  <2>1. CASE StateReset(b) \/ StateLcdReset(b) \/ StateResetIntRegData(b)
    BY <2>1 DEF StateReset, StateLcdReset, StateResetIntRegData
  <2>2. CASE StateIdle(b)
    BY <2>2 DEF StateIdle, BurstInside
  <2>3. CASE StateNextBurstItem(b)
    BY <2>3, WaitsForItem DEF StateNextBurstItem
  <2>4. CASE StateEvalData(b) \/ StatePrepareTx(b)
    BY <2>4 DEF StateEvalData, StatePrepareTx, BurstInside
  <2>5. CASE StateTx(b)
    BY <2>5 DEF StateTx, TxAdvance, BurstInside
  <2> QED BY <2>1, <2>2, <2>3, <2>4, <2>5 DEF Cycle
<1>4. OneWord
  <2>1. CASE StateReset(b) \/ StateLcdReset(b) \/ StateIdle(b) \/ StateEvalData(b)
    BY <2>1 DEF StateReset, StateLcdReset, StateIdle, StateEvalData, RestPins,
       OneWord, Strobe, Sated
  <2>2. CASE StateResetIntRegData(b) \/ StatePrepareTx(b)
    BY <2>2 DEF StateResetIntRegData, StatePrepareTx, TxPins, OneWord, Strobe, Sated
  <2>3. CASE StateNextBurstItem(b)
    <3>1. state' = "StateNextBurstItem"
      BY <2>3, WaitsForItem DEF StateNextBurstItem
    <3>2. ~Strobe
      BY <2>3 DEF StateNextBurstItem, RestPins, Strobe
    <3> QED BY <3>1, <3>2 DEF OneWord, Sated
  <2>4. CASE StateTx(b)
    <3>1. state = "StateTx" /\ burstCount > 0 /\ pins'.wr = 1
      BY <2>4 DEF StateTx, TxPins, BurstInside
    <3>2. state' \in {"StateTx", "StateNextBurstItem"}
      BY <2>4, <3>1 DEF StateTx, TxAdvance, DriverInv, TypeOK
    <3> QED BY <3>1, <3>2 DEF OneWord, Sated, Strobe
  <2> QED BY <2>1, <2>2, <2>3, <2>4 DEF Cycle
<1> QED BY <1>2, <1>3, <1>4 DEF BurstInside

(* On such a bus the panel gets one word, and then no other until a reset: *)
(* what the generated interconnect makes of the LCD software's stores      *)
(* (altera_merlin_slave_translator.sv:438, lcdDriver.vhdl:488).            *)
THEOREM OneWordPerReset ==
  ASSUME BurstsOnly
  PROVE  Spec => [][OneWord]_driverVars
<1>1. Init => BurstInside
  BY DEF Init, BurstInside, NoWrite
<1>2. DriverInv /\ BurstInside /\ [Next]_driverVars => BurstInside' /\ [OneWord]_driverVars
  <2> SUFFICES ASSUME DriverInv, BurstInside, [Next]_driverVars
               PROVE  BurstInside' /\ [OneWord]_driverVars
    OBVIOUS
  <2>1. ASSUME NEW b \in Inputs, Cycle(b) PROVE BurstInside' /\ OneWord
    BY <2>1, CycleBurst
  <2>2. CASE Reset
    <3>1. BurstInside'
      BY <2>2 DEF Reset, BurstInside, NoWrite
    <3>2. OneWord
      BY <2>2 DEF Reset, RestPins, OneWord, Strobe
    <3> QED BY <3>1, <3>2
  <2>3. CASE UNCHANGED driverVars
    BY <2>3 DEF driverVars, BurstInside
  <2> QED BY <2>1, <2>2, <2>3 DEF Next
<1> QED BY <1>1, <1>2, DriverInvariant, PTL DEF Spec

-----------------------------------------------------------------------------
(* The panel is told "data" at every moment it is selected.                *)
OnlyData == pins.cs = 0 => pins.dc = 1

NoCommandInside ==
  /\ s.addr # RegWriteCmdAddr /\ p.addr # RegWriteCmdAddr
  /\ reg.addr # RegWriteCmdAddr
  /\ OnlyData

LEMMA CycleNoCommand ==
  ASSUME DriverInv, NoCommandInside, NEW b \in Inputs, b.addr # RegWriteCmdAddr, Cycle(b)
  PROVE  NoCommandInside'
<1>1. TypeOK
  BY DEF DriverInv
<1>2. Clocked(b)
  BY DEF Cycle, StateReset, StateLcdReset, StateResetIntRegData, StateIdle,
     StateNextBurstItem, StateEvalData, StatePrepareTx, StateTx
<1>3. s'.addr # RegWriteCmdAddr /\ p'.addr # RegWriteCmdAddr
  BY <1>2 DEF Clocked, Sample, NoCommandInside
<1>4. \A next \in Registers : Load(next) => reg'.addr = next.addr
  BY DEF Load, Registers
<1>5. reg \in Registers /\ ClearedRegisters \in Registers /\ p \in BusInput
  BY <1>1, ConstantTypes DEF TypeOK
<1>6. reg'.addr # RegWriteCmdAddr
  <2>1. CASE StateReset(b) \/ StateLcdReset(b)
    BY <1>4, <1>5, <2>1 DEF StateReset, StateLcdReset, ClearedRegisters, RegWriteCmdAddr
  <2>2. CASE StateResetIntRegData(b)
    BY <2>2 DEF StateResetIntRegData, Load, ClearedRegisters, RegWriteCmdAddr, NoAddress
  <2>3. CASE StateIdle(b)
    BY <1>5, <2>3 DEF StateIdle, Load, Taken, NoCommandInside, Registers
  <2>4. CASE StateNextBurstItem(b) \/ StateEvalData(b)
    BY <1>5, <2>4 DEF StateNextBurstItem, StateEvalData, Load, NoCommandInside, Registers
  <2>5. CASE StatePrepareTx(b) \/ StateTx(b)
    BY <1>4, <1>5, <2>5 DEF StatePrepareTx, StateTx, NoCommandInside
  <2>6. QED
    BY <2>1, <2>2, <2>3, <2>4, <2>5 DEF Cycle
<1>7. OnlyData'
  <2>1. CASE StateReset(b) \/ StateLcdReset(b)
    BY <2>1 DEF StateReset, StateLcdReset, RestPins, OnlyData
  <2>2. CASE StateResetIntRegData(b)
    BY <2>2 DEF StateResetIntRegData, NoCommandInside, OnlyData
  <2>3. CASE StateIdle(b) \/ StateNextBurstItem(b) \/ StateEvalData(b)
    BY <2>3 DEF StateIdle, StateNextBurstItem, StateEvalData, RestPins, OnlyData
  <2>4. CASE StatePrepareTx(b) \/ StateTx(b)
    BY <2>4 DEF StatePrepareTx, StateTx, TxPins, NoCommandInside, OnlyData
  <2>5. QED
    BY <2>1, <2>2, <2>3, <2>4 DEF Cycle
<1>8. QED
  BY <1>3, <1>6, <1>7 DEF NoCommandInside

(* A master that never writes register 4 never sends a command.  The LCD   *)
(* software is one: the byte offset 4 it writes commands to is register 2  *)
(* (main.c:40, LcdSoftware).                                               *)
THEOREM NoRegisterNoCommand ==
  ASSUME \A b \in Inputs : b.addr # RegWriteCmdAddr
  PROVE  Spec => []OnlyData
<1>1. Init => NoCommandInside
  BY DEF Init, NoCommandInside, OnlyData, NoWrite, ClearedRegisters, RestPins, RegWriteCmdAddr
<1>2. DriverInv /\ NoCommandInside /\ [Next]_driverVars => NoCommandInside'
  <2> SUFFICES ASSUME DriverInv, NoCommandInside, [Next]_driverVars
               PROVE  NoCommandInside'
    OBVIOUS
  <2>1. ASSUME NEW b \in Inputs, Cycle(b) PROVE NoCommandInside'
    BY <2>1, CycleNoCommand
  <2>2. CASE Reset
    BY <2>2 DEF Reset, NoCommandInside, OnlyData, NoWrite, ClearedRegisters, RestPins,
       RegWriteCmdAddr
  <2>3. CASE UNCHANGED driverVars
    BY <2>3 DEF driverVars, NoCommandInside, OnlyData
  <2>4. QED
    BY <2>1, <2>2, <2>3 DEF Next
<1>3. NoCommandInside => OnlyData
  BY DEF NoCommandInside
<1>4. QED
  BY <1>1, <1>2, <1>3, DriverInvariant, PTL DEF Spec

=============================================================================
