--------------------------- MODULE JtagUartProofs ----------------------------
(***************************************************************************)
(* Theorems about the JTAG UART and its driver, for rings and FIFOs of any *)
(* size, any timeouts and any number of bytes.                             *)
(***************************************************************************)
EXTENDS JtagUart, TLAPS

(* A call that copies into the transmit ring has its bytes for itself: they *)
(* are free, in one piece, and no more than it was asked for.              *)
WriterHasRoom ==
  call.pc \in {"w_copy", "w_publish"} =>
    /\ call.in = txIn /\ call.n > 0 /\ call.n <= call.count
    /\ call.in + call.n <= BufLen
    /\ Held(txIn, txOut) + call.n < BufLen

(* A call that copies from the receive ring finds its bytes there.         *)
ReaderHasBytes ==
  /\ call.pc \in {"r_copy", "r_publish"} =>
       /\ call.out = rxOut /\ call.n > 0 /\ call.n <= call.count
       /\ call.out + call.n <= BufLen
       /\ call.n <= Held(rxIn, rxOut)
  /\ call.pc \in {"r_load", "r_wait", "r_check"} => call.count > 0

(* The handler never offers the device more than it has room for.          *)
DeviceHasRoom == isr.pc \in {"rx", "tx"} => wfill + isr.space <= FifoDepth

(* What a spinning call compares the handler's index with.                 *)
SpinnersKnow ==
  /\ (call.pc = "w_kick" /\ call.count > 0) \/ call.pc = "w_wait" =>
       Wrap(txIn + 1) = call.out
  /\ call.pc \in {"r_wait", "r_check"} => call.in = rxOut

(* All that the run-time behaviour rests on, but what is in the rings.     *)
ControlInv ==
  /\ TypeOK
  /\ WriterHasRoom /\ ReaderHasBytes /\ DeviceHasRoom /\ SpinnersKnow
  /\ NothingStranded /\ ReaderWakesDevice

-----------------------------------------------------------------------------
(* Arithmetic of the rings.                                                *)

LEMMA WrapIndex ==
  ASSUME NEW i \in Index, NEW n \in 0..BufLen - 1
  PROVE  Wrap(i + n) \in Index
BY JtagAssumption DEF Wrap, Index

LEMMA HeldRange ==
  ASSUME NEW in \in Index, NEW out \in Index
  PROVE  Held(in, out) \in 0..BufLen - 1
BY JtagAssumption DEF Held, Index

(* The run of free slots is in one piece, free, and empty only in a full   *)
(* ring.                                                                   *)
LEMMA FreeRunFits ==
  ASSUME NEW in \in Index, NEW out \in Index
  PROVE  /\ FreeRun(in, out) \in 0..BufLen - 1
         /\ in + FreeRun(in, out) <= BufLen
         /\ Held(in, out) + FreeRun(in, out) < BufLen
         /\ FreeRun(in, out) = 0 => Wrap(in + 1) = out
BY JtagAssumption DEF FreeRun, Held, Wrap, Index

LEMMA FullRunFits ==
  ASSUME NEW in \in Index, NEW out \in Index
  PROVE  /\ FullRun(in, out) \in 0..BufLen - 1
         /\ out + FullRun(in, out) <= BufLen
         /\ FullRun(in, out) <= Held(in, out)
         /\ FullRun(in, out) = 0 => in = out
BY JtagAssumption DEF FullRun, Held, Index

(* A slot more at the in index, a slot less at the out index.              *)
LEMMA HeldSteps ==
  ASSUME NEW in \in Index, NEW out \in Index, NEW n \in 0..BufLen - 1
  PROVE  /\ Held(in, out) + n < BufLen => Held(Wrap(in + n), out) = Held(in, out) + n
         /\ n <= Held(in, out) => Held(in, Wrap(out + n)) = Held(in, out) - n
         /\ Wrap(in + 1) # out => Held(in, out) + 1 < BufLen
         /\ Wrap(in + 1) = out => Held(in, out) = BufLen - 1
         /\ in = out <=> Held(in, out) = 0
BY JtagAssumption DEF Held, Wrap, Index

LEMMA LeastFits ==
  ASSUME NEW a \in Nat, NEW b \in Nat
  PROVE  /\ Least(a, b) \in Nat /\ Least(a, b) <= a /\ Least(a, b) <= b
         /\ Least(a, b) = 0 => a = 0 \/ b = 0
BY DEF Least

-----------------------------------------------------------------------------
(* Steps.                                                                  *)

(* The numbers that the type invariant bounds.                             *)
LEMMA Numbers ==
  ASSUME TypeOK
  PROVE  /\ BufLen \in Nat /\ BufLen > 1 /\ FifoDepth \in Nat
         /\ wfill \in Nat /\ wfill <= FifoDepth
         /\ rfill \in Nat /\ rfill <= FifoDepth
         /\ isr.space \in Nat /\ isr.space <= FifoDepth
         /\ call.count \in Nat /\ call.n \in Nat /\ call.n < BufLen
         /\ call.in \in Nat /\ call.in < BufLen /\ call.out \in Nat /\ call.out < BufLen
         /\ txPut \in Nat /\ rxTaken \in Nat
<1>1. wfill \in 0..FifoDepth /\ rfill \in 0..FifoDepth /\ txPut \in Nat /\ rxTaken \in Nat
  BY DEF TypeOK
<1>2. isr.space \in 0..FifoDepth
  BY DEF TypeOK
<1>3. call.count \in Nat /\ call.n \in 0..BufLen - 1 /\ call.in \in Index /\ call.out \in Index
  BY DEF TypeOK
<1>4. QED
  BY <1>1, <1>2, <1>3, JtagAssumption DEF Index

(* What WriteLoad and ReadLoad find.                                       *)
LEMMA LoadWrite ==
  ASSUME TypeOK
  PROVE  LET n == Least(FreeRun(txIn, txOut), call.count)
         IN  /\ n \in 0..BufLen - 1 /\ n <= call.count
             /\ txIn + n <= BufLen
             /\ Held(txIn, txOut) + n < BufLen
             /\ n = 0 /\ call.count # 0 => Wrap(txIn + 1) = txOut
<1>1. txIn \in Index /\ txOut \in Index /\ call.count \in Nat
  BY DEF TypeOK
<1>2. FreeRun(txIn, txOut) \in Nat /\ Held(txIn, txOut) \in Nat
  BY <1>1, FreeRunFits, HeldRange, JtagAssumption
<1> DEFINE f == FreeRun(txIn, txOut)
           h == Held(txIn, txOut)
           n == Least(f, call.count)
<1>3. /\ f <= BufLen - 1 /\ txIn + f <= BufLen /\ h + f < BufLen
      /\ f = 0 => Wrap(txIn + 1) = txOut
  BY <1>1, FreeRunFits, JtagAssumption
<1>4. n \in Nat /\ n <= f /\ n <= call.count /\ (n = 0 => f = 0 \/ call.count = 0)
  BY <1>1, <1>2, LeastFits
<1>5. txIn \in Nat /\ BufLen \in Nat
  BY <1>1, JtagAssumption DEF Index
<1> HIDE DEF f, h, n
<1>6. n \in 0..BufLen - 1 /\ txIn + n <= BufLen /\ h + n < BufLen
  BY <1>2, <1>3, <1>4, <1>5 DEF f, h
<1>7. QED
  BY <1>3, <1>4, <1>6 DEF f, h, n

LEMMA LoadRead ==
  ASSUME TypeOK
  PROVE  LET n == Least(FullRun(rxIn, rxOut), call.count)
         IN  /\ n \in 0..BufLen - 1 /\ n <= call.count
             /\ rxOut + n <= BufLen
             /\ n <= Held(rxIn, rxOut)
             /\ n = 0 /\ call.count # 0 => rxIn = rxOut
<1>1. rxIn \in Index /\ rxOut \in Index /\ call.count \in Nat
  BY DEF TypeOK
<1>2. FullRun(rxIn, rxOut) \in Nat /\ Held(rxIn, rxOut) \in Nat
  BY <1>1, FullRunFits, HeldRange, JtagAssumption
<1> DEFINE f == FullRun(rxIn, rxOut)
           h == Held(rxIn, rxOut)
           n == Least(f, call.count)
<1>3. /\ f <= BufLen - 1 /\ rxOut + f <= BufLen /\ f <= h
      /\ f = 0 => rxIn = rxOut
  BY <1>1, FullRunFits, JtagAssumption
<1>4. n \in Nat /\ n <= f /\ n <= call.count /\ (n = 0 => f = 0 \/ call.count = 0)
  BY <1>1, <1>2, LeastFits
<1>5. rxOut \in Nat /\ BufLen \in Nat
  BY <1>1, JtagAssumption DEF Index
<1> HIDE DEF f, h, n
<1>6. n \in 0..BufLen - 1 /\ rxOut + n <= BufLen /\ n <= h
  BY <1>2, <1>3, <1>4, <1>5 DEF f, h
<1>7. QED
  BY <1>3, <1>4, <1>6 DEF f, h, n

IsrType == [pc : {"off", "control", "rx", "tx"}, data : BOOLEAN, wi : BOOLEAN,
            space : 0..FifoDepth]

CallType == [pc : Pcs, count : Nat, done : BOOLEAN, nonblock : BOOLEAN,
             in : Index, out : Index, n : 0..BufLen - 1]

LEMMA IdleCallType == IdleCall \in CallType
BY JtagAssumption DEF IdleCall, CallType, Pcs, Index

-----------------------------------------------------------------------------
(* The types, which hold whatever is in the rings: of the handler's steps  *)
(* and of a write's.                                                       *)

(* What a write keeps to that copies from a slot of its own.               *)
CopyFits ==
  call.pc \in {"w_copy", "w_publish"} =>
    call.n > 0 /\ call.n <= call.count /\ call.in + call.n <= BufLen

LEMMA IsrEnterTypes ==
  ASSUME TypeOK, DeviceHasRoom, IsrEnter
  PROVE  TypeOK' /\ DeviceHasRoom'
<1> USE DEF At, Goto, Return, hostVars, txVars, rxVars, IdleCall, IsrOff, RE, WE
<1>1. TypeOK'
  BY JtagAssumption DEF IsrEnter, TypeOK, Index, Pcs, WritePcs, ReadPcs
<1>2. DeviceHasRoom'
  BY JtagAssumption DEF IsrEnter, DeviceHasRoom, TypeOK, Index, Pcs, WritePcs, ReadPcs
<1>3. QED
  BY <1>1, <1>2

LEMMA IsrControlTypes ==
  ASSUME TypeOK, DeviceHasRoom, IsrControl
  PROVE  TypeOK' /\ DeviceHasRoom'
<1> USE DEF At, Goto, Return, hostVars, txVars, rxVars, IdleCall, IsrOff, RE, WE
<1>1. TypeOK'
  <2>1. FifoDepth - wfill \in 0..FifoDepth /\ 0 \in 0..FifoDepth
    BY JtagAssumption DEF TypeOK
  <2>2. /\ ReadInterrupt \in BOOLEAN /\ WriteInterrupt \in BOOLEAN
    BY DEF ReadInterrupt, WriteInterrupt
  <2>3. isr' \in [pc : {"off", "control", "rx", "tx"}, data : BOOLEAN, wi : BOOLEAN,
                  space : 0..FifoDepth]
    BY <2>1, <2>2 DEF IsrControl
  <2>4. QED
    BY <2>3 DEF IsrControl, TypeOK
<1>2. DeviceHasRoom'
  <2>1. wfill' = wfill /\ wfill + (FifoDepth - wfill) <= FifoDepth
    BY Numbers DEF IsrControl
  <2>2. isr'.pc \in {"rx", "tx"} => isr'.space = FifoDepth - wfill
    BY DEF IsrControl
  <2>3. QED
    BY <2>1, <2>2 DEF DeviceHasRoom
<1>3. QED
  BY <1>1, <1>2

LEMMA IsrRxTypes ==
  ASSUME TypeOK, DeviceHasRoom, IsrRx
  PROVE  TypeOK' /\ DeviceHasRoom'
<1> USE DEF At, Goto, Return, hostVars, txVars, rxVars, IdleCall, IsrOff, RE, WE
<1>1. TypeOK'
  <2>1. Wrap(rxIn + 1) \in Index
    BY WrapIndex, JtagAssumption DEF TypeOK
  <2>2. rfill - 1 \in 0..FifoDepth /\ rxTaken + 1 \in Nat
    BY Numbers DEF IsrRx
  <2>3. isr' \in IsrType
    <3>1. isr \in IsrType /\ (rfill > 1) \in BOOLEAN
      BY DEF TypeOK, IsrType
    <3>2. QED
      BY <3>1 DEF IsrRx, IsrType
  <2>4. rxBuf' \in [Index -> Nat]
    BY <2>2 DEF IsrRx, TypeOK
  <2>5. QED
    BY <2>1, <2>2, <2>3, <2>4 DEF IsrRx, TypeOK, IsrType
<1>2. DeviceHasRoom'
  BY JtagAssumption DEF IsrRx, DeviceHasRoom, TypeOK, Index, Pcs, WritePcs, ReadPcs
<1>3. QED
  BY <1>1, <1>2

LEMMA IsrRxEndTypes ==
  ASSUME TypeOK, DeviceHasRoom, IsrRxEnd
  PROVE  TypeOK' /\ DeviceHasRoom'
<1> USE DEF At, Goto, Return, hostVars, txVars, rxVars, IdleCall, IsrOff, RE, WE
<1>1. TypeOK'
  BY JtagAssumption DEF IsrRxEnd, TypeOK, Index, Pcs, WritePcs, ReadPcs
<1>2. DeviceHasRoom'
  BY JtagAssumption DEF IsrRxEnd, DeviceHasRoom, TypeOK, Index, Pcs, WritePcs, ReadPcs
<1>3. QED
  BY <1>1, <1>2

LEMMA IsrTxTypes ==
  ASSUME TypeOK, DeviceHasRoom, IsrTx
  PROVE  TypeOK' /\ DeviceHasRoom'
<1> USE DEF At, Goto, Return, hostVars, txVars, rxVars, IdleCall, IsrOff, RE, WE
<1>1. TypeOK'
  <2>1. Wrap(txOut + 1) \in Index
    BY WrapIndex, JtagAssumption DEF TypeOK
  <2>2. wfill' \in 0..FifoDepth /\ isr.space - 1 \in 0..FifoDepth
    <3>1. isr.space > 0 /\ wfill' = (IF wfill < FifoDepth THEN wfill + 1 ELSE wfill)
      BY DEF IsrTx
    <3>2. /\ FifoDepth \in Nat /\ wfill \in Nat /\ wfill <= FifoDepth
          /\ isr.space \in Nat /\ isr.space <= FifoDepth
      BY Numbers
    <3>3. QED
      BY <3>1, <3>2
  <2>3. sent' \in Seq(Nat)
    <3>1. txBuf[txOut] \in Nat /\ sent \in Seq(Nat)
      BY DEF TypeOK
    <3>2. Append(sent, txBuf[txOut]) \in Seq(Nat)
      BY <3>1
    <3>3. QED
      BY <3>1, <3>2 DEF IsrTx
  <2>4. isr' \in [pc : {"off", "control", "rx", "tx"}, data : BOOLEAN, wi : BOOLEAN,
                  space : 0..FifoDepth]
    BY <2>2 DEF IsrTx, TypeOK
  <2>5. QED
    BY <2>1, <2>2, <2>3, <2>4 DEF IsrTx, TypeOK
<1>2. DeviceHasRoom'
  <2>1. wfill' <= wfill + 1 /\ wfill' \in Int /\ wfill \in Int /\ FifoDepth \in Int
    <3>1. wfill' = (IF wfill < FifoDepth THEN wfill + 1 ELSE wfill)
      BY DEF IsrTx
    <3>2. FifoDepth \in Nat /\ wfill \in Nat
      BY Numbers
    <3>3. QED
      BY <3>1, <3>2
  <2>2. isr'.space = isr.space - 1 /\ isr.space \in Int /\ isr.pc = "tx"
    BY JtagAssumption DEF IsrTx, TypeOK
  <2>3. QED
    BY <2>1, <2>2 DEF DeviceHasRoom
<1>3. QED
  BY <1>1, <1>2

LEMMA IsrTxEndTypes ==
  ASSUME TypeOK, DeviceHasRoom, IsrTxEnd
  PROVE  TypeOK' /\ DeviceHasRoom'
<1> USE DEF At, Goto, Return, hostVars, txVars, rxVars, IdleCall, IsrOff, RE, WE
<1>1. TypeOK'
  <2>0. 0 \in 0..FifoDepth
    BY Numbers
  <2>1. isr \in IsrType
    BY DEF TypeOK, IsrType
  <2>2. isr' \in IsrType
    BY <2>0, <2>1 DEF IsrTxEnd, IsrType
  <2>3. QED
    BY <2>2 DEF IsrTxEnd, TypeOK, IsrType
<1>2. DeviceHasRoom'
  BY JtagAssumption DEF IsrTxEnd, DeviceHasRoom, TypeOK, Index, Pcs, WritePcs, ReadPcs
<1>3. QED
  BY <1>1, <1>2

LEMMA WriteLoadTypes ==
  ASSUME TypeOK, CopyFits, WriteLoad
  PROVE  TypeOK' /\ CopyFits'
<1> USE DEF At, Goto, Return, hostVars, txVars, rxVars, IdleCall, IsrOff, RE, WE
<1>1. TypeOK'
  <2>1. Least(FreeRun(txIn, txOut), call.count) \in 0..BufLen - 1
    BY LoadWrite, JtagAssumption DEF TypeOK
  <2>2. {"w_kick", "w_copy"} \subseteq Pcs
    BY DEF Pcs, WritePcs
  <2>3. call' \in CallType
    <3>1. /\ call \in CallType /\ "w_kick" \in Pcs /\ "w_copy" \in Pcs
          /\ txIn \in Index /\ txOut \in Index
      BY <2>2 DEF TypeOK, CallType
    <3>2. \/ call' = [call EXCEPT !.pc = "w_kick"]
          \/ call' = [call EXCEPT !.pc = IF Least(FreeRun(txIn, txOut), call.count) = 0
                                         THEN "w_kick" ELSE "w_copy",
                                  !.in = txIn, !.out = txOut,
                                  !.n = Least(FreeRun(txIn, txOut), call.count)]
      BY DEF WriteLoad
    <3>3. QED
      BY <2>1, <3>1, <3>2 DEF CallType
  <2>4. QED
    BY <2>3 DEF WriteLoad, TypeOK, CallType
<1>2. CopyFits'
  <2>0. call \in CallType
    BY DEF TypeOK, CallType
  <2>1. call'.pc \in {"w_copy", "w_publish"} =>
          /\ call'.pc = "w_copy" /\ call.count # 0
          /\ call'.n = Least(FreeRun(txIn, txOut), call.count)
          /\ call'.n # 0 /\ call'.in = txIn /\ call'.count = call.count
    <3>1. CASE call.count = 0
      BY <2>0, <3>1 DEF WriteLoad, CallType
    <3>2. CASE call.count # 0
      <4>1. call' = [call EXCEPT !.pc = IF Least(FreeRun(txIn, txOut), call.count) = 0
                                          THEN "w_kick" ELSE "w_copy",
                                  !.in = txIn, !.out = txOut,
                                  !.n = Least(FreeRun(txIn, txOut), call.count)]
        BY <3>2 DEF WriteLoad
      <4>2. QED
        BY <2>0, <3>2, <4>1 DEF CallType
    <3>3. QED
      BY <3>1, <3>2
  <2>2. txIn' = txIn /\ txOut' = txOut
    BY DEF WriteLoad
  <2>3. QED
    BY <2>1, <2>2, LoadWrite DEF CopyFits
<1>3. QED
  BY <1>1, <1>2

LEMMA WriteCopyTypes ==
  ASSUME TypeOK, CopyFits, WriteCopy
  PROVE  TypeOK' /\ CopyFits'
<1> USE DEF At, Goto, Return, hostVars, txVars, rxVars, IdleCall, IsrOff, RE, WE
<1>1. TypeOK'
  <2>1. \A i \in Index : call.in <= i => txPut + 1 + (i - call.in) \in Nat
    BY Numbers DEF Index
  <2>2. txBuf \in [Index -> Nat]
    BY DEF TypeOK
  <2>3. txBuf' \in [Index -> Nat]
    BY <2>1, <2>2 DEF WriteCopy, Index
  <2>4. call' \in CallType
    BY DEF WriteCopy, TypeOK, CallType, Pcs, WritePcs
  <2>5. QED
    BY <2>3, <2>4 DEF WriteCopy, TypeOK, CallType
<1>2. CopyFits'
  BY JtagAssumption DEF WriteCopy, CopyFits, TypeOK, Index, Pcs, WritePcs, ReadPcs
<1>3. QED
  BY <1>1, <1>2

LEMMA WritePublishTypes ==
  ASSUME TypeOK, CopyFits, WritePublish
  PROVE  TypeOK' /\ CopyFits'
<1> USE DEF At, Goto, Return, hostVars, txVars, rxVars, IdleCall, IsrOff, RE, WE
<1>1. TypeOK'
  <2>1. Wrap(call.in + call.n) \in Index
    BY WrapIndex DEF TypeOK
  <2>2. txPut + call.n \in Nat /\ call.count - call.n \in Nat /\ 0 \in Index
        /\ 0 \in 0..BufLen - 1
    BY Numbers DEF WritePublish, CopyFits, Index
  <2>3. call' \in CallType
    BY <2>2 DEF WritePublish, TypeOK, CallType, Pcs, WritePcs
  <2>4. QED
    BY <2>1, <2>2, <2>3 DEF WritePublish, TypeOK, CallType
<1>2. CopyFits'
  BY JtagAssumption DEF WritePublish, CopyFits, TypeOK, Index, Pcs, WritePcs, ReadPcs
<1>3. QED
  BY <1>1, <1>2

LEMMA WriteKickTypes ==
  ASSUME TypeOK, CopyFits, WriteKick
  PROVE  TypeOK' /\ CopyFits'
<1> USE DEF At, Goto, Return, hostVars, txVars, rxVars, IdleCall, IsrOff, RE, WE
<1>1. TypeOK'
  BY JtagAssumption DEF WriteKick, TypeOK, Index, Pcs, WritePcs, ReadPcs
<1>2. CopyFits'
  BY JtagAssumption DEF WriteKick, CopyFits, TypeOK, Index, Pcs, WritePcs, ReadPcs
<1>3. QED
  BY <1>1, <1>2

LEMMA WriteWaitTypes ==
  ASSUME TypeOK, CopyFits, WriteWait
  PROVE  TypeOK' /\ CopyFits'
<1> USE DEF At, Goto, Return, hostVars, txVars, rxVars, IdleCall, IsrOff, RE, WE
<1>1. TypeOK'
  BY JtagAssumption DEF WriteWait, TypeOK, Index, Pcs, WritePcs, ReadPcs
<1>2. CopyFits'
  BY JtagAssumption DEF WriteWait, CopyFits, TypeOK, Index, Pcs, WritePcs, ReadPcs
<1>3. QED
  BY <1>1, <1>2

LEMMA WriteCheckTypes ==
  ASSUME TypeOK, CopyFits, WriteCheck
  PROVE  TypeOK' /\ CopyFits'
<1> USE DEF At, Goto, Return, hostVars, txVars, rxVars, IdleCall, IsrOff, RE, WE
<1>1. TypeOK'
  BY JtagAssumption DEF WriteCheck, TypeOK, Index, Pcs, WritePcs, ReadPcs
<1>2. CopyFits'
  BY JtagAssumption DEF WriteCheck, CopyFits, TypeOK, Index, Pcs, WritePcs, ReadPcs
<1>3. QED
  BY <1>1, <1>2

LEMMA WriteReturnTypes ==
  ASSUME TypeOK, CopyFits, WriteReturn
  PROVE  TypeOK' /\ CopyFits'
<1> USE DEF At, Goto, Return, hostVars, txVars, rxVars, IdleCall, IsrOff, RE, WE
<1>1. TypeOK'
  <2>1. call' \in CallType
    BY IdleCallType DEF WriteReturn, CallType, Pcs, WritePcs, ReadPcs
  <2>2. QED
    BY <2>1 DEF WriteReturn, TypeOK, CallType
<1>2. CopyFits'
  BY JtagAssumption DEF WriteReturn, CopyFits, TypeOK, Index, Pcs, WritePcs, ReadPcs
<1>3. QED
  BY <1>1, <1>2

LEMMA IsrTypes ==
  ASSUME TypeOK, DeviceHasRoom, IsrNext
  PROVE  TypeOK' /\ DeviceHasRoom'
BY IsrEnterTypes, IsrControlTypes, IsrRxTypes, IsrRxEndTypes, IsrTxTypes, IsrTxEndTypes
   DEF IsrNext

LEMMA WriteTypes ==
  ASSUME TypeOK, CopyFits, WriteNext
  PROVE  TypeOK' /\ CopyFits'
BY WriteLoadTypes, WriteCopyTypes, WritePublishTypes, WriteKickTypes, WriteWaitTypes,
   WriteCheckTypes, WriteReturnTypes DEF WriteNext

LEMMA StartWriteTypes ==
  ASSUME TypeOK, NEW count \in Nat, NEW nonblock \in BOOLEAN, StartWrite(count, nonblock)
  PROVE  TypeOK' /\ call'.pc = "w_load"
<1>1. IdleCall \in CallType /\ "w_load" \in Pcs
  BY IdleCallType DEF Pcs, WritePcs
<1>2. call' = [IdleCall EXCEPT !.pc = "w_load", !.count = count, !.nonblock = nonblock]
  BY DEF StartWrite
<1>3. call' \in CallType /\ call'.pc = "w_load"
  BY <1>1, <1>2 DEF CallType
<1>4. QED
  BY <1>3 DEF StartWrite, TypeOK, CallType, hostVars, txVars, rxVars

LEMMA HostPollTypes ==
  ASSUME TypeOK, DeviceHasRoom, HostPoll
  PROVE  TypeOK' /\ DeviceHasRoom'
<1>1. wfill' \in 0..FifoDepth /\ wfill' <= wfill
  BY JtagAssumption DEF HostPoll, TypeOK
<1>2. rfill' \in 0..FifoDepth
  BY Numbers DEF HostPoll
<1>3. TypeOK'
  BY <1>1, <1>2 DEF HostPoll, TypeOK
<1>4. wfill' \in Int /\ wfill \in Int /\ isr' = isr /\ isr.space \in Int
  BY <1>1, Numbers, JtagAssumption DEF HostPoll
<1>5. QED
  BY <1>1, <1>3, <1>4, JtagAssumption DEF DeviceHasRoom

(* A write that has room keeps it: the handler only takes from the ring.   *)
LEMMA WriterKept ==
  ASSUME TypeOK, WriterHasRoom, IsrNext \/ WriteNext
  PROVE  WriterHasRoom'
<1> USE DEF At, Goto, Return, hostVars, txVars, rxVars, IdleCall, IsrOff, RE, WE
<1>1. CASE IsrEnter
  BY <1>1, JtagAssumption DEF IsrEnter, WriterHasRoom, TypeOK, Index, Pcs, WritePcs, ReadPcs
<1>2. CASE IsrControl
  BY <1>2, JtagAssumption DEF IsrControl, WriterHasRoom, TypeOK, Index, Pcs, WritePcs, ReadPcs
<1>3. CASE IsrRx
  BY <1>3, JtagAssumption DEF IsrRx, WriterHasRoom, TypeOK, Index, Pcs, WritePcs, ReadPcs
<1>4. CASE IsrRxEnd
  BY <1>4, JtagAssumption DEF IsrRxEnd, WriterHasRoom, TypeOK, Index, Pcs, WritePcs, ReadPcs
<1>5. CASE IsrTx
  <2>1. /\ txIn \in Index /\ txOut \in Index /\ call.n \in 0..BufLen - 1
        /\ txOut' = Wrap(txOut + 1) /\ txIn' = txIn /\ call' = call
    BY <1>5 DEF IsrTx, TypeOK
  <2>2. Held(txIn, txOut) \in 0..BufLen - 1 /\ Held(txIn, txOut) # 0
    BY <1>5, <2>1, HeldRange, HeldSteps, JtagAssumption DEF IsrTx
  <2>3. Held(txIn', txOut') = Held(txIn, txOut) - 1
    BY <2>1, <2>2, HeldSteps, JtagAssumption
  <2>4. Held(txIn, txOut) \in Int /\ call.n \in Int /\ BufLen \in Int
    BY <2>1, <2>2, JtagAssumption
  <2>5. QED
    BY <2>1, <2>3, <2>4 DEF WriterHasRoom
<1>6. CASE IsrTxEnd
  BY <1>6, JtagAssumption DEF IsrTxEnd, WriterHasRoom, TypeOK, Index, Pcs, WritePcs, ReadPcs
<1>7. CASE WriteLoad
  <2>0. call \in CallType
    BY DEF TypeOK, CallType
  <2>1. call'.pc \in {"w_copy", "w_publish"} =>
          /\ call'.pc = "w_copy" /\ call.count # 0
          /\ call'.n = Least(FreeRun(txIn, txOut), call.count)
          /\ call'.n # 0 /\ call'.in = txIn /\ call'.count = call.count
    <3>1. CASE call.count = 0
      BY <1>7, <2>0, <3>1 DEF WriteLoad, CallType
    <3>2. CASE call.count # 0
      <4>1. call' = [call EXCEPT !.pc = IF Least(FreeRun(txIn, txOut), call.count) = 0
                                          THEN "w_kick" ELSE "w_copy",
                                  !.in = txIn, !.out = txOut,
                                  !.n = Least(FreeRun(txIn, txOut), call.count)]
        BY <1>7, <3>2 DEF WriteLoad
      <4>2. QED
        BY <2>0, <3>2, <4>1 DEF CallType
    <3>3. QED
      BY <3>1, <3>2
  <2>2. txIn' = txIn /\ txOut' = txOut
    BY <1>7 DEF WriteLoad
  <2>3. QED
    BY <2>1, <2>2, LoadWrite DEF WriterHasRoom
<1>8. CASE WriteCopy
  BY <1>8, JtagAssumption DEF WriteCopy, WriterHasRoom, TypeOK, Index, Pcs, WritePcs, ReadPcs
<1>9. CASE WritePublish
  BY <1>9, JtagAssumption DEF WritePublish, WriterHasRoom, TypeOK, Index, Pcs, WritePcs, ReadPcs
<1>10. CASE WriteKick
  BY <1>10, JtagAssumption DEF WriteKick, WriterHasRoom, TypeOK, Index, Pcs, WritePcs, ReadPcs
<1>11. CASE WriteWait
  BY <1>11, JtagAssumption DEF WriteWait, WriterHasRoom, TypeOK, Index, Pcs, WritePcs, ReadPcs
<1>12. CASE WriteCheck
  BY <1>12, JtagAssumption DEF WriteCheck, WriterHasRoom, TypeOK, Index, Pcs, WritePcs, ReadPcs
<1>13. CASE WriteReturn
  BY <1>13, JtagAssumption DEF WriteReturn, WriterHasRoom, TypeOK, Index, Pcs, WritePcs, ReadPcs
<1>14. QED
  BY <1>1, <1>2, <1>3, <1>4, <1>5, <1>6, <1>7, <1>8, <1>9, <1>10, <1>11, <1>12, <1>13
     DEF IsrNext, WriteNext

-----------------------------------------------------------------------------
(* The control part of the invariant.                                      *)

LEMMA HostPollControl ==
  ASSUME ControlInv, HostPoll
  PROVE  ControlInv'
<1> USE DEF ControlInv, At, Goto, Return, hostVars, txVars, rxVars, IdleCall, IsrOff, RE, WE
<1>1. TypeOK'
  BY HostPollTypes
<1>2. WriterHasRoom'
  BY JtagAssumption DEF HostPoll, WriterHasRoom, TypeOK, Index, Pcs, WritePcs, ReadPcs
<1>3. ReaderHasBytes'
  BY JtagAssumption DEF HostPoll, ReaderHasBytes, TypeOK, Index, Pcs, WritePcs, ReadPcs
<1>4. DeviceHasRoom'
  BY HostPollTypes
<1>5. SpinnersKnow'
  BY JtagAssumption DEF HostPoll, SpinnersKnow, TypeOK, Index, Pcs, WritePcs, ReadPcs
<1>6. NothingStranded'
  BY JtagAssumption DEF HostPoll, NothingStranded, TypeOK, Index, Pcs, WritePcs, ReadPcs
<1>7. ReaderWakesDevice'
  BY JtagAssumption DEF HostPoll, ReaderWakesDevice, TypeOK, Index, Pcs, WritePcs, ReadPcs
<1>8. QED
  BY <1>1, <1>2, <1>3, <1>4, <1>5, <1>6, <1>7

LEMMA IsrEnterControl ==
  ASSUME ControlInv, IsrEnter
  PROVE  ControlInv'
<1> USE DEF ControlInv, At, Goto, Return, hostVars, txVars, rxVars, IdleCall, IsrOff, RE, WE
<1>1. TypeOK'
  BY IsrEnterTypes
<1>2. WriterHasRoom'
  BY WriterKept DEF IsrNext
<1>3. ReaderHasBytes'
  BY JtagAssumption DEF IsrEnter, ReaderHasBytes, TypeOK, Index, Pcs, WritePcs, ReadPcs
<1>4. DeviceHasRoom'
  BY IsrEnterTypes
<1>5. SpinnersKnow'
  BY JtagAssumption DEF IsrEnter, SpinnersKnow, TypeOK, Index, Pcs, WritePcs, ReadPcs
<1>6. NothingStranded'
  BY JtagAssumption DEF IsrEnter, NothingStranded, TypeOK, Index, Pcs, WritePcs, ReadPcs
<1>7. ReaderWakesDevice'
  BY JtagAssumption DEF IsrEnter, ReaderWakesDevice, TypeOK, Index, Pcs, WritePcs, ReadPcs
<1>8. QED
  BY <1>1, <1>2, <1>3, <1>4, <1>5, <1>6, <1>7

LEMMA IsrControlControl ==
  ASSUME ControlInv, IsrControl
  PROVE  ControlInv'
<1> USE DEF ControlInv, At, Goto, Return, hostVars, txVars, rxVars, IdleCall, IsrOff, RE, WE
<1>1. TypeOK'
  BY IsrControlTypes
<1>2. WriterHasRoom'
  BY WriterKept DEF IsrNext
<1>3. ReaderHasBytes'
  BY JtagAssumption DEF IsrControl, ReaderHasBytes, TypeOK, Index, Pcs, WritePcs, ReadPcs
<1>4. DeviceHasRoom'
  BY IsrControlTypes
<1>5. SpinnersKnow'
  BY JtagAssumption DEF IsrControl, SpinnersKnow, TypeOK, Index, Pcs, WritePcs, ReadPcs
<1>6. NothingStranded'
  BY JtagAssumption DEF IsrControl, NothingStranded, TypeOK, Index, Pcs, WritePcs, ReadPcs
<1>7. ReaderWakesDevice'
  BY JtagAssumption DEF IsrControl, ReaderWakesDevice, TypeOK, Index, Pcs, WritePcs, ReadPcs
<1>8. QED
  BY <1>1, <1>2, <1>3, <1>4, <1>5, <1>6, <1>7

LEMMA IsrRxControl ==
  ASSUME ControlInv, IsrRx
  PROVE  ControlInv'
<1> USE DEF ControlInv, At, Goto, Return, hostVars, txVars, rxVars, IdleCall, IsrOff, RE, WE
<1>1. TypeOK'
  BY IsrRxTypes
<1>2. WriterHasRoom'
  BY WriterKept DEF IsrNext
<1>3. ReaderHasBytes'
  <2>1. /\ rxIn \in Index /\ rxOut \in Index /\ call.n \in 0..BufLen - 1
        /\ rxIn' = Wrap(rxIn + 1) /\ rxOut' = rxOut /\ call' = call
    BY DEF IsrRx, TypeOK
  <2>2. Held(rxIn', rxOut') = Held(rxIn, rxOut) + 1
    BY <2>1, HeldSteps, JtagAssumption DEF IsrRx
  <2>3. Held(rxIn, rxOut) \in Int /\ call.n \in Int
    BY <2>1, HeldRange, JtagAssumption
  <2>4. QED
    BY <2>1, <2>2, <2>3 DEF ReaderHasBytes
<1>4. DeviceHasRoom'
  BY IsrRxTypes
<1>5. SpinnersKnow'
  BY JtagAssumption DEF IsrRx, SpinnersKnow, TypeOK, Index, Pcs, WritePcs, ReadPcs
<1>6. NothingStranded'
  BY JtagAssumption DEF IsrRx, NothingStranded, TypeOK, Index, Pcs, WritePcs, ReadPcs
<1>7. ReaderWakesDevice'
  BY JtagAssumption DEF IsrRx, ReaderWakesDevice, TypeOK, Index, Pcs, WritePcs, ReadPcs
<1>8. QED
  BY <1>1, <1>2, <1>3, <1>4, <1>5, <1>6, <1>7

LEMMA IsrRxEndControl ==
  ASSUME ControlInv, IsrRxEnd
  PROVE  ControlInv'
<1> USE DEF ControlInv, At, Goto, Return, hostVars, txVars, rxVars, IdleCall, IsrOff, RE, WE
<1>1. TypeOK'
  BY IsrRxEndTypes
<1>2. WriterHasRoom'
  BY WriterKept DEF IsrNext
<1>3. ReaderHasBytes'
  BY JtagAssumption DEF IsrRxEnd, ReaderHasBytes, TypeOK, Index, Pcs, WritePcs, ReadPcs
<1>4. DeviceHasRoom'
  BY IsrRxEndTypes
<1>5. SpinnersKnow'
  BY JtagAssumption DEF IsrRxEnd, SpinnersKnow, TypeOK, Index, Pcs, WritePcs, ReadPcs
<1>6. NothingStranded'
  BY JtagAssumption DEF IsrRxEnd, NothingStranded, TypeOK, Index, Pcs, WritePcs, ReadPcs
<1>7. ReaderWakesDevice'
  <2>1. Wrap(rxIn + 1) = rxOut => rxIn # rxOut
    BY JtagAssumption DEF Wrap, TypeOK, Index
  <2>2. RE \in irqEnable /\ RE \notin irqEnable' => Wrap(rxIn + 1) = rxOut
    BY DEF IsrRxEnd
  <2>3. QED
    BY <2>1, <2>2 DEF IsrRxEnd, ReaderWakesDevice
<1>8. QED
  BY <1>1, <1>2, <1>3, <1>4, <1>5, <1>6, <1>7

LEMMA IsrTxControl ==
  ASSUME ControlInv, IsrTx
  PROVE  ControlInv'
<1> USE DEF ControlInv, At, Goto, Return, hostVars, txVars, rxVars, IdleCall, IsrOff, RE, WE
<1>1. TypeOK'
  BY IsrTxTypes
<1>2. WriterHasRoom'
  BY WriterKept DEF IsrNext
<1>3. ReaderHasBytes'
  BY JtagAssumption DEF IsrTx, ReaderHasBytes, TypeOK, Index, Pcs, WritePcs, ReadPcs
<1>4. DeviceHasRoom'
  BY IsrTxTypes
<1>5. SpinnersKnow'
  BY JtagAssumption DEF IsrTx, SpinnersKnow, TypeOK, Index, Pcs, WritePcs, ReadPcs
<1>6. NothingStranded'
  BY JtagAssumption DEF IsrTx, NothingStranded, TypeOK, Index, Pcs, WritePcs, ReadPcs
<1>7. ReaderWakesDevice'
  BY JtagAssumption DEF IsrTx, ReaderWakesDevice, TypeOK, Index, Pcs, WritePcs, ReadPcs
<1>8. QED
  BY <1>1, <1>2, <1>3, <1>4, <1>5, <1>6, <1>7

LEMMA IsrTxEndControl ==
  ASSUME ControlInv, IsrTxEnd
  PROVE  ControlInv'
<1> USE DEF ControlInv, At, Goto, Return, hostVars, txVars, rxVars, IdleCall, IsrOff, RE, WE
<1>1. TypeOK'
  BY IsrTxEndTypes
<1>2. WriterHasRoom'
  BY WriterKept DEF IsrNext
<1>3. ReaderHasBytes'
  BY JtagAssumption DEF IsrTxEnd, ReaderHasBytes, TypeOK, Index, Pcs, WritePcs, ReadPcs
<1>4. DeviceHasRoom'
  BY IsrTxEndTypes
<1>5. SpinnersKnow'
  BY JtagAssumption DEF IsrTxEnd, SpinnersKnow, TypeOK, Index, Pcs, WritePcs, ReadPcs
<1>6. NothingStranded'
  BY JtagAssumption DEF IsrTxEnd, NothingStranded, TypeOK, Index, Pcs, WritePcs, ReadPcs
<1>7. ReaderWakesDevice'
  BY JtagAssumption DEF IsrTxEnd, ReaderWakesDevice, TypeOK, Index, Pcs, WritePcs, ReadPcs
<1>8. QED
  BY <1>1, <1>2, <1>3, <1>4, <1>5, <1>6, <1>7

LEMMA TimeoutControl ==
  ASSUME ControlInv, Timeout
  PROVE  ControlInv'
<1> USE DEF ControlInv, At, Goto, Return, hostVars, txVars, rxVars, IdleCall, IsrOff, RE, WE
<1>1. TypeOK'
  <2>1. hostInactive' \in 0..HostCap
    BY JtagAssumption DEF Timeout, TypeOK
  <2>2. QED
    BY <2>1 DEF Timeout, TypeOK
<1>2. WriterHasRoom'
  BY JtagAssumption DEF Timeout, WriterHasRoom, TypeOK, Index, Pcs, WritePcs, ReadPcs
<1>3. ReaderHasBytes'
  BY JtagAssumption DEF Timeout, ReaderHasBytes, TypeOK, Index, Pcs, WritePcs, ReadPcs
<1>4. DeviceHasRoom'
  BY JtagAssumption DEF Timeout, DeviceHasRoom, TypeOK, Index, Pcs, WritePcs, ReadPcs
<1>5. SpinnersKnow'
  BY JtagAssumption DEF Timeout, SpinnersKnow, TypeOK, Index, Pcs, WritePcs, ReadPcs
<1>6. NothingStranded'
  BY JtagAssumption DEF Timeout, NothingStranded, TypeOK, Index, Pcs, WritePcs, ReadPcs
<1>7. ReaderWakesDevice'
  BY JtagAssumption DEF Timeout, ReaderWakesDevice, TypeOK, Index, Pcs, WritePcs, ReadPcs
<1>8. QED
  BY <1>1, <1>2, <1>3, <1>4, <1>5, <1>6, <1>7

LEMMA WriteLoadControl ==
  ASSUME ControlInv, WriteLoad
  PROVE  ControlInv'
<1> USE DEF ControlInv, At, Goto, Return, hostVars, txVars, rxVars, IdleCall, IsrOff, RE, WE
<1>1. TypeOK'
  BY WriteLoadTypes DEF WriterHasRoom, CopyFits
<1>2. WriterHasRoom'
  BY WriterKept DEF WriteNext
<1>3. ReaderHasBytes'
  <2>1. call'.pc \in {"w_kick", "w_copy"}
    BY DEF WriteLoad, TypeOK
  <2>2. QED
    BY <2>1 DEF ReaderHasBytes
<1>4. DeviceHasRoom'
  BY JtagAssumption DEF WriteLoad, DeviceHasRoom, TypeOK, Index, Pcs, WritePcs, ReadPcs
<1>5. SpinnersKnow'
  <2>1. call'.pc \in {"w_kick", "w_copy"} /\ txIn' = txIn /\ call'.count = call.count
    BY DEF WriteLoad, TypeOK
  <2>2. call'.pc = "w_kick" /\ call.count # 0 =>
          call'.out = txOut /\ Least(FreeRun(txIn, txOut), call.count) = 0
    BY DEF WriteLoad, TypeOK
  <2>3. QED
    BY <2>1, <2>2, LoadWrite, Numbers DEF SpinnersKnow
<1>6. NothingStranded'
  BY JtagAssumption DEF WriteLoad, NothingStranded, TypeOK, Index, Pcs, WritePcs, ReadPcs
<1>7. ReaderWakesDevice'
  BY JtagAssumption DEF WriteLoad, ReaderWakesDevice, TypeOK, Index, Pcs, WritePcs, ReadPcs
<1>8. QED
  BY <1>1, <1>2, <1>3, <1>4, <1>5, <1>6, <1>7

LEMMA WriteCopyControl ==
  ASSUME ControlInv, WriteCopy
  PROVE  ControlInv'
<1> USE DEF ControlInv, At, Goto, Return, hostVars, txVars, rxVars, IdleCall, IsrOff, RE, WE
<1>1. TypeOK'
  BY WriteCopyTypes DEF WriterHasRoom, CopyFits
<1>2. WriterHasRoom'
  BY WriterKept DEF WriteNext
<1>3. ReaderHasBytes'
  BY JtagAssumption DEF WriteCopy, ReaderHasBytes, TypeOK, Index, Pcs, WritePcs, ReadPcs
<1>4. DeviceHasRoom'
  BY JtagAssumption DEF WriteCopy, DeviceHasRoom, TypeOK, Index, Pcs, WritePcs, ReadPcs
<1>5. SpinnersKnow'
  BY JtagAssumption DEF WriteCopy, SpinnersKnow, TypeOK, Index, Pcs, WritePcs, ReadPcs
<1>6. NothingStranded'
  BY JtagAssumption DEF WriteCopy, NothingStranded, TypeOK, Index, Pcs, WritePcs, ReadPcs
<1>7. ReaderWakesDevice'
  BY JtagAssumption DEF WriteCopy, ReaderWakesDevice, TypeOK, Index, Pcs, WritePcs, ReadPcs
<1>8. QED
  BY <1>1, <1>2, <1>3, <1>4, <1>5, <1>6, <1>7

LEMMA WritePublishControl ==
  ASSUME ControlInv, WritePublish
  PROVE  ControlInv'
<1> USE DEF ControlInv, At, Goto, Return, hostVars, txVars, rxVars, IdleCall, IsrOff, RE, WE
<1>1. TypeOK'
  BY WritePublishTypes DEF WriterHasRoom, CopyFits
<1>2. WriterHasRoom'
  BY WriterKept DEF WriteNext
<1>3. ReaderHasBytes'
  BY JtagAssumption DEF WritePublish, ReaderHasBytes, TypeOK, Index, Pcs, WritePcs, ReadPcs
<1>4. DeviceHasRoom'
  BY JtagAssumption DEF WritePublish, DeviceHasRoom, TypeOK, Index, Pcs, WritePcs, ReadPcs
<1>5. SpinnersKnow'
  BY JtagAssumption DEF WritePublish, SpinnersKnow, TypeOK, Index, Pcs, WritePcs, ReadPcs
<1>6. NothingStranded'
  BY JtagAssumption DEF WritePublish, NothingStranded, TypeOK, Index, Pcs, WritePcs, ReadPcs
<1>7. ReaderWakesDevice'
  BY JtagAssumption DEF WritePublish, ReaderWakesDevice, TypeOK, Index, Pcs, WritePcs, ReadPcs
<1>8. QED
  BY <1>1, <1>2, <1>3, <1>4, <1>5, <1>6, <1>7

LEMMA WriteKickControl ==
  ASSUME ControlInv, WriteKick
  PROVE  ControlInv'
<1> USE DEF ControlInv, At, Goto, Return, hostVars, txVars, rxVars, IdleCall, IsrOff, RE, WE
<1>1. TypeOK'
  BY WriteKickTypes DEF WriterHasRoom, CopyFits
<1>2. WriterHasRoom'
  BY WriterKept DEF WriteNext
<1>3. ReaderHasBytes'
  BY JtagAssumption DEF WriteKick, ReaderHasBytes, TypeOK, Index, Pcs, WritePcs, ReadPcs
<1>4. DeviceHasRoom'
  BY JtagAssumption DEF WriteKick, DeviceHasRoom, TypeOK, Index, Pcs, WritePcs, ReadPcs
<1>5. SpinnersKnow'
  BY JtagAssumption DEF WriteKick, SpinnersKnow, TypeOK, Index, Pcs, WritePcs, ReadPcs
<1>6. NothingStranded'
  BY JtagAssumption DEF WriteKick, NothingStranded, TypeOK, Index, Pcs, WritePcs, ReadPcs
<1>7. ReaderWakesDevice'
  BY JtagAssumption DEF WriteKick, ReaderWakesDevice, TypeOK, Index, Pcs, WritePcs, ReadPcs
<1>8. QED
  BY <1>1, <1>2, <1>3, <1>4, <1>5, <1>6, <1>7

LEMMA WriteWaitControl ==
  ASSUME ControlInv, WriteWait
  PROVE  ControlInv'
<1> USE DEF ControlInv, At, Goto, Return, hostVars, txVars, rxVars, IdleCall, IsrOff, RE, WE
<1>1. TypeOK'
  BY WriteWaitTypes DEF WriterHasRoom, CopyFits
<1>2. WriterHasRoom'
  BY WriterKept DEF WriteNext
<1>3. ReaderHasBytes'
  BY JtagAssumption DEF WriteWait, ReaderHasBytes, TypeOK, Index, Pcs, WritePcs, ReadPcs
<1>4. DeviceHasRoom'
  BY JtagAssumption DEF WriteWait, DeviceHasRoom, TypeOK, Index, Pcs, WritePcs, ReadPcs
<1>5. SpinnersKnow'
  BY JtagAssumption DEF WriteWait, SpinnersKnow, TypeOK, Index, Pcs, WritePcs, ReadPcs
<1>6. NothingStranded'
  BY JtagAssumption DEF WriteWait, NothingStranded, TypeOK, Index, Pcs, WritePcs, ReadPcs
<1>7. ReaderWakesDevice'
  BY JtagAssumption DEF WriteWait, ReaderWakesDevice, TypeOK, Index, Pcs, WritePcs, ReadPcs
<1>8. QED
  BY <1>1, <1>2, <1>3, <1>4, <1>5, <1>6, <1>7

LEMMA WriteCheckControl ==
  ASSUME ControlInv, WriteCheck
  PROVE  ControlInv'
<1> USE DEF ControlInv, At, Goto, Return, hostVars, txVars, rxVars, IdleCall, IsrOff, RE, WE
<1>1. TypeOK'
  BY WriteCheckTypes DEF WriterHasRoom, CopyFits
<1>2. WriterHasRoom'
  BY WriterKept DEF WriteNext
<1>3. ReaderHasBytes'
  BY JtagAssumption DEF WriteCheck, ReaderHasBytes, TypeOK, Index, Pcs, WritePcs, ReadPcs
<1>4. DeviceHasRoom'
  BY JtagAssumption DEF WriteCheck, DeviceHasRoom, TypeOK, Index, Pcs, WritePcs, ReadPcs
<1>5. SpinnersKnow'
  BY JtagAssumption DEF WriteCheck, SpinnersKnow, TypeOK, Index, Pcs, WritePcs, ReadPcs
<1>6. NothingStranded'
  BY JtagAssumption DEF WriteCheck, NothingStranded, TypeOK, Index, Pcs, WritePcs, ReadPcs
<1>7. ReaderWakesDevice'
  BY JtagAssumption DEF WriteCheck, ReaderWakesDevice, TypeOK, Index, Pcs, WritePcs, ReadPcs
<1>8. QED
  BY <1>1, <1>2, <1>3, <1>4, <1>5, <1>6, <1>7

LEMMA WriteReturnControl ==
  ASSUME ControlInv, WriteReturn
  PROVE  ControlInv'
<1> USE DEF ControlInv, At, Goto, Return, hostVars, txVars, rxVars, IdleCall, IsrOff, RE, WE
<1>1. TypeOK'
  BY WriteReturnTypes DEF WriterHasRoom, CopyFits
<1>2. WriterHasRoom'
  BY WriterKept DEF WriteNext
<1>3. ReaderHasBytes'
  BY JtagAssumption DEF WriteReturn, ReaderHasBytes, TypeOK, Index, Pcs, WritePcs, ReadPcs
<1>4. DeviceHasRoom'
  BY JtagAssumption DEF WriteReturn, DeviceHasRoom, TypeOK, Index, Pcs, WritePcs, ReadPcs
<1>5. SpinnersKnow'
  BY JtagAssumption DEF WriteReturn, SpinnersKnow, TypeOK, Index, Pcs, WritePcs, ReadPcs
<1>6. NothingStranded'
  BY JtagAssumption DEF WriteReturn, NothingStranded, TypeOK, Index, Pcs, WritePcs, ReadPcs
<1>7. ReaderWakesDevice'
  BY JtagAssumption DEF WriteReturn, ReaderWakesDevice, TypeOK, Index, Pcs, WritePcs, ReadPcs
<1>8. QED
  BY <1>1, <1>2, <1>3, <1>4, <1>5, <1>6, <1>7

LEMMA ReadLoadControl ==
  ASSUME ControlInv, ReadLoad
  PROVE  ControlInv'
<1> USE DEF ControlInv, At, Goto, Return, hostVars, txVars, rxVars, IdleCall, IsrOff, RE, WE
<1>1. TypeOK'
  <2>1. Least(FullRun(rxIn, rxOut), call.count) \in 0..BufLen - 1
    BY LoadRead, JtagAssumption DEF TypeOK
  <2>2. {"r_copy", "r_return", "r_wait"} \subseteq Pcs
    BY DEF Pcs, ReadPcs
  <2>3. call' \in CallType
    BY <2>1, <2>2 DEF ReadLoad, TypeOK, CallType
  <2>4. QED
    BY <2>3 DEF ReadLoad, TypeOK, CallType
<1>2. WriterHasRoom'
  BY JtagAssumption DEF ReadLoad, WriterHasRoom, TypeOK, Index, Pcs, WritePcs, ReadPcs
<1>3. ReaderHasBytes'
  <2>1. /\ call'.pc \in {"r_copy", "r_return", "r_wait"}
        /\ call'.n = Least(FullRun(rxIn, rxOut), call.count)
        /\ call'.pc = "r_copy" => call'.n > 0
        /\ call'.out = rxOut /\ call'.count = call.count
    BY DEF ReadLoad, TypeOK
  <2>2. rxIn' = rxIn /\ rxOut' = rxOut /\ call.count > 0
    BY DEF ReadLoad, ReaderHasBytes
  <2>3. QED
    BY <2>1, <2>2, LoadRead DEF ReaderHasBytes
<1>4. DeviceHasRoom'
  BY JtagAssumption DEF ReadLoad, DeviceHasRoom, TypeOK, Index, Pcs, WritePcs, ReadPcs
<1>5. SpinnersKnow'
  <2>1. /\ call'.pc \in {"r_copy", "r_return", "r_wait"}
        /\ call'.in = rxIn /\ rxOut' = rxOut
        /\ call'.pc = "r_wait" => ~(Least(FullRun(rxIn, rxOut), call.count) > 0)
    BY DEF ReadLoad, TypeOK
  <2>2. call.count > 0
    BY DEF ReadLoad, ReaderHasBytes
  <2>3. QED
    BY <2>1, <2>2, LoadRead, Numbers DEF SpinnersKnow
<1>6. NothingStranded'
  BY JtagAssumption DEF ReadLoad, NothingStranded, TypeOK, Index, Pcs, WritePcs, ReadPcs
<1>7. ReaderWakesDevice'
  BY JtagAssumption DEF ReadLoad, ReaderWakesDevice, TypeOK, Index, Pcs, WritePcs, ReadPcs
<1>8. QED
  BY <1>1, <1>2, <1>3, <1>4, <1>5, <1>6, <1>7

LEMMA ReadCopyControl ==
  ASSUME ControlInv, ReadCopy
  PROVE  ControlInv'
<1> USE DEF ControlInv, At, Goto, Return, hostVars, txVars, rxVars, IdleCall, IsrOff, RE, WE
<1>1. TypeOK'
  <2>1. \A i \in 1..call.n : call.out + i - 1 \in Index
    <3>1. call.out + call.n <= BufLen
      BY DEF ReadCopy, ReaderHasBytes
    <3>2. QED
      BY <3>1, Numbers DEF Index
  <2>2. call.n \in Nat /\ rxBuf \in [Index -> Nat]
    BY Numbers DEF TypeOK
  <2>3. [i \in 1..call.n |-> rxBuf[call.out + i - 1]] \in Seq(Nat)
    <3>1. \A i \in 1..call.n : rxBuf[call.out + i - 1] \in Nat
      BY <2>1, <2>2
    <3>2. QED
      BY <2>2, <3>1
  <2>4. received' \in Seq(Nat)
    BY <2>3 DEF ReadCopy, TypeOK
  <2>5. call' \in CallType
    BY DEF ReadCopy, TypeOK, CallType, Pcs, ReadPcs
  <2>6. QED
    BY <2>4, <2>5 DEF ReadCopy, TypeOK, CallType
<1>2. WriterHasRoom'
  BY JtagAssumption DEF ReadCopy, WriterHasRoom, TypeOK, Index, Pcs, WritePcs, ReadPcs
<1>3. ReaderHasBytes'
  BY JtagAssumption DEF ReadCopy, ReaderHasBytes, TypeOK, Index, Pcs, WritePcs, ReadPcs
<1>4. DeviceHasRoom'
  BY JtagAssumption DEF ReadCopy, DeviceHasRoom, TypeOK, Index, Pcs, WritePcs, ReadPcs
<1>5. SpinnersKnow'
  BY JtagAssumption DEF ReadCopy, SpinnersKnow, TypeOK, Index, Pcs, WritePcs, ReadPcs
<1>6. NothingStranded'
  BY JtagAssumption DEF ReadCopy, NothingStranded, TypeOK, Index, Pcs, WritePcs, ReadPcs
<1>7. ReaderWakesDevice'
  BY JtagAssumption DEF ReadCopy, ReaderWakesDevice, TypeOK, Index, Pcs, WritePcs, ReadPcs
<1>8. QED
  BY <1>1, <1>2, <1>3, <1>4, <1>5, <1>6, <1>7

LEMMA ReadPublishControl ==
  ASSUME ControlInv, ReadPublish
  PROVE  ControlInv'
<1> USE DEF ControlInv, At, Goto, Return, hostVars, txVars, rxVars, IdleCall, IsrOff, RE, WE
<1>1. TypeOK'
  <2>1. Wrap(call.out + call.n) \in Index
    BY WrapIndex DEF TypeOK
  <2>2. call.count - call.n \in Nat /\ 0 \in Index /\ 0 \in 0..BufLen - 1
    BY Numbers DEF ReadPublish, ReaderHasBytes, Index
  <2>3. call' \in CallType
    BY <2>2 DEF ReadPublish, TypeOK, CallType, Pcs, ReadPcs
  <2>4. QED
    BY <2>1, <2>3 DEF ReadPublish, TypeOK, CallType
<1>2. WriterHasRoom'
  BY JtagAssumption DEF ReadPublish, WriterHasRoom, TypeOK, Index, Pcs, WritePcs, ReadPcs
<1>3. ReaderHasBytes'
  BY JtagAssumption DEF ReadPublish, ReaderHasBytes, TypeOK, Index, Pcs, WritePcs, ReadPcs
<1>4. DeviceHasRoom'
  BY JtagAssumption DEF ReadPublish, DeviceHasRoom, TypeOK, Index, Pcs, WritePcs, ReadPcs
<1>5. SpinnersKnow'
  BY JtagAssumption DEF ReadPublish, SpinnersKnow, TypeOK, Index, Pcs, WritePcs, ReadPcs
<1>6. NothingStranded'
  BY JtagAssumption DEF ReadPublish, NothingStranded, TypeOK, Index, Pcs, WritePcs, ReadPcs
<1>7. ReaderWakesDevice'
  BY JtagAssumption DEF ReadPublish, ReaderWakesDevice, TypeOK, Index, Pcs, WritePcs, ReadPcs
<1>8. QED
  BY <1>1, <1>2, <1>3, <1>4, <1>5, <1>6, <1>7

LEMMA ReadWaitControl ==
  ASSUME ControlInv, ReadWait
  PROVE  ControlInv'
<1> USE DEF ControlInv, At, Goto, Return, hostVars, txVars, rxVars, IdleCall, IsrOff, RE, WE
<1>1. TypeOK'
  BY JtagAssumption DEF ReadWait, TypeOK, Index, Pcs, WritePcs, ReadPcs
<1>2. WriterHasRoom'
  BY JtagAssumption DEF ReadWait, WriterHasRoom, TypeOK, Index, Pcs, WritePcs, ReadPcs
<1>3. ReaderHasBytes'
  BY JtagAssumption DEF ReadWait, ReaderHasBytes, TypeOK, Index, Pcs, WritePcs, ReadPcs
<1>4. DeviceHasRoom'
  BY JtagAssumption DEF ReadWait, DeviceHasRoom, TypeOK, Index, Pcs, WritePcs, ReadPcs
<1>5. SpinnersKnow'
  BY JtagAssumption DEF ReadWait, SpinnersKnow, TypeOK, Index, Pcs, WritePcs, ReadPcs
<1>6. NothingStranded'
  BY JtagAssumption DEF ReadWait, NothingStranded, TypeOK, Index, Pcs, WritePcs, ReadPcs
<1>7. ReaderWakesDevice'
  BY JtagAssumption DEF ReadWait, ReaderWakesDevice, TypeOK, Index, Pcs, WritePcs, ReadPcs
<1>8. QED
  BY <1>1, <1>2, <1>3, <1>4, <1>5, <1>6, <1>7

LEMMA ReadCheckControl ==
  ASSUME ControlInv, ReadCheck
  PROVE  ControlInv'
<1> USE DEF ControlInv, At, Goto, Return, hostVars, txVars, rxVars, IdleCall, IsrOff, RE, WE
<1>1. TypeOK'
  BY JtagAssumption DEF ReadCheck, TypeOK, Index, Pcs, WritePcs, ReadPcs
<1>2. WriterHasRoom'
  BY JtagAssumption DEF ReadCheck, WriterHasRoom, TypeOK, Index, Pcs, WritePcs, ReadPcs
<1>3. ReaderHasBytes'
  BY JtagAssumption DEF ReadCheck, ReaderHasBytes, TypeOK, Index, Pcs, WritePcs, ReadPcs
<1>4. DeviceHasRoom'
  BY JtagAssumption DEF ReadCheck, DeviceHasRoom, TypeOK, Index, Pcs, WritePcs, ReadPcs
<1>5. SpinnersKnow'
  BY JtagAssumption DEF ReadCheck, SpinnersKnow, TypeOK, Index, Pcs, WritePcs, ReadPcs
<1>6. NothingStranded'
  BY JtagAssumption DEF ReadCheck, NothingStranded, TypeOK, Index, Pcs, WritePcs, ReadPcs
<1>7. ReaderWakesDevice'
  BY JtagAssumption DEF ReadCheck, ReaderWakesDevice, TypeOK, Index, Pcs, WritePcs, ReadPcs
<1>8. QED
  BY <1>1, <1>2, <1>3, <1>4, <1>5, <1>6, <1>7

LEMMA ReadReturnControl ==
  ASSUME ControlInv, ReadReturn
  PROVE  ControlInv'
<1> USE DEF ControlInv, At, Goto, Return, hostVars, txVars, rxVars, IdleCall, IsrOff, RE, WE
<1>1. TypeOK'
  <2>1. call' \in CallType
    BY IdleCallType DEF ReadReturn, CallType, Pcs, WritePcs, ReadPcs
  <2>2. QED
    BY <2>1 DEF ReadReturn, TypeOK, CallType
<1>2. WriterHasRoom'
  BY JtagAssumption DEF ReadReturn, WriterHasRoom, TypeOK, Index, Pcs, WritePcs, ReadPcs
<1>3. ReaderHasBytes'
  BY JtagAssumption DEF ReadReturn, ReaderHasBytes, TypeOK, Index, Pcs, WritePcs, ReadPcs
<1>4. DeviceHasRoom'
  BY JtagAssumption DEF ReadReturn, DeviceHasRoom, TypeOK, Index, Pcs, WritePcs, ReadPcs
<1>5. SpinnersKnow'
  BY JtagAssumption DEF ReadReturn, SpinnersKnow, TypeOK, Index, Pcs, WritePcs, ReadPcs
<1>6. NothingStranded'
  BY JtagAssumption DEF ReadReturn, NothingStranded, TypeOK, Index, Pcs, WritePcs, ReadPcs
<1>7. ReaderWakesDevice'
  BY JtagAssumption DEF ReadReturn, ReaderWakesDevice, TypeOK, Index, Pcs, WritePcs, ReadPcs
<1>8. QED
  BY <1>1, <1>2, <1>3, <1>4, <1>5, <1>6, <1>7

LEMMA CloseWaitControl ==
  ASSUME ControlInv, CloseWait
  PROVE  ControlInv'
<1> USE DEF ControlInv, At, Goto, Return, hostVars, txVars, rxVars, IdleCall, IsrOff, RE, WE
<1>1. TypeOK'
  <2>1. 0 \in Index /\ 0 \in 0..BufLen - 1 /\ "idle" \in Pcs
    BY JtagAssumption DEF Index, Pcs
  <2>2. call' \in CallType
    BY <2>1 DEF CloseWait, CallType
  <2>3. QED
    BY <2>2 DEF CloseWait, TypeOK, CallType
<1>2. WriterHasRoom'
  BY JtagAssumption DEF CloseWait, WriterHasRoom, TypeOK, Index, Pcs, WritePcs, ReadPcs
<1>3. ReaderHasBytes'
  BY JtagAssumption DEF CloseWait, ReaderHasBytes, TypeOK, Index, Pcs, WritePcs, ReadPcs
<1>4. DeviceHasRoom'
  BY JtagAssumption DEF CloseWait, DeviceHasRoom, TypeOK, Index, Pcs, WritePcs, ReadPcs
<1>5. SpinnersKnow'
  BY JtagAssumption DEF CloseWait, SpinnersKnow, TypeOK, Index, Pcs, WritePcs, ReadPcs
<1>6. NothingStranded'
  BY JtagAssumption DEF CloseWait, NothingStranded, TypeOK, Index, Pcs, WritePcs, ReadPcs
<1>7. ReaderWakesDevice'
  BY JtagAssumption DEF CloseWait, ReaderWakesDevice, TypeOK, Index, Pcs, WritePcs, ReadPcs
<1>8. QED
  BY <1>1, <1>2, <1>3, <1>4, <1>5, <1>6, <1>7

LEMMA StartWriteControl ==
  ASSUME ControlInv, NEW c \in Nat, NEW b \in BOOLEAN, StartWrite(c, b)
  PROVE  ControlInv'
<1> USE DEF ControlInv, At, Goto, Return, hostVars, txVars, rxVars, IdleCall, IsrOff, RE, WE
<1>1. TypeOK'
  BY StartWriteTypes
<1>2. WriterHasRoom'
  BY JtagAssumption DEF StartWrite, WriterHasRoom, TypeOK, Index, Pcs, WritePcs, ReadPcs
<1>3. ReaderHasBytes'
  BY JtagAssumption DEF StartWrite, ReaderHasBytes, TypeOK, Index, Pcs, WritePcs, ReadPcs
<1>4. DeviceHasRoom'
  BY JtagAssumption DEF StartWrite, DeviceHasRoom, TypeOK, Index, Pcs, WritePcs, ReadPcs
<1>5. SpinnersKnow'
  BY JtagAssumption DEF StartWrite, SpinnersKnow, TypeOK, Index, Pcs, WritePcs, ReadPcs
<1>6. NothingStranded'
  BY JtagAssumption DEF StartWrite, NothingStranded, TypeOK, Index, Pcs, WritePcs, ReadPcs
<1>7. ReaderWakesDevice'
  BY JtagAssumption DEF StartWrite, ReaderWakesDevice, TypeOK, Index, Pcs, WritePcs, ReadPcs
<1>8. QED
  BY <1>1, <1>2, <1>3, <1>4, <1>5, <1>6, <1>7

LEMMA StartReadControl ==
  ASSUME ControlInv, NEW c \in Nat, NEW b \in BOOLEAN, StartRead(c, b)
  PROVE  ControlInv'
<1> USE DEF ControlInv, At, Goto, Return, hostVars, txVars, rxVars, IdleCall, IsrOff, RE, WE
<1>1. TypeOK'
  <2>1. call' \in CallType
    BY IdleCallType DEF StartRead, CallType, Pcs, WritePcs, ReadPcs
  <2>2. QED
    BY <2>1 DEF StartRead, TypeOK, CallType
<1>2. WriterHasRoom'
  BY JtagAssumption DEF StartRead, WriterHasRoom, TypeOK, Index, Pcs, WritePcs, ReadPcs
<1>3. ReaderHasBytes'
  BY JtagAssumption DEF StartRead, ReaderHasBytes, TypeOK, Index, Pcs, WritePcs, ReadPcs
<1>4. DeviceHasRoom'
  BY JtagAssumption DEF StartRead, DeviceHasRoom, TypeOK, Index, Pcs, WritePcs, ReadPcs
<1>5. SpinnersKnow'
  BY JtagAssumption DEF StartRead, SpinnersKnow, TypeOK, Index, Pcs, WritePcs, ReadPcs
<1>6. NothingStranded'
  BY JtagAssumption DEF StartRead, NothingStranded, TypeOK, Index, Pcs, WritePcs, ReadPcs
<1>7. ReaderWakesDevice'
  BY JtagAssumption DEF StartRead, ReaderWakesDevice, TypeOK, Index, Pcs, WritePcs, ReadPcs
<1>8. QED
  BY <1>1, <1>2, <1>3, <1>4, <1>5, <1>6, <1>7

LEMMA StartCloseControl ==
  ASSUME ControlInv, NEW b \in BOOLEAN, StartClose(b)
  PROVE  ControlInv'
<1> USE DEF ControlInv, At, Goto, Return, hostVars, txVars, rxVars, IdleCall, IsrOff, RE, WE
<1>1. TypeOK'
  <2>1. call' \in CallType
    BY IdleCallType DEF StartClose, CallType, Pcs, WritePcs, ReadPcs
  <2>2. QED
    BY <2>1 DEF StartClose, TypeOK, CallType
<1>2. WriterHasRoom'
  BY JtagAssumption DEF StartClose, WriterHasRoom, TypeOK, Index, Pcs, WritePcs, ReadPcs
<1>3. ReaderHasBytes'
  BY JtagAssumption DEF StartClose, ReaderHasBytes, TypeOK, Index, Pcs, WritePcs, ReadPcs
<1>4. DeviceHasRoom'
  BY JtagAssumption DEF StartClose, DeviceHasRoom, TypeOK, Index, Pcs, WritePcs, ReadPcs
<1>5. SpinnersKnow'
  BY JtagAssumption DEF StartClose, SpinnersKnow, TypeOK, Index, Pcs, WritePcs, ReadPcs
<1>6. NothingStranded'
  BY JtagAssumption DEF StartClose, NothingStranded, TypeOK, Index, Pcs, WritePcs, ReadPcs
<1>7. ReaderWakesDevice'
  BY JtagAssumption DEF StartClose, ReaderWakesDevice, TypeOK, Index, Pcs, WritePcs, ReadPcs
<1>8. QED
  BY <1>1, <1>2, <1>3, <1>4, <1>5, <1>6, <1>7

LEMMA SetTimeoutControl ==
  ASSUME ControlInv, NEW t \in Timeouts, SetTimeout(t)
  PROVE  ControlInv'
<1> USE DEF ControlInv, At, Goto, Return, hostVars, txVars, rxVars, IdleCall, IsrOff, RE, WE
<1>1. TypeOK'
  BY JtagAssumption DEF SetTimeout, TypeOK, Index, Pcs, WritePcs, ReadPcs
<1>2. WriterHasRoom'
  BY JtagAssumption DEF SetTimeout, WriterHasRoom, TypeOK, Index, Pcs, WritePcs, ReadPcs
<1>3. ReaderHasBytes'
  BY JtagAssumption DEF SetTimeout, ReaderHasBytes, TypeOK, Index, Pcs, WritePcs, ReadPcs
<1>4. DeviceHasRoom'
  BY JtagAssumption DEF SetTimeout, DeviceHasRoom, TypeOK, Index, Pcs, WritePcs, ReadPcs
<1>5. SpinnersKnow'
  BY JtagAssumption DEF SetTimeout, SpinnersKnow, TypeOK, Index, Pcs, WritePcs, ReadPcs
<1>6. NothingStranded'
  BY JtagAssumption DEF SetTimeout, NothingStranded, TypeOK, Index, Pcs, WritePcs, ReadPcs
<1>7. ReaderWakesDevice'
  BY JtagAssumption DEF SetTimeout, ReaderWakesDevice, TypeOK, Index, Pcs, WritePcs, ReadPcs
<1>8. QED
  BY <1>1, <1>2, <1>3, <1>4, <1>5, <1>6, <1>7

-----------------------------------------------------------------------------
(* The behaviour.                                                          *)

LEMMA InitControl == Init => ControlInv
<1> SUFFICES ASSUME Init PROVE ControlInv
  OBVIOUS
<1>1. 0 \in Index /\ 0 \in 0..FifoDepth /\ 0 \in 0..HostCap /\ 0 \in Nat
  BY JtagAssumption DEF Index
<1>2. [i \in 0..BufLen - 1 |-> 0] \in [Index -> Nat]
  BY DEF Index
<1>3. IsrOff \in IsrType
  BY <1>1 DEF IsrOff, IsrType
<1>4. TypeOK
  BY <1>1, <1>2, <1>3, IdleCallType, JtagAssumption
     DEF Init, TypeOK, CallType, IsrType, RE, WE
<1>5. QED
  BY <1>4 DEF Init, ControlInv, WriterHasRoom, ReaderHasBytes, DeviceHasRoom, SpinnersKnow,
     NothingStranded, ReaderWakesDevice, IdleCall, IsrOff

LEMMA NextControl ==
  ASSUME ControlInv, [Next]_jtagVars
  PROVE  ControlInv'
<1>1. CASE HostPoll \/ Timeout
  BY <1>1, HostPollControl, TimeoutControl
<1>2. CASE IsrNext
  BY <1>2, IsrEnterControl, IsrControlControl, IsrRxControl, IsrRxEndControl,
     IsrTxControl, IsrTxEndControl DEF IsrNext
<1>3. CASE WriteNext
  BY <1>3, WriteLoadControl, WriteCopyControl, WritePublishControl, WriteKickControl,
     WriteWaitControl, WriteCheckControl, WriteReturnControl DEF WriteNext
<1>4. CASE ReadNext
  BY <1>4, ReadLoadControl, ReadCopyControl, ReadPublishControl, ReadWaitControl,
     ReadCheckControl, ReadReturnControl DEF ReadNext
<1>5. CASE CloseWait
  BY <1>5, CloseWaitControl
<1>6. CASE Begin
  <2>1. ASSUME NEW c \in 0..MaxCount, NEW b \in BOOLEAN, StartWrite(c, b) \/ StartRead(c, b)
        PROVE  ControlInv'
    BY <2>1, StartWriteControl, StartReadControl, JtagAssumption
  <2>2. ASSUME NEW b \in BOOLEAN, StartClose(b)
        PROVE  ControlInv'
    BY <2>2, StartCloseControl
  <2>3. ASSUME NEW t \in Timeouts, SetTimeout(t)
        PROVE  ControlInv'
    BY <2>3, SetTimeoutControl
  <2>4. QED
    BY <1>6, <2>1, <2>2, <2>3 DEF Begin
<1>7. CASE UNCHANGED jtagVars
  <2> USE <1>7 DEF jtagVars, hostVars, txVars, rxVars
  <2>1. TypeOK'
    BY DEF ControlInv, TypeOK
  <2>2. WriterHasRoom' /\ ReaderHasBytes' /\ DeviceHasRoom' /\ SpinnersKnow'
    BY DEF ControlInv, WriterHasRoom, ReaderHasBytes, DeviceHasRoom, SpinnersKnow
  <2>3. NothingStranded' /\ ReaderWakesDevice'
    BY DEF ControlInv, NothingStranded, ReaderWakesDevice
  <2>4. QED
    BY <2>1, <2>2, <2>3 DEF ControlInv
<1>8. QED
  BY <1>1, <1>2, <1>3, <1>4, <1>5, <1>6, <1>7 DEF Next, Continue

(* The control part of the driver is invariant.                            *)
THEOREM ControlInvariant == Spec => []ControlInv
<1>1. QED
  BY InitControl, NextControl, PTL DEF Spec

(* Indices, counts and FIFO levels keep their ranges.                      *)
THEOREM JtagTypeCorrect == Spec => []TypeOK
<1>1. ControlInv => TypeOK
  BY DEF ControlInv
<1>2. QED
  BY <1>1, ControlInvariant, PTL

(* No byte is left in the transmit ring with nobody to send it.            *)
THEOREM NothingIsStranded == Spec => []NothingStranded
<1>1. ControlInv => NothingStranded
  BY DEF ControlInv
<1>2. QED
  BY <1>1, ControlInvariant, PTL

(* Reading does not stop for good when the receive ring was full.          *)
THEOREM ReaderWakesTheDevice == Spec => []ReaderWakesDevice
<1>1. ControlInv => ReaderWakesDevice
  BY DEF ControlInv
<1>2. QED
  BY <1>1, ControlInvariant, PTL

(* A call spins on an index only while it has nothing to do.               *)
THEOREM SpinnersHaveNothingToDo == Spec => []SpinnersAreBlocked
<1>1. ASSUME ControlInv PROVE SpinnersAreBlocked
  <2>1. txIn \in Index /\ txOut \in Index
    BY <1>1 DEF ControlInv, TypeOK
  <2>2. Wrap(txIn + 1) = txOut => Held(txIn, txOut) = BufLen - 1
    BY <2>1, HeldSteps, JtagAssumption
  <2>3. QED
    BY <1>1, <2>2 DEF ControlInv, SpinnersKnow, SpinnersAreBlocked
<1>2. QED
  BY <1>1, ControlInvariant, PTL

-----------------------------------------------------------------------------
(* What is in the rings.                                                   *)

(* The transmit ring holds the bytes that were put and not sent, each at   *)
(* its place, and the bytes a write has copied lie behind them.            *)
TxRing ==
  /\ txPut = Len(sent) + Held(txIn, txOut)
  /\ \A k \in Index : Held(k, txOut) < Held(txIn, txOut) =>
       txBuf[k] = Len(sent) + 1 + Held(k, txOut)
  /\ call.pc = "w_publish" => \A k \in Index :
       call.in <= k /\ k < call.in + call.n => txBuf[k] = txPut + 1 + (k - call.in)

(* Bytes a read has copied and not yet released.                           *)
Copied == IF call.pc = "r_publish" THEN call.n ELSE 0

(* The receive ring holds the bytes that were taken and not released.      *)
RxRing ==
  /\ rxTaken + Copied = Len(received) + Held(rxIn, rxOut)
  /\ \A k \in Index : Held(k, rxOut) < Held(rxIn, rxOut) =>
       rxBuf[k] = rxTaken - Held(rxIn, rxOut) + 1 + Held(k, rxOut)

PipeInv == ControlInv /\ TxRing /\ RxRing

(* Slots of a ring by their distance from its out index.                   *)
LEMMA SlotAfterTake ==
  ASSUME NEW in \in Index, NEW out \in Index, NEW k \in Index, NEW n \in Nat,
         n <= Held(in, out), n < BufLen
  PROVE  LET out2 == Wrap(out + n)
         IN  /\ out2 \in Index /\ Held(in, out2) = Held(in, out) - n
             /\ Held(k, out2) < Held(in, out2) =>
                  /\ Held(k, out) < Held(in, out)
                  /\ Held(k, out2) = Held(k, out) - n
BY JtagAssumption DEF Held, Wrap, Index

LEMMA SlotAfterPut ==
  ASSUME NEW in \in Index, NEW out \in Index, NEW k \in Index, NEW n \in Nat,
         Held(in, out) + n < BufLen, in + n <= BufLen
  PROVE  LET in2 == Wrap(in + n)
         IN  /\ in2 \in Index /\ Held(in2, out) = Held(in, out) + n
             /\ (in <= k /\ k < in + n) <=>
                  (Held(k, out) >= Held(in, out) /\ Held(k, out) < Held(in2, out))
             /\ in <= k /\ k < in + n => k - in = Held(k, out) - Held(in, out)
BY JtagAssumption DEF Held, Wrap, Index

LEMMA HeldInjective ==
  ASSUME NEW i \in Index, NEW k \in Index, NEW out \in Index, Held(i, out) = Held(k, out)
  PROVE  i = k
BY JtagAssumption DEF Held, Index

LEMMA SlotAt ==
  ASSUME NEW out \in Index, NEW i \in Nat, out + i < BufLen
  PROVE  out + i \in Index /\ Held(out + i, out) = i
BY JtagAssumption DEF Held, Index

(* A step that leaves the transmit ring alone.                             *)
LEMMA TxRingKept ==
  ASSUME TxRing, UNCHANGED <<txBuf, txIn, txOut, txPut, sent>>,
         call' = call \/ call'.pc # "w_publish"
  PROVE  TxRing'
BY DEF TxRing

LEMMA RxRingKept ==
  ASSUME RxRing, UNCHANGED <<rxBuf, rxIn, rxOut, rxTaken, received>>,
         call' = call \/ (call.pc # "r_publish" /\ call'.pc # "r_publish")
  PROVE  RxRing'
BY DEF RxRing, Copied

(* What the two rings' types say.                                          *)
LEMMA RingTypes ==
  ASSUME TypeOK
  PROVE  /\ txIn \in Index /\ txOut \in Index /\ rxIn \in Index /\ rxOut \in Index
         /\ Held(txIn, txOut) \in Nat /\ Held(txIn, txOut) < BufLen
         /\ Held(rxIn, rxOut) \in Nat /\ Held(rxIn, rxOut) < BufLen
         /\ sent \in Seq(Nat) /\ Len(sent) \in Nat
         /\ received \in Seq(Nat) /\ Len(received) \in Nat
         /\ \A k \in Index : Held(k, txOut) \in Nat /\ Held(k, rxOut) \in Nat
<1>1. txIn \in Index /\ txOut \in Index /\ rxIn \in Index /\ rxOut \in Index
  BY DEF TypeOK
<1>2. sent \in Seq(Nat) /\ received \in Seq(Nat)
  BY DEF TypeOK
<1>3. Held(txIn, txOut) \in 0..BufLen - 1 /\ Held(rxIn, rxOut) \in 0..BufLen - 1
  BY <1>1, HeldRange
<1>4. \A k \in Index : Held(k, txOut) \in Nat /\ Held(k, rxOut) \in Nat
  <2>1. \A k \in Index : Held(k, txOut) \in 0..BufLen - 1 /\ Held(k, rxOut) \in 0..BufLen - 1
    BY <1>1, HeldRange
  <2>2. QED
    BY <2>1, JtagAssumption
<1>5. QED
  BY <1>1, <1>2, <1>3, <1>4, JtagAssumption

(* The steps that move bytes.                                              *)
LEMMA IsrTxRing ==
  ASSUME TypeOK, DeviceHasRoom, TxRing, IsrTx
  PROVE  /\ TxRing'
         /\ sent' = Append(sent, Len(sent) + 1) /\ txPut' = txPut /\ Len(sent) < txPut
<1>0. TypeOK /\ DeviceHasRoom
  OBVIOUS
<1> DEFINE h == Held(txIn, txOut)
<1>1. /\ txIn \in Index /\ txOut \in Index /\ h \in Nat /\ h < BufLen
      /\ Len(sent) \in Nat /\ sent \in Seq(Nat) /\ BufLen \in Nat
  BY <1>0, RingTypes, Numbers
<1>2. h >= 1 /\ Held(txOut, txOut) = 0
  BY <1>1, HeldSteps, JtagAssumption DEF IsrTx
<1>3. wfill < FifoDepth
  BY <1>0, Numbers DEF DeviceHasRoom, IsrTx
<1>4. txBuf[txOut] = Len(sent) + 1
  BY <1>1, <1>2 DEF TxRing
<1>5. sent' = Append(sent, Len(sent) + 1) /\ Len(sent') = Len(sent) + 1
  BY <1>1, <1>3, <1>4 DEF IsrTx
<1>6. txOut' = Wrap(txOut + 1) /\ UNCHANGED <<txIn, txBuf, txPut, call>>
  BY DEF IsrTx
<1>7. Held(txIn', txOut') = h - 1
  BY <1>1, <1>2, <1>6, SlotAfterTake
<1>8. ASSUME NEW k \in Index, Held(k, txOut') < Held(txIn', txOut')
      PROVE  txBuf'[k] = Len(sent') + 1 + Held(k, txOut')
  <2>1. Held(k, txOut) < h /\ Held(k, txOut') = Held(k, txOut) - 1
    BY <1>1, <1>2, <1>6, <1>8, SlotAfterTake
  <2>2. Held(k, txOut) \in Nat
    BY <1>0, RingTypes
  <2>3. txBuf[k] = Len(sent) + 1 + Held(k, txOut)
    BY <2>1 DEF TxRing
  <2>4. QED
    BY <1>1, <1>5, <1>6, <2>1, <2>2, <2>3
<1>9. txPut = Len(sent) + h
  BY DEF TxRing
<1>10. txPut' = Len(sent') + Held(txIn', txOut') /\ Len(sent) < txPut
  BY <1>1, <1>2, <1>5, <1>6, <1>7, <1>9
<1>11. call'.pc # "w_publish" \/ call' = call
  BY <1>6
<1>12. QED
  BY <1>5, <1>6, <1>8, <1>10 DEF TxRing

LEMMA WriteCopyRing ==
  ASSUME TypeOK, WriterHasRoom, TxRing, WriteCopy
  PROVE  TxRing'
<1>0. TypeOK /\ WriterHasRoom
  OBVIOUS
<1>1. /\ call.in = txIn /\ call.n \in Nat /\ call.in + call.n <= BufLen
      /\ Held(txIn, txOut) + call.n < BufLen
  BY <1>0, Numbers DEF WriterHasRoom, WriteCopy, At
<1>2. /\ UNCHANGED <<txIn, txOut, txPut, sent>>
      /\ call' = [call EXCEPT !.pc = "w_publish"]
  BY DEF WriteCopy, Goto
<1>3. call'.in = call.in /\ call'.n = call.n
  BY <1>0, <1>2 DEF TypeOK
<1>4. txIn \in Index /\ txOut \in Index
  BY <1>0, RingTypes
<1>5. ASSUME NEW k \in Index
      PROVE  txBuf'[k] = IF call.in <= k /\ k < call.in + call.n
                           THEN txPut + 1 + (k - call.in) ELSE txBuf[k]
  BY <1>5 DEF WriteCopy, Index
<1>6. ASSUME NEW k \in Index, Held(k, txOut) < Held(txIn, txOut)
      PROVE  txBuf'[k] = Len(sent) + 1 + Held(k, txOut)
  <2>1. ~(call.in <= k /\ k < call.in + call.n)
    BY <1>1, <1>4, <1>6, SlotAfterPut, RingTypes, <1>0
  <2>2. QED
    BY <1>5, <1>6, <2>1 DEF TxRing
<1>7. QED
  BY <1>2, <1>3, <1>5, <1>6 DEF TxRing

LEMMA WritePublishRing ==
  ASSUME TypeOK, WriterHasRoom, TxRing, WritePublish
  PROVE  /\ TxRing'
         /\ txPut' = txPut + call.n /\ sent' = sent
         /\ call.n \in 1..BufLen - 1 /\ txPut - Len(sent) + call.n <= BufLen - 1
<1>0. TypeOK /\ WriterHasRoom
  OBVIOUS
<1> DEFINE h == Held(txIn, txOut)
<1>1. /\ call.in = txIn /\ call.n \in Nat /\ call.n > 0 /\ call.in + call.n <= BufLen
      /\ h + call.n < BufLen /\ BufLen \in Nat
  BY <1>0, Numbers DEF WriterHasRoom, WritePublish, At
<1>2. /\ txIn' = Wrap(txIn + call.n) /\ txPut' = txPut + call.n
      /\ UNCHANGED <<txBuf, txOut, sent>>
      /\ call'.pc = "w_load"
  BY <1>0, <1>1 DEF WritePublish, TypeOK
<1>3. /\ txIn \in Index /\ txOut \in Index /\ h \in Nat /\ Len(sent) \in Nat
      /\ txPut \in Nat
  BY <1>0, RingTypes, Numbers
<1>4. Held(txIn', txOut') = h + call.n
  BY <1>1, <1>2, <1>3, SlotAfterPut
<1>5. txPut = Len(sent) + h
  BY DEF TxRing
<1>6. ASSUME NEW k \in Index, Held(k, txOut) < Held(txIn', txOut)
      PROVE  txBuf[k] = Len(sent) + 1 + Held(k, txOut)
  <2>0. Held(k, txOut) \in Nat
    BY <1>0, RingTypes
  <2>1. CASE Held(k, txOut) < h
    BY <2>1 DEF TxRing
  <2>2. CASE Held(k, txOut) >= h
    <3>1. /\ call.in <= k /\ k < call.in + call.n
          /\ k - call.in = Held(k, txOut) - h
      BY <1>1, <1>2, <1>3, <1>6, <2>2, SlotAfterPut
    <3>2. txBuf[k] = txPut + 1 + (k - call.in)
      BY <3>1 DEF TxRing, WritePublish, At
    <3>3. QED
      BY <1>3, <1>5, <2>0, <3>1, <3>2
  <2>3. QED
    BY <1>3, <2>0, <2>1, <2>2
<1>7. txPut' = Len(sent') + Held(txIn', txOut')
  BY <1>1, <1>2, <1>3, <1>4, <1>5
<1>8. call.n \in 1..BufLen - 1 /\ txPut - Len(sent) + call.n <= BufLen - 1
  BY <1>1, <1>3, <1>5
<1>9. QED
  BY <1>2, <1>6, <1>7, <1>8 DEF TxRing

LEMMA IsrRxRing ==
  ASSUME ControlInv, RxRing, IsrRx
  PROVE  /\ RxRing'
         /\ rxTaken' = rxTaken + 1 /\ received' = received
         /\ rxTaken - Len(received) + 1 <= BufLen - 1
<1>0. TypeOK
  BY DEF ControlInv
<1> DEFINE h == Held(rxIn, rxOut)
<1>1. /\ rxIn \in Index /\ rxOut \in Index /\ h \in Nat /\ Len(received) \in Nat
      /\ rxTaken \in Nat /\ call.n \in Nat /\ BufLen \in Nat /\ BufLen > 1
  BY <1>0, RingTypes, Numbers
<1>1a. rxBuf \in [Index -> Nat] /\ rxIn + 1 <= BufLen
  <2>1. rxBuf \in [Index -> Nat]
    BY <1>0 DEF TypeOK, Index
  <2>2. rxIn + 1 <= BufLen
    BY <1>1 DEF Index
  <2>3. QED
    BY <2>1, <2>2
<1>2. h + 1 < BufLen
  BY <1>1, HeldSteps DEF IsrRx
<1>3. /\ rxIn' = Wrap(rxIn + 1) /\ rxTaken' = rxTaken + 1
      /\ rxBuf' = [rxBuf EXCEPT ![rxIn] = rxTaken + 1]
      /\ UNCHANGED <<rxOut, received, call>>
  BY DEF IsrRx
<1>4. Held(rxIn', rxOut') = h + 1
  BY <1>1, <1>1a, <1>2, <1>3, SlotAfterPut
<1>5. rxTaken + Copied = Len(received) + h /\ Copied' = Copied /\ Copied \in Nat
  BY <1>1, <1>3 DEF RxRing, Copied
<1>6. ASSUME NEW k \in Index, Held(k, rxOut) < h + 1
      PROVE  rxBuf'[k] = rxTaken' - (h + 1) + 1 + Held(k, rxOut)
  <2>0. Held(k, rxOut) \in Nat
    BY <1>0, RingTypes
  <2>1. CASE Held(k, rxOut) < h
    <3>1. k # rxIn
      BY <2>1, <1>1
    <3>2. rxBuf[k] = rxTaken - h + 1 + Held(k, rxOut)
      BY <2>1 DEF RxRing
    <3>3. QED
      BY <1>1, <1>1a, <1>3, <2>0, <3>1, <3>2
  <2>2. CASE Held(k, rxOut) = h
    <3>1. k = rxIn
      BY <1>1, <2>2, HeldInjective
    <3>2. QED
      BY <1>1, <1>1a, <1>3, <2>2, <3>1
  <2>3. QED
    BY <1>1, <1>6, <2>0, <2>1, <2>2
<1>7. rxTaken' + Copied' = Len(received') + Held(rxIn', rxOut')
  BY <1>1, <1>3, <1>4, <1>5
<1>8. rxTaken - Len(received) + 1 <= BufLen - 1
  BY <1>1, <1>2, <1>5
<1>9. QED
  BY <1>3, <1>4, <1>6, <1>7, <1>8 DEF RxRing

LEMMA ReadCopyRing ==
  ASSUME ControlInv, RxRing, ReadCopy
  PROVE  /\ RxRing'
         /\ received' = received \o [i \in 1..call.n |-> Len(received) + i]
         /\ rxTaken' = rxTaken
         /\ call.n \in 1..BufLen - 1 /\ call.n <= rxTaken - Len(received)
<1>0. TypeOK /\ ReaderHasBytes
  BY DEF ControlInv
<1> DEFINE h == Held(rxIn, rxOut)
<1>1. /\ rxIn \in Index /\ rxOut \in Index /\ h \in Nat /\ Len(received) \in Nat
      /\ rxTaken \in Nat /\ call.n \in Nat /\ call.n < BufLen /\ BufLen \in Nat
      /\ received \in Seq(Nat)
  BY <1>0, RingTypes, Numbers
<1>1a. rxOut \in Nat
  BY <1>1 DEF Index
<1>2. /\ call.out = rxOut /\ call.n > 0 /\ rxOut + call.n <= BufLen /\ call.n <= h
  BY <1>0 DEF ReaderHasBytes, ReadCopy, At
<1>3. /\ UNCHANGED <<rxIn, rxOut, rxBuf, rxTaken>>
      /\ call' = [call EXCEPT !.pc = "r_publish"]
  BY DEF ReadCopy, Goto
<1>4. Copied = 0 /\ Copied' = call.n
  BY <1>0, <1>3 DEF Copied, ReadCopy, At, TypeOK
<1>5. rxTaken = Len(received) + h
  BY <1>1, <1>4 DEF RxRing
<1>6. ASSUME NEW i \in 1..call.n
      PROVE  rxBuf[call.out + i - 1] = Len(received) + i
  <2>1. i - 1 \in Nat /\ i - 1 < h /\ rxOut + (i - 1) < BufLen
    BY <1>1, <1>1a, <1>2
  <2>2. rxOut + (i - 1) \in Index /\ Held(rxOut + (i - 1), rxOut) = i - 1
    BY <1>1, <2>1, SlotAt
  <2>3. rxBuf[rxOut + (i - 1)] = rxTaken - h + 1 + (i - 1)
    BY <2>1, <2>2 DEF RxRing
  <2>4. call.out + i - 1 = rxOut + (i - 1)
    BY <1>1, <1>1a, <1>2
  <2>5. QED
    BY <1>1, <1>5, <2>3, <2>4
<1>7. received' = received \o [i \in 1..call.n |-> Len(received) + i]
  <2>1. received' = received \o [i \in 1..call.n |-> rxBuf[call.out + i - 1]]
    BY DEF ReadCopy
  <2>2. QED
    BY <1>6, <2>1
<1>8. Len(received') = Len(received) + call.n
  <2>1. [i \in 1..call.n |-> Len(received) + i] \in Seq(Nat)
    <3>1. \A i \in 1..call.n : Len(received) + i \in Nat
      BY <1>1
    <3>2. QED
      BY <1>1, <3>1
  <2>2. Len([i \in 1..call.n |-> Len(received) + i]) = call.n
    BY <1>1
  <2>3. QED
    BY <1>1, <1>7, <2>1, <2>2
<1>9. rxTaken' + Copied' = Len(received') + Held(rxIn', rxOut')
  BY <1>1, <1>3, <1>4, <1>5, <1>8
<1>10. call.n \in 1..BufLen - 1 /\ call.n <= rxTaken - Len(received)
  BY <1>1, <1>2, <1>5
<1>11. QED
  BY <1>3, <1>7, <1>9, <1>10 DEF RxRing

LEMMA ReadPublishRing ==
  ASSUME ControlInv, RxRing, ReadPublish
  PROVE  RxRing'
<1>0. TypeOK /\ ReaderHasBytes
  BY DEF ControlInv
<1> DEFINE h == Held(rxIn, rxOut)
<1>1. /\ rxIn \in Index /\ rxOut \in Index /\ h \in Nat /\ Len(received) \in Nat
      /\ rxTaken \in Nat /\ call.n \in Nat /\ call.n < BufLen
  BY <1>0, RingTypes, Numbers
<1>2. call.out = rxOut /\ call.n <= h
  BY <1>0 DEF ReaderHasBytes, ReadPublish, At
<1>3. /\ UNCHANGED <<rxIn, rxBuf, rxTaken, received>>
      /\ rxOut' = Wrap(rxOut + call.n)
      /\ call'.pc # "r_publish"
  BY <1>0, <1>2 DEF ReadPublish, TypeOK
<1>4. Copied = call.n /\ Copied' = 0
  BY <1>3 DEF Copied, ReadPublish, At
<1>5. Held(rxIn', rxOut') = h - call.n
  BY <1>1, <1>2, <1>3, SlotAfterTake
<1>6. rxTaken + call.n = Len(received) + h
  BY <1>4 DEF RxRing
<1>7. ASSUME NEW k \in Index, Held(k, rxOut') < Held(rxIn', rxOut')
      PROVE  rxBuf[k] = rxTaken - Held(rxIn', rxOut') + 1 + Held(k, rxOut')
  <2>1. Held(k, rxOut) < h /\ Held(k, rxOut') = Held(k, rxOut) - call.n
    BY <1>1, <1>2, <1>3, <1>7, SlotAfterTake
  <2>2. Held(k, rxOut) \in Nat
    BY <1>0, RingTypes
  <2>3. rxBuf[k] = rxTaken - h + 1 + Held(k, rxOut)
    BY <2>1 DEF RxRing
  <2>4. QED
    BY <1>1, <1>5, <2>1, <2>2, <2>3
<1>8. rxTaken' + Copied' = Len(received') + Held(rxIn', rxOut')
  BY <1>1, <1>3, <1>4, <1>5, <1>6
<1>9. QED
  BY <1>3, <1>7, <1>8 DEF RxRing

LEMMA InitRings == Init => TxRing /\ RxRing
BY JtagAssumption DEF Init, TxRing, RxRing, Copied, Held, Index, IdleCall

(* The steps that move no byte.                                            *)
Quiet ==
  \/ HostPoll \/ IsrEnter \/ IsrControl \/ IsrRxEnd \/ IsrTxEnd \/ Timeout
  \/ Begin
  \/ WriteLoad \/ WriteKick \/ WriteWait \/ WriteCheck \/ WriteReturn
  \/ ReadLoad \/ ReadWait \/ ReadCheck \/ ReadReturn \/ CloseWait
  \/ UNCHANGED jtagVars

(* No other step touches the rings.                                        *)
LEMMA QuietRings ==
  ASSUME ControlInv, TxRing, RxRing, Quiet
  PROVE  /\ TxRing' /\ RxRing'
         /\ UNCHANGED <<txPut, sent, rxTaken, received>>
<1>1. UNCHANGED <<txBuf, txIn, txOut, txPut, sent, rxBuf, rxIn, rxOut, rxTaken, received>>
  BY DEF HostPoll, IsrEnter, IsrControl, IsrRxEnd, IsrTxEnd, Timeout, Begin,
         StartWrite, StartRead, StartClose, SetTimeout, WriteLoad, WriteKick, WriteWait,
         WriteCheck, WriteReturn, ReadLoad, ReadWait, ReadCheck, ReadReturn, CloseWait,
         txVars, rxVars, jtagVars, Quiet
<1>2. \/ call' = call
      \/ /\ call.pc # "r_publish"
         /\ call'.pc # "r_publish" /\ call'.pc # "w_publish"
  <2>1. CASE HostPoll \/ IsrEnter \/ IsrControl \/ IsrRxEnd \/ IsrTxEnd \/ Timeout
             \/ UNCHANGED jtagVars
    BY <2>1 DEF HostPoll, IsrEnter, IsrControl, IsrRxEnd, IsrTxEnd, Timeout, jtagVars
  <2>2. CASE Begin
    BY <2>2 DEF Begin, StartWrite, StartRead, StartClose, SetTimeout, At, IdleCall
  <2>0. \A pc : Goto(pc) => call'.pc = pc
    BY DEF Goto, ControlInv, TypeOK
  <2>0a. Return => call'.pc = "idle"
    BY DEF Return, IdleCall
  <2>3. CASE WriteLoad \/ WriteKick \/ WriteWait \/ WriteCheck \/ WriteReturn
    <3>1. CASE WriteLoad
      BY <2>0, <3>1 DEF WriteLoad, At, ControlInv, TypeOK
    <3>2. CASE WriteKick \/ WriteWait \/ WriteCheck
      BY <2>0, <3>2 DEF WriteKick, WriteWait, WriteCheck, At
    <3>3. CASE WriteReturn
      BY <2>0a, <3>3 DEF WriteReturn, At
    <3>4. QED
      BY <2>3, <3>1, <3>2, <3>3
  <2>4. CASE ReadLoad \/ ReadWait \/ ReadCheck \/ ReadReturn \/ CloseWait
    <3>1. CASE ReadLoad
      BY <3>1 DEF ReadLoad, At, ControlInv, TypeOK
    <3>2. CASE ReadWait \/ ReadCheck
      BY <2>0, <3>2 DEF ReadWait, ReadCheck, At
    <3>3. CASE ReadReturn \/ CloseWait
      BY <2>0a, <3>3 DEF ReadReturn, CloseWait, At
    <3>4. QED
      BY <2>4, <3>1, <3>2, <3>3
  <2>5. QED
    BY <2>1, <2>2, <2>3, <2>4 DEF Quiet
<1>3. QED
  BY <1>1, <1>2, TxRingKept, RxRingKept

(* The other ring of a step that moves bytes.                              *)
LEMMA OtherRing ==
  ASSUME ControlInv, TxRing, RxRing
  PROVE  /\ IsrTx \/ WriteCopy \/ WritePublish => RxRing' /\ UNCHANGED <<rxTaken, received>>
         /\ IsrRx \/ ReadCopy \/ ReadPublish => TxRing' /\ UNCHANGED <<txPut, sent>>
         /\ WriteCopy => UNCHANGED <<txPut, sent>>
         /\ ReadPublish => UNCHANGED <<rxTaken, received>>
<1>1. ASSUME IsrTx \/ WriteCopy \/ WritePublish
      PROVE  RxRing' /\ UNCHANGED <<rxTaken, received>>
  <2>1. UNCHANGED <<rxBuf, rxIn, rxOut, rxTaken, received>>
    BY <1>1 DEF IsrTx, WriteCopy, WritePublish, rxVars
  <2>2. call' = call \/ (call.pc # "r_publish" /\ call'.pc # "r_publish")
    BY <1>1 DEF IsrTx, WriteCopy, WritePublish, At, Goto, ControlInv, TypeOK
  <2>3. QED
    BY <2>1, <2>2, RxRingKept
<1>2. ASSUME IsrRx \/ ReadCopy \/ ReadPublish
      PROVE  TxRing' /\ UNCHANGED <<txPut, sent>>
  <2>1. UNCHANGED <<txBuf, txIn, txOut, txPut, sent>>
    BY <1>2 DEF IsrRx, ReadCopy, ReadPublish, txVars
  <2>2. call' = call \/ call'.pc # "w_publish"
    BY <1>2 DEF IsrRx, ReadCopy, ReadPublish, At, Goto, ControlInv, TypeOK
  <2>3. QED
    BY <2>1, <2>2, TxRingKept
<1>3. QED
  BY <1>1, <1>2 DEF WriteCopy, ReadPublish

Moves == IsrTx \/ IsrRx \/ WriteCopy \/ WritePublish \/ ReadCopy \/ ReadPublish

LEMMA QuietOrMoves == [Next]_jtagVars => Quiet \/ Moves
BY DEF Next, IsrNext, Continue, WriteNext, ReadNext, Quiet, Moves

LEMMA NextRings ==
  ASSUME PipeInv, [Next]_jtagVars
  PROVE  PipeInv'
<1>1. ControlInv /\ TxRing /\ RxRing
  BY DEF PipeInv
<1>2. ControlInv'
  BY <1>1, NextControl
<1>3. CASE Quiet
  BY <1>1, <1>2, <1>3, QuietRings DEF PipeInv
<1>4. CASE Moves
  BY <1>1, <1>2, <1>4, OtherRing, IsrTxRing, IsrRxRing, WriteCopyRing, WritePublishRing,
     ReadCopyRing, ReadPublishRing DEF Moves, PipeInv, ControlInv
<1>5. QED
  BY <1>3, <1>4, QuietOrMoves

(* Every byte in a ring is at its place, at every moment.                  *)
THEOREM RingsInvariant == Spec => []PipeInv
<1>1. Init => PipeInv
  BY InitControl, InitRings DEF PipeInv
<1>2. QED
  BY <1>1, NextRings, PTL DEF Spec

-----------------------------------------------------------------------------
(* The refinement.                                                         *)

LEMMA AppendIsConcat ==
  ASSUME NEW q \in Seq(Nat)
  PROVE  Append(q, Len(q) + 1) = q \o [i \in 1..1 |-> Len(q) + i]
<1>1. Append(q, Len(q) + 1) \in Seq(Nat) /\ [i \in 1..1 |-> Len(q) + i] \in Seq(Nat)
  OBVIOUS
<1>2. Append(q, Len(q) + 1) = q \o <<Len(q) + 1>>
  OBVIOUS
<1>3. <<Len(q) + 1>> = [i \in 1..1 |-> Len(q) + i]
  OBVIOUS
<1>4. QED
  BY <1>2, <1>3

(* A step of a write, or of the handler, is one of the transmit pipe.      *)
LEMMA WritePipe ==
  ASSUME TypeOK, WriterHasRoom, TxRing, WriteNext
  PROVE  TxRing' /\ sent' = sent /\ [TxPipe!PipeNext]_(TxPipe!pipeVars)
<1>1. CASE WritePublish
  <2>1. /\ TxRing' /\ txPut' = txPut + call.n /\ sent' = sent
        /\ call.n \in 1..BufLen - 1 /\ txPut - Len(sent) + call.n <= BufLen - 1
    BY <1>1, WritePublishRing
  <2>2. TxPipe!Accept(call.n)
    BY <2>1 DEF TxPipe!Accept, TxPipe!Inside
  <2>3. QED
    BY <2>1, <2>2 DEF TxPipe!PipeNext
<1>2. CASE WriteCopy
  BY <1>2, WriteCopyRing DEF WriteCopy, TxPipe!pipeVars
<1>3. CASE WriteLoad \/ WriteKick \/ WriteWait \/ WriteCheck \/ WriteReturn
  <2>1. UNCHANGED <<txBuf, txIn, txOut, txPut, sent>>
    BY <1>3 DEF WriteLoad, WriteKick, WriteWait, WriteCheck, WriteReturn, txVars
  <2>2. call'.pc # "w_publish"
    <3>1. CASE WriteLoad
      BY <3>1 DEF WriteLoad, At, Goto, TypeOK
    <3>2. CASE WriteKick
      BY <3>2 DEF WriteKick, At, Goto, TypeOK
    <3>3. CASE WriteWait \/ WriteCheck
      BY <3>3 DEF WriteWait, WriteCheck, At, Goto, TypeOK
    <3>4. CASE WriteReturn
      BY <3>4 DEF WriteReturn, Return, IdleCall
    <3>5. QED
      BY <1>3, <3>1, <3>2, <3>3, <3>4
  <2>3. QED
    BY <2>1, <2>2, TxRingKept DEF TxPipe!pipeVars
<1>4. QED
  BY <1>1, <1>2, <1>3 DEF WriteNext

LEMMA IsrPipe ==
  ASSUME TypeOK, DeviceHasRoom, TxRing, IsrNext
  PROVE  /\ TxRing' /\ [TxPipe!PipeNext]_(TxPipe!pipeVars)
         /\ sent' = sent \/ sent' = Append(sent, Len(sent) + 1)
<1>1. CASE IsrTx
  <2>1. /\ TxRing' /\ sent' = Append(sent, Len(sent) + 1)
        /\ txPut' = txPut /\ Len(sent) < txPut
    BY <1>1, IsrTxRing
  <2>2. sent' = sent \o [i \in 1..1 |-> Len(sent) + i]
    BY <2>1, AppendIsConcat, RingTypes
  <2>3. 1 <= txPut - Len(sent) /\ 1 \in 1..BufLen - 1
    <3>1. txPut \in Nat /\ Len(sent) \in Nat /\ BufLen \in Nat /\ BufLen > 1
      BY RingTypes, Numbers
    <3>2. QED
      BY <2>1, <3>1
  <2>4. TxPipe!Deliver(1)
    BY <2>1, <2>2, <2>3 DEF TxPipe!Deliver, TxPipe!Inside
  <2>5. QED
    BY <2>1, <2>3, <2>4 DEF TxPipe!PipeNext
<1>2. CASE IsrEnter \/ IsrControl \/ IsrRx \/ IsrRxEnd \/ IsrTxEnd
  <2>1. UNCHANGED <<txBuf, txIn, txOut, txPut, sent, call>>
    BY <1>2 DEF IsrEnter, IsrControl, IsrRx, IsrRxEnd, IsrTxEnd, txVars
  <2>2. QED
    BY <2>1, TxRingKept DEF TxPipe!pipeVars
<1>3. QED
  BY <1>1, <1>2 DEF IsrNext

LEMMA NextPipes ==
  ASSUME PipeInv, [Next]_jtagVars
  PROVE  /\ [TxPipe!PipeNext]_(TxPipe!pipeVars)
         /\ [RxPipe!PipeNext]_(RxPipe!pipeVars)
<1>1. /\ ControlInv /\ TxRing /\ RxRing
      /\ TypeOK /\ DeviceHasRoom /\ WriterHasRoom
  BY DEF PipeInv, ControlInv
<1>2. CASE Quiet
  BY <1>1, <1>2, QuietRings DEF TxPipe!pipeVars, RxPipe!pipeVars
<1>3. CASE WriteCopy \/ ReadPublish
  BY <1>1, <1>3, OtherRing DEF TxPipe!pipeVars, RxPipe!pipeVars
<1>4. CASE WritePublish
  BY <1>1, <1>4, WritePipe, OtherRing DEF WriteNext, RxPipe!pipeVars
<1>5. CASE IsrTx
  BY <1>1, <1>5, IsrPipe, OtherRing DEF IsrNext, RxPipe!pipeVars
<1>6. CASE IsrRx
  <2>1. /\ rxTaken' = rxTaken + 1 /\ received' = received
        /\ rxTaken - Len(received) + 1 <= BufLen - 1
    BY <1>1, <1>6, IsrRxRing
  <2>2. 1 \in 1..BufLen - 1
    BY <1>1, Numbers
  <2>3. RxPipe!Accept(1)
    BY <2>1 DEF RxPipe!Accept, RxPipe!Inside
  <2>4. QED
    BY <1>1, <1>6, <2>2, <2>3, OtherRing DEF RxPipe!PipeNext, TxPipe!pipeVars
<1>7. CASE ReadCopy
  <2>1. /\ received' = received \o [i \in 1..call.n |-> Len(received) + i]
        /\ rxTaken' = rxTaken
        /\ call.n \in 1..BufLen - 1 /\ call.n <= rxTaken - Len(received)
    BY <1>1, <1>7, ReadCopyRing
  <2>2. RxPipe!Deliver(call.n)
    BY <2>1 DEF RxPipe!Deliver, RxPipe!Inside
  <2>3. QED
    BY <1>1, <1>7, <2>1, <2>2, OtherRing DEF RxPipe!PipeNext, TxPipe!pipeVars
<1>8. QED
  BY <1>2, <1>3, <1>4, <1>5, <1>6, <1>7, QuietOrMoves DEF Moves

(* What is written goes to the device once, in order.                      *)
THEOREM WritesArePiped == Spec => TxImplementsPipe
<1>1. Init => TxPipe!PipeInit
  BY DEF Init, TxPipe!PipeInit
<1>2. PipeInv /\ [Next]_jtagVars => [TxPipe!PipeNext]_(TxPipe!pipeVars)
  BY NextPipes
<1>3. QED
  BY <1>1, <1>2, RingsInvariant, PTL DEF Spec, TxImplementsPipe, TxPipe!PipeSpec

(* What the device receives goes to the program once, in order.            *)
THEOREM ReadsArePiped == Spec => RxImplementsPipe
<1>1. Init => RxPipe!PipeInit
  BY DEF Init, RxPipe!PipeInit
<1>2. PipeInv /\ [Next]_jtagVars => [RxPipe!PipeNext]_(RxPipe!pipeVars)
  BY NextPipes
<1>3. QED
  BY <1>1, <1>2, RingsInvariant, PTL DEF Spec, RxImplementsPipe, RxPipe!PipeSpec

=============================================================================
