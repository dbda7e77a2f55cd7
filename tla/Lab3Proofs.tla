------------------------------ MODULE Lab3Proofs ------------------------------
(***************************************************************************)
(* Theorems about Lab3, for a ring and FIFOs of any size, messages of any  *)
(* length and any number of counts.                                        *)
(***************************************************************************)
EXTENDS Lab3, JtagUartProofs

(* isNew tells of a value that main has not printed, but while main is     *)
(* about to clear it.                                                      *)
NewsAreNew ==
  /\ isNew /\ pc # "clear" => value > reported
  /\ pc = "report" => isNew

(* Nothing tells the driver that the host is inactive.                     *)
HostBelieved == hostInactive = 0 /\ timeout = DefaultTimeout

(* c is a record of a call's fields.                                       *)
IsCall(c) == c = [pc |-> c.pc, count |-> c.count, done |-> c.done, nonblock |-> c.nonblock,
                  in |-> c.in, out |-> c.out, n |-> c.n]

(* The index the handler waits on is the one it has read: nothing moves it *)
(* while the handler runs.                                                 *)
HandlerAlone ==
  /\ handling => isr.pc = "off"
  /\ hcall.pc = "w_wait" \/ (hcall.pc = "w_kick" /\ hcall.count # 0) => hcall.out = txOut

Lab3Inv == LabTypeOK /\ NewsAreNew /\ HostBelieved /\ IsCall(hcall) /\ HandlerAlone

HandlerP == INSTANCE JtagUartProofs WITH call <- hcall

(* Both writes stay within the buffer, whatever they do to each other.     *)
WritesFit == /\ TypeOK /\ HandlerP!TypeOK /\ DeviceHasRoom
             /\ CopyFits /\ HandlerP!CopyFits

(* The ring is what it is with one writer, as long as the writes take      *)
(* turns: JtagUartProofs.                                                  *)
WritesTakeTurns ==
  /\ WriterHasRoom /\ HandlerP!WriterHasRoom
  /\ TxRing /\ HandlerP!TxRing
  /\ handling => call.pc \notin {"w_copy", "w_publish"}
  /\ \A i \in 1..Len(sent) : sent[i] = i

WritersInv == Lab3Inv /\ WritesFit /\ (overlapped \/ WritesTakeTurns)

-----------------------------------------------------------------------------

LEMMA InitLab3 == Lab3Init => Lab3Inv
<1> SUFFICES ASSUME Lab3Init PROVE Lab3Inv
  OBVIOUS
<1>1. LabTypeOK
  <2>1. MaxValue \in Nat
    BY Lab3Assumption
  <2>2. /\ pc = "setup" /\ enabled = FALSE /\ isNew = FALSE /\ handling = FALSE
        /\ overlapped = FALSE /\ expired \in BOOLEAN
    BY DEF Lab3Init
  <2>3. value = 0 /\ reported = 0 /\ hcall.pc = "idle"
    BY DEF Lab3Init, IdleCall
  <2>4. /\ enabled \in BOOLEAN /\ isNew \in BOOLEAN
        /\ handling \in BOOLEAN /\ overlapped \in BOOLEAN
    BY <2>2
  <2>5. value \in 0..MaxValue /\ reported \in 0..value
    BY <2>1, <2>3
  <2>6. hcall.pc \in Pcs
    BY <2>3 DEF Pcs
  <2> QED BY <2>2, <2>3, <2>4, <2>5, <2>6 DEF LabTypeOK
<1>2. IsCall(hcall) /\ HandlerAlone
  BY DEF Lab3Init, IsCall, HandlerAlone, IdleCall
<1> QED BY <1>1, <1>2 DEF Lab3Init, Init, Lab3Inv, NewsAreNew, HostBelieved

(* What the two handlers and main do to the variables they share.          *)
LEMMA MainLeaves ==
  ASSUME Main
  PROVE  ~handling /\ UNCHANGED <<hcall, hostVars, txOut, isr, value, handling>>
<1>1. CASE Setup
  BY <1>1 DEF Setup, MainAt, StartWrite, txVars, counterVars
<1>2. CASE EnableInterrupts
  BY <1>2 DEF EnableInterrupts, MainAt, jtagVars, txVars, counterVars
<1>3. CASE Loop
  BY <1>3 DEF Loop, MainAt, jtagVars, txVars, counterVars
<1>4. CASE Report
  BY <1>4 DEF Report, MainAt, StartWrite, txVars
<1>5. CASE ClearNew
  BY <1>5 DEF ClearNew, MainAt, jtagVars, txVars
<1>6. CASE MainWrites
  BY <1>6 DEF MainWrites, labVars, counterVars, WriteNext, WriteLoad, WriteCopy,
       WritePublish, WriteKick, WriteWait, WriteCheck, WriteReturn, txVars
<1> QED BY <1>1, <1>2, <1>3, <1>4, <1>5, <1>6 DEF Main

LEMMA MainKeeps == ASSUME Lab3Inv, Main PROVE Lab3Inv'
<1> USE DEF Lab3Inv
<1>1. ~handling /\ UNCHANGED <<hcall, hostVars, txOut, isr, value, handling>>
  BY MainLeaves
<1>2. IsCall(hcall)' /\ HandlerAlone' /\ HostBelieved'
  BY <1>1 DEF IsCall, HandlerAlone, HostBelieved, hostVars
<1>3. LabTypeOK' /\ NewsAreNew'
  <2>1. CASE Setup
    BY <1>1, <2>1 DEF Setup, MainAt, LabTypeOK, NewsAreNew, counterVars
  <2>2. CASE EnableInterrupts
    BY <1>1, <2>2 DEF EnableInterrupts, MainAt, LabTypeOK, NewsAreNew, counterVars
  <2>3. CASE Loop
    BY <1>1, <2>3 DEF Loop, MainAt, LabTypeOK, NewsAreNew, counterVars
  <2>4. CASE Report
    BY <1>1, <2>4 DEF Report, MainAt, LabTypeOK, NewsAreNew
  <2>5. CASE ClearNew
    BY <1>1, <2>5 DEF ClearNew, MainAt, LabTypeOK, NewsAreNew
  <2>6. CASE MainWrites
    BY <1>1, <2>6 DEF MainWrites, labVars, counterVars, LabTypeOK, NewsAreNew
  <2> QED BY <2>1, <2>2, <2>3, <2>4, <2>5, <2>6 DEF Main
<1> QED BY <1>2, <1>3

LEMMA UartKeeps == ASSUME Lab3Inv, UartInterrupt PROVE Lab3Inv'
<1> USE DEF Lab3Inv
<1>1. ~handling /\ IsrNext /\ UNCHANGED <<labVars, hcall>>
  BY DEF UartInterrupt
<1>2. UNCHANGED hostVars
  BY <1>1 DEF IsrNext, IsrEnter, IsrControl, IsrRx, IsrRxEnd, IsrTx, IsrTxEnd
<1>3. hcall.pc = "idle"
  BY <1>1 DEF LabTypeOK
<1>4. IsCall(hcall)' /\ HandlerAlone' /\ HostBelieved'
  BY <1>1, <1>2, <1>3 DEF IsCall, HandlerAlone, HostBelieved, hostVars, labVars
<1> QED BY <1>1, <1>4 DEF labVars, counterVars, LabTypeOK, NewsAreNew

LEMMA HostKeeps == ASSUME Lab3Inv, Host \/ TimerExpires \/ UNCHANGED lab3Vars PROVE Lab3Inv'
<1> USE DEF Lab3Inv
<1>1. /\ UNCHANGED <<pc, enabled, counterVars, handling, overlapped, hcall>>
      /\ expired' \in BOOLEAN
      /\ UNCHANGED <<hostInactive, timeout, txOut, isr>>
  BY DEF Host, HostPoll, TimerExpires, lab3Vars, labVars, jtagVars, hostVars, txVars, LabTypeOK
<1> QED BY <1>1 DEF counterVars, LabTypeOK, NewsAreNew, HostBelieved, IsCall, HandlerAlone

LEMMA EnterKeeps == ASSUME Lab3Inv, HandlerEnters PROVE Lab3Inv'
<1> USE DEF Lab3Inv
<1>1. /\ isr.pc = "off" /\ ~handling /\ value < MaxValue
      /\ handling' = TRUE /\ value' = value + 1 /\ isNew' = TRUE
      /\ overlapped' \in BOOLEAN
      /\ UNCHANGED <<pc, enabled, expired, reported>>
  BY DEF HandlerEnters
<1>2. /\ hcall' = [pc |-> "w_load", count |-> PinLen, done |-> FALSE, nonblock |-> FALSE,
                   in |-> 0, out |-> 0, n |-> 0]
      /\ UNCHANGED <<hostVars, txOut, isr>>
  BY DEF HandlerEnters, Handler!StartWrite, Handler!IdleCall, Handler!hostVars, hostVars,
         Handler!txVars
<1>3. IsCall(hcall)' /\ HandlerAlone' /\ HostBelieved'
  BY <1>1, <1>2 DEF IsCall, HandlerAlone, HostBelieved, hostVars
<1>4. LabTypeOK' /\ NewsAreNew'
  BY <1>1, <1>2, Lab3Assumption DEF LabTypeOK, NewsAreNew, Pcs, WritePcs
<1> QED BY <1>3, <1>4

(* A step of the handler's write: it goes on from its place, and does not  *)
(* go on from where it spins.                                              *)
LEMMA HandlerWriteStep ==
  ASSUME Lab3Inv, Handler!WriteNext
  PROVE  /\ UNCHANGED <<hostVars, txOut, isr>>
         /\ IsCall(hcall') /\ hcall'.pc \in Pcs
         /\ hcall.pc # "w_wait"
         /\ hcall'.pc = "w_wait" \/ (hcall'.pc = "w_kick" /\ hcall'.count # 0) =>
              hcall'.out = txOut
<1> USE DEF Handler!At, Handler!Goto, Handler!txVars, Handler!hostVars, hostVars
<1>0. IsCall(hcall) /\ HandlerAlone /\ HostBelieved
  BY DEF Lab3Inv
<1>1. CASE Handler!WriteLoad
  BY <1>0, <1>1 DEF Handler!WriteLoad, IsCall, Pcs, WritePcs
<1>2. CASE Handler!WriteCopy
  BY <1>0, <1>2 DEF Handler!WriteCopy, IsCall, Pcs, WritePcs
<1>3. CASE Handler!WritePublish
  BY <1>0, <1>3 DEF Handler!WritePublish, IsCall, Pcs, WritePcs
<1>4. CASE Handler!WriteKick
  BY <1>0, <1>4 DEF Handler!WriteKick, IsCall, Pcs, WritePcs, HandlerAlone
<1>5. CASE Handler!WriteWait
  BY <1>0, <1>5, JtagAssumption
     DEF Handler!WriteWait, Handler!HostSilent, HandlerAlone, HostBelieved
<1>6. CASE Handler!WriteCheck
  BY <1>0, <1>6 DEF Handler!WriteCheck, IsCall, Pcs, WritePcs
<1>7. CASE Handler!WriteReturn
  BY <1>0, <1>7 DEF Handler!WriteReturn, Handler!Return, Handler!IdleCall, IsCall, Pcs
<1> QED BY <1>1, <1>2, <1>3, <1>4, <1>5, <1>6, <1>7 DEF Handler!WriteNext

LEMMA HandlerKeeps == ASSUME Lab3Inv, HandlerWrites \/ HandlerReturns PROVE Lab3Inv'
<1> USE DEF Lab3Inv
<1>1. CASE HandlerWrites
  <2>1. handling /\ Handler!WriteNext /\ UNCHANGED labVars
    BY <1>1 DEF HandlerWrites
  <2>2. /\ UNCHANGED <<hostVars, txOut, isr>>
        /\ IsCall(hcall') /\ hcall'.pc \in Pcs
        /\ hcall'.pc = "w_wait" \/ (hcall'.pc = "w_kick" /\ hcall'.count # 0) =>
             hcall'.out = txOut
    BY <2>1, HandlerWriteStep
  <2>3. IsCall(hcall)' /\ HandlerAlone' /\ HostBelieved'
    BY <2>1, <2>2 DEF IsCall, HandlerAlone, HostBelieved, hostVars, labVars
  <2> QED BY <2>1, <2>2, <2>3 DEF labVars, counterVars, LabTypeOK, NewsAreNew
<1>2. CASE HandlerReturns
  <2>1. /\ hcall.pc = "idle" /\ handling' = FALSE /\ expired' = FALSE
        /\ UNCHANGED <<pc, enabled, counterVars, overlapped, hcall, hostVars, txOut, isr>>
    BY <1>2 DEF HandlerReturns, jtagVars, txVars
  <2> QED BY <2>1 DEF counterVars, LabTypeOK, NewsAreNew, HostBelieved, hostVars, IsCall,
       HandlerAlone
<1> QED BY <1>1, <1>2

LEMMA NextLab3 == ASSUME Lab3Inv, [Lab3Next]_lab3Vars PROVE Lab3Inv'
BY MainKeeps, UartKeeps, HostKeeps, EnterKeeps, HandlerKeeps DEF Lab3Next, Processor

THEOREM Lab3Invariant == Lab3Spec => []Lab3Inv
<1>1. Lab3Inv /\ [Lab3Next]_lab3Vars => Lab3Inv'
  BY NextLab3
<1> QED BY <1>1, InitLab3, PTL DEF Lab3Spec

(* No value is printed twice, wherever the handler cuts into the loop      *)
(* (lab3ParPortAndTimers/main.c:65-68, 86-87).                             *)
THEOREM ValuesAreReportedOnce == Lab3Spec => []ReportsAdvance
<1>1. Lab3Inv => ReportsAdvance
  BY DEF Lab3Inv, NewsAreNew, ReportsAdvance
<1> QED BY <1>1, Lab3Invariant, PTL

(* A handler that meets a full ring in its printf never leaves it          *)
(* (lab3ParPortAndTimers/main.c:90, altera_avalon_jtag_uart_write.c:183).  *)
THEOREM FullRingHangs == Lab3Spec => SpinningHandlerHangs
<1>1. ASSUME Lab3Inv, [Lab3Next]_lab3Vars, hcall.pc = "w_wait"
      PROVE  hcall'.pc = "w_wait"
  <2>1. handling
    BY <1>1 DEF Lab3Inv, LabTypeOK
  <2>2. CASE Main
    BY <2>1, <2>2, MainLeaves
  <2>3. CASE HandlerWrites
    BY <1>1, <2>3, HandlerWriteStep DEF HandlerWrites
  <2>4. CASE HandlerReturns
    BY <1>1, <2>4 DEF HandlerReturns
  <2>5. CASE UartInterrupt \/ HandlerEnters
    BY <2>1, <2>5 DEF UartInterrupt, HandlerEnters
  <2>6. CASE TimerExpires \/ Host \/ UNCHANGED lab3Vars
    BY <1>1, <2>6 DEF TimerExpires, Host, lab3Vars
  <2> QED BY <1>1, <2>2, <2>3, <2>4, <2>5, <2>6 DEF Lab3Next, Processor
<1>2. Lab3Inv /\ [Lab3Next]_lab3Vars =>
        [hcall.pc = "w_wait" => hcall'.pc = "w_wait"]_lab3Vars
  BY <1>1
<1> QED BY <1>2, Lab3Invariant, PTL DEF Lab3Spec, SpinningHandlerHangs

-----------------------------------------------------------------------------
(* Two writers in one ring.                                                *)

(* The handler's call does what JtagUartProofs says of a call.             *)
LEMMA HandlerIsWriter ==
  /\ Handler!WriteNext => HandlerP!WriteNext
  /\ Handler!StartWrite(PinLen, FALSE) => HandlerP!StartWrite(PinLen, FALSE)
  /\ Handler!TypeOK = HandlerP!TypeOK
BY DEF Handler!At, Handler!Goto, Handler!Return, Handler!IdleCall, Handler!HostSilent,
  Handler!txVars, Handler!rxVars, Handler!hostVars, Handler!RE, Handler!WE, Handler!Index,
  Handler!Pcs, Handler!ReadPcs, Handler!WritePcs, Handler!Least, Handler!FreeRun, Handler!Wrap,
  Handler!WriteNext, Handler!WriteLoad, Handler!WriteCopy, Handler!WritePublish,
  Handler!WriteKick, Handler!WriteWait, Handler!WriteCheck, Handler!WriteReturn,
  Handler!StartWrite, Handler!TypeOK,
  HandlerP!At, HandlerP!Goto, HandlerP!Return, HandlerP!IdleCall, HandlerP!HostSilent,
  HandlerP!txVars, HandlerP!rxVars, HandlerP!hostVars, HandlerP!RE, HandlerP!WE, HandlerP!Index,
  HandlerP!Pcs, HandlerP!ReadPcs, HandlerP!WritePcs, HandlerP!Least, HandlerP!FreeRun,
  HandlerP!Wrap, HandlerP!WriteNext, HandlerP!WriteLoad, HandlerP!WriteCopy,
  HandlerP!WritePublish, HandlerP!WriteKick, HandlerP!WriteWait, HandlerP!WriteCheck,
  HandlerP!WriteReturn, HandlerP!StartWrite, HandlerP!TypeOK

(* The two calls share all but themselves.                                 *)
LEMMA SameTypes ==
  /\ TypeOK /\ hcall \in CallType => HandlerP!TypeOK
  /\ HandlerP!TypeOK /\ call \in CallType => TypeOK
  /\ TypeOK => call \in CallType
  /\ HandlerP!TypeOK => hcall \in CallType
BY DEF TypeOK, CallType, Index, Pcs, ReadPcs, WritePcs, RE, WE,
  HandlerP!TypeOK, HandlerP!Index, HandlerP!Pcs, HandlerP!ReadPcs, HandlerP!WritePcs,
  HandlerP!RE, HandlerP!WE

LEMMA SameTypesNext ==
  /\ TypeOK' /\ hcall' \in CallType => HandlerP!TypeOK'
  /\ HandlerP!TypeOK' /\ call' \in CallType => TypeOK'
BY DEF TypeOK, CallType, Index, Pcs, ReadPcs, WritePcs, RE, WE,
  HandlerP!TypeOK, HandlerP!Index, HandlerP!Pcs, HandlerP!ReadPcs, HandlerP!WritePcs,
  HandlerP!RE, HandlerP!WE

LEMMA SameRing ==
  /\ TxRing /\ hcall.pc # "w_publish" => HandlerP!TxRing
  /\ HandlerP!TxRing /\ call.pc # "w_publish" => TxRing
BY DEF TxRing, HandlerP!TxRing, Held, HandlerP!Held, Index, HandlerP!Index

LEMMA SameRingNext ==
  /\ TxRing' /\ hcall'.pc # "w_publish" => HandlerP!TxRing'
  /\ HandlerP!TxRing' /\ call'.pc # "w_publish" => TxRing'
BY DEF TxRing, HandlerP!TxRing, Held, HandlerP!Held, Index, HandlerP!Index

LEMMA InitWriters == Lab3Init => WritesFit /\ WritesTakeTurns
<1> SUFFICES ASSUME Lab3Init PROVE WritesFit /\ WritesTakeTurns
  OBVIOUS
<1>1. /\ Init /\ hcall = IdleCall /\ call = IdleCall /\ isr = IsrOff
      /\ handling = FALSE /\ sent = <<>>
  BY DEF Lab3Init, Init
<1>2. TypeOK /\ TxRing
  BY <1>1, InitControl, InitRings DEF ControlInv
<1>3. call.pc = "idle" /\ hcall.pc = "idle" /\ isr.pc = "off" /\ hcall \in CallType
  BY <1>1, IdleCallType DEF IdleCall, IsrOff
<1>4. WritesFit
  BY <1>2, <1>3, SameTypes DEF WritesFit, DeviceHasRoom, CopyFits, HandlerP!CopyFits
<1>5. \A i \in 1..Len(sent) : sent[i] = i
  BY <1>1
<1> QED
  BY <1>1, <1>2, <1>3, <1>4, <1>5, SameRing
     DEF WritesTakeTurns, WriterHasRoom, HandlerP!WriterHasRoom

(* Bytes stay in order when the next is the one that comes next.           *)
LEMMA StillInOrder ==
  ASSUME sent \in Seq(Nat), \A i \in 1..Len(sent) : sent[i] = i,
         sent' = sent \/ sent' = Append(sent, Len(sent) + 1)
  PROVE  (\A i \in 1..Len(sent) : sent[i] = i)'
<1>1. CASE sent' = sent
  BY <1>1
<1>2. CASE sent' = Append(sent, Len(sent) + 1)
  <2>1. Len(sent') = Len(sent) + 1 /\ Len(sent) \in Nat
    BY <1>2
  <2>2. \A i \in 1..Len(sent') : sent'[i] = i
    BY <1>2, <2>1
  <2> QED BY <2>2
<1> QED BY <1>1, <1>2

PipeStep == [TxPipe!PipeNext]_(TxPipe!pipeVars)

(* What main does to the driver.                                           *)
LEMMA MainSteps ==
  ASSUME Main
  PROVE  /\ UNCHANGED jtagVars \/ WriteNext
            \/ StartWrite(SetupLen, FALSE) \/ StartWrite(ReportLen, FALSE)
         /\ overlapped' = overlapped
BY DEF Main, Setup, EnableInterrupts, Loop, Report, ClearNew, MainWrites, labVars

LEMMA MainFits ==
  ASSUME Lab3Inv, WritesFit, Main
  PROVE  /\ WritesFit'
         /\ WritesTakeTurns => WritesTakeTurns' /\ PipeStep
<1>1. ~handling /\ UNCHANGED <<hcall, isr, handling>> /\ hcall.pc = "idle"
  BY MainLeaves DEF Lab3Inv, LabTypeOK
<1>2. {SetupLen, ReportLen} \subseteq Nat
  BY Lab3Assumption
<1>3. /\ TypeOK /\ HandlerP!TypeOK /\ DeviceHasRoom /\ CopyFits /\ hcall \in CallType
  BY SameTypes DEF WritesFit
<1>4. SUFFICES /\ TypeOK' /\ CopyFits' /\ wfill' = wfill
               /\ WritesTakeTurns => WriterHasRoom' /\ TxRing' /\ sent' = sent /\ PipeStep
  <2>1. ASSUME TypeOK', CopyFits', wfill' = wfill PROVE WritesFit'
    BY <1>1, <1>3, <2>1, SameTypesNext DEF WritesFit, DeviceHasRoom, HandlerP!CopyFits
  <2>2. ASSUME WriterHasRoom', TxRing', sent' = sent, WritesTakeTurns PROVE WritesTakeTurns'
    BY <1>1, <2>2, SameRingNext DEF WritesTakeTurns, HandlerP!WriterHasRoom
  <2> QED BY <2>1, <2>2
<1>5. CASE UNCHANGED jtagVars
  BY <1>3, <1>5 DEF jtagVars, hostVars, txVars, rxVars, TypeOK, CopyFits, WritesTakeTurns,
     WriterHasRoom, TxRing, PipeStep, TxPipe!pipeVars
<1>6. CASE WriteNext
  <2>1. wfill' = wfill
    BY <1>6 DEF WriteNext, WriteLoad, WriteCopy, WritePublish, WriteKick, WriteWait, WriteCheck,
       WriteReturn, txVars
  <2> QED
    BY <1>3, <1>6, <2>1, WriteTypes, WriterKept, WritePipe DEF WritesTakeTurns, PipeStep
<1>7. ASSUME NEW n \in {SetupLen, ReportLen}, StartWrite(n, FALSE)
      PROVE  /\ TypeOK' /\ CopyFits' /\ wfill' = wfill
             /\ WritesTakeTurns => WriterHasRoom' /\ TxRing' /\ sent' = sent /\ PipeStep
  <2>1. TypeOK' /\ call'.pc = "w_load"
    BY <1>2, <1>3, <1>7, StartWriteTypes
  <2>2. UNCHANGED <<txBuf, txIn, txOut, txPut, sent, wfill>>
    BY <1>7 DEF StartWrite, txVars
  <2> QED
    BY <2>1, <2>2, TxRingKept DEF CopyFits, WritesTakeTurns, WriterHasRoom, PipeStep,
       TxPipe!pipeVars
<1> QED BY <1>5, <1>6, <1>7, MainSteps

LEMMA HandlerFits ==
  ASSUME Lab3Inv, WritesFit, HandlerWrites
  PROVE  /\ WritesFit'
         /\ WritesTakeTurns => WritesTakeTurns' /\ PipeStep
<1>1. handling /\ HandlerP!WriteNext /\ UNCHANGED <<handling, call>>
  BY HandlerIsWriter DEF HandlerWrites, labVars
<1>2. UNCHANGED <<isr, wfill>>
  BY <1>1 DEF HandlerP!WriteNext, HandlerP!WriteLoad, HandlerP!WriteCopy, HandlerP!WritePublish,
     HandlerP!WriteKick, HandlerP!WriteWait, HandlerP!WriteCheck, HandlerP!WriteReturn,
     HandlerP!txVars
<1>3. TypeOK /\ HandlerP!TypeOK /\ HandlerP!CopyFits /\ call \in CallType
  BY SameTypes DEF WritesFit
<1>4. HandlerP!TypeOK' /\ HandlerP!CopyFits'
  BY <1>1, <1>3, HandlerP!WriteTypes, JtagAssumption
<1>5. WritesFit'
  BY <1>1, <1>2, <1>3, <1>4, SameTypesNext DEF WritesFit, DeviceHasRoom, CopyFits
<1>6. ASSUME WritesTakeTurns PROVE WritesTakeTurns' /\ PipeStep
  <2>1. HandlerP!WriterHasRoom /\ HandlerP!TxRing /\ call.pc \notin {"w_copy", "w_publish"}
    BY <1>1, <1>6 DEF WritesTakeTurns
  <2>2. HandlerP!WriterHasRoom'
    BY <1>1, <1>3, <2>1, HandlerP!WriterKept, JtagAssumption
  <2>3. /\ HandlerP!TxRing' /\ sent' = sent
        /\ [HandlerP!TxPipe!PipeNext]_(HandlerP!TxPipe!pipeVars)
    BY <1>1, <1>3, <2>1, HandlerP!WritePipe, JtagAssumption
  <2>4. PipeStep
    BY <2>3 DEF PipeStep, TxPipe!PipeNext, TxPipe!pipeVars, TxPipe!Accept, TxPipe!Deliver,
       TxPipe!Inside, HandlerP!TxPipe!PipeNext, HandlerP!TxPipe!pipeVars,
       HandlerP!TxPipe!Accept, HandlerP!TxPipe!Deliver, HandlerP!TxPipe!Inside
  <2>5. TxRing' /\ WriterHasRoom'
    BY <1>1, <2>1, <2>3, SameRingNext DEF WriterHasRoom
  <2> QED BY <1>1, <1>6, <2>1, <2>2, <2>3, <2>4, <2>5 DEF WritesTakeTurns
<1> QED BY <1>5, <1>6

(* The handler starts to write: from then on main is not in the middle of  *)
(* its own, or the two overlap.                                            *)
LEMMA EnterFits ==
  ASSUME Lab3Inv, WritesFit, HandlerEnters
  PROVE  /\ WritesFit'
         /\ WritesTakeTurns => overlapped' \/ (WritesTakeTurns' /\ PipeStep)
<1>1. /\ HandlerP!StartWrite(PinLen, FALSE) /\ call' = call
      /\ ~overlapped' => call.pc \notin {"w_copy", "w_publish"}
  BY HandlerIsWriter DEF HandlerEnters
<1>2. TypeOK /\ HandlerP!TypeOK /\ call \in CallType /\ PinLen \in Nat
  BY SameTypes, Lab3Assumption DEF WritesFit
<1>3. HandlerP!TypeOK' /\ hcall'.pc = "w_load"
  BY <1>1, <1>2, HandlerP!StartWriteTypes, JtagAssumption
<1>4. UNCHANGED <<txBuf, txIn, txOut, txPut, sent, wfill, isr>>
  BY <1>1 DEF HandlerP!StartWrite, HandlerP!txVars
<1>5. WritesFit'
  BY <1>1, <1>2, <1>3, <1>4, SameTypesNext
     DEF WritesFit, DeviceHasRoom, CopyFits, HandlerP!CopyFits
<1>6. ASSUME WritesTakeTurns, ~overlapped' PROVE WritesTakeTurns' /\ PipeStep
  <2>1. TxRing'
    BY <1>1, <1>4, <1>6, TxRingKept DEF WritesTakeTurns
  <2>2. HandlerP!TxRing'
    BY <1>3, <2>1, SameRingNext
  <2>3. WriterHasRoom' /\ HandlerP!WriterHasRoom'
    BY <1>1, <1>3, <1>6 DEF WriterHasRoom, HandlerP!WriterHasRoom
  <2> QED
    BY <1>1, <1>4, <1>6, <2>1, <2>2, <2>3 DEF WritesTakeTurns, PipeStep, TxPipe!pipeVars
<1> QED BY <1>5, <1>6

LEMMA UartFits ==
  ASSUME Lab3Inv, WritesFit, UartInterrupt
  PROVE  /\ WritesFit'
         /\ WritesTakeTurns => WritesTakeTurns' /\ PipeStep
<1>1. IsrNext /\ UNCHANGED <<handling, call, hcall>> /\ ~handling
  BY DEF UartInterrupt, IsrNext, IsrEnter, IsrControl, IsrRx, IsrRxEnd, IsrTx, IsrTxEnd, labVars
<1>2. hcall.pc = "idle"
  BY <1>1 DEF Lab3Inv, LabTypeOK
<1>3. TypeOK /\ DeviceHasRoom /\ hcall \in CallType
  BY SameTypes DEF WritesFit
<1>4. TypeOK' /\ DeviceHasRoom'
  BY <1>1, <1>3, IsrTypes
<1>5. WritesFit'
  BY <1>1, <1>2, <1>3, <1>4, SameTypesNext DEF WritesFit, CopyFits, HandlerP!CopyFits
<1>6. ASSUME WritesTakeTurns PROVE WritesTakeTurns' /\ PipeStep
  <2>1. TxRing' /\ PipeStep /\ (sent' = sent \/ sent' = Append(sent, Len(sent) + 1))
    BY <1>1, <1>3, <1>6, IsrPipe DEF WritesTakeTurns, PipeStep
  <2>2. HandlerP!TxRing'
    BY <1>1, <1>2, <2>1, SameRingNext
  <2>3. WriterHasRoom' /\ HandlerP!WriterHasRoom'
    BY <1>1, <1>2, <1>3, <1>6, WriterKept DEF WritesTakeTurns, HandlerP!WriterHasRoom
  <2>4. (\A i \in 1..Len(sent) : sent[i] = i)'
    BY <1>3, <1>6, <2>1, StillInOrder DEF TypeOK, WritesTakeTurns
  <2> QED BY <1>1, <2>1, <2>2, <2>3, <2>4 DEF WritesTakeTurns
<1> QED BY <1>5, <1>6

(* The rest leaves the ring and the calls alone.                           *)
LEMMA OthersFit ==
  ASSUME Lab3Inv, WritesFit, Host \/ HandlerReturns \/ TimerExpires \/ UNCHANGED lab3Vars
  PROVE  /\ WritesFit'
         /\ WritesTakeTurns => WritesTakeTurns' /\ PipeStep
<1>1. TypeOK /\ DeviceHasRoom /\ hcall \in CallType
  BY SameTypes DEF WritesFit
<1>2. HostPoll \/ UNCHANGED jtagVars
  BY DEF Host, HandlerReturns, TimerExpires, lab3Vars
<1>3. TypeOK' /\ DeviceHasRoom'
  <2>1. CASE HostPoll
    BY <1>1, <2>1, HostPollTypes
  <2>2. CASE UNCHANGED jtagVars
    BY <1>1, <2>2 DEF jtagVars, hostVars, txVars, rxVars, TypeOK, DeviceHasRoom
  <2> QED BY <1>2, <2>1, <2>2
<1>4. /\ UNCHANGED <<txBuf, txIn, txOut, txPut, sent, call, hcall>>
      /\ handling' => handling
  BY DEF Host, HostPoll, HandlerReturns, TimerExpires, lab3Vars, jtagVars, txVars, labVars
<1>5. WritesFit'
  BY <1>1, <1>3, <1>4, SameTypesNext DEF WritesFit, CopyFits, HandlerP!CopyFits
<1>6. ASSUME WritesTakeTurns PROVE WritesTakeTurns' /\ PipeStep
  BY <1>4, <1>6 DEF WritesTakeTurns, PipeStep, TxPipe!pipeVars, WriterHasRoom, TxRing,
     HandlerP!WriterHasRoom, HandlerP!TxRing
<1> QED BY <1>5, <1>6

LEMMA NextWriters ==
  ASSUME WritersInv, [Lab3Next]_lab3Vars
  PROVE  /\ WritersInv'
         /\ overlapped => overlapped'
         /\ overlapped' \/ PipeStep
<1>1. Lab3Inv /\ WritesFit /\ (overlapped \/ WritesTakeTurns)
  BY DEF WritersInv
<1>2. Lab3Inv'
  BY <1>1, NextLab3
<1>3. overlapped => overlapped'
  <2>1. CASE Main
    BY <2>1, MainSteps
  <2>2. CASE ~Main
    BY <2>2 DEF Lab3Next, Processor, HandlerWrites, HandlerReturns, UartInterrupt, HandlerEnters,
       TimerExpires, Host, lab3Vars, labVars
  <2> QED BY <2>1, <2>2
<1>4. /\ WritesFit'
      /\ WritesTakeTurns => overlapped' \/ (WritesTakeTurns' /\ PipeStep)
  BY <1>1, MainFits, HandlerFits, EnterFits, UartFits, OthersFit DEF Lab3Next, Processor
<1> QED BY <1>1, <1>2, <1>3, <1>4 DEF WritersInv

THEOREM WritersInvariant == Lab3Spec => []WritersInv
<1>1. Lab3Init => WritersInv
  BY InitLab3, InitWriters DEF WritersInv
<1>2. WritersInv /\ [Lab3Next]_lab3Vars => WritersInv'
  BY NextWriters
<1> QED BY <1>1, <1>2, PTL DEF Lab3Spec

(* Whatever two overlapping writes do to the ring's bytes, every index     *)
(* stays in its buffer and no count goes below 0; no value is reported     *)
(* that was not counted, and the handler's printf ends before the handler  *)
(* does (altera_avalon_jtag_uart_write.c:100-126,                          *)
(* lab3ParPortAndTimers/main.c:79-94).                                     *)
THEOREM Lab3TypeCorrect == Lab3Spec => []Lab3TypeOK
<1>1. WritersInv => Lab3TypeOK
  BY HandlerIsWriter DEF WritersInv, WritesFit, Lab3Inv, Lab3TypeOK
<1> QED BY <1>1, WritersInvariant, PTL

(* What both print arrives in the order it was put, unless the handler has *)
(* come between main's reading tx_in and storing it                        *)
(* (altera_avalon_jtag_uart_write.c:106-126).                              *)
THEOREM PrintsStayInOrder == Lab3Spec => []InOrderUnlessOverlapped
<1>1. WritersInv => InOrderUnlessOverlapped
  BY DEF WritersInv, WritesTakeTurns, InOrderUnlessOverlapped
<1> QED BY <1>1, WritersInvariant, PTL

(* Up to that moment main and the handler together see the pipe that one   *)
(* writer sees: no byte is lost, doubled or put where there is no room.    *)
THEOREM TwoWritersOnePipe ==
  Lab3Spec => TxPipe!PipeInit /\ [][overlapped' \/ PipeStep]_lab3Vars
<1>1. Lab3Init => TxPipe!PipeInit
  BY DEF Lab3Init, Init, TxPipe!PipeInit
<1>2. WritersInv /\ [Lab3Next]_lab3Vars => [overlapped' \/ PipeStep]_lab3Vars
  BY NextWriters
<1> QED BY <1>1, <1>2, WritersInvariant, PTL DEF Lab3Spec

=============================================================================
