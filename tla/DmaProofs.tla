----------------------------- MODULE DmaProofs ------------------------------
(***************************************************************************)
(* Theorems about the DMA master, alone and on its bus, for every set of   *)
(* inputs, words, addresses and every number of reads the source takes.    *)
(***************************************************************************)
EXTENDS DmaSystem, TLAPS

LEMMA ClearedTypes ==
  /\ Cleared \in [Field -> Value]
  /\ [addr |-> 0, rx |-> 0] \in [addr : Address, rx : Value]
  /\ NoAccess \in CpuInput /\ NoAnswer \in Answer
BY DmaValueAssumption DEF Cleared, NoAccess, CpuInput, NoAnswer, Answer

(* Every request address names a register.                                 *)
LEMMA TargetField ==
  ASSUME NEW a \in DOMAIN Target
  PROVE  Target[a] \in Field
<1>1. a \in {0, 2, 8, 10, 12, 14, 16}
  BY DEF Target, RegStateAddr, RegCtrlAddr, RegSrcMSWAddr, RegSrcLSWAddr,
         RegDestMSWAddr, RegDestLSWAddr, RegDataAddr
<1>2. QED
  BY <1>1 DEF Target, Field, RegStateAddr, RegCtrlAddr, RegSrcMSWAddr,
         RegSrcLSWAddr, RegDestMSWAddr, RegDestLSWAddr, RegDataAddr

(* Loading one register with a word leaves the registers typed.            *)
LEMMA RegisterType ==
  ASSUME reg \in [Field -> Value], NEW f \in Field, NEW v \in Value
  PROVE  [reg EXCEPT ![f] = v] \in [Field -> Value]
OBVIOUS

LEMMA SampleType ==
  ASSUME TypeOK, NEW c \in CpuInputs, NEW a \in Answers, Sample(c, a)
  PROVE  s' \in CpuInput /\ p' \in CpuInput /\ readEdge' \in BOOLEAN /\ m' \in Answer
BY DmaInputAssumption DEF TypeOK, Sample, CpuInput

LEMMA CycleType ==
  ASSUME TypeOK, NEW c \in CpuInputs, NEW a \in Answers, Cycle(c, a)
  PROVE  TypeOK'
<1>1. CASE StateReset(c, a)
  BY <1>1, SampleType, ClearedTypes DEF StateReset, TypeOK, State
<1>2. CASE StateIdle(c, a)
  <2>1. taken' \in [addr : Address, rx : Value]
    BY <1>2 DEF StateIdle, TypeOK, CpuInput
  <2>2. state' \in State
    BY <1>2 DEF StateIdle, State
  <2>3. QED
    BY <1>2, <2>1, <2>2, SampleType DEF StateIdle, TypeOK
<1>3. CASE StateEvalData(c, a)
  <2>1. taken.rx \in Value
    BY DEF TypeOK
  <2>2. reg' \in [Field -> Value]
    <3>1. CASE taken.addr \in DOMAIN Target
      BY <1>3, <2>1, <3>1, TargetField, RegisterType DEF StateEvalData, TypeOK
    <3>2. CASE taken.addr \notin DOMAIN Target
      BY <1>3, <3>2 DEF StateEvalData, TypeOK
    <3>3. QED
      BY <3>1, <3>2
  <2>3. QED
    BY <1>3, <2>2, SampleType DEF StateEvalData, TypeOK, State
<1>4. CASE StateRequestRx(c, a)
  BY <1>4, SampleType DEF StateRequestRx, TypeOK, State
<1>5. CASE StateRx(c, a)
  <2>1. m.data \in Value /\ "data" \in Field
    BY DEF TypeOK, Answer, Field
  <2>2. reg' \in [Field -> Value] /\ state' \in State
    BY <1>5, <2>1, RegisterType DEF StateRx, TypeOK, State
  <2>3. QED
    BY <1>5, <2>2, SampleType DEF StateRx, TypeOK
<1>6. CASE StateTx(c, a)
  BY <1>6, SampleType DEF StateTx, TypeOK, State
<1>7. QED
  BY <1>1, <1>2, <1>3, <1>4, <1>5, <1>6 DEF Cycle

LEMMA NextType ==
  ASSUME TypeOK, [Next]_dmaVars
  PROVE  TypeOK'
<1>1. CASE \E c \in CpuInputs, a \in Answers : Cycle(c, a)
  BY <1>1, CycleType
<1>2. CASE Reset
  BY <1>2, ClearedTypes DEF Reset, TypeOK, State
<1>3. CASE UNCHANGED dmaVars
  BY <1>3 DEF dmaVars, TypeOK
<1>4. QED
  BY <1>1, <1>2, <1>3 DEF Next

LEMMA InitType == Init => TypeOK
BY ClearedTypes DEF Init, TypeOK, State

(* Every register keeps its range and the states that dma.vhdl declares    *)
(* without a way in are never entered.                                     *)
THEOREM DmaTypeCorrect == Spec => []TypeOK
<1>1. QED
  BY InitType, NextType, PTL DEF Spec

-----------------------------------------------------------------------------
(* What the outputs of the master port make of a period, for the copier.   *)
LEMMA CycleCopies ==
  ASSUME TypeOK, TypeOK', NEW c \in CpuInputs, NEW a \in Answers, Cycle(c, a)
  PROVE  [Copier!CopierNext]_(Copier!copierVars)
<1> USE DEF MasterRead, MasterWrite, MasterData, Copier!copierVars
<1>f. {"ctrl", "srcMSW", "srcLSW", "destMSW", "destLSW", "data"} \subseteq Field
  BY DEF Field
<1>s. /\ Source' \in Value \X Value
      /\ Destination' \in Value \X Value
      /\ Go(reg["ctrl"])' \in BOOLEAN
  BY <1>f DEF TypeOK, Source, Destination, Go
<1>1. CASE StateReset(c, a) \/ StateEvalData(c, a)
  <2>1. state' = "StateIdle" /\ state \in {"StateReset", "StateEvalData"}
    BY <1>1 DEF StateReset, StateEvalData
  <2>2. Copier!Configure
    BY <1>s, <2>1 DEF Copier!Configure
  <2>3. QED
    BY <2>2 DEF Copier!CopierNext
<1>2. CASE StateIdle(c, a)
  <2>1. CASE state' = "StateRequestRx"
    <3>1. Go(reg["ctrl"]) /\ reg' = reg /\ state = "StateIdle"
      BY <1>2, <2>1 DEF StateIdle
    <3>2. Copier!Start
      BY <2>1, <3>1 DEF Copier!Start, Source, Destination
    <3>3. QED
      BY <3>2 DEF Copier!CopierNext
  <2>2. CASE state' # "StateRequestRx"
    <3>1. state' \in {"StateIdle", "StateEvalData"} /\ reg' = reg /\ state = "StateIdle"
      BY <1>2, <2>2 DEF StateIdle
    <3>2. QED
      BY <3>1 DEF Source, Destination
  <2>3. QED
    BY <2>1, <2>2
<1>3. CASE StateRequestRx(c, a)
  <2>1. state = "StateRequestRx" /\ state' \in {"StateRx", "StateRequestRx"} /\ reg' = reg
    BY <1>3 DEF StateRequestRx
  <2>2. QED
    BY <2>1 DEF Source, Destination
<1>4. CASE StateRx(c, a)
  <2>1. CASE m.valid
    <3>1. /\ state = "StateRx" /\ state' = "StateTx"
          /\ reg' = [reg EXCEPT !["data"] = m.data]
      BY <1>4, <2>1 DEF StateRx
    <3>2. Source' = Source /\ Destination' = Destination /\ reg'["ctrl"] = reg["ctrl"]
      BY <1>f, <3>1 DEF Source, Destination, TypeOK
    <3>3. reg'["data"] = m.data
      BY <1>f, <3>1 DEF TypeOK
    <3>4. Copier!Fetch
      BY <2>1, <3>1, <3>2, <3>3 DEF Copier!Fetch
    <3>5. QED
      BY <3>4 DEF Copier!CopierNext
  <2>2. CASE ~m.valid
    <3>1. state = "StateRx" /\ state' = "StateRequestRx" /\ reg' = reg
      BY <1>4, <2>2 DEF StateRx
    <3>2. QED
      BY <3>1 DEF Source, Destination
  <2>3. QED
    BY <2>1, <2>2
<1>5. CASE StateTx(c, a)
  <2>1. state = "StateTx" /\ state' \in {"StateTx", "StateIdle"} /\ reg' = reg
    BY <1>5 DEF StateTx
  <2>2. CASE state' = "StateTx"
    BY <2>1, <2>2 DEF Source, Destination
  <2>3. CASE state' = "StateIdle"
    <3>1. Copier!Store
      BY <2>1, <2>3 DEF Copier!Store, Source, Destination
    <3>2. QED
      BY <3>1 DEF Copier!CopierNext
  <2>4. QED
    BY <2>1, <2>2, <2>3
<1>6. QED
  BY <1>1, <1>2, <1>3, <1>4, <1>5 DEF Cycle

(* A cleared master is the copier after a reset.                           *)
LEMMA ClearedCopier ==
  ASSUME reg = Cleared
  PROVE  Source = <<0, 0>> /\ Destination = <<0, 0>> /\ Go(reg["ctrl"]) = FALSE
<1>1. \A f \in {"ctrl", "srcMSW", "srcLSW", "destMSW", "destLSW"} : reg[f] = 0
  BY DEF Cleared, Field
<1>2. QED
  BY <1>1 DEF Source, Destination, Go

LEMMA ResetCopies ==
  ASSUME Reset
  PROVE  Copier!CopierReset
<1>1. Source' = <<0, 0>> /\ Destination' = <<0, 0>> /\ Go(reg["ctrl"])' = FALSE
  <2>1. \A f \in {"ctrl", "srcMSW", "srcLSW", "destMSW", "destLSW"} : reg'[f] = 0
    BY DEF Reset, Cleared, Field
  <2>2. QED
    BY <2>1 DEF Source, Destination, Go
<1>2. QED
  BY <1>1 DEF Reset, Copier!CopierReset, MasterRead, MasterWrite, MasterData

(* The DMA master implements the word copier, for any traffic on both its  *)
(* ports: it is configured between two words only, and the word it writes, *)
(* unchanged until the write ends, is the valid data it saw on the read    *)
(* port in its last period of reading.  Safety part.                       *)
THEOREM DmaIsCopier ==
  Spec => Copier!CopierInit /\ [][Copier!CopierNext]_(Copier!copierVars)
<1>1. Init => Copier!CopierInit
  BY ClearedCopier
  DEF Init, Copier!CopierInit, MasterRead, MasterWrite, MasterData
<1>2. ASSUME TypeOK, TypeOK', [Next]_dmaVars
      PROVE  [Copier!CopierNext]_(Copier!copierVars)
  <2>1. CASE \E c \in CpuInputs, a \in Answers : Cycle(c, a)
    BY <1>2, <2>1, CycleCopies
  <2>2. CASE Reset
    BY <2>2, ResetCopies DEF Copier!CopierNext
  <2>3. CASE UNCHANGED dmaVars
    BY <2>3 DEF dmaVars, Copier!copierVars, MasterRead, MasterWrite, MasterData,
                Source, Destination
  <2>4. QED
    BY <1>2, <2>1, <2>2, <2>3 DEF Next
<1>3. QED
  BY <1>1, <1>2, DmaTypeCorrect, PTL DEF Spec

-----------------------------------------------------------------------------
(* A CPU that writes and never reads leaves the DMA as the reset left it:  *)
(* no write configures it, whatever the CPU writes and however often.      *)
THEOREM WritesDoNothing ==
  ASSUME \A c \in CpuInputs : ~c.read
  PROVE  Spec => []Silent
<1>1. Init => Silent
  BY DEF Init, Silent, NoAccess
<1>2. Silent /\ [Next]_dmaVars => Silent'
  <2> SUFFICES ASSUME Silent, [Next]_dmaVars
               PROVE  Silent'
    OBVIOUS
  <2>1. ASSUME NEW c \in CpuInputs, NEW a \in Answers, Cycle(c, a)
        PROVE  Silent'
    <3>1. ~readEdge' /\ ~s'.read
      BY <2>1 DEF Cycle, StateReset, StateIdle, StateEvalData, StateRequestRx,
                  StateRx, StateTx, Sample, Silent
    <3>2. CASE StateReset(c, a)
      BY <3>1, <3>2 DEF StateReset, Silent
    <3>3. CASE StateIdle(c, a)
      BY <3>1, <3>3, ClearedCopier DEF StateIdle, Silent
    <3>4. QED
      BY <2>1, <3>2, <3>3 DEF Cycle, Silent, StateEvalData, StateRequestRx, StateRx, StateTx
  <2>2. CASE Reset
    BY <2>2 DEF Reset, Silent, NoAccess
  <2>3. CASE UNCHANGED dmaVars
    BY <2>3 DEF dmaVars, Silent
  <2>4. QED
    BY <2>1, <2>2, <2>3 DEF Next
<1>3. QED
  BY <1>1, <1>2, PTL DEF Spec

(* On a bus that never makes it wait the DMA never gets past its read      *)
(* request: it never writes a word.                                        *)
THEOREM NoWaitNoWord ==
  ASSUME \A a \in Answers : ~a.wait
  PROVE  Spec => []NeverPastRequest
<1>1. Init => NeverPastRequest
  BY DEF Init, NeverPastRequest, NoAnswer
<1>2. NeverPastRequest /\ [Next]_dmaVars => NeverPastRequest'
  <2> SUFFICES ASSUME NeverPastRequest, [Next]_dmaVars
               PROVE  NeverPastRequest'
    OBVIOUS
  <2>1. ASSUME NEW c \in CpuInputs, NEW a \in Answers, Cycle(c, a)
        PROVE  NeverPastRequest'
    BY <2>1 DEF Cycle, StateReset, StateIdle, StateEvalData, StateRequestRx,
                StateRx, StateTx, Sample, NeverPastRequest
  <2>2. CASE Reset
    BY <2>2 DEF Reset, NeverPastRequest, NoAnswer
  <2>3. CASE UNCHANGED dmaVars
    BY <2>3 DEF dmaVars, NeverPastRequest
  <2>4. QED
    BY <2>1, <2>2, <2>3 DEF Next
<1>3. QED
  BY <1>1, <1>2, PTL DEF Spec

-----------------------------------------------------------------------------
(* The master on its bus.                                                  *)
DmaInv == SystemTypeOK /\ AtMostTwice /\ LastPeriod

LEMMA AskedType ==
  ASSUME SystemTypeOK, NEW a \in Answer, Fabric(a),
         asked' = Waiting(a) \o Accepted(a)
  PROVE  asked' \in Seq(Value \X Value) /\ Len(asked') <= MaxAsked
<1> DEFINE A == Value \X Value
<1>1. Source \in A
  <2>1. reg \in [Field -> Value] /\ "srcMSW" \in Field /\ "srcLSW" \in Field
    BY DEF SystemTypeOK, TypeOK, Field
  <2>2. QED
    BY <2>1 DEF Source
<1> HIDE DEF A
<1>2. asked \in Seq(A) /\ Len(asked) \in Nat /\ Len(asked) <= MaxAsked
  BY DEF SystemTypeOK, A
<1>3. Accepted(a) \in Seq(A) /\ Len(Accepted(a)) \in {0, 1}
  BY <1>1 DEF Accepted
<1>4. /\ Waiting(a) \in Seq(A)
      /\ Len(Waiting(a)) \in Nat /\ Len(Waiting(a)) <= Len(asked)
  <2>1. CASE a.valid
    <3>1. asked # <<>>
      BY <2>1 DEF Fabric
    <3>2. QED
      BY <1>2, <2>1, <3>1 DEF Waiting
  <2>2. CASE ~a.valid
    BY <1>2, <2>2 DEF Waiting
  <2>3. QED
    BY <2>1, <2>2
<1>5. asked' \in Seq(A) /\ Len(asked') = Len(Waiting(a)) + Len(Accepted(a))
  BY <1>3, <1>4
<1>6. Len(asked) = MaxAsked => Len(Accepted(a)) = 0
  BY DEF Fabric, Accepted
<1>7. MaxAsked \in Nat
  BY MaxAskedAssumption
<1>8. Len(asked') <= MaxAsked
  <2>1. CASE Len(Accepted(a)) = 0
    BY <1>2, <1>4, <1>5, <1>7, <2>1
  <2>2. CASE Len(Accepted(a)) = 1
    <3>1. Len(asked) # MaxAsked
      BY <1>6, <2>2
    <3>2. Len(asked) + 1 <= MaxAsked
      BY <1>2, <1>7, <3>1
    <3>3. QED
      BY <1>2, <1>4, <1>5, <1>7, <2>2, <3>2
  <2>3. QED
    BY <1>3, <2>1, <2>2
<1>9. QED
  BY <1>5, <1>8 DEF A

LEMMA SystemPeriodInv ==
  ASSUME DmaInv, NEW c \in CpuInputs, NEW a \in Answers, SystemPeriod(c, a)
  PROVE  DmaInv'
<1>1. a \in Answer
  BY DmaInputAssumption
<1>2. TypeOK'
  BY CycleType DEF DmaInv, SystemTypeOK, SystemPeriod
<1>3. asked' \in Seq(Value \X Value) /\ Len(asked') <= MaxAsked
  BY <1>1, AskedType DEF DmaInv, SystemPeriod
<1>4. stored \in Nat /\ stored <= 2
  BY DEF DmaInv, SystemTypeOK, AtMostTwice
<1>5. CASE ~MasterWrite
  <2>1. stored' = 0
    BY <1>5 DEF SystemPeriod
  <2>2. QED
    BY <1>2, <1>3, <2>1 DEF DmaInv, SystemTypeOK, AtMostTwice, LastPeriod
<1>6. CASE MasterWrite
  <2>1. state = "StateTx" /\ m' = a /\ state' = (IF m.wait THEN "StateTx" ELSE "StateIdle")
    BY <1>6 DEF MasterWrite, SystemPeriod, Cycle, StateReset, StateIdle,
       StateEvalData, StateRequestRx, StateRx, StateTx, Sample
  <2>2. stored' = IF a.wait THEN stored ELSE stored + 1
    BY <1>6 DEF SystemPeriod
  <2>3. stored = 0 \/ (stored = 1 /\ ~m.wait)
    BY <1>4, <1>6 DEF DmaInv, LastPeriod
  <2>4. stored' \in Nat /\ stored' <= 2
    BY <2>2, <2>3
  <2>5. MasterWrite' /\ stored' > 0 => stored' = 1 /\ ~m'.wait
    BY <2>1, <2>2, <2>3 DEF MasterWrite
  <2>6. QED
    BY <1>2, <1>3, <2>4, <2>5 DEF DmaInv, SystemTypeOK, AtMostTwice, LastPeriod
<1>7. QED
  BY <1>5, <1>6

LEMMA SystemResetInv ==
  ASSUME Reset, asked' = <<>>, stored' = 0
  PROVE  DmaInv'
<1>1. TypeOK'
  BY ClearedTypes DEF Reset, TypeOK, State
<1>2. QED
  BY <1>1, MaxAskedAssumption DEF DmaInv, SystemTypeOK, AtMostTwice, LastPeriod

(* The inductive invariant of the master on its bus.                       *)
THEOREM DmaInvariant == SystemSpec => []DmaInv
<1>1. SystemInit => DmaInv
  BY InitType, MaxAskedAssumption
  DEF SystemInit, DmaInv, SystemTypeOK, AtMostTwice, LastPeriod
<1>2. DmaInv /\ [SystemNext]_systemVars => DmaInv'
  <2> SUFFICES ASSUME DmaInv, [SystemNext]_systemVars
               PROVE  DmaInv'
    OBVIOUS
  <2>1. CASE \E c \in CpuInputs, a \in Answers : SystemPeriod(c, a)
    BY <2>1, SystemPeriodInv
  <2>2. CASE SystemReset
    BY <2>2, SystemResetInv DEF SystemReset
  <2>3. CASE UNCHANGED systemVars
    BY <2>3 DEF systemVars, dmaVars, DmaInv, SystemTypeOK, TypeOK, AtMostTwice,
                LastPeriod, MasterWrite
  <2>4. QED
    BY <2>1, <2>2, <2>3 DEF SystemNext
<1>3. QED
  BY <1>1, <1>2, PTL DEF SystemSpec

(* Master, requests on the way and the count of writes stay typed, and the *)
(* source is never asked for more than it takes.                           *)
THEOREM DmaSystemTypeCorrect == SystemSpec => []SystemTypeOK
<1>1. DmaInv => SystemTypeOK
  BY DEF DmaInv
<1>2. QED
  BY <1>1, DmaInvariant, PTL

(* The destination takes a word at most twice, for every bus.              *)
THEOREM WordAtMostTwice == SystemSpec => []AtMostTwice
<1>1. DmaInv => AtMostTwice
  BY DEF DmaInv
<1>2. QED
  BY <1>1, DmaInvariant, PTL

(* A repeated write ends with the period it is repeated in.                *)
THEOREM RepeatedWriteEnds == SystemSpec => []LastPeriod
<1>1. DmaInv => LastPeriod
  BY DEF DmaInv
<1>2. QED
  BY <1>1, DmaInvariant, PTL

-----------------------------------------------------------------------------
(* The word at the source.                                                 *)

(* The CPU changes the source only while no read is on its way and no      *)
(* answer has just come: it has cleared GO and waited for the last one.    *)
QuietChange == Source' # Source => asked' = <<>> /\ ~m'.valid

(* Every read on its way, and the answer that has just come, are of the    *)
(* source as it is programmed.                                             *)
SettledInv ==
  /\ \A i \in 1..Len(asked) : asked[i] = Source
  /\ m.valid => m.data = Memory[Source]
  /\ FreshWord

(* The queue of reads on its way: the oldest is answered, a new one is for *)
(* the source of this period.                                              *)
LEMMA AskedOfSource ==
  ASSUME SystemTypeOK, \A i \in 1..Len(asked) : asked[i] = Source,
         NEW a \in Answers, Fabric(a), NEW q, q = Waiting(a) \o Accepted(a)
  PROVE  /\ \A i \in 1..Len(q) : q[i] = Source
         /\ a.valid => a.data = Memory[Source]
<1> DEFINE A == Value \X Value
<1>1. asked \in Seq(A)
  BY DEF SystemTypeOK
<1>2. Source \in A
  <2>1. reg \in [Field -> Value] /\ "srcMSW" \in Field /\ "srcLSW" \in Field
    BY DEF SystemTypeOK, TypeOK, Field
  <2> QED BY <2>1 DEF Source
<1> HIDE DEF A
<1>3. a.valid => asked # <<>> /\ a.data = Memory[Head(asked)]
  BY DEF Fabric
<1>4. a.valid => a.data = Memory[Source]
  <2>1. asked # <<>> => Head(asked) = asked[1] /\ 1 \in 1..Len(asked)
    BY <1>1
  <2> QED BY <1>3, <2>1
<1>5. PICK w : w = Waiting(a)
  OBVIOUS
<1>6. w \in Seq(A) /\ \A i \in 1..Len(w) : w[i] = Source
  <2>1. CASE a.valid
    <3>1. w = Tail(asked) /\ asked # <<>>
      BY <1>3, <1>5, <2>1 DEF Waiting
    <3>2. w \in Seq(A) /\ Len(w) = Len(asked) - 1
      BY <1>1, <3>1
    <3>3. \A i \in 1..Len(w) : w[i] = asked[i + 1] /\ i + 1 \in 1..Len(asked)
      BY <1>1, <3>1, <3>2
    <3> QED BY <3>2, <3>3
  <2>2. CASE ~a.valid
    BY <1>1, <1>5, <2>2 DEF Waiting
  <2> QED BY <2>1, <2>2
<1>7. CASE MasterRead /\ ~a.wait
  <2>1. q = w \o <<Source>>
    BY <1>5, <1>7 DEF Accepted
  <2>2. Len(q) = Len(w) + 1
    BY <1>2, <1>6, <2>1
  <2>3. \A i \in 1..Len(q) : q[i] = IF i <= Len(w) THEN w[i] ELSE Source
    BY <1>2, <1>6, <2>1, <2>2
  <2>4. \A i \in 1..Len(q) : q[i] = Source
    <3>1. Len(w) \in Nat
      BY <1>6
    <3>2. \A i \in 1..Len(q) : i <= Len(w) => i \in 1..Len(w)
      BY <3>1
    <3> QED BY <1>6, <2>3, <3>2
  <2> QED BY <1>4, <2>4
<1>8. CASE ~(MasterRead /\ ~a.wait)
  <2>1. q = w
    BY <1>5, <1>6, <1>8 DEF Accepted
  <2> QED BY <1>4, <1>6, <2>1
<1> QED BY <1>7, <1>8

LEMMA SettledPeriod ==
  ASSUME SystemTypeOK, SettledInv, QuietChange,
         NEW c \in CpuInputs, NEW a \in Answers, SystemPeriod(c, a)
  PROVE  SettledInv'
<1>1. Cycle(c, a) /\ m' = a /\ asked' = Waiting(a) \o Accepted(a) /\ Fabric(a)
  BY DEF SystemPeriod, Cycle, StateReset, StateIdle, StateEvalData, StateRequestRx,
     StateRx, StateTx, Sample
<1>2. /\ \A i \in 1..Len(asked') : asked'[i] = Source
      /\ m'.valid => m'.data = Memory[Source]
  BY <1>1, AskedOfSource DEF SettledInv
<1>3. /\ \A i \in 1..Len(asked') : asked'[i] = Source'
      /\ m'.valid => m'.data = Memory[Source']
  <2>1. CASE Source' = Source
    BY <1>2, <2>1
  <2>2. CASE Source' # Source
    <3>1. asked' = <<>> /\ ~m'.valid
      BY <2>2 DEF QuietChange
    <3>2. \A i \in 1..Len(asked') : FALSE
      BY <3>1
    <3> QED BY <3>1, <3>2
  <2> QED BY <2>1, <2>2
<1>4. FreshWord'
  <2> SUFFICES ASSUME MasterWrite' PROVE reg'["data"] = Memory[Source']
    BY DEF FreshWord
  <2>1. state' = "StateTx"
    BY DEF MasterWrite
  <2>2. StateRx(c, a) \/ StateTx(c, a)
    BY <1>1, <2>1 DEF Cycle, StateReset, StateIdle, StateEvalData, StateRequestRx
  <2>3. CASE StateRx(c, a)
    <3>1. m.valid /\ reg' = [reg EXCEPT !["data"] = m.data]
      BY <2>1, <2>3 DEF StateRx
    <3>2. reg \in [Field -> Value] /\ {"data", "srcMSW", "srcLSW"} \subseteq Field
      BY DEF SystemTypeOK, TypeOK, Field
    <3>3. reg'["data"] = m.data /\ Source' = Source
      BY <3>1, <3>2 DEF Source
    <3> QED BY <3>1, <3>3 DEF SettledInv
  <2>4. CASE StateTx(c, a)
    <3>1. MasterWrite /\ reg' = reg
      BY <2>4 DEF StateTx, MasterWrite
    <3> QED BY <3>1 DEF SettledInv, FreshWord, Source
  <2> QED BY <2>2, <2>3, <2>4
<1> QED BY <1>3, <1>4 DEF SettledInv

(* What the code leaves to the CPU: with a source that is changed only     *)
(* while no read is on its way, every word written is the one at the       *)
(* source; StateRx itself tells no answer from another (dma.vhdl:705-707). *)
THEOREM FreshIfQuiet ==
  SystemSpec /\ [][QuietChange]_systemVars => []FreshWord
<1>1. SystemInit => SettledInv
  BY DEF SystemInit, Init, SettledInv, FreshWord, MasterWrite, NoAnswer
<1>2. SystemTypeOK /\ SettledInv /\ [SystemNext]_systemVars /\ [QuietChange]_systemVars
        => SettledInv'
  <2> SUFFICES ASSUME SystemTypeOK, SettledInv, [SystemNext]_systemVars,
                      [QuietChange]_systemVars
               PROVE  SettledInv'
    OBVIOUS
  <2>1. CASE UNCHANGED systemVars
    BY <2>1 DEF systemVars, dmaVars, SettledInv, FreshWord, MasterWrite, Source
  <2>2. CASE SystemReset
    <3>1. asked' = <<>> /\ ~m'.valid /\ ~MasterWrite'
      BY <2>2 DEF SystemReset, Reset, NoAnswer, MasterWrite
    <3> QED BY <3>1 DEF SettledInv, FreshWord
  <2>3. CASE QuietChange /\ \E c \in CpuInputs, a \in Answers : SystemPeriod(c, a)
    BY <2>3, SettledPeriod
  <2> QED BY <2>1, <2>2, <2>3 DEF SystemNext
<1>3. SettledInv => FreshWord
  BY DEF SettledInv
<1> QED BY <1>1, <1>2, <1>3, DmaSystemTypeCorrect, PTL DEF SystemSpec

=============================================================================
