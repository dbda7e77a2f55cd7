--------------------------- MODULE LcdSystemProofs ---------------------------
(***************************************************************************)
(* Theorems about the driver between a master and the panel, for every set *)
(* of requests, every reset and boot time and every gap of nine periods or *)
(* more between the writes; for every gap, when a write is ever accepted;  *)
(* and, for every program of stores, what the panel gets of the LCD        *)
(* software.                                                               *)
(***************************************************************************)
EXTENDS LcdSoftware, LcdDriverProofs

SystemInv == SystemTypeOK /\ StreamEmpty /\ Schedule

Bus == Requests \cup {NoWrite}

LEMMA BusTypes == Bus \subseteq Inputs /\ Bus \subseteq BusInput /\ NoWrite \in Bus
BY InputsAssumption DEF Bus, Requests

LEMMA WriteBoolean == \A r \in Bus : r.write \in BOOLEAN
BY BusTypes DEF BusInput

(* What a request asks for is an item of the channel.                      *)
LEMMA OwedType ==
  ASSUME NEW r, r.data \in Word, r.lanes \in SUBSET Lane
  PROVE  /\ Owed(r) = <<>> \/ \E i \in Item : Owed(r) = <<i>>
         /\ Owed(r) \in Seq(Item)
<1>1. ItemOf(r) \in Item
  BY MaskedWord DEF ItemOf, Item
<1>2. <<ItemOf(r)>> \in Seq(Item) /\ <<>> \in Seq(Item)
  BY <1>1
<1>3. QED
  BY <1>1, <1>2 DEF Owed

(* The stages of the bus signals move on at every edge.                    *)
LEMMA StagesMove ==
  ASSUME NEW b, Clocked(b), EdgeOfStages
  PROVE  /\ s' = b /\ p' = s /\ pp' = p
         /\ writeLast' = s.write /\ writeEdge' = (s.write /\ ~p.write)
BY DEF Clocked, Sample, EdgeOfStages

(* What the master may do at an edge.                                      *)
LEMMA MasterMoves ==
  ASSUME SpacedSingleWrites, MasterAssumption, SystemInv,
         MasterHolds \/ MasterDone \/ MasterIdles
  PROVE  /\ bus' \in Bus /\ rest' \in Nat
         /\ bus.write /\ waitReq' => bus' = bus /\ rest' = rest
         /\ Accepted => bus' = NoWrite /\ rest' = MinGap - 1
         /\ ~bus.write => \/ rest = 0 /\ rest' = 0
                          \/ rest > 0 /\ bus' = NoWrite /\ rest' = rest - 1
<1> USE DEF SystemInv, SystemTypeOK, Schedule, NoBurst, Bus
<1>1. bus \in Bus /\ rest \in Nat /\ MinGap \in Nat /\ MinGap >= 9
  BY MasterAssumption DEF SpacedSingleWrites
<1>2. CASE MasterHolds
  BY <1>1, <1>2 DEF MasterHolds, Accepted
<1>3. CASE MasterDone
  BY <1>1, <1>3 DEF MasterDone, Accepted, NextBus
<1>4. CASE MasterIdles
  BY <1>1, <1>4 DEF MasterIdles, Accepted, NextBus
<1>5. QED
  BY <1>2, <1>3, <1>4

(* How the history of accepted items moves.                                *)
LEMMA PendingMoves ==
  ASSUME History, Accepted => bus.data \in Word /\ bus.lanes \in SUBSET Lane
  PROVE  /\ pending = <<>> =>
              pending' = IF Accepted THEN Owed(bus) ELSE <<>>
         /\ \A i \in Item : pending = <<i>> /\ ~Accepted =>
              pending' = IF Strobe THEN <<>> ELSE pending
<1> DEFINE items == IF Accepted THEN Owed(bus) ELSE <<>>
<1>1. items \in Seq(Item)
  <2>1. CASE Accepted
    BY <2>1, OwedType
  <2>2. CASE ~Accepted
    BY <2>2
  <2>3. QED
    BY <2>1, <2>2
<1>2. pending' = (IF Strobe /\ pending # <<>> THEN Tail(pending) ELSE pending) \o items
  BY DEF History
<1> HIDE DEF items
<1>3. ASSUME pending = <<>> PROVE pending' = items
  BY <1>1, <1>2, <1>3
<1>4. ASSUME NEW i \in Item, pending = <<i>>, items = <<>>
      PROVE  pending' = IF Strobe THEN <<>> ELSE pending
  <2>1. pending # <<>> /\ Tail(pending) = <<>>
    BY <1>4
  <2>2. QED
    BY <1>2, <1>4, <2>1
<1>5. QED
  BY <1>3, <1>4 DEF items

(* What every clock period does to the stages, the master and the history. *)
LEMMA PeriodMoves ==
  ASSUME SpacedSingleWrites, SystemInv, ClockPeriod
  PROVE  /\ DriverInv'
         /\ s' = bus /\ p' = s /\ pp' = p
         /\ writeLast' = s.write /\ writeEdge' = (s.write /\ ~p.write)
         /\ bus' \in Bus /\ rest' \in Nat
         /\ bus.write /\ waitReq' => bus' = bus /\ rest' = rest
         /\ bus.write /\ ~waitReq' => ~bus'.write /\ rest' = MinGap - 1
         /\ ~bus.write => \/ rest = 0 /\ rest' = 0
                          \/ rest > 0 /\ ~bus'.write /\ rest' = rest - 1
         /\ pending = <<>> =>
              pending' = IF bus.write /\ ~waitReq' THEN Owed(bus) ELSE <<>>
         /\ \A i \in Item : pending = <<i>> /\ ~(bus.write /\ ~waitReq') =>
              pending' = IF Strobe THEN <<>> ELSE pending
<1>1. Clocked(bus) /\ Cycle(bus)
  BY DEF ClockPeriod, Cycle, StateReset, StateLcdReset, StateResetIntRegData,
     StateIdle, StateNextBurstItem, StateEvalData, StatePrepareTx, StateTx
<1>2. bus \in BusInput
  BY BusTypes DEF SystemInv, Schedule, NoBurst, Bus
<1>3. DriverInv'
  BY <1>1, <1>2, CycleType DEF SystemInv, SystemTypeOK, DriverInv
<1>4. /\ s' = bus /\ p' = s /\ pp' = p
      /\ writeLast' = s.write /\ writeEdge' = (s.write /\ ~p.write)
  BY <1>1, StagesMove DEF SystemInv, Schedule
<1>5. /\ bus' \in Bus /\ rest' \in Nat
      /\ bus.write /\ waitReq' => bus' = bus /\ rest' = rest
      /\ Accepted => bus' = NoWrite /\ rest' = MinGap - 1
      /\ ~bus.write => \/ rest = 0 /\ rest' = 0
                       \/ rest > 0 /\ bus' = NoWrite /\ rest' = rest - 1
  BY MasterMoves, MasterAssumption DEF ClockPeriod
<1>6. ~NoWrite.write
  BY DEF NoWrite
<1>7. bus.data \in Word /\ bus.lanes \in SUBSET Lane
  BY <1>2 DEF BusInput
<1>8. /\ pending = <<>> => pending' = IF Accepted THEN Owed(bus) ELSE <<>>
      /\ \A i \in Item : pending = <<i>> /\ ~Accepted =>
           pending' = IF Strobe THEN <<>> ELSE pending
  BY <1>7, PendingMoves DEF ClockPeriod
<1>9. QED
  BY <1>3, <1>4, <1>5, <1>6, <1>8 DEF Accepted

(* The stages stay among the master's requests.                            *)
LEMMA PeriodStages ==
  ASSUME SpacedSingleWrites, SystemInv, ClockPeriod
  PROVE  /\ {bus, s, p, pp}' \subseteq Bus
         /\ EdgeOfStages'
<1>1. {bus, s, p, pp} \subseteq Bus
  BY DEF SystemInv, Schedule, NoBurst, Bus
<1>2. {bus', s', p', pp'} \subseteq Bus
  BY <1>1, PeriodMoves
<1>3. QED
  BY <1>2, PeriodMoves DEF EdgeOfStages

LEMMA WaitBoolean ==
  ASSUME SystemInv
  PROVE  /\ waitReq \in BOOLEAN /\ writeEdge \in BOOLEAN
         /\ bus.write \in BOOLEAN /\ s.write \in BOOLEAN
         /\ p.write \in BOOLEAN /\ pp.write \in BOOLEAN
<1>1. {bus, s, p, pp} \subseteq Bus
  BY DEF SystemInv, Schedule, NoBurst, Bus
<1>2. waitReq \in BOOLEAN /\ writeEdge \in BOOLEAN
  BY DEF SystemInv, SystemTypeOK, TypeOK
<1>3. QED
  BY <1>1, <1>2, WriteBoolean

(* The place of an accepted request holds an item or nothing.              *)
LEMMA OwedPlace ==
  ASSUME SystemInv
  PROVE  /\ Owed(bus) = <<>> \/ \E i \in Item : Owed(bus) = <<i>>
         /\ Owed(s) = <<>> \/ \E i \in Item : Owed(s) = <<i>>
         /\ Owed(p) = <<>> \/ \E i \in Item : Owed(p) = <<i>>
         /\ Owed(Captured) = <<>> \/ \E i \in Item : Owed(Captured) = <<i>>
<1>1. \A r \in {bus, s, p} : r.data \in Word /\ r.lanes \in SUBSET Lane
  BY BusTypes DEF SystemInv, Schedule, NoBurst, Bus, BusInput
<1>2. Captured.data \in Word /\ Captured.lanes \in SUBSET Lane
  BY DEF Captured, SystemInv, SystemTypeOK, TypeOK, Registers
<1>3. QED
  BY <1>1, <1>2, OwedType

(* Without a request accepted, an accepted item stays until its strobe.    *)
LEMMA PendingStays ==
  ASSUME SpacedSingleWrites, SystemInv, ClockPeriod, ~(bus.write /\ ~waitReq'),
         NEW STATE r, pending = Owed(r),
         Owed(r) = <<>> \/ \E i \in Item : Owed(r) = <<i>>
  PROVE  /\ ~Strobe => pending' = Owed(r)
         /\ Strobe => pending' = <<>>
<1>1. CASE Owed(r) = <<>>
  BY <1>1, PeriodMoves
<1>2. CASE \E i \in Item : Owed(r) = <<i>>
  <2>1. PICK i \in Item : Owed(r) = <<i>>
    BY <1>2
  <2>2. pending' = IF Strobe THEN <<>> ELSE pending
    BY <2>1, PeriodMoves
  <2>3. QED
    BY <2>2
<1>3. QED
  BY <1>1, <1>2

(* A request that moves from one stage to the next asks for the same.      *)
LEMMA OwedMoves ==
  ASSUME SpacedSingleWrites, SystemInv, ClockPeriod
  PROVE  Owed(s)' = Owed(bus) /\ Owed(p)' = Owed(s)
BY PeriodMoves DEF Owed, ItemOf, Masked

(* StateReset: the master has not begun a request.                         *)
LEMMA ScheduleReset ==
  ASSUME SpacedSingleWrites, SystemInv, ClockPeriod, StateReset(bus)
  PROVE  Schedule'
<1> USE DEF SystemInv, Schedule
<1>1. state = "StateReset" /\ BusClosed
  BY DEF StateReset, BusClosed
<1>2. pending = <<>> /\ ~bus.write /\ ~s.write
  BY <1>1 DEF ClosedSchedule
<1>3. state' = "StateLcdReset" /\ burstCount' = 0 /\ bitEnable' = bitEnable /\ pins'.cs = 1
  BY DEF StateReset, RestPins
<1>4. NoBurst' /\ EdgeOfStages'
  BY <1>3, PeriodStages DEF NoBurst, Bus
<1>5. lastLanes' = lastLanes
  BY <1>3 DEF ClockPeriod, History, Sent, Strobe
<1>6. Transmission'
  BY <1>3, <1>5 DEF Transmission
<1>7. BusClosed'
  BY <1>3 DEF BusClosed
<1>8. ClosedSchedule'
  BY <1>2, <1>3, PeriodMoves DEF ClosedSchedule
<1>9. QED
  BY <1>4, <1>6, <1>7, <1>8 DEF OpenSchedule, PendingPlace

(* StateLcdReset: a request is held, because WaitReq is high.              *)
LEMMA ScheduleLcdReset ==
  ASSUME SpacedSingleWrites, SystemInv, ClockPeriod, StateLcdReset(bus)
  PROVE  Schedule'
<1> USE DEF SystemInv, Schedule
<1>1. state = "StateLcdReset" /\ BusClosed /\ waitReq'
  BY DEF StateLcdReset, BusClosed
<1>2. pending = <<>> /\ (s.write => bus = s) /\ (p.write => s = p)
  BY <1>1 DEF ClosedSchedule
<1>3. /\ state' \in {"StateLcdReset", "StateResetIntRegData"}
      /\ burstCount' = 0 /\ bitEnable' = bitEnable /\ pins'.cs = 1
  BY DEF StateLcdReset, RestPins, NoBurst
<1>4. NoBurst' /\ EdgeOfStages'
  BY <1>3, PeriodStages DEF NoBurst, Bus
<1>5. lastLanes' = lastLanes
  BY <1>3 DEF ClockPeriod, History, Sent, Strobe
<1>6. Transmission'
  BY <1>3, <1>5 DEF Transmission
<1>7. BusClosed'
  BY <1>1 DEF BusClosed
<1>8. ClosedSchedule'
  BY <1>1, <1>2, <1>3, PeriodMoves DEF ClosedSchedule
<1>9. QED
  BY <1>4, <1>6, <1>7, <1>8 DEF OpenSchedule, PendingPlace

(* StateResetIntRegData: WaitReq keeps its value, and with it the side of  *)
(* the schedule; a word accepted by now has its edge in the next period.   *)
LEMMA ScheduleResetIntRegData ==
  ASSUME SpacedSingleWrites, SystemInv, ClockPeriod, StateResetIntRegData(bus)
  PROVE  Schedule'
<1> USE DEF SystemInv, Schedule
<1>1. /\ state = "StateResetIntRegData" /\ state' = "StateIdle"
      /\ waitReq' = waitReq /\ pins' = pins /\ burstCount' = 0
      /\ bitEnable' = bitEnable
  BY DEF StateResetIntRegData
<1>2. (BusClosed <=> waitReq) /\ (BusClosed' <=> waitReq)
  BY <1>1 DEF BusClosed
<1>3. NoBurst' /\ EdgeOfStages'
  BY <1>1, PeriodStages DEF NoBurst, Bus
<1>4. ~Strobe /\ lastLanes' = lastLanes
  BY <1>1 DEF ClockPeriod, History, Sent, Strobe
<1>5. Transmission'
  BY <1>1, <1>4 DEF Transmission
<1>6. ClosedSchedule'
  BY <1>1, <1>2, PeriodMoves DEF ClosedSchedule
<1>7. Due = 1 /\ Due' = 0
  BY <1>1 DEF Due
<1>8. OpenSchedule'
  <2>1. rest \in Nat /\ MinGap \in Nat /\ MinGap >= 9
    BY MasterAssumption DEF SpacedSingleWrites, SystemTypeOK
  <2>2. QED
    BY <1>1, <1>2, <1>7, <2>1, PeriodMoves, WaitBoolean
    DEF OpenSchedule, EdgeOfStages
<1>9. PendingPlace'
  <2> SUFFICES ASSUME ~waitReq PROVE PendingPlace'
    BY <1>2 DEF PendingPlace
  <2>1. ~writeEdge /\ ~Transmitting /\ ~Transmitting'
    BY <1>1, <1>2 DEF OpenSchedule, Transmitting
  <2>2. CASE s.write /\ ~p.write
    <3>1. pending = Owed(s) /\ ~bus.write
      BY <1>2, <2>2 DEF PendingPlace, OpenSchedule
    <3>2. pending' = Owed(p)'
      BY <1>4, <3>1, OwedPlace, OwedMoves, PendingStays
    <3>3. QED
      BY <2>1, <2>2, <3>2, PeriodMoves DEF PendingPlace
  <2>3. CASE ~(s.write /\ ~p.write)
    <3>1. pending = <<>> /\ (s.write => ~bus.write)
      BY <1>2, <2>1, <2>3 DEF PendingPlace, OpenSchedule
    <3>2. pending' = IF bus.write THEN Owed(s)' ELSE <<>>
      BY <1>1, <3>1, PeriodMoves, OwedMoves
    <3>3. QED
      BY <2>1, <2>3, <3>1, <3>2, PeriodMoves DEF PendingPlace
  <2>4. QED
    BY <2>2, <2>3
<1>10. QED
  BY <1>3, <1>5, <1>6, <1>8, <1>9

(* StateIdle: the edge that is seen takes the request of stage P, which is *)
(* the one accepted, or the one held while WaitReq is still high.          *)
LEMMA ScheduleIdle ==
  ASSUME SpacedSingleWrites, SystemInv, ClockPeriod, StateIdle(bus)
  PROVE  Schedule'
<1> USE DEF SystemInv, Schedule
<1>1. /\ state = "StateIdle" /\ waitReq' = waitReq /\ bitEnable' = bitEnable
      /\ pins'.cs = 1
      /\ ~writeEdge => state' = "StateIdle" /\ burstCount' = 0
  BY DEF StateIdle, RestPins
<1>2. (BusClosed <=> waitReq) /\ (BusClosed' <=> waitReq)
  BY <1>1, WaitBoolean DEF BusClosed, StateIdle
<1>3. ~p.begin
  BY BusTypes DEF NoBurst, SpacedSingleWrites, NoWrite
<1>4. writeEdge => /\ state' = "StateEvalData" /\ burstCount' = 0
                   /\ Captured' = [addr |-> p.addr, data |-> p.data, lanes |-> p.lanes]
  BY <1>3 DEF StateIdle, Load, Taken, Captured
<1>5. NoBurst' /\ EdgeOfStages'
  BY <1>1, <1>4, PeriodStages DEF NoBurst, Bus
<1>6. ~Strobe /\ lastLanes' = lastLanes
  BY <1>1 DEF ClockPeriod, History, Sent, Strobe
<1>7. Transmission'
  BY <1>1, <1>4, <1>6 DEF Transmission
<1>8. ClosedSchedule'
  <2> SUFFICES ASSUME waitReq PROVE ClosedSchedule'
    BY <1>2 DEF ClosedSchedule
  <2>1. pending = <<>> /\ (s.write => bus = s) /\ (p.write => s = p)
    BY <1>2 DEF ClosedSchedule
  <2>2. pending' = <<>> /\ (bus.write => bus' = bus)
    BY <1>1, <2>1, PeriodMoves
  <2>3. writeEdge => p.write /\ s = p /\ bus = s
    BY <2>1 DEF EdgeOfStages
  <2>4. QED
    BY <1>1, <1>4, <2>1, <2>2, <2>3, PeriodMoves DEF ClosedSchedule
<1>9. OpenSchedule'
  <2> SUFFICES ASSUME ~waitReq PROVE OpenSchedule'
    BY <1>2 DEF OpenSchedule
  <2>1. rest \in Nat /\ MinGap \in Nat /\ MinGap >= 9
    BY MasterAssumption DEF SpacedSingleWrites, SystemTypeOK
  <2>2. /\ s.write => ~bus.write /\ rest >= MinGap - 1
        /\ p.write => ~bus.write /\ rest >= MinGap - 2
    BY <1>2 DEF OpenSchedule
  <2>3. (writeEdge => Due' = 9) /\ (~writeEdge => Due' = 0)
    BY <1>1, <1>4 DEF Due
  <2>4. writeEdge => p.write /\ ~pp.write
    BY DEF EdgeOfStages
  <2>5. (s.write /\ writeEdge) => p.write
    BY <2>4
  <2>6. CASE writeEdge
    BY <1>1, <1>4, <2>1, <2>2, <2>3, <2>4, <2>6, PeriodMoves, WaitBoolean
    DEF OpenSchedule
  <2>7. CASE ~writeEdge
    BY <1>1, <2>1, <2>2, <2>3, <2>7, PeriodMoves, WaitBoolean DEF OpenSchedule
  <2>8. QED
    BY <2>6, <2>7
<1>10. PendingPlace'
  <2> SUFFICES ASSUME ~waitReq PROVE PendingPlace'
    BY <1>2 DEF PendingPlace
  <2>1. ~Transmitting /\ (Transmitting' <=> writeEdge)
    BY <1>1, <1>4 DEF Transmitting
  <2>2. /\ s.write => ~bus.write
        /\ p.write => ~bus.write
        /\ writeEdge => p.write
    BY <1>2 DEF OpenSchedule, EdgeOfStages
  <2>3. CASE writeEdge
    <3>1. pending = Owed(p) /\ ~bus.write
      BY <1>2, <2>2, <2>3 DEF PendingPlace
    <3>2. pending' = Owed(p)
      BY <1>6, <3>1, OwedPlace, PendingStays
    <3>3. Owed(Captured)' = Owed(p)
      BY <1>4, <2>3 DEF Owed, ItemOf, Masked
    <3>4. ~(s'.write /\ ~p'.write) /\ ~writeEdge'
      BY <2>3, <3>1, <2>2, PeriodMoves
    <3>5. QED
      BY <2>1, <2>3, <3>2, <3>3, <3>4 DEF PendingPlace
  <2>4. CASE ~writeEdge /\ s.write /\ ~p.write
    <3>1. pending = Owed(s) /\ ~bus.write
      BY <1>2, <2>2, <2>4 DEF PendingPlace
    <3>2. pending' = Owed(p)'
      BY <1>6, <3>1, OwedPlace, OwedMoves, PendingStays
    <3>3. QED
      BY <2>1, <2>4, <3>2, PeriodMoves DEF PendingPlace
  <2>5. CASE ~writeEdge /\ ~(s.write /\ ~p.write)
    <3>1. pending = <<>>
      BY <1>2, <2>1, <2>5 DEF PendingPlace
    <3>2. pending' = IF bus.write THEN Owed(s)' ELSE <<>>
      BY <1>1, <3>1, PeriodMoves, OwedMoves
    <3>3. QED
      BY <2>1, <2>2, <2>5, <3>2, PeriodMoves DEF PendingPlace
  <2>6. QED
    BY <2>3, <2>4, <2>5
<1>11. QED
  BY <1>5, <1>7, <1>8, <1>9, <1>10

(* StateEvalData: a request held since the reset is accepted here.         *)
LEMMA ScheduleEvalData ==
  ASSUME SpacedSingleWrites, SystemInv, ClockPeriod, StateEvalData(bus)
  PROVE  Schedule'
<1> USE DEF SystemInv, Schedule
<1>1. /\ state = "StateEvalData" /\ ~waitReq' /\ bitEnable' = bitEnable
      /\ pins'.cs = 1 /\ burstCount' = 0 /\ idleCount' = 2
      /\ reg.addr \in TxAddress => state' = "StatePrepareTx"
      /\ reg.addr \notin TxAddress => state' = "StateIdle"
  BY DEF StateEvalData, RestPins, NoBurst
<1>2. ~BusClosed'
  BY <1>1 DEF BusClosed
<1>3. Captured' = Captured /\ (reg.addr \in TxAddress => reg'.data = reg'.rx)
  BY DEF StateEvalData, Load, Captured, SystemTypeOK, TypeOK, Registers
<1>4. NoBurst' /\ EdgeOfStages'
  BY <1>1, PeriodStages DEF NoBurst, Bus
<1>5. ~Strobe /\ lastLanes' = lastLanes
  BY <1>1 DEF ClockPeriod, History, Sent, Strobe
<1>6. Transmission'
  <2>1. reg'.addr = reg.addr
    BY <1>3 DEF Captured
  <2>2. QED
    BY <1>1, <1>3, <1>5, <2>1 DEF Transmission
<1>7. rest \in Nat /\ MinGap \in Nat /\ MinGap >= 9
  BY MasterAssumption DEF SpacedSingleWrites, SystemTypeOK
<1>8. Due = 9 /\ Due' \in {0, 8}
  BY <1>1 DEF Due
<1>9. Transmitting /\ (Transmitting' <=> reg.addr \in TxAddress)
  BY <1>1 DEF Transmitting
<1>10. Owed(Captured)' = Owed(Captured)
       /\ (reg.addr \notin TxAddress => Owed(Captured) = <<>>)
  BY <1>3 DEF Owed, Captured, ItemOf, Masked
<1>11. CASE BusClosed
  <2>1. /\ pending = <<>> /\ pp.write /\ p.write /\ s = p /\ bus = s
        /\ Captured = [addr |-> s.addr, data |-> s.data, lanes |-> s.lanes]
    BY <1>1, <1>11 DEF ClosedSchedule
  <2>2. ~bus'.write /\ rest' = MinGap - 1 /\ pending' = Owed(bus)
    BY <1>1, <2>1, PeriodMoves
  <2>3. s'.write /\ p'.write /\ ~writeEdge'
    BY <2>1, PeriodMoves
  <2>4. OpenSchedule'
    BY <1>7, <1>8, <2>2, <2>3 DEF OpenSchedule
  <2>5. Owed(bus) = Owed(Captured)
    BY <2>1 DEF Owed, ItemOf, Masked
  <2>6. PendingPlace'
    BY <1>9, <1>10, <2>2, <2>3, <2>5 DEF PendingPlace
  <2>7. QED
    BY <1>2, <1>4, <1>6, <2>4, <2>6 DEF ClosedSchedule
<1>12. CASE ~BusClosed
  <2>1. ~bus.write /\ rest >= 6 /\ ~(s.write /\ ~p.write) /\ ~writeEdge
    BY <1>1, <1>7, <1>8, <1>12, WaitBoolean DEF OpenSchedule
  <2>2. ~bus'.write /\ rest' = rest - 1
    BY <1>7, <2>1, PeriodMoves
  <2>3. ~s'.write /\ (p'.write => rest >= MinGap - 1) /\ ~writeEdge'
    BY <1>12, <2>1, PeriodMoves DEF OpenSchedule
  <2>4. OpenSchedule'
    BY <1>7, <1>8, <2>1, <2>2, <2>3 DEF OpenSchedule
  <2>5. pending' = Owed(Captured)
    BY <1>5, <1>9, <1>12, <2>1, OwedPlace, PendingStays DEF PendingPlace
  <2>6. PendingPlace'
    BY <1>9, <1>10, <2>3, <2>5 DEF PendingPlace
  <2>7. QED
    BY <1>2, <1>4, <1>6, <2>4, <2>6 DEF ClosedSchedule
<1>13. QED
  BY <1>11, <1>12


(* While the driver transmits the master is quiet: its next request is at  *)
(* most in its first period when the driver is about to be idle again.     *)
LEMMA QuietMaster ==
  ASSUME SpacedSingleWrites, SystemInv, ClockPeriod, ~BusClosed, Due > 2
  PROVE  /\ ~bus.write /\ ~writeEdge /\ ~(s.write /\ ~p.write)
         /\ (s.write \/ p.write => rest >= MinGap - 2)
         /\ ~s'.write /\ (p'.write => rest >= MinGap - 2) /\ ~writeEdge'
         /\ (rest = 0 /\ rest' = 0) \/ (rest > 0 /\ ~bus'.write /\ rest' = rest - 1)
<1> USE DEF SystemInv, Schedule
<1>1. rest \in Nat /\ MinGap \in Nat /\ MinGap >= 9 /\ Due \in Nat
  <2>1. idleCount \in Nat
    BY DEF SystemTypeOK, TypeOK
  <2>2. Due \in Nat
    BY <2>1 DEF Due
  <2>3. QED
    BY <2>2, MasterAssumption DEF SpacedSingleWrites, SystemTypeOK
<1>2. ~bus.write /\ ~(s.write /\ ~p.write)
  BY <1>1, WaitBoolean DEF OpenSchedule
<1>3. ~writeEdge
  BY DEF OpenSchedule, Due
<1>4. /\ s.write => rest >= MinGap - 1
      /\ p.write => rest >= MinGap - 2
  BY DEF OpenSchedule
<1>5. s.write \/ p.write => rest >= MinGap - 2
  BY <1>1, <1>4
<1>6. ~s'.write /\ (p'.write => rest >= MinGap - 2) /\ ~writeEdge'
  BY <1>2, <1>5, PeriodMoves
<1>7. (rest = 0 /\ rest' = 0) \/ (rest > 0 /\ ~bus'.write /\ rest' = rest - 1)
  BY <1>2, PeriodMoves
<1>8. QED
  BY <1>2, <1>3, <1>5, <1>6, <1>7

(* StatePrepareTx: the registers are held and the strobe is still to come. *)
LEMMA SchedulePrepareTx ==
  ASSUME SpacedSingleWrites, SystemInv, ClockPeriod, StatePrepareTx(bus)
  PROVE  Schedule'
<1> USE DEF SystemInv, Schedule
<1>1. /\ state = "StatePrepareTx" /\ ~waitReq' /\ bitEnable' = bitEnable
      /\ burstCount' = 0
      /\ idleCount > 0 => state' = "StatePrepareTx" /\ idleCount' = idleCount - 1
      /\ ~(idleCount > 0) => state' = "StateTx" /\ idleCount' = 3
  BY DEF StatePrepareTx, NoBurst
<1>2. pins'.wr = 0 /\ pins'.cs = 0 /\ pins'.db = Masked(reg.data, bitEnable)
  BY DEF StatePrepareTx, TxPins
<1>3. reg' = reg
  BY LoadSame DEF StatePrepareTx, SystemTypeOK
<1>4. ~BusClosed /\ ~BusClosed'
  BY <1>1 DEF BusClosed, ClosedSchedule
<1>5. NoBurst' /\ EdgeOfStages'
  BY <1>1, PeriodStages DEF NoBurst, Bus
<1>6. ~Strobe /\ lastLanes' = lastLanes
  BY <1>2 DEF ClockPeriod, History, Sent, Strobe
<1>7. idleCount \in 0 .. 2
  BY <1>1 DEF Transmission, SystemTypeOK, TypeOK
<1>8. Transmission'
  <2>1. reg'.addr \in TxAddress /\ reg'.data = reg'.rx
    BY <1>1, <1>3 DEF Transmission
  <2>2. Masked(reg.data, bitEnable)' = Masked(reg.data, bitEnable)
    BY <1>1, <1>3
  <2>3. QED
    BY <1>1, <1>2, <1>6, <1>7, <2>1, <2>2 DEF Transmission
<1>9. Due = idleCount + 6 /\ Due' = idleCount + 5
  BY <1>1, <1>7 DEF Due
<1>10. /\ ~bus.write /\ ~writeEdge /\ ~(s.write /\ ~p.write)
       /\ ~s'.write /\ (p'.write => rest >= MinGap - 2) /\ ~writeEdge'
       /\ (rest = 0 /\ rest' = 0) \/ (rest > 0 /\ ~bus'.write /\ rest' = rest - 1)
  BY <1>4, <1>7, <1>9, QuietMaster
<1>11. rest \in Nat /\ MinGap \in Nat /\ MinGap >= 9
  BY MasterAssumption DEF SpacedSingleWrites, SystemTypeOK
<1>12. Due <= rest + 3
  BY <1>4, <1>10 DEF OpenSchedule
<1>13. OpenSchedule'
  <2>1. ~bus'.write /\ rest' = rest - 1
    BY <1>7, <1>9, <1>10, <1>11, <1>12
  <2>2. p'.write => rest' >= MinGap - 2
    <3>1. p' = s
      BY PeriodMoves
    <3>2. s.write => rest >= MinGap - 1
      BY <1>4 DEF OpenSchedule
    <3>3. QED
      BY <1>11, <2>1, <3>1, <3>2
  <2>3. QED
    BY <1>7, <1>9, <1>10, <1>11, <1>12, <2>1, <2>2 DEF OpenSchedule
<1>14. PendingPlace'
  <2>1. pending' = Owed(Captured)
    <3>1. pending = Owed(Captured)
      BY <1>1, <1>4 DEF PendingPlace, Transmitting
    <3>2. QED
      BY <1>6, <1>10, <3>1, OwedPlace, PendingStays
  <2>2. Owed(Captured)' = Owed(Captured)
    BY <1>3 DEF Captured
  <2>3. Transmitting'
    BY <1>1 DEF Transmitting
  <2>4. QED
    BY <1>10, <2>1, <2>2, <2>3 DEF PendingPlace
<1>15. QED
  BY <1>4, <1>5, <1>8, <1>13, <1>14 DEF ClosedSchedule

(* StateTx: the strobe is in its first period, and in the last one the     *)
(* next request may already be on the bus.                                 *)
LEMMA ScheduleTx ==
  ASSUME SpacedSingleWrites, SystemInv, ClockPeriod, StateTx(bus)
  PROVE  Schedule'
<1> USE DEF SystemInv, Schedule
<1>1. /\ state = "StateTx" /\ ~waitReq' /\ bitEnable' = reg.lanes
      /\ burstCount' = 0
      /\ idleCount > 0 => state' = "StateTx" /\ idleCount' = idleCount - 1
      /\ ~(idleCount > 0) => state' = "StateResetIntRegData"
  <2>1. burstCount = 0 /\ idleCount \in Nat
    BY DEF NoBurst, SystemTypeOK, TypeOK
  <2>2. QED
    BY <2>1 DEF StateTx, TxAdvance
<1>2. pins'.wr = 1 /\ pins'.cs = 0 /\ pins.cs = 0
  BY <1>1 DEF StateTx, TxPins, Transmission
<1>3. reg' = reg
  BY LoadSame DEF StateTx, SystemTypeOK
<1>4. ~BusClosed /\ ~BusClosed'
  BY <1>1 DEF BusClosed, ClosedSchedule
<1>5. NoBurst' /\ EdgeOfStages'
  BY <1>1, PeriodStages DEF NoBurst, Bus
<1>6. idleCount \in 0 .. 3
  BY <1>1 DEF Transmission, SystemTypeOK, TypeOK
<1>7. /\ idleCount = 3 => pins.wr = 0
      /\ idleCount < 3 => pins.wr = 1 /\ bitEnable = reg.lanes
  BY <1>1 DEF Transmission
<1>8. Strobe <=> idleCount = 3
  BY <1>2, <1>6, <1>7 DEF Strobe
<1>9. lastLanes' = bitEnable'
  <2>1. bitEnable = lastLanes
    BY DEF Transmission
  <2>2. QED
    BY <1>1, <1>6, <1>7, <1>8, <2>1 DEF ClockPeriod, History, Sent
<1>10. Transmission'
  <2>1. reg'.addr \in TxAddress /\ reg'.data = reg'.rx
    BY <1>1, <1>3 DEF Transmission
  <2>2. QED
    BY <1>1, <1>2, <1>3, <1>6, <1>9, <2>1 DEF Transmission
<1>11. Due = idleCount + 2
  BY <1>1 DEF Due
<1>12. Transmitting => idleCount = 3
  BY <1>1 DEF Transmitting
<1>13. rest \in Nat /\ MinGap \in Nat /\ MinGap >= 9
  BY MasterAssumption DEF SpacedSingleWrites, SystemTypeOK
<1>14. CASE idleCount > 0
  <2>1. /\ ~bus.write /\ ~writeEdge /\ ~(s.write /\ ~p.write)
        /\ ~s'.write /\ (p'.write => rest >= MinGap - 2) /\ ~writeEdge'
        /\ (rest = 0 /\ rest' = 0) \/ (rest > 0 /\ ~bus'.write /\ rest' = rest - 1)
    BY <1>4, <1>6, <1>11, <1>14, QuietMaster
  <2>2. Due' = idleCount + 1
    BY <1>1, <1>6, <1>14 DEF Due
  <2>3. Due <= rest + 3
    BY <1>4, <2>1 DEF OpenSchedule
  <2>4. rest > 0 \/ idleCount = 1
    BY <1>6, <1>11, <1>13, <1>14, <2>3
  <2>5. p'.write => ~bus'.write /\ rest' >= MinGap - 2
    <3>1. p' = s
      BY PeriodMoves
    <3>2. s.write => rest >= MinGap - 1
      BY <1>4 DEF OpenSchedule
    <3>3. QED
      BY <1>13, <2>1, <3>1, <3>2
  <2>6. bus'.write => Due' <= 2
    BY <1>6, <1>13, <2>1, <2>2, <2>4
  <2>7. ~bus'.write => Due' <= rest' + 3
    BY <1>6, <1>11, <1>13, <2>1, <2>2, <2>3
  <2>8. OpenSchedule'
    BY <2>1, <2>5, <2>6, <2>7 DEF OpenSchedule
  <2>9. pending' = <<>>
    <3>1. CASE idleCount = 3
      <4>1. pending = Owed(Captured)
        BY <1>1, <1>4, <3>1 DEF PendingPlace, Transmitting
      <4>2. QED
        BY <1>8, <2>1, <3>1, <4>1, OwedPlace, PendingStays
    <3>2. CASE idleCount # 3
      BY <1>4, <1>12, <2>1, <3>2, PeriodMoves DEF PendingPlace
    <3>3. QED
      BY <3>1, <3>2
  <2>10. ~Transmitting'
    BY <1>1, <1>6, <1>14 DEF Transmitting
  <2>11. QED
    BY <1>4, <1>5, <1>10, <2>1, <2>8, <2>9, <2>10
    DEF ClosedSchedule, PendingPlace
<1>15. CASE ~(idleCount > 0)
  <2>1. idleCount = 0 /\ Due = 2 /\ Due' = 1 /\ ~Transmitting /\ ~Transmitting'
    BY <1>1, <1>6, <1>11, <1>12, <1>15 DEF Due, Transmitting
  <2>2. ~writeEdge /\ ~(s.write /\ ~p.write)
    BY <1>1, <1>4, <2>1 DEF OpenSchedule
  <2>3. pending = <<>> /\ ~writeEdge'
    BY <1>4, <2>1, <2>2, PeriodMoves DEF PendingPlace
  <2>4. s.write => ~bus.write /\ rest >= MinGap - 1
    BY <1>4 DEF OpenSchedule
  <2>5. OpenSchedule'
    BY <1>1, <1>13, <2>1, <2>3, <2>4, PeriodMoves, WaitBoolean DEF OpenSchedule
  <2>6. pending' = IF bus.write THEN Owed(s)' ELSE <<>>
    BY <1>1, <2>3, PeriodMoves, OwedMoves
  <2>7. PendingPlace'
    BY <2>1, <2>3, <2>4, <2>6, PeriodMoves DEF PendingPlace
  <2>8. QED
    BY <1>4, <1>5, <1>10, <2>5, <2>7 DEF ClosedSchedule
<1>16. QED
  BY <1>14, <1>15

(* One clock period keeps the whole invariant.                             *)
LEMMA PeriodType ==
  ASSUME SpacedSingleWrites, SystemInv, ClockPeriod
  PROVE  SystemTypeOK'
<1>1. TypeOK' /\ bus' \in Inputs /\ rest' \in Nat
  BY PeriodMoves, BusTypes DEF DriverInv
<1>2. pending' \in Seq(Item)
  <2> DEFINE left == IF Strobe /\ pending # <<>> THEN Tail(pending) ELSE pending
             more == IF Accepted THEN Owed(bus) ELSE <<>>
  <2>1. pending \in Seq(Item)
    BY DEF SystemInv, SystemTypeOK
  <2>2. left \in Seq(Item)
    BY <2>1
  <2>3. bus.data \in Word /\ bus.lanes \in SUBSET Lane
    BY BusTypes DEF SystemInv, Schedule, NoBurst, Bus, BusInput
  <2>4. more \in Seq(Item)
    <3>1. <<>> \in Seq(Item)
      OBVIOUS
    <3>2. QED
      BY <2>3, <3>1, OwedType
  <2>5. pending' = left \o more
    BY DEF ClockPeriod, History
  <2> HIDE DEF left, more
  <2>6. QED
    BY <2>2, <2>4, <2>5
<1>3. out' \in Item /\ parity' \in {0, 1} /\ lastLanes' \in SUBSET Lane
  <2>1. pins' \in Pins /\ bitEnable' \in SUBSET Lane
    BY <1>1 DEF TypeOK
  <2>2. pins'.db \in Word
    BY <2>1 DEF Pins
  <2>3. [word |-> pins'.db, lanes |-> bitEnable', data |-> pins'.dc = 1] \in Item
    BY <2>1, <2>2 DEF Item
  <2>4. QED
    BY <2>1, <2>3 DEF ClockPeriod, History, Sent, SystemInv, SystemTypeOK
<1>4. QED
  BY <1>1, <1>2, <1>3 DEF SystemTypeOK

LEMMA PeriodInv ==
  ASSUME SpacedSingleWrites, SystemInv, ClockPeriod
  PROVE  SystemInv'
<1>1. Schedule'
  <2>1. Cycle(bus) /\ ~StateNextBurstItem(bus)
    BY DEF ClockPeriod, SystemInv, Schedule, NoBurst, StateNextBurstItem
  <2>2. QED
    BY <2>1, ScheduleReset, ScheduleLcdReset, ScheduleResetIntRegData,
       ScheduleIdle, ScheduleEvalData, SchedulePrepareTx, ScheduleTx DEF Cycle
<1>2. StreamEmpty'
  BY PeriodMoves DEF DriverInv
<1>3. QED
  BY <1>1, <1>2, PeriodType DEF SystemInv

(* What power-up and Reset_NRI leave: nothing accepted, nothing asked for. *)
LEMMA QuietStart ==
  ASSUME state = "StateReset", burstCount = 0, bus = NoWrite,
         s = NoWrite, p = NoWrite, pp = NoWrite, ~writeLast, ~writeEdge,
         writeLast \in BOOLEAN, writeEdge \in BOOLEAN,
         pending = <<>>, bitEnable = lastLanes
  PROVE  Schedule
<1>1. ~NoWrite.write /\ NoWrite.write \in BOOLEAN
  BY DEF NoWrite
<1>2. NoBurst /\ EdgeOfStages /\ Transmission /\ ClosedSchedule /\ BusClosed
  BY <1>1 DEF NoBurst, EdgeOfStages, Transmission, ClosedSchedule, BusClosed
<1>3. QED
  BY <1>2 DEF Schedule, OpenSchedule, PendingPlace

LEMMA StartType ==
  /\ NoWrite \in Inputs /\ BootTicks \in Nat
  /\ <<>> \in Seq(Item) /\ NoItem \in Item /\ {} \in SUBSET Lane
BY InputsAssumption, MasterAssumption, ConstantTypes DEF NoItem, Item

LEMMA ResetInv ==
  ASSUME SpacedSingleWrites, SystemInv, SystemReset
  PROVE  SystemInv'
<1>1. DriverInv'
  BY ResetType DEF SystemReset, SystemInv, SystemTypeOK, DriverInv
<1>2. SystemTypeOK'
  BY <1>1, StartType DEF SystemReset, SystemInv, SystemTypeOK, DriverInv
<1>3. Schedule'
  <2>1. bitEnable' = lastLanes'
    BY DEF SystemReset, Reset, SystemInv, Schedule, Transmission
  <2>2. /\ state' = "StateReset" /\ burstCount' = 0
        /\ bus' = NoWrite /\ s' = NoWrite /\ p' = NoWrite /\ pp' = NoWrite
        /\ writeLast' = FALSE /\ writeEdge' = FALSE /\ pending' = <<>>
    BY DEF SystemReset, Reset
  <2>3. ~NoWrite.write /\ NoWrite.write \in BOOLEAN
    BY DEF NoWrite
  <2>4. NoBurst' /\ EdgeOfStages' /\ Transmission' /\ ClosedSchedule' /\ BusClosed'
    BY <2>1, <2>2, <2>3
    DEF NoBurst, EdgeOfStages, Transmission, ClosedSchedule, BusClosed
  <2>5. QED
    BY <2>4 DEF Schedule, OpenSchedule, PendingPlace
<1>4. QED
  BY <1>1, <1>2, <1>3 DEF SystemInv, DriverInv

LEMMA StartInv == SystemInit => SystemInv
<1> SUFFICES ASSUME SystemInit PROVE SystemInv
  OBVIOUS
<1>1. DriverInv
  BY InitType DEF SystemInit
<1>2. SystemTypeOK
  BY <1>1, StartType DEF SystemInit, SystemTypeOK, DriverInv
<1>3. Schedule
  BY QuietStart DEF SystemInit, Init
<1>4. QED
  BY <1>1, <1>2, <1>3 DEF SystemInv, DriverInv

LEMMA StepInv ==
  ASSUME SpacedSingleWrites, SystemInv, [SystemNext]_systemVars
  PROVE  SystemInv'
<1>1. CASE ClockPeriod
  BY <1>1, PeriodInv
<1>2. CASE SystemReset
  BY <1>2, ResetInv
<1>3. CASE UNCHANGED systemVars
  <2>1. SystemTypeOK' /\ StreamEmpty'
    BY <1>3 DEF SystemInv, SystemTypeOK, TypeOK, StreamEmpty, systemVars, driverVars
  <2>2. Schedule'
    BY <1>3 DEF SystemInv, Schedule, NoBurst, EdgeOfStages, Transmission,
       ClosedSchedule, OpenSchedule, PendingPlace, BusClosed, Captured, Due,
       Transmitting, Owed, ItemOf, Masked, systemVars, driverVars
  <2>3. QED
    BY <2>1, <2>2 DEF SystemInv
<1>4. QED
  BY <1>1, <1>2, <1>3 DEF SystemNext

(* The schedule of a request holds in every reachable state, if the master *)
(* starts no burst and leaves nine periods or more between its writes.     *)
THEOREM SystemInvariant ==
  ASSUME SpacedSingleWrites
  PROVE  SystemSpec => []SystemInv
<1>1. SystemInv /\ [SystemNext]_systemVars => SystemInv'
  BY StepInv
<1>2. QED
  BY <1>1, StartInv, PTL DEF SystemSpec

(* The same for the schedule alone, which the runs check.                  *)
THEOREM ScheduleKept ==
  ASSUME SpacedSingleWrites
  PROVE  SystemSpec => []Schedule
BY SystemInvariant, PTL DEF SystemInv

(* Every signal and the history of the driver stay typed on that bus.      *)
THEOREM SystemTypeCorrect ==
  ASSUME SpacedSingleWrites
  PROVE  SystemSpec => []SystemTypeOK
BY SystemInvariant, PTL DEF SystemInv

-----------------------------------------------------------------------------
(* A request is accepted only when the one before it was strobed.          *)
LEMMA AcceptedAlone ==
  ASSUME SystemInv, bus.write
  PROVE  pending = <<>>
<1> USE DEF SystemInv, Schedule
<1>1. CASE BusClosed
  BY <1>1 DEF ClosedSchedule
<1>2. CASE ~BusClosed
  <2>1. ~s.write /\ ~p.write /\ Due <= 2
    BY <1>2 DEF OpenSchedule
  <2>2. ~writeEdge
    BY <2>1 DEF EdgeOfStages
  <2>3. ~Transmitting
    <3>1. idleCount \in Nat
      BY DEF SystemTypeOK, TypeOK
    <3>2. QED
      BY <2>1, <3>1 DEF Transmitting, Due
  <2>4. QED
    BY <1>2, <2>1, <2>2, <2>3 DEF PendingPlace
<1>3. QED
  BY <1>1, <1>2

(* There is never more than one accepted request on its way.               *)
LEMMA PendingForm ==
  ASSUME SystemInv
  PROVE  pending = <<>> \/ \E i \in Item : pending = <<i>>
<1> USE DEF SystemInv, Schedule
<1>1. CASE BusClosed
  BY <1>1 DEF ClosedSchedule
<1>2. CASE ~BusClosed
  BY <1>2, OwedPlace DEF PendingPlace
<1>3. QED
  BY <1>1, <1>2

(* The panel is strobed in the first period of StateTx only, and gets the  *)
(* request the registers hold; the pins were driven on the lanes before.   *)
LEMMA StrobeSends ==
  ASSUME SpacedSingleWrites, SystemInv, ClockPeriod, Strobe
  PROVE  /\ pending = <<out'>> /\ pending' = <<>> /\ parity' = 1 - parity
         /\ out'.lanes = reg.lanes /\ lastLanes = bitEnable
         /\ pins.db = Masked(reg.data, bitEnable)
         /\ pins'.db = Masked(reg.data, reg.lanes)
<1> USE DEF SystemInv, Schedule
<1>1. StateTx(bus)
  <2>1. pins.wr = 0 /\ pins'.wr = 1 /\ pins'.cs = 0
    BY DEF Strobe
  <2>2. ~StateReset(bus) /\ ~StateLcdReset(bus) /\ ~StateEvalData(bus)
    BY <2>1 DEF StateReset, StateLcdReset, StateEvalData, RestPins
  <2>3. ~StateIdle(bus) /\ ~StateNextBurstItem(bus)
    BY <2>1 DEF StateIdle, StateNextBurstItem, RestPins
  <2>4. ~StateResetIntRegData(bus)
    BY <2>1 DEF StateResetIntRegData
  <2>5. ~StatePrepareTx(bus)
    BY <2>1 DEF StatePrepareTx, TxPins
  <2>6. QED
    BY <2>2, <2>3, <2>4, <2>5 DEF ClockPeriod, Cycle
<1>2. state = "StateTx" /\ bitEnable' = reg.lanes /\ pins' = TxPins(1, reg.lanes)
  BY <1>1 DEF StateTx
<1>3. idleCount = 3
  <2>1. idleCount \in Nat /\ idleCount <= 3
    BY <1>2 DEF SystemTypeOK, TypeOK, Transmission
  <2>2. ~(idleCount < 3)
    BY <1>2 DEF Strobe, Transmission
  <2>3. QED
    BY <2>1, <2>2
<1>4. /\ pins.db = Masked(reg.data, bitEnable) /\ bitEnable = lastLanes
      /\ reg.addr \in TxAddress /\ reg.data = reg.rx
  BY <1>2, <1>3 DEF Transmission
<1>5. ~BusClosed
  BY <1>2 DEF BusClosed, ClosedSchedule, SystemTypeOK
<1>6. Due > 2
  BY <1>2, <1>3 DEF Due
<1>7. ~bus.write
  BY <1>5, <1>6, QuietMaster
<1>8. pending = Owed(Captured)
  BY <1>2, <1>3, <1>5 DEF PendingPlace, Transmitting
<1>9. pending' = <<>>
  BY <1>7, <1>8, OwedPlace, PendingStays
<1>10. /\ pins'.db = Masked(reg.data, reg.lanes)
       /\ pins'.dc = IF reg.addr = RegWriteCmdAddr THEN 0 ELSE 1
  BY <1>2 DEF TxPins
<1>11. /\ out' = [word |-> pins'.db, lanes |-> bitEnable', data |-> pins'.dc = 1]
       /\ parity' = 1 - parity
  BY DEF ClockPeriod, History, Sent
<1>12. ItemOf(Captured) = [word |-> Masked(reg.rx, reg.lanes), lanes |-> reg.lanes,
                          data |-> reg.addr = RegWriteDataAddr]
  BY DEF ItemOf, Captured
<1>13. (pins'.dc = 1) <=> (reg.addr = RegWriteDataAddr)
  BY <1>4, <1>10 DEF TxAddress, RegWriteDataAddr, RegWriteCmdAddr
<1>14. out' = ItemOf(Captured)
  BY <1>2, <1>4, <1>10, <1>11, <1>12, <1>13
<1>15. Owed(Captured) = <<ItemOf(Captured)>>
  BY <1>4 DEF Owed, Captured
<1>16. out'.lanes = reg.lanes
  BY <1>12, <1>14
<1>17. QED
  BY <1>4, <1>8, <1>9, <1>10, <1>11, <1>14, <1>15, <1>16

(* No write is lost: an accepted request is strobed before the next one is *)
(* accepted, although WaitReq is low while the driver transmits and an     *)
(* edge outside of StateIdle is forgotten.                                 *)
THEOREM NoWriteIsLost ==
  ASSUME SpacedSingleWrites
  PROVE  SystemSpec => []NoWriteLost
<1>1. ASSUME SystemInv PROVE NoWriteLost
  <2>1. CASE pending = <<>>
    BY <2>1 DEF NoWriteLost
  <2>2. CASE \E i \in Item : pending = <<i>>
    BY <2>2 DEF NoWriteLost
  <2>3. QED
    BY <1>1, <2>1, <2>2, PendingForm
<1>2. QED
  BY <1>1, SystemInvariant, PTL

(* The data is set up before Wr rises when the lanes are those of the word *)
(* before (StatePrepareTx drives the lanes latched in StateTx).            *)
THEOREM SetupKept ==
  ASSUME SpacedSingleWrites
  PROVE  SystemSpec => SetupWhenLanesKept
<1> DEFINE Kept == (Strobe /\ pending # <<>> /\ Head(pending).lanes = lastLanes)
                     => pins'.db = pins.db
<1>1. ASSUME SystemInv, ClockPeriod PROVE Kept
  <2> SUFFICES ASSUME Strobe, Head(pending).lanes = lastLanes
               PROVE  pins'.db = pins.db
    OBVIOUS
  <2>1. Head(pending) = out'
    BY <1>1, StrobeSends
  <2>2. QED
    BY <1>1, <2>1, StrobeSends
<1>2. SystemReset => Kept
  BY DEF SystemReset, Reset, RestPins, Strobe
<1>3. SystemInv /\ [SystemNext]_systemVars => [Kept]_systemVars
  BY <1>1, <1>2 DEF SystemNext
<1>4. QED
  BY <1>3, SystemInvariant, PTL DEF SystemSpec, SetupWhenLanesKept

(* The driver implements the channel: each strobe sends exactly the        *)
(* accepted request, as data or command and on its lanes, and takes it off *)
(* the channel, so that nothing but an accepted request is ever strobed    *)
(* and none of them twice.                                                 *)
THEOREM DriverIsChannel ==
  ASSUME SpacedSingleWrites
  PROVE  SystemSpec => ImplementsChannel
<1>1. SystemInit => Channel!ChannelInit
  BY DEF SystemInit, Channel!ChannelInit
<1>2. ASSUME SystemInv, ClockPeriod
      PROVE  Channel!ChannelNext \/ UNCHANGED <<pending, out, parity>>
  <2>1. CASE Strobe
    <3>1. pending = <<out'>> /\ pending' = <<>> /\ parity' = 1 - parity
      BY <1>2, <2>1, StrobeSends
    <3>2. pending # <<>> /\ out' = Head(pending) /\ pending' = Tail(pending)
      BY <3>1
    <3>3. QED
      BY <3>1, <3>2 DEF Channel!ChannelNext, Channel!Deliver
  <2>2. CASE ~Strobe /\ bus.write /\ ~waitReq'
    <3>1. pending = <<>> /\ UNCHANGED <<out, parity>>
      BY <1>2, <2>2, AcceptedAlone DEF ClockPeriod, History, Sent
    <3>2. pending' = Owed(bus)
      BY <1>2, <2>2, <3>1, PeriodMoves
    <3>3. Owed(bus) = <<>> \/ \E i \in Item : Owed(bus) = <<i>>
      BY <1>2, OwedPlace
    <3>4. QED
      BY <3>1, <3>2, <3>3 DEF Channel!ChannelNext, Channel!Accept
  <2>3. CASE ~Strobe /\ ~(bus.write /\ ~waitReq')
    <3>1. UNCHANGED <<out, parity>>
      BY <1>2, <2>3 DEF ClockPeriod, History, Sent
    <3>2. CASE pending = <<>>
      BY <1>2, <2>3, <3>1, <3>2, PeriodMoves
    <3>3. CASE \E i \in Item : pending = <<i>>
      <4>1. PICK i \in Item : pending = <<i>>
        BY <3>3
      <4>2. pending' = pending
        BY <1>2, <2>3, <4>1, PeriodMoves
      <4>3. QED
        BY <3>1, <4>2
    <3>4. QED
      BY <1>2, <3>2, <3>3, PendingForm
  <2>4. QED
    BY <2>1, <2>2, <2>3
<1>3. SystemReset => Channel!ChannelNext
  BY DEF SystemReset, Channel!ChannelNext, Channel!Restart
<1>4. SystemInv /\ [SystemNext]_systemVars => [Channel!ChannelNext]_(Channel!channelVars)
  BY <1>2, <1>3 DEF SystemNext, systemVars, Channel!channelVars
<1>5. QED
  BY <1>1, <1>4, SystemInvariant, PTL DEF SystemSpec, ImplementsChannel

-----------------------------------------------------------------------------
(* How long an accepted request is on its way.                             *)

(* Clock periods until the panel has what is pending.                      *)
Remaining ==
  IF s.write /\ ~p.write THEN 7
  ELSE IF writeEdge THEN 6
  ELSE IF state = "StateEvalData" THEN 5
  ELSE IF state = "StatePrepareTx" THEN idleCount + 2 ELSE 1

(* A request is on its way for seven periods from the one it is accepted   *)
(* in, or for four if WaitReq had held it; every period takes one off, and *)
(* the last one strobes.                                                   *)
SentOnTime ==
  ClockPeriod =>
    /\ pending # <<>> =>
         /\ Remaining \in 1..7
         /\ Remaining > 1 => ~Strobe /\ pending' = pending /\ Remaining' = Remaining - 1
         /\ Remaining = 1 => Strobe /\ pending' = <<>>
    /\ Accepted /\ Owed(bus) # <<>> =>
         pending' # <<>> /\ Remaining' = IF waitReq THEN 4 ELSE 7

LEMMA StrobeWhen ==
  ASSUME SystemInv, ClockPeriod
  PROVE  Strobe <=> state = "StateTx" /\ idleCount = 3
<1> USE DEF SystemInv, Schedule
<1>1. Strobe => StateTx(bus)
  BY DEF Strobe, ClockPeriod, Cycle, StateReset, StateLcdReset, StateResetIntRegData,
     StateIdle, StateNextBurstItem, StateEvalData, StatePrepareTx, RestPins, TxPins
<1>2. ASSUME state = "StateTx" PROVE Strobe <=> idleCount = 3
  <2>1. StateTx(bus)
    BY <1>2 DEF ClockPeriod, Cycle, StateReset, StateLcdReset, StateResetIntRegData,
       StateIdle, StateNextBurstItem, StateEvalData, StatePrepareTx
  <2>2. pins'.wr = 1 /\ pins'.cs = 0
    BY <2>1 DEF StateTx, TxPins
  <2>3. idleCount \in Nat /\ idleCount <= 3
    BY <1>2 DEF SystemTypeOK, TypeOK, Transmission
  <2>4. /\ pins.cs = 0 /\ (idleCount = 3 => pins.wr = 0)
        /\ (idleCount < 3 => pins.wr = 1)
    BY <1>2 DEF Transmission
  <2> QED BY <2>2, <2>3, <2>4 DEF Strobe
<1> QED BY <1>1, <1>2 DEF StateTx

LEMMA OnTheWay ==
  ASSUME SpacedSingleWrites, SystemInv, ClockPeriod, pending # <<>>
  PROVE  /\ Remaining \in 1..7
         /\ Remaining > 1 => ~Strobe /\ pending' = pending /\ Remaining' = Remaining - 1
         /\ Remaining = 1 => Strobe /\ pending' = <<>>
<1> USE DEF SystemInv, Schedule
<1>1. ~BusClosed /\ ~bus.write
  BY AcceptedAlone DEF ClosedSchedule
<1>2. pending' = IF Strobe THEN <<>> ELSE pending
  <2>1. PICK i \in Item : pending = <<i>>
    BY PendingForm
  <2> QED BY <1>1, <2>1, PeriodMoves
<1>3. /\ s' = bus /\ p' = s /\ writeEdge' = (s.write /\ ~p.write)
      /\ ~s'.write
  BY <1>1, PeriodMoves
<1>4. /\ (s.write /\ ~p.write) => Due <= 1
      /\ writeEdge => state = "StateIdle" /\ p.write
      /\ (s.write /\ ~p.write) \/ writeEdge \/ Transmitting
      /\ Transmitting => pending = Owed(Captured)
  BY <1>1 DEF OpenSchedule, PendingPlace, EdgeOfStages
<1>5. idleCount \in Nat
  BY DEF SystemTypeOK, TypeOK
<1>6. CASE s.write /\ ~p.write
  <2>1. Remaining = 7
    BY <1>6 DEF Remaining
  <2>2. Remaining' = 6
    BY <1>3, <1>6 DEF Remaining
  <2>3. ~Strobe
    BY <1>4, <1>5, <1>6, StrobeWhen DEF Due
  <2> QED BY <1>2, <2>1, <2>2, <2>3
<1>7. CASE writeEdge
  <2>1. ~(s.write /\ ~p.write) /\ state = "StateIdle"
    BY <1>4, <1>7
  <2>2. Remaining = 6 /\ ~Strobe
    BY <1>7, <2>1, StrobeWhen DEF Remaining
  <2>3. state' = "StateEvalData"
    BY <1>7, <2>1 DEF ClockPeriod, Cycle, StateReset, StateLcdReset, StateResetIntRegData,
       StateIdle, StateNextBurstItem, StateEvalData, StatePrepareTx, StateTx
  <2>4. ~writeEdge'
    BY <1>3, <2>1
  <2>5. Remaining' = 5
    BY <1>3, <2>3, <2>4 DEF Remaining
  <2> QED BY <1>2, <2>2, <2>5
<1>8. CASE Transmitting /\ ~(s.write /\ ~p.write) /\ ~writeEdge
  <2>1. ~s'.write /\ ~writeEdge'
    BY <1>3, <1>8
  <2>2. reg.addr \in TxAddress
    BY <1>4, <1>8 DEF Owed, Captured
  <2>3. CASE state = "StateEvalData"
    <3>1. state' = "StatePrepareTx" /\ idleCount' = 2
      BY <2>2, <2>3 DEF ClockPeriod, Cycle, StateReset, StateLcdReset, StateResetIntRegData,
         StateIdle, StateNextBurstItem, StateEvalData, StatePrepareTx, StateTx
    <3>2. Remaining = 5 /\ Remaining' = 4 /\ ~Strobe
      BY <1>8, <2>1, <2>3, <3>1, StrobeWhen DEF Remaining
    <3> QED BY <1>2, <3>2
  <2>4. CASE state = "StatePrepareTx"
    <3>1. idleCount <= 2 /\ ~Strobe
      BY <2>4, StrobeWhen DEF Transmission
    <3>2. Remaining = idleCount + 2
      BY <1>8, <2>4 DEF Remaining
    <3>3. IF idleCount > 0 THEN state' = "StatePrepareTx" /\ idleCount' = idleCount - 1
                           ELSE state' = "StateTx"
      BY <2>4 DEF ClockPeriod, Cycle, StateReset, StateLcdReset, StateResetIntRegData,
         StateIdle, StateNextBurstItem, StateEvalData, StatePrepareTx, StateTx
    <3>4. Remaining' = IF idleCount > 0 THEN idleCount + 1 ELSE 1
      BY <1>5, <2>1, <3>3 DEF Remaining
    <3> QED BY <1>2, <1>5, <3>1, <3>2, <3>4
  <2>5. CASE state = "StateTx" /\ idleCount = 3
    <3>1. Remaining = 1 /\ Strobe
      BY <1>8, <2>5, StrobeWhen DEF Remaining
    <3> QED BY <1>2, <3>1
  <2> QED BY <1>8, <2>3, <2>4, <2>5 DEF Transmitting
<1> QED BY <1>4, <1>6, <1>7, <1>8

LEMMA OnItsWay ==
  ASSUME SpacedSingleWrites, SystemInv, ClockPeriod, Accepted, Owed(bus) # <<>>
  PROVE  pending' # <<>> /\ Remaining' = IF waitReq THEN 4 ELSE 7
<1> USE DEF SystemInv, Schedule
<1>1. bus.write /\ ~waitReq' /\ pending' = Owed(bus)
  BY AcceptedAlone, PeriodMoves DEF Accepted
<1>2. s' = bus /\ p' = s /\ writeEdge' = (s.write /\ ~p.write)
  BY PeriodMoves
<1>3. state \notin {"StateReset", "StateLcdReset"}
  <2>1. state = "StateReset" => ~bus.write
    BY DEF ClosedSchedule, BusClosed
  <2>2. state = "StateLcdReset" => waitReq'
    BY DEF ClockPeriod, Cycle, StateReset, StateLcdReset, StateResetIntRegData,
       StateIdle, StateNextBurstItem, StateEvalData, StatePrepareTx, StateTx
  <2> QED BY <1>1, <2>1, <2>2
<1>4. CASE waitReq
  <2>1. state = "StateEvalData"
    <3>1. state \in {"StateResetIntRegData", "StateIdle", "StateEvalData"}
      BY <1>3, <1>4 DEF ClosedSchedule, BusClosed
    <3>2. state \in {"StateResetIntRegData", "StateIdle"} => waitReq' = waitReq
      BY DEF ClockPeriod, Cycle, StateReset, StateLcdReset, StateResetIntRegData,
         StateIdle, StateNextBurstItem, StateEvalData, StatePrepareTx, StateTx
    <3> QED BY <1>1, <1>4, <3>1, <3>2
  <2>2. p.write /\ s.write /\ bus = s /\ Captured.addr = s.addr
    BY <1>4, <2>1 DEF ClosedSchedule, BusClosed
  <2>3. reg.addr \in TxAddress
    BY <2>2 DEF Owed, Captured
  <2>4. state' = "StatePrepareTx" /\ idleCount' = 2
    BY <2>1, <2>3 DEF ClockPeriod, Cycle, StateReset, StateLcdReset, StateResetIntRegData,
       StateIdle, StateNextBurstItem, StateEvalData, StatePrepareTx, StateTx
  <2>5. ~(s'.write /\ ~p'.write) /\ ~writeEdge'
    BY <1>2, <2>2
  <2>6. Remaining' = 4
    BY <2>4, <2>5 DEF Remaining
  <2> QED BY <1>1, <1>4, <2>6
<1>5. CASE ~waitReq
  <2>1. ~s.write
    BY <1>1, <1>3, <1>5 DEF OpenSchedule, BusClosed
  <2>2. Remaining' = 7
    BY <1>1, <1>2, <2>1 DEF Remaining
  <2> QED BY <1>1, <1>5, <2>2
<1> QED BY <1>4, <1>5

(* What ItemsSent says without a bound: an accepted request is strobed     *)
(* seven clock periods later, or four, or a reset comes between.           *)
THEOREM WritesSentOnTime ==
  ASSUME SpacedSingleWrites
  PROVE  SystemSpec => [][SentOnTime]_systemVars
<1>1. SystemInv /\ [SystemNext]_systemVars => [SentOnTime]_systemVars
  BY OnTheWay, OnItsWay DEF SentOnTime
<1> QED BY <1>1, SystemInvariant, PTL DEF SystemSpec

-----------------------------------------------------------------------------
(* How long a write is held, for every gap between the writes, bursts      *)
(* included: only a write that begins in time for its edge to meet         *)
(* StateIdle is ever accepted.                                             *)

(* The bus, the registers and the edge detector, for any master.           *)
MasterInv == DriverInv /\ bus \in Inputs /\ rest \in Nat /\ EdgeOfStages

LEMMA MasterStart == SystemInit => MasterInv
<1> SUFFICES ASSUME SystemInit PROVE MasterInv
  OBVIOUS
<1>1. DriverInv
  BY InitType DEF SystemInit
<1>2. p.write = FALSE /\ writeLast = FALSE /\ writeEdge = FALSE
  BY DEF SystemInit, Init, NoWrite
<1>3. EdgeOfStages
  BY <1>2 DEF EdgeOfStages
<1> QED BY <1>1, <1>3, InputsAssumption, MasterAssumption DEF SystemInit, MasterInv

LEMMA MasterPeriod ==
  ASSUME MasterInv, ClockPeriod
  PROVE  /\ MasterInv'
         /\ s' = bus /\ p' = s /\ pp' = p
         /\ writeLast' = s.write /\ writeEdge' = (s.write /\ ~p.write)
         /\ bus.write /\ waitReq' => bus' = bus /\ rest' = rest
         /\ ~bus.write => \/ rest = 0 /\ rest' = 0
                          \/ rest > 0 /\ bus' = NoWrite /\ rest' = rest - 1
<1>1. Clocked(bus) /\ Cycle(bus) /\ EdgeOfStages
  BY DEF MasterInv, ClockPeriod, Cycle, StateReset, StateLcdReset,
     StateResetIntRegData, StateIdle, StateNextBurstItem, StateEvalData,
     StatePrepareTx, StateTx
<1>2. DriverInv'
  BY <1>1, CycleType, InputsAssumption DEF MasterInv
<1>3. /\ s' = bus /\ p' = s /\ pp' = p
      /\ writeLast' = s.write /\ writeEdge' = (s.write /\ ~p.write)
  BY <1>1, StagesMove
<1>4. /\ bus' \in Inputs /\ rest' \in Nat
      /\ bus.write /\ waitReq' => bus' = bus /\ rest' = rest
      /\ ~bus.write => \/ rest = 0 /\ rest' = 0
                       \/ rest > 0 /\ bus' = NoWrite /\ rest' = rest - 1
  <2>1. bus \in Inputs /\ rest \in Nat /\ MinGap \in Nat /\ NoWrite \in Inputs
    BY MasterAssumption, InputsAssumption DEF MasterInv
  <2>2. CASE MasterHolds
    BY <2>1, <2>2 DEF MasterHolds
  <2>3. CASE MasterDone
    BY <2>1, <2>3 DEF MasterDone, Accepted, NextBus, Requests
  <2>4. CASE MasterIdles
    BY <2>1, <2>4 DEF MasterIdles, NextBus, Requests
  <2> QED BY <2>2, <2>3, <2>4 DEF ClockPeriod
<1> QED BY <1>2, <1>3, <1>4 DEF MasterInv, EdgeOfStages

LEMMA MasterReset == MasterInv /\ SystemReset => MasterInv'
<1> SUFFICES ASSUME MasterInv, SystemReset PROVE MasterInv'
  OBVIOUS
<1>1. DriverInv'
  BY ResetType DEF MasterInv, SystemReset
<1> QED
  BY <1>1, InputsAssumption, MasterAssumption
     DEF MasterInv, SystemReset, Reset, EdgeOfStages, NoWrite

LEMMA MasterStep == MasterInv /\ [SystemNext]_systemVars => MasterInv'
<1> SUFFICES ASSUME MasterInv, [SystemNext]_systemVars PROVE MasterInv'
  OBVIOUS
<1>1. CASE UNCHANGED systemVars
  BY <1>1 DEF systemVars, driverVars, MasterInv, DriverInv, TypeOK, StreamEmpty, EdgeOfStages
<1> QED BY <1>1, MasterPeriod, MasterReset DEF SystemNext

(* Periods in which a write on a closed bus is still held, this one        *)
(* included.                                                               *)
HoldLeft ==
  IF state = "StateEvalData" THEN 0
  ELSE IF p.write THEN 1
  ELSE IF s.write THEN 2
  ELSE 3

(* A write is held for three periods at most.                              *)
HeldShortly ==
  bus.write /\ waitReq' =>
    HoldLeft > 0 /\ HoldLeft' = HoldLeft - 1 /\ bus' = bus

(* Until the first write is accepted: a write on the bus is so young that  *)
(* its edge will meet StateIdle.                                           *)
InTime ==
  BusClosed =>
    /\ state \in {"StateReset", "StateLcdReset", "StateResetIntRegData",
                  "StateIdle", "StateEvalData"}
    /\ s.write => bus.write
    /\ p.write => s.write
    /\ state = "StateReset" => ~bus.write /\ ~s.write /\ rest = BootTicks
    /\ state = "StateLcdReset" =>
         /\ ~s.write
         /\ IF bus.write THEN idleCount = 0 ELSE rest + 1 >= idleCount
    /\ state = "StateResetIntRegData" => ~p.write
    /\ state = "StateIdle" => writeEdge = p.write

LEMMA InTimePeriod ==
  ASSUME BootTicks >= ResetTicks, MasterInv, InTime, ClockPeriod
  PROVE  InTime' /\ HeldShortly
<1>0. /\ s' = bus /\ p' = s /\ pp' = p
      /\ writeLast' = s.write /\ writeEdge' = (s.write /\ ~p.write)
      /\ bus.write /\ waitReq' => bus' = bus /\ rest' = rest
      /\ ~bus.write => \/ rest = 0 /\ rest' = 0
                       \/ rest > 0 /\ bus' = NoWrite /\ rest' = rest - 1
  BY MasterPeriod
<1>1. /\ rest \in Nat /\ idleCount \in Nat /\ ResetTicks \in Nat /\ BootTicks \in Nat
      /\ bus.write \in BOOLEAN /\ s.write \in BOOLEAN /\ p.write \in BOOLEAN
      /\ rest' \in Nat /\ ~NoWrite.write
  BY MasterPeriod, InputsAssumption, SizeAssumption, MasterAssumption
     DEF MasterInv, DriverInv, TypeOK, BusInput, NoWrite
<1>2. CASE StateReset(bus)
  <2>1. /\ state' = "StateLcdReset" /\ idleCount' = ResetTicks /\ ~waitReq'
        /\ ~bus.write /\ ~s.write /\ rest = BootTicks
    BY <1>2 DEF StateReset, InTime, BusClosed
  <2>2. IF bus'.write THEN idleCount' = 0 ELSE rest' + 1 >= idleCount'
    <3>1. CASE rest = 0
      <4>1. ResetTicks = 0
        BY <1>1, <2>1, <3>1
      <4>2. idleCount' = 0 /\ rest' = 0
        BY <1>0, <1>1, <2>1, <3>1, <4>1
      <4> QED BY <4>2
    <3>2. CASE rest > 0
      <4>1. bus' = NoWrite /\ rest' = rest - 1
        BY <1>0, <2>1, <3>2
      <4> QED BY <1>1, <2>1, <4>1
    <3> QED BY <1>1, <3>1, <3>2
  <2> QED BY <1>0, <2>1, <2>2 DEF InTime, HeldShortly
<1>3. CASE StateLcdReset(bus)
  <2>1. state = "StateLcdReset" /\ waitReq' /\ BusClosed
    BY <1>3 DEF StateLcdReset, BusClosed
  <2>2. CASE bus.write
    BY <1>0, <1>1, <1>3, <2>1, <2>2 DEF StateLcdReset, InTime, HeldShortly, HoldLeft
  <2>3. CASE ~bus.write
    BY <1>0, <1>1, <1>3, <2>1, <2>3 DEF StateLcdReset, InTime, HeldShortly
  <2> QED BY <1>1, <2>2, <2>3
<1>4. CASE StateResetIntRegData(bus)
  BY <1>0, <1>1, <1>4
     DEF StateResetIntRegData, InTime, BusClosed, HeldShortly, HoldLeft
<1>5. CASE StateIdle(bus)
  BY <1>0, <1>1, <1>5 DEF StateIdle, InTime, BusClosed, HeldShortly, HoldLeft
<1>6. CASE StateNextBurstItem(bus)
  <2>1. ~(streamCount > burstCount)
    BY DEF MasterInv, DriverInv, TypeOK, StreamEmpty
  <2> QED BY <1>6, <2>1 DEF StateNextBurstItem, InTime, BusClosed, HeldShortly
<1>7. CASE StateEvalData(bus) \/ StatePrepareTx(bus) \/ StateTx(bus)
  <2>1. ~waitReq' /\ state' \notin {"StateReset", "StateLcdReset"}
    BY <1>7 DEF StateEvalData, StatePrepareTx, StateTx, TxAdvance
  <2> QED BY <2>1 DEF InTime, BusClosed, HeldShortly
<1> QED BY <1>2, <1>3, <1>4, <1>5, <1>6, <1>7 DEF ClockPeriod, Cycle

(* A master that leaves the panel's reset to itself is never blocked: each *)
(* write is accepted at once or held for three periods at the most, unless *)
(* a reset comes between, and whatever the gap (lcdDriver.vhdl:428, 482,   *)
(* 539).                                                                   *)
THEOREM WritesAcceptedOnTime ==
  ASSUME BootTicks >= ResetTicks
  PROVE  SystemSpec => [][HeldShortly]_systemVars
<1>1. SystemInit => InTime
  BY DEF SystemInit, Init, InTime, NoWrite
<1>2. ASSUME MasterInv, InTime, [SystemNext]_systemVars
      PROVE  InTime' /\ [HeldShortly]_systemVars
  <2>1. CASE ClockPeriod
    BY <1>2, <2>1, InTimePeriod
  <2>2. CASE SystemReset
    BY <2>2 DEF SystemReset, Reset, InTime, HeldShortly, NoWrite
  <2>3. CASE UNCHANGED systemVars
    BY <1>2, <2>3 DEF systemVars, driverVars, InTime, BusClosed
  <2> QED BY <1>2, <2>1, <2>2, <2>3 DEF SystemNext
<1> QED BY <1>1, <1>2, MasterStart, MasterStep, PTL DEF SystemSpec

(* Periods until the driver is in StateIdle after the panel's reset, and   *)
(* until the edge of the write on the bus.                                 *)
PeriodsToIdle ==
  IF state = "StateLcdReset" THEN idleCount + 2
  ELSE IF state = "StateResetIntRegData" THEN 1 ELSE 0

PeriodsToEdge ==
  IF ~s.write THEN 2 ELSE IF ~writeLast THEN 1 ELSE 0

(* The edge of the write on the bus is over, or comes before StateIdle.    *)
Missed ==
  /\ bus.write
  /\ state = "StateLcdReset" \/ (waitReq /\ state \in {"StateResetIntRegData", "StateIdle"})
  /\ (s.write /\ writeLast /\ ~writeEdge) \/ PeriodsToEdge < PeriodsToIdle

(* Such a write stays on the bus, and nothing is sent, until a reset.      *)
MissedForEver ==
  Missed => (Missed' /\ UNCHANGED <<bus, out>>) \/ SystemReset

LEMMA MissedPeriod ==
  ASSUME MasterInv, ClockPeriod, Missed
  PROVE  Missed' /\ UNCHANGED <<bus, out>>
<1>0. /\ s' = bus /\ p' = s /\ pp' = p
      /\ writeLast' = s.write /\ writeEdge' = (s.write /\ ~p.write)
      /\ bus.write /\ waitReq' => bus' = bus /\ rest' = rest
      /\ writeLast = p.write
  BY MasterPeriod DEF MasterInv, EdgeOfStages
<1>1. /\ idleCount \in Nat /\ s.write \in BOOLEAN /\ p.write \in BOOLEAN
      /\ writeEdge \in BOOLEAN /\ bus.write
  BY DEF MasterInv, DriverInv, TypeOK, BusInput, Missed
<1>2. /\ waitReq' => bus'.write
      /\ s.write /\ writeLast => s'.write /\ writeLast' /\ ~writeEdge'
      /\ ~(s.write /\ writeLast) => PeriodsToEdge' = PeriodsToEdge - 1
      /\ PeriodsToEdge \in 0 .. 2 /\ (PeriodsToEdge = 0 => s.write /\ writeLast)
  <2>1. waitReq' => bus'.write
    BY <1>0, <1>1
  <2>2. CASE s.write /\ writeLast
    <3>1. s'.write /\ writeLast' /\ ~writeEdge'
      BY <1>0, <1>1, <2>2
    <3> QED BY <2>1, <2>2, <3>1 DEF PeriodsToEdge
  <2>3. CASE s.write /\ ~writeLast
    <3>1. s'.write /\ writeLast'
      BY <1>0, <1>1, <2>3
    <3> QED BY <2>1, <2>3, <3>1 DEF PeriodsToEdge
  <2>4. CASE ~s.write
    <3>1. s'.write /\ ~writeLast'
      BY <1>0, <1>1, <2>4
    <3> QED BY <2>1, <2>4, <3>1 DEF PeriodsToEdge
  <2> QED BY <1>1, <2>2, <2>3, <2>4
<1>3. waitReq' /\ Missed' /\ ~Strobe
  <2>1. CASE StateLcdReset(bus)
    <3>1. waitReq' /\ ~Strobe
      BY <2>1 DEF StateLcdReset, RestPins, Strobe
    <3>2. PeriodsToIdle' = PeriodsToIdle - 1 /\ PeriodsToIdle \in Nat
      BY <1>1, <2>1 DEF StateLcdReset, PeriodsToIdle
    <3>3. state' \in {"StateLcdReset", "StateResetIntRegData"}
      BY <2>1 DEF StateLcdReset
    <3> QED BY <1>2, <3>1, <3>2, <3>3 DEF Missed
  <2>2. CASE StateResetIntRegData(bus)
    <3>1. waitReq' /\ ~Strobe /\ state' = "StateIdle" /\ PeriodsToIdle = 1 /\ PeriodsToIdle' = 0
      BY <2>2 DEF StateResetIntRegData, Missed, PeriodsToIdle, Strobe
    <3> QED BY <1>2, <3>1 DEF Missed
  <2>3. CASE StateIdle(bus)
    <3>1. waitReq /\ s.write /\ writeLast /\ ~writeEdge
      BY <2>3 DEF StateIdle, Missed, PeriodsToIdle, PeriodsToEdge
    <3>2. waitReq' /\ ~Strobe /\ state' = "StateIdle"
      BY <2>3, <3>1 DEF StateIdle, RestPins, Strobe
    <3> QED BY <1>2, <3>1, <3>2 DEF Missed
  <2> QED
    BY <2>1, <2>2, <2>3
       DEF Missed, ClockPeriod, Cycle, StateReset, StateNextBurstItem,
           StateEvalData, StatePrepareTx, StateTx
<1> QED BY <1>0, <1>1, <1>3 DEF ClockPeriod, History, Sent

(* A write that is on the bus while the panel's reset has a period or more *)
(* to count is never accepted, and blocks the bus until the next reset,    *)
(* whatever the gap and the boot time (lcdDriver.vhdl:428).                *)
THEOREM EarlyWriteBlocksTheBus ==
  SystemSpec => /\ [](state = "StateLcdReset" /\ idleCount > 0 /\ bus.write => Missed)
                /\ [][MissedForEver]_systemVars
<1>1. MasterInv => (state = "StateLcdReset" /\ idleCount > 0 /\ bus.write => Missed)
  BY DEF MasterInv, DriverInv, TypeOK, Missed, PeriodsToIdle, PeriodsToEdge
<1>2. MasterInv /\ [SystemNext]_systemVars => [MissedForEver]_systemVars
  BY MissedPeriod DEF SystemNext, MissedForEver
<1> QED BY <1>1, <1>2, MasterStart, MasterStep, PTL DEF SystemSpec

-----------------------------------------------------------------------------
(* The LCD software as the master.                                         *)

(* A master that asks for anything has nothing on its way.                 *)
AskedAlone == bus.write => pending = <<>>

(* The word of store k, as it comes to the panel.                          *)
Arrival(k) == [word |-> Program[k].word, lanes |-> Lane, data |-> TRUE]

(* What the bus asks for is the store the program is at; what is on its    *)
(* way is that store, a command.  It has been strobed once, and only once, *)
(* when it is neither on the bus nor on its way any more.                  *)
StoreInv ==
  /\ at \in Nat
  /\ bus.write => at # 0 /\ bus = Request(Program[at])
  /\ pending # <<>> => at # 0 /\ Program[at].command /\ pending = <<Arrival(at)>>
  /\ sends = IF at # 0 /\ ~bus.write /\ pending = <<>> /\ Program[at].command
             THEN 1 ELSE 0

(* What the panel takes is the store begun last if that is a command, as   *)
(* data, and it has not taken it yet; and when the program begins its next *)
(* store it has taken the last one once if it is a command, else never.    *)
ComesAsData ==
  /\ Strobe => Program[at].command /\ sends = 0 /\ out' = Arrival(at)
  /\ WriteBegins /\ at # 0 =>
       sends + (IF Strobe THEN 1 ELSE 0) = IF Program[at].command THEN 1 ELSE 0

(* A command is written to the data register, the offset 4 in bytes being  *)
(* register 2, and data to register 0, which sends nothing.                *)
LEMMA OwedOfStore ==
  ASSUME NEW store, Request(store).data \in Word
  PROVE  /\ store.command =>
              Owed(Request(store)) = <<[word |-> store.word, lanes |-> Lane, data |-> TRUE]>>
         /\ ~store.command => Owed(Request(store)) = <<>>
<1> DEFINE r == Request(store)
<1>1. /\ r.data = store.word /\ r.lanes = Lane
      /\ r.addr = (IF store.command THEN LCD_REG_WRITECMD ELSE LCD_REG_WRITEDATA) \div 2
  BY DEF Request, NoWrite
<1>2. /\ store.command => r.addr = 2
      /\ ~store.command => r.addr = 0
  BY <1>1 DEF LCD_REG_WRITECMD, LCD_REG_WRITEDATA
<1>3. Masked(r.data, r.lanes) = store.word
  BY <1>1 DEF Masked, Word
<1> HIDE DEF r
<1>4. CASE store.command
  BY <1>1, <1>2, <1>3, <1>4 DEF Owed, ItemOf, TxAddress, RegWriteDataAddr, RegWriteCmdAddr, r
<1>5. CASE ~store.command
  BY <1>2, <1>5 DEF Owed, TxAddress, RegWriteDataAddr, RegWriteCmdAddr, r
<1> QED BY <1>4, <1>5

LEMMA StoreReset == SoftwareReset => StoreInv'
BY DEF SoftwareReset, SystemReset, StoreInv, NoWrite

(* The program never gets back to before its first store.                  *)
LEMMA FollowingStore ==
  ASSUME NEW Store, Setup \in Seq(Store), NEW k \in Nat
  PROVE  Following(k) \in Nat /\ Following(k) # 0
<1>1. Len(Setup) \in Nat
  OBVIOUS
<1> QED BY <1>1 DEF Following

LEMMA StorePeriod ==
  ASSUME SpacedSingleWrites, NEW Store, Setup \in Seq(Store),
         SystemInv, AskedAlone, AskedAlone', StoreInv, SoftwarePeriod
  PROVE  StoreInv' /\ ComesAsData
<1>1. /\ ClockPeriod
      /\ WriteBegins => at' = Following(at) /\ bus' = Request(Program[at'])
      /\ ~WriteBegins => at' = at
      /\ sends' = IF WriteBegins THEN 0 ELSE IF Strobe THEN sends + 1 ELSE sends
  BY DEF SoftwarePeriod
<1>2. Strobe => pending = <<out'>> /\ pending' = <<>>
  BY <1>1, StrobeSends
<1>3. ~Strobe => out' = out
  BY <1>1 DEF ClockPeriod, History, Sent
<1>4. /\ bus.write /\ waitReq' => bus' = bus
      /\ bus.write /\ ~waitReq' => ~bus'.write
      /\ pending = <<>> =>
           pending' = IF bus.write /\ ~waitReq' THEN Owed(bus) ELSE <<>>
  BY <1>1, PeriodMoves
<1>5. pending # <<>> /\ ~Strobe => pending' = pending
  <2> SUFFICES ASSUME pending # <<>>, ~Strobe PROVE pending' = pending
    OBVIOUS
  <2>1. PICK i \in Item : pending = <<i>>
    BY PendingForm
  <2>2. ~bus.write
    BY DEF AskedAlone
  <2> QED BY <1>1, <2>1, <2>2, PeriodMoves
<1>6. bus.write =>
        /\ Program[at].command => Owed(bus) = <<Arrival(at)>>
        /\ ~Program[at].command => Owed(bus) = <<>>
  <2> SUFFICES ASSUME bus.write
               PROVE  /\ Program[at].command => Owed(bus) = <<Arrival(at)>>
                      /\ ~Program[at].command => Owed(bus) = <<>>
    OBVIOUS
  <2>1. bus = Request(Program[at]) /\ bus.data \in Word
    BY BusTypes DEF StoreInv, SystemInv, Schedule, NoBurst, Bus, BusInput
  <2> QED BY <2>1, OwedOfStore DEF Arrival
<1>7. ComesAsData
  <2>1. Strobe => Program[at].command /\ sends = 0 /\ out' = Arrival(at)
    BY <1>2 DEF StoreInv
  <2>2. ASSUME WriteBegins, at # 0
        PROVE  sends + (IF Strobe THEN 1 ELSE 0) = IF Program[at].command THEN 1 ELSE 0
    <3>1. ~bus.write /\ pending' = <<>>
      BY <1>4, <2>2 DEF WriteBegins, AskedAlone
    <3>2. CASE Strobe
      BY <2>1, <3>2
    <3>3. CASE ~Strobe
      <4>1. pending = <<>>
        BY <1>5, <3>1, <3>3
      <4> QED BY <2>2, <3>1, <3>3, <4>1 DEF StoreInv
    <3> QED BY <3>2, <3>3
  <2> QED BY <2>1, <2>2 DEF ComesAsData
<1>8. StoreInv'
  <2>1. CASE WriteBegins
    <3>1. bus'.write /\ pending' = <<>>
      BY <2>1 DEF WriteBegins, AskedAlone
    <3>2. at' \in Nat /\ at' # 0
      BY <1>1, <2>1, FollowingStore DEF StoreInv
    <3> QED BY <1>1, <2>1, <3>1, <3>2 DEF StoreInv
  <2>2. CASE ~WriteBegins
    <3>1. at' = at /\ Arrival(at)' = Arrival(at) /\ Program[at]' = Program[at]
      BY <1>1, <2>2 DEF Arrival, Program
    <3>2. bus'.write => bus' = bus /\ bus.write
      BY <1>4, <2>2 DEF WriteBegins
    <3>3. bus'.write => at # 0 /\ bus' = Request(Program[at])
      BY <3>2 DEF StoreInv
    <3>4. pending' # <<>> => at # 0 /\ Program[at].command /\ pending' = <<Arrival(at)>>
      <4>1. CASE pending = <<>>
        BY <1>4, <1>6, <4>1 DEF StoreInv
      <4>2. CASE pending # <<>>
        BY <1>2, <1>5, <4>2 DEF StoreInv
      <4> QED BY <4>1, <4>2
    <3>5. sends' = IF at # 0 /\ ~bus'.write /\ pending' = <<>> /\ Program[at].command
                   THEN 1 ELSE 0
      <4>1. CASE Strobe
        <5>1. pending # <<>> /\ pending' = <<>>
          <6>1. pending = <<out'>> /\ pending' = <<>>
            BY <1>2, <4>1
          <6> QED BY <6>1
        <5>2. at # 0 /\ Program[at].command
          BY <5>1 DEF StoreInv
        <5>3. sends = 0
          BY <5>1 DEF StoreInv
        <5>4. ~bus'.write
          BY <3>2, <5>1 DEF AskedAlone
        <5> QED BY <1>1, <2>2, <4>1, <5>1, <5>2, <5>3, <5>4
      <4>2. CASE ~Strobe /\ bus.write
        <5>1. pending = <<>> /\ sends = 0 /\ sends' = 0
          BY <1>1, <2>2, <4>2 DEF AskedAlone, StoreInv
        <5>2. waitReq' => bus'.write
          BY <1>4, <4>2
        <5>3. ASSUME ~waitReq', Program[at].command PROVE pending' # <<>>
          <6>1. pending' = <<Arrival(at)>>
            BY <1>4, <1>6, <4>2, <5>1, <5>3
          <6> QED BY <6>1
        <5> QED BY <5>1, <5>2, <5>3
      <4>3. CASE ~Strobe /\ ~bus.write
        <5>1. sends' = sends /\ ~bus'.write
          BY <1>1, <2>2, <3>2, <4>3
        <5>2. pending' = pending
          BY <1>4, <1>5, <4>3
        <5> QED BY <4>3, <5>1, <5>2 DEF StoreInv
      <4> QED BY <4>1, <4>2, <4>3
    <3>6. at' \in Nat
      BY <3>1 DEF StoreInv
    <3> QED BY <3>1, <3>3, <3>4, <3>5, <3>6 DEF StoreInv
  <2> QED BY <2>1, <2>2
<1> QED BY <1>7, <1>8

(* What the panel gets of a program on a bus that raises no                *)
(* beginbursttransfer: each of its commands is strobed exactly once between *)
(* the beginnings of its own and of the next store, as data; of its data   *)
(* nothing is strobed (main.c:40-41, 197-203).                             *)
THEOREM CommandsComeAsData ==
  ASSUME SpacedSingleWrites, NEW Store, Setup \in Seq(Store)
  PROVE  SoftwareSpec => [][ComesAsData]_softwareVars
<1>1. SoftwareInit => SystemInv /\ StoreInv
  BY StartInv DEF SoftwareInit, SystemInit, StoreInv, NoWrite
<1>2. SystemInv /\ [SoftwareNext]_softwareVars => SystemInv'
  BY StepInv DEF SoftwareNext, SoftwarePeriod, SoftwareReset, SystemNext, softwareVars
<1>3. SystemInv => AskedAlone
  BY AcceptedAlone DEF AskedAlone
<1>4. ASSUME SystemInv, AskedAlone, AskedAlone', StoreInv, [SoftwareNext]_softwareVars
      PROVE  StoreInv' /\ [ComesAsData]_softwareVars
  <2>1. CASE SoftwarePeriod
    BY <1>4, <2>1, StorePeriod
  <2>2. CASE SoftwareReset
    <3>1. ~Strobe /\ ~WriteBegins
      BY <2>2 DEF SoftwareReset, SystemReset, Reset, RestPins, Strobe, WriteBegins, NoWrite
    <3> QED BY <2>2, <3>1, StoreReset DEF ComesAsData
  <2>3. CASE UNCHANGED softwareVars
    BY <1>4, <2>3 DEF softwareVars, systemVars, StoreInv, Arrival, Program
  <2> QED BY <1>4, <2>1, <2>2, <2>3 DEF SoftwareNext
<1> QED BY <1>1, <1>2, <1>3, <1>4, PTL DEF SoftwareSpec

=============================================================================
