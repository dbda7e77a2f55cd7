------------------------------ MODULE LcdSystem ------------------------------
(***************************************************************************)
(* The LCD driver between a bus master that runs the LCD software and the  *)
(* panel.  In every clock period the master drives `bus', the driver runs  *)
(* one Cycle, and at the edge the master sees the WaitReq of the period.   *)
(*                                                                         *)
(* The master writes one word at a time and leaves at least MinGap periods *)
(* without a write after each (the instructions between two stores); after *)
(* a reset it does not write for BootTicks periods.                        *)
(***************************************************************************)
EXTENDS LcdDriver, Sequences

CONSTANTS MinGap,    \* periods without a write between two writes
          BootTicks  \* periods without a write after a reset

ASSUME MasterAssumption == MinGap \in Nat /\ BootTicks \in Nat

VARIABLES
  bus,      \* what the master drives in this period
  rest,     \* periods the master will still leave without a write
  pending,  \* history: items accepted from the master, not yet strobed
  out,      \* history: the item strobed last, NoItem since a reset
  parity,   \* history: strobes since the reset, modulo two
  lastLanes \* history: lanes of the item strobed last, {} since power-up

systemVars == <<driverVars, bus, rest, pending, out, parity, lastLanes>>

Requests == {r \in Inputs : r.write}

(* What a request asks for: its word on its lanes, as data or as command.  *)
Item     == [word : Word, lanes : SUBSET Lane, data : BOOLEAN]
NoItem   == [word |-> Zero, lanes |-> {}, data |-> FALSE]
ItemOf(r) == [word |-> Masked(r.data, r.lanes), lanes |-> r.lanes,
              data |-> r.addr = RegWriteDataAddr]

(* A request for another register asks for nothing.                        *)
Owed(r) == IF r.addr \in TxAddress THEN <<ItemOf(r)>> ELSE <<>>

-----------------------------------------------------------------------------
(* The master decides what to drive next when it owes k idle periods.      *)
NextBus(k) ==
  IF k = 0 THEN bus' \in Requests \cup {NoWrite} /\ rest' = 0
           ELSE bus' = NoWrite /\ rest' = k - 1

Accepted == bus.write /\ ~waitReq'

(* The master holds a request while WaitReq is high.                       *)
MasterHolds  == bus.write /\ waitReq' /\ UNCHANGED <<bus, rest>>
MasterDone   == Accepted /\ NextBus(MinGap)
MasterIdles  == ~bus.write /\ NextBus(rest)

(* The panel takes a word at the strobe.                                   *)
Sent ==
  IF Strobe
  THEN /\ out' = [word |-> pins'.db, lanes |-> bitEnable', data |-> pins'.dc = 1]
       /\ lastLanes' = bitEnable' /\ parity' = 1 - parity
  ELSE UNCHANGED <<out, parity, lastLanes>>

History ==
  /\ pending' = (IF Strobe /\ pending # <<>> THEN Tail(pending) ELSE pending)
                \o (IF Accepted THEN Owed(bus) ELSE <<>>)
  /\ Sent

ClockPeriod ==
  /\ Cycle(bus)
  /\ MasterHolds \/ MasterDone \/ MasterIdles
  /\ History

(* One reset line clears the driver and restarts the master.               *)
SystemReset ==
  /\ Reset
  /\ bus' = NoWrite /\ rest' = BootTicks
  /\ pending' = <<>> /\ out' = NoItem /\ parity' = 0
  /\ UNCHANGED lastLanes

SystemInit ==
  /\ Init
  /\ bus = NoWrite /\ rest = BootTicks
  /\ pending = <<>> /\ out = NoItem /\ parity = 0 /\ lastLanes = {}

SystemNext == ClockPeriod \/ SystemReset

SystemSpec ==
  SystemInit /\ [][SystemNext]_systemVars /\ WF_systemVars(ClockPeriod)

-----------------------------------------------------------------------------
(* Type invariant of the whole system.                                     *)
SystemTypeOK ==
  /\ TypeOK
  /\ bus \in Inputs
  /\ rest \in Nat
  /\ pending \in Seq(Item)
  /\ out \in Item /\ parity \in {0, 1}
  /\ lastLanes \in SUBSET Lane

(* No write is lost or overtaken: a request the master saw accepted is     *)
(* strobed before another one is accepted.  WaitReq is low while the       *)
(* driver transmits and an edge outside of StateIdle is forgotten, so this *)
(* rests on the master's gap alone.                                        *)
NoWriteLost == Len(pending) <= 1

(* Each strobe sends exactly the accepted request, as data or command and  *)
(* on the lanes it asked for, and takes it off the channel: none is made   *)
(* up, and none is strobed a second time (that would toggle parity with    *)
(* nothing in the channel).                                                *)
Channel == INSTANCE LcdChannel WITH queue <- pending
ImplementsChannel == Channel!ChannelInit /\ [][Channel!ChannelNext]_(Channel!channelVars)

(* The data is on DB before Wr rises as it is after, if the request uses   *)
(* the lanes of the one before: PrepareTx still drives the previous lanes. *)
SetupWhenLanesKept ==
  [][ (Strobe /\ pending # <<>> /\ Head(pending).lanes = lastLanes)
        => pins'.db = pins.db ]_systemVars

(* Every request is accepted, and every accepted one is sent, or a reset   *)
(* comes between.                                                          *)
WritesComplete == bus.write ~> ~bus.write
ItemsSent      == (pending # <<>>) ~> (pending = <<>>)

-----------------------------------------------------------------------------
(* Why no write is lost: the schedule of a request on its way from the bus *)
(* to StateIdle, as an inductive invariant.                                *)

(* Periods until the driver is back in StateIdle.                          *)
Due ==
  CASE state = "StateIdle"            -> 0
    [] state = "StateResetIntRegData" -> 1
    [] state = "StateTx"              -> idleCount + 2
    [] state = "StatePrepareTx"       -> idleCount + 6
    [] OTHER                          -> 9

(* WaitReq is high, or will be in this period: nothing was accepted since  *)
(* the reset and a request that was begun is held.                         *)
BusClosed == waitReq \/ state \in {"StateReset", "StateLcdReset"}

(* What the registers ask for, read as the request they were loaded from.  *)
Captured == [addr |-> reg.addr, data |-> reg.rx, lanes |-> reg.lanes]

ClosedSchedule ==
  BusClosed =>
    /\ state \in {"StateReset", "StateLcdReset", "StateResetIntRegData",
                  "StateIdle", "StateEvalData"}
    /\ pending = <<>>
    /\ s.write => bus = s
    /\ p.write => s = p
    /\ state = "StateReset" => ~bus.write /\ ~s.write
    /\ state = "StateEvalData" =>
          /\ pp.write /\ p.write
          /\ Captured = [addr |-> s.addr, data |-> s.data, lanes |-> s.lanes]

(* An accepted request enters the three stages; the next one is far enough *)
(* behind to find the driver in StateIdle when its own edge is detected.   *)
OpenSchedule ==
  ~BusClosed =>
    /\ s.write => ~bus.write /\ rest >= MinGap - 1
    /\ p.write => ~bus.write /\ rest >= MinGap - 2
    /\ bus.write => Due <= 2
    /\ (s.write /\ ~p.write) => Due <= 1
    /\ writeEdge => state = "StateIdle"
    /\ ~bus.write => Due <= rest + 3

(* The panel has yet to get what the registers hold.                       *)
Transmitting ==
  \/ state \in {"StateEvalData", "StatePrepareTx"}
  \/ state = "StateTx" /\ idleCount = 3

(* Where the accepted request is that the panel has not got yet.           *)
PendingPlace ==
  ~BusClosed =>
    /\ (s.write /\ ~p.write) => pending = Owed(s)
    /\ writeEdge => pending = Owed(p)
    /\ Transmitting => pending = Owed(Captured)
    /\ (s.write /\ ~p.write) \/ writeEdge \/ Transmitting \/ pending = <<>>

(* The registers and pins of a transmission.                               *)
Transmission ==
  /\ bitEnable = lastLanes
  /\ state \in {"StatePrepareTx", "StateTx"} =>
        reg.addr \in TxAddress /\ reg.data = reg.rx
  /\ state = "StatePrepareTx" => idleCount <= 2
  /\ state = "StateTx" =>
        /\ idleCount <= 3 /\ pins.cs = 0
        /\ idleCount = 3 => pins.wr = 0 /\ pins.db = Masked(reg.data, bitEnable)
        /\ idleCount < 3 => pins.wr = 1 /\ bitEnable = reg.lanes

(* The edge detector sees what the stages hold.                            *)
EdgeOfStages ==
  writeLast = p.write /\ writeEdge = (p.write /\ ~pp.write)

NoBurst ==
  /\ {bus, s, p, pp} \subseteq Requests \cup {NoWrite}
  /\ state # "StateNextBurstItem" /\ burstCount = 0

(* The master leaves the periods a transmission takes and starts no burst. *)
SpacedSingleWrites == MinGap >= 9 /\ \A r \in Requests : ~r.begin

Schedule ==
  /\ NoBurst /\ EdgeOfStages /\ Transmission
  /\ ClosedSchedule /\ OpenSchedule /\ PendingPlace

=============================================================================
