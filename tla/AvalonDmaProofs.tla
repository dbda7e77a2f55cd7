--------------------------- MODULE AvalonDmaProofs ----------------------------
(***************************************************************************)
(* Theorems about AvalonDma, for every number of slots and any lengths:    *)
(* first what holds whatever the callbacks post, then what holds if no     *)
(* callback posts to the channel that the program is just posting to.      *)
(***************************************************************************)
EXTENDS AvalonDma, TLAPS

(* The driver takes the device for running exactly when it is, and the     *)
(* program launches only with the device idle and the handler off.         *)
LaunchInv ==
  /\ call.op = "none" <=> call.pc = "idle"
  /\ active <=> dev.busy \/ dev.irq
  /\ ~(dev.busy /\ dev.irq)
  /\ call.pc = "launch" => ~active /\ isr.pc = "off"

AwakeInv == TypeOK /\ NoStall /\ LaunchInv

(* The program's post has reserved the slot behind its queue.              *)
PostInv ==
  call.pc \in {"fill", "publish"} =>
    call.slot = Queue(call.op).end /\ ~Full(Queue(call.op))

(* The queue that launch leaves out is the one the handler leaves alone.   *)
ModeInv ==
  /\ launch = "txonly" => streamRx
  /\ launch = "rxonly" => streamTx

ControlInv ==
  TypeOK /\ NoStall /\ LaunchInv /\ InFlightAtHead /\ PostInv /\ ModeInv

-----------------------------------------------------------------------------
(* Slots and queues.                                                       *)

LEMMA SlotsExist == NSlots \in Nat /\ NSlots > 1
<1>1. NSlots \in Nat /\ NSlots > 0
  BY AvalonDmaAssumption
<1>2. PICK k \in 1..NSlots : NSlots = 2^k
  BY AvalonDmaAssumption
<1>3. NSlots # 1
  <2>1. SUFFICES ASSUME NSlots = 1 PROVE FALSE
    OBVIOUS
  <2>2. k = 1
    BY <2>1, <1>2
  <2>3. 2^1 = 2
    BY SMT
  <2> QED BY <1>2, <2>1, <2>2, <2>3
<1> QED BY <1>1, <1>3

LEMMA AfterFacts ==
  /\ \A i \in Slots : After(i) \in Slots /\ After(i) # i
  /\ \A i \in Slots, j \in Slots : After(i) = After(j) => i = j
BY SlotsExist DEF After, Slots

LEMMA QueueTypes ==
  ASSUME TypeOK
  PROVE  /\ \A op : Queue(op) \in QueueType
         /\ Queue("send") = tx /\ Queue("prepare") = rx
BY DEF TypeOK, Queue

(* What a post does to a queue: any slot keeps its type, the one behind    *)
(* the queue its requests.                                                 *)
LEMMA FillFacts ==
  ASSUME NEW q \in QueueType, NEW slot \in Slots, NEW id \in Nat, NEW len \in Nat,
         NEW r, r = Fill(q, slot, id, len)
  PROVE  /\ r \in QueueType /\ r.start = q.start /\ r.end = q.end
         /\ slot = q.end /\ ~Empty(q) => First(r) = First(q)
BY DEF Fill, QueueType, SlotType, Empty, First

(* The slot after any slot is one: the index written stays in the array.   *)
LEMMA EndTypes ==
  ASSUME NEW q \in QueueType, NEW slot \in Slots
  PROVE  [q EXCEPT !.end = After(slot)] \in QueueType
BY AfterFacts DEF QueueType

(* The types of what most steps change, each for itself.                   *)
CallType == [op : {"none", "send", "prepare"}, slot : Slots, len : Nat,
             pc : {"idle", "fill", "publish", "check", "launch"}]
IsrType == [pc : {"off", "tx", "txcallback", "rx", "rxcallback"}, tx : Slots, rx : Slots]
DeviceType == [busy : BOOLEAN, irq : BOOLEAN, from : Nat, to : Nat, len : Nat]

LEMMA TypeParts ==
  TypeOK => /\ tx \in QueueType /\ rx \in QueueType
            /\ call \in CallType /\ isr \in IsrType /\ dev \in DeviceType
            /\ launch \in {"bidir", "txonly", "rxonly"}
            /\ streamTx \in BOOLEAN /\ streamRx \in BOOLEAN /\ active \in BOOLEAN
            /\ txPosted \in Nat /\ rxPosted \in Nat
            /\ txDone \in Seq(Nat) /\ rxDone \in Seq(Nat)
BY DEF TypeOK, CallType, IsrType, DeviceType

LEMMA TypePartsNext ==
  /\ tx' \in QueueType /\ rx' \in QueueType
  /\ call' \in CallType /\ isr' \in IsrType /\ dev' \in DeviceType
  /\ launch' \in {"bidir", "txonly", "rxonly"}
  /\ streamTx' \in BOOLEAN /\ streamRx' \in BOOLEAN /\ active' \in BOOLEAN
  /\ txPosted' \in Nat /\ rxPosted' \in Nat
  /\ txDone' \in Seq(Nat) /\ rxDone' \in Seq(Nat)
  => TypeOK'
BY DEF TypeOK, CallType, IsrType, DeviceType, QueueType, SlotType, Slots

LEMMA IdleTypes == IdleCall \in CallType /\ IsrOff \in IsrType
BY SlotsExist DEF IdleCall, IsrOff, CallType, IsrType, Slots

LEMMA ModeTypes ==
  ASSUME TypeOK, UNCHANGED modeVars
  PROVE  /\ launch' = launch /\ streamTx' = streamTx /\ streamRx' = streamRx
         /\ launch' \in {"bidir", "txonly", "rxonly"}
         /\ streamTx' \in BOOLEAN /\ streamRx' \in BOOLEAN
BY TypeParts DEF modeVars

LEMMA PublishFacts ==
  ASSUME NEW q \in QueueType, ~Full(q), NEW r, r = [q EXCEPT !.end = After(q.end)]
  PROVE  /\ r \in QueueType /\ r.start = q.start /\ r.buf = q.buf
         /\ r.end = After(q.end)
         /\ ~Empty(r) /\ First(r) = First(q)
BY AfterFacts DEF Full, QueueType, Empty, First

LEMMA PopFacts ==
  ASSUME NEW q \in QueueType, NEW streaming \in BOOLEAN, NEW r, r = Popped(q, streaming)
  PROVE  /\ r \in QueueType /\ r.end = q.end /\ r.buf = q.buf
         /\ streaming => r = q
         /\ ~streaming => r.start = After(q.start)
         /\ ~Full(q) /\ (streaming \/ ~Empty(q)) => ~Full(r)
<1>1. CASE streaming
  BY <1>1 DEF Popped
<1>2. CASE ~streaming
  <2>1. Popped(q, streaming) = [q EXCEPT !.start = After(q.start)]
    BY <1>2 DEF Popped
  <2>2. After(q.start) \in Slots
    BY AfterFacts DEF QueueType
  <2>3. ~Empty(q) => After(q.end) # After(q.start)
    BY AfterFacts DEF QueueType, Empty
  <2> QED BY <1>2, <2>1, <2>2, <2>3 DEF QueueType, Full
<1> QED BY <1>1, <1>2

(* The launch: the driver knows of the transfer, and it is at the heads.   *)
LEMMA LaunchFacts ==
  ASSUME TypeOK, NEW t \in QueueType, NEW r \in QueueType, ~dev.busy, Launch(t, r)
  PROVE  /\ active' \in BOOLEAN /\ active' = Work(t, r)
         /\ dev' \in DeviceType
         /\ ~dev'.irq /\ dev'.busy = Work(t, r)
         /\ Work(t, r) /\ launch # "rxonly" => dev'.from = First(t).id /\ dev'.len <= First(t).len
         /\ Work(t, r) /\ launch # "txonly" => dev'.to = First(r).id /\ dev'.len <= First(r).len
<1>1. First(t) \in SlotType /\ First(r) \in SlotType
  BY DEF First, QueueType
<1>2. /\ First(t).id \in Nat /\ First(t).len \in Nat
      /\ First(r).id \in Nat /\ First(r).len \in Nat
  BY <1>1 DEF SlotType
<1>3. /\ Least(First(t).len, First(r).len) \in Nat
      /\ Least(First(t).len, First(r).len) <= First(t).len
      /\ Least(First(t).len, First(r).len) <= First(r).len
  BY <1>2 DEF Least
<1>4. dev \in DeviceType /\ launch \in {"bidir", "txonly", "rxonly"}
  BY TypeParts
<1>5. Work(t, r) \in BOOLEAN
  BY <1>4 DEF Work, Empty
<1>6. CASE ~Work(t, r)
  BY <1>4, <1>5, <1>6 DEF Launch, DeviceType
<1>7. CASE Work(t, r) /\ launch = "bidir"
  BY <1>2, <1>3, <1>7 DEF Launch, Running, DeviceType
<1>8. CASE Work(t, r) /\ launch = "txonly"
  <2>1. dev' = [dev EXCEPT !.busy = TRUE, !.irq = FALSE,
                           !.from = First(t).id, !.len = First(t).len]
    BY <1>8 DEF Launch, Running
  <2>2. dev' \in DeviceType /\ ~dev'.irq /\ dev'.busy
        /\ dev'.from = First(t).id /\ dev'.len = First(t).len
    BY <1>2, <1>4, <2>1 DEF DeviceType
  <2>3. active' = Work(t, r)
    BY DEF Launch
  <2>4. First(t).len <= First(t).len
    BY <1>2
  <2> QED BY <1>8, <2>2, <2>3, <2>4
<1>9. CASE Work(t, r) /\ launch = "rxonly"
  <2>1. dev' = [dev EXCEPT !.busy = TRUE, !.irq = FALSE,
                           !.to = First(r).id, !.len = First(r).len]
    BY <1>9 DEF Launch, Running
  <2>2. dev' \in DeviceType /\ ~dev'.irq /\ dev'.busy
        /\ dev'.to = First(r).id /\ dev'.len = First(r).len
    BY <1>2, <1>4, <2>1 DEF DeviceType
  <2>3. active' = Work(t, r)
    BY DEF Launch
  <2>4. First(r).len <= First(r).len
    BY <1>2
  <2> QED BY <1>9, <2>2, <2>3, <2>4
<1> QED BY <1>4, <1>6, <1>7, <1>8, <1>9

LEMMA SetQueueFacts ==
  ASSUME TypeOK, NEW op \in {"send", "prepare"}, NEW q, SetQueue(op, q)
  PROVE  /\ op = "send" => tx' = q /\ rx' = rx
         /\ op = "prepare" => rx' = q /\ tx' = tx
         /\ Queue(op)' = q
BY DEF SetQueue, Queue

LEMMA CountPostFacts ==
  ASSUME TypeOK, NEW op \in {"send", "prepare"}, CountPost(op)
  PROVE  /\ txPosted' \in Nat /\ rxPosted' \in Nat
         /\ op = "send" => txPosted' = txPosted + 1 /\ rxPosted' = rxPosted
         /\ op = "prepare" => rxPosted' = rxPosted + 1 /\ txPosted' = txPosted
BY DEF CountPost, TypeOK

(* What the program or the handler posts is a request.                     *)
LEMMA PostTypes ==
  ASSUME TypeOK, NEW op \in {"send", "prepare"}
  PROVE  /\ Posted(op) + 1 \in Nat
         /\ \A len \in Lengths[op] : len \in Nat
BY TypeParts, AvalonDmaAssumption DEF Posted

LEMMA ModeKept ==
  ASSUME ModeInv, UNCHANGED modeVars
  PROVE  ModeInv'
BY DEF ModeInv, modeVars

-----------------------------------------------------------------------------
(* Whatever the callbacks post.  A launch puts things right: the device    *)
(* runs if there is work, at the heads of the queues.                      *)

LEMMA AwakeLaunched ==
  ASSUME TypeOK, UNCHANGED modeVars, ~dev.busy,
         tx' \in QueueType, rx' \in QueueType, Launch(tx', rx')
  PROVE  /\ InFlightAtHead' /\ NoStall'
         /\ active' \in BOOLEAN /\ dev' \in DeviceType
         /\ active' <=> dev'.busy \/ dev'.irq
         /\ ~(dev'.busy /\ dev'.irq)
<1>1. launch' = launch
  BY ModeTypes
<1>2. /\ active' \in BOOLEAN /\ active' = Work(tx', rx') /\ dev' \in DeviceType
      /\ ~dev'.irq /\ dev'.busy = Work(tx', rx')
      /\ Work(tx', rx') /\ launch # "rxonly" =>
           dev'.from = First(tx').id /\ dev'.len <= First(tx').len
      /\ Work(tx', rx') /\ launch # "txonly" =>
           dev'.to = First(rx').id /\ dev'.len <= First(rx').len
  BY LaunchFacts
<1>3. Work(tx, rx)' = Work(tx', rx')
  BY <1>1 DEF Work
<1> QED BY <1>1, <1>2, <1>3 DEF InFlightAtHead, NoStall

(* With the queues as they were, there is work as there was.               *)
LEMMA WorkSame ==
  ASSUME UNCHANGED <<tx, rx, modeVars>>
  PROVE  Work(tx, rx)' = Work(tx, rx)
BY DEF modeVars, Work

LEMMA InitAwake == Init => AwakeInv
<1> SUFFICES ASSUME Init PROVE AwakeInv
  OBVIOUS
<1>1. 0 \in Slots
  BY SlotsExist DEF Slots
<1>2. NoRequest \in SlotType
  BY DEF NoRequest, SlotType
<1>3. tx \in QueueType /\ rx \in QueueType
  BY <1>1, <1>2 DEF Init, QueueType
<1>4. dev \in DeviceType
  BY DEF Init, IdleDevice, DeviceType
<1>5. TypeOK
  <2>1. call \in CallType /\ isr \in IsrType
    BY IdleTypes DEF Init
  <2>2. txDone \in Seq(Nat) /\ rxDone \in Seq(Nat)
    BY DEF Init
  <2> QED BY <1>3, <1>4, <2>1, <2>2 DEF Init, TypeOK, CallType, IsrType, DeviceType
<1>6. ~Work(tx, rx)
  BY DEF Init, Empty, Work
<1> QED BY <1>5, <1>6 DEF Init, AwakeInv, NoStall, LaunchInv, IdleDevice, IdleCall

LEMMA DeviceAwake == ASSUME AwakeInv, DeviceDone PROVE AwakeInv'
<1> USE DEF AwakeInv
<1>1. /\ UNCHANGED <<txVars, rxVars, modeVars, active, isr, call>>
      /\ dev' = [dev EXCEPT !.busy = FALSE, !.irq = TRUE] /\ dev.busy
  BY DEF DeviceDone
<1>2. dev' \in DeviceType /\ ~dev'.busy /\ dev'.irq
  BY <1>1, TypeParts DEF DeviceType
<1>3. TypeOK'
  BY <1>1, <1>2, TypeParts, TypePartsNext DEF txVars, rxVars, modeVars
<1>4. active
  BY <1>1 DEF LaunchInv
<1> QED BY <1>1, <1>2, <1>3, <1>4 DEF NoStall, LaunchInv

LEMMA StartPostAwake ==
  ASSUME AwakeInv, NEW op \in {"send", "prepare"}, NEW len \in Lengths[op],
         StartPost(op, len)
  PROVE  AwakeInv'
<1> USE DEF AwakeInv
<1>1. /\ UNCHANGED <<txVars, rxVars, modeVars, active, dev, isr>>
      /\ call.pc = "idle"
      /\ call' = [op |-> op, pc |-> "fill", slot |-> Queue(op).end, len |-> len]
  BY DEF StartPost, At
<1>2. Queue(op).end \in Slots /\ len \in Nat
  BY QueueTypes, PostTypes DEF QueueType
<1>3. call' \in CallType
  BY <1>1, <1>2 DEF CallType
<1>4. TypeOK'
  BY <1>1, <1>3, TypeParts, TypePartsNext DEF txVars, rxVars, modeVars
<1>5. Work(tx, rx)' = Work(tx, rx)
  BY <1>1, WorkSame DEF txVars, rxVars
<1> QED BY <1>1, <1>4, <1>5 DEF NoStall, LaunchInv

(* Filling a slot, even one that is no longer the one behind the queue,    *)
(* leaves the indices alone.                                               *)
LEMMA FillSlotAwake == ASSUME AwakeInv, FillSlot PROVE AwakeInv'
<1> USE DEF AwakeInv
<1>a. PICK op : op = call.op
  OBVIOUS
<1>b. PICK q : q = Queue(op)
  OBVIOUS
<1>c. PICK r : r = Fill(q, call.slot, Posted(op) + 1, call.len)
  OBVIOUS
<1>1. /\ UNCHANGED <<txPosted, rxPosted, txDone, rxDone, modeVars, active, dev, isr>>
      /\ call.pc = "fill" /\ SetQueue(op, r)
      /\ call' = [call EXCEPT !.pc = "publish"]
  BY <1>a, <1>b, <1>c DEF FillSlot, At, Goto
<1>2. call \in CallType /\ op \in {"send", "prepare"}
  BY <1>a, <1>1, TypeParts DEF LaunchInv, CallType
<1>3. q \in QueueType /\ call.slot \in Slots /\ call.len \in Nat /\ Posted(op) + 1 \in Nat
  BY <1>b, <1>2, QueueTypes, PostTypes DEF CallType
<1>4. r \in QueueType /\ r.start = q.start /\ r.end = q.end
  BY <1>c, <1>3 DEF Fill, QueueType, SlotType
<1>5. /\ op = "send" => tx' = r /\ rx' = rx /\ q = tx
      /\ op = "prepare" => rx' = r /\ tx' = tx /\ q = rx
  BY <1>b, <1>1, <1>2, SetQueueFacts, QueueTypes
<1>6. call' \in CallType /\ call'.op = op /\ call'.pc = "publish"
  BY <1>a, <1>1, <1>2 DEF CallType
<1>7. tx' \in QueueType /\ rx' \in QueueType
  BY <1>2, <1>4, <1>5, TypeParts
<1>8. TypeOK'
  BY <1>1, <1>6, <1>7, TypeParts, ModeTypes, TypePartsNext
<1>9. Work(tx, rx)' = Work(tx, rx)
  BY <1>1, <1>2, <1>4, <1>5 DEF Work, Empty, modeVars
<1> QED BY <1>1, <1>2, <1>6, <1>8, <1>9 DEF NoStall, LaunchInv

LEMMA PublishAwake == ASSUME AwakeInv, Publish PROVE AwakeInv'
<1> USE DEF AwakeInv
<1>a. PICK op : op = call.op
  OBVIOUS
<1>b. PICK r : r = [Queue(op) EXCEPT !.end = After(call.slot)]
  OBVIOUS
<1>1. /\ UNCHANGED <<txDone, rxDone, modeVars, active, dev, isr>>
      /\ call.pc = "publish" /\ SetQueue(op, r) /\ CountPost(op)
      /\ call' = [call EXCEPT !.pc = "check"]
  BY <1>a, <1>b DEF Publish, At, Goto
<1>2. call \in CallType /\ op \in {"send", "prepare"}
  BY <1>a, <1>1, TypeParts DEF LaunchInv, CallType
<1>3. r \in QueueType
  BY <1>b, <1>2, QueueTypes, EndTypes DEF CallType
<1>4. tx' \in QueueType /\ rx' \in QueueType
  BY <1>1, <1>2, <1>3, SetQueueFacts, TypeParts
<1>5. call' \in CallType /\ call'.op = op /\ call'.pc = "check"
  BY <1>a, <1>1, <1>2 DEF CallType
<1>6. txPosted' \in Nat /\ rxPosted' \in Nat
  BY <1>1, <1>2, CountPostFacts
<1>7. TypeOK'
  BY <1>1, <1>4, <1>5, <1>6, TypeParts, ModeTypes, TypePartsNext
<1> QED BY <1>1, <1>2, <1>5, <1>7 DEF NoStall, LaunchInv

(* active says whether the device runs: the post that sees it clear goes   *)
(* on to launch, and the one that sees it set may leave.                   *)
LEMMA CheckAwake == ASSUME AwakeInv, CheckActive PROVE AwakeInv'
<1> USE DEF AwakeInv
<1>1. /\ UNCHANGED <<txVars, rxVars, modeVars, active, dev, isr>>
      /\ call.pc = "check" /\ isr.pc = "off"
      /\ IF active THEN call' = IdleCall ELSE call' = [call EXCEPT !.pc = "launch"]
  BY DEF CheckActive, At, Goto
<1>2. call \in CallType /\ call.op # "none"
  BY <1>1, TypeParts DEF LaunchInv
<1>3. /\ active => call'.op = "none" /\ call'.pc = "idle"
      /\ ~active => call'.op # "none" /\ call'.pc = "launch"
  BY <1>1, <1>2 DEF IdleCall, CallType
<1>4. call' \in CallType
  BY <1>1, <1>2, IdleTypes DEF CallType
<1>5. TypeOK'
  BY <1>1, <1>4, TypeParts, TypePartsNext DEF txVars, rxVars, modeVars
<1> QED BY <1>1, <1>3, <1>5 DEF NoStall, LaunchInv

LEMMA PostLaunchAwake == ASSUME AwakeInv, PostLaunch PROVE AwakeInv' /\ InFlightAtHead'
<1> USE DEF AwakeInv
<1>1. /\ UNCHANGED <<txVars, rxVars, modeVars, isr>>
      /\ call.pc = "launch" /\ Launch(tx, rx) /\ call' = IdleCall
  BY DEF PostLaunch, At
<1>2. ~dev.busy
  BY <1>1 DEF LaunchInv
<1>3. tx' = tx /\ rx' = rx /\ tx' \in QueueType /\ rx' \in QueueType
  BY <1>1, TypeParts DEF txVars, rxVars
<1>4. Launch(tx', rx')
  BY <1>1, <1>3
<1>5. /\ InFlightAtHead' /\ NoStall'
      /\ active' \in BOOLEAN /\ dev' \in DeviceType
      /\ active' <=> dev'.busy \/ dev'.irq
      /\ ~(dev'.busy /\ dev'.irq)
  BY <1>1, <1>2, <1>3, <1>4, AwakeLaunched
<1>6. TypeOK'
  BY <1>1, <1>5, TypeParts, ModeTypes, TypePartsNext, IdleTypes DEF txVars, rxVars
<1> QED BY <1>1, <1>5, <1>6 DEF LaunchInv, IdleCall

(* The stream requests come while there is nothing to launch and leave     *)
(* nothing to launch.                                                      *)
LEMMA IoctlQuiet ==
  ASSUME AwakeInv, Ioctl
  PROVE  /\ UNCHANGED <<txVars, rxVars, active, isr, call>>
         /\ launch' \in {"bidir", "txonly", "rxonly"}
         /\ streamTx' \in BOOLEAN /\ streamRx' \in BOOLEAN
         /\ launch' = "txonly" => streamRx'
         /\ launch' = "rxonly" => streamTx'
         /\ dev' \in {dev, [dev EXCEPT !.from = 0], [dev EXCEPT !.to = 0]}
         /\ ~Work(tx, rx) /\ ~Work(tx, rx)' /\ call.pc = "idle" /\ ~dev.busy
<1> USE DEF AwakeInv
<1>1. /\ IoctlAllowed /\ UNCHANGED <<txVars, rxVars, active, isr, call>>
      /\ launch' \in {"bidir", "txonly", "rxonly"}
      /\ streamTx' \in BOOLEAN /\ streamRx' \in BOOLEAN
      /\ launch' = "txonly" => streamRx'
      /\ launch' = "rxonly" => streamTx'
      /\ dev' \in {dev, [dev EXCEPT !.from = 0], [dev EXCEPT !.to = 0]}
  BY TypeParts DEF Ioctl, TxStreamOn, TxStreamOff, RxStreamOn, RxStreamOff, IoctlAllowed
<1>2. /\ Empty(tx) /\ Empty(rx) /\ call.pc = "idle" /\ ~dev.busy
      /\ tx' = tx /\ rx' = rx
  BY <1>1 DEF IoctlAllowed, At, txVars, rxVars
<1>3. ~Work(tx, rx) /\ ~Work(tx, rx)'
  BY <1>1, <1>2, TypeParts DEF Work
<1> QED BY <1>1, <1>2, <1>3

LEMMA IoctlAwake == ASSUME AwakeInv, Ioctl PROVE AwakeInv'
<1>1. TypeOK /\ LaunchInv
  BY DEF AwakeInv
<1>2. /\ dev \in DeviceType
      /\ dev' \in {dev, [dev EXCEPT !.from = 0], [dev EXCEPT !.to = 0]}
  BY <1>1, TypeParts, IoctlQuiet
<1>3. /\ dev' \in DeviceType /\ dev'.busy = dev.busy /\ dev'.irq = dev.irq
  BY <1>2 DEF DeviceType
<1>4. TypeOK'
  BY <1>1, <1>3, IoctlQuiet, TypeParts, TypePartsNext DEF txVars, rxVars
<1>5. LaunchInv'
  BY <1>1, <1>3, IoctlQuiet DEF LaunchInv
<1> QED BY <1>4, <1>5, IoctlQuiet DEF AwakeInv, NoStall

(* The interrupt finds the device idle and active set.                     *)
LEMMA RetireAwake == ASSUME AwakeInv, IsrRetire PROVE AwakeInv' /\ InFlightAtHead'
<1> USE DEF AwakeInv
<1>1. /\ UNCHANGED <<txPosted, rxPosted, txDone, rxDone, modeVars, call>>
      /\ isr.pc = "off" /\ dev.irq
      /\ tx' = Popped(tx, streamTx) /\ rx' = Popped(rx, streamRx)
      /\ Launch(tx', rx')
      /\ isr' = [pc |-> "tx", tx |-> tx.start, rx |-> rx.start]
  BY DEF IsrRetire
<1>2. ~dev.busy /\ call.pc # "launch"
  BY <1>1 DEF LaunchInv
<1>3. /\ tx \in QueueType /\ rx \in QueueType
      /\ streamTx \in BOOLEAN /\ streamRx \in BOOLEAN
  BY TypeParts
<1>4. tx' \in QueueType /\ rx' \in QueueType
  BY <1>1, <1>3, PopFacts
<1>5. /\ InFlightAtHead' /\ NoStall'
      /\ active' \in BOOLEAN /\ dev' \in DeviceType
      /\ active' <=> dev'.busy \/ dev'.irq
      /\ ~(dev'.busy /\ dev'.irq)
  BY <1>1, <1>2, <1>4, AwakeLaunched
<1>6. isr' \in IsrType
  BY <1>1, <1>3 DEF QueueType, IsrType
<1>7. TypeOK'
  BY <1>1, <1>4, <1>5, <1>6, TypeParts, ModeTypes, TypePartsNext
<1> QED BY <1>1, <1>2, <1>5, <1>7 DEF LaunchInv

(* The steps of the handler that touch no queue.                           *)
LEMMA IsrContinuesFacts ==
  ASSUME TypeOK, IsrContinues
  PROVE  /\ UNCHANGED <<tx, rx, txPosted, rxPosted, modeVars, active, dev, call>>
         /\ isr.pc # "off" /\ isr' \in IsrType
         /\ txDone' \in Seq(Nat) /\ rxDone' \in Seq(Nat)
<1>1. isr \in IsrType /\ txDone \in Seq(Nat) /\ rxDone \in Seq(Nat)
  BY TypeParts
<1>2. tx.buf[isr.tx].id \in Nat /\ rx.buf[isr.rx].id \in Nat
  BY <1>1, TypeParts DEF QueueType, SlotType, IsrType
<1>3. CASE IsrTxDone
  <2>1. txDone' \in Seq(Nat)
    BY <1>1, <1>2, <1>3 DEF IsrTxDone
  <2>2. isr' \in IsrType
    BY <1>1, <1>3 DEF IsrTxDone, IsrType
  <2> QED BY <1>1, <1>3, <2>1, <2>2 DEF IsrTxDone, rxVars
<1>4. CASE IsrRxDone
  <2>1. rxDone' \in Seq(Nat)
    BY <1>1, <1>2, <1>4 DEF IsrRxDone
  <2>2. isr' \in IsrType
    BY <1>1, <1>4, IdleTypes DEF IsrRxDone, IsrType
  <2> QED BY <1>1, <1>4, <2>1, <2>2 DEF IsrRxDone, txVars
<1>5. CASE CallbackReturns
  <2>1. isr' \in IsrType
    BY <1>1, <1>5, IdleTypes DEF CallbackReturns, IsrType
  <2> QED BY <1>1, <1>5, <2>1 DEF CallbackReturns, txVars, rxVars
<1> QED BY <1>3, <1>4, <1>5 DEF IsrContinues

LEMMA IsrContinuesAwake == ASSUME AwakeInv, IsrContinues PROVE AwakeInv'
<1> USE DEF AwakeInv
<1>1. /\ UNCHANGED <<tx, rx, txPosted, rxPosted, modeVars, active, dev, call>>
      /\ isr.pc # "off" /\ isr' \in IsrType
      /\ txDone' \in Seq(Nat) /\ rxDone' \in Seq(Nat)
  BY IsrContinuesFacts
<1>2. TypeOK'
  BY <1>1, TypeParts, ModeTypes, TypePartsNext
<1>3. Work(tx, rx)' = Work(tx, rx)
  BY <1>1, WorkSame
<1> QED BY <1>1, <1>2, <1>3 DEF NoStall, LaunchInv

(* A callback's request: the queue that gets it, as every step that counts *)
(* it changes it.                                                          *)
LEMMA CallbackFacts ==
  ASSUME TypeOK, NEW op \in {"send", "prepare"}, NEW len \in Lengths[op],
         CallbackPosts(op, len)
  PROVE  \E q \in QueueType, r \in QueueType :
           /\ UNCHANGED <<txDone, rxDone, modeVars, isr, call>>
           /\ isr.pc \in {"txcallback", "rxcallback"} /\ (Reentrant \/ call.op # op)
           /\ ~Empty(r) /\ (~Empty(q) => First(r) = First(q))
           /\ op = "send" => q = tx /\ tx' = r /\ rx' = rx
           /\ op = "prepare" => q = rx /\ rx' = r /\ tx' = tx
           /\ tx' \in QueueType /\ rx' \in QueueType
           /\ txPosted' \in Nat /\ rxPosted' \in Nat
           /\ active => active' = active /\ dev' = dev
           /\ ~active => Launch(tx', rx')
<1>b. PICK q : q = Queue(op)
  OBVIOUS
<1>i. PICK id : id = Posted(op) + 1
  OBVIOUS
<1>c. PICK f : f = Fill(q, q.end, id, len)
  OBVIOUS
<1>d. PICK r : r = [f EXCEPT !.end = After(f.end)]
  OBVIOUS
<1>1. /\ UNCHANGED <<txDone, rxDone, modeVars, isr, call>>
      /\ isr.pc \in {"txcallback", "rxcallback"} /\ (Reentrant \/ call.op # op) /\ ~Full(q)
      /\ SetQueue(op, r) /\ CountPost(op)
      /\ IF active THEN UNCHANGED <<active, dev>>
         ELSE IF op = "send" THEN Launch(r, rx) ELSE Launch(tx, r)
  BY <1>b, <1>c, <1>d, <1>i DEF CallbackPosts
<1>2. len \in Nat /\ id \in Nat
  BY <1>i, PostTypes
<1>3. /\ op = "send" => q = tx
      /\ op = "prepare" => q = rx
      /\ q \in QueueType /\ q.end \in Slots
  BY <1>b, QueueTypes DEF QueueType
<1>4. /\ f \in QueueType /\ f.start = q.start /\ f.end = q.end
      /\ ~Empty(q) => First(f) = First(q)
  BY <1>c, <1>2, <1>3, FillFacts
<1>5. ~Full(f)
  BY <1>1, <1>4 DEF Full
<1>6. r \in QueueType /\ ~Empty(r) /\ (~Empty(q) => First(r) = First(q))
  <2>1. r \in QueueType /\ ~Empty(r) /\ First(r) = First(f)
    BY <1>d, <1>4, <1>5, PublishFacts
  <2> QED BY <1>4, <2>1
<1>7. /\ op = "send" => tx' = r /\ rx' = rx
      /\ op = "prepare" => rx' = r /\ tx' = tx
  BY <1>1, SetQueueFacts
<1>8. tx' \in QueueType /\ rx' \in QueueType
  BY <1>6, <1>7, TypeParts
<1>9. txPosted' \in Nat /\ rxPosted' \in Nat
  BY <1>1, CountPostFacts
<1>10. /\ active => active' = active /\ dev' = dev
       /\ ~active => Launch(tx', rx')
  BY <1>1, <1>7
<1> QED BY <1>1, <1>3, <1>6, <1>7, <1>8, <1>9, <1>10

LEMMA CallbackAwake ==
  ASSUME AwakeInv, NEW op \in {"send", "prepare"}, NEW len \in Lengths[op],
         CallbackPosts(op, len)
  PROVE  AwakeInv'
<1> USE DEF AwakeInv
<1>1. /\ UNCHANGED <<txDone, rxDone, modeVars, isr, call>>
      /\ isr.pc \in {"txcallback", "rxcallback"}
      /\ tx' \in QueueType /\ rx' \in QueueType
      /\ txPosted' \in Nat /\ rxPosted' \in Nat
      /\ active => active' = active /\ dev' = dev
      /\ ~active => Launch(tx', rx')
  BY CallbackFacts
<1>2. call.pc # "launch"
  BY <1>1 DEF LaunchInv
<1>3. /\ NoStall' /\ active' \in BOOLEAN /\ dev' \in DeviceType
      /\ active' <=> dev'.busy \/ dev'.irq
      /\ ~(dev'.busy /\ dev'.irq)
  <2>1. CASE active
    BY <1>1, <2>1, TypeParts DEF LaunchInv, NoStall
  <2>2. CASE ~active
    <3>1. ~dev.busy
      BY <2>2 DEF LaunchInv
    <3> QED BY <1>1, <2>2, <3>1, AwakeLaunched
  <2> QED BY <2>1, <2>2
<1>4. TypeOK'
  BY <1>1, <1>3, TypeParts, ModeTypes, TypePartsNext
<1> QED BY <1>1, <1>2, <1>3, <1>4 DEF LaunchInv

LEMMA StutterAwake == ASSUME AwakeInv, UNCHANGED avalonVars PROVE AwakeInv'
<1> USE DEF AwakeInv
<1>1. /\ UNCHANGED <<tx, rx, modeVars, active, dev, isr, call>>
      /\ UNCHANGED <<txPosted, rxPosted, txDone, rxDone>>
  BY DEF avalonVars, txVars, rxVars
<1>2. TypeOK'
  BY <1>1, TypeParts, ModeTypes, TypePartsNext
<1>3. Work(tx, rx)' = Work(tx, rx)
  BY <1>1, WorkSame
<1> QED BY <1>1, <1>2, <1>3 DEF NoStall, LaunchInv

LEMMA NextAwake == ASSUME AwakeInv, [Next]_avalonVars PROVE AwakeInv'
BY DeviceAwake, RetireAwake, IsrContinuesAwake, StartPostAwake, CallbackAwake,
   FillSlotAwake, PublishAwake, CheckAwake, PostLaunchAwake, IoctlAwake, StutterAwake
   DEF Next, Post

THEOREM AwakeInvariant == Spec => []AwakeInv
<1>1. AwakeInv /\ [Next]_avalonVars => AwakeInv'
  BY NextAwake
<1> QED BY <1>1, InitAwake, PTL DEF Spec

(* The indices stay in the arrays of slots, whatever the callbacks post.   *)
THEOREM AvalonTypeCorrect == Spec => []TypeOK
<1>1. AwakeInv => TypeOK
  BY DEF AwakeInv
<1> QED BY <1>1, AwakeInvariant, PTL

(* Program and handler never both leave the launch to the other, whatever  *)
(* the callbacks post (altera_avalon_dma.c:340, 433, 490).                 *)
THEOREM QueuesNeverStall == Spec => []NoStall
<1>1. AwakeInv => NoStall
  BY DEF AwakeInv
<1> QED BY <1>1, AwakeInvariant, PTL

-----------------------------------------------------------------------------
(* From here on with callbacks that leave the program's channel alone: the *)
(* device works at the heads of the queues, and the slots the program      *)
(* reserves stay reserved.                                                 *)

LEMMA ControlAwake ==
  /\ ControlInv => AwakeInv /\ TypeOK /\ LaunchInv /\ InFlightAtHead /\ PostInv /\ ModeInv
  /\ AwakeInv /\ InFlightAtHead /\ PostInv /\ ModeInv => ControlInv
BY DEF ControlInv, AwakeInv

LEMMA ControlNext ==
  AwakeInv' /\ InFlightAtHead' /\ PostInv' /\ ModeInv' => ControlInv'
BY DEF ControlInv, AwakeInv

(* A queue that only grows keeps its head.                                 *)
Grown(q, r) == ~Empty(q) => ~Empty(r) /\ First(r) = First(q)

LEMMA InFlightKept ==
  ASSUME TypeOK, InFlightAtHead, UNCHANGED <<modeVars, active, dev>>,
         Grown(tx, tx'), Grown(rx, rx')
  PROVE  InFlightAtHead'
<1>1. /\ launch' = launch /\ active' = active /\ dev' = dev
      /\ launch \in {"bidir", "txonly", "rxonly"}
  BY TypeParts, ModeTypes
<1>2. ASSUME dev.busy \/ dev.irq
      PROVE  /\ active' /\ ~(dev'.busy /\ dev'.irq) /\ Work(tx, rx)'
             /\ launch' # "rxonly" => dev'.from = First(tx').id /\ dev'.len <= First(tx').len
             /\ launch' # "txonly" => dev'.to = First(rx').id /\ dev'.len <= First(rx').len
  <2>1. /\ active /\ ~(dev.busy /\ dev.irq) /\ Work(tx, rx)
        /\ launch # "rxonly" => dev.from = First(tx).id /\ dev.len <= First(tx).len
        /\ launch # "txonly" => dev.to = First(rx).id /\ dev.len <= First(rx).len
    BY <1>2 DEF InFlightAtHead
  <2>2. /\ launch # "rxonly" => ~Empty(tx) /\ ~Empty(tx') /\ First(tx') = First(tx)
        /\ launch # "txonly" => ~Empty(rx) /\ ~Empty(rx') /\ First(rx') = First(rx)
    BY <1>1, <2>1 DEF Work, Grown
  <2>3. Work(tx, rx)'
    BY <1>1, <2>2 DEF Work
  <2> QED BY <1>1, <2>1, <2>2, <2>3
<1> QED BY <1>1, <1>2 DEF InFlightAtHead

(* What leaves the queues and the device alone.                            *)
LEMMA InFlightSame ==
  ASSUME TypeOK, InFlightAtHead, UNCHANGED <<tx, rx, modeVars, active, dev>>
  PROVE  InFlightAtHead'
BY InFlightKept DEF Grown

LEMMA PostSame ==
  ASSUME PostInv, UNCHANGED <<tx, rx, call>>
  PROVE  PostInv'
BY DEF PostInv, Queue, Full, After

LEMMA InitControl == Init => ControlInv
<1>1. Init => InFlightAtHead /\ PostInv /\ ModeInv
  BY DEF Init, InFlightAtHead, PostInv, ModeInv, IdleDevice, IdleCall
<1> QED BY <1>1, InitAwake, ControlAwake

LEMMA DeviceControl == ASSUME ControlInv, DeviceDone PROVE ControlInv'
<1> USE ControlAwake
<1>1. /\ UNCHANGED <<txVars, rxVars, modeVars, active, isr, call>>
      /\ dev \in DeviceType /\ dev' = [dev EXCEPT !.busy = FALSE, !.irq = TRUE] /\ dev.busy
  BY TypeParts DEF DeviceDone
<1>2. /\ ~dev'.busy /\ dev'.irq
      /\ dev'.from = dev.from /\ dev'.to = dev.to /\ dev'.len = dev.len
  BY <1>1 DEF DeviceType
<1>3. tx' = tx /\ rx' = rx /\ launch' = launch /\ Work(tx, rx)' = Work(tx, rx)
  BY <1>1, WorkSame DEF txVars, rxVars, modeVars
<1>4. InFlightAtHead'
  BY <1>1, <1>2, <1>3 DEF InFlightAtHead, First
<1>5. PostInv'
  BY <1>1, <1>3, PostSame
<1> QED BY <1>1, <1>4, <1>5, DeviceAwake, ModeKept, ControlNext

LEMMA StartPostControl ==
  ASSUME ControlInv, NEW op \in {"send", "prepare"}, NEW len \in Lengths[op],
         StartPost(op, len)
  PROVE  ControlInv'
<1> USE ControlAwake
<1>1. /\ UNCHANGED <<tx, rx, modeVars, active, dev>> /\ ~Full(Queue(op))
      /\ call' = [op |-> op, pc |-> "fill", slot |-> Queue(op).end, len |-> len]
  BY DEF StartPost, txVars, rxVars
<1>2. Queue(op)' = Queue(op)
  BY <1>1 DEF Queue
<1>3. PostInv'
  BY <1>1, <1>2 DEF PostInv, Queue, Full, After
<1> QED BY <1>1, <1>3, InFlightSame, StartPostAwake, ModeKept, ControlNext

LEMMA FillSlotControl == ASSUME ControlInv, FillSlot PROVE ControlInv'
<1> USE ControlAwake
<1>a. PICK op : op = call.op
  OBVIOUS
<1>b. PICK q : q = Queue(op)
  OBVIOUS
<1>i. PICK id : id = Posted(op) + 1
  OBVIOUS
<1>l. PICK len : len = call.len
  OBVIOUS
<1>c. PICK r : r = Fill(q, q.end, id, len)
  OBVIOUS
<1>1. /\ UNCHANGED <<modeVars, active, dev>>
      /\ call.pc = "fill" /\ SetQueue(op, Fill(q, call.slot, id, len))
      /\ call' = [call EXCEPT !.pc = "publish"]
  BY <1>a, <1>b, <1>i, <1>l DEF FillSlot, At, Goto
<1>2. /\ op \in {"send", "prepare"} /\ len \in Nat /\ call.slot = q.end /\ ~Full(q)
      /\ call \in CallType
  BY <1>a, <1>b, <1>l, <1>1, TypeParts DEF PostInv, LaunchInv, CallType
<1>3. id \in Nat /\ q \in QueueType /\ q.end \in Slots
  BY <1>b, <1>i, <1>2, PostTypes, QueueTypes DEF QueueType
<1>4. /\ r.start = q.start /\ r.end = q.end
      /\ ~Empty(q) => First(r) = First(q)
  BY <1>c, <1>2, <1>3, FillFacts
<1>5. /\ op = "send" => tx' = r /\ rx' = rx /\ q = tx
      /\ op = "prepare" => rx' = r /\ tx' = tx /\ q = rx
  BY <1>b, <1>c, <1>1, <1>2, SetQueueFacts, QueueTypes
<1>6. call'.op = op /\ call'.pc = "publish" /\ call'.slot = q.end
  BY <1>a, <1>1, <1>2 DEF CallType
<1>7. Empty(r) = Empty(q) /\ Full(r) = Full(q)
  BY <1>4 DEF Empty, Full
<1>8. Grown(tx, tx') /\ Grown(rx, rx')
  BY <1>2, <1>4, <1>5, <1>7 DEF Grown
<1>9. PostInv'
  <2>1. Queue(call.op)' = r
    BY <1>2, <1>5, <1>6 DEF Queue
  <2> QED BY <1>2, <1>4, <1>6, <1>7, <2>1 DEF PostInv, Full, After
<1> QED BY <1>1, <1>8, <1>9, InFlightKept, FillSlotAwake, ModeKept, ControlNext

LEMMA PublishControl == ASSUME ControlInv, Publish PROVE ControlInv'
<1> USE ControlAwake
<1>a. PICK op : op = call.op
  OBVIOUS
<1>b. PICK q : q = Queue(op)
  OBVIOUS
<1>c. PICK r : r = [q EXCEPT !.end = After(q.end)]
  OBVIOUS
<1>1. /\ UNCHANGED <<modeVars, active, dev>>
      /\ call.pc = "publish" /\ SetQueue(op, [q EXCEPT !.end = After(call.slot)])
      /\ call' = [call EXCEPT !.pc = "check"]
  BY <1>a, <1>b DEF Publish, At, Goto
<1>2. /\ op \in {"send", "prepare"} /\ call.slot = q.end /\ ~Full(q)
      /\ call \in CallType
  BY <1>a, <1>b, <1>1, TypeParts DEF PostInv, LaunchInv, CallType
<1>3. ~Empty(r) /\ First(r) = First(q)
  <2>1. q \in QueueType
    BY <1>b, QueueTypes
  <2> QED BY <1>c, <1>2, <2>1, PublishFacts
<1>4. /\ op = "send" => tx' = r /\ rx' = rx /\ q = tx
      /\ op = "prepare" => rx' = r /\ tx' = tx /\ q = rx
  BY <1>b, <1>c, <1>1, <1>2, SetQueueFacts, QueueTypes
<1>5. Grown(tx, tx') /\ Grown(rx, rx')
  BY <1>2, <1>3, <1>4 DEF Grown
<1>6. PostInv'
  BY <1>1, <1>2 DEF PostInv, CallType
<1> QED BY <1>1, <1>5, <1>6, InFlightKept, PublishAwake, ModeKept, ControlNext

LEMMA CheckControl == ASSUME ControlInv, CheckActive PROVE ControlInv'
<1> USE ControlAwake
<1>1. /\ UNCHANGED <<tx, rx, modeVars, active, dev>>
      /\ IF active THEN call' = IdleCall ELSE call' = [call EXCEPT !.pc = "launch"]
      /\ call \in CallType
  BY TypeParts DEF CheckActive, At, Goto, txVars, rxVars
<1>2. PostInv'
  BY <1>1 DEF PostInv, IdleCall, CallType
<1> QED BY <1>1, <1>2, InFlightSame, CheckAwake, ModeKept, ControlNext

LEMMA PostLaunchControl == ASSUME ControlInv, PostLaunch PROVE ControlInv'
<1> USE ControlAwake
<1>1. UNCHANGED modeVars /\ call' = IdleCall
  BY DEF PostLaunch
<1>2. PostInv'
  BY <1>1 DEF PostInv, IdleCall
<1> QED BY <1>1, <1>2, PostLaunchAwake, ModeKept, ControlNext

LEMMA IoctlControl == ASSUME ControlInv, Ioctl PROVE ControlInv'
<1> USE ControlAwake
<1>1. /\ UNCHANGED <<txVars, rxVars, active, isr, call>>
      /\ launch' = "txonly" => streamRx'
      /\ launch' = "rxonly" => streamTx'
      /\ ~Work(tx, rx) /\ call.pc = "idle" /\ ~dev.busy
  BY IoctlQuiet
<1>2. ~active
  BY <1>1 DEF InFlightAtHead, LaunchInv
<1>3. LaunchInv' /\ ~active'
  BY <1>1, <1>2, IoctlAwake DEF AwakeInv
<1>4. InFlightAtHead'
  BY <1>3 DEF InFlightAtHead, LaunchInv
<1>5. PostInv' /\ ModeInv'
  BY <1>1 DEF PostInv, ModeInv
<1> QED BY <1>4, <1>5, IoctlAwake, ControlNext

LEMMA RetireControl == ASSUME ControlInv, IsrRetire PROVE ControlInv'
<1> USE ControlAwake
<1>1. /\ UNCHANGED <<modeVars, call>> /\ dev.irq
      /\ tx' = Popped(tx, streamTx) /\ rx' = Popped(rx, streamRx)
  BY DEF IsrRetire
<1>2. /\ tx \in QueueType /\ rx \in QueueType
      /\ streamTx \in BOOLEAN /\ streamRx \in BOOLEAN
      /\ launch \in {"bidir", "txonly", "rxonly"}
  BY TypeParts
<1>3. (streamTx \/ ~Empty(tx)) /\ (streamRx \/ ~Empty(rx))
  BY <1>1, <1>2 DEF InFlightAtHead, Work, ModeInv
<1>4. /\ tx'.end = tx.end /\ (~Full(tx) => ~Full(tx'))
      /\ rx'.end = rx.end /\ (~Full(rx) => ~Full(rx'))
  BY <1>1, <1>2, <1>3, PopFacts
<1>5. /\ Queue(call.op)'.end = Queue(call.op).end
      /\ ~Full(Queue(call.op)) => ~Full(Queue(call.op))'
  BY <1>1, <1>4 DEF Queue, Full, After
<1>6. PostInv'
  BY <1>1, <1>5 DEF PostInv
<1> QED BY <1>1, <1>6, RetireAwake, ModeKept, ControlNext

LEMMA IsrContinuesControl == ASSUME ControlInv, IsrContinues PROVE ControlInv'
BY ControlAwake, IsrContinuesFacts, InFlightSame, PostSame, IsrContinuesAwake,
   ModeKept, ControlNext

LEMMA CallbackControl ==
  ASSUME ControlInv, ~Reentrant,
         NEW op \in {"send", "prepare"}, NEW len \in Lengths[op], CallbackPosts(op, len)
  PROVE  ControlInv'
<1> USE ControlAwake
<1>1. PICK q \in QueueType, r \in QueueType :
        /\ UNCHANGED <<modeVars, call>> /\ call.op # op
        /\ ~Empty(r) /\ (~Empty(q) => First(r) = First(q))
        /\ op = "send" => q = tx /\ tx' = r /\ rx' = rx
        /\ op = "prepare" => q = rx /\ rx' = r /\ tx' = tx
        /\ tx' \in QueueType /\ rx' \in QueueType
        /\ active => active' = active /\ dev' = dev
        /\ ~active => Launch(tx', rx')
  BY CallbackFacts
<1>2. Grown(tx, tx') /\ Grown(rx, rx')
  BY <1>1 DEF Grown
<1>3. InFlightAtHead'
  <2>1. CASE active
    BY <1>1, <1>2, <2>1, InFlightKept
  <2>2. CASE ~active
    <3>1. ~dev.busy
      BY <2>2 DEF LaunchInv
    <3> QED BY <1>1, <2>2, <3>1, AwakeLaunched
  <2> QED BY <2>1, <2>2
<1>4. PostInv'
  <2>1. call.pc \in {"fill", "publish"} => Queue(call.op)' = Queue(call.op)
    BY <1>1, TypeParts DEF Queue, LaunchInv, CallType
  <2> QED BY <1>1, <2>1 DEF PostInv, Full, After
<1> QED BY <1>1, <1>3, <1>4, CallbackAwake, ModeKept, ControlNext

LEMMA StutterControl == ASSUME ControlInv, UNCHANGED avalonVars PROVE ControlInv'
<1>1. UNCHANGED <<tx, rx, modeVars, active, dev, call>>
  BY DEF avalonVars, txVars, rxVars
<1> QED BY <1>1, ControlAwake, InFlightSame, PostSame, StutterAwake, ModeKept, ControlNext

LEMMA NextControl ==
  ASSUME ControlInv, ~Reentrant, [Next]_avalonVars PROVE ControlInv'
BY DeviceControl, RetireControl, IsrContinuesControl, StartPostControl, CallbackControl,
   FillSlotControl, PublishControl, CheckControl, PostLaunchControl, IoctlControl,
   StutterControl
   DEF Next, Post

THEOREM ControlInvariant == ASSUME ~Reentrant PROVE Spec => []ControlInv
<1>1. ControlInv /\ [Next]_avalonVars => ControlInv'
  BY NextControl
<1> QED BY <1>1, InitControl, PTL DEF Spec

(* The device works on the heads of the queues and the driver knows of it, *)
(* whoever launched the transfer (altera_avalon_dma.c:49-60, 464-490).     *)
THEOREM DeviceWorksAtHead == ASSUME ~Reentrant PROVE Spec => []InFlightAtHead
<1>1. ControlInv => InFlightAtHead
  BY DEF ControlInv
<1> QED BY <1>1, ControlInvariant, PTL

==============================================================================
