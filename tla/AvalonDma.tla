------------------------------ MODULE AvalonDma ------------------------------
(***************************************************************************)
(* The HAL driver of an Avalon DMA device (altera_avalon_dma.c): a queue   *)
(* of sends, a queue of receives, and one device that moves the head of    *)
(* the one into the head of the other.  The program posts requests; the    *)
(* interrupt handler retires the heads, launches the next transfer and     *)
(* calls back, and a callback may post requests too.  The handler runs     *)
(* between any two accesses the program makes to what they share, and the  *)
(* device at any moment, under the callbacks too.                          *)
(*                                                                         *)
(* A request is its position in its queue and a length; addresses and      *)
(* widths (ALT_DMA_SET_MODE) decide nothing but whether a request is       *)
(* refused before anything changes.  The device's control register follows *)
(* the flags.  Requests have at least one byte: what the device does with  *)
(* a length of zero is not in this repository.                             *)
(***************************************************************************)
EXTENDS Integers, Sequences

CONSTANTS
  NSlots,    \* ALT_AVALON_DMA_NSLOTS, of which the driver makes a bit mask
  Lengths,   \* lengths of sends and of receives, none above max_length
  Reentrant, \* a callback may post where the program is just posting
  MaxPosts   \* bound: requests posted to each channel

ASSUME AvalonDmaAssumption ==
  /\ NSlots \in Nat /\ \E k \in 1..NSlots : NSlots = 2^k
  /\ Lengths \in [{"send", "prepare"} -> SUBSET (Nat \ {0})]
  /\ Reentrant \in BOOLEAN
  /\ MaxPosts \in Nat

VARIABLES
  tx, rx,    \* the queues: buf, start and end
  streamTx, streamRx,  \* priv->flags
  launch,    \* priv->launch
  active,    \* priv->active
  dev,       \* the device: its registers, whether it runs or interrupts
  isr,       \* the handler: where it is and its slots
  call,      \* the program's call: where it is and its locals
  txPosted, rxPosted,  \* history: how many requests were posted
  txDone, rxDone       \* history: the requests called back, in order

txVars   == <<tx, txPosted, txDone>>
rxVars   == <<rx, rxPosted, rxDone>>
modeVars == <<streamTx, streamRx, launch>>
avalonVars == <<txVars, rxVars, modeVars, active, dev, isr, call>>

Slots == 0..NSlots - 1
After(i) == IF i = NSlots - 1 THEN 0 ELSE i + 1
Least(a, b) == IF a < b THEN a ELSE b

NoRequest == [id |-> 0, len |-> 0]
Empty(q) == q.start = q.end
Full(q)  == After(q.end) = q.start
First(q) == q.buf[q.start]

IdleDevice == [busy |-> FALSE, irq |-> FALSE, from |-> 0, to |-> 0, len |-> 0]
IsrOff   == [pc |-> "off", tx |-> 0, rx |-> 0]
IdleCall == [op |-> "none", pc |-> "idle", slot |-> 0, len |-> 0]

(* ALTERA_AVALON_DMA_INSTANCE and alt_avalon_dma_init.                     *)
Init ==
  /\ tx = [buf |-> [i \in Slots |-> NoRequest], start |-> 0, end |-> 0]
  /\ rx = [buf |-> [i \in Slots |-> NoRequest], start |-> 0, end |-> 0]
  /\ streamTx = FALSE /\ streamRx = FALSE /\ launch = "bidir"
  /\ active = FALSE
  /\ dev = IdleDevice /\ isr = IsrOff /\ call = IdleCall
  /\ txPosted = 0 /\ rxPosted = 0 /\ txDone = <<>> /\ rxDone = <<>>

-----------------------------------------------------------------------------
(* priv->launch for queues t and r: whether there is a transfer to launch, *)
(* and the device with it under way.                                       *)

Work(t, r) == CASE launch = "bidir"  -> ~Empty(t) /\ ~Empty(r)
                [] launch = "txonly" -> ~Empty(t)
                [] launch = "rxonly" -> ~Empty(r)

Running(t, r) ==
  CASE launch = "bidir"  -> [busy |-> TRUE, irq |-> FALSE, from |-> First(t).id,
                             to |-> First(r).id, len |-> Least(First(t).len, First(r).len)]
    [] launch = "txonly" -> [dev EXCEPT !.busy = TRUE, !.irq = FALSE,
                                        !.from = First(t).id, !.len = First(t).len]
    [] launch = "rxonly" -> [dev EXCEPT !.busy = TRUE, !.irq = FALSE,
                                        !.to = First(r).id, !.len = First(r).len]

(* Bugs that the properties must find stand before the definition they are *)
(* a bug of, with the properties that find them: here the flag is never    *)
(* cleared (NoStall).                                                      *)
LaunchActive(t, r) ==
  /\ active' = TRUE
  /\ dev' = IF Work(t, r) THEN Running(t, r) ELSE [dev EXCEPT !.irq = FALSE]

Launch(t, r) ==
  /\ active' = Work(t, r)
  /\ dev' = IF Work(t, r) THEN Running(t, r) ELSE [dev EXCEPT !.irq = FALSE]

(* The length counts down to zero: DONE, and an interrupt.                 *)
DeviceDone ==
  /\ dev.busy
  /\ dev' = [dev EXCEPT !.busy = FALSE, !.irq = TRUE]
  /\ UNCHANGED <<txVars, rxVars, modeVars, active, isr, call>>

-----------------------------------------------------------------------------
(* The program: alt_avalon_dma_send and alt_avalon_dma_prepare, with op    *)
(* "send" and "prepare".                                                   *)

At(pc) == call.pc = pc /\ isr.pc = "off"
Goto(pc) == call' = [call EXCEPT !.pc = pc]

Queue(op)  == IF op = "send" THEN tx ELSE rx
Posted(op) == IF op = "send" THEN txPosted ELSE rxPosted

(* The queue of op becomes q.                                              *)
SetQueue(op, q) ==
  IF op = "send" THEN tx' = q /\ UNCHANGED rx ELSE rx' = q /\ UNCHANGED tx

CountPost(op) ==
  IF op = "send" THEN txPosted' = txPosted + 1 /\ UNCHANGED rxPosted
                 ELSE rxPosted' = rxPosted + 1 /\ UNCHANGED txPosted

Fill(q, slot, id, len) == [q EXCEPT !.buf[slot] = [id |-> id, len |-> len]]

(* Reads both indices; -ENOSPC leaves everything as it is.                 *)
StartPost(op, len) ==
  /\ At("idle")
  /\ Posted(op) < MaxPosts
  /\ ~Full(Queue(op))
  /\ call' = [op |-> op, pc |-> "fill", slot |-> Queue(op).end, len |-> len]
  /\ UNCHANGED <<txVars, rxVars, modeVars, active, dev, isr>>

FillSlot ==
  /\ At("fill")
  /\ SetQueue(call.op, Fill(Queue(call.op), call.slot, Posted(call.op) + 1, call.len))
  /\ Goto("publish")
  /\ UNCHANGED <<txPosted, rxPosted, txDone, rxDone, modeVars, active, dev, isr>>

(* Bug: the index is not masked (TypeOK).                                  *)
PublishUnmasked ==
  /\ At("publish")
  /\ SetQueue(call.op, [Queue(call.op) EXCEPT !.end = call.slot + 1])
  /\ CountPost(call.op)
  /\ Goto("check")
  /\ UNCHANGED <<txDone, rxDone, modeVars, active, dev, isr>>

Publish ==
  /\ At("publish")
  /\ SetQueue(call.op, [Queue(call.op) EXCEPT !.end = After(call.slot)])
  /\ CountPost(call.op)
  /\ Goto("check")
  /\ UNCHANGED <<txDone, rxDone, modeVars, active, dev, isr>>

(* Launches unless the handler will.                                       *)
CheckActive ==
  /\ At("check")
  /\ IF active THEN call' = IdleCall ELSE Goto("launch")
  /\ UNCHANGED <<txVars, rxVars, modeVars, active, dev, isr>>

PostLaunch ==
  /\ At("launch")
  /\ Launch(tx, rx)
  /\ call' = IdleCall
  /\ UNCHANGED <<txVars, rxVars, modeVars, isr>>

(* alt_avalon_dma_ioctl: refused while there are requests or a transfer.   *)
IoctlAllowed == At("idle") /\ Empty(tx) /\ Empty(rx) /\ ~dev.busy

TxStreamOn ==
  /\ IoctlAllowed /\ ~streamRx
  /\ dev' = [dev EXCEPT !.from = 0]
  /\ streamTx' = TRUE /\ launch' = "rxonly"
  /\ UNCHANGED <<txVars, rxVars, streamRx, active, isr, call>>

TxStreamOff ==
  /\ IoctlAllowed
  /\ streamTx' = FALSE /\ launch' = "bidir"
  /\ UNCHANGED <<txVars, rxVars, streamRx, active, dev, isr, call>>

RxStreamOn ==
  /\ IoctlAllowed /\ ~streamTx
  /\ dev' = [dev EXCEPT !.to = 0]
  /\ streamRx' = TRUE /\ launch' = "txonly"
  /\ UNCHANGED <<txVars, rxVars, streamTx, active, isr, call>>

RxStreamOff ==
  /\ IoctlAllowed
  /\ streamRx' = FALSE /\ launch' = "bidir"
  /\ UNCHANGED <<txVars, rxVars, streamTx, active, dev, isr, call>>

Ioctl == TxStreamOn \/ TxStreamOff \/ RxStreamOn \/ RxStreamOff
Post  == FillSlot \/ Publish \/ CheckActive \/ PostLaunch

-----------------------------------------------------------------------------
(* alt_avalon_dma_irq.                                                     *)

Popped(q, streaming) == IF streaming THEN q ELSE [q EXCEPT !.start = After(q.start)]

(* Bug: launches before the heads are retired (InFlightAtHead).            *)
IsrRetireLate ==
  /\ isr.pc = "off" /\ dev.irq
  /\ tx' = Popped(tx, streamTx) /\ rx' = Popped(rx, streamRx)
  /\ Launch(tx, rx)
  /\ isr' = [pc |-> "tx", tx |-> tx.start, rx |-> rx.start]
  /\ UNCHANGED <<txPosted, rxPosted, txDone, rxDone, modeVars, call>>

(* The heads are retired, the interrupt cleared, the next transfer         *)
(* launched; the callbacks come after.                                     *)
IsrRetire ==
  /\ isr.pc = "off" /\ dev.irq
  /\ tx' = Popped(tx, streamTx) /\ rx' = Popped(rx, streamRx)
  /\ Launch(tx', rx')
  /\ isr' = [pc |-> "tx", tx |-> tx.start, rx |-> rx.start]
  /\ UNCHANGED <<txPosted, rxPosted, txDone, rxDone, modeVars, call>>

(* The callbacks take their handle, and a receive its buffer, from the     *)
(* slot that is no longer in the queue.                                    *)
IsrTxDone ==
  /\ isr.pc = "tx"
  /\ txDone' = IF streamTx THEN txDone ELSE Append(txDone, tx.buf[isr.tx].id)
  /\ isr' = [isr EXCEPT !.pc = IF streamTx THEN "rx" ELSE "txcallback"]
  /\ UNCHANGED <<tx, txPosted, rxVars, modeVars, active, dev, call>>

(* Bug: the slots read again from the queue (RxImplementsPipe).            *)
IsrRxDoneReread ==
  /\ isr.pc = "rx"
  /\ rxDone' = IF streamRx THEN rxDone ELSE Append(rxDone, rx.buf[rx.start].id)
  /\ isr' = IF streamRx THEN IsrOff ELSE [isr EXCEPT !.pc = "rxcallback"]
  /\ UNCHANGED <<rx, rxPosted, txVars, modeVars, active, dev, call>>

IsrRxDone ==
  /\ isr.pc = "rx"
  /\ rxDone' = IF streamRx THEN rxDone ELSE Append(rxDone, rx.buf[isr.rx].id)
  /\ isr' = IF streamRx THEN IsrOff ELSE [isr EXCEPT !.pc = "rxcallback"]
  /\ UNCHANGED <<rx, rxPosted, txVars, modeVars, active, dev, call>>

(* Bug: a callback's request takes the last free slot, which is the one    *)
(* the handler still holds (RxImplementsPipe, TxImplementsPipe).           *)
CallbackPostsFull(op, len) ==
  /\ isr.pc \in {"txcallback", "rxcallback"}
  /\ Reentrant \/ call.op # op
  /\ Posted(op) < MaxPosts
  /\ LET q == Fill(Queue(op), Queue(op).end, Posted(op) + 1, len)
         r == [q EXCEPT !.end = After(q.end)]
     IN  /\ SetQueue(op, r)
         /\ IF active THEN UNCHANGED <<active, dev>>
            ELSE IF op = "send" THEN Launch(r, rx) ELSE Launch(tx, r)
  /\ CountPost(op)
  /\ UNCHANGED <<txDone, rxDone, modeVars, isr, call>>

(* A callback posts a request, with interrupts disabled.                   *)
CallbackPosts(op, len) ==
  /\ isr.pc \in {"txcallback", "rxcallback"}
  /\ Reentrant \/ call.op # op
  /\ Posted(op) < MaxPosts
  /\ ~Full(Queue(op))
  /\ LET q == Fill(Queue(op), Queue(op).end, Posted(op) + 1, len)
         r == [q EXCEPT !.end = After(q.end)]
     IN  /\ SetQueue(op, r)
         /\ IF active THEN UNCHANGED <<active, dev>>
            ELSE IF op = "send" THEN Launch(r, rx) ELSE Launch(tx, r)
  /\ CountPost(op)
  /\ UNCHANGED <<txDone, rxDone, modeVars, isr, call>>

(* Bug: one callback for each interrupt (TransfersComplete).               *)
CallbackReturnsOnly ==
  /\ isr.pc \in {"txcallback", "rxcallback"}
  /\ isr' = IsrOff
  /\ UNCHANGED <<txVars, rxVars, modeVars, active, dev, call>>

CallbackReturns ==
  /\ isr.pc \in {"txcallback", "rxcallback"}
  /\ isr' = IF isr.pc = "txcallback" THEN [isr EXCEPT !.pc = "rx"] ELSE IsrOff
  /\ UNCHANGED <<txVars, rxVars, modeVars, active, dev, call>>

IsrContinues == IsrTxDone \/ IsrRxDone \/ CallbackReturns

Next ==
  \/ DeviceDone
  \/ IsrRetire \/ IsrContinues
  \/ \E op \in {"send", "prepare"} : \E len \in Lengths[op] :
       StartPost(op, len) \/ CallbackPosts(op, len)
  \/ Post
  \/ Ioctl

(* The device ends what it begins, the processor executes.                 *)
Spec ==
  /\ Init /\ [][Next]_avalonVars
  /\ WF_avalonVars(DeviceDone) /\ WF_avalonVars(IsrRetire)
  /\ WF_avalonVars(IsrContinues) /\ WF_avalonVars(Post)

-----------------------------------------------------------------------------
(* Properties.                                                             *)

SlotType  == [id : Nat, len : Nat]
QueueType == [buf : [Slots -> SlotType], start : Slots, end : Slots]

(* Every variable has its type; the indices stay in the arrays.            *)
TypeOK ==
  /\ tx \in QueueType /\ rx \in QueueType
  /\ streamTx \in BOOLEAN /\ streamRx \in BOOLEAN
  /\ launch \in {"bidir", "txonly", "rxonly"}
  /\ active \in BOOLEAN
  /\ dev \in [busy : BOOLEAN, irq : BOOLEAN, from : Nat, to : Nat, len : Nat]
  /\ isr \in [pc : {"off", "tx", "txcallback", "rx", "rxcallback"},
              tx : Slots, rx : Slots]
  /\ call \in [op : {"none", "send", "prepare"}, slot : Slots, len : Nat,
               pc : {"idle", "fill", "publish", "check", "launch"}]
  /\ txPosted \in Nat /\ rxPosted \in Nat
  /\ txDone \in Seq(Nat) /\ rxDone \in Seq(Nat)

(* The transfer the device runs, or has just run, is the one at the heads  *)
(* of the queues and no longer than either of them, and the driver knows   *)
(* of it: what the handler retires is what was moved (lines 49-60,         *)
(* 464-490), whoever launched it.                                          *)
InFlightAtHead ==
  dev.busy \/ dev.irq =>
    /\ active /\ ~(dev.busy /\ dev.irq) /\ Work(tx, rx)
    /\ launch # "rxonly" => dev.from = First(tx).id /\ dev.len <= First(tx).len
    /\ launch # "txonly" => dev.to = First(rx).id /\ dev.len <= First(rx).len

(* Requests that can be served are being served, or the post that brought  *)
(* the last of them is still to look at active (lines 340, 433, 490): the  *)
(* program and the handler never both leave the launch to the other.       *)
NoStall == Work(tx, rx) => dev.busy \/ dev.irq \/ call.pc \in {"check", "launch"}

(* Every request is called back once, in the order of the posts, and the   *)
(* slot a callback takes its handle from is still its own: of the NSlots   *)
(* slots one is always free (lines 326-331, 417-422, 500-512).             *)
TxPipe == INSTANCE BytePipe WITH
            Capacity <- NSlots, accepted <- txPosted, delivered <- txDone
RxPipe == INSTANCE BytePipe WITH
            Capacity <- NSlots, accepted <- rxPosted, delivered <- rxDone

(* The sends.                                                              *)
TxImplementsPipe == TxPipe!PipeSpec

(* The receives.                                                           *)
RxImplementsPipe == RxPipe!PipeSpec

(* The driver comes to rest again and again, the posts being bounded, with *)
(* nothing left that can be launched and every request that the device has *)
(* moved called back (lines 461-512; dev.from and dev.to are the last of   *)
(* them).  Not so on a channel that is a stream: there the handler neither *)
(* retires nor calls back a request, also when the device was launched     *)
(* with it, as it is once the other stream was turned off (163-182).       *)
AtRest == ~Work(tx, rx) /\ ~dev.irq /\ isr.pc = "off" /\ call.pc = "idle"
TransfersComplete ==
  []<>(/\ AtRest
       /\ ~streamTx => Len(txDone) >= dev.from
       /\ ~streamRx => Len(rxDone) >= dev.to)

=============================================================================
