--------------------------- MODULE AvalonPipeProofs ---------------------------
(***************************************************************************)
(* Theorems about AvalonDma: each channel is a pipe of NSlots requests,    *)
(* for every number of slots and any lengths, if no callback posts to the  *)
(* channel that the program is just posting to.                            *)
(***************************************************************************)
EXTENDS AvalonDmaProofs

(* How far a slot is ahead of another, and how far behind the end it is:   *)
(* the slot last filled is 1 behind, the next to be filled NSlots.         *)
Ahead(a, b)  == IF b >= a THEN b - a ELSE b - a + NSlots
Behind(s, e) == IF e > s THEN e - s ELSE e - s + NSlots

(* Of p requests posted to q those in d were called back, h (0 or 1) is    *)
(* retired and its slot s still to be read, the others are in the queue;   *)
(* the slots hold the requests that were not called back.                  *)
QueueInv(q, p, d, h, s) ==
  /\ p - Len(d) = Ahead(q.start, q.end) + h
  /\ h = 1 => Behind(s, q.end) = p - Len(d)
  /\ \A t \in Slots :
       Behind(t, q.end) <= p - Len(d) => q.buf[t].id = p + 1 - Behind(t, q.end)

(* Whether the handler has a send, or a receive, still to call back.       *)
TxHeld == IF isr.pc = "tx" /\ ~streamTx THEN 1 ELSE 0
RxHeld == IF isr.pc \in {"tx", "txcallback", "rx"} /\ ~streamRx THEN 1 ELSE 0

TxQueueInv == QueueInv(tx, txPosted, txDone, TxHeld, isr.tx)
RxQueueInv == QueueInv(rx, rxPosted, rxDone, RxHeld, isr.rx)

(* The slot to be published is filled.                                     *)
FilledInv ==
  call.pc = "publish" => Queue(call.op).buf[call.slot].id = Posted(call.op) + 1

RequestInv == ControlInv /\ TxQueueInv /\ RxQueueInv /\ FilledInv

-----------------------------------------------------------------------------
(* One queue.                                                              *)

LEMMA BehindFacts ==
  /\ \A s \in Slots, e \in Slots :
       Behind(s, e) \in 1..NSlots /\ Ahead(s, e) \in 0..NSlots - 1
  /\ \A s \in Slots, e \in Slots : s # e => Behind(s, After(e)) = Behind(s, e) + 1
  /\ \A e \in Slots : Behind(e, After(e)) = 1 /\ Behind(e, e) = NSlots /\ Ahead(e, e) = 0
  /\ \A s \in Slots, e \in Slots : s # e =>
       Behind(s, e) = Ahead(s, e) /\ Ahead(After(s), e) = Ahead(s, e) - 1
  /\ \A s \in Slots, e \in Slots : After(e) # s =>
       Ahead(s, After(e)) = Ahead(s, e) + 1 /\ Ahead(s, e) <= NSlots - 2
BY SlotsExist, SMTT(30) DEF Behind, Ahead, After, Slots

(* Filling the free slot disturbs no request.                              *)
LEMMA FillKeeps ==
  ASSUME NEW q \in QueueType, NEW p \in Nat, NEW d \in Seq(Nat), NEW h \in {0, 1}, NEW s,
         QueueInv(q, p, d, h, s), ~Full(q),
         NEW id \in Nat, NEW len \in Nat, NEW r, r = Fill(q, q.end, id, len)
  PROVE  QueueInv(r, p, d, h, s) /\ r.buf[q.end].id = id
<1>1. q.start \in Slots /\ q.end \in Slots /\ Len(d) \in Nat
  BY DEF QueueType
<1>2. /\ r.start = q.start /\ r.end = q.end /\ r.buf[q.end].id = id
      /\ \A t \in Slots : t # q.end => r.buf[t] = q.buf[t]
  BY <1>1 DEF Fill, QueueType
<1>3. Behind(q.end, q.end) > p - Len(d)
  <2>1. p - Len(d) = Ahead(q.start, q.end) + h
    BY DEF QueueInv
  <2>2. Ahead(q.start, q.end) <= NSlots - 2 /\ Ahead(q.start, q.end) \in 0..NSlots - 1
    BY <1>1, BehindFacts DEF Full
  <2>3. Behind(q.end, q.end) = NSlots
    BY <1>1, BehindFacts
  <2> QED BY <2>1, <2>2, <2>3, SlotsExist
<1>4. ASSUME NEW t \in Slots, Behind(t, r.end) <= p - Len(d)
      PROVE  r.buf[t].id = p + 1 - Behind(t, r.end)
  <2>1. t # q.end
    BY <1>1, <1>2, <1>3, <1>4, BehindFacts, SlotsExist
  <2> QED BY <1>2, <1>4, <2>1 DEF QueueInv
<1> QED BY <1>2, <1>4 DEF QueueInv

(* Publishing it makes it the last request.                                *)
LEMMA PublishKeeps ==
  ASSUME NEW q \in QueueType, NEW p \in Nat, NEW d \in Seq(Nat), NEW h \in {0, 1},
         NEW s \in Slots, QueueInv(q, p, d, h, s), ~Full(q), q.buf[q.end].id = p + 1,
         NEW r, r = [q EXCEPT !.end = After(q.end)]
  PROVE  QueueInv(r, p + 1, d, h, s) /\ p - Len(d) + 1 <= NSlots
<1>1. q.start \in Slots /\ q.end \in Slots /\ Len(d) \in Nat
  BY DEF QueueType
<1>2. r.start = q.start /\ r.end = After(q.end) /\ r.buf = q.buf
  BY DEF QueueType
<1>3. /\ p - Len(d) = Ahead(q.start, q.end) + h
      /\ Ahead(q.start, q.end) <= NSlots - 2 /\ Ahead(q.start, q.end) \in 0..NSlots - 1
      /\ Ahead(q.start, After(q.end)) = Ahead(q.start, q.end) + 1
  BY <1>1, BehindFacts DEF QueueInv, Full
<1>4. (p + 1) - Len(d) = Ahead(r.start, r.end) + h /\ p - Len(d) + 1 <= NSlots
  BY <1>1, <1>2, <1>3, SlotsExist
<1>5. ASSUME h = 1 PROVE Behind(s, r.end) = (p + 1) - Len(d)
  <2>1. Behind(s, q.end) = p - Len(d)
    BY <1>5 DEF QueueInv
  <2>2. Behind(q.end, q.end) = NSlots
    BY <1>1, BehindFacts
  <2>3. s # q.end
    BY <1>1, <1>3, <2>1, <2>2, <1>5, SlotsExist
  <2>4. Behind(s, After(q.end)) = Behind(s, q.end) + 1
    BY <1>1, <2>3, BehindFacts
  <2> QED BY <1>1, <1>2, <2>1, <2>4
<1>6. ASSUME NEW t \in Slots, Behind(t, r.end) <= (p + 1) - Len(d)
      PROVE  r.buf[t].id = (p + 1) + 1 - Behind(t, r.end)
  <2>1. CASE t = q.end
    BY <1>1, <1>2, <2>1, BehindFacts
  <2>2. CASE t # q.end
    <3>1. Behind(t, r.end) = Behind(t, q.end) + 1 /\ Behind(t, q.end) \in 1..NSlots
      <4>1. Behind(t, After(q.end)) = Behind(t, q.end) + 1
        BY <1>1, <2>2, BehindFacts
      <4>2. Behind(t, q.end) \in 1..NSlots
        BY <1>1, BehindFacts
      <4> QED BY <1>2, <4>1, <4>2
    <3>2. Behind(t, q.end) <= p - Len(d)
      BY <1>1, <1>6, <3>1
    <3>3. q.buf[t].id = p + 1 - Behind(t, q.end)
      BY <3>2 DEF QueueInv
    <3> QED BY <1>2, <3>1, <3>3
  <2> QED BY <2>1, <2>2
<1> QED BY <1>4, <1>5, <1>6 DEF QueueInv

(* Retiring the head keeps its slot for the callback.                      *)
LEMMA RetireKeeps ==
  ASSUME NEW q \in QueueType, NEW p \in Nat, NEW d \in Seq(Nat), NEW s,
         QueueInv(q, p, d, 0, s), ~Empty(q),
         NEW r, r = [q EXCEPT !.start = After(q.start)]
  PROVE  QueueInv(r, p, d, 1, q.start)
<1>1. q.start \in Slots /\ q.end \in Slots /\ Len(d) \in Nat
  BY DEF QueueType
<1>2. r.start = After(q.start) /\ r.end = q.end /\ r.buf = q.buf
  BY DEF QueueType
<1>3. /\ p - Len(d) = Ahead(q.start, q.end) + 0
      /\ Ahead(q.start, q.end) \in 0..NSlots - 1
      /\ Behind(q.start, q.end) = Ahead(q.start, q.end)
      /\ Ahead(After(q.start), q.end) = Ahead(q.start, q.end) - 1
  BY <1>1, BehindFacts DEF QueueInv, Empty
<1> QED BY <1>1, <1>2, <1>3 DEF QueueInv

(* Calling it back takes the next request from it.                         *)
LEMMA DoneKeeps ==
  ASSUME NEW q \in QueueType, NEW p \in Nat, NEW d \in Seq(Nat), NEW s \in Slots,
         QueueInv(q, p, d, 1, s)
  PROVE  /\ q.buf[s].id = Len(d) + 1 /\ Len(d) + 1 <= p
         /\ QueueInv(q, p, Append(d, q.buf[s].id), 0, s)
<1>1. q.start \in Slots /\ q.end \in Slots /\ Len(d) \in Nat
  BY DEF QueueType
<1>2. /\ p - Len(d) = Ahead(q.start, q.end) + 1 /\ Behind(s, q.end) = p - Len(d)
      /\ Ahead(q.start, q.end) \in 0..NSlots - 1
      /\ q.buf[s].id = p + 1 - Behind(s, q.end)
  <2>1. p - Len(d) = Ahead(q.start, q.end) + 1 /\ Behind(s, q.end) = p - Len(d)
    BY DEF QueueInv
  <2>2. Ahead(q.start, q.end) \in 0..NSlots - 1
    BY <1>1, BehindFacts
  <2>3. p - Len(d) <= p - Len(d)
    BY <1>1
  <2>4. q.buf[s].id = p + 1 - Behind(s, q.end)
    BY <2>1, <2>3 DEF QueueInv
  <2> QED BY <2>1, <2>2, <2>4
<1>3. q.buf[s].id = Len(d) + 1 /\ Len(d) + 1 <= p
  BY <1>1, <1>2, SlotsExist
<1>4. Append(d, q.buf[s].id) \in Seq(Nat) /\ Len(Append(d, q.buf[s].id)) = Len(d) + 1
  BY <1>1, <1>3
<1>5. ASSUME NEW t \in Slots, Behind(t, q.end) <= p - (Len(d) + 1)
      PROVE  q.buf[t].id = p + 1 - Behind(t, q.end)
  <2>1. Behind(t, q.end) \in 1..NSlots
    BY <1>1, BehindFacts
  <2>2. Behind(t, q.end) <= p - Len(d)
    BY <1>1, <1>5, <2>1, SlotsExist
  <2> QED BY <2>2 DEF QueueInv
<1> QED BY <1>1, <1>2, <1>3, <1>4, <1>5, SlotsExist DEF QueueInv

(* Without a request to call back the slot held does not matter.           *)
LEMMA HeldFree ==
  ASSUME NEW q, NEW p, NEW d, NEW s, NEW s2, QueueInv(q, p, d, 0, s)
  PROVE  QueueInv(q, p, d, 0, s2)
BY DEF QueueInv

-----------------------------------------------------------------------------
(* The steps.  Each keeps the queues, and moves each pipe by one request   *)
(* or not at all.                                                          *)

TxPosts == txPosted' = txPosted + 1 /\ txDone' = txDone /\ txPosted - Len(txDone) + 1 <= NSlots
RxPosts == rxPosted' = rxPosted + 1 /\ rxDone' = rxDone /\ rxPosted - Len(rxDone) + 1 <= NSlots
TxCalls == txPosted' = txPosted /\ txDone' = Append(txDone, Len(txDone) + 1) /\ Len(txDone) + 1 <= txPosted
RxCalls == rxPosted' = rxPosted /\ rxDone' = Append(rxDone, Len(rxDone) + 1) /\ Len(rxDone) + 1 <= rxPosted

TxStep == UNCHANGED <<txPosted, txDone>> \/ TxPosts \/ TxCalls
RxStep == UNCHANGED <<rxPosted, rxDone>> \/ RxPosts \/ RxCalls

LEMMA Types ==
  ASSUME RequestInv
  PROVE  /\ tx \in QueueType /\ rx \in QueueType /\ isr.tx \in Slots /\ isr.rx \in Slots
         /\ txPosted \in Nat /\ rxPosted \in Nat /\ txDone \in Seq(Nat) /\ rxDone \in Seq(Nat)
         /\ TxHeld \in {0, 1} /\ RxHeld \in {0, 1}
         /\ call.op \in {"none", "send", "prepare"}
         /\ isr \in [pc : {"off", "tx", "txcallback", "rx", "rxcallback"}, tx : Slots, rx : Slots]
<1>1. TypeOK
  BY DEF RequestInv, ControlInv
<1> QED BY <1>1 DEF TypeOK, TxHeld, RxHeld

(* A channel that a step leaves alone.                                     *)
LEMMA TxSame ==
  ASSUME RequestInv, UNCHANGED txVars, TxHeld' = TxHeld,
         TxHeld = 1 => isr'.tx = isr.tx
  PROVE  TxQueueInv' /\ TxStep
<1>1. QueueInv(tx, txPosted, txDone, TxHeld, isr'.tx)
  BY Types, HeldFree DEF RequestInv, TxQueueInv
<1> QED BY <1>1 DEF TxQueueInv, TxStep, txVars

LEMMA RxSame ==
  ASSUME RequestInv, UNCHANGED rxVars, RxHeld' = RxHeld,
         RxHeld = 1 => isr'.rx = isr.rx
  PROVE  RxQueueInv' /\ RxStep
<1>1. QueueInv(rx, rxPosted, rxDone, RxHeld, isr'.rx)
  BY Types, HeldFree DEF RequestInv, RxQueueInv
<1> QED BY <1>1 DEF RxQueueInv, RxStep, rxVars

LEMMA QuietStep ==
  ASSUME RequestInv, UNCHANGED <<txVars, rxVars>>,
         TxHeld' = TxHeld, RxHeld' = RxHeld,
         TxHeld = 1 => isr'.tx = isr.tx, RxHeld = 1 => isr'.rx = isr.rx,
         call'.pc = "publish" => call' = call
  PROVE  TxQueueInv' /\ RxQueueInv' /\ FilledInv' /\ TxStep /\ RxStep
<1>1. FilledInv'
  BY DEF RequestInv, FilledInv, txVars, rxVars, Queue, Posted
<1> QED BY <1>1, TxSame, RxSame

LEMMA QuietSteps ==
  ASSUME RequestInv,
         \/ DeviceDone \/ CheckActive \/ PostLaunch \/ Ioctl \/ CallbackReturns
         \/ UNCHANGED avalonVars
         \/ \E op \in {"send", "prepare"} : \E len \in Lengths[op] : StartPost(op, len)
  PROVE  TxQueueInv' /\ RxQueueInv' /\ FilledInv' /\ TxStep /\ RxStep
<1>1. CASE DeviceDone
  BY <1>1, QuietStep DEF DeviceDone, modeVars, TxHeld, RxHeld
<1>2. CASE CheckActive
  <2>1. call'.pc # "publish"
    BY <1>2 DEF CheckActive, At, Goto, IdleCall, RequestInv, ControlInv, TypeOK
  <2> QED BY <1>2, <2>1, QuietStep DEF CheckActive, modeVars, TxHeld, RxHeld
<1>3. CASE PostLaunch
  <2>1. call'.pc # "publish"
    BY <1>3 DEF PostLaunch, IdleCall
  <2> QED BY <1>3, <2>1, QuietStep DEF PostLaunch, modeVars, TxHeld, RxHeld
<1>4. CASE Ioctl
  <2>1. UNCHANGED <<txVars, rxVars, isr, call>> /\ isr.pc = "off"
    BY <1>4 DEF Ioctl, TxStreamOn, TxStreamOff, RxStreamOn, RxStreamOff, IoctlAllowed, At
  <2>2. TxHeld = 0 /\ TxHeld' = 0 /\ RxHeld = 0 /\ RxHeld' = 0
    BY <2>1 DEF TxHeld, RxHeld
  <2> QED BY <2>1, <2>2, QuietStep
<1>5. CASE CallbackReturns
  <2>1. /\ UNCHANGED <<txVars, rxVars, modeVars, call>>
        /\ \/ isr.pc = "txcallback" /\ isr' = [isr EXCEPT !.pc = "rx"]
           \/ isr.pc = "rxcallback" /\ isr' = IsrOff
    BY <1>5 DEF CallbackReturns
  <2>2. /\ TxHeld' = TxHeld /\ RxHeld' = RxHeld
        /\ TxHeld = 0 /\ (RxHeld = 1 => isr'.rx = isr.rx)
    BY <2>1, Types DEF TxHeld, RxHeld, IsrOff, modeVars
  <2> QED BY <2>1, <2>2, QuietStep
<1>6. CASE UNCHANGED avalonVars
  BY <1>6, QuietStep DEF avalonVars, modeVars, TxHeld, RxHeld
<1>7. CASE \E op \in {"send", "prepare"} : \E len \in Lengths[op] : StartPost(op, len)
  <2>1. call'.pc # "publish" /\ UNCHANGED <<txVars, rxVars, modeVars, isr>>
    BY <1>7 DEF StartPost
  <2> QED BY <2>1, QuietStep DEF modeVars, TxHeld, RxHeld
<1> QED BY <1>1, <1>2, <1>3, <1>4, <1>5, <1>6, <1>7

(* A post fills the slot, then publishes it.                               *)
LEMMA FillStep ==
  ASSUME RequestInv, FillSlot
  PROVE  TxQueueInv' /\ RxQueueInv' /\ FilledInv' /\ TxStep /\ RxStep
<1>1. /\ UNCHANGED <<txPosted, rxPosted, txDone, rxDone, modeVars, isr>>
      /\ call.pc = "fill" /\ call' = [call EXCEPT !.pc = "publish"]
      /\ SetQueue(call.op, Fill(Queue(call.op), call.slot, Posted(call.op) + 1, call.len))
  BY DEF FillSlot, At, Goto
<1>2. /\ call.op \in {"send", "prepare"} /\ call.len \in Nat
      /\ call.slot = Queue(call.op).end /\ ~Full(Queue(call.op))
      /\ call'.op = call.op /\ call'.slot = call.slot
  BY <1>1 DEF RequestInv, ControlInv, LaunchInv, PostInv, TypeOK
<1>3. TxStep /\ RxStep /\ TxHeld' = TxHeld /\ RxHeld' = RxHeld
  BY <1>1 DEF TxStep, RxStep, TxHeld, RxHeld, modeVars
<1>4. CASE call.op = "send"
  <2>1. /\ tx' = Fill(tx, tx.end, txPosted + 1, call.len) /\ rx' = rx
        /\ call.slot = tx.end /\ ~Full(tx)
    BY <1>1, <1>2, <1>4 DEF SetQueue, Queue, Posted
  <2>2. QueueInv(tx, txPosted, txDone, TxHeld, isr.tx) /\ txPosted + 1 \in Nat
    BY Types DEF RequestInv, TxQueueInv
  <2>3. /\ QueueInv(tx', txPosted, txDone, TxHeld, isr.tx)
        /\ tx'.buf[tx.end].id = txPosted + 1
    BY <1>2, <2>1, <2>2, Types, FillKeeps
  <2>4. TxQueueInv'
    BY <1>1, <1>3, <2>3 DEF TxQueueInv
  <2>5. FilledInv'
    BY <1>1, <1>2, <1>4, <2>1, <2>3 DEF FilledInv, Queue, Posted
  <2>6. RxQueueInv'
    BY <1>1, <1>3, <2>1, RxSame DEF rxVars
  <2> QED BY <1>3, <2>4, <2>5, <2>6
<1>5. CASE call.op = "prepare"
  <2>1. /\ rx' = Fill(rx, rx.end, rxPosted + 1, call.len) /\ tx' = tx
        /\ call.slot = rx.end /\ ~Full(rx)
    BY <1>1, <1>2, <1>5 DEF SetQueue, Queue, Posted
  <2>2. QueueInv(rx, rxPosted, rxDone, RxHeld, isr.rx) /\ rxPosted + 1 \in Nat
    BY Types DEF RequestInv, RxQueueInv
  <2>3. /\ QueueInv(rx', rxPosted, rxDone, RxHeld, isr.rx)
        /\ rx'.buf[rx.end].id = rxPosted + 1
    BY <1>2, <2>1, <2>2, Types, FillKeeps
  <2>4. RxQueueInv'
    BY <1>1, <1>3, <2>3 DEF RxQueueInv
  <2>5. FilledInv'
    BY <1>1, <1>2, <1>5, <2>1, <2>3 DEF FilledInv, Queue, Posted
  <2>6. TxQueueInv'
    BY <1>1, <1>3, <2>1, TxSame DEF txVars
  <2> QED BY <1>3, <2>4, <2>5, <2>6
<1> QED BY <1>2, <1>4, <1>5

LEMMA PublishStep ==
  ASSUME RequestInv, Publish
  PROVE  TxQueueInv' /\ RxQueueInv' /\ FilledInv' /\ TxStep /\ RxStep
<1>1. /\ UNCHANGED <<txDone, rxDone, modeVars, isr>>
      /\ call.pc = "publish" /\ call' = [call EXCEPT !.pc = "check"]
      /\ SetQueue(call.op, [Queue(call.op) EXCEPT !.end = After(call.slot)])
      /\ CountPost(call.op)
  BY DEF Publish, At, Goto
<1>2. /\ call.op \in {"send", "prepare"}
      /\ call.slot = Queue(call.op).end /\ ~Full(Queue(call.op))
      /\ Queue(call.op).buf[call.slot].id = Posted(call.op) + 1
      /\ call'.pc # "publish"
  BY <1>1 DEF RequestInv, ControlInv, LaunchInv, PostInv, TypeOK, FilledInv
<1>3. FilledInv' /\ TxHeld' = TxHeld /\ RxHeld' = RxHeld
  BY <1>1, <1>2 DEF FilledInv, TxHeld, RxHeld, modeVars
<1>4. CASE call.op = "send"
  <2>1. /\ tx' = [tx EXCEPT !.end = After(tx.end)] /\ rx' = rx
        /\ txPosted' = txPosted + 1 /\ rxPosted' = rxPosted
        /\ tx.buf[tx.end].id = txPosted + 1 /\ ~Full(tx)
    BY <1>1, <1>2, <1>4 DEF SetQueue, CountPost, Queue, Posted
  <2>2. QueueInv(tx, txPosted, txDone, TxHeld, isr.tx)
    BY DEF RequestInv, TxQueueInv
  <2>3. /\ QueueInv(tx', txPosted + 1, txDone, TxHeld, isr.tx)
        /\ txPosted - Len(txDone) + 1 <= NSlots
    BY <2>1, <2>2, Types, PublishKeeps
  <2>4. TxQueueInv' /\ TxStep
    BY <1>1, <1>3, <2>1, <2>3 DEF TxQueueInv, TxStep, TxPosts
  <2>5. RxQueueInv' /\ RxStep
    BY <1>1, <1>3, <2>1, RxSame DEF rxVars
  <2> QED BY <1>3, <2>4, <2>5
<1>5. CASE call.op = "prepare"
  <2>1. /\ rx' = [rx EXCEPT !.end = After(rx.end)] /\ tx' = tx
        /\ rxPosted' = rxPosted + 1 /\ txPosted' = txPosted
        /\ rx.buf[rx.end].id = rxPosted + 1 /\ ~Full(rx)
    BY <1>1, <1>2, <1>5 DEF SetQueue, CountPost, Queue, Posted
  <2>2. QueueInv(rx, rxPosted, rxDone, RxHeld, isr.rx)
    BY DEF RequestInv, RxQueueInv
  <2>3. /\ QueueInv(rx', rxPosted + 1, rxDone, RxHeld, isr.rx)
        /\ rxPosted - Len(rxDone) + 1 <= NSlots
    BY <2>1, <2>2, Types, PublishKeeps
  <2>4. RxQueueInv' /\ RxStep
    BY <1>1, <1>3, <2>1, <2>3 DEF RxQueueInv, RxStep, RxPosts
  <2>5. TxQueueInv' /\ TxStep
    BY <1>1, <1>3, <2>1, TxSame DEF txVars
  <2> QED BY <1>3, <2>4, <2>5
<1> QED BY <1>2, <1>4, <1>5

(* A callback does both at once.                                           *)
LEMMA FillAndPublishKeep ==
  ASSUME NEW q \in QueueType, NEW p \in Nat, NEW d \in Seq(Nat), NEW h \in {0, 1},
         NEW s \in Slots, QueueInv(q, p, d, h, s), ~Full(q), NEW len \in Nat,
         NEW f, f = Fill(q, q.end, p + 1, len), NEW r, r = [f EXCEPT !.end = After(f.end)]
  PROVE  QueueInv(r, p + 1, d, h, s) /\ p - Len(d) + 1 <= NSlots
<1>1. p + 1 \in Nat
  OBVIOUS
<1>2. QueueInv(f, p, d, h, s) /\ f.buf[q.end].id = p + 1
  BY <1>1, FillKeeps
<1>3. f \in QueueType /\ f.start = q.start /\ f.end = q.end
  BY <1>1 DEF Fill, QueueType, SlotType
<1>4. ~Full(f) /\ f.buf[f.end].id = p + 1
  BY <1>2, <1>3 DEF Full
<1> QED BY <1>2, <1>3, <1>4, PublishKeeps

LEMMA CallbackStep ==
  ASSUME RequestInv, ~Reentrant,
         NEW op \in {"send", "prepare"}, NEW len \in Lengths[op], CallbackPosts(op, len)
  PROVE  TxQueueInv' /\ RxQueueInv' /\ FilledInv' /\ TxStep /\ RxStep
<1> PICK f : f = Fill(Queue(op), Queue(op).end, Posted(op) + 1, len)
  OBVIOUS
<1> PICK r : r = [f EXCEPT !.end = After(f.end)]
  OBVIOUS
<1>1. /\ UNCHANGED <<txDone, rxDone, modeVars, isr, call>>
      /\ call.op # op /\ ~Full(Queue(op))
      /\ SetQueue(op, r) /\ CountPost(op)
  BY DEF CallbackPosts
<1>2. len \in Nat
  BY AvalonDmaAssumption
<1>3. TxHeld' = TxHeld /\ RxHeld' = RxHeld
  BY <1>1 DEF TxHeld, RxHeld, modeVars
<1>4. call.pc = "publish" => call.op \in {"send", "prepare"}
  BY DEF RequestInv, ControlInv, LaunchInv, PostInv, TypeOK
<1>5. CASE op = "send"
  <2>1. /\ tx' = r /\ rx' = rx /\ txPosted' = txPosted + 1 /\ rxPosted' = rxPosted
        /\ ~Full(tx) /\ f = Fill(tx, tx.end, txPosted + 1, len)
    BY <1>1, <1>5 DEF SetQueue, CountPost, Queue, Posted
  <2>2. QueueInv(tx, txPosted, txDone, TxHeld, isr.tx)
    BY DEF RequestInv, TxQueueInv
  <2>3. /\ QueueInv(tx', txPosted + 1, txDone, TxHeld, isr.tx)
        /\ txPosted - Len(txDone) + 1 <= NSlots
    BY <1>2, <2>1, <2>2, Types, FillAndPublishKeep
  <2>4. TxQueueInv' /\ TxStep
    BY <1>1, <1>3, <2>1, <2>3 DEF TxQueueInv, TxStep, TxPosts
  <2>5. RxQueueInv' /\ RxStep
    BY <1>1, <1>3, <2>1, RxSame DEF rxVars
  <2>6. FilledInv'
    BY <1>1, <1>4, <1>5, <2>1 DEF RequestInv, FilledInv, Queue, Posted
  <2> QED BY <2>4, <2>5, <2>6
<1>6. CASE op = "prepare"
  <2>1. /\ rx' = r /\ tx' = tx /\ rxPosted' = rxPosted + 1 /\ txPosted' = txPosted
        /\ ~Full(rx) /\ f = Fill(rx, rx.end, rxPosted + 1, len)
    BY <1>1, <1>6 DEF SetQueue, CountPost, Queue, Posted
  <2>2. QueueInv(rx, rxPosted, rxDone, RxHeld, isr.rx)
    BY DEF RequestInv, RxQueueInv
  <2>3. /\ QueueInv(rx', rxPosted + 1, rxDone, RxHeld, isr.rx)
        /\ rxPosted - Len(rxDone) + 1 <= NSlots
    BY <1>2, <2>1, <2>2, Types, FillAndPublishKeep
  <2>4. RxQueueInv' /\ RxStep
    BY <1>1, <1>3, <2>1, <2>3 DEF RxQueueInv, RxStep, RxPosts
  <2>5. TxQueueInv' /\ TxStep
    BY <1>1, <1>3, <2>1, TxSame DEF txVars
  <2>6. FilledInv'
    BY <1>1, <1>4, <1>6, <2>1 DEF RequestInv, FilledInv, Queue, Posted
  <2> QED BY <2>4, <2>5, <2>6
<1> QED BY <1>5, <1>6

(* The handler retires the heads, which a transfer has, and calls back.    *)
LEMMA RetireStep ==
  ASSUME RequestInv, IsrRetire
  PROVE  TxQueueInv' /\ RxQueueInv' /\ FilledInv' /\ TxStep /\ RxStep
<1>1. /\ isr.pc = "off" /\ dev.irq
      /\ UNCHANGED <<txPosted, rxPosted, txDone, rxDone, modeVars, call>>
      /\ tx' = Popped(tx, streamTx) /\ rx' = Popped(rx, streamRx)
      /\ isr' = [pc |-> "tx", tx |-> tx.start, rx |-> rx.start]
  BY DEF IsrRetire
<1>2. /\ TxHeld = 0 /\ TxHeld' = IF streamTx THEN 0 ELSE 1
      /\ RxHeld = 0 /\ RxHeld' = IF streamRx THEN 0 ELSE 1
      /\ isr'.tx = tx.start /\ isr'.rx = rx.start
      /\ streamTx \in BOOLEAN /\ streamRx \in BOOLEAN
  BY <1>1 DEF TxHeld, RxHeld, modeVars, RequestInv, ControlInv, TypeOK
<1>3. (~streamTx => ~Empty(tx)) /\ (~streamRx => ~Empty(rx))
  BY <1>1 DEF RequestInv, ControlInv, TypeOK, InFlightAtHead, ModeInv, Work
<1>4. tx'.buf = tx.buf /\ rx'.buf = rx.buf
  BY <1>1, Types DEF Popped, QueueType
<1>5. FilledInv'
  BY <1>1, <1>4 DEF RequestInv, FilledInv, Queue, Posted
<1>6. TxStep /\ RxStep
  BY <1>1 DEF TxStep, RxStep
<1>7. TxQueueInv'
  <2>1. QueueInv(tx, txPosted, txDone, 0, isr.tx)
    BY <1>2 DEF RequestInv, TxQueueInv
  <2>2. CASE streamTx
    <3>1. QueueInv(tx, txPosted, txDone, 0, tx.start) /\ tx' = tx
      BY <1>1, <2>1, <2>2, HeldFree DEF Popped
    <3> QED BY <1>1, <1>2, <2>2, <3>1 DEF TxQueueInv
  <2>3. CASE ~streamTx
    <3>1. QueueInv(tx', txPosted, txDone, 1, tx.start)
      BY <1>1, <1>3, <2>1, <2>3, Types, RetireKeeps DEF Popped
    <3> QED BY <1>1, <1>2, <2>3, <3>1 DEF TxQueueInv
  <2> QED BY <2>2, <2>3
<1>8. RxQueueInv'
  <2>1. QueueInv(rx, rxPosted, rxDone, 0, isr.rx)
    BY <1>2 DEF RequestInv, RxQueueInv
  <2>2. CASE streamRx
    <3>1. QueueInv(rx, rxPosted, rxDone, 0, rx.start) /\ rx' = rx
      BY <1>1, <2>1, <2>2, HeldFree DEF Popped
    <3> QED BY <1>1, <1>2, <2>2, <3>1 DEF RxQueueInv
  <2>3. CASE ~streamRx
    <3>1. QueueInv(rx', rxPosted, rxDone, 1, rx.start)
      BY <1>1, <1>3, <2>1, <2>3, Types, RetireKeeps DEF Popped
    <3> QED BY <1>1, <1>2, <2>3, <3>1 DEF RxQueueInv
  <2> QED BY <2>2, <2>3
<1> QED BY <1>5, <1>6, <1>7, <1>8

LEMMA TxDoneStep ==
  ASSUME RequestInv, IsrTxDone
  PROVE  TxQueueInv' /\ RxQueueInv' /\ FilledInv' /\ TxStep /\ RxStep
<1>1. /\ isr.pc = "tx" /\ UNCHANGED <<tx, txPosted, rxVars, modeVars, call>>
      /\ txDone' = IF streamTx THEN txDone ELSE Append(txDone, tx.buf[isr.tx].id)
      /\ isr' = [isr EXCEPT !.pc = IF streamTx THEN "rx" ELSE "txcallback"]
  BY DEF IsrTxDone
<1>2. /\ isr'.tx = isr.tx /\ isr'.rx = isr.rx /\ TxHeld' = 0 /\ RxHeld' = RxHeld
      /\ TxHeld = IF streamTx THEN 0 ELSE 1
  BY <1>1, Types DEF TxHeld, RxHeld, modeVars
<1>3. FilledInv'
  BY <1>1 DEF RequestInv, FilledInv, Queue, Posted, rxVars
<1>4. RxQueueInv' /\ RxStep
  BY <1>1, <1>2, RxSame
<1>5. CASE streamTx
  BY <1>1, <1>2, <1>3, <1>4, <1>5, TxSame DEF txVars
<1>6. CASE ~streamTx
  <2>1. QueueInv(tx, txPosted, txDone, 1, isr.tx)
    BY <1>2, <1>6 DEF RequestInv, TxQueueInv
  <2>2. /\ tx.buf[isr.tx].id = Len(txDone) + 1 /\ Len(txDone) + 1 <= txPosted
        /\ QueueInv(tx, txPosted, Append(txDone, tx.buf[isr.tx].id), 0, isr.tx)
    BY <2>1, Types, DoneKeeps
  <2>3. TxQueueInv' /\ TxStep
    BY <1>1, <1>2, <1>6, <2>2 DEF TxQueueInv, TxStep, TxCalls
  <2> QED BY <1>3, <1>4, <2>3
<1> QED BY <1>5, <1>6

LEMMA RxDoneStep ==
  ASSUME RequestInv, IsrRxDone
  PROVE  TxQueueInv' /\ RxQueueInv' /\ FilledInv' /\ TxStep /\ RxStep
<1>1. /\ isr.pc = "rx" /\ UNCHANGED <<rx, rxPosted, txVars, modeVars, call>>
      /\ rxDone' = IF streamRx THEN rxDone ELSE Append(rxDone, rx.buf[isr.rx].id)
      /\ isr' = IF streamRx THEN IsrOff ELSE [isr EXCEPT !.pc = "rxcallback"]
  BY DEF IsrRxDone
<1>2. /\ TxHeld = 0 /\ TxHeld' = 0 /\ RxHeld' = 0
      /\ RxHeld = IF streamRx THEN 0 ELSE 1
      /\ ~streamRx => isr'.rx = isr.rx
  BY <1>1, Types DEF TxHeld, RxHeld, modeVars, IsrOff
<1>3. FilledInv'
  BY <1>1 DEF RequestInv, FilledInv, Queue, Posted, txVars
<1>4. TxQueueInv' /\ TxStep
  BY <1>1, <1>2, TxSame
<1>5. CASE streamRx
  BY <1>1, <1>2, <1>3, <1>4, <1>5, RxSame DEF rxVars
<1>6. CASE ~streamRx
  <2>1. QueueInv(rx, rxPosted, rxDone, 1, isr.rx)
    BY <1>2, <1>6 DEF RequestInv, RxQueueInv
  <2>2. /\ rx.buf[isr.rx].id = Len(rxDone) + 1 /\ Len(rxDone) + 1 <= rxPosted
        /\ QueueInv(rx, rxPosted, Append(rxDone, rx.buf[isr.rx].id), 0, isr.rx)
    BY <2>1, Types, DoneKeeps
  <2>3. RxQueueInv' /\ RxStep
    BY <1>1, <1>2, <1>6, <2>2 DEF RxQueueInv, RxStep, RxCalls
  <2> QED BY <1>3, <1>4, <2>3
<1> QED BY <1>5, <1>6

LEMMA NextSteps ==
  ASSUME RequestInv, ~Reentrant, [Next]_avalonVars
  PROVE  TxQueueInv' /\ RxQueueInv' /\ FilledInv' /\ TxStep /\ RxStep
BY QuietSteps, FillStep, PublishStep, CallbackStep, RetireStep, TxDoneStep, RxDoneStep
   DEF Next, Post, IsrContinues

-----------------------------------------------------------------------------
(* The refinement.                                                         *)

LEMMA InitRequests == Init => RequestInv
<1> SUFFICES ASSUME Init PROVE RequestInv
  OBVIOUS
<1>1. 0 \in Slots /\ Ahead(0, 0) = 0 /\ \A t \in Slots : Behind(t, 0) >= 1
  BY SlotsExist, BehindFacts DEF Slots
<1>2. /\ txPosted = 0 /\ rxPosted = 0 /\ Len(txDone) = 0 /\ Len(rxDone) = 0
      /\ tx.start = 0 /\ tx.end = 0 /\ rx.start = 0 /\ rx.end = 0
      /\ TxHeld = 0 /\ RxHeld = 0 /\ call.pc = "idle"
  BY DEF Init, TxHeld, RxHeld, IsrOff, IdleCall
<1>3. \A t \in Slots : Behind(t, 0) \in 1..NSlots
  BY <1>1, BehindFacts
<1>4. TxQueueInv /\ RxQueueInv
  BY <1>1, <1>2, <1>3, SlotsExist DEF TxQueueInv, RxQueueInv, QueueInv
<1> QED BY <1>2, <1>4, InitControl DEF RequestInv, FilledInv

LEMMA RequestsInvariant == ASSUME ~Reentrant PROVE Spec => []RequestInv
<1>1. RequestInv /\ [Next]_avalonVars => RequestInv'
  BY NextSteps, NextControl DEF RequestInv
<1> QED BY <1>1, InitRequests, PTL DEF Spec

LEMMA AppendIsConcat ==
  ASSUME NEW q \in Seq(Nat)
  PROVE  Append(q, Len(q) + 1) = q \o [i \in 1..1 |-> Len(q) + i]
<1>1. Append(q, Len(q) + 1) \in Seq(Nat) /\ [i \in 1..1 |-> Len(q) + i] \in Seq(Nat)
  OBVIOUS
<1>2. Append(q, Len(q) + 1) = q \o <<Len(q) + 1>>
  OBVIOUS
<1>3. <<Len(q) + 1>> = [i \in 1..1 |-> Len(q) + i]
  OBVIOUS
<1> QED BY <1>2, <1>3

LEMMA NextPipes ==
  ASSUME RequestInv, ~Reentrant, [Next]_avalonVars
  PROVE  /\ [TxPipe!PipeNext]_(TxPipe!pipeVars)
         /\ [RxPipe!PipeNext]_(RxPipe!pipeVars)
<1>1. TxStep /\ RxStep
  BY NextSteps
<1>2. 1 \in 1..NSlots
  BY SlotsExist
<1>3. Len(txDone) \in Nat /\ Len(rxDone) \in Nat /\ txPosted \in Nat /\ rxPosted \in Nat
  BY Types
<1>4. TxPosts => TxPipe!Accept(1)
  BY DEF TxPosts, TxPipe!Accept, TxPipe!Inside
<1>5. TxCalls => TxPipe!Deliver(1)
  <2>1. TxCalls => txDone' = txDone \o [i \in 1..1 |-> Len(txDone) + i]
    BY Types, AppendIsConcat DEF TxCalls
  <2> QED BY <1>3, <2>1 DEF TxCalls, TxPipe!Deliver, TxPipe!Inside
<1>6. RxPosts => RxPipe!Accept(1)
  BY DEF RxPosts, RxPipe!Accept, RxPipe!Inside
<1>7. RxCalls => RxPipe!Deliver(1)
  <2>1. RxCalls => rxDone' = rxDone \o [i \in 1..1 |-> Len(rxDone) + i]
    BY Types, AppendIsConcat DEF RxCalls
  <2> QED BY <1>3, <2>1 DEF RxCalls, RxPipe!Deliver, RxPipe!Inside
<1> QED BY <1>1, <1>2, <1>4, <1>5, <1>6, <1>7
      DEF TxStep, RxStep, TxPipe!PipeNext, RxPipe!PipeNext, TxPipe!pipeVars, RxPipe!pipeVars

(* Every send is called back once and in the order of the posts, and the   *)
(* slot the callback reads is still its own (altera_avalon_dma.c:417-422,  *)
(* 464-472, 500-505).                                                      *)
THEOREM SendsArePiped == ASSUME ~Reentrant PROVE Spec => TxImplementsPipe
<1>1. Init => TxPipe!PipeInit
  BY DEF Init, TxPipe!PipeInit
<1>2. RequestInv /\ [Next]_avalonVars => [TxPipe!PipeNext]_(TxPipe!pipeVars)
  BY NextPipes
<1> QED BY <1>1, <1>2, RequestsInvariant, PTL DEF Spec, TxImplementsPipe, TxPipe!PipeSpec

(* The same of the receives (altera_avalon_dma.c:326-331, 474-482,         *)
(* 507-512).                                                               *)
THEOREM ReceivesArePiped == ASSUME ~Reentrant PROVE Spec => RxImplementsPipe
<1>1. Init => RxPipe!PipeInit
  BY DEF Init, RxPipe!PipeInit
<1>2. RequestInv /\ [Next]_avalonVars => [RxPipe!PipeNext]_(RxPipe!pipeVars)
  BY NextPipes
<1> QED BY <1>1, <1>2, RequestsInvariant, PTL DEF Spec, RxImplementsPipe, RxPipe!PipeSpec

=============================================================================
