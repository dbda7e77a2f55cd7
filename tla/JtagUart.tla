------------------------------ MODULE JtagUart -------------------------------
(***************************************************************************)
(* The JTAG UART and its "fast" HAL driver, as built here: no operating    *)
(* system, so the semaphores and event flags are empty macros.  The        *)
(* program calls write, read, close and ioctl one at a time; the interrupt *)
(* handler and, once a second, the timeout alarm run between any two of    *)
(* its steps; the host drains and fills the device's FIFOs at any moment,  *)
(* between any two steps of the handler too.                               *)
(*                                                                         *)
(* A byte is its position in its stream: the driver never looks at one.    *)
(* The program may be interrupted at every access of a field the handler   *)
(* writes, which is where its steps are cut; the two critical sections     *)
(* (alt_irq_disable_all ... alt_irq_enable_all) are one step each.         *)
(***************************************************************************)
EXTENDS Integers, Sequences

CONSTANTS
  BufLen,          \* ALTERA_AVALON_JTAG_UART_BUF_LEN
  FifoDepth,       \* JTAG_UART_WRITE_DEPTH, JTAG_UART_READ_DEPTH
  WriteThreshold,  \* JTAG_UART_WRITE_THRESHOLD
  HostCap,         \* INT_MAX - 2, where host_inactive stops counting
  DefaultTimeout,  \* ALTERA_AVALON_JTAG_UART_DEFAULT_TIMEOUT
  Timeouts,        \* the timeouts ioctl(TIOCSTIMEOUT) may leave
  MaxCount,        \* bound: the longest write or read
  MaxWritten,      \* bound: bytes the program writes
  MaxTyped         \* bound: bytes the host sends

ASSUME JtagAssumption ==
  /\ BufLen \in Nat /\ BufLen > 1
  /\ FifoDepth \in Nat /\ WriteThreshold \in Nat /\ WriteThreshold < FifoDepth
  /\ HostCap \in Nat /\ HostCap > 0
  /\ DefaultTimeout \in Nat \ {0}
  /\ Timeouts \subseteq Nat \ {0}
  /\ MaxCount \in Nat /\ MaxWritten \in Nat /\ MaxTyped \in Nat

VARIABLES
  irqEnable,     \* sp->irq_enable, the same as the control register's bits
  hostInactive,  \* sp->host_inactive
  timeout,       \* sp->timeout
  txBuf, txIn, txOut,
  rxBuf, rxIn, rxOut,
  wfill,         \* device: characters in the write FIFO
  rfill,         \* device: characters in the read FIFO
  ac,            \* device: the control register's AC bit, host activity
  isr,           \* altera_avalon_jtag_uart_irq: where it is and its locals
  call,          \* the program's call: where it is and its locals
  txPut,         \* history: bytes put in the transmit ring
  sent,          \* history: bytes the device took from the driver
  rxTaken,       \* history: bytes taken from the device
  received       \* history: bytes given to the program

txVars   == <<txBuf, txIn, txOut, txPut, sent, wfill>>
rxVars   == <<rxBuf, rxIn, rxOut, rxTaken, received, rfill>>
hostVars == <<hostInactive, timeout, ac>>
jtagVars == <<irqEnable, hostVars, txVars, rxVars, isr, call>>

RE == "RE"  \* read interrupt enable
WE == "WE"  \* write interrupt enable

(* i % BufLen for the operands that occur, which are below 2 * BufLen.     *)
Wrap(i) == IF i < BufLen THEN i ELSE i - BufLen

Least(a, b) == IF a < b THEN a ELSE b

(* How many slots of the ring hold bytes, for given indices.               *)
Held(in, out) == IF in >= out THEN in - out ELSE in + BufLen - out

IdleCall == [pc |-> "idle", count |-> 0, done |-> FALSE, nonblock |-> FALSE,
             in |-> 0, out |-> 0, n |-> 0]
IsrOff == [pc |-> "off", data |-> FALSE, wi |-> FALSE, space |-> 0]

(* After altera_avalon_jtag_uart_init.                                     *)
Init ==
  /\ irqEnable = {RE}
  /\ hostInactive = 0
  /\ timeout = DefaultTimeout
  /\ txBuf = [i \in 0..BufLen - 1 |-> 0] /\ txIn = 0 /\ txOut = 0
  /\ rxBuf = [i \in 0..BufLen - 1 |-> 0] /\ rxIn = 0 /\ rxOut = 0
  /\ wfill = 0 /\ rfill = 0 /\ ac = FALSE
  /\ isr = IsrOff
  /\ call = IdleCall
  /\ txPut = 0 /\ sent = <<>>
  /\ rxTaken = 0 /\ received = <<>>

-----------------------------------------------------------------------------
(* The device.                                                             *)

(* The control register's RI and WI bits, which are its interrupt.         *)
(* RI is raised here as soon as there is a character to read; the core     *)
(* waits for its FIFO to be nearly full or for the host to pause           *)
(* (systemFile_jtag_uart.v:437-451, 485).                                  *)
ReadInterrupt  == RE \in irqEnable /\ rfill > 0
WriteInterrupt == WE \in irqEnable /\ wfill <= WriteThreshold

(* The host visits the device: it takes a character if there is one, may   *)
(* leave one, and the device notes its activity.                           *)
HostPoll ==
  /\ wfill' = IF wfill > 0 THEN wfill - 1 ELSE 0
  /\ \/ UNCHANGED rfill
     \/ /\ rfill < FifoDepth
        /\ rxTaken + rfill < MaxTyped
        /\ rfill' = rfill + 1
  /\ ac' = TRUE
  /\ UNCHANGED <<irqEnable, hostInactive, timeout, txBuf, txIn, txOut, txPut,
                 sent, rxBuf, rxIn, rxOut, rxTaken, received, isr, call>>

-----------------------------------------------------------------------------
(* altera_avalon_jtag_uart_irq.                                            *)

IsrEnter ==
  /\ isr.pc = "off"
  /\ ReadInterrupt \/ WriteInterrupt
  /\ isr' = [isr EXCEPT !.pc = "control"]
  /\ UNCHANGED <<irqEnable, hostVars, txVars, rxVars, call>>

(* The head of the handler's loop: one read of the control register.       *)
IsrControl ==
  /\ isr.pc = "control"
  /\ isr' = CASE ReadInterrupt ->
                   [pc |-> "rx", data |-> TRUE, wi |-> WriteInterrupt,
                    space |-> FifoDepth - wfill]
              [] ~ReadInterrupt /\ WriteInterrupt ->
                   [pc |-> "tx", data |-> FALSE, wi |-> TRUE,
                    space |-> FifoDepth - wfill]
              [] OTHER -> IsrOff
  /\ UNCHANGED <<irqEnable, hostVars, txVars, rxVars, call>>

(* Bugs that the properties must find stand before the definition they are *)
(* a bug of, with the properties that find them: here a handler that does  *)
(* not look for room in the ring (RxImplementsPipe).                       *)
IsrRxOverwrites ==
  /\ isr.pc = "rx"
  /\ rfill > 0
  /\ rxBuf' = [rxBuf EXCEPT ![rxIn] = rxTaken + 1]
  /\ rxTaken' = rxTaken + 1
  /\ rfill' = rfill - 1
  /\ rxIn' = Wrap(rxIn + 1)
  /\ isr' = [isr EXCEPT !.data = (rfill > 1)]
  /\ UNCHANGED <<irqEnable, hostVars, txVars, rxOut, received, call>>

(* One character from the device, unless the ring is full.                 *)
IsrRx ==
  /\ isr.pc = "rx"
  /\ Wrap(rxIn + 1) # rxOut
  /\ rfill > 0
  /\ rxBuf' = [rxBuf EXCEPT ![rxIn] = rxTaken + 1]
  /\ rxTaken' = rxTaken + 1
  /\ rfill' = rfill - 1
  /\ rxIn' = Wrap(rxIn + 1)
  /\ isr' = [isr EXCEPT !.data = (rfill > 1)]
  /\ UNCHANGED <<irqEnable, hostVars, txVars, rxOut, received, call>>

(* Out of the read loop: the ring is full, or a read found no character    *)
(* and so none left.  With characters left the read interrupt goes off.    *)
IsrRxEnd ==
  /\ isr.pc = "rx"
  /\ LET full == Wrap(rxIn + 1) = rxOut
     IN  /\ full \/ rfill = 0
         /\ irqEnable' = IF full /\ isr.data THEN irqEnable \ {RE} ELSE irqEnable
  /\ isr' = [isr EXCEPT !.pc = IF isr.wi THEN "tx" ELSE "control", !.data = FALSE]
  /\ UNCHANGED <<hostVars, txVars, rxVars, call>>

(* One character to the device, which drops it when its FIFO is full.      *)
IsrTx ==
  /\ isr.pc = "tx"
  /\ isr.space > 0 /\ txOut # txIn
  /\ IF wfill < FifoDepth
       THEN sent' = Append(sent, txBuf[txOut]) /\ wfill' = wfill + 1
       ELSE UNCHANGED <<sent, wfill>>
  /\ txOut' = Wrap(txOut + 1)
  /\ isr' = [isr EXCEPT !.space = @ - 1]
  /\ UNCHANGED <<irqEnable, hostVars, txBuf, txIn, txPut, rxVars, call>>

(* Bug: the write interrupt goes off though the device had no room for all *)
(* (NothingStranded, WritesReturn).                                        *)
IsrTxEndAlways ==
  /\ isr.pc = "tx"
  /\ isr.space = 0 \/ txOut = txIn
  /\ irqEnable' = irqEnable \ {WE}
  /\ isr' = [isr EXCEPT !.pc = "control", !.space = 0, !.wi = FALSE]
  /\ UNCHANGED <<hostVars, txVars, rxVars, call>>

(* Out of the write loop: with room left there was nothing more to send.   *)
IsrTxEnd ==
  /\ isr.pc = "tx"
  /\ isr.space = 0 \/ txOut = txIn
  /\ irqEnable' = IF isr.space > 0 THEN irqEnable \ {WE} ELSE irqEnable
  /\ isr' = [isr EXCEPT !.pc = "control", !.space = 0, !.wi = FALSE]
  /\ UNCHANGED <<hostVars, txVars, rxVars, call>>

IsrNext == IsrEnter \/ IsrControl \/ IsrRx \/ IsrRxEnd \/ IsrTx \/ IsrTxEnd

(* altera_avalon_jtag_uart_timeout, from the timer's interrupt handler.    *)
Timeout ==
  /\ isr.pc = "off"
  /\ ac' = FALSE
  /\ hostInactive' = IF ac THEN 0
                     ELSE IF hostInactive < HostCap THEN hostInactive + 1
                     ELSE hostInactive
  /\ UNCHANGED <<irqEnable, timeout, txVars, rxVars, isr, call>>

HostSilent == hostInactive >= timeout

-----------------------------------------------------------------------------
(* The program's calls.  A step of a call runs when no handler does.       *)

At(pc) == call.pc = pc /\ isr.pc = "off"

Goto(pc) == call' = [call EXCEPT !.pc = pc]

(* The locals go out of scope; the value goes to the caller, whose state   *)
(* is not modelled.                                                        *)
Return == call' = IdleCall

(* altera_avalon_jtag_uart_write.                                          *)
StartWrite(count, nonblock) ==
  /\ At("idle")
  /\ txPut + count <= MaxWritten
  /\ call' = [IdleCall EXCEPT !.pc = "w_load", !.count = count, !.nonblock = nonblock]
  /\ UNCHANGED <<irqEnable, hostVars, txVars, rxVars, isr>>

(* Bug: fills the last slot when out is 0, which makes a full ring look    *)
(* empty (TxImplementsPipe).                                               *)
FreeRunAll(in, out) == IF in < out THEN out - 1 - in ELSE BufLen - in

(* The run of free slots behind in that ends at out or at the buffer's end *)
FreeRun(in, out) == CASE in < out              -> out - 1 - in
                      [] in >= out /\ out > 0  -> BufLen - in
                      [] OTHER                 -> BufLen - 1 - in

WriteLoad ==
  /\ At("w_load")
  /\ LET n == Least(FreeRun(txIn, txOut), call.count)
     IN  IF call.count = 0
           THEN Goto("w_kick")
           ELSE call' = [call EXCEPT !.pc = IF n = 0 THEN "w_kick" ELSE "w_copy",
                                     !.in = txIn, !.out = txOut, !.n = n]
  /\ UNCHANGED <<irqEnable, hostVars, txVars, rxVars, isr>>

WriteCopy ==
  /\ At("w_copy")
  /\ txBuf' = [i \in 0..BufLen - 1 |->
                 IF call.in <= i /\ i < call.in + call.n
                   THEN txPut + 1 + (i - call.in) ELSE txBuf[i]]
  /\ Goto("w_publish")
  /\ UNCHANGED <<irqEnable, hostVars, txIn, txOut, txPut, sent, wfill, rxVars, isr>>

(* Bug: the index leaves the buffer (TypeOK).                              *)
WritePublishPast ==
  /\ At("w_publish")
  /\ txIn' = call.in + call.n
  /\ txPut' = txPut + call.n
  /\ call' = [call EXCEPT !.pc = "w_load", !.count = @ - call.n, !.done = TRUE,
                          !.in = 0, !.out = 0, !.n = 0]
  /\ UNCHANGED <<irqEnable, hostVars, txBuf, txOut, sent, wfill, rxVars, isr>>

WritePublish ==
  /\ At("w_publish")
  /\ txIn' = Wrap(call.in + call.n)
  /\ txPut' = txPut + call.n
  /\ call' = [call EXCEPT !.pc = "w_load", !.count = @ - call.n, !.done = TRUE,
                          !.in = 0, !.out = 0, !.n = 0]
  /\ UNCHANGED <<irqEnable, hostVars, txBuf, txOut, sent, wfill, rxVars, isr>>

(* Bugs: the handler is only kicked when bytes are left over (BytesGoOut); *)
(* the index to wait on is read after the kick (SpinnersAreBlocked).       *)
WriteKickRest ==
  /\ At("w_kick")
  /\ irqEnable' = IF call.count > 0 THEN irqEnable \cup {WE} ELSE irqEnable
  /\ Goto(IF call.count > 0 /\ ~call.nonblock THEN "w_wait" ELSE "w_return")
  /\ UNCHANGED <<hostVars, txVars, rxVars, isr>>

WriteKickReread ==
  /\ At("w_kick")
  /\ irqEnable' = irqEnable \cup {WE}
  /\ call' = [call EXCEPT !.out = txOut,
                 !.pc = IF call.count > 0 /\ ~call.nonblock THEN "w_wait" ELSE "w_return"]
  /\ UNCHANGED <<hostVars, txVars, rxVars, isr>>

WriteKick ==
  /\ At("w_kick")
  /\ irqEnable' = irqEnable \cup {WE}
  /\ Goto(IF call.count > 0 /\ ~call.nonblock THEN "w_wait" ELSE "w_return")
  /\ UNCHANGED <<hostVars, txVars, rxVars, isr>>

(* Spins until the handler has sent something or the host is inactive.     *)
WriteWait ==
  /\ At("w_wait")
  /\ call.out # txOut \/ HostSilent
  /\ Goto("w_check")
  /\ UNCHANGED <<irqEnable, hostVars, txVars, rxVars, isr>>

WriteCheck ==
  /\ At("w_check")
  /\ Goto(IF hostInactive # 0 THEN "w_return" ELSE "w_load")
  /\ UNCHANGED <<irqEnable, hostVars, txVars, rxVars, isr>>

(* Returns how many bytes it took, or -EWOULDBLOCK or -EIO if none.        *)
WriteReturn ==
  /\ At("w_return")
  /\ Return
  /\ UNCHANGED <<irqEnable, hostVars, txVars, rxVars, isr>>

(* altera_avalon_jtag_uart_read.                                           *)
StartRead(space, nonblock) ==
  /\ At("idle")
  /\ call' = [IdleCall EXCEPT !.pc = IF space > 0 THEN "r_load" ELSE "r_return",
                              !.count = space, !.nonblock = nonblock]
  /\ UNCHANGED <<irqEnable, hostVars, txVars, rxVars, isr>>

(* The run of bytes from out that ends at in or at the buffer's end.       *)
FullRun(in, out) == IF in >= out THEN in - out ELSE BufLen - out

ReadLoad ==
  /\ At("r_load")
  /\ LET n == Least(FullRun(rxIn, rxOut), call.count)
     IN  call' = [call EXCEPT !.pc = IF n > 0 THEN "r_copy"
                                     ELSE IF call.done \/ call.nonblock
                                            THEN "r_return" ELSE "r_wait",
                              !.in = rxIn, !.out = rxOut, !.n = n]
  /\ UNCHANGED <<irqEnable, hostVars, txVars, rxVars, isr>>

ReadCopy ==
  /\ At("r_copy")
  /\ received' = received \o [i \in 1..call.n |-> rxBuf[call.out + i - 1]]
  /\ Goto("r_publish")
  /\ UNCHANGED <<irqEnable, hostVars, txVars, rxBuf, rxIn, rxOut, rxTaken, rfill, isr>>

ReadPublish ==
  /\ At("r_publish")
  /\ rxOut' = Wrap(call.out + call.n)
  /\ call' = [call EXCEPT !.pc = IF call.count > call.n THEN "r_load" ELSE "r_return",
                          !.count = @ - call.n, !.done = TRUE, !.in = 0, !.out = 0, !.n = 0]
  /\ UNCHANGED <<irqEnable, hostVars, txVars, rxBuf, rxIn, rxTaken, received, rfill, isr>>

(* Spins until a character arrives or the host is inactive.                *)
ReadWait ==
  /\ At("r_wait")
  /\ call.in # rxIn \/ HostSilent
  /\ Goto("r_check")
  /\ UNCHANGED <<irqEnable, hostVars, txVars, rxVars, isr>>

ReadCheck ==
  /\ At("r_check")
  /\ Goto(IF call.in = rxIn THEN "r_return" ELSE "r_load")
  /\ UNCHANGED <<irqEnable, hostVars, txVars, rxVars, isr>>

(* Bug: the read interrupt goes on only when the caller got all it asked   *)
(* for (ReaderWakesDevice).                                                *)
ReadReturnAll ==
  /\ At("r_return")
  /\ irqEnable' = IF call.done /\ call.count = 0 THEN irqEnable \cup {RE} ELSE irqEnable
  /\ Return
  /\ UNCHANGED <<hostVars, txVars, rxVars, isr>>

(* There is room in the ring again if anything was read.                   *)
ReadReturn ==
  /\ At("r_return")
  /\ irqEnable' = IF call.done THEN irqEnable \cup {RE} ELSE irqEnable
  /\ Return
  /\ UNCHANGED <<hostVars, txVars, rxVars, isr>>

(* altera_avalon_jtag_uart_close: spins until everything has gone.         *)
StartClose(nonblock) ==
  /\ At("idle")
  /\ call' = [IdleCall EXCEPT !.pc = "c_wait", !.nonblock = nonblock]
  /\ UNCHANGED <<irqEnable, hostVars, txVars, rxVars, isr>>

CloseWait ==
  /\ At("c_wait")
  /\ txOut = txIn \/ HostSilent \/ call.nonblock
  /\ Return
  /\ UNCHANGED <<irqEnable, hostVars, txVars, rxVars, isr>>

(* altera_avalon_jtag_uart_ioctl(TIOCSTIMEOUT).  The other request,        *)
(* TIOCGCONNECTED, answers ~HostSilent and changes nothing.                *)
SetTimeout(t) ==
  /\ At("idle")
  /\ timeout' = t
  /\ UNCHANGED <<irqEnable, hostInactive, ac, txVars, rxVars, isr, call>>

Begin ==
  \/ \E count \in 0..MaxCount, nonblock \in BOOLEAN :
       StartWrite(count, nonblock) \/ StartRead(count, nonblock)
  \/ \E nonblock \in BOOLEAN : StartClose(nonblock)
  \/ \E t \in Timeouts : SetTimeout(t)

WriteNext == \/ WriteLoad \/ WriteCopy \/ WritePublish \/ WriteKick
             \/ WriteWait \/ WriteCheck \/ WriteReturn

ReadNext == \/ ReadLoad \/ ReadCopy \/ ReadPublish
            \/ ReadWait \/ ReadCheck \/ ReadReturn

Continue == WriteNext \/ ReadNext \/ CloseWait

Next == HostPoll \/ IsrNext \/ Timeout \/ Begin \/ Continue

(* The processor executes, handlers end, and the timer ticks; nothing is   *)
(* assumed of the host, nor that the program ever makes a call.            *)
Fairness == WF_jtagVars(IsrNext) /\ WF_jtagVars(Timeout) /\ WF_jtagVars(Continue)

Spec == Init /\ [][Next]_jtagVars /\ Fairness

-----------------------------------------------------------------------------
(* Properties.                                                             *)

Index == 0..BufLen - 1

WritePcs == {"w_load", "w_copy", "w_publish", "w_kick", "w_wait", "w_check", "w_return"}
ReadPcs  == {"r_load", "r_copy", "r_publish", "r_wait", "r_check", "r_return"}
Pcs      == {"idle", "c_wait"} \cup WritePcs \cup ReadPcs

(* Every variable has its type: indices stay in the buffers, FIFO levels   *)
(* within the FIFOs.                                                       *)
TypeOK ==
  /\ irqEnable \subseteq {RE, WE}
  /\ hostInactive \in 0..HostCap /\ timeout \in Nat \ {0} /\ ac \in BOOLEAN
  /\ txBuf \in [Index -> Nat] /\ txIn \in Index /\ txOut \in Index
  /\ rxBuf \in [Index -> Nat] /\ rxIn \in Index /\ rxOut \in Index
  /\ wfill \in 0..FifoDepth /\ rfill \in 0..FifoDepth
  /\ isr \in [pc : {"off", "control", "rx", "tx"}, data : BOOLEAN, wi : BOOLEAN,
              space : 0..FifoDepth]
  /\ call \in [pc : Pcs, count : Nat, done : BOOLEAN, nonblock : BOOLEAN,
               in : Index, out : Index, n : 0..BufLen - 1]
  /\ txPut \in Nat /\ rxTaken \in Nat
  /\ sent \in Seq(Nat) /\ received \in Seq(Nat)

(* What the program writes reaches the device in order, each byte once,    *)
(* whatever the handler and the program's copy do to the ring meanwhile,   *)
(* and the ring never takes more than it has room for (write.c:100-191,    *)
(* the handler's write half).                                              *)
TxPipe == INSTANCE BytePipe WITH
            Capacity <- BufLen - 1, accepted <- txPut, delivered <- sent
TxImplementsPipe == TxPipe!PipeSpec

(* What the device receives reaches the program in order, each byte once:  *)
(* the handler takes nothing it cannot keep (init.c:123-151, read.c).      *)
RxPipe == INSTANCE BytePipe WITH
            Capacity <- BufLen - 1, accepted <- rxTaken, delivered <- received
RxImplementsPipe == RxPipe!PipeSpec

(* Bytes in the transmit ring have the write interrupt on, or a writer on  *)
(* its way to turn it on: otherwise they would stay there until the next   *)
(* write, with close spinning on them (the handler turns the interrupt off *)
(* when it finds the ring empty, in between any two steps of write).       *)
NothingStranded ==
  txIn # txOut => \/ WE \in irqEnable
                  \/ call.pc \in {"w_load", "w_copy", "w_publish", "w_kick"}

(* With the read interrupt off there are bytes for the next read, which    *)
(* turns it on, or a read that will: otherwise reading would stop for good *)
(* (init.c:153-163, read.c:188-195).                                       *)
ReaderWakesDevice ==
  RE \notin irqEnable => \/ rxIn # rxOut
                         \/ call.pc \in ReadPcs /\ call.done

(* A call that spins on an index really has nothing to do: the transmit    *)
(* ring is full, the receive ring empty.  The index the handler moves does *)
(* not come round to the value the call compares it with (write.c:183,     *)
(* read.c:173).                                                            *)
SpinnersAreBlocked ==
  /\ call.pc = "w_wait" /\ call.out = txOut => Held(txIn, txOut) = BufLen - 1
  /\ call.pc = "r_wait" /\ call.in = rxIn => rxIn = rxOut

(* The host visits the device again and again.                             *)
HostAlive == []<><<HostPoll>>_jtagVars

(* Write and close return, whatever the host does: the handler sends their *)
(* bytes or the timeout lets them go, unless ioctl has set a timeout that  *)
(* host_inactive never reaches.                                            *)
WritesReturn ==
  call.pc \in WritePcs \cup {"c_wait"} /\ timeout <= HostCap ~> call.pc = "idle"

(* With a host that comes back every byte the program has put in the ring  *)
(* goes out, though no write follows that would kick the handler again.    *)
BytesGoOut == HostAlive => \A k \in 1..MaxWritten : txPut >= k ~> Len(sent) >= k


=============================================================================
