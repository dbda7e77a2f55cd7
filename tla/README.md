# Verification of the LCD interface (lab 4)

TLA+ modules, TLC configurations and TLAPS proofs for the hardware and software
of this repository: a Nios II system that shows pictures on an ILI9341 panel
through an Avalon-MM slave, `lcdDriver.vhdl`, with a DMA master, `dma.vhdl`, the
programs of two laboratories and the device drivers of the board support package
they stand on. `HAL/...` and `drivers/...` below are under
`software/lab4LcdInterface_bsp/`.

## The system

| Part | Source | State | Operations | Talks to |
|---|---|---|---|---|
| LCD driver | `lcdDriver.vhdl` | state machine, two counters, request registers, three sampling stages, edge detector, burst stream, latches `WaitReq_SO` and `BitEnable_D`, pins | one clock period per state; asynchronous reset | Avalon slave port on one side, panel pins on the other |
| DMA master | `dma.vhdl` | the same slave front end, source/destination/control/status registers | configure, read a word, write a word | CPU (slave port), memory and LCD (master port) |
| LCD software | `software/lab4LcdInterface/main.c` | program counter, picture index | delay, initialise the panel, send pictures word by word | LCD driver through stores |
| Interconnect | `systemFile/synthesis/submodules/*` (generated) | translators, width adapters, arbiters | convert width and address, mark bursts | CPU, driver, DMA, memories |
| Lab 3 | `lab3ParPortAndTimers/main.c` | `Counter {value, isNew}` | timer interrupt handler, main loop | timer, LED port |
| JTAG UART driver | `drivers/src/altera_avalon_jtag_uart_*.c` | two rings with their indices, interrupt enables, `host_inactive`, `timeout` | write, read, close, ioctl; interrupt handler; one-second timeout | lab 3's `printf`, HAL alarms, the UART |
| HAL alarms | `HAL/src/alt_tick.c`, `alt_alarm_start.c`, `alt_llist.h` | tick counter, doubly linked list of alarms | start, stop, tick with callbacks | system clock's interrupt, UART driver |
| Avalon DMA driver | `drivers/src/altera_avalon_dma.c` | two rings of requests, stream flags, `launch`, `active` | send, prepare, ioctl; interrupt handler with callbacks | callers, the DMA device |
| Parallel port | `parPort.vhdl`, `reader.vhdl`, `writer.vhdl`, `dFlipFlop.vhdl` | direction, port registers | write, set bits, clear bits, read | CPU |
| CPU, SDRAM, UART, PLL, rest of the HAL | generated vendor code | - | - | - |

Behaviour that is hard here: there is no handshake inside the driver. A write is
seen through a one-period edge pulse that only `StateIdle` looks at, two clock
edges after the bus master was told (`WaitReq_SO` low) that its write was taken.
Values that a state of the combinational process `logic` does not assign are
latches, and the resets clear some of them only. So what matters is which of two
concurrent actors - the master on the bus, the driver's state machine - gets
where first, for every distance between two writes and every moment of a reset.

The drivers share their state with interrupt handlers and mostly without a lock:
an index is written by one side only, and the other side may move its own between
any two accesses. A handler that finds nothing to do turns itself off while the
program is about to give it something; a callback comes back into the driver that
called it; a retired slot is read after it was given back. What has to be
considered is every place where a handler may cut in.

What makes each part correct:

* driver: no accepted write is lost, repeated, altered or overtaken; a write is
  accepted eventually; pins hold while the panel is selected; data is set up
  before the strobe; bursts are completed;
* DMA: configuration and copying do not disturb each other; each word fetched
  from the source in force is stored once; a started transfer goes on;
* software: commands arrive as commands and data as data, in program order;
* UART driver: what is written comes out once and in order, what comes in is read
  once and in order, nothing is left behind in a ring with its interrupt off, and
  nobody waits for what has already happened;
* alarms: the list stays one ring whatever callbacks do in the middle of a walk,
  an alarm goes off on its tick and not on another, also over the roll-over;
* Avalon DMA driver: the device works on the heads of the queues, a request that
  can be served is served, each is called back once and in order;
* lab 3: a value is reported once, output is in order, the loop ends.

`PROJECT.json` lists every hazard at its line with the properties that cover it.

## Modules

| Module | Models |
|---|---|
| `LcdDriver` | `lcdDriver.vhdl`, cycle by cycle, on a bus that carries anything |
| `LcdChannel` | what the driver promises: a channel of one place |
| `LcdSystem` | driver, a bus master without bursts and panel composed; history of what is under way; the inductive invariant `Schedule` |
| `DmaMaster` | `dma.vhdl`, cycle by cycle, for any traffic on both ports |
| `DmaCopier` | what the DMA promises: a copier of words |
| `DmaSystem` | the DMA master with a source and a destination that make it wait |
| `LcdSoftware` | `main.c` of lab 4 as the bus master of `LcdSystem` |
| `JtagUart` | the UART's driver, its handler and timeout, the UART and the host |
| `BytePipe` | what a ring promises: a pipe, used for the UART's and the DMA driver's directions |
| `HalAlarm` | the list of alarms and the walk of `alt_tick` |
| `AlarmClock` | what the alarms promise: each goes off on its tick |
| `AvalonDma` | the driver of the Avalon DMA device, its handler and callbacks, the device |
| `Lab3` | lab 3's loop and handler on top of `JtagUart` |
| `LcdDriverProofs`, `LcdSystemProofs`, `DmaProofs`, `JtagUartProofs`, `HalAlarmProofs`, `AvalonDmaProofs`, `AvalonPipeProofs`, `Lab3Proofs` | theorems |
| `MC...` | constants for TLC |

Composition: `LcdSystem` extends `LcdDriver`, `LcdSoftware` extends `LcdSystem`;
`DmaSystem` extends `DmaMaster`; `Lab3` extends `JtagUart` and has a second
instance of it for the handler's calls, on the same rings. Refinements:
`LcdSystem` of `LcdChannel`, `DmaMaster` of `DmaCopier` (checked on the bus of
`DmaSystem`, proved for any bus), `JtagUart` and `AvalonDma` of two `BytePipe`s each, `HalAlarm` of `AlarmClock`.

### LcdDriver

One step is one period of `Clk_CI`. The combinational process `logic` computes
pins, `WaitReq_SO` and the next register values from the registers; the rising
edge at the end of the period loads the registers (`Clocked(b)`, `Load`). The
input of the step is `b`, the bus signals of the period. Each state of `logic`
is an action with the state's name; `Cycle(b)` is their disjunction and `Reset`
the asynchronous reset. `pins` and `waitReq` are the outputs of the last period.
A signal a state does not assign keeps its value (`UNCHANGED`): this is what the
synthesised latches do.

| Variable | Signal |
|---|---|
| `state`, `idleCount`, `burstCount` | `StatePres_D`, `IdleCountPres_D`, `BurstCountPres_D` |
| `reg.addr`, `.rx`, `.lanes`, `.begin`, `.count`, `.data` | `RegAddress`, `RegRxData`, `RegByteEnable`, `RegBeginBurstTransfer`, `RegBurstCount`, `RegData` (`...Pres_D`) |
| `s`, `p`, `pp` | the sampled bus signals, `..._D`/`_S`, `..._P_...`, `..._PP_...` |
| `writeLast`, `writeEdge` | `Write_Last_D`, `Write_Edge_D` |
| `stream`, `streamNext`, `streamCount` | `BurstStream_D`, `BurstStreamCountNext_D`, `BurstStreamCountPres_D` |
| `waitReq`, `bitEnable` | the latches `WaitReq_SO`, `BitEnable_D` |
| `pins` | `DB_DIO`, `Wr_NSO`, `Cs_NSO`, `DC_NSO`, `LcdReset_NRO` |

A 16-bit word is two byte lanes, the granularity at which the driver treats data
(the byte enables). Registers that are written and never read
(`RegWriteData`, `RegWriteCmd`), `Rd_NSO` and `IM0_SO`, which never change, and
the read port, which has no effect, are left out. The sensitivity list of
`logic` (line 391) is incomplete, which matters in simulation only; the model is
of the synthesised circuit. `when others` (line 667) is not reachable.

### LcdSystem

`ClockPeriod` is one period of driver, master and panel together. The master
drives `bus`; at the edge it sees the `WaitReq_SO` of the period and holds the
request (`MasterHolds`), finishes it (`MasterDone`) or, having none, starts one
or idles (`MasterIdles`). It leaves `MinGap` periods without a write after each
write and `BootTicks` after a reset. The panel takes `DB_DIO` when `Wr_NSO`
rises while `Cs_NSO` is low (`Strobe`). `pending` and `out` record what was
accepted and not yet strobed, and what was strobed last; `parity` toggles with
each strobe, so that a word strobed a second time is a step and not a stutter.
`LcdChannel` has the same three: there a word is delivered by taking it out of
the queue, and nothing else moves `out` or `parity`.

The master is the CPU with the interconnect in between, reduced to what an
Avalon-MM slave without bursts sees. **This is an assumption the generated
interconnect does not meet as it is configured**: its slave translator raises
`beginbursttransfer` in the first beat of every write, so in the synthesised
system the driver treats every write as a burst, sends one word and stops
(`OneWordPerReset`). The results of `LcdSystem` and of `LcdSoftware` are about the
driver on the plain contract, not about the synthesised system; those of
`LcdDriver` are about any bus.

### DmaMaster, DmaSystem

The same conventions as `LcdDriver`: one step is a clock period, an action per
state, `c` what the CPU drives on the slave port and `a` what the bus drives on
the master port.

| Variable | Signal |
|---|---|
| `state` | `StatePres_D` |
| `reg` | `RegState`, `RegCtrl`, the halves of `RegSrc` and `RegDest`, `RegData` (`...Pres_D`) |
| `taken` | `RegAddressPres_D`, `RegRxDataPres_D` |
| `s`, `p`, `readEdge` | sampled slave port, one period later, `Read_Edge_D` |
| `m` | `Master_WaitReq_S`, `Master_ReadDataValid_S`, `Master_ReadData_D` |

The outputs of the master port are functions of the state (`MasterRead`,
`MasterWrite`, `MasterAddress`, `MasterData`). Left out because they decide
nothing: the burst registers and stream, the idle counter, the write edge,
`RegError` (never loaded with anything but zero), the byte enables. The copy of
`dma.vhdl` in the root of the repository has two response signals more than the
one in `systemFile/synthesis/submodules`; they are not used either.

In `DmaSystem` the source takes reads while `Master_Read_SO` is high and it does
not ask to wait, and answers them in order, a period later at the earliest; the
destination takes a write in each period of `Master_Write_SO` without a wait
request. `DmaCopier` fetches a word only when valid data is on the read port, and
the word it then stores is that data; which read the data answers it leaves open,
because the DMA does not know either (run `DmaStale`). `asked` holds the reads under way and `stored` counts how often the
word being written was taken. The panel driver and the SDRAM controller are both
connected to the master (`systemFile.qsys:1040-1056`); what is modelled of them
is this contract.

### LcdSoftware

`main.c` is its sequence of stores: those of `init_LCD` once, those of a picture
for ever. `at` is the store the bus is at. A period in which the bus master of
`LcdSystem` begins a write takes the next store of the program; delays are any
number of periods that `LcdSystem` allows. `Request` is what `IOWR_16DIRECT` and
the address port make of a store: the byte offset halves into the number of a
16-bit register (`LCD_hw.tcl:73`, `addressUnits WORDS`). Pictures differ in their
pixels only and are one. Like `LcdSystem` it leaves the interconnect's
`beginbursttransfer` out.

### JtagUart

The driver is the "fast" one (`ALTERA_AVALON_JTAG_UART_SMALL` is not defined)
without an operating system, so semaphores and event flags are empty macros. The
program makes one call at a time; `call.pc` says where it is, and the other
fields of `call` are its locals. A call is cut at every access to something the
handler writes: load of the indices, copy, publication of the index, kick of the
interrupt, wait, check. A critical section is one step. The handler is cut the
same way at its accesses of the device (`isr.pc`), because the host may be active
between them; the program does not run while it does (`At`).

| Variable | Code |
|---|---|
| `irqEnable` | `sp->irq_enable` and the device's control register, which it is written to |
| `hostInactive`, `timeout` | `sp->host_inactive`, `sp->timeout` |
| `txBuf`, `txIn`, `txOut`; `rxBuf`, `rxIn`, `rxOut` | `sp->tx_buf`, `tx_in`, `tx_out`; `rx_...` |
| `wfill`, `rfill`, `ac` | the device's FIFO levels and its host activity bit |
| `isr`, `call` | handler and call with their locals |
| `txPut`, `sent`; `rxTaken`, `received` | history: bytes put in the transmit ring and sent; taken from the device and read |

The read interrupt of the device is simplified: the core raises it when its FIFO
is nearly full or the host pauses with characters in it
(`systemFile_jtag_uart.v:437-451, 485`), the model as soon as there is one. Both
mean that there are characters to take, and no property checked here depends on
when.

A byte is its position in its stream. `TxImplementsPipe` and `RxImplementsPipe`
say with it that nothing is lost, repeated or overtaken. Failing calls
(`EWOULDBLOCK`, `EIO`) return without their value, which nothing here looks at.

### HalAlarm

Start and stop are critical sections of the HAL and one step each. `alt_tick`
runs in the system clock's interrupt; its walk is cut at each callback, in which
callbacks start and stop alarms, among them those before and behind the walk's
place. `scan` holds `alt_tick`'s locals `alarm` and `next`, `armed` is
history: the alarms started and not stopped. `nticks`, `time`, `rollover`,
`next` and `prev` are the fields of the same names, `Plus` is addition of the
32-bit counter (`Span` values). An alarm structure that was stopped or never
started points to itself, as `alt_llist_remove` leaves it.

Callbacks may stop any alarm. If one stops the very alarm the walk would go on
with, behind its own, the walk goes on from an entry that points to itself, and
`alt_tick` never returns (`alt_tick.c:102, 140`). `WalkKeepsToList` says that
nothing else takes the walk out of the list and `TickEnds` that nothing else keeps
it from ending; both would be violated without that exception, and
`AstrayForEver` proves that there is no way back. No callback in the repository
stops another alarm.

What callers may not do here: start an alarm that runs (the code would insert it
twice), start an alarm from its own callback (which asks for its next tick by its
return value, and whose removal after a zero would undo the start), and stop an
alarm that was never started (whose links are not set). `asked` is history: the
number of ticks last asked for, by `alt_alarm_start` or by the callback's return;
`AlarmClock` counts down from it, so an alarm cannot go off on a tick nobody
asked for.

### AvalonDma

The program's post (`send` and `prepare` are one action with a parameter) reads
the queue, fills the slot, moves the end of the queue behind it, looks at `active`
and launches, with no lock around any of it. The handler retires the heads, clears the interrupt and launches,
then calls back; callbacks post requests, with interrupts disabled. The device
finishes whenever it likes.

| Variable | Code |
|---|---|
| `tx`, `rx` | `tx_buf`, `tx_start`, `tx_end`; `rx_...` |
| `streamTx`, `streamRx`, `launch`, `active` | `priv->flags`, `priv->launch`, `priv->active` |
| `dev` | the device: its addresses (as the requests they belong to), length, BUSY, DONE |
| `isr`, `call` | handler and post with their locals |
| `txPosted`, `txDone`, `rxPosted`, `rxDone` | history: requests posted; requests called back, in order |

A request is its position and its length. The width requests of
`alt_avalon_dma_ioctl` decide only which requests are refused with nothing
changed, so they have no action; stream requests have one each. Requests of
length zero and ioctl from a callback are not modelled. `Reentrant` says whether
a callback may post to the channel the program is just posting to. The driver
does not protect that: both take the same slot, and TLC finds `InFlightAtHead`
violated with `Reentrant = TRUE`; the run excludes it, and so do the theorems
about which request is where, but not those about indices and launching. The
driver is in the repository; the Makefile of the board support package does not
compile it for this system, whose DMA is `dma.vhdl`.

### Lab3

Main loop and timer handler, each with its own call of `JtagUart`'s write (`call`
and `hcall`) on the one ring. The handler runs with interrupts disabled and
clears the timer's interrupt at its end. Since it takes the timer over from the
system clock, no alarm goes off any more and the UART's `Timeout` is not part of
it. The messages before the loop are one message printed with interrupts
disabled; in the code interrupts are still enabled for the first ones (lines 36
and 39), when the program is the only one to print.

`SpinnersAreBlocked` of `JtagUart` does not hold here: while main waits, the
handler may put bytes in the ring and the index come round to the value main
compares it with (`Overtaken`). Main then goes on with the next timer interrupt.
The model counts to `MaxValue`, so at its last interrupt main may be left waiting
so, and `FinishesOrHangs` allows for this and for no other way of not finishing.

## Runs

| Run | Checks | Shows |
|---|---|---|
| `LcdDriver` | `TypeOK`, `PinsFollow`, `SelectedPinsHold` | the driver under any writes, bursts, resets |
| `LcdDriverBurst` | `BurstGoesOn` **violated** | a burst stops after its first word |
| `LcdSystem` | `SystemTypeOK`, `NoWriteLost`, `Schedule`, `ImplementsChannel`, `SetupWhenLanesKept`, `WritesComplete`, `ItemsSent` | on a bus without `beginbursttransfer`: nine periods between writes, and the first of them after the panel's reset, are enough for everything to be sent once, unaltered and in order |
| `LcdSystemGap` | `NoWriteLost` **violated** | eight periods are not enough |
| `LcdSystemBoot` | `WritesComplete` **violated** | a write during the panel's reset blocks the bus for ever |
| `LcdSoftware` | `CommandsArrive` **violated** | the program's commands reach the panel as data |
| `DmaSystem` | `SystemTypeOK`, `AtMostTwice`, `LastPeriod`, `ImplementsCopier` | copying and configuring with wait states, pipelined reads and resets: valid data is copied, taken at most twice, and a write ends |
| `DmaStale` | `FreshWord` **violated** | an answer from the old source is copied |
| `JtagUart` | `TypeOK`, `NothingStranded`, `ReaderWakesDevice`, `SpinnersAreBlocked`, `TxImplementsPipe`, `RxImplementsPipe`, `WritesReturn`, `BytesGoOut` | both directions are pipes whatever the handler, the timeout and the host do between two steps of a call; calls return |
| `HalAlarm` | `TypeOK`, `ListSound`, `WalkKeepsToList`, `ImplementsClock`, `TickEnds` | alarms go off on time over the roll-over, with callbacks changing the list under the walk, which ends unless it is sent astray |
| `AvalonDma` | `TypeOK`, `InFlightAtHead`, `NoStall`, `TxImplementsPipe`, `RxImplementsPipe`, `TransfersComplete` | program, handler, callbacks and device never lose a request or leave one lying, and call each back, on channels that are not streams |
| `Lab3` | `Lab3TypeOK`, `ReportsAdvance`, `InOrderUnlessOverlapped`, `SpinningHandlerHangs`, `FinishesOrHangs` | what the loop prints, what happens to output when the handler cuts into it, and that a full ring in the handler is the end |

A write asserted in period t has its edge pulse in t+2, where the driver must be
in `StateIdle`; it is evaluated in t+3, prepared in t+4..t+6, sent in t+7..t+10
with the strobe at t+7, and the driver is idle again from t+12. The next write
may be asserted from t+10 on: nine periods between.

Bounds. `ResetTicks` is 2 in place of 500000000 (10 s at 50 MHz): it only counts
down, and 2 lets a write begin before, in and after the count. `PicSize` and
`MaxCount` are 2: enough for a burst with a word after the first. Bytes are 0
and 1, so that a masked and an unmasked lane differ and so do two words. The
requests of `MCLcdSystem` cover command and data, both lanes and one, and a
register that is not sent; those of `MCLcdDriver` add a burst, which alone is
what `LcdDriverBurst` needs. `MCLcdSoftware`
has two stores of set-up and a picture of one command and two pixels. Words of the
DMA are 0, 1 and 8 (GO), so that GO, source and data can differ; `MaxAsked` is
2, the first number at which an answer can be late by one read (1 in `DmaStale`,
where that and the CPU's setting GO and a source are enough). These runs do not bound the length of a behaviour: the
state spaces are finite and explored completely.

`JtagUart` has rings of three slots, so that they are empty, half full, full and
wrap round, FIFOs of one character, and at most three bytes each way, in calls of
up to three: the ring is full with one byte still to write. `HostCap` and the
default timeout are 1, and the timeout that ioctl leaves is 2, which
`host_inactive` never reaches: both kinds of wait occur. `HalAlarm` has
three alarms, the least number with one before, at and behind the walk's place,
and a counter of five values; delays are the least and the greatest the code
allows, periods stop, the next tick and the longest. Nothing else is bounded.
`AvalonDma` has four slots, of which three can be used, lengths of 1 and 3
against 2, and five posts to each channel, so that each index comes round.
`Lab3` has the ring of `JtagUart`, messages of one and two characters, and counts
to 2 of 4. `JtagUart`, `AvalonDma` and `Lab3` may stop, the program having made
its last call, and deadlock is not checked in them; it is in all others.

Fairness. `Spec` and `SystemSpec` of the LCD modules assume weak fairness of the
clock period only (`Clk_CI` never stops). The master is not obliged to write and
a reset is never obliged to happen. `WritesComplete` and `ItemsSent` allow a
reset to end a request, and `BurstGoesOn` has a master that keeps writing as its
condition. The DMA's `Spec` and `SystemSpec` also assume that the bus does not make
the master wait for ever (weak fairness of a period without a wait request); without
it a write never ends. In the drivers the processor executes: a call
goes on when no handler runs, a pending interrupt is taken, a handler ends, the
timer ticks (`JtagUart`, `Lab3`), a callback returns (`HalAlarm`, `AvalonDma`),
and the Avalon DMA device ends what it began. Nothing is assumed of the program's
next call. The host need not do anything: `WritesReturn` is for any host, and
`BytesGoOut` and `FinishesOrHangs` name the host's activity as their condition.

## Findings

* `lcdDriver.vhdl:535` - writes closer than nine periods are accepted and lost.
* `lcdDriver.vhdl:428` - a write during the panel's reset is never accepted. The
  software waits 0.5 s (`main.c:113`), the panel's reset takes 10 s. In general:
  `EarlyWriteBlocksTheBus`.
* `main.c:41` - the command offset 4 is the driver's register 2, so commands reach
  the panel as data, and data go to register 0, which is not sent. With offsets
  4 and 8 `CommandsArrive` holds. In general: `CommandsComeAsData`.
* `dma.vhdl:706` - the read is repeated until data is seen (line 660) and any
  valid data is taken, also that of an earlier read of another source. What a CPU
  must do to be safe: `FreshIfQuiet`.

* `lcdDriver.vhdl:373` - the burst count register is assigned to itself, so bursts
  stop after the first word. With the register loaded `BurstGoesOn` holds. In
  general: `BurstStuck`, `StreamStaysEmpty`, and `OneWordPerReset` for a bus whose
  every write begins a burst, as the generated interconnect's do.

These five are shown by a run each. Others are stated by properties and theorems
about what the code does do:

* `lcdDriver.vhdl:578` - the data of a word is shown with the byte enables of the
  word before until the strobe (the condition of `SetupWhenLanesKept`).
* `dma.vhdl:391, 539` - the read edge detector passes the level, and the DMA is
  configured by reads; writes are ignored (`WritesDoNothing`).
* `dma.vhdl:676` - the read goes on only after a wait request (`NoWaitNoWord`).
* `dma.vhdl:737` - the end of a write is decided on the period before: a word is
  lost or written twice, never three times (`AtMostTwice`).
* `lab3ParPortAndTimers/main.c:90` - the handler's `printf` waits with interrupts
  disabled once the ring is full, and then for ever (`SpinningHandlerHangs`). The
  program prints some 45000 characters in all, the ring has room for 2047, and
  the loop prints faster than a host need read.
* `lab3ParPortAndTimers/main.c:90` - a handler that prints in the middle of main's
  `printf` spoils the output (the condition of `InOrderUnlessOverlapped`), and one
  that prints while main waits for room can leave it waiting with an empty ring
  until the next interrupt (`Overtaken`, a condition of `FinishesOrHangs`).
* `alt_tick.c:102, 140` - a callback that stops the alarm behind its own keeps
  `alt_tick` from ever returning (the exception of `WalkKeepsToList` and `TickEnds`;
  `AstrayForEver`). Nothing in the repository says that it may not, nor does it.
* `altera_avalon_dma.c:163-165, 179-181` - turning one stream off makes the driver
  launch both queues whatever the other stream's flag says. With the receive stream
  on and the transmit stream turned off, the device fills the head of the receive
  queue with each transfer, and the handler, going by the flag, never retires it
  (the condition of `TransfersComplete`; the other properties do not see it, as the
  device does go on and does work on the head).

## Proofs

All theorems hold for every value of the constants that the assumptions named
in the modules allow (`ByteAssumption`, ..., `JtagAssumption`,
`AlarmAssumption`, `AvalonDmaAssumption`).

`LcdDriverProofs`, for any bus: `TypeCorrect`, `PinsInvariant`,
`SelectedPinsStable`, `BurstStuck`, `StreamStaysEmpty`; `OneWordPerReset`: on a bus
whose every write begins a burst the panel gets one word and no other until a
reset (`BurstInside`: the driver has items left as long as it transmits, so it goes
to `StateNextBurstItem` and stays); and `NoRegisterNoCommand`:
a bus that never writes register 4 never gets a command to the panel, which is
what the offsets of `main.c` come to. The type invariant alone is not inductive: a
non-empty stream could be indexed outside its words, so `StreamEmpty` (the burst
count register keeps its reset value) is part of the induction.

`LcdSystemProofs`, for a master that begins no burst and leaves nine periods or
more (`SpacedSingleWrites`), whatever `BootTicks`: `SystemInvariant`,
`NoWriteIsLost`, `SetupKept`, `DriverIsChannel`, `SystemTypeCorrect`. None of
these properties is inductive, because what decides them is how far the driver
is from `StateIdle` (`Due`) against how long the master still rests. `Schedule`
says this for each place a request can be in:

* while `WaitReq_SO` is high since a reset (`ClosedSchedule`) nothing is
  accepted and the stages hold the one request the master holds;
* afterwards (`OpenSchedule`) a request is on the bus at most two periods before
  the driver is idle, so its edge meets `StateIdle`;
* an accepted request that is not yet strobed is in exactly one of stage S,
  stage P with its edge, or the registers (`PendingPlace`);
* registers, lanes and pins agree during a transmission (`Transmission`).

The proof has one lemma per state of the driver. `DriverIsChannel` is the safety
part of the refinement of `LcdChannel`; liveness (`ItemsSent`, `WritesComplete`)
is checked by TLC only, as TLAPS does not reason about fairness here. What is
proved instead is the bound that liveness leaves open, as properties of steps:

* `WritesSentOnTime`: an accepted request is strobed exactly seven clock periods
  after its acceptance, four if `WaitReq_SO` had held it, or a reset comes
  between. `Remaining` counts down through the places of `PendingPlace`.
* `WritesAcceptedOnTime`: if the master waits as long as the panel's reset lasts
  (`BootTicks >= ResetTicks`) a write is held for three periods at most. This
  needs no gap and allows bursts: its invariant `InTime` is about the time before
  the first acceptance only, after which `WaitReq_SO` stays low until a reset.
* `EarlyWriteBlocksTheBus`: a write on the bus while the reset still counts
  (`idleCount > 0`) has `Missed`: its edge is over before `StateIdle`. `Missed`
  stays true, the write stays on the bus and nothing is sent, until a reset. So
  the condition of the theorem before is the right one.

On top of these, for every program of stores (`LcdSoftware`), `CommandsComeAsData`:
between the beginning of a store and of the next one the panel gets exactly one
strobe if it is a command, with the command as data, and none if it is data. `sends`
counts the strobes since the store began; `StoreInv` says which store the bus, the
item under way and the last item strobed belong to. Like all of this module it is
about a bus that raises no `beginbursttransfer`.

`DmaProofs`, for any traffic on both ports: `DmaTypeCorrect`; `DmaIsCopier`, the
safety part of `ImplementsCopier`, by the type invariant and one case per state (the
word written is the valid data of the last period of reading);
`WritesDoNothing` and `NoWaitNoWord`, which state for every behaviour what the
DMA cannot do (under the assumption that the CPU never reads,
and that the bus never asks to wait). On the bus: `DmaSystemTypeCorrect`,
`WordAtMostTwice`, `RepeatedWriteEnds`. "At most twice" is not inductive; what
is, is `LastPeriod`: once the destination has taken the word, the sampled wait
request is low, so the period that repeats it is the last one. `FreshIfQuiet` is
the other side of the run `DmaStale`: the word written is the one at the source
if the CPU changes the source only while no read is on its way and no answer has
just come (`QuietChange`). Then all reads on the way ask the present source,
which is the invariant (`SettledInv`).

`JtagUartProofs`, for rings and FIFOs of any size, any timeouts and any number of
bytes: `JtagTypeCorrect`, `NothingIsStranded`, `ReaderWakesTheDevice`,
`SpinnersHaveNothingToDo`, `WritesArePiped`, `ReadsArePiped`. What holds at run
time rests on what a call knows although the handler moves an index after the
call has read it: a call that copies has its part of the ring for itself, because
the handler only ever makes more room (`WriterHasRoom`, `ReaderHasBytes`); the
handler offers the device no more than fits (`DeviceHasRoom`); a call that spins
has seen a full or an empty ring and has moved nothing since (`SpinnersKnow`).
These, the type invariant and the two interrupt properties are inductive together
(`ControlInv`). What is in the rings is a second invariant on top: the slots from
`out` to `in` hold consecutive bytes that end with the last one put in, and those
a call has copied and not published continue them. The refinement of the pipes
follows step by step.

`HalAlarmProofs`, for any number of alarms, any width of the counter, any delays
and periods, and whatever the callbacks start and stop. In `ListStaysSound`, that a
walk from the head meets every alarm is stated without recursion: no non-empty
set of alarms is closed under `next`. `AlarmsAreOnTime` is a refinement: alarms go off
on the tick asked for and only then. The invariant of it, of `WalkStaysInList` and
of `AstrayForEver`, `WalkInv`, says that there is a set `S`, the part of the list
the walk has still ahead, closed towards the end of the list; alarms in it are due at
this tick or wait, those outside wait, except the one whose callback runs. A tick
puts the whole list in `S`, each round takes one alarm out, and a callback that
starts or stops an alarm changes one side or the other. Once astray the walk passes
no alarm by, because the tick counter stands still.

`AvalonDmaProofs`, for any number of slots and any lengths. `AvalonTypeCorrect`
and `QueuesNeverStall` hold whatever the callbacks post, `Reentrant` or not: their
invariant (`AwakeInv`) adds to the two that the driver takes the device for running
only when it is, and launches only with the device idle and the handler off
(`LaunchInv`). Two posts that take one slot lose a request, but no index leaves its
array and no launch is forgotten. `DeviceWorksAtHead` needs that no callback posts to
the channel the program is just posting to (`~Reentrant`): then the slot of a post
is still the end of a queue with room (`PostInv`), and `launch` leaves out only a
queue that the handler leaves alone (`ModeInv`).
`AvalonPipeProofs` builds on it: `SendsArePiped` and `ReceivesArePiped`. Their
invariant places every request that was not called back by its distance behind
the end of the queue (`QueueInv`), the one whose slot the handler has given back
and still holds included; one slot is always free, so a post never takes that one.

`Lab3Proofs`, for a ring of any size, messages of any length and any number of
counts: `Lab3TypeCorrect`, `ValuesAreReportedOnce`, `FullRingHangs`,
`PrintsStayInOrder`, `TwoWritersOnePipe`. A value is
news as long as `isNew` is set and main is not just about to clear it
(`NewsAreNew`), which no cut of the handler changes. The handler waits for an
index that it has read itself and that nobody moves while it runs
(`HandlerAlone`), and the host is believed active for ever as no alarm counts
(`HostBelieved`). The two writers are one instance of `JtagUartProofs` each, for
`call` and for `hcall`. Even when they overlap, each keeps inside the buffer,
because what a call copies at once ends at the end of the buffer, whatever the other
does to the index (`WritesFit`), and the type invariant of both follows
(`Lab3TypeOK`). As long as they have not overlapped, main has nothing copied and
unpublished while the handler runs, so the ring holds consecutive bytes up to the
last one put (`WritesTakeTurns`); a step either keeps this and maps to a step of
`BytePipe`, or makes `overlapped` true: the handler enters after main has read
`tx_in` and before it has stored it. `InOrderUnlessOverlapped` follows.

TLC only: every liveness property (`WritesComplete`, `ItemsSent`, `WritesReturn`,
`BytesGoOut`, `TickEnds`, `TransfersComplete`, `FinishesOrHangs`, the fairness
part of the channel and the copier), as TLAPS does not reason about fairness
here. Every invariant and every action property of the passing runs is proved.

## Mutations

Next to a definition stand variants of it with a bug someone could have written
(an edge taken one stage late, an index read again after it moved, an interrupt
turned off too early, a slot reused too soon...); for each
property of a passing run `PROJECT.json` names one that breaks it. They are used
nowhere else.

## How the project was built, and what could follow

In this order: the driver with its channel and system, the DMA master with its
copier and bus, then the software: `LcdSoftware`, the UART driver with its pipe,
alarms with their clock, lab 3 on the UART driver, and the Avalon DMA driver. What
could follow: the slave translator's `beginbursttransfer` in front of the driver
as a module of its own (its consequence is `OneWordPerReset`), the alarm that
calls the UART driver's timeout composed with the driver (`Timeout` is free to
happen at any moment now, which allows more), and bounds like those of
`LcdSystemProofs` for the calls of the UART driver and the walk over the alarms.

## Not modelled

* Parallel port: a register file; a write is one assignment, there is no
  sequence or concurrency to model.
* Interconnect, CPU, SDRAM controller, UART core, timer, PLLs: vendor blocks
  generated by Qsys. What the modelled parts see of them is in the modules (the
  bus of `LcdSystem`, the memory of `DmaSystem`, the UART's FIFOs and interrupt,
  the DMA device).
* The rest of the HAL (start-up code, system call stubs, `usleep`, register
  accesses, logging): code without state, or state nothing here shares.
* Picture data and project files; most of the repository's lines are pictures
  (three arrays of 4807 lines) and headers of constants.
* Of the modelled drivers: the small UART driver (not compiled here), an operating
  system's semaphores, what calls return, Avalon DMA's `ioctl` from callbacks,
  transfers of length zero, and how much of a cut send was sent.
* Electrical timing below a clock period; the panel's own behaviour beyond taking
  words at the strobe; metastability of the bus inputs (they come from the same
  clock domain).
