-------------------------------- MODULE Lab3 ---------------------------------
(***************************************************************************)
(* The timer laboratory (lab3ParPortAndTimers/main.c): the main loop and   *)
(* the timer's interrupt handler share a counter, and both print, so both  *)
(* run altera_avalon_jtag_uart_write on the one transmit ring.  The        *)
(* handler runs with interrupts disabled.                                  *)
(*                                                                         *)
(* The handler takes the timer over from the HAL's system clock, so no     *)
(* alarm goes off any more: Timeout of JtagUart does not happen here and   *)
(* host_inactive stays what it was.  The store of main.c:52 is not to the  *)
(* timer's control register (it is 1 byte, not 1 register, past the base); *)
(* the timer runs because the HAL started it.  A printf is one write; the  *)
(* messages before the loop are one message too, nothing happens between   *)
(* them.                                                                   *)
(***************************************************************************)
EXTENDS JtagUart

CONSTANTS
  CountMax,   \* COUNT_MAX
  SetupLen,   \* characters printed before the loop, with interrupts disabled
  ReportLen,  \* "New counter value: ..."
  PinLen,     \* "New pin value: ..."
  MaxValue    \* bound: the handler counts no further

ASSUME Lab3Assumption == {CountMax, SetupLen, ReportLen, PinLen, MaxValue} \subseteq Nat

VARIABLES
  pc,         \* where main is
  enabled,    \* interrupts are enabled in main
  value,      \* downTimer.value
  isNew,      \* downTimer.isNew
  expired,    \* the TO bit of the timer's status register: its interrupt
  handling,   \* handle_timerIRQ is running
  hcall,      \* the handler's call of write, as call is main's
  reported,   \* history: the value main printed last
  overlapped  \* history: the handler wrote in the middle of main's write

counterVars == <<value, isNew, reported>>
labVars  == <<pc, enabled, counterVars, expired, handling, overlapped>>
lab3Vars == <<jtagVars, labVars, hcall>>

Handler == INSTANCE JtagUart WITH call <- hcall

Lab3Init ==
  /\ Init /\ hcall = IdleCall
  /\ pc = "setup" /\ enabled = FALSE
  /\ value = 0 /\ isNew = FALSE /\ reported = 0
  /\ expired \in BOOLEAN /\ handling = FALSE /\ overlapped = FALSE

-----------------------------------------------------------------------------
(* main, which runs when no handler does.                                  *)

MainAt(p) == pc = p /\ call.pc = "idle" /\ isr.pc = "off" /\ ~handling

(* Lines 40 to 59: the handler is registered and the pending interrupt     *)
(* cleared; everything is printed with interrupts disabled.                *)
Setup ==
  /\ MainAt("setup")
  /\ expired' = FALSE
  /\ pc' = "enable"
  /\ StartWrite(SetupLen, FALSE)
  /\ UNCHANGED <<enabled, counterVars, handling, overlapped, hcall>>

EnableInterrupts ==
  /\ MainAt("enable")
  /\ enabled' = TRUE
  /\ pc' = "loop"
  /\ UNCHANGED <<jtagVars, counterVars, expired, handling, overlapped, hcall>>

(* Bugs that the properties must find stand before the definition they are *)
(* a bug of, with the properties that find them: here the loop tests what  *)
(* was read of the counter before it, as of a compiler that optimises (the *)
(* counter is not volatile; the build is -O0) (FinishesOrHangs).           *)
LoopCached ==
  /\ MainAt("loop")
  /\ pc' = IF isNew THEN "report" ELSE "loop"
  /\ UNCHANGED <<jtagVars, enabled, counterVars, expired, handling, overlapped, hcall>>

(* The loop's condition, and its body when there is something new.         *)
Loop ==
  /\ MainAt("loop")
  /\ pc' = IF value >= CountMax THEN "done" ELSE IF isNew THEN "report" ELSE "loop"
  /\ UNCHANGED <<jtagVars, enabled, counterVars, expired, handling, overlapped, hcall>>

Report ==
  /\ MainAt("report")
  /\ reported' = value
  /\ pc' = "clear"
  /\ StartWrite(ReportLen, FALSE)
  /\ UNCHANGED <<enabled, value, isNew, expired, handling, overlapped, hcall>>

(* Bug: isNew stays set (ReportsAdvance).                                  *)
ClearNewNever ==
  /\ MainAt("clear")
  /\ pc' = "loop"
  /\ UNCHANGED <<jtagVars, enabled, counterVars, expired, handling, overlapped, hcall>>

ClearNew ==
  /\ MainAt("clear")
  /\ isNew' = FALSE
  /\ pc' = "loop"
  /\ UNCHANGED <<jtagVars, enabled, value, reported, expired, handling, overlapped, hcall>>

(* A step of the write that main is in.                                    *)
MainWrites == ~handling /\ WriteNext /\ UNCHANGED <<labVars, hcall>>

Main == Setup \/ EnableInterrupts \/ Loop \/ Report \/ ClearNew \/ MainWrites

-----------------------------------------------------------------------------
(* Interrupts.                                                             *)

TimerExpires ==
  /\ ~expired /\ expired' = TRUE
  /\ UNCHANGED <<jtagVars, pc, enabled, counterVars, handling, overlapped, hcall>>

(* handle_timerIRQ up to its printf.                                       *)
HandlerEnters ==
  /\ expired /\ enabled /\ isr.pc = "off" /\ ~handling
  /\ value < MaxValue
  /\ handling' = TRUE
  /\ value' = value + 1
  /\ isNew' = TRUE
  /\ overlapped' = (overlapped \/ call.pc \in {"w_copy", "w_publish"})
  /\ Handler!StartWrite(PinLen, FALSE)
  /\ UNCHANGED <<pc, enabled, expired, reported, call>>

HandlerWrites == handling /\ Handler!WriteNext /\ UNCHANGED <<labVars, call>>

(* Bug: returns before its printf does (Lab3TypeOK).                       *)
HandlerReturnsEarly ==
  /\ handling
  /\ handling' = FALSE
  /\ expired' = FALSE
  /\ UNCHANGED <<jtagVars, pc, enabled, counterVars, overlapped, hcall>>

(* Its end: only now the timer's interrupt is cleared.                     *)
HandlerReturns ==
  /\ handling /\ hcall.pc = "idle"
  /\ handling' = FALSE
  /\ expired' = FALSE
  /\ UNCHANGED <<jtagVars, pc, enabled, counterVars, overlapped, hcall>>

(* Bug: the UART's handler interrupts the timer's (SpinningHandlerHangs).  *)
UartInterruptNested ==
  /\ enabled
  /\ IsrNext
  /\ UNCHANGED <<labVars, hcall>>

(* The UART's handler.                                                     *)
UartInterrupt ==
  /\ enabled /\ ~handling
  /\ IsrNext
  /\ UNCHANGED <<labVars, hcall>>

Host == HostPoll /\ UNCHANGED <<labVars, hcall>>

Processor == Main \/ HandlerWrites \/ HandlerReturns \/ UartInterrupt

Lab3Next == Processor \/ HandlerEnters \/ TimerExpires \/ Host

(* The processor executes and takes interrupts, and the timer runs.        *)
Lab3Spec ==
  /\ Lab3Init /\ [][Lab3Next]_lab3Vars
  /\ WF_lab3Vars(Main) /\ WF_lab3Vars(HandlerWrites \/ HandlerReturns)
  /\ WF_lab3Vars(UartInterrupt)
  /\ WF_lab3Vars(HandlerEnters) /\ WF_lab3Vars(TimerExpires)

-----------------------------------------------------------------------------
(* Properties.                                                             *)

(* The laboratory's own variables.                                         *)
LabTypeOK ==
  /\ pc \in {"setup", "enable", "loop", "report", "clear", "done"}
  /\ enabled \in BOOLEAN /\ expired \in BOOLEAN /\ handling \in BOOLEAN
  /\ isNew \in BOOLEAN /\ overlapped \in BOOLEAN
  /\ value \in 0..MaxValue /\ reported \in 0..value
  /\ hcall.pc \in Pcs /\ (hcall.pc # "idle" => handling)

(* Every variable has its type: whatever two writers in one ring do to its *)
(* bytes, no index leaves the buffer and no count goes below 0 (write.c    *)
(* lines 106 to 126), and no printf outlives its handler.                  *)
Lab3TypeOK == LabTypeOK /\ TypeOK /\ Handler!TypeOK

(* Main never prints a value twice, however the handler's updates of value *)
(* and isNew fall between its test, its printf and its reset of isNew      *)
(* (main.c:65-68, 86-87).                                                  *)
ReportsAdvance == pc = "report" => value > reported

(* The two writers spoil the transmit ring only when the handler comes     *)
(* between main's reading tx_in and storing it (write.c:106-126).          *)
InOrderUnlessOverlapped == overlapped \/ \A i \in 1..Len(sent) : sent[i] = i

(* A handler that spins in its printf does so for ever: with interrupts    *)
(* disabled nothing takes a byte from the ring, and with the alarms        *)
(* stopped host_inactive never reaches the timeout (write.c:183).          *)
SpinningHandlerHangs ==
  [][hcall.pc = "w_wait" => hcall'.pc = "w_wait"]_lab3Vars

(* The host takes what the device has for it.                              *)
HostReads == WF_lab3Vars(Host)

(* Main waits for tx_out to move, but the handler has put bytes through    *)
(* the ring behind its back and tx_out has come round to where it was: the *)
(* ring is empty and only another timer interrupt moves tx_out.            *)
Overtaken == call.pc = "w_wait" /\ txOut = call.out /\ txIn = txOut

(* With a host that reads, main gets to the end of its loop, unless the    *)
(* handler, or a printf with interrupts disabled, meets a full ring        *)
(* (main.c:65-72, 90; write.c:183); or else it is overtaken at the last    *)
(* interrupt of the model and waits for the next one.                      *)
FinishesOrHangs ==
  HostReads =>
    \/ <>(pc = "done" \/ hcall.pc = "w_wait" \/ (~enabled /\ call.pc = "w_wait"))
    \/ <>[](Overtaken /\ value = MaxValue)

=============================================================================
