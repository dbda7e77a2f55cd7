----------------------------- MODULE DmaSystem ------------------------------
(***************************************************************************)
(* The DMA master on its bus: a source that accepts reads and answers them *)
(* in order, at the earliest in the period after, and a destination that   *)
(* accepts writes.  Both may ask the master to wait in any period.  This   *)
(* is what an Avalon-MM master with pipelined reads is connected to        *)
(* (new_component_hw.tcl); arbitration with the CPU shows as wait requests.*)
(***************************************************************************)
EXTENDS DmaMaster, Sequences

CONSTANTS
  Memory,   \* the word at each source address
  MaxAsked  \* reads the source takes before it makes the master wait

ASSUME MemoryAssumption == Memory \in [Value \X Value -> Value]
ASSUME MaxAskedAssumption == MaxAsked \in Nat \ {0}

VARIABLES
  asked,  \* the addresses of the reads accepted and not yet answered
  stored  \* how often the word being written was accepted

systemVars == <<dmaVars, asked, stored>>

SystemTypeOK ==
  /\ TypeOK
  /\ asked \in Seq(Value \X Value) /\ Len(asked) <= MaxAsked
  /\ stored \in Nat

(* What the bus may drive in this period.                                  *)
Fabric(a) ==
  /\ a.valid => asked # <<>> /\ a.data = Memory[Head(asked)]
  /\ MasterRead /\ Len(asked) = MaxAsked => a.wait

Waiting(a)  == IF a.valid THEN Tail(asked) ELSE asked
Accepted(a) == IF MasterRead /\ ~a.wait THEN <<Source>> ELSE <<>>

(* One period of the master and its bus.                                   *)
SystemPeriod(c, a) ==
  /\ Fabric(a)
  /\ Cycle(c, a)
  /\ asked' = Waiting(a) \o Accepted(a)
  /\ stored' = IF ~MasterWrite THEN 0 ELSE IF a.wait THEN stored ELSE stored + 1

(* The reset line also resets the bus.                                     *)
SystemReset == Reset /\ asked' = <<>> /\ stored' = 0

SystemInit == Init /\ asked = <<>> /\ stored = 0

SystemNext == (\E c \in CpuInputs, a \in Answers : SystemPeriod(c, a)) \/ SystemReset

(* As for the master alone: the clock does not stop, and nobody makes the  *)
(* master wait for ever.                                                   *)
SystemSpec ==
  /\ SystemInit /\ [][SystemNext]_systemVars
  /\ WF_systemVars(\E c \in CpuInputs, a \in Answers : SystemPeriod(c, a))
  /\ WF_systemVars(\E c \in CpuInputs, a \in Answers : ~a.wait /\ SystemPeriod(c, a))

-----------------------------------------------------------------------------
(* StateTx judges by the wait request of the period before, so it may      *)
(* repeat a write that was accepted, but only once: the destination never  *)
(* takes a word three times.                                               *)
AtMostTwice == stored <= 2

(* Why: a write that was accepted and goes on ends in this period.         *)
LastPeriod == MasterWrite /\ stored > 0 => stored = 1 /\ ~m.wait

(* The word written is the word at the source the CPU programmed, not the  *)
(* answer to a read asked before the CPU changed it.                       *)
FreshWord == MasterWrite => reg["data"] = Memory[Source]

=============================================================================
