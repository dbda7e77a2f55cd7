----------------------------- MODULE AlarmClock ------------------------------
(***************************************************************************)
(* What the HAL's alarms promise: an alarm goes off at the tick it was     *)
(* asked for, counted from its start or from when it last went off, never  *)
(* earlier, and the clock does not pass it by.                             *)
(***************************************************************************)
EXTENDS Naturals

CONSTANTS Alarms, Span, Stopped

VARIABLES
  left,          \* ticks until each alarm goes off, or Stopped
  asked          \* the ticks it was last asked to wait

clockVars == <<left, asked>>

ClockInit == left = [a \in Alarms |-> Stopped] /\ asked = [a \in Alarms |-> 0]

(* Alarm a goes off after l ticks, as n were asked for.                    *)
Set(a, n, l) == asked' = [asked EXCEPT ![a] = n] /\ left' = [left EXCEPT ![a] = l]

(* A program's or a callback's call: n full ticks, not counting the one    *)
(* under way.                                                              *)
Arm(a)    == left[a] = Stopped /\ \E n \in 0..Span - 2 : Set(a, n, n + 1)
Disarm(a) == Set(a, 0, Stopped)

(* The callback of an alarm that is due has run and asked for the next one *)
(* in n ticks.                                                             *)
GoOff(a) == left[a] = 0 /\ \E n \in 1..Span - 1 : Set(a, n, n)

(* A tick, when every alarm that was due has gone off.                     *)
Advance ==
  /\ \A a \in Alarms : left[a] # 0
  /\ left' = [a \in Alarms |-> IF left[a] = Stopped THEN Stopped ELSE left[a] - 1]
  /\ UNCHANGED asked

ClockNext == Advance \/ \E a \in Alarms : Arm(a) \/ Disarm(a) \/ GoOff(a)

ClockSpec == ClockInit /\ [][ClockNext]_clockVars

=============================================================================
