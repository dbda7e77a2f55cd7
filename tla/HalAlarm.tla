------------------------------ MODULE HalAlarm -------------------------------
(***************************************************************************)
(* The alarms of the HAL: a doubly linked list of alarms, each with the    *)
(* tick it is due at, that alt_tick walks in the system clock's interrupt. *)
(* The program starts and stops alarms between two interrupts and the      *)
(* callbacks do so in the middle of the walk, each call a critical section *)
(* and so one step.                                                        *)
(*                                                                         *)
(* Callbacks may stop any alarm, their own and the one the walk would go   *)
(* on with included.  What is left out: an alarm is started only while it  *)
(* does not run, and not by its own callback, which asks for its next tick *)
(* by its return value; it is stopped only after it was first started (one *)
(* that never was points to itself here, as a stopped one does).           *)
(***************************************************************************)
EXTENDS Naturals

CONSTANTS
  Alarms,        \* the alarm structures
  Head,          \* alt_alarm_list
  Span,          \* 2^32, the values of the tick counter
  Delays,        \* the nticks that alarms are started with
  Periods        \* what callbacks return

ASSUME AlarmAssumption ==
  /\ Head \notin Alarms
  /\ Span \in Nat /\ Span > 1
  /\ Delays \subseteq 0..Span - 2
  /\ Periods \subseteq 0..Span - 1

VARIABLES
  nticks,        \* _alt_nticks
  next, prev,    \* llist.next and llist.previous of the alarms and the head
  time,          \* the tick an alarm is due at
  rollover,      \* alarm->rollover
  scan,          \* alt_tick: where it is, with its locals alarm and next
  armed,         \* history: the alarms that were started and not stopped
  asked          \* history: the ticks last asked for each of them

listVars  == <<next, prev>>
alarmVars == <<nticks, listVars, time, rollover, scan, armed, asked>>

Entry == Alarms \cup {Head}

(* Bugs that the properties must find stand before the definition they are *)
(* a bug of, with the properties that find them: here a sum that outgrows  *)
(* its 32 bits (TypeOK).                                                   *)
PlusWide(x, y) == x + y

(* Unsigned addition of the 32-bit counter.                                *)
Plus(x, y) == IF x + y < Span THEN x + y ELSE x + y - Span

ScanOff == [pc |-> "off", alarm |-> Head, next |-> Head]

Init ==
  /\ nticks = 0
  /\ next = [e \in Entry |-> e] /\ prev = [e \in Entry |-> e]
  /\ time = [a \in Alarms |-> 0] /\ rollover = [a \in Alarms |-> FALSE]
  /\ scan = ScanOff
  /\ armed = {} /\ asked = [a \in Alarms |-> 0]

-----------------------------------------------------------------------------
(* alt_llist.h.                                                            *)

(* Bug: the head is linked to the new entry before its old next entry is   *)
(* read (TickEnds).                                                        *)
InsertSwapped(e) ==
  /\ next' = [next EXCEPT ![e] = e, ![Head] = e]
  /\ prev' = [prev EXCEPT ![e] = e]

(* alt_llist_insert: the new entry becomes the first one.                  *)
Insert(e) ==
  /\ next' = [next EXCEPT ![e] = next[Head], ![Head] = e]
  /\ prev' = [prev EXCEPT ![e] = Head, ![next[Head]] = e]

(* Bug: the removed entry keeps its links (ListSound).                     *)
RemoveLoose(e) ==
  /\ next' = [next EXCEPT ![prev[e]] = next[e]]
  /\ prev' = [prev EXCEPT ![next[e]] = prev[e]]

(* alt_llist_remove: removing an entry again is harmless.                  *)
Remove(e) ==
  /\ next' = [next EXCEPT ![prev[e]] = next[e], ![e] = e]
  /\ prev' = [prev EXCEPT ![next[e]] = prev[e], ![e] = e]

-----------------------------------------------------------------------------
(* Calls of the program, with no tick under way, and of callbacks.         *)

InCallback == scan.pc = "callback"
Calls      == scan.pc = "off" \/ InCallback

(* Bug: an alarm due after the roll-over is started like any other         *)
(* (ImplementsClock).                                                      *)
StartAlarmEarly(a, n) ==
  /\ Calls /\ a \notin armed
  /\ InCallback => a # scan.alarm
  /\ time' = [time EXCEPT ![a] = Plus(Plus(n, nticks), 1)]
  /\ rollover' = [rollover EXCEPT ![a] = FALSE]
  /\ Insert(a)
  /\ armed' = armed \cup {a} /\ asked' = [asked EXCEPT ![a] = n]
  /\ UNCHANGED <<nticks, scan>>

(* alt_alarm_start.                                                        *)
StartAlarm(a, n) ==
  /\ Calls /\ a \notin armed
  /\ InCallback => a # scan.alarm
  /\ time' = [time EXCEPT ![a] = Plus(Plus(n, nticks), 1)]
  /\ rollover' = [rollover EXCEPT ![a] = Plus(Plus(n, nticks), 1) < nticks]
  /\ Insert(a)
  /\ armed' = armed \cup {a} /\ asked' = [asked EXCEPT ![a] = n]
  /\ UNCHANGED <<nticks, scan>>

(* alt_alarm_stop.                                                         *)
StopAlarm(a) ==
  /\ Calls
  /\ Remove(a)
  /\ armed' = armed \ {a} /\ asked' = [asked EXCEPT ![a] = 0]
  /\ UNCHANGED <<nticks, time, rollover, scan>>

-----------------------------------------------------------------------------
(* alt_tick.                                                               *)

Tick ==
  /\ scan.pc = "off"
  /\ nticks' = Plus(nticks, 1)
  /\ scan' = [pc |-> "scan", alarm |-> next[Head], next |-> Head]
  /\ UNCHANGED <<listVars, time, rollover, armed, asked>>

(* One round of the walk, up to the callback of an alarm that is due.      *)
Scan ==
  /\ scan.pc = "scan" /\ scan.alarm # Head
  /\ LET a       == scan.alarm
         rolling == rollover[a] /\ nticks # 0
     IN  /\ rollover' = [rollover EXCEPT ![a] = rolling]
         /\ scan' = IF time[a] <= nticks /\ ~rolling
                      THEN [pc |-> "callback", alarm |-> a, next |-> next[a]]
                      ELSE [pc |-> "scan", alarm |-> next[a], next |-> Head]
  /\ UNCHANGED <<nticks, listVars, time, armed, asked>>

(* Bug: the next alarm is looked up after the callback's alarm was removed *)
(* (WalkKeepsToList).                                                      *)
CallbackReturnsLate(period) ==
  /\ InCallback
  /\ LET a   == scan.alarm
         due == Plus(time[a], period)
     IN  /\ IF period = 0
              THEN /\ Remove(a)
                   /\ armed' = armed \ {a}
                   /\ UNCHANGED <<time, rollover>>
              ELSE /\ time' = [time EXCEPT ![a] = due]
                   /\ rollover' = [rollover EXCEPT ![a] = @ \/ due < nticks]
                   /\ UNCHANGED <<listVars, armed>>
         /\ asked' = IF a \in armed THEN [asked EXCEPT ![a] = period] ELSE asked
  /\ scan' = [pc |-> "scan", alarm |-> next'[scan.alarm], next |-> Head]
  /\ UNCHANGED nticks

(* The callback returns: zero stops the alarm.                             *)
CallbackReturns(period) ==
  /\ InCallback
  /\ LET a   == scan.alarm
         due == Plus(time[a], period)
     IN  /\ IF period = 0
              THEN /\ Remove(a)
                   /\ armed' = armed \ {a}
                   /\ UNCHANGED <<time, rollover>>
              ELSE /\ time' = [time EXCEPT ![a] = due]
                   /\ rollover' = [rollover EXCEPT ![a] = @ \/ due < nticks]
                   /\ UNCHANGED <<listVars, armed>>
         /\ asked' = IF a \in armed THEN [asked EXCEPT ![a] = period] ELSE asked
  /\ scan' = [pc |-> "scan", alarm |-> scan.next, next |-> Head]
  /\ UNCHANGED nticks

TickReturns ==
  /\ scan.pc = "scan" /\ scan.alarm = Head
  /\ scan' = ScanOff
  /\ UNCHANGED <<nticks, listVars, time, rollover, armed, asked>>

Walk == Scan \/ TickReturns \/ \E p \in Periods : CallbackReturns(p)

Client == \E a \in Alarms : StopAlarm(a) \/ \E n \in Delays : StartAlarm(a, n)

Next == Tick \/ Walk \/ Client

(* The walk runs with interrupts off, and callbacks return.                *)
Spec == Init /\ [][Next]_alarmVars /\ WF_alarmVars(Walk)

-----------------------------------------------------------------------------
(* Properties.                                                             *)

Ticks == 0..Span - 1

(* Every variable has its type.                                            *)
TypeOK ==
  /\ nticks \in Ticks
  /\ next \in [Entry -> Entry] /\ prev \in [Entry -> Entry]
  /\ time \in [Alarms -> Ticks] /\ rollover \in [Alarms -> BOOLEAN]
  /\ scan \in [pc : {"off", "scan", "callback"}, alarm : Entry, next : Entry]
  /\ armed \subseteq Alarms /\ asked \in [Alarms -> Ticks]

InList == armed \cup {Head}

(* The list is one ring of the head and the running alarms: the links undo *)
(* each other and stay among them, and no set of alarms is closed in       *)
(* itself, so that a walk from the head meets every running alarm; any     *)
(* other alarm points to itself (alt_llist.h:90-117).                      *)
ListSound ==
  /\ \A e \in InList : /\ next[e] \in InList /\ prev[next[e]] = e
                       /\ prev[e] \in InList /\ next[prev[e]] = e
  /\ \A S \in SUBSET armed : S # {} => \E a \in S : next[a] \notin S
  /\ \A a \in Alarms \ armed : next[a] = a /\ prev[a] = a

(* Where the walk goes on, and whether it has left the list for good: the  *)
(* entry it goes on with points to itself.                                 *)
Place    == IF InCallback THEN scan.next ELSE scan.alarm
WalkIsIn == Place \in InList
Astray   == ~WalkIsIn /\ (InCallback => scan.next = scan.alarm)

(* The walk holds on to the next alarm over a callback, which may start    *)
(* and stop any alarms (alt_tick.c:102, 140): that takes it out of the     *)
(* list only when a callback stops the very alarm it would go on with.     *)
WalkKeepsToList ==
  [][WalkIsIn /\ ~WalkIsIn'
       => InCallback /\ scan' = scan /\ scan.next \in armed \ armed']_alarmVars

(* Alarms go off when they are due and only then, over the roll-over of    *)
(* the counter, for every delay up to 2^32 - 2 ticks (alt_tick.c:109-138,  *)
(* alt_alarm_start.c:80-96).                                               *)
TicksLeft == [a \in Alarms |->
  IF a \notin armed THEN Span
  ELSE IF time[a] >= nticks THEN time[a] - nticks ELSE time[a] + Span - nticks]
Clock == INSTANCE AlarmClock WITH left <- TicksLeft, Stopped <- Span
ImplementsClock == Clock!ClockSpec

(* The walk ends, though callbacks put alarms in the list while it runs,   *)
(* unless it went astray so, when it never does (alt_tick.c:100-141).      *)
TickEnds == scan.pc # "off" ~> scan.pc = "off" \/ Astray

=============================================================================
