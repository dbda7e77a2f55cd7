--------------------------- MODULE HalAlarmProofs ----------------------------
(***************************************************************************)
(* Theorems about the HAL's alarms, for any number of alarms, any width of *)
(* the tick counter and any delays and periods, whatever the callbacks     *)
(* start and stop: the list is sound, the walk leaves it only when a       *)
(* callback stops the very alarm it would go on with, and as long as ticks *)
(* are counted alarms are on time.  The invariant behind it says which     *)
(* alarms the walk still has ahead of it.                                  *)
(***************************************************************************)
EXTENDS HalAlarm, TLAPS

(* Between two steps of the walk its locals are these.                     *)
ScanShape ==
  /\ scan.pc = "off" => scan.alarm = Head /\ scan.next = Head
  /\ scan.pc = "scan" => scan.next = Head
  /\ InCallback => scan.alarm \in Alarms

ListInv == TypeOK /\ ListSound /\ ScanShape

(* S is the part of the list from there to the list's end.                 *)
Ahead(S) ==
  /\ S \subseteq armed
  /\ Place \in S \/ (Place = Head /\ S = {})
  /\ \A s \in S : next[s] \in S \cup {Head} /\ (prev[s] \in S <=> s # Place)

(* An alarm the walk has passed, or that is started, waits for its tick.   *)
Waits(a) == time[a] # nticks /\ (rollover[a] <=> time[a] < nticks)

(* One the walk may have ahead of it is due at this tick or waits; at tick *)
(* zero the walk has yet to take back its roll-over.                       *)
Fits(a) == (rollover[a] <=> time[a] < nticks) \/ (nticks = 0 /\ rollover[a])

(* The alarm whose callback runs.                                          *)
GoingOff(a) == InCallback /\ a = scan.alarm /\ time[a] = nticks /\ ~rollover[a]

Known ==
  /\ \A a \in armed : Fits(a)
  /\ InCallback => scan.alarm # scan.next
  /\ InCallback /\ scan.alarm \in armed => GoingOff(scan.alarm)

Timed(S) ==
  /\ Ahead(S)
  /\ \A a \in armed \ S : Waits(a) \/ GoingOff(a)

(* A callback that has stopped the next alarm may start it again before it *)
(* returns: the walk is out of the list then, but not astray yet.          *)
WalkInv ==
  /\ ListInv
  /\ Astray \/ (Known /\ (WalkIsIn => \E S \in SUBSET armed : Timed(S)))

-----------------------------------------------------------------------------
(* The list.                                                               *)

(* What the links are after an insertion of an alarm that is not listed.   *)
LEMMA InsertLinks ==
  ASSUME TypeOK, ListSound, NEW e \in Alarms \ armed, Insert(e)
  PROVE  /\ next' \in [Entry -> Entry] /\ prev' \in [Entry -> Entry]
         /\ next[Head] \in Entry /\ next[Head] # e /\ e # Head
         /\ \A x \in Entry : next'[x] = IF x = Head THEN e
                                        ELSE IF x = e THEN next[Head] ELSE next[x]
         /\ \A x \in Entry : prev'[x] = IF x = next[Head] THEN e
                                        ELSE IF x = e THEN Head ELSE prev[x]
<1>1. /\ next \in [Entry -> Entry] /\ prev \in [Entry -> Entry]
      /\ e \in Entry /\ Head \in Entry /\ e # Head
  BY AlarmAssumption DEF TypeOK, Entry
<1>2. next[Head] \in Entry /\ next[Head] # e
  BY <1>1 DEF ListSound, InList
<1>3. /\ next' = [next EXCEPT ![e] = next[Head], ![Head] = e]
      /\ prev' = [prev EXCEPT ![e] = Head, ![next[Head]] = e]
  BY DEF Insert
<1>4. QED
  BY <1>1, <1>2, <1>3

(* And after a removal, also of an alarm that is not listed.               *)
LEMMA RemoveLinks ==
  ASSUME TypeOK, ListSound, NEW e \in Alarms, Remove(e)
  PROVE  /\ next' \in [Entry -> Entry] /\ prev' \in [Entry -> Entry]
         /\ next[e] \in Entry /\ prev[e] \in Entry
         /\ \A x \in Entry : next'[x] = IF x = e THEN e
                                        ELSE IF x = prev[e] THEN next[e] ELSE next[x]
         /\ \A x \in Entry : prev'[x] = IF x = e THEN e
                                        ELSE IF x = next[e] THEN prev[e] ELSE prev[x]
<1>1. /\ next \in [Entry -> Entry] /\ prev \in [Entry -> Entry] /\ e \in Entry
  BY DEF TypeOK, Entry
<1>2. next[e] \in Entry /\ prev[e] \in Entry
  BY <1>1
<1>3. /\ next' = [next EXCEPT ![prev[e]] = next[e], ![e] = e]
      /\ prev' = [prev EXCEPT ![next[e]] = prev[e], ![e] = e]
  BY DEF Remove
<1>4. QED
  BY <1>1, <1>2, <1>3

(* No listed entry points to itself, unless the list is empty.             *)
LEMMA NoSelfLink ==
  ASSUME TypeOK, ListSound
  PROVE  /\ \A a \in armed : next[a] # a /\ prev[a] # a
         /\ next[Head] = Head => armed = {}
<1>1. armed \subseteq Alarms /\ Head \notin armed
  BY AlarmAssumption DEF TypeOK
<1>2. ASSUME NEW a \in armed
      PROVE  next[a] # a
  <2>1. {a} \in SUBSET armed /\ {a} # {}
    OBVIOUS
  <2>2. PICK b \in {a} : next[b] \notin {a}
    BY <2>1 DEF ListSound
  <2>3. QED
    BY <2>2
<1>3. \A a \in armed : prev[a] # a
  BY <1>2 DEF ListSound, InList
<1>4. ASSUME next[Head] = Head, armed # {}
      PROVE  FALSE
  <2>1. PICK b \in armed : next[b] \notin armed
    BY <1>4 DEF ListSound
  <2>2. next[b] = Head /\ prev[Head] = b
    BY <2>1 DEF ListSound, InList
  <2>3. prev[Head] = Head
    BY <1>4 DEF ListSound, InList
  <2>4. QED
    BY <1>1, <2>2, <2>3
<1>5. QED
  BY <1>2, <1>3, <1>4

LEMMA InsertKeepsList ==
  ASSUME TypeOK, ListSound, NEW e \in Alarms \ armed, Insert(e), armed' = armed \cup {e}
  PROVE  ListSound'
<1>1. /\ armed \subseteq Alarms /\ e \in Entry /\ Head \in Entry /\ Head \notin armed
      /\ \A x \in InList : x \in Entry /\ x # e
  BY AlarmAssumption DEF TypeOK, Entry, InList
<1>2. InList' = InList \cup {e}
  BY DEF InList
<1>3. /\ next[Head] # e /\ e # Head
      /\ \A x \in Entry : next'[x] = IF x = Head THEN e
                                     ELSE IF x = e THEN next[Head] ELSE next[x]
      /\ \A x \in Entry : prev'[x] = IF x = next[Head] THEN e
                                     ELSE IF x = e THEN Head ELSE prev[x]
  BY InsertLinks
<1>4. \A x \in InList : /\ next[x] \in InList /\ prev[next[x]] = x
                        /\ prev[x] \in InList /\ next[prev[x]] = x
  BY DEF ListSound
<1>5. Head \in InList
  BY DEF InList
<1>6. ASSUME NEW x \in InList'
      PROVE  /\ next'[x] \in InList' /\ prev'[next'[x]] = x
             /\ prev'[x] \in InList' /\ next'[prev'[x]] = x
  <2>1. CASE x = e
    BY <1>1, <1>2, <1>3, <1>4, <1>5, <2>1
  <2>2. CASE x = Head
    BY <1>1, <1>2, <1>3, <1>4, <1>5, <2>2
  <2>3. CASE x # e /\ x # Head
    <3>1. x \in InList /\ x \in Entry
      BY <1>1, <1>2, <2>3
    <3>2. next'[x] = next[x] /\ next[x] \in InList /\ next[x] # next[Head]
      BY <1>1, <1>3, <1>4, <1>5, <2>3, <3>1
    <3>3. prev'[next'[x]] = x
      BY <1>1, <1>3, <1>4, <3>1, <3>2
    <3>4. CASE x = next[Head]
      BY <1>1, <1>2, <1>3, <1>4, <1>5, <3>1, <3>2, <3>3, <3>4
    <3>5. CASE x # next[Head]
      <4>1. prev'[x] = prev[x] /\ prev[x] \in InList /\ prev[x] # Head
        BY <1>3, <1>4, <2>3, <3>1, <3>5
      <4>2. QED
        BY <1>1, <1>2, <1>3, <1>4, <3>1, <3>2, <3>3, <4>1
    <3>6. QED
      BY <3>4, <3>5
  <2>4. QED
    BY <2>1, <2>2, <2>3
<1>7. ASSUME NEW S \in SUBSET armed', S # {}
      PROVE  \E a \in S : next'[a] \notin S
  <2>1. CASE S \ {e} = {}
    <3>1. S = {e}
      BY <1>7, <2>1
    <3>2. QED
      BY <1>1, <1>3, <3>1
  <2>2. CASE S \ {e} # {}
    <3>1. S \ {e} \in SUBSET armed
      OBVIOUS
    <3>2. PICK a \in S \ {e} : next[a] \notin S \ {e}
      BY <2>2, <3>1 DEF ListSound
    <3>3. a \in InList /\ a # Head /\ a # e
      BY <1>1, <3>1, <3>2 DEF InList
    <3>4. next'[a] = next[a] /\ next[a] # e
      BY <1>1, <1>3, <1>4, <3>3
    <3>5. QED
      BY <3>2, <3>4
  <2>3. QED
    BY <2>1, <2>2
<1>8. ASSUME NEW a \in Alarms \ armed'
      PROVE  next'[a] = a /\ prev'[a] = a
  <2>1. a \in Entry /\ a # e /\ a # Head /\ next[Head] # a
    BY <1>2, <1>4, <1>5, AlarmAssumption DEF Entry, InList
  <2>2. QED
    BY <1>3, <2>1 DEF ListSound
<1>9. QED
  BY <1>6, <1>7, <1>8 DEF ListSound

LEMMA RemoveKeepsList ==
  ASSUME TypeOK, ListSound, NEW e \in Alarms, Remove(e), armed' = armed \ {e}
  PROVE  ListSound'
<1>1. /\ armed \subseteq Alarms /\ e \in Entry /\ Head \in Entry /\ Head \notin armed
      /\ e # Head /\ \A x \in InList : x \in Entry
  BY AlarmAssumption DEF TypeOK, Entry, InList
<1>2. /\ \A x \in Entry : next'[x] = IF x = e THEN e
                                     ELSE IF x = prev[e] THEN next[e] ELSE next[x]
      /\ \A x \in Entry : prev'[x] = IF x = e THEN e
                                     ELSE IF x = next[e] THEN prev[e] ELSE prev[x]
  BY RemoveLinks
<1>3. \A x \in InList : /\ next[x] \in InList /\ prev[next[x]] = x
                        /\ prev[x] \in InList /\ next[prev[x]] = x
  BY DEF ListSound
<1>4. \A a \in Alarms \ armed : next[a] = a /\ prev[a] = a
  BY DEF ListSound
<1>5. InList' = InList \ {e}
  BY <1>1 DEF InList
<1>6. CASE e \notin armed
  <2>1. e \notin InList /\ next[e] = e /\ prev[e] = e
    BY <1>1, <1>4, <1>6 DEF InList
  <2>2. armed' = armed /\ InList' = InList
    BY <1>5, <1>6, <2>1
  <2>3. \A x \in Entry : next'[x] = next[x] /\ prev'[x] = prev[x]
    BY <1>2, <2>1
  <2>4. \A x \in Alarms : x \in Entry
    BY DEF Entry
  <2>5. \A S \in SUBSET armed : S # {} => \E a \in S : next'[a] \notin S
    <3>1. ASSUME NEW S \in SUBSET armed, S # {}
          PROVE  \E a \in S : next'[a] \notin S
      <4>1. PICK a \in S : next[a] \notin S
        BY <3>1 DEF ListSound
      <4>2. a \in Entry
        BY <1>1, <2>4
      <4>3. QED
        BY <2>3, <4>1, <4>2
    <3>2. QED
      BY <3>1
  <2>6. \A x \in InList' : /\ next'[x] \in InList' /\ prev'[next'[x]] = x
                           /\ prev'[x] \in InList' /\ next'[prev'[x]] = x
    BY <1>1, <1>3, <2>2, <2>3
  <2>7. \A a \in Alarms \ armed' : next'[a] = a /\ prev'[a] = a
    BY <1>4, <2>2, <2>3, <2>4
  <2>8. QED
    BY <2>2, <2>5, <2>6, <2>7 DEF ListSound
<1>7. CASE e \in armed
  <2>1. e \in InList /\ next[e] # e /\ prev[e] # e
    BY <1>7, NoSelfLink DEF InList
  <2>2. /\ next[e] \in InList \ {e} /\ prev[e] \in InList \ {e}
        /\ prev[next[e]] = e /\ next[prev[e]] = e
    BY <1>3, <2>1
  <2>3. ASSUME NEW x \in InList'
        PROVE  /\ next'[x] \in InList' /\ prev'[next'[x]] = x
               /\ prev'[x] \in InList' /\ next'[prev'[x]] = x
    <3>1. x \in InList /\ x # e /\ x \in Entry
      BY <1>1, <1>5, <2>3
    <3>2. next'[x] \in InList' /\ prev'[next'[x]] = x
      <4>1. CASE x = prev[e]
        BY <1>1, <1>2, <1>5, <2>2, <3>1, <4>1
      <4>2. CASE x # prev[e]
        <5>1. next'[x] = next[x]
          BY <1>2, <3>1, <4>2
        <5>2. next[x] \in InList /\ prev[next[x]] = x /\ next[x] # e
          BY <1>3, <3>1, <4>2
        <5>3. next[x] # next[e]
          BY <2>2, <3>1, <5>2
        <5>4. QED
          BY <1>1, <1>2, <1>5, <5>1, <5>2, <5>3
      <4>3. QED
        BY <4>1, <4>2
    <3>3. prev'[x] \in InList' /\ next'[prev'[x]] = x
      <4>1. CASE x = next[e]
        BY <1>1, <1>2, <1>5, <2>2, <3>1, <4>1
      <4>2. CASE x # next[e]
        <5>1. prev'[x] = prev[x]
          BY <1>2, <3>1, <4>2
        <5>2. prev[x] \in InList /\ next[prev[x]] = x /\ prev[x] # e
          BY <1>3, <3>1, <4>2
        <5>3. prev[x] # prev[e]
          BY <2>2, <3>1, <5>2
        <5>4. QED
          BY <1>1, <1>2, <1>5, <5>1, <5>2, <5>3
      <4>3. QED
        BY <4>1, <4>2
    <3>4. QED
      BY <3>2, <3>3
  <2>4. ASSUME NEW S \in SUBSET armed', S # {}
        PROVE  \E a \in S : next'[a] \notin S
    <3>1. S \in SUBSET armed /\ S \cup {e} \in SUBSET armed /\ S \cup {e} # {} /\ e \notin S
      BY <1>7
    <3>2. PICK c \in S \cup {e} : next[c] \notin S \cup {e}
      BY <3>1 DEF ListSound
    <3>3. PICK b \in S : next[b] \notin S
      BY <2>4, <3>1 DEF ListSound
    <3>4. b \in InList /\ b \in Entry /\ b # e
      BY <1>1, <3>1, <3>3 DEF InList
    <3>5. CASE c = e
      BY <1>2, <3>2, <3>3, <3>4, <3>5, <2>2
    <3>6. CASE c # e
      <4>1. c \in S /\ c \in InList /\ c \in Entry /\ next[c] # e
        BY <1>1, <3>1, <3>2, <3>6 DEF InList
      <4>2. next'[c] = next[c]
        BY <1>2, <2>2, <3>6, <4>1
      <4>3. QED
        BY <3>2, <4>1, <4>2
    <3>7. QED
      BY <3>5, <3>6
  <2>5. ASSUME NEW a \in Alarms \ armed'
        PROVE  next'[a] = a /\ prev'[a] = a
    <3>1. a \in Entry
      BY DEF Entry
    <3>2. CASE a = e
      BY <1>2, <3>1, <3>2
    <3>3. CASE a # e
      <4>1. a \notin armed /\ a \notin InList
        BY <3>3, AlarmAssumption DEF InList
      <4>2. a # next[e] /\ a # prev[e]
        BY <2>2, <4>1
      <4>3. QED
        BY <1>2, <1>4, <3>1, <3>3, <4>1, <4>2
    <3>4. QED
      BY <3>2, <3>3
  <2>6. QED
    BY <2>3, <2>4, <2>5 DEF ListSound
<1>8. QED
  BY <1>6, <1>7

-----------------------------------------------------------------------------
(* Types and the list, whatever the callbacks stop.                        *)

LEMMA PlusType ==
  ASSUME NEW x \in Ticks, NEW y \in Ticks
  PROVE  Plus(x, y) \in Ticks
BY AlarmAssumption DEF Plus, Ticks

LEMMA Constants ==
  /\ Span \in Nat /\ Span > 1 /\ 0 \in Ticks /\ 1 \in Ticks
  /\ Head \notin Alarms /\ Head \in Entry
  /\ \A a \in Alarms : a \in Entry /\ a # Head
  /\ \A d \in Delays : d \in Ticks
  /\ \A p \in Periods : p \in Ticks
BY AlarmAssumption DEF Ticks, Entry

LEMMA InitList == Init => ListInv
<1> SUFFICES ASSUME Init PROVE ListInv
  OBVIOUS
<1>1. TypeOK
  BY Constants DEF Init, TypeOK, ScanOff
<1>2. ListSound
  BY Constants DEF Init, ListSound, InList, Entry
<1>3. ScanShape
  BY DEF Init, ScanShape, ScanOff, InCallback
<1>4. QED
  BY <1>1, <1>2, <1>3 DEF ListInv

LEMMA StartKeepsList ==
  ASSUME ListInv, NEW a \in Alarms, NEW n \in Delays, StartAlarm(a, n)
  PROVE  ListInv'
<1>1. TypeOK /\ ListSound /\ ScanShape
  BY DEF ListInv
<1>2. a \in Alarms \ armed /\ Insert(a) /\ armed' = armed \cup {a}
  BY DEF StartAlarm
<1>3. ListSound' /\ next' \in [Entry -> Entry] /\ prev' \in [Entry -> Entry]
  BY <1>1, <1>2, InsertLinks, InsertKeepsList
<1>4. Plus(Plus(n, nticks), 1) \in Ticks
  BY <1>1, Constants, PlusType DEF TypeOK
<1>5. time' \in [Alarms -> Ticks] /\ rollover' \in [Alarms -> BOOLEAN]
  BY <1>1, <1>4 DEF StartAlarm, TypeOK
<1>6. TypeOK'
  <2>1. asked' \in [Alarms -> Ticks]
    BY <1>1, Constants DEF StartAlarm, TypeOK
  <2>2. QED
    BY <1>1, <1>2, <1>3, <1>5, <2>1 DEF StartAlarm, TypeOK
<1>7. ScanShape'
  BY <1>1 DEF StartAlarm, ScanShape, InCallback
<1>8. QED
  BY <1>3, <1>6, <1>7 DEF ListInv

LEMMA StopKeepsList ==
  ASSUME ListInv, NEW a \in Alarms, StopAlarm(a)
  PROVE  ListInv'
<1>1. TypeOK /\ ListSound /\ ScanShape
  BY DEF ListInv
<1>2. Remove(a) /\ armed' = armed \ {a}
  BY DEF StopAlarm
<1>3. ListSound' /\ next' \in [Entry -> Entry] /\ prev' \in [Entry -> Entry]
  BY <1>1, <1>2, RemoveLinks, RemoveKeepsList
<1>4. TypeOK'
  <2>1. asked' \in [Alarms -> Ticks]
    BY <1>1, Constants DEF StopAlarm, TypeOK
  <2>2. QED
    BY <1>1, <1>2, <1>3, <2>1 DEF StopAlarm, TypeOK
<1>5. ScanShape'
  BY <1>1 DEF StopAlarm, ScanShape, InCallback
<1>6. QED
  BY <1>3, <1>4, <1>5 DEF ListInv

LEMMA ReturnKeepsList ==
  ASSUME ListInv, NEW p \in Periods, CallbackReturns(p)
  PROVE  ListInv'
<1>1. TypeOK /\ ListSound /\ ScanShape /\ scan.alarm \in Alarms
  BY DEF ListInv, ScanShape, CallbackReturns
<1>2. /\ scan' = [pc |-> "scan", alarm |-> scan.next, next |-> Head]
      /\ nticks' = nticks
  BY DEF CallbackReturns
<1>3. /\ scan' \in [pc : {"off", "scan", "callback"}, alarm : Entry, next : Entry]
      /\ ScanShape' /\ asked' \in [Alarms -> Ticks]
  <2>1. asked' \in [Alarms -> Ticks]
    BY <1>1, Constants DEF TypeOK, CallbackReturns
  <2>2. QED
    BY <1>1, <1>2, <2>1, Constants DEF TypeOK, ScanShape, InCallback
<1>4. CASE p = 0
  <2>1. /\ Remove(scan.alarm) /\ armed' = armed \ {scan.alarm}
        /\ UNCHANGED <<time, rollover>>
    BY <1>4 DEF CallbackReturns
  <2>2. ListSound' /\ next' \in [Entry -> Entry] /\ prev' \in [Entry -> Entry]
    BY <1>1, <2>1, RemoveLinks, RemoveKeepsList
  <2>3. TypeOK'
    BY <1>1, <1>2, <1>3, <2>1, <2>2 DEF TypeOK
  <2>4. QED
    BY <1>3, <2>2, <2>3 DEF ListInv
<1>5. CASE p # 0
  <2>1. /\ time' = [time EXCEPT ![scan.alarm] = Plus(time[scan.alarm], p)]
        /\ rollover' = [rollover EXCEPT ![scan.alarm] =
                          @ \/ Plus(time[scan.alarm], p) < nticks]
        /\ UNCHANGED <<next, prev, armed>>
    BY <1>5 DEF CallbackReturns, listVars
  <2>2. time[scan.alarm] \in Ticks /\ p \in Ticks
    BY <1>1, Constants DEF TypeOK
  <2>3. time' \in [Alarms -> Ticks]
    BY <1>1, <2>1, <2>2, PlusType DEF TypeOK
  <2>4. rollover' \in [Alarms -> BOOLEAN]
    BY <1>1, <2>1 DEF TypeOK
  <2>5. TypeOK'
    BY <1>1, <1>2, <1>3, <2>1, <2>3, <2>4 DEF TypeOK
  <2>6. ListSound'
    BY <1>1, <2>1 DEF ListSound, InList
  <2>7. QED
    BY <1>3, <2>5, <2>6 DEF ListInv
<1>6. QED
  BY <1>4, <1>5

LEMMA ScanKeepsList ==
  ASSUME ListInv, Tick \/ Scan \/ TickReturns \/ UNCHANGED alarmVars
  PROVE  ListInv'
<1>1. TypeOK /\ ListSound /\ ScanShape
  BY DEF ListInv
<1>2. UNCHANGED <<next, prev, time, armed, asked>>
  BY DEF Tick, Scan, TickReturns, alarmVars, listVars
<1>3. ListSound'
  BY <1>1, <1>2 DEF ListSound, InList
<1>4. nticks' \in Ticks
  BY <1>1, Constants, PlusType DEF Tick, Scan, TickReturns, alarmVars, TypeOK
<1>5. rollover' \in [Alarms -> BOOLEAN]
  <2>1. CASE Scan
    <3>1. rollover' = [rollover EXCEPT ![scan.alarm] = rollover[scan.alarm] /\ nticks # 0]
      BY <2>1 DEF Scan
    <3>2. scan.alarm \in Alarms
      BY <1>1, <2>1 DEF Scan, TypeOK, Entry
    <3>3. rollover[scan.alarm] \in BOOLEAN
      BY <1>1, <3>2 DEF TypeOK
    <3>4. (rollover[scan.alarm] /\ nticks # 0) \in BOOLEAN
      OBVIOUS
    <3>5. QED
      BY <1>1, <3>1, <3>4 DEF TypeOK
  <2>2. CASE Tick \/ TickReturns \/ UNCHANGED alarmVars
    BY <1>1, <2>2 DEF Tick, TickReturns, alarmVars, TypeOK
  <2>3. QED
    BY <2>1, <2>2
<1>6. /\ scan' \in [pc : {"off", "scan", "callback"}, alarm : Entry, next : Entry]
      /\ ScanShape'
  <2>1. CASE Tick
    BY <1>1, <2>1, Constants DEF Tick, TypeOK, ScanShape, InCallback
  <2>2. CASE TickReturns
    BY <2>2, Constants DEF TickReturns, ScanOff, ScanShape, InCallback
  <2>3. CASE Scan
    <3>1. scan.alarm \in Alarms /\ next[scan.alarm] \in Entry
      BY <1>1, <2>3 DEF Scan, TypeOK, Entry
    <3>2. \/ scan' = [pc |-> "callback", alarm |-> scan.alarm, next |-> next[scan.alarm]]
          \/ scan' = [pc |-> "scan", alarm |-> next[scan.alarm], next |-> Head]
      BY <2>3 DEF Scan
    <3>3. QED
      BY <3>1, <3>2, Constants DEF ScanShape, InCallback
  <2>4. CASE UNCHANGED alarmVars
    BY <1>1, <2>4 DEF alarmVars, TypeOK, ScanShape, InCallback
  <2>5. QED
    BY <2>1, <2>2, <2>3, <2>4
<1>7. TypeOK'
  BY <1>1, <1>2, <1>4, <1>5, <1>6 DEF TypeOK
<1>8. QED
  BY <1>3, <1>6, <1>7 DEF ListInv

LEMMA NextList == ListInv /\ [Next]_alarmVars => ListInv'
<1> SUFFICES ASSUME ListInv, [Next]_alarmVars PROVE ListInv'
  OBVIOUS
<1>1. CASE Tick \/ Scan \/ TickReturns \/ UNCHANGED alarmVars
  BY <1>1, ScanKeepsList
<1>2. CASE \E p \in Periods : CallbackReturns(p)
  BY <1>2, ReturnKeepsList
<1>3. CASE Client
  BY <1>3, StartKeepsList, StopKeepsList DEF Client
<1>4. QED
  BY <1>1, <1>2, <1>3 DEF Next, Walk

THEOREM ListInvariant == Spec => []ListInv
<1>1. QED
  BY InitList, NextList, PTL DEF Spec

(* The counter and the due times keep their 32 bits.                       *)
THEOREM AlarmTypeCorrect == Spec => []TypeOK
<1>1. ListInv => TypeOK
  BY DEF ListInv
<1>2. QED
  BY <1>1, ListInvariant, PTL

(* The list is one ring of the head and the running alarms, whatever the   *)
(* program and the callbacks start and stop.                               *)
THEOREM ListStaysSound == Spec => []ListSound
<1>1. ListInv => ListSound
  BY DEF ListInv
<1>2. QED
  BY <1>1, ListInvariant, PTL

-----------------------------------------------------------------------------
(* The walk.                                                               *)

(* Facts about a part of the list that the steps below have in common.     *)
LEMMA AheadFacts ==
  ASSUME ListInv, NEW S, Ahead(S)
  PROVE  /\ \A s \in S : /\ s \in armed /\ s \in Alarms /\ s \in Entry /\ s # Head
                         /\ s \in InList /\ next[s] # s /\ prev[s] # s
                         /\ next[s] \in S \cup {Head}
                         /\ prev[next[s]] = s /\ next[prev[s]] = s
         /\ \A x \in InList \ S : next[x] \in S => next[x] = Place
         /\ Place \in InList
<1>1. TypeOK /\ ListSound /\ S \subseteq armed /\ armed \subseteq Alarms
  BY DEF ListInv, TypeOK, Ahead
<1>2. ASSUME NEW s \in S
      PROVE  /\ s \in armed /\ s \in Alarms /\ s \in Entry /\ s # Head
             /\ s \in InList /\ next[s] # s /\ prev[s] # s
             /\ next[s] \in S \cup {Head}
             /\ prev[next[s]] = s /\ next[prev[s]] = s
  <2>1. s \in armed /\ s \in Alarms /\ s \in Entry /\ s # Head /\ s \in InList
    BY <1>1, Constants DEF InList
  <2>2. next[s] \in S \cup {Head}
    BY DEF Ahead
  <2>3. QED
    BY <1>1, <2>1, <2>2, NoSelfLink DEF ListSound
<1>3. ASSUME NEW x \in InList \ S, next[x] \in S
      PROVE  next[x] = Place
  <2>1. prev[next[x]] = x
    BY <1>1 DEF ListSound
  <2>2. QED
    BY <1>3, <2>1 DEF Ahead
<1>4. Place \in InList
  BY <1>1 DEF Ahead, InList
<1>5. QED
  BY <1>2, <1>3, <1>4

(* From its first alarm on a walk has the whole list ahead of it.          *)
LEMMA WholeAhead == ListInv /\ Place = next[Head] => Ahead(armed)
<1> SUFFICES ASSUME ListInv, Place = next[Head] PROVE Ahead(armed)
  OBVIOUS
<1>1. TypeOK /\ ListSound /\ armed \subseteq Alarms
  BY DEF ListInv, TypeOK
<1>2. next[Head] \in InList /\ prev[next[Head]] = Head /\ (next[Head] = Head => armed = {})
  BY <1>1, NoSelfLink DEF ListSound, InList
<1>3. ASSUME NEW s \in armed
      PROVE  next[s] \in armed \cup {Head} /\ (prev[s] \in armed <=> s # next[Head])
  <2>1. next[s] \in InList /\ prev[s] \in InList /\ next[prev[s]] = s
    BY <1>1 DEF ListSound, InList
  <2>2. Head \notin armed
    BY <1>1, Constants
  <2>3. QED
    BY <1>2, <2>1, <2>2 DEF InList
<1>4. QED
  BY <1>2, <1>3 DEF Ahead, InList

LEMMA WholeAheadNext == ListInv' /\ (Place = next[Head])' => Ahead(armed)'
BY WholeAhead, PTL

(* One round of the walk takes it past the alarm it is at.                 *)
LEMMA ScanAhead ==
  ASSUME ListInv, NEW S, Ahead(S), Scan, NEW T, T = S \ {scan.alarm}
  PROVE  scan.alarm \in S /\ Ahead(T)'
<1> DEFINE a == scan.alarm
<1>1. TypeOK /\ ListSound
  BY DEF ListInv
<1>2. Place = a /\ a # Head
  BY DEF Scan, Place, InCallback
<1>3. a \in S
  BY <1>2 DEF Ahead
<1>4. UNCHANGED <<next, prev, armed>> /\ Place' = next[a]
  BY DEF Scan, listVars, Place, InCallback
<1>5. \A s \in S : next[s] # a
  BY <1>2, AheadFacts DEF Ahead
<1>6. next[a] \in T \cup {Head}
  BY <1>3, AheadFacts
<1>7. ASSUME next[a] = Head
      PROVE  T = {}
  <2>1. SUFFICES ASSUME T # {} PROVE FALSE
    OBVIOUS
  <2>2. PICK s \in T : next[s] \notin T
    BY <1>1, <2>1 DEF ListSound, Ahead
  <2>3. next[s] = Head
    BY <1>5, <2>2, AheadFacts
  <2>4. prev[Head] = s /\ prev[Head] = a
    BY <1>3, <1>7, <2>2, <2>3, AheadFacts
  <2>5. QED
    BY <2>2, <2>4
<1>8. ASSUME NEW s \in T
      PROVE  next[s] \in T \cup {Head} /\ (prev[s] \in T <=> s # next[a])
  <2>1. next[s] \in T \cup {Head}
    BY <1>5, AheadFacts
  <2>2. prev[s] \in S
    BY <1>2 DEF Ahead
  <2>3. prev[s] = a <=> s = next[a]
    BY <1>3, AheadFacts
  <2>4. QED
    BY <2>1, <2>2, <2>3
<1>9. T \subseteq armed
  BY DEF Ahead
<1>10. QED
  BY <1>3, <1>4, <1>6, <1>7, <1>8, <1>9 DEF Ahead

(* An alarm that is started goes to the part the walk has behind it.       *)
LEMMA StartAhead ==
  ASSUME ListInv, NEW S, Ahead(S), NEW a \in Alarms, NEW n \in Delays, StartAlarm(a, n)
  PROVE  a \notin S /\ Ahead(S)'
<1>1. TypeOK /\ ListSound
  BY DEF ListInv
<1>2. a \in Alarms \ armed /\ Insert(a) /\ armed' = armed \cup {a} /\ Place' = Place
  BY DEF StartAlarm, Place, InCallback
<1>3. /\ next[Head] # a /\ a # Head
      /\ \A x \in Entry : next'[x] = IF x = Head THEN a
                                     ELSE IF x = a THEN next[Head] ELSE next[x]
      /\ \A x \in Entry : prev'[x] = IF x = next[Head] THEN a
                                     ELSE IF x = a THEN Head ELSE prev[x]
  BY <1>1, <1>2, InsertLinks
<1>4. S \subseteq armed /\ a \notin S
  BY <1>2 DEF Ahead
<1>5. ASSUME NEW s \in S
      PROVE  next'[s] \in S \cup {Head} /\ (prev'[s] \in S <=> s # Place)
  <2>1. s \in Entry /\ s # Head /\ s # a
    BY <1>4, AheadFacts
  <2>2. next'[s] = next[s]
    BY <1>3, <2>1
  <2>3. CASE s = next[Head]
    <3>1. prev[s] = Head /\ Head \notin S
      BY <1>1, <2>3, AheadFacts DEF ListSound, InList
    <3>2. s = Place
      BY <3>1 DEF Ahead
    <3>3. prev'[s] = a
      BY <1>3, <2>1, <2>3
    <3>4. QED
      BY <1>4, <2>2, <3>2, <3>3, AheadFacts
  <2>4. CASE s # next[Head]
    <3>1. prev'[s] = prev[s]
      BY <1>3, <2>1, <2>4
    <3>2. QED
      BY <2>2, <3>1, AheadFacts DEF Ahead
  <2>5. QED
    BY <2>3, <2>4
<1>6. QED
  BY <1>2, <1>4, <1>5 DEF Ahead

(* A removal takes an alarm out of either part, which it leaves as it was. *)
LEMMA RemoveAhead ==
  ASSUME ListInv, NEW S, Ahead(S), NEW e \in Alarms, e # Place, Remove(e),
         armed' = armed \ {e}, NEW T, T = S \ {e}
  PROVE  /\ T \subseteq armed' /\ (Place \in T \/ (Place = Head /\ T = {}))
         /\ \A s \in T : next'[s] \in T \cup {Head} /\ (prev'[s] \in T <=> s # Place)
<1>1. TypeOK /\ ListSound
  BY DEF ListInv
<1>2. /\ \A x \in Entry : next'[x] = IF x = e THEN e
                                     ELSE IF x = prev[e] THEN next[e] ELSE next[x]
      /\ \A x \in Entry : prev'[x] = IF x = e THEN e
                                     ELSE IF x = next[e] THEN prev[e] ELSE prev[x]
  BY <1>1, RemoveLinks
<1>3. T \subseteq armed' /\ (Place \in T \/ (Place = Head /\ T = {}))
  BY DEF Ahead
<1>4. CASE e \notin armed
  <2>1. next[e] = e /\ prev[e] = e /\ T = S
    BY <1>1, <1>4 DEF ListSound, Ahead
  <2>2. \A s \in S : next'[s] = next[s] /\ prev'[s] = prev[s]
    BY <1>2, <2>1, AheadFacts
  <2>3. QED
    BY <1>3, <2>1, <2>2 DEF Ahead
<1>5. CASE e \in armed
  <2>1. /\ prev[next[e]] = e /\ next[prev[e]] = e /\ next[e] # e /\ prev[e] # e
        /\ e # Head
    BY <1>1, <1>5, NoSelfLink, Constants DEF ListSound, InList
  <2>2. ASSUME NEW s \in T
        PROVE  next'[s] \in T \cup {Head}
    <3>1. s \in S /\ s \in Entry /\ s # e /\ next[s] \in S \cup {Head} /\ prev[next[s]] = s
      BY AheadFacts
    <3>2. CASE s = prev[e]
      <4>1. e \in S
        BY <2>1, <3>1, <3>2
      <4>2. next[e] \in T \cup {Head}
        BY <2>1, <4>1, AheadFacts
      <4>3. QED
        BY <1>2, <3>1, <3>2, <4>2
    <3>3. CASE s # prev[e]
      BY <1>2, <3>1, <3>3
    <3>4. QED
      BY <3>2, <3>3
  <2>3. ASSUME NEW s \in T
        PROVE  prev'[s] \in T <=> s # Place
    <3>1. /\ s \in S /\ s \in Entry /\ s # e /\ next[prev[s]] = s
          /\ (prev[s] \in S <=> s # Place)
      BY AheadFacts DEF Ahead
    <3>2. CASE s = next[e]
      <4>1. prev'[s] = prev[e] /\ prev[s] = e
        BY <1>2, <2>1, <3>1, <3>2
      <4>2. CASE e \in S
        BY <2>1, <3>1, <4>1, <4>2 DEF Ahead
      <4>3. CASE e \notin S
        <5>1. prev[e] \notin S
          BY <2>1, <4>3, AheadFacts
        <5>2. QED
          BY <3>1, <4>1, <4>3, <5>1
      <4>4. QED
        BY <4>2, <4>3
    <3>3. CASE s # next[e]
      <4>1. prev'[s] = prev[s] /\ prev[s] # e
        BY <1>2, <3>1, <3>3
      <4>2. QED
        BY <3>1, <4>1
    <3>4. QED
      BY <3>2, <3>3
  <2>4. QED
    BY <1>3, <2>2, <2>3
<1>6. QED
  BY <1>4, <1>5

-----------------------------------------------------------------------------
(* The arithmetic of due times.                                            *)

Left(t, n) == IF t >= n THEN t - n ELSE t + Span - n

(* An alarm started now is due after its delay and a tick, not now.        *)
LEMMA StartedWaits ==
  ASSUME NEW n \in Ticks, NEW d \in Delays, NEW t, t = Plus(Plus(d, n), 1)
  PROVE  t \in Ticks /\ t # n /\ Left(t, n) = d + 1 /\ d + 1 \in 1..Span - 1
<1>1. d \in 0..Span - 2 /\ Span \in Nat /\ Span > 1
  BY AlarmAssumption
<1>2. QED
  BY <1>1 DEF Plus, Left, Ticks

(* So is one whose callback asked for a later tick.                        *)
LEMMA AgainWaits ==
  ASSUME NEW n \in Ticks, NEW p \in Periods, p # 0, NEW t, t = Plus(n, p)
  PROVE  t \in Ticks /\ t # n /\ Left(t, n) = p /\ p \in 1..Span - 1
<1>1. p \in 0..Span - 1 /\ Span \in Nat /\ Span > 1
  BY AlarmAssumption
<1>2. QED
  BY <1>1 DEF Plus, Left, Ticks

(* A tick brings every alarm that waited one tick nearer.                  *)
LEMMA TickBrings ==
  ASSUME NEW n \in Ticks, NEW m, m = Plus(n, 1), NEW t \in Ticks, t # n
  PROVE  /\ Left(t, m) = Left(t, n) - 1
         /\ m # 0 => (t < n <=> t < m)
         /\ m = 0 => t < n
BY AlarmAssumption DEF Plus, Left, Ticks

-----------------------------------------------------------------------------
(* The invariant of the walk.                                              *)

LEMMA NumberTypes ==
  ASSUME ListInv
  PROVE  /\ nticks \in Ticks /\ nticks \in Nat
         /\ \A a \in armed : /\ a \in Alarms /\ a \in Entry
                             /\ time[a] \in Ticks /\ time[a] \in Nat
                             /\ rollover[a] \in BOOLEAN
<1>1. TypeOK /\ Span \in Nat
  BY Constants DEF ListInv
<1>2. Ticks \subseteq Nat
  BY <1>1 DEF Ticks
<1>3. QED
  BY <1>1, <1>2 DEF TypeOK, Entry

LEMMA InitWalk == Init => WalkInv
<1> SUFFICES ASSUME Init PROVE WalkInv
  OBVIOUS
<1>1. Known
  BY DEF Init, ScanOff, Known, InCallback
<1>2. Timed({})
  BY DEF Init, ScanOff, Timed, Ahead, Place, InCallback
<1>3. QED
  BY <1>1, <1>2, InitList DEF WalkInv

(* A walk that is astray stays so.                                         *)
LEMMA StaysAstray ==
  ASSUME ListInv, Astray, [Next]_alarmVars
  PROVE  Astray'
<1>1. TypeOK /\ ListSound /\ ScanShape /\ Place \notin InList /\ Place # Head
  BY DEF ListInv, Astray, WalkIsIn, InList
<1>2. Place \in Entry /\ Place \in Alarms \ armed
  BY <1>1 DEF TypeOK, Entry, InList, Place
<1>3. next[Place] = Place
  BY <1>1, <1>2 DEF ListSound
<1>4. scan.pc # "off"
  BY <1>1 DEF ScanShape, Place, InCallback
<1>5. CASE Scan
  <2>1. UNCHANGED armed /\ Place = scan.alarm
    BY <1>5 DEF Scan, Place, InCallback
  <2>2. \/ scan' = [pc |-> "callback", alarm |-> Place, next |-> Place]
        \/ scan' = [pc |-> "scan", alarm |-> Place, next |-> Head]
    BY <1>3, <1>5, <2>1 DEF Scan
  <2>3. QED
    BY <1>1, <2>1, <2>2 DEF Astray, WalkIsIn, Place, InCallback, InList
<1>6. CASE \E p \in Periods : CallbackReturns(p)
  <2>1. /\ scan' = [pc |-> "scan", alarm |-> scan.next, next |-> Head]
        /\ armed' \subseteq armed /\ Place = scan.next
    BY <1>6 DEF CallbackReturns, Place, InCallback
  <2>2. QED
    BY <1>1, <2>1 DEF Astray, WalkIsIn, Place, InCallback, InList
<1>7. CASE Client
  <2>1. InCallback /\ scan' = scan /\ scan.alarm = Place
    BY <1>4, <1>7 DEF Client, StartAlarm, StopAlarm, Calls, InCallback, Astray, Place
  <2>2. armed' \subseteq armed \cup (Alarms \ {scan.alarm})
    BY <1>7, <2>1 DEF Client, StartAlarm, StopAlarm
  <2>3. QED
    BY <1>1, <2>1, <2>2 DEF Astray, WalkIsIn, Place, InCallback, InList
<1>8. CASE Tick \/ TickReturns
  BY <1>1, <1>4, <1>8 DEF Tick, TickReturns, Place, InCallback
<1>9. CASE UNCHANGED alarmVars
  BY <1>9 DEF alarmVars, Astray, WalkIsIn, Place, InCallback, InList
<1>10. QED
  BY <1>5, <1>6, <1>7, <1>8, <1>9 DEF Next, Walk

LEMMA TickWalk ==
  ASSUME WalkInv, Tick
  PROVE  WalkInv' /\ \A a \in armed : Waits(a)
<1>1. /\ ListInv /\ scan.pc = "off" /\ scan.alarm = Head /\ ~InCallback
      /\ Place = Head /\ WalkIsIn /\ ~Astray
  BY DEF Tick, WalkInv, ListInv, ScanShape, InCallback, Place, WalkIsIn, Astray, InList
<1>2. PICK S \in SUBSET armed : Timed(S)
  BY <1>1 DEF WalkInv
<1>3. S = {}
  BY <1>1, <1>2, AheadFacts, Constants DEF Timed, Ahead
<1>4. \A a \in armed : Waits(a)
  BY <1>1, <1>2, <1>3 DEF Timed, GoingOff
<1>5. ListInv' /\ UNCHANGED <<time, rollover, armed>> /\ ~InCallback'
  BY <1>1, NextList DEF Tick, Next, InCallback
<1>6. ASSUME NEW a \in armed
      PROVE  Fits(a)'
  <2>1. nticks' = Plus(nticks, 1) /\ nticks \in Ticks /\ time[a] \in Ticks
    BY <1>1, NumberTypes DEF Tick
  <2>2. time[a] # nticks /\ (rollover[a] <=> time[a] < nticks)
    BY <1>4 DEF Waits
  <2>3. QED
    BY <1>5, <2>1, <2>2, TickBrings DEF Fits
<1>7. Known'
  BY <1>5, <1>6 DEF Known
<1>8. Place' = next'[Head]
  BY DEF Tick, listVars, Place, InCallback
<1>9. Timed(armed)'
  BY <1>5, <1>8, WholeAheadNext DEF Timed
<1>10. QED
  BY <1>4, <1>5, <1>7, <1>9 DEF WalkInv

LEMMA ScanWalk ==
  ASSUME WalkInv, ~Astray, Scan
  PROVE  WalkInv'
<1>1. ListInv /\ Known /\ ~InCallback /\ WalkIsIn
  BY DEF WalkInv, Scan, InCallback, Astray
<1>2. PICK S \in SUBSET armed : Timed(S)
  BY <1>1 DEF WalkInv
<1>3. PICK a : a = scan.alarm
  OBVIOUS
<1>4. PICK T : T = S \ {a}
  OBVIOUS
<1>5. a \in S /\ Ahead(T)' /\ a \in armed /\ next[a] # a
  BY <1>1, <1>2, <1>3, <1>4, ScanAhead, AheadFacts DEF Timed
<1>6. /\ nticks \in Ticks /\ nticks \in Nat /\ time[a] \in Ticks /\ time[a] \in Nat
      /\ rollover[a] \in BOOLEAN /\ a \in Alarms
      /\ rollover \in [Alarms -> BOOLEAN]
  BY <1>1, <1>5, NumberTypes DEF ListInv, TypeOK
<1> DEFINE rolling == rollover[a] /\ nticks # 0
<1>7. /\ UNCHANGED <<nticks, next, prev, time, armed>>
      /\ rollover' = [rollover EXCEPT ![a] = rolling]
  BY <1>3 DEF Scan, listVars
<1>8. rollover'[a] = rolling /\ \A b \in Alarms \ {a} : rollover'[b] = rollover[b]
  BY <1>6, <1>7
<1>9. ListInv'
  BY <1>1, ScanKeepsList
<1>10. \A b \in armed \ {a} : Fits(b) /\ Fits(b)'
  BY <1>1, <1>7, <1>8, NumberTypes DEF Known, Fits
<1>11. \A b \in armed \ S : Waits(b) /\ Waits(b)'
  BY <1>1, <1>2, <1>5, <1>7, <1>8, NumberTypes DEF Timed, Waits, GoingOff
<1>12. Fits(a)
  BY <1>1, <1>5 DEF Known
<1>13. CASE time[a] <= nticks /\ ~rolling
  <2>1. scan' = [pc |-> "callback", alarm |-> a, next |-> next[a]]
    BY <1>3, <1>13 DEF Scan
  <2>2. time[a] = nticks
    BY <1>6, <1>12, <1>13 DEF Fits, Ticks
  <2>3. GoingOff(a)' /\ InCallback' /\ scan'.alarm = a /\ scan'.next # a
    BY <1>5, <1>7, <1>8, <1>13, <2>1, <2>2 DEF GoingOff, InCallback
  <2>4. Fits(a)'
    BY <1>6, <1>7, <1>8, <1>13, <2>2 DEF Fits
  <2>5. Known'
    BY <1>7, <1>10, <2>3, <2>4 DEF Known
  <2>6. Timed(T)'
    BY <1>4, <1>5, <1>7, <1>11, <2>3 DEF Timed
  <2>7. QED
    BY <1>2, <1>4, <1>7, <1>9, <2>5, <2>6 DEF WalkInv
<1>14. CASE ~(time[a] <= nticks /\ ~rolling)
  <2>1. scan' = [pc |-> "scan", alarm |-> next[a], next |-> Head]
    BY <1>3, <1>14 DEF Scan
  <2>2. time[a] # nticks /\ (rolling <=> time[a] < nticks)
    BY <1>6, <1>12, <1>14 DEF Fits, Ticks
  <2>3. Waits(a)' /\ Fits(a)' /\ ~InCallback'
    BY <1>7, <1>8, <2>1, <2>2 DEF Waits, Fits, InCallback
  <2>4. Known'
    BY <1>7, <1>10, <2>3 DEF Known
  <2>5. Timed(T)'
    BY <1>4, <1>5, <1>7, <1>11, <2>3 DEF Timed
  <2>6. QED
    BY <1>2, <1>4, <1>7, <1>9, <2>4, <2>5 DEF WalkInv
<1>15. QED
  BY <1>13, <1>14

LEMMA TickReturnsWalk ==
  ASSUME WalkInv, ~Astray, TickReturns
  PROVE  WalkInv'
<1>1. ListInv /\ Known /\ ~InCallback /\ WalkIsIn /\ Place = Head
  BY DEF WalkInv, TickReturns, InCallback, Astray, Place
<1>2. PICK S \in SUBSET armed : Timed(S)
  BY <1>1 DEF WalkInv
<1>3. S = {}
  BY <1>1, <1>2, AheadFacts, Constants DEF Timed, Ahead
<1>4. /\ UNCHANGED <<nticks, next, prev, time, rollover, armed>>
      /\ Place' = Head /\ ~InCallback'
  BY DEF TickReturns, listVars, Place, InCallback, ScanOff
<1>5. Known'
  BY <1>1, <1>4 DEF Known, Fits
<1>6. Timed({})'
  BY <1>1, <1>2, <1>3, <1>4 DEF Timed, Ahead, Waits, GoingOff
<1>7. QED
  BY <1>1, <1>5, <1>6, ScanKeepsList DEF WalkInv

(* What a start sets, wherever the walk is.                                *)
LEMMA StartSets ==
  ASSUME ListInv, NEW a \in Alarms, NEW n \in Delays, StartAlarm(a, n)
  PROVE  /\ a \notin armed /\ armed' = armed \cup {a} /\ UNCHANGED <<nticks, scan>>
         /\ \A b \in Alarms \ {a} : time'[b] = time[b] /\ rollover'[b] = rollover[b]
         /\ Waits(a)'
         /\ time'[a] \in Ticks /\ Left(time'[a], nticks) = n + 1 /\ n + 1 \in 1..Span - 1
<1>1. /\ nticks \in Ticks /\ nticks \in Nat
      /\ time \in [Alarms -> Ticks] /\ rollover \in [Alarms -> BOOLEAN]
  BY NumberTypes DEF ListInv, TypeOK
<1> DEFINE t == Plus(Plus(n, nticks), 1)
<1>2. /\ a \notin armed /\ armed' = armed \cup {a} /\ UNCHANGED <<nticks, scan>>
      /\ time' = [time EXCEPT ![a] = t] /\ rollover' = [rollover EXCEPT ![a] = t < nticks]
  BY DEF StartAlarm
<1>3. /\ time'[a] = t /\ (rollover'[a] <=> t < nticks)
      /\ \A b \in Alarms \ {a} : time'[b] = time[b] /\ rollover'[b] = rollover[b]
  BY <1>1, <1>2
<1>4. t \in Ticks /\ t # nticks /\ Left(t, nticks) = n + 1 /\ n + 1 \in 1..Span - 1
  BY <1>1, StartedWaits
<1>5. Waits(a)'
  BY <1>2, <1>3, <1>4 DEF Waits
<1>6. QED
  BY <1>2, <1>3, <1>4, <1>5

LEMMA StartWalk ==
  ASSUME WalkInv, ~Astray, NEW a \in Alarms, NEW n \in Delays, StartAlarm(a, n)
  PROVE  WalkInv'
<1>1. ListInv /\ Known /\ ListInv'
  BY StartKeepsList DEF WalkInv
<1>2. /\ a \notin armed /\ armed' = armed \cup {a} /\ UNCHANGED <<nticks, scan>>
      /\ \A b \in Alarms \ {a} : time'[b] = time[b] /\ rollover'[b] = rollover[b]
      /\ Waits(a)' /\ Place' = Place
  BY <1>1, StartSets DEF Place, InCallback
<1>3. /\ \A b \in armed : b \in Alarms \ {a}
      /\ InCallback => scan.alarm # a
  BY <1>1, <1>2, NumberTypes DEF StartAlarm
<1>4. \A b \in armed : (Fits(b) => Fits(b)') /\ (Waits(b) => Waits(b)')
                       /\ (GoingOff(b) => GoingOff(b)')
  BY <1>2, <1>3 DEF Fits, Waits, GoingOff, InCallback
<1>5. Known'
  <2>1. \A b \in armed' : Fits(b)'
    BY <1>1, <1>2, <1>4 DEF Known, Fits, Waits
  <2>2. ASSUME InCallback', scan'.alarm \in armed'
        PROVE  GoingOff(scan.alarm)'
    <3>1. InCallback /\ scan.alarm \in armed
      BY <1>2, <1>3, <2>2 DEF InCallback
    <3>2. QED
      BY <1>1, <1>2, <1>4, <3>1 DEF Known, GoingOff, InCallback
  <2>3. InCallback' => scan'.alarm # scan'.next
    BY <1>1, <1>2 DEF Known, InCallback
  <2>4. QED
    BY <2>1, <2>2, <2>3 DEF Known
<1>6. CASE WalkIsIn
  <2>1. PICK S \in SUBSET armed : Timed(S)
    BY <1>6 DEF WalkInv, Astray
  <2>2. Ahead(S)'
    BY <1>1, <2>1, StartAhead DEF Timed
  <2>3. \A b \in armed' \ S : Waits(b)' \/ GoingOff(b)'
    BY <1>2, <1>4, <2>1 DEF Timed
  <2>4. Timed(S)' /\ S \in SUBSET armed'
    BY <1>2, <2>1, <2>2, <2>3 DEF Timed
  <2>5. QED
    BY <1>1, <1>5, <2>4 DEF WalkInv
<1>7. CASE ~WalkIsIn /\ a = Place
  <2>1. Place' = next'[Head]
    BY <1>1, <1>2, <1>7, InsertLinks, Constants DEF StartAlarm, ListInv
  <2>2. Timed(armed)'
    BY <1>1, <2>1, WholeAheadNext DEF Timed
  <2>3. QED
    BY <1>1, <1>5, <2>2 DEF WalkInv
<1>8. CASE ~WalkIsIn /\ a # Place
  <2>1. ~WalkIsIn'
    BY <1>2, <1>8 DEF WalkIsIn, InList
  <2>2. QED
    BY <1>1, <1>5, <2>1 DEF WalkInv
<1>9. QED
  BY <1>6, <1>7, <1>8

LEMMA StopWalk ==
  ASSUME WalkInv, ~Astray, NEW e \in Alarms, StopAlarm(e)
  PROVE  WalkInv'
<1>1. ListInv /\ Known /\ ListInv' /\ e # Head
  BY StopKeepsList, Constants DEF WalkInv
<1>2. /\ Remove(e) /\ armed' = armed \ {e}
      /\ UNCHANGED <<nticks, time, rollover, scan>> /\ Place' = Place
  BY DEF StopAlarm, Place, InCallback
<1>3. Known'
  BY <1>1, <1>2 DEF Known, Fits, GoingOff, InCallback
<1>4. CASE WalkIsIn /\ e # Place
  <2>1. PICK S \in SUBSET armed : Timed(S)
    BY <1>4 DEF WalkInv, Astray
  <2>2. PICK T : T = S \ {e}
    OBVIOUS
  <2>3. Ahead(T)'
    BY <1>1, <1>2, <1>4, <2>1, <2>2, RemoveAhead DEF Timed, Ahead
  <2>4. \A b \in armed' \ T : Waits(b)' \/ GoingOff(b)'
    BY <1>2, <2>1, <2>2 DEF Timed, Waits, GoingOff, InCallback
  <2>5. Timed(T)' /\ T \in SUBSET armed'
    BY <1>2, <2>1, <2>2, <2>3, <2>4 DEF Timed
  <2>6. QED
    BY <1>1, <1>3, <2>5 DEF WalkInv
<1>5. CASE ~WalkIsIn \/ e = Place
  <2>1. ~WalkIsIn'
    BY <1>1, <1>2, <1>5 DEF WalkIsIn, InList
  <2>2. QED
    BY <1>1, <1>3, <2>1 DEF WalkInv
<1>6. QED
  BY <1>4, <1>5

(* What a callback's return sets: nothing, if its alarm was stopped before *)
LEMMA ReturnSets ==
  ASSUME ListInv, Known, NEW p \in Periods, CallbackReturns(p),
         NEW a, a = scan.alarm
  PROVE  /\ UNCHANGED nticks /\ a \in Alarms
         /\ a \in armed => time[a] = nticks
         /\ \A b \in Alarms \ {a} : time'[b] = time[b] /\ rollover'[b] = rollover[b]
         /\ p = 0 => armed' = armed \ {a}
         /\ p # 0 => armed' = armed
         /\ a \in armed /\ p # 0 => /\ Waits(a)' /\ time'[a] \in Ticks
                                    /\ Left(time'[a], nticks) = p /\ p \in 1..Span - 1
<1>1. /\ nticks \in Ticks /\ nticks \in Nat /\ a \in Alarms /\ InCallback
      /\ time \in [Alarms -> Ticks] /\ rollover \in [Alarms -> BOOLEAN]
  BY NumberTypes DEF ListInv, TypeOK, ScanShape, CallbackReturns
<1>2. a \in armed => time[a] = nticks /\ ~rollover[a]
  BY <1>1 DEF Known, GoingOff
<1>3. nticks' = nticks
  BY DEF CallbackReturns
<1>4. CASE p = 0
  BY <1>1, <1>2, <1>3, <1>4 DEF CallbackReturns
<1>5. CASE p # 0
  <2> DEFINE t == Plus(time[a], p)
  <2>1. /\ time' = [time EXCEPT ![a] = t]
        /\ rollover' = [rollover EXCEPT ![a] = @ \/ t < nticks]
        /\ armed' = armed
    BY <1>5 DEF CallbackReturns
  <2>2. /\ time'[a] = t /\ (rollover'[a] <=> rollover[a] \/ t < nticks)
        /\ \A b \in Alarms \ {a} : time'[b] = time[b] /\ rollover'[b] = rollover[b]
    BY <1>1, <2>1
  <2>3. ASSUME a \in armed
        PROVE  t \in Ticks /\ t # nticks /\ Left(t, nticks) = p /\ p \in 1..Span - 1
    BY <1>1, <1>2, <1>5, <2>3, AgainWaits
  <2>4. a \in armed => Waits(a)'
    BY <1>2, <1>3, <2>2, <2>3 DEF Waits
  <2>5. QED
    BY <1>1, <1>2, <1>3, <1>5, <2>1, <2>2, <2>3, <2>4
<1>6. QED
  BY <1>4, <1>5

LEMMA ReturnWalk ==
  ASSUME WalkInv, ~Astray, NEW p \in Periods, CallbackReturns(p)
  PROVE  WalkInv'
<1>1. PICK a : a = scan.alarm
  OBVIOUS
<1>2. ListInv /\ Known /\ ListInv' /\ a # scan.next
  BY <1>1, ReturnKeepsList DEF WalkInv, Known, CallbackReturns
<1>3. /\ scan' = [pc |-> "scan", alarm |-> scan.next, next |-> Head]
      /\ Place = scan.next /\ Place' = Place /\ ~InCallback'
  BY DEF CallbackReturns, Place, InCallback
<1>4. /\ UNCHANGED nticks /\ a \in Alarms /\ armed' \subseteq armed
      /\ \A b \in Alarms \ {a} : time'[b] = time[b] /\ rollover'[b] = rollover[b]
      /\ p = 0 => armed' = armed \ {a}
      /\ p # 0 => armed' = armed
      /\ a \in armed /\ p # 0 => Waits(a)'
  BY <1>1, <1>2, ReturnSets
<1>5. \A b \in armed' \ {a} : b \in Alarms /\ Fits(b) /\ Fits(b)' /\ (Waits(b) => Waits(b)')
  BY <1>2, <1>4, NumberTypes DEF Known, Fits, Waits
<1>6. a \in armed' => Waits(a)' /\ Fits(a)'
  BY <1>4 DEF Waits, Fits
<1>7. Known'
  BY <1>3, <1>5, <1>6 DEF Known
<1>8. CASE WalkIsIn
  <2>1. PICK S \in SUBSET armed : Timed(S)
    BY <1>8 DEF WalkInv, Astray
  <2>2. PICK T : T = IF p = 0 THEN S \ {a} ELSE S
    OBVIOUS
  <2>3. Ahead(T)'
    <3>1. CASE p = 0
      <4>1. Remove(a) /\ armed' = armed \ {a}
        BY <1>1, <3>1 DEF CallbackReturns
      <4>2. T = S \ {a} /\ a # Place
        BY <1>2, <1>3, <2>2, <3>1
      <4>3. QED
        BY <1>2, <1>3, <1>4, <2>1, <4>1, <4>2, RemoveAhead DEF Timed, Ahead
    <3>2. CASE p # 0
      <4>1. UNCHANGED <<next, prev, armed>>
        BY <3>2 DEF CallbackReturns, listVars
      <4>2. QED
        BY <1>3, <2>1, <2>2, <3>2, <4>1 DEF Timed, Ahead
    <3>3. QED
      BY <3>1, <3>2
  <2>4. \A b \in armed' \ T : Waits(b)'
    BY <1>1, <1>4, <1>5, <1>6, <2>1, <2>2 DEF Timed, GoingOff
  <2>5. Timed(T)' /\ T \in SUBSET armed'
    BY <1>4, <2>1, <2>2, <2>3, <2>4 DEF Timed
  <2>6. QED
    BY <1>2, <1>7, <2>5 DEF WalkInv
<1>9. CASE ~WalkIsIn
  <2>1. Astray'
    BY <1>3, <1>4, <1>9 DEF Astray, WalkIsIn, InList
  <2>2. QED
    BY <1>2, <2>1 DEF WalkInv
<1>10. QED
  BY <1>8, <1>9

LEMMA NextWalk == WalkInv /\ [Next]_alarmVars => WalkInv'
<1> SUFFICES ASSUME WalkInv, [Next]_alarmVars PROVE WalkInv'
  OBVIOUS
<1>1. ListInv /\ ListInv'
  BY NextList DEF WalkInv
<1>2. CASE Astray
  BY <1>1, <1>2, StaysAstray DEF WalkInv
<1>3. CASE ~Astray
  <2>1. CASE UNCHANGED alarmVars
    <3>1. UNCHANGED <<nticks, next, prev, time, rollover, scan, armed>> /\ Place' = Place
      BY <2>1 DEF alarmVars, listVars, Place, InCallback
    <3>2. Known'
      BY <1>3, <3>1 DEF WalkInv, Known, Fits, GoingOff, InCallback
    <3>3. ASSUME NEW S, Timed(S)
          PROVE  Timed(S)'
      BY <3>1, <3>3 DEF Timed, Ahead, Waits, GoingOff, InCallback
    <3>4. WalkIsIn' => WalkIsIn
      BY <3>1 DEF WalkIsIn, InList
    <3>5. QED
      BY <1>1, <1>3, <3>1, <3>2, <3>3, <3>4 DEF WalkInv
  <2>2. CASE Client
    BY <1>3, <2>2, StartWalk, StopWalk DEF Client
  <2>3. QED
    BY <1>3, <2>1, <2>2, TickWalk, ScanWalk, TickReturnsWalk, ReturnWalk DEF Next, Walk
<1>4. QED
  BY <1>2, <1>3

(* At every moment the list splits into what the walk has passed and what  *)
(* it has ahead, and the first part waits for a later tick; or the walk is *)
(* astray.                                                                 *)
THEOREM WalkInvariant == Spec => []WalkInv
<1>1. QED
  BY InitWalk, NextWalk, PTL DEF Spec

(* The walk leaves the list only when a callback stops the very alarm it   *)
(* would go on with, whatever else callbacks start and stop.               *)
THEOREM WalkStaysInList == Spec => WalkKeepsToList
<1>1. ASSUME WalkInv, [Next]_alarmVars, WalkIsIn, ~WalkIsIn'
      PROVE  InCallback /\ scan' = scan /\ scan.next \in armed \ armed'
  <2>1. /\ TypeOK /\ ListSound /\ ScanShape /\ Known
        /\ Place \in InList /\ Place' \notin InList' /\ Head \in InList /\ Head \in InList'
    BY <1>1 DEF WalkInv, ListInv, Astray, WalkIsIn, InList
  <2>2. CASE Tick \/ Scan \/ TickReturns \/ UNCHANGED alarmVars
    <3>1. InList' = InList
      BY <2>2 DEF Tick, Scan, TickReturns, alarmVars, InList
    <3>2. Place' \in {Place, Head, next[Head], next[Place]}
      BY <2>2 DEF Tick, Scan, TickReturns, alarmVars, ScanOff, Place, InCallback
    <3>3. QED
      BY <2>1, <3>1, <3>2 DEF ListSound
  <2>3. CASE \E p \in Periods : CallbackReturns(p)
    <3>1. /\ Place' = Place /\ Place # scan.alarm
          /\ armed \ {scan.alarm} \subseteq armed'
      BY <2>1, <2>3 DEF CallbackReturns, Place, InCallback, Known
    <3>2. QED
      BY <2>1, <3>1 DEF InList
  <2>4. CASE Client
    <3>1. PICK a \in Alarms : StopAlarm(a) \/ \E n \in Delays : StartAlarm(a, n)
      BY <2>4 DEF Client
    <3>2. scan' = scan /\ Place' = Place /\ Calls
      BY <3>1 DEF StopAlarm, StartAlarm, Place, InCallback
    <3>3. Place # Head /\ Place \in armed /\ Place \notin armed'
      BY <2>1, <3>2 DEF InList
    <3>4. InCallback
      BY <2>1, <3>2, <3>3 DEF Calls, ScanShape, Place
    <3>5. QED
      BY <3>2, <3>3, <3>4 DEF Place
  <2>5. QED
    BY <1>1, <2>2, <2>3, <2>4 DEF Next, Walk
<1>2. WalkInv /\ [Next]_alarmVars
        => [WalkIsIn /\ ~WalkIsIn'
              => InCallback /\ scan' = scan /\ scan.next \in armed \ armed']_alarmVars
  BY <1>1
<1>3. QED
  BY <1>2, WalkInvariant, PTL DEF Spec, WalkKeepsToList

(* A walk that has gone astray never gets back: alt_tick does not return   *)
(* and ticks are no longer counted.                                        *)
THEOREM AstrayForEver == Spec => [][Astray => Astray' /\ nticks' = nticks]_alarmVars
<1>1. ASSUME ListInv, [Next]_alarmVars, Astray
      PROVE  Astray' /\ nticks' = nticks
  <2>1. Astray'
    BY <1>1, StaysAstray
  <2>2. ~Tick
    BY <1>1 DEF ListInv, ScanShape, Astray, WalkIsIn, InList, Place, InCallback, Tick
  <2>3. nticks' = nticks
    BY <1>1, <2>2 DEF Next, Walk, Scan, TickReturns, CallbackReturns, Client, StartAlarm,
       StopAlarm, alarmVars
  <2>4. QED
    BY <2>1, <2>3
<1>2. ListInv /\ [Next]_alarmVars => [Astray => Astray' /\ nticks' = nticks]_alarmVars
  BY <1>1
<1>3. QED
  BY <1>2, ListInvariant, PTL DEF Spec

-----------------------------------------------------------------------------
(* The refinement.                                                         *)

LEMMA TicksLeftIs ==
  ASSUME ListInv
  PROVE  /\ DOMAIN TicksLeft = Alarms
         /\ \A a \in armed : TicksLeft[a] = Left(time[a], nticks)
         /\ \A a \in Alarms \ armed : TicksLeft[a] = Span
         /\ \A a \in armed : TicksLeft[a] \in 0..Span - 1
         /\ \A a \in armed : TicksLeft[a] = 0 <=> time[a] = nticks
<1>1. \A a \in armed : a \in Alarms /\ time[a] \in 0..Span - 1 /\ nticks \in 0..Span - 1
  BY NumberTypes DEF Ticks
<1>2. \A a \in armed : TicksLeft[a] = Left(time[a], nticks)
  BY <1>1 DEF TicksLeft, Left
<1>3. ASSUME NEW t \in 0..Span - 1, NEW n \in 0..Span - 1
      PROVE  Left(t, n) \in 0..Span - 1 /\ (Left(t, n) = 0 <=> t = n)
  BY Constants DEF Left
<1>4. \A a \in armed : TicksLeft[a] \in 0..Span - 1 /\ (TicksLeft[a] = 0 <=> time[a] = nticks)
  <2> SUFFICES ASSUME NEW a \in armed
               PROVE  TicksLeft[a] \in 0..Span - 1 /\ (TicksLeft[a] = 0 <=> time[a] = nticks)
    OBVIOUS
  <2>1. time[a] \in 0..Span - 1 /\ nticks \in 0..Span - 1
    BY <1>1
  <2>2. Left(time[a], nticks) \in 0..Span - 1
        /\ (Left(time[a], nticks) = 0 <=> time[a] = nticks)
    BY <2>1, <1>3
  <2>3. TicksLeft[a] = Left(time[a], nticks)
    BY <1>2
  <2> QED BY <2>2, <2>3
<1>5. DOMAIN TicksLeft = Alarms /\ \A a \in Alarms \ armed : TicksLeft[a] = Span
  BY DEF TicksLeft
<1>6. QED
  BY <1>2, <1>4, <1>5

(* A step that changes one alarm only changes its ticks left only.         *)
LEMMA OneAlarmChanges ==
  ASSUME ListInv, ListInv', NEW a \in Alarms, nticks' = nticks,
         \A b \in Alarms \ {a} : time'[b] = time[b] /\ (b \in armed' <=> b \in armed)
  PROVE  TicksLeft' = [TicksLeft EXCEPT ![a] = TicksLeft'[a]]
<1>1. ASSUME NEW b \in Alarms \ {a}
      PROVE  TicksLeft'[b] = TicksLeft[b]
  BY DEF TicksLeft
<1>2. TicksLeft' = [b \in Alarms |-> TicksLeft'[b]]
  BY DEF TicksLeft
<1>3. TicksLeft = [b \in Alarms |-> TicksLeft[b]]
  BY DEF TicksLeft
<1>4. QED
  BY <1>1, <1>2, <1>3

LEMMA NextClock ==
  ASSUME WalkInv, [Next]_alarmVars
  PROVE  [Clock!ClockNext]_<<TicksLeft, asked>>
<1>1. ListInv /\ ListInv' /\ asked \in [Alarms -> Ticks]
  BY NextList DEF WalkInv, ListInv, TypeOK
<1>2. CASE Tick
  <2>1. /\ nticks' = Plus(nticks, 1) /\ UNCHANGED <<time, armed, asked>>
        /\ \A a \in armed : time[a] # nticks
    BY <1>2, TickWalk DEF Tick, Waits
  <2>2. ASSUME NEW a \in Alarms
        PROVE  /\ TicksLeft[a] # 0
               /\ TicksLeft'[a] = IF TicksLeft[a] = Span THEN Span ELSE TicksLeft[a] - 1
    <3>1. CASE a \in armed
      <4>1. TicksLeft[a] \in 0..Span - 1 /\ TicksLeft[a] # 0
        BY <1>1, <2>1, <3>1, TicksLeftIs
      <4>2. TicksLeft'[a] = Left(time[a], nticks')
        BY <2>1, <3>1 DEF TicksLeft, Left
      <4>3. TicksLeft'[a] = TicksLeft[a] - 1
        BY <1>1, <2>1, <3>1, <4>2, TickBrings, NumberTypes, TicksLeftIs
      <4>4. QED
        BY <4>1, <4>3, Constants
    <3>2. CASE a \notin armed
      BY <1>1, <2>1, <3>2, TicksLeftIs, Constants DEF TicksLeft
    <3>3. QED
      BY <3>1, <3>2
  <2>3. TicksLeft' = [a \in Alarms |-> TicksLeft'[a]]
    BY DEF TicksLeft
  <2>4. Clock!Advance
    BY <2>1, <2>2, <2>3 DEF Clock!Advance
  <2>5. QED
    BY <2>4 DEF Clock!ClockNext
<1>3. CASE Scan \/ TickReturns \/ UNCHANGED alarmVars
  BY <1>3 DEF Scan, TickReturns, alarmVars, TicksLeft
<1>4. CASE \E p \in Periods : CallbackReturns(p)
  <2>1. PICK p \in Periods : CallbackReturns(p)
    BY <1>4
  <2>2. PICK a : a = scan.alarm
    OBVIOUS
  <2>3. CASE a \notin armed
    <3>1. armed' = armed /\ nticks' = nticks /\ asked' = asked
      BY <2>1, <2>2, <2>3 DEF CallbackReturns
    <3>2. \A b \in armed : time'[b] = time[b]
      BY <1>1, <2>1, <2>2, <2>3, NumberTypes DEF CallbackReturns, ListInv, TypeOK
    <3>3. QED
      BY <3>1, <3>2 DEF TicksLeft
  <2>4. CASE a \in armed
    <3>1. ~Astray
      BY <2>1, <2>2, <2>4 DEF CallbackReturns, Astray, WalkIsIn, Place, InList
    <3>2. /\ UNCHANGED nticks /\ a \in Alarms /\ time[a] = nticks
          /\ \A b \in Alarms \ {a} : time'[b] = time[b]
          /\ p = 0 => armed' = armed \ {a}
          /\ p # 0 => /\ armed' = armed /\ time'[a] \in Ticks
                      /\ Left(time'[a], nticks) = p /\ p \in 1..Span - 1
      BY <2>1, <2>2, <2>4, <3>1, ReturnSets DEF WalkInv
    <3>3. TicksLeft[a] = 0 /\ asked' = [asked EXCEPT ![a] = p]
      BY <1>1, <2>1, <2>2, <2>4, <3>2, TicksLeftIs DEF CallbackReturns
    <3>4. TicksLeft' = [TicksLeft EXCEPT ![a] = TicksLeft'[a]]
      BY <1>1, <3>2, OneAlarmChanges
    <3>5. CASE p = 0
      <4>1. TicksLeft'[a] = Span
        BY <3>2, <3>5 DEF TicksLeft
      <4>2. Clock!Disarm(a)
        BY <3>3, <3>4, <3>5, <4>1 DEF Clock!Disarm, Clock!Set
      <4>3. QED
        BY <3>2, <4>2 DEF Clock!ClockNext
    <3>6. CASE p # 0
      <4>1. TicksLeft'[a] = p
        BY <2>4, <3>2, <3>6 DEF TicksLeft, Left
      <4>2. Clock!GoOff(a)
        BY <3>2, <3>3, <3>4, <3>6, <4>1 DEF Clock!GoOff, Clock!Set
      <4>3. QED
        BY <3>2, <4>2 DEF Clock!ClockNext
    <3>7. QED
      BY <3>5, <3>6
  <2>5. QED
    BY <2>3, <2>4
<1>5. CASE Client
  <2>1. PICK a \in Alarms : StopAlarm(a) \/ \E n \in Delays : StartAlarm(a, n)
    BY <1>5 DEF Client
  <2>2. CASE StopAlarm(a)
    <3>1. nticks' = nticks /\ time' = time /\ armed' = armed \ {a}
          /\ asked' = [asked EXCEPT ![a] = 0]
      BY <2>2 DEF StopAlarm
    <3>2. TicksLeft' = [TicksLeft EXCEPT ![a] = TicksLeft'[a]]
      BY <1>1, <3>1, OneAlarmChanges
    <3>3. TicksLeft'[a] = Span
      BY <3>1 DEF TicksLeft
    <3>4. Clock!Disarm(a)
      BY <3>1, <3>2, <3>3 DEF Clock!Disarm, Clock!Set
    <3>5. QED
      BY <3>4 DEF Clock!ClockNext
  <2>3. CASE \E n \in Delays : StartAlarm(a, n)
    <3>1. PICK n \in Delays : StartAlarm(a, n)
      BY <2>3
    <3>2. /\ a \notin armed /\ armed' = armed \cup {a} /\ nticks' = nticks
          /\ \A b \in Alarms \ {a} : time'[b] = time[b]
          /\ Left(time'[a], nticks) = n + 1 /\ n \in 0..Span - 2
      BY <1>1, <3>1, StartSets, AlarmAssumption
    <3>3. TicksLeft' = [TicksLeft EXCEPT ![a] = TicksLeft'[a]]
      BY <1>1, <3>2, OneAlarmChanges
    <3>4. TicksLeft[a] = Span /\ TicksLeft'[a] = n + 1
      BY <3>2 DEF TicksLeft, Left
    <3>5. asked' = [asked EXCEPT ![a] = n]
      BY <3>1 DEF StartAlarm
    <3>6. Clock!Arm(a)
      BY <3>2, <3>3, <3>4, <3>5 DEF Clock!Arm, Clock!Set
    <3>7. QED
      BY <3>6 DEF Clock!ClockNext
  <2>4. QED
    BY <2>1, <2>2, <2>3
<1>6. QED
  BY <1>2, <1>3, <1>4, <1>5 DEF Next, Walk

(* Alarms go off at the tick they were asked for and only then, over the   *)
(* roll-over of the counter, as long as ticks are counted.                 *)
THEOREM AlarmsAreOnTime == Spec => ImplementsClock
<1>1. Init => Clock!ClockInit
  BY DEF Init, TicksLeft, Clock!ClockInit
<1>2. WalkInv /\ [Next]_alarmVars => [Clock!ClockNext]_<<TicksLeft, asked>>
  BY NextClock
<1>3. QED
  BY <1>1, <1>2, WalkInvariant, PTL
     DEF Spec, ImplementsClock, Clock!ClockSpec, Clock!clockVars

=============================================================================
