CONSTANTS
  a1 = a1
  a2 = a2
  a3 = a3
  Head = Head
  Alarms <- MCAlarms
  Span = 5
  Delays <- MCDelays
  Periods <- MCPeriods
SPECIFICATION Spec
INVARIANTS TypeOK ListSound
PROPERTIES WalkKeepsToList ImplementsClock TickEnds
