----------------------------- MODULE MCHalAlarm ------------------------------
(* Three alarms and a counter of five values for TLC.                      *)
EXTENDS HalAlarm

CONSTANTS a1, a2, a3

MCAlarms  == {a1, a2, a3}
MCDelays  == {0, Span - 2}
MCPeriods == {0, 1, Span - 1}

=============================================================================
