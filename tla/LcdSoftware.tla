----------------------------- MODULE LcdSoftware ------------------------------
(***************************************************************************)
(* The LCD software (lab4LcdInterface/main.c) as the bus master of         *)
(* LcdSystem: the stores of init_LCD, then those of the pictures for ever. *)
(* The interconnect turns the byte offset of a store into the number of a  *)
(* 16-bit register.  Delays (usleep, the instructions between two stores)  *)
(* take any number of periods that LcdSystem allows.                       *)
(***************************************************************************)
EXTENDS LcdSystem

(* A store, LCD_Write_Command(word) or LCD_Write_Data(word), is a record of *)
(* whether it is a command and of its word.                                *)
CONSTANTS
  Setup,   \* the stores of init_LCD, in order
  Picture  \* the stores of one picture of the loop, one at least

VARIABLES
  at,    \* how far the program is: its last store, 0 before the first
  sends  \* history: strobes since that store began

softwareVars == <<systemVars, at, sends>>

Program == Setup \o Picture

(* The three pictures of a round differ in their pixels only.              *)
Following(k) == IF k = Len(Program) THEN Len(Setup) + 1 ELSE k + 1

LCD_REG_WRITEDATA == 0
LCD_REG_WRITECMD  == 4

(* IOWR_16DIRECT at the driver's base: the address port counts words of    *)
(* two bytes.                                                              *)
Request(store) ==
  [NoWrite EXCEPT
     !.write = TRUE, !.data = store.word, !.lanes = Lane,
     !.addr = (IF store.command THEN LCD_REG_WRITECMD ELSE LCD_REG_WRITEDATA) \div 2]

SoftwareInit == SystemInit /\ at = 0 /\ sends = 0

WriteBegins == bus'.write /\ ~(bus.write /\ waitReq')

SoftwarePeriod ==
  /\ ClockPeriod
  /\ IF WriteBegins
       THEN at' = Following(at) /\ bus' = Request(Program[at'])
       ELSE UNCHANGED at
  /\ sends' = IF WriteBegins THEN 0 ELSE IF Strobe THEN sends + 1 ELSE sends

SoftwareReset == SystemReset /\ at' = 0 /\ sends' = 0

SoftwareNext == SoftwarePeriod \/ SoftwareReset

SoftwareSpec ==
  SoftwareInit /\ [][SoftwareNext]_softwareVars /\ WF_softwareVars(SoftwarePeriod)

-----------------------------------------------------------------------------

(* A word the panel takes is the one the program stored last, as command   *)
(* or as data as the program meant it (main.c:197-203).                    *)
CommandsArrive ==
  [][Strobe => out' = [word |-> Program[at].word, lanes |-> Lane,
                       data |-> ~Program[at].command]]_softwareVars

=============================================================================
