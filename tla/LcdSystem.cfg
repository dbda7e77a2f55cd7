CONSTANTS
  Byte <- MCByte
  Address <- MCAddress
  ResetTicks = 2
  PicSize = 2
  MaxCount = 2
  Inputs <- MCInputs
  MinGap = 9
  BootTicks = 2
SPECIFICATION SystemSpec
INVARIANTS SystemTypeOK NoWriteLost Schedule
PROPERTIES ImplementsChannel SetupWhenLanesKept WritesComplete ItemsSent
