CONSTANTS
  Byte <- MCByte
  Address <- MCAddress
  ResetTicks = 2
  PicSize = 2
  MaxCount = 2
  Inputs <- MCInputs
  MinGap = 8
  BootTicks = 2
SPECIFICATION SystemSpec
INVARIANT NoWriteLost
