CONSTANTS
  Byte <- MCByte
  Address <- MCAddress
  ResetTicks = 2
  PicSize = 2
  MaxCount = 2
  Inputs <- MCInputs
SPECIFICATION Spec
INVARIANTS TypeOK PinsFollow
PROPERTY SelectedPinsHold
