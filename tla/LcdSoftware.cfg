CONSTANTS
  Byte <- MCByte
  Address <- MCAddress
  ResetTicks = 2
  PicSize = 2
  MaxCount = 2
  Inputs <- MCInputs
  MinGap = 9
  BootTicks = 2
  Setup <- MCSetup
  Picture <- MCPicture
SPECIFICATION SoftwareSpec
PROPERTY CommandsArrive
