CONSTANTS
  BufLen = 3
  FifoDepth = 1
  WriteThreshold = 0
  HostCap = 2
  DefaultTimeout = 2
  Timeouts <- MCTimeouts
  MaxCount = 2
  MaxWritten = 100
  MaxTyped = 0
  CountMax = 2
  SetupLen = 2
  ReportLen = 2
  PinLen = 1
  MaxValue = 4
SPECIFICATION Lab3Spec
INVARIANTS Lab3TypeOK ReportsAdvance InOrderUnlessOverlapped
PROPERTIES SpinningHandlerHangs FinishesOrHangs
CHECK_DEADLOCK FALSE
