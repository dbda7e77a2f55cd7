CONSTANTS
  BufLen = 3
  FifoDepth = 1
  WriteThreshold = 0
  HostCap = 1
  DefaultTimeout = 1
  Timeouts <- MCTimeouts
  MaxCount = 3
  MaxWritten = 3
  MaxTyped = 3
SPECIFICATION Spec
INVARIANTS TypeOK NothingStranded ReaderWakesDevice SpinnersAreBlocked
PROPERTIES TxImplementsPipe RxImplementsPipe WritesReturn BytesGoOut
CHECK_DEADLOCK FALSE
