CONSTANTS
  NSlots = 4
  Lengths <- MCLengths
  Reentrant = FALSE
  MaxPosts = 5
SPECIFICATION Spec
INVARIANTS TypeOK InFlightAtHead NoStall
PROPERTIES TxImplementsPipe RxImplementsPipe TransfersComplete
CHECK_DEADLOCK FALSE
