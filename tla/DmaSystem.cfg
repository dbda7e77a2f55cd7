CONSTANTS
  Value <- MCValue
  Address <- MCAddress
  CpuInputs <- MCCpuInputs
  Answers <- MCAnswers
  Memory <- MCMemory
  MaxAsked = 2
SPECIFICATION SystemSpec
INVARIANTS SystemTypeOK AtMostTwice LastPeriod
PROPERTY ImplementsCopier
