CONSTANTS
  Value <- MCValue
  Address <- MCAddress
  CpuInputs <- MCFewCpuInputs
  Answers <- MCAnswers
  Memory <- MCMemory
  MaxAsked = 1
SPECIFICATION SystemSpec
INVARIANT FreshWord
