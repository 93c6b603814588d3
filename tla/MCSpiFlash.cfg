SPECIFICATION Spec
CONSTANTS
  TicksPerClock = 2
  Instructions <- MCInstructions
  InjectMax = 2
  RESULT_DEPTH = 2
  BytesPerSelection = 6
INVARIANTS
  TypeOK
  NoAbort
  Results
