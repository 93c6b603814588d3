CONSTANTS
  MaxWords = 3
  Depth = 3
  NoBeat = NoBeat
SPECIFICATION FairSpec
INVARIANTS
  TypeOK
  UnbrokenRuns
  OverflowIsRecent
PROPERTIES
  PassedThrough
  OverflowDiscards
  ReadyAgain
