CONSTANTS
  MaxWords = 3
  Depth = 2
  NoBeat = NoBeat
SPECIFICATION FairSpec
PROPERTIES
  OverflowDiscards
