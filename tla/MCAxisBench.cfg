SPECIFICATION Spec
CONSTANTS
  TicksPerClock = 3
  Byte <- MCByte
  NoByte = NoByte
  Benches <- MCBenches
INVARIANTS
  TypeOK
  SettledBeforeEdge
  Conservation
  PackedIsAccepted
PROPERTIES
  AllDelivered
CHECK_DEADLOCK FALSE
