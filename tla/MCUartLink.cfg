SPECIFICATION Spec
CONSTANTS
  TicksPerClock = 2
  SYNC_STAGES = 2
  CLKS_PER_BIT = 11
  BitIntervals = {21, 22}
  Byte <- MCByte
  Quotas <- MCQuotas
INVARIANTS
  TypeOK
  NoFramingError
PROPERTIES
  LinesAreChannels
  EveryByteArrives
