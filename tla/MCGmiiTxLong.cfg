SPECIFICATION Spec
CONSTANTS
  MinBytes = 64
  Lengths = {65}
  MaxPackets = 2
INVARIANTS
  LastByteBeforeCrc
