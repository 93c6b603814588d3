SPECIFICATION Spec
CONSTANTS
  MinBytes = 64
  Lengths = {2, 63, 64}
  MaxPackets = 2
INVARIANTS
  TypeOK
  SinkAccepts
PROPERTIES
  FramesArrive
