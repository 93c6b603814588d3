CONSTANTS
  AXIS_BYTES = 4
  FrameLengths = {2}
  MinGap = 2
  ResetEdges = 2
  NoByte = NoByte
SPECIFICATION Spec
INVARIANTS
  PackedFromTheFirstLane
