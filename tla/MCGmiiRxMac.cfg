CONSTANTS
  AXIS_BYTES = 3
  FrameLengths = {0, 1, 5}
  MinGap = 2
  ResetEdges = 2
  NoByte = NoByte
SPECIFICATION Spec
INVARIANTS
  TypeOK
  PacketsAreFrames
PROPERTIES
  FramesGoOut
