CONSTANTS
  SYNC_STAGES = 2
  Value = {v1, v2, v3}
  v1 = v1
  v2 = v2
  v3 = v3
  Empty = Empty
SPECIFICATION FairVectorSpec
INVARIANTS
  VectorTypeOK
  HandshakeInv
  NoTornSample
PROPERTIES
  BoxSpec
  EveryWordShown
  ReadyAgain
