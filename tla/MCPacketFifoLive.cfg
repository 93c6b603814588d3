CONSTANTS
  SYNC_STAGES = 1
  Depth = 2
  d1 = d1
  Data = {d1}
  NoWord = NoWord
SPECIFICATION FairSpec
PROPERTIES
  CommittedIsRead
  RoomAgain
