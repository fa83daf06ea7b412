SPECIFICATION FairSpec
CONSTANTS
  Players = {1, 2}
  Orig = {1, 2, 3}
  Ids = {1}
  Commands <- OneWay
  PacketSize = 1
  FrameGrouping = 1
  RetryTime = 0
  QuitFlushTime = 1
INVARIANTS
  NothingLost
PROPERTIES
  Delivered
  QueuesDrain
  ConnectionsClose
