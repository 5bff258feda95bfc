CONSTANTS
  FrameCapacity = 2
  EventCapacity = 2
  PicturesPerFrame = 2
  ResetLimit = 2
SPECIFICATION FairSpec
CHECK_DEADLOCK FALSE
INVARIANTS TypeOK NothingStale CodecFollowsActive
PROPERTIES ResetReturnsOrDeadlocks DropReturns RecoveryIsAsked
