CONSTANTS
  FrameCapacity = 2
  EventCapacity = 2
  PicturesPerFrame = 2
  ResetLimit = 2
SPECIFICATION FairSpec
CHECK_DEADLOCK FALSE
PROPERTY ResetReturns
