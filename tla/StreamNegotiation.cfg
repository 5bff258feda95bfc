CONSTANTS
  Modes <- SmallModes
  Sizes <- MCSizes
  SizeOf <- SmallSizeOf
  Local <- BothLocal
  PeerProfiles <- BothLocal
  Phones <- BothPhones
  PhoneProfiles <- BothOffer
  Cameras <- IphoneCameras
  ChoiceLimit = 1
  PhoneQueue = 1
  DesktopQueue = 1
  RequestLimit = 2
  SessionLimit <- Reconnecting
  FrameFlags = {}
SPECIFICATION Spec
CHECK_DEADLOCK FALSE
INVARIANTS TypeOK PriorIsActive RequestsInOrder PendingIsUnderway  OneReplyHolder
PROPERTY AcknowledgedStays
