CONSTANTS
  Modes <- SmallModes
  Sizes <- MCSizes
  SizeOf <- SmallSizeOf
  Local <- SmallLocal
  PeerProfiles <- SmallLocal
  Phones = {"android"}
  PhoneProfiles <- SmallPhones
  Cameras = {}
  ChoiceLimit = 0
  PhoneQueue = 1
  DesktopQueue = 1
  RequestLimit = 1
  SessionLimit <- OneConnection
  FrameFlags = {}
SPECIFICATION Spec
CHECK_DEADLOCK FALSE
INVARIANT RejectedKeepsPrevious
