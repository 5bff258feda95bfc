CONSTANTS
  Modes <- SmallModes
  Sizes <- MCSizes
  SizeOf <- SmallSizeOf
  Local <- PairLocal
  PeerProfiles <- PairLocal
  Phones = {"android"}
  PhoneProfiles <- PairPhones
  Cameras = {}
  ChoiceLimit = 0
  PhoneQueue = 1
  DesktopQueue = 1
  RequestLimit = 2
  SessionLimit <- OneConnection
  FrameFlags = {TRUE, FALSE}
SPECIFICATION FairSpec
CHECK_DEADLOCK FALSE
INVARIANTS OutputFollowsActive DecodedFramesFit NoFrameLostToNegotiation
 
