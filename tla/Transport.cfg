SPECIFICATION FairSpec
CONSTANTS
  OutboundCapacity = 1
  InboundCapacity = 1
  WireCapacity = 1
  KeepaliveTimeout = 2
  ConnectTimeout = 1
  PhoneLimit = 1
  DesktopLimit = 3
  Oversized = {3}
INVARIANTS TypeOK DownForAReason
PROPERTIES Ordered EndIsLast ConnectionEnds OutboundDrains
CHECK_DEADLOCK FALSE
