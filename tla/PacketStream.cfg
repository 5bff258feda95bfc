SPECIFICATION PacketSpec
CONSTANTS
  Packets = 4
  PayloadOf <- Pictures
  HeaderCells = 2
  PipeRoom = 4
  ReadSize = 4
  PendingLimit = 6
  ConnectLimit = 3
INVARIANTS WholeAndInOrder LostOnlyByLimitOrLeftovers
CHECK_DEADLOCK FALSE
