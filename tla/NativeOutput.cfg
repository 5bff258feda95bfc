SPECIFICATION FairSpec
CONSTANTS
  Formats = {f720, f1080}
  NoFormat = NoFormat
  Room = 3
  SelectLimit = 4
  CommitLimit = 3
INVARIANT CommitsCatchUp
PROPERTY CommitReturns
CHECK_DEADLOCK FALSE
