SPECIFICATION FairSpec
CONSTANTS
  Count = 2
  States = {device, unauthorized}
  Absent = Absent
  Capacity = 2
  ChangeLimit = 3
INVARIANT ReportsAreExact
PROPERTY ViewConverges
CHECK_DEADLOCK FALSE
