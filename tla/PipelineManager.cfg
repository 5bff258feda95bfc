CONSTANTS
  Callers = {window, other}
  RunLimit = 3
  CallLimit = 3
SPECIFICATION FairSpec
CHECK_DEADLOCK FALSE
INVARIANTS TypeOK  NoOrphan  StreamIsReachable UsbRunHasTunnel
 
