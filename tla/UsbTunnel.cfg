SPECIFICATION FairSpec
CONSTANTS
  Phones = {p1, p2}
  NoPhone = NoPhone
  Callers = {c1, c2}
  NoCaller = NoCaller
  CallLimit = 3
  RunLimit = 3
  ChangeLimit = 1
INVARIANT NoTunnelForgotten
PROPERTY CallsReturn
CHECK_DEADLOCK FALSE
