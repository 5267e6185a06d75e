\* One device, two connections, two commands, pruning at the second.
CONSTANTS
  m1 = m1
  s1 = s1
  s2 = s2
  r1 = r1
  r2 = r2
  main = main
  get = get
  none = none
  Mac <- OneMac
  Session <- TwoSessions
  MacOf <- SameDevices
  Part <- OnePart
  Req <- TwoReqs
  Get <- get
  None <- none
  Limit = 1
  Keep = 1
SPECIFICATION FairSpec
INVARIANTS
  TypeOK
  TheNewestAreKept
  OneSettledTimer
PROPERTIES
  VerdictIsFinal
  EveryCommandSettles
  AskedAfterSwitch
CHECK_DEADLOCK FALSE
