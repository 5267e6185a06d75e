\* A replaced client whose stop failed is current again.
CONSTANTS
  main = main
  save1 = save1
  save2 = save2
  save3 = save3
  none = none
  off = off
  home = home
  wild = wild
  Caller <- TwoCallers
  Main <- main
  Value <- Plain
  NoHost <- off
  Unusable <- Nothing
  None <- none
  LoopStopRaises = TRUE
SPECIFICATION Spec
INVARIANTS
  NeverConnectedAfterFailedStop
CHECK_DEADLOCK FALSE
