\* An exception in a callback ends the network thread of a connected client.
CONSTANTS
  main = main
  save1 = save1
  save2 = save2
  save3 = save3
  none = none
  off = off
  home = home
  wild = wild
  Caller <- TwoCallers
  Main <- main
  Value <- Plain
  NoHost <- off
  Unusable <- Nothing
  None <- none
  LoopStopRaises = FALSE
SPECIFICATION Spec
INVARIANTS
  ConnectedMeansRunning
CHECK_DEADLOCK FALSE
