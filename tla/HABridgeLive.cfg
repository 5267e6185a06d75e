\* loop_stop() may raise while the network thread still runs; every restart ends, under the fairness of the threads.
CONSTANTS
  main = main
  save1 = save1
  save2 = save2
  save3 = save3
  none = none
  off = off
  home = home
  wild = wild
  Caller <- Callers
  Main <- main
  Value <- Plain
  NoHost <- off
  Unusable <- Nothing
  None <- none
  LoopStopRaises = TRUE
SPECIFICATION FairSpec
INVARIANTS
  OneLoop
PROPERTIES
  RestartsFinish
CHECK_DEADLOCK FALSE
