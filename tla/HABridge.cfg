\* start() and three concurrent saves, every failure the code handles.
CONSTANTS
  main = main
  save1 = save1
  save2 = save2
  save3 = save3
  none = none
  off = off
  home = home
  wild = wild
  Caller <- MoreCallers
  Main <- main
  Value <- AnyValue
  NoHost <- off
  Unusable <- Refused
  None <- none
  LoopStopRaises = FALSE
SYMMETRY SaveSymmetry
SPECIFICATION Spec
INVARIANTS
  TypeOK
  ConnectedIsServed
  NewestConfigRuns
  ListensWhereConfigured
PROPERTIES
  OnlyCurrentReports
CHECK_DEADLOCK FALSE
