\* Two writers, two fields, a page with two fetches at a time.
CONSTANTS
  f1 = f1
  f2 = f2
  w1 = w1
  w2 = w2
  p1 = p1
  k1 = k1
  k2 = k2
  nothing = nothing
  asked = asked
  Nothing <- nothing
  Asked <- asked
  Writer <- Writers
  Handler <- Writers
  Field <- TwoFields
  Page <- OnePage
  Slot <- TwoSlots
  MaxReports = 1
  MaxMarks = 1
  MaxEvents = 1
SPECIFICATION FairSpec
INVARIANTS
  TypeOK
  ChangesAreOnTheirWay
  NoWakeUpIsLost
PROPERTIES
  ChangesAreTold
  PagesCatchUp
CHECK_DEADLOCK FALSE
