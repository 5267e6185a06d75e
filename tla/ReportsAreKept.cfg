\* A report between the read and the write of _set_online is lost.
CONSTANTS
  f1 = f1
  f2 = f2
  w1 = w1
  w2 = w2
  p1 = p1
  k1 = k1
  k2 = k2
  nothing = nothing
  asked = asked
  Nothing <- nothing
  Asked <- asked
  Writer <- Writers
  Handler <- OneHandler
  Field <- OneField
  Page <- OnePage
  Slot <- OneSlot
  MaxReports = 1
  MaxMarks = 1
  MaxEvents = 1
SPECIFICATION Spec
INVARIANTS
  ReportsAreKept
CHECK_DEADLOCK FALSE
