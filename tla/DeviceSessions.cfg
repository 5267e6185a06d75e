\* One device, two connections, one delete and one crash.
SPECIFICATION Spec
CONSTANTS
    m1 = m1
    s1 = s1
    s2 = s2
    None = None
    Mac = {m1}
    Session = {s1, s2}
    MacOf <- OneMac
    MaxDeletes = 1
    MaxRestarts = 1
SYMMETRY SessionSymmetry
CHECK_DEADLOCK FALSE
INVARIANTS
    TypeOK
    TableHoldsLiveHandlers
    DisplacedAreClosed
    ArmsOnce
    OnlineIsTakenBack
PROPERTIES
    OnlyOwnPathsRelease
    SlotSpec
