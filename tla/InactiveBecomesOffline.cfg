\* One connection is enough.
SPECIFICATION Spec
CONSTANTS
    m1 = m1
    s1 = s1
    s2 = s2
    None = None
    Mac = {m1}
    Session = {s1}
    MacOf <- OneMac
    MaxDeletes = 0
    MaxRestarts = 0
CHECK_DEADLOCK FALSE
INVARIANT InactiveBecomesOffline
