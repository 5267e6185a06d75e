\* Liveness: one enrolled device, two connections, no symmetry.
SPECIFICATION ListedSpec
CONSTANTS
    m1 = m1
    s1 = s1
    s2 = s2
    None = None
    Mac = {m1}
    Session = {s1, s2}
    MacOf <- OneMac
    MaxDeletes = 0
    MaxRestarts = 0
CHECK_DEADLOCK FALSE
PROPERTIES
    DeadPeerLeaves
    SilentIsExpired
    AbandonedGoesOffline
    ReportingHeals
