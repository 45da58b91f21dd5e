SPECIFICATION Spec
CONSTANTS
    u1 = u1
    u2 = u2
    Users = {u1, u2}
    WatchdogTimeout = 1
    MinLease = 1
    RingDepth = 2
    MaxTime = 2
    MaxSessions = 3
    Leases = {0, 1, 2}
    Events = {"fault", "malformed", "suspend", "remove", "resetFails"}
SYMMETRY UserSymmetry
INVARIANT OutputNeedsArmedSession
INVARIANT EndpointIsQuiet
INVARIANT StagedIsInTheRing
PROPERTY SessionStartsQuiesced
CHECK_DEADLOCK FALSE
