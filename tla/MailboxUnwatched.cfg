SPECIFICATION FairSpec
CONSTANTS
    u1 = u1
    u2 = u2
    Users = {u1, u2}
    WatchdogTimeout = 1
    MinLease = 1
    RingDepth = 1
    MaxTime = 2
    MaxSessions = 2
    Leases = {2}
    Events = {}
PROPERTY WatchdogTrips
CHECK_DEADLOCK FALSE
