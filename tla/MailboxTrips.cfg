SPECIFICATION FairSpec
CONSTANTS
    u1 = u1
    Users = {u1}
    WatchdogTimeout = 2
    MinLease = 1
    RingDepth = 1
    MaxTime = 2
    MaxSessions = 2
    Leases = {1, 3}
    Events = {"fault", "malformed", "suspend", "remove"}
PROPERTIES WatchdogTrips FaultIsServed CallsReturn
CHECK_DEADLOCK FALSE
