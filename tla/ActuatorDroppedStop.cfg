SPECIFICATION Spec
CONSTANTS
    JointCount = 2
    MaxNoise = 0
    IdleReads = {"NotReady"}
    LinkEvents = {}
INVARIANT StoppedIsSafe
CHECK_DEADLOCK FALSE
