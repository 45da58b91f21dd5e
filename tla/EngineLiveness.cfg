SPECIFICATION FairSpec
CONSTANTS
    JointCount = 1
    SafeLease = 1
    IoPeriod = 1
    ControlPeriod = 1
    CommandValidity = 1
    TargetValidity = 1
    StateValidity = 1
    StartupTimeout = 1
    StartupPoll = 1
    StateSlots = 1
    CommandSlots = 1
    TargetSlots = 1
    SnapshotSlots = 0
    ArmModes = {TRUE, FALSE}
    MaxTime = 2
    MaxSubmits = 1
    Events = {"stop", "disarm", "startupTime", "setupFails", "spawnFails", "waitFails", "openFails", "sleepFails", "readNotReady", "readFails", "armFails", "writeFails"}
    SeqSteps = {1}
    SampleAges <- Now
    SampleJoints <- GoodData
    SampleFaults = {FALSE}
    Targets <- OneTarget
INVARIANT EnergizedOnlyIfAuthorized
PROPERTIES
    WriteNeedsFeedback
    FaultIsSticky
    StartReturns
    RequestsAreServed
    DisarmTakesEffect
CHECK_DEADLOCK FALSE
