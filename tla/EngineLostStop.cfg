SPECIFICATION FairSpec
CONSTANTS
    JointCount = 1
    SafeLease = 1
    IoPeriod = 1
    ControlPeriod = 1
    CommandValidity = 1
    TargetValidity = 1
    StateValidity = 1
    StartupTimeout = 1
    StartupPoll = 1
    StateSlots = 1
    CommandSlots = 1
    TargetSlots = 1
    SnapshotSlots = 0
    ArmModes = {TRUE}
    MaxTime = 2
    MaxSubmits = 0
    Events = {"stop"}
    SeqSteps = {1}
    SampleAges <- Now
    SampleJoints <- GoodData
    SampleFaults = {FALSE}
    Targets <- OneTarget
PROPERTIES
    StopRequestIsServed
CHECK_DEADLOCK FALSE
