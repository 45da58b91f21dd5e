SPECIFICATION Spec
CONSTANTS
    JointCount = 1
    SafeLease = 1
    IoPeriod = 1
    ControlPeriod = 1
    CommandValidity = 1
    TargetValidity = 2
    StateValidity = 1
    StartupTimeout = 1
    StartupPoll = 1
    StateSlots = 1
    CommandSlots = 2
    TargetSlots = 1
    SnapshotSlots = 1
    ArmModes = {TRUE}
    MaxTime = 4
    MaxSubmits = 2
    Events = {"snapshots"}
    SeqSteps = {1}
    SampleAges <- Now
    SampleJoints <- GoodData
    SampleFaults = {FALSE}
    Targets <- TwoTargets
VIEW WithoutSnapshots
INVARIANT PipelineOrdered
PROPERTY WrittenTargetIsFresh
CHECK_DEADLOCK FALSE
