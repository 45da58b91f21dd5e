SPECIFICATION Spec
CONSTANTS
    MaxAge = 2
    Observations <- FewObservations
    SlotCount = 2
    Bindings <- TwoBindings
    Frames <- FramesOfSlots
    Reopened = {1}
    MaxLease = 2
    ArbiterLease = 1
    FramesPerPoll = 1
    RxCapacity = 2
    IngressSlots = 1
    MaxTime = 2
INVARIANTS
    LeasesAreBounded
    PublishedIsDelivered
PROPERTIES
    SourceNeverGoesBack
    BestSourceWins
    ClearBehindTargets
CHECK_DEADLOCK FALSE
