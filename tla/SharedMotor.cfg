SPECIFICATION Spec
CONSTANTS
    SlaveCount = 2
    MaxBusFaults = 1
    Attempts = 2
    MaxRegions = 1
    MaxDeaths = 1
    MaxFeedbackAge = 0
    Lease = 0
INVARIANT NothingOutlivesItsOwner
PROPERTIES SnapshotsAreWhole OldGoalsAreNotDriven DrivesOnABusThatTold DeadFeedbackIsAFault
CHECK_DEADLOCK FALSE
