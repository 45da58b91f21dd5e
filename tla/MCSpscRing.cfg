SPECIFICATION Spec
CONSTANTS
    Value = {zero, a}
    Zero = zero
    Capacity = 4
    MaxPushes = 6
INVARIANTS
    NoSlotRace
PROPERTIES
    DrainTakesItsBatch
    ImplementsQueue
