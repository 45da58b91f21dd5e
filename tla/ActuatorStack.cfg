SPECIFICATION FairSpec
CONSTANTS
    JointCount = 2
    MaxNoise = 1
    IdleReads = {"NotReady", "IoError"}
    LinkEvents = {"openFails", "readFails", "sendFails"}
INVARIANTS
    CommandsDoNotCollide
    FramesAreTrue
    StopStands
PROPERTIES
    AnswersBecomeAFrame
    StopTakesEffect
CHECK_DEADLOCK FALSE
