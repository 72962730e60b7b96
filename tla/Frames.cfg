SPECIFICATION FramesSpec
CONSTANTS
    Programs <- MCPrograms
    MaxEvents = 8
    MaxFrames = 2
    MaxSlots = 1
    MaxClosures = 2
    MaxVariables = 3
    Vals = {0, 1}
    MaxWrites = 1
    None = None
INVARIANTS  StackAsExpected SharedVariable FramesHeld
CHECK_DEADLOCK FALSE
