SPECIFICATION Spec
CONSTANTS
    Root = {"a", "b", "w"}
    Effects <- EffectOf
    MaxOnChain = 1
    MaxSegments = 2
    Pending = {"w"}
    Genesis = "a"
    Minute = 2
    Hour = 4
    Room <- Rooms
    MaxIndex <- Indices
    Paddings = 1
    MaxBlocks = 3
    MaxTime = 6
INVARIANT SamplesFit
PROPERTY Implements
CHECK_DEADLOCK FALSE
