SPECIFICATION Spec
CONSTANTS
    Ring = 6
    Rate = 2
    DevRate = 3
    Levels = {1, 6}
    Inputs = 2
    Frames = 3
    MaxFrames = 4
INVARIANTS
    SlotsApart
    KeepsPitch
    NothingDropped
PROPERTIES
    Queue
    PaceEnds
