SPECIFICATION Spec
CONSTANTS
    CyclesPerFrame = 5
    LinesPerFrame = 2
    SubSlices = 2
    Z80Num = 4
    Z80Den = 7
    Sh2Ratio = 2
    PerK = 3
    Cpi <- MCCpi
    Over <- MCOver
    IrqCycles = 1
    DmaCharges = {0, 2}
    MaxSteps = 5
CHECK_DEADLOCK FALSE
INVARIANTS
    FrameExact
    NeverAhead
    NeverBehind
