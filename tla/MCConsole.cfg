SPECIFICATION Spec
CONSTANTS
    MaxCommands = 3
    VBases = {15, 22}
    VValues = {0, 2}
    VMaxAddr = 26
    VMaxWords = 3
    FBlocks = 2
    FWords = 4
    FCounts = {0, 2, 3, 7}
    FShare = 3
    FSprites = 1
    FFrames = 3
    button = button
    SButtons = {button}
    SFrames = 3
    SPulse = 2
    SSyncs <- MCSyncs
    SMaxSyncs = 2
    SOffsets <- MCOffsets
    PadHeld <- MCHeld
    PadFrames = 3
    ZSlice = 2
    ZFrames = 3
    BlockSize = 4
    BlockIrqs = 2
    Digits = {0, 1, 4, 5, 6, 8, 9}
    Top = 4
    DivLong <- MCDivLong
    YmCycles = {1, 5, 7, 30}
    YmElapsed = 40
    YmDebts = 3
    LfsrTop = 16
    Depth = 2
    Shares <- MCShares
    Cycles <- MCCycles
    Ratios <- MCRatios
    MaxWords = 3
CHECK_DEADLOCK FALSE
INVARIANTS
    LandsInOrder
    ShowsWhole
    ReplaysPlain
    PlaysOut
    ReadsBack
    SafeReturn
    NeverHalfLoaded
    RunsToItsEnd
    Decimal
    DividesRight
    KeepsTime
    NeverDead
    Regular
PROPERTIES
    TrafficKept
    BootEnds
    ShareEnds
