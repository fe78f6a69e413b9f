SPECIFICATION Spec
CONSTANTS
    Window = 3
    Late = 2
    Period = 4
    VEvery = 2
    HandlerLen <- MCHandlerLen
    MainMasks = {0, 7}
    Carts <- MCCarts
INVARIANTS
    NeverEarly
    MasterOnTime
    PriorityNesting
PROPERTY AnsweredWithoutV
