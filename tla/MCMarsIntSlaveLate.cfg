SPECIFICATION Spec
CONSTANTS
    Window = 3
    Late = 2
    Period = 2
    VEvery = 2
    HandlerLen <- MCHandlerLen
    MainMasks = {0}
    Carts <- MCOrderly
INVARIANT SlaveOnTime
