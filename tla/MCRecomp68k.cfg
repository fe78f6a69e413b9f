SPECIFICATION Spec
CONSTANTS
    Code <- MCCode
    Compiled <- MCCompiled
    Handler <- H
    Reset <- A
    Emitted <- MCEmitted
    Faults <- MCFaults
    LogMax = 3
    MaxFuel = 2
INVARIANTS
    NoFalseAlarm
    NoMiss
    RightCode
PROPERTIES
    TakenOnce
    Implements
