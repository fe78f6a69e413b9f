SPECIFICATION Spec
CONSTANTS
    Depth = 3
    Group = 2
    Lengths = {2, 4, 6}
    MaxLists = 3
CHECK_DEADLOCK FALSE
INVARIANTS
    CountsAgree
PROPERTY
    Linked
