SPECIFICATION BootSpec
CONSTANT MaxCommands = 1
CHECK_DEADLOCK FALSE
PROPERTY EarlyCostsNothing
