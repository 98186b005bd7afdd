SPECIFICATION Spec
CONSTANTS
    Programs <- Menu
    MaxDepth = 2
    MaxProcs = 3
    MaxTurns = 2
PROPERTIES ExitLeavesLoop
CHECK_DEADLOCK TRUE
