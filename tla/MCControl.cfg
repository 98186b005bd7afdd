SPECIFICATION Spec
CONSTANTS
    Programs <- SomePrograms
    MaxDepth = 2
    MaxProcs = 3
    MaxTurns = 2
INVARIANTS TypeOK ReturnsToCaller
PROPERTIES ImplementsStructured Terminates
CHECK_DEADLOCK TRUE
