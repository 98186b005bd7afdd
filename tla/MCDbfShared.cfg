SPECIFICATION Spec
CONSTANTS
    RecLen = 4
    Value = {"0", "1", "2"}
    Data = {"2"}
    Handles = {h1, h2}
    InitFiles <- Files
    Layouts = {TRUE, FALSE}
    GoTargets <- AnyTarget
    MaxRecs = 2
    MaxEarly = 1
INVARIANTS TypeOK ViewBacked CountBacked
PROPERTIES OthersUntouched
CHECK_DEADLOCK TRUE
