SPECIFICATION Spec
CONSTANTS
    NRecs = 3
    Value = {"a", "b"}
    Conditions <- SomeConditions
    Commands <- SomeCommands
    PageRows = 2
    GoTargets <- AnyTarget
    Overruns <- FirstLost
    None = None
PROPERTIES ForIsRespected
CHECK_DEADLOCK TRUE
