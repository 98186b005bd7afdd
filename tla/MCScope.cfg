SPECIFICATION Spec
CONSTANTS
    NRecs = 3
    Value = {"a", "b"}
    Conditions <- SomeConditions
    Commands <- SomeCommands
    PageRows = 2
    GoTargets <- AnyTarget
    Overruns <- FirstLost
    None = None
INVARIANTS TypeOK EditedAreDone
PROPERTIES ScopeIsMet ListIsMet PointerSettles LocateFindsAll
CHECK_DEADLOCK TRUE
