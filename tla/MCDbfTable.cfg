SPECIFICATION Spec
CONSTANTS
    RecLen = 4
    Value = {"a"}
    InitFiles <- AllFiles
    HeaderLens = {2, 5}
    CountBytes = {0}
    LayoutBytes = {1}
    StrayCounts = {0, 3}
    InitWritable = {TRUE, FALSE}
    GoTargets <- AnyTarget
    Careful = FALSE
    MaxRecs = 2
    MaxCrashes = 2
INVARIANTS TypeOK Backed PointerInTable CountsAgree
PROPERTIES PackKeepsLive RecordsStable PackRealigns
CHECK_DEADLOCK TRUE
