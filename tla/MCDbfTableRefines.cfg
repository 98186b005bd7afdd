SPECIFICATION Spec
CONSTANTS
    RecLen = 2
    Value = {"a", "b"}
    InitFiles <- OwnFiles
    HeaderLens = {2}
    CountBytes = {0}
    LayoutBytes = {1}
    StrayCounts = {0}
    InitWritable = {TRUE}
    GoTargets <- AnyTarget
    Careful = TRUE
    MaxRecs = 3
    MaxCrashes = 2
PROPERTIES AppendYieldsBlank ImplementsTable
