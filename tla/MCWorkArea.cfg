SPECIFICATION Spec
CONSTANTS
    NAreas = 2
    Tables = {orders}
    Aliases = {x}
    Indexes = {idx}
    Addresses = {p1, p2}
    None = None
    GoTargets <- AnyTarget
    MaxRecs = 2
SYMMETRY Symmetry
INVARIANTS TypeOK OwnMemory AliasOfOpenTable OrderLoaded
PROPERTIES OnlyGoLeavesRecords OneAreaAtATime
CHECK_DEADLOCK TRUE
