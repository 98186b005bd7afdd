SPECIFICATION Spec
CONSTANTS
    Tables <- SomeTables
    Keys <- SomeKeys
    Criteria <- SomeCriteria
    PageSizes = {1, 2, 3}
    Radix = 16
    MaxRecs = 8
    MaxEdits = 1
INVARIANTS TypeOK
PROPERTIES FindsMatch FindsAny SeekReturns
