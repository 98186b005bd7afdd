SPECIFICATION Spec
CONSTANTS
    Names <- SomeNames
    Short <- Cut
    Values <- SomeValues
    MaxVars = 2
    MaxFiltered = 1
    LengthRadix = 4
INVARIANTS TypeOK FileIsPrefix
PROPERTIES RestoreGivesBack
