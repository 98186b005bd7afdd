SPECIFICATION Spec
CONSTANTS
    Texts <- SomeTexts
    Radix = 6
    MaxRead = 2
    MaxRecs = 2
    MaxOld = 1
PROPERTY PackKeepsMemos
