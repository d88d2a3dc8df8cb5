CONSTANTS
    IdName <- MCIdName
    Suffix <- MCSuffix
    CrowdedLength = 2
    Base = 6
    lowerOf <- MCLower
    Hyphen = 4
    Hex = 2
    hexOf <- MCHexOf
    UUIDLen = 6
    MaxHyphens = 2
    UUIDBytes = 2
    MaxDepth = 3
    Tables <- MCTables
SPECIFICATION Spec
INVARIANTS ReverseIncludesBound
