SPECIFICATION Spec
CONSTANTS
    a = a
    b = b
    None = None
    DB = {d1, d2}
    Value <- OneValue
    Obj <- OneObj
    Start <- Rows4One
    ChunkSize = 2
    Fan = 2
    LeafSize = 2
    InnerSize = 2
    MaxRow = 4
    MaxWrites = 2
    MaxSets = 2
SYMMETRY Same
INVARIANTS
    TypeOK
    RowSetsStable
    VersionsExact
    VectorsWellFormed
    SameMeansSameState
PROPERTIES
    KeepsEpochs
CHECK_DEADLOCK FALSE
