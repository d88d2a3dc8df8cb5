SPECIFICATION AlgebraSpec
CONSTANTS
    a = a
    b = b
    None = None
    DB = {d1}
    Value <- TwoValues
    Obj <- TwoObj
    Start <- Rows4Two
    ChunkSize = 2
    Fan = 2
    LeafSize = 2
    InnerSize = 2
    MaxRow = 4
    MaxWrites = 1
    MaxSets = 4
INVARIANTS
    RowSetsStable
    BitmapsWellFormed
    SharesOperand
    IterationInOrder
CHECK_DEADLOCK FALSE
