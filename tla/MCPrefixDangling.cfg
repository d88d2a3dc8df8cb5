CONSTANTS
    x = x
    y = y
    z = z
    x1 = x1
    x2 = x2
    x3 = x3
    bad = bad
    y1 = y1
    y2 = y2
    z1 = z1
    NoObj = NoObj
    NoId = NoId
    Pk = {x, y, z}
    Obj = {x1, x2, x3, bad, y1, y2, z1}
    pkOf <- MCPkOf
    vals <- MCValsNoBm
    Val = {1, 2}
    Sec = {"u", "m"}
    Bm = {}
    Unique = {"u"}
    AllowMissing = {"m"}
    fails <- MCFails
    AllQuery <- MCAll
    PrefixQuery <- MCMulti
    IdSpace = 4
    MaxOps = 3
SPECIFICATION Spec
PROPERTIES DeletePrefixDeletesRows
