CONSTANTS
    p1 = p1
    p2 = p2
    s1 = s1
    s2 = s2
    h1 = h1
    h2 = h2
    t1 = t1
    t2 = t2
    n1 = n1
    n2 = n2
    c = c
    i1 = i1
    i2 = i2
    i3 = i3
    Proc = {p1, p2}
    Schema = {s1, s2}
    Handle = {h1, h2}
    Index = {i1, i2, i3}
    NoIndex = NoIndex
    refOf <- MCRefOf
    Type = {t1, t2}
    Name = {n1, n2}
    Loc = {0, 8, 99}
    locOf <- MCLocOf
    Extractor = {c}
    ThrowAway = ThrowAway
    Slot = {c}
    slotOf <- MCSlotOf
    Nil = Nil
SPECIFICATION Spec
SYMMETRY Symmetry
INVARIANTS TypeOK IndexIsOwn FieldIsOwn
