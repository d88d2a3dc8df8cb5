CONSTANTS
    p1 = p1
    p2 = p2
    aId = aId
    aSec = aSec
    ta = ta
    Proc = {p1, p2}
    Primary = Primary
    Clone = Clone
    NoProc = NoProc
    Slot = {aId, aSec}
    Table = {ta}
    slotsOf <- MCSlotsOf
    idSlot <- MCIdSlot
    MaxTxns = 2
    MaxWrites = 2
    MaxReads = 2
    MaxDefers = 0
    MaxClones = 1
SPECIFICATION Spec
SYMMETRY Symmetry

INVARIANTS TypeOK ViewsStable NoLostWakeup WokenSeesNew NoLostUpdate
PROPERTIES RefinesStore
