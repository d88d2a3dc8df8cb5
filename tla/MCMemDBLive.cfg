CONSTANTS
    p1 = p1
    p2 = p2
    aId = aId
    aSec = aSec
    ta = ta
    Proc = {p1, p2}
    Primary = Primary
    Clone = Clone
    NoProc = NoProc
    Slot = {aId}
    Table = {ta}
    slotsOf <- MCSlotsOf1
    idSlot <- MCIdSlot
    MaxTxns = 2
    MaxWrites = 2
    MaxReads = 2
    MaxDefers = 1
    MaxClones = 0
SPECIFICATION FairSpec
PROPERTIES CommitCompletes WriterArrives StaleWatchesFire
