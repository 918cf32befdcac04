SPECIFICATION Spec
CONSTANTS
    MaxTx = 6
    Slot <- MCSlot
    LegCount <- MCLegCount
    MaxLegs = 3
    SigRank <- MCSigRank
    BatchLimit = 2
    MaxPages = 2
    MaxFaults = 2
INVARIANT
    NothingLeftBehind
