SPECIFICATION Spec
CONSTANTS
    MaxSectors = 1
    Users = {a}
    Admins = {a}
    NoLeader = NoLeader
    QuoteKeys = {a}
    Names = {}
    Unset = Unset
    Flags = {TRUE}
    Amounts = {1}
    FillAmounts = {1}
    Residues = {0}
    TakerFees = {0}
    FeeRates = {0}
    Floors = {}
    DefaultFloor = 0
    Teardown = TRUE
    MaxVaults = 1
    MaxSeq = 1
    MaxAtoms = 2
    PPM = 1
    Q32 = 1
    U64Max = 2
PROPERTY
    TreasuryClosedAfterReclaim
CHECK_DEADLOCK FALSE
