SPECIFICATION Spec
CONSTANTS
    MaxSectors = 1
    Users = {lead, dep}
    Admins = {}
    NoLeader = NoLeader
    QuoteKeys = {lead, dep}
    Names = {}
    Unset = Unset
    Flags = {TRUE}
    Amounts = {2}
    FillAmounts = {1}
    Residues = {0, 1}
    TakerFees = {1}
    FeeRates = {3, 4}
    Floors = {0}
    DefaultFloor = 2
    Teardown = TRUE
    MaxVaults = 1
    MaxSeq = 1
    MaxAtoms = 4
    PPM = 4
    Q32 = 2
    U64Max = 7
INVARIANTS
    TypeOK
    Solvent
    SharesAccounted
PROPERTIES
    CloseStrandsNobody
    NothingDiluted
    MarkOnlyRises
    RateNotRetroactive
SYMMETRY UserSymmetry
CHECK_DEADLOCK FALSE
