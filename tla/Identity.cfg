SPECIFICATION Spec
CONSTANTS
    MaxSectors = 2
    Users = {a, b}
    Admins = {a}
    NoLeader = NoLeader
    QuoteKeys = {a}
    Names = {n}
    Unset = Unset
    Flags = {TRUE}
    Amounts = {1}
    FillAmounts = {}
    Residues = {0}
    TakerFees = {}
    FeeRates = {0}
    Floors = {}
    DefaultFloor = 0
    Teardown = FALSE
    MaxVaults = 2
    MaxSeq = 2
    MaxAtoms = 2
    PPM = 1
    Q32 = 1
    U64Max = 2
INVARIANTS
    NamesAndSeqsUnique
    NoOrphanPosition
    LeaderIsNoDepositor
    OneQuotingVaultPerLeader
PROPERTIES
    AdminActsOnTheVaultItRead
CHECK_DEADLOCK FALSE
