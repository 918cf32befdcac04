SPECIFICATION FairSpec
CONSTANTS
    Users = {a, b}
    UpgradeAuthority = a
    Pairs = {p, q}
    Mints = {m, n}
    Ceilings = {1, 2}
    BPS = 1
    DefaultCeiling = 1
    MaxVaults = 2
    MaxMarkets = 2
    MaxSquats = 3
INVARIANTS
    TypeOK
    MarketsAreGoverned
    FeeVaultOpenForLiveMarkets
PROPERTY
    TeardownCompletes
CHECK_DEADLOCK FALSE
