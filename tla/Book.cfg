SPECIFICATION Spec
CONSTANTS
    Vaults = {0}
    NLevels = 2
    Profiles <- MCLadders
    RefPrices = {2}
    MaxPrice = 3
    PriceScale = 2
    BPS = 2
    MaxLegs = 2
    TakerFee = 1
    PlatformFees = {1}
    AmountsIn = {4}
    Limits = {2, 4}
    MinOuts = {0, 2}
    Stocks = {1, 4}
    QuoteTimes <- MCQuoteTimes
    ClockMax = 2
    MaxNonce = 4
    PPM = 2
    Q32 = 1
    U64Max = 1
INVARIANTS
    TypeOK
    BookBacked
    BookSolvent
    TakerProtected
    FillsAtCurrentQuote
PROPERTIES
    RevertIsNeutral
    QuoteIsWhatTheSwapPays
    PriceTimePriority
CHECK_DEADLOCK FALSE
