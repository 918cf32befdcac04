SPECIFICATION Spec
CONSTANTS
    RefPrices = {0, 1, 3, 4}
    MaxPrice = 3
    PriceScale = 2
    Baskets <- MCBaskets
    Lots = {1, 2}
    MaxShares = 3
    MaxFlow = 5
    U64Max = 8
    I64Max = 12
    I128Max = 40
INVARIANTS
    PnlIsCashFlow
    SplitAddsUp
CHECK_DEADLOCK FALSE
