SPECIFICATION Spec
CONSTANTS
    Tickers = {a, b}
    StartCash = 10
    EntryPrice = 2
    Lot = 2
    Half = 1
    Prices <- MCPrices
    LossLimit <- MCLossLimit
    MaxDay = 2
    MaxEntries = 2
    MaxCrashes = 1
    MaxSaves = 1
SYMMETRY MCSymmetry
CHECK_DEADLOCK FALSE
INVARIANTS BookBalances HaltedIsFlat FlatAfterEod OverwriteNeedsGap
PROPERTY HaltHolds
