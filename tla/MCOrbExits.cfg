SPECIFICATION ExitSpec
CONSTANTS
    Prices <- MCPrices
    R = 4
    Target = 10
    Lot = 2
    CircuitMfe = 4
    CircuitGiveback = 6
    Floor = 2
    PrepMin = 3
    StaleMin = 2
    EodMin = 4
    LastBar = 5
CHECK_DEADLOCK FALSE
INVARIANT MatchesOnPlainBars
PROPERTY ProtectedAfterOneR
