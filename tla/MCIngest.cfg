SPECIFICATION IngestSpec
CONSTANTS
    Tickers = {a}
    AgeGreen = 0
    AgeRed = 1
    RedMin = 1
    GreenMin = 1
    Backoff <- MCBackoff
    RthEnd = 4
    MaxTime = 4
    MaxAsks = 4
CHECK_DEADLOCK FALSE
INVARIANTS RedIsReal GateFollowsAskings
PROPERTY ClosesOnDeadFeed
