SPECIFICATION Spec
CONSTANTS
    Pids = {main}
    Tickers = {aapl, nvda}
    Sides = {long}
    TicketIds = {k1, k2}
    NoTicket = NoTicket
    NoPos = NoPos
    Idle = Idle
    Pairs <- MCPairs
    MaxRisk = 7
    NotionalMult = 1
    KillPct = 50
    LossLock = 0
    PeakHalt = 0
    MaxTrades = 2
    RollbackLimit = 1
    GateBlocks <- MCGateBlocks
    Risks <- MCRisks
    Notionals <- MCNotionals
    Equities <- MCEquities
    PartialGains <- MCPartialGains
    Legs <- MCLegs
SYMMETRY Symmetric
INVARIANTS RecordsAgree PnlComplete
PROPERTIES BlocksAreFinal DaySpec
