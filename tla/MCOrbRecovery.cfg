SPECIFICATION RecoverySpec
CONSTANTS
    Tickers = {t1}
    Uuids = {u1, u2}
    NoTicket = NoTicket
    NoPos = NoPos
    NoRow = NoRow
    Idle = Idle
    TicketIds <- MCTicketIds
    Pairs <- MCPairs
    EntrySides <- MCLong
    Lot = 2
    Equity = 4
    PartialGain = 1
    ExitLegs <- MCLosses
    MaxRisk = 5
    NotionalMult = 1
    KillPct = 50
    LossLock = 0
    PeakHalt = 0
    MaxTrades = 2
    ExitBound = 2
    MaxRestarts = 2
INVARIANTS TicketsBacked RiskMatchesTickets
PROPERTIES SweptAgrees NoGhostAfterBoot SnapshotNeverForgets
