SPECIFICATION Spec
CONSTANTS
    TicketIds = {t1, t2, t3}
    Pairs = {aLong, bShort}
    MaxRisk = 7
    NotionalMult = 2
    KillPct = 50
    LossLock = 2
    PeakHalt = 4
    Risks <- MCRisks
    Notionals <- MCNotionals
    Equities <- MCEquities
    Legs <- MCLegs
    PnlBound = 4
SYMMETRY Symmetric
INVARIANTS CountersMatchTickets KillMatchesLow
PROPERTIES NoEntryAgainstRecord NotionalGrowsOnlyUnderCap BudgetSpec
