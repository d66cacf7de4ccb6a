CONSTANTS
    a = a
    b = b
    Symbols <- MCSymbols
    Bmo <- MCBmo
    Amc <- MCAmc
    Premarket <- MCPremarket
    Afterhours <- MCAfterhours
    Session <- MCSession
    Convs <- MCConvs
    Equities <- MCEquities
    Share <- MCShare
    CapShare = 5
    MinShare = 2
    Hard <- MCHard
    Trigger <- MCTrigger
    Trail <- MCTrail
    TimeStop <- MCTimeStop
    WickFrom = 1
    Bars <- MCBars
    BarLag = 1
    MaxTime = 4
    MaxCrashes = 1
SPECIFICATION EwFairSpec
INVARIANTS RowsFollowFile OnceInALife
PROPERTIES ExposureCapped EveryPositionCloses
