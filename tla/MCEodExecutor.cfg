SPECIFICATION Spec
CONSTANTS
    Tickers = {a}
    Lot = 2
    Morning = {0, 2}
    EntryEnd = 2
    SweepAt = 3
    EodExitAt = 4
    LastMinute = 4
    MaxScans = 4
    MaxTroubles = 1
CHECK_DEADLOCK FALSE
INVARIANTS EodEntryOnce FlatAfterSweep ExposureIsTracked
