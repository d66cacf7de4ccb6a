CONSTANTS
    FirstMinute = 1
    SessionStart = 2
    OrEnd = 6
    LastMinute = 7
    LostBound = 1
    MaxRestarts = 1
SPECIFICATION FairSpec
PROPERTIES RangeIsFinal SweepHealsGaps WindowLocks
