SPECIFICATION Spec
CONSTANTS
    Gains <- MCGains
    R = 2
    Pad = 0
    Atrs = {2}
    NoAtr = 0
    Wide <- MCWide
    Tight <- MCTight
    Step <- MCStep
    HardLoss = 11
    FlashDrop = 4
    DeepGap = 3
    DeepLoss = 5
    Window = 1
    MinHold = 4
    MinBars = 3
    Confirm = 2
    Lot = 2
    Half = 1
    MaxCrashes = 1
PROPERTIES StopConfirmed TrailEarned FlashSameSize BeyondStopExits
