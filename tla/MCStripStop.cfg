SPECIFICATION FairSpec
CONSTANTS
    one = one
    two = two
    Mods <- BothMods
    NumLeds = 4
    Lower <- StopLower
    Upper <- StopUpper
    Intervals = 1
    DropBars = 1
    FftSize <- FftSizes
    Levels = {0, 3}
    InitTypes <- BarInitTypes
    MaxStops = 1
PROPERTY
    StopBlanks
