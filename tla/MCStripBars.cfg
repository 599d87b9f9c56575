SPECIFICATION Spec
CONSTANTS
    one = one
    two = two
    Mods <- BothMods
    NumLeds = 8
    Lower <- BarLower
    Upper <- BarUpper
    Intervals = 2
    DropBars = 2
    FftSize <- FftSizes
    Levels = {0, 3}
    InitTypes <- BarInitTypes
    MaxStops = 1
INVARIANTS
    KeepsToSegment
    BarsOutliveStop
