SPECIFICATION FairSpec
CONSTANTS
    one = one
    two = two
    Mods <- BothMods
    NumLeds = 2
    Lower <- FadeLower
    Upper <- FadeUpper
    Intervals = 1
    DropBars = 1
    FftSize <- FftSizes
    Levels = {0, 2}
    InitTypes <- FadeInitTypes
    MaxStops = 1
INVARIANTS
    TypeOK
    KeepsToSegment
    StrayStores
PROPERTIES
    FadeEndsInSilence
    SilentStopBlanks
