SPECIFICATION ThreadsSpec
CONSTANTS
    Ids = {0, 1}
    Attachers = {"app", "net"}
    MaxNodes = 3
    MaxAttach = 3
    MaxWalks = 1
    DataSize = 4
    MaxPasses = 3
    MaxCount = 2
    RingSize = 2
    AppNodes <- LinuxNodes
    LinuxHeaders <- SomeHeaders
    BuffArrMaxSize = 4
    HeaderStruct = 2
    MaxFrames = 3
    NUM_STRIPS = 2
    StripBytes = 3
    MaxSerialFrames = 2
CHECK_DEADLOCK FALSE
INVARIANTS
    RegistryTypeOK
    JunkIsHeadOrInProgress
    QuietWalkRunsAll
    OnlyKnownLosses
    CopyIsOneFreshWindow
    SampledUnlessShort
    CountIsSinceCheck
    LinuxOrder
    PicoFrameWhole
PROPERTIES
    LinuxImplementsFifo
    OnlyRaceLoses
    EveryWaitEnds
