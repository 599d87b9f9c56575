SPECIFICATION FairSpec
CONSTANTS
    PeerFrames <- FewFrames
    WildHeaders <- MCWildHeaders
    AppMessages <- NoMessages
    HeaderBytes = 2
    HeaderSize = 3
    MaxBody = 2
    IdLimit = 2
    Capacity = 2
    AckWaiting = FALSE
    MayBeShort = FALSE
    Paced = TRUE
CHECK_DEADLOCK FALSE
PROPERTY EveryFrameAcked
