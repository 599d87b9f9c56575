SPECIFICATION FairSpec
CONSTANTS
    PeerFrames <- MCPeerFrames
    WildHeaders <- MCWildHeaders
    AppMessages <- MCAppMessages
    HeaderBytes = 2
    HeaderSize = 3
    MaxBody = 2
    IdLimit = 2
    Capacity = 2
    AckWaiting = FALSE
    MayBeShort = TRUE
    Paced = TRUE
CHECK_DEADLOCK FALSE
INVARIANTS
    TypeOK
    WholeFrames
    AcksOwed
    WireInOrder
PROPERTIES
    AllDelivered
    Drains
