SPECIFICATION Spec
CONSTANTS
    PeerFrames <- FastFrames
    WildHeaders <- AnyHeaders
    AppMessages <- NoMessages
    HeaderBytes = 2
    HeaderSize = 2
    MaxBody = 2
    IdLimit = 2
    Capacity = 1
    AckWaiting = FALSE
    MayBeShort = FALSE
    Paced = FALSE
CHECK_DEADLOCK FALSE
INVARIANT BodiesInOrder
