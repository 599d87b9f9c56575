SPECIFICATION LibSpec
CONSTANTS
    StateLists <- Tables
    UsedEvents = {0, 1, 2, 3}
    MaxDepth = 2
    MaxCalls = 3
    Threads = {"t1", "t2"}
    max_elements = 2
    Bits = {0, 1}
    SemCount = 2
    MaxOps = 5
    MaxFd = 6
    Sizes = {1}
    PointerSize = 4
    Pins = {1}
    MaxDeviceCalls = 5
    num_leds = 2
    Colours <- SomeColours
    Chips = 1
    ChipCounts = {0, 1, 2}
    ColumnValues = {0, 1}
CHECK_DEADLOCK FALSE
INVARIANTS
    InStateEnteredLast
    LockedQueueHolds
    WordHoldsSignals
    HandleHasItsDevice
    PinsReadBack
    StripShowsColours
