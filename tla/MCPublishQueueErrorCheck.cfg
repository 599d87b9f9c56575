SPECIFICATION FairSpec
CONSTANTS
    Producers = {app, uart_rx}
    Consumer = publisher
    NoOwner = NoOwner
    Undefined = Undefined
    Capacity = 2
    MaxMessages = 2
    RelockBlocks = FALSE
CHECK_DEADLOCK FALSE
INVARIANTS
    NoLostWakeup
    SleeperHasToken
PROPERTIES
    ImplementsFifo
    Delivery
    PublishReturns
