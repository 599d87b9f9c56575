SPECIFICATION Spec
CONSTANTS
    Producers = {app, uart_rx}
    Consumer = publisher
    NoOwner = NoOwner
    Undefined = Undefined
    Capacity = 2
    MaxMessages = 3
    RelockBlocks = FALSE
CHECK_DEADLOCK FALSE
INVARIANT ConsumesAnEvent
