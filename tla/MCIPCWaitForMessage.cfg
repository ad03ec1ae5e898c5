CONSTANTS
    MaxMessage = 4
    InterruptWaiting = TRUE
    NoDecoder = NoDecoder
SPECIFICATION Spec
INVARIANT DeliveredInOrder
CHECK_DEADLOCK FALSE
