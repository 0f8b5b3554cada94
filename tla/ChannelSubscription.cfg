SPECIFICATION FairSpec
CONSTANTS
    Caller = {c1, c2}
    BufferSize = 2
    MaxMessages = 4
    None = None
INVARIANTS TypeOK DeliveredInOrder OneCallStops
PROPERTIES ImplementsMessageStream CloseEndsLoop LossReported ConsumerReleased
CHECK_DEADLOCK FALSE
