SPECIFICATION FairSpec
CONSTANTS
    Interval = 2
    Timeouts = {3}
    MaxMessages = 3
    MaxBatch = 2
INVARIANTS
    TypeOK
    MessagesOwned
    CancelLatency
    TimeoutKept
    ReturnedInOrder
PROPERTIES
    CallReturns
