SPECIFICATION FairSpec
CONSTANTS
    Caller = {c1, c2}
    BufferSize = 1
    MaxMessages = 3
    None = None
PROPERTY EndedSubscriptionEndsLoop
CHECK_DEADLOCK FALSE
