SPECIFICATION FairSpec
CONSTANTS
    Caller = {c1, c2}
    BufferSize = 1
    MaxMessages = 3
    None = None
PROPERTY DrainProcessesPending
CHECK_DEADLOCK FALSE
