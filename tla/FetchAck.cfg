SPECIFICATION Spec
CONSTANTS
    Interval = 2
    Timeouts = {3}
    MaxMessages = 2
    MaxBatch = 2
INVARIANT FetchedAreAcked
