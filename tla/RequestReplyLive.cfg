SPECIFICATION FairSpec
CONSTANTS
    Thread = {t1, t2}
    Mux = {m1}
    Message = {r1}
    None = None
    Cancellable = TRUE
    MaxRequests = 2
PROPERTIES RequestEnds RepliesDestroyed ClosureReleased
CHECK_DEADLOCK FALSE
