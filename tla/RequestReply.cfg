SPECIFICATION Spec
CONSTANTS
    Thread = {t1, t2}
    Mux = {m1, m2}
    Message = {r1, r2}
    None = None
    Cancellable = FALSE
    MaxRequests = 2
SYMMETRY Symmetry
INVARIANTS TypeOK ReplyOwnership EntriesAreRequests HandlerHasMux OneReplySubscription
PROPERTY ImplementsRequestCall
CHECK_DEADLOCK FALSE
