SPECIFICATION FairSpec
CONSTANTS
    Thread = {t1, t2}
    Context = {c1, c2, c3}
    Group = {g1, g2}
    Svc = Svc
    None = None
INVARIANTS
    TypeOK
    HandlerContextExists
    OneOwner
    ObjectsKept
PROPERTIES
    ReleasedInTheEnd
CHECK_DEADLOCK FALSE
