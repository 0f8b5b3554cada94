SPECIFICATION FairSpec
CONSTANT MaxEvents = 2
INVARIANTS TypeOK ContextInUse RefsAreHolders
PROPERTY ContextFreed
CHECK_DEADLOCK FALSE
