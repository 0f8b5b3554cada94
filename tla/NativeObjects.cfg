SPECIFICATION Spec
CONSTANTS
    Wide = 32
    Narrow = 8
    Scale = 3
    Touched = {"subjects", "max_msg_size", "max_age", "back_off", "rate_limit_bps", "ack_wait", "max_deliver"}
    Values = {2, 7}
    MaxMembers = 2
    MaxObjects = 3
INVARIANTS
    TypeOK
    Owned
    NoForeignWait
    ConfigKept
CHECK_DEADLOCK FALSE
