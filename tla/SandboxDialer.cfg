SPECIFICATION Spec
CONSTANTS
    Server = {s1, s2}
    Address = {a1, a2, a3, a4}
    IPv4 = {a1, a2}
    PermittedServer = {s1}
    PermittedAddress = {a1, a3, a4}
    Fd = {f1, f2}
    None = None
    OrderIP = 46
    ConnectTimeout = 5
    DefaultTimeout = 4
    MinPerAddress = 2
INVARIANTS
    TypeOK
    OnlyPermitted
    SocketsOwned
    ExceptionsReachConstructor
    TimeShared
CHECK_DEADLOCK FALSE
