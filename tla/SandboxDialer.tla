------------------------------ MODULE SandboxDialer ------------------------------
(***************************************************************************)
(* The connection of code that a sandbox governs: the check of the URLs in *)
(* the constructor of QoreNatsConnection, and the NatsSandboxDialer, which *)
(* makes every TCP connection for the C client.  It is called by the       *)
(* thread that creates the connection, within natsConnection_Connect(),    *)
(* and later by the reconnect thread of the C client, with servers that    *)
(* the cluster reported; a host name can resolve to other addresses each   *)
(* time.                                                                   *)
(*                                                                         *)
(* External: the resolver, the network, the policy of the sandbox (as the  *)
(* sets of what it permits), and which servers the C client tries.         *)
(***************************************************************************)
EXTENDS Integers, Sequences, FiniteSets

CONSTANTS
    Server,             \* host names
    Address,            \* addresses that a host name can resolve to
    IPv4,               \* those of family AF_INET; the others are AF_INET6
    PermittedServer,    \* the network policy: host names
    PermittedAddress,   \* and addresses
    Fd,                 \* file descriptors
    None,
    OrderIP,            \* ip_resolution_order: 0, 4, 6, 46 or 64
    ConnectTimeout,     \* connect_timeout_ms
    DefaultTimeout,     \* NATS_DEFAULT_CONNECT_TIMEOUT_MS
    MinPerAddress       \* NATS_MIN_CONNECT_TIMEOUT_PER_ADDRESS_MS

ASSUME TimesAssumption ==
    ConnectTimeout \in Nat /\ DefaultTimeout \in Nat \ {0} /\ MinPerAddress \in Nat \ {0}
ASSUME PolicyAssumption == PermittedServer \subseteq Server /\ PermittedAddress \subseteq Address
ASSUME AddressesAssumption == IPv4 \subseteq Address /\ IsFiniteSet(Address)
ASSUME NoneAssumption == None \notin Fd \cup Server
ASSUME OrderAssumption == OrderIP \in {0, 4, 6, 46, 64}

Thread == {"creator", "reconnect"}

VARIABLES
    ctor,       \* the connection object: where the constructor or the destructor is
    conn,       \* the C client's connection: "none", "open" or "closing"
    tried,      \* the servers that natsConnection_Connect() has tried
    clientFd,   \* the socket of the C client's connection
    open,       \* the file descriptors that are open
    step,       \* each thread in connectIntern(): "idle", "next" or "poll"
    server,     \* its host
    rest,       \* the addresses not tried yet; while connecting, the first one is being tried
    count,      \* how many addresses there were
    denied,     \* an address was not permitted
    fd,         \* the socket in its SocketHolder
    spent,      \* the time spent waiting
    initial,    \* NatsSandboxDialer::initial
    pending,    \* NatsSandboxDialer::pending: an exception is kept
    interrupted,\* a connection attempt of the creating thread was cancelled
    raised      \* what the constructor raised

dialVars == <<step, server, rest, count, denied, fd, spent>>
exceptionVars == <<initial, pending, interrupted, raised>>
connVars == <<conn, tried, clientFd, open>>
vars == <<ctor, connVars, dialVars, exceptionVars>>

Init ==
    /\ ctor = "check" /\ conn = "none" /\ tried = {}
    /\ clientFd = None /\ open = {}
    /\ step = [w \in Thread |-> "idle"]
    /\ server = [w \in Thread |-> None]
    /\ rest = [w \in Thread |-> <<>>]
    /\ count = [w \in Thread |-> 0]
    /\ denied = [w \in Thread |-> FALSE]
    /\ fd = [w \in Thread |-> None]
    /\ spent = [w \in Thread |-> 0]
    /\ initial = TRUE /\ pending = FALSE /\ interrupted = FALSE /\ raised = "none"

(***************************************************************************)
(* The constructor's check of its URLs, one after the other: those of the  *)
(* "servers" option, then "url".  Of each, the host name and every address *)
(* that it resolves to are checked; a URL without a host, None, passes     *)
(* unchecked (what the C client dials for it goes through the dialer).     *)
(***************************************************************************)

Fail(how) ==
    /\ ctor' = "failed"
    /\ raised' = how

CheckURL(s) ==
    /\ ctor = "check"
    /\ \E found \in SUBSET Address :
          IF s = None \/ (s \in PermittedServer /\ found # {} /\ found \subseteq PermittedAddress)
          THEN ctor' \in {"check", "connect"} /\ UNCHANGED raised
          ELSE Fail("denied")
    /\ UNCHANGED <<connVars, dialVars, initial, pending, interrupted>>

(***************************************************************************)
(* NatsSandboxDialer.                                                      *)
(***************************************************************************)

Timeout == IF ConnectTimeout > 0 THEN ConnectTimeout ELSE DefaultTimeout

\* The time for each of n addresses.
AtLeastMin(n) == IF Timeout \div n < MinPerAddress THEN MinPerAddress ELSE Timeout \div n
WholeTimeout(n) == Timeout                      \* mutant: each address gets the whole timeout
Remainder(n) == Timeout - n * MinPerAddress    \* mutant: what the minima leave of the timeout
PerAddress(n) == AtLeastMin(n)

\* The families that are resolved, one after the other.
Families ==
    CASE OrderIP = 4 -> <<IPv4>>
      [] OrderIP = 6 -> <<Address \ IPv4>>
      [] OrderIP = 46 -> <<IPv4, Address \ IPv4>>
      [] OrderIP = 64 -> <<Address \ IPv4, IPv4>>
      [] OTHER -> <<Address>>

Rank(a) == CHOOSE f \in DOMAIN Families : a \in Families[f]

\* What a host can resolve to: addresses of these families, each family in any order (the
\* resolver's, shuffled unless no_randomize is set), or none.
Resolutions == {s \in UNION {[1..n -> Address] : n \in 0..Cardinality(Address)} :
    /\ \A i \in DOMAIN s : \E f \in DOMAIN Families : s[i] \in Families[f]
    /\ \A i, j \in DOMAIN s : i < j => s[i] # s[j] /\ Rank(s[i]) <= Rank(s[j])}

\* connectIntern() begins on thread w.
Dial(w, s) ==
    /\ step[w] = "idle"
    /\ step' = [step EXCEPT ![w] = "next"]
    /\ server' = [server EXCEPT ![w] = s]
    /\ \E found \in Resolutions :
          /\ rest' = [rest EXCEPT ![w] = found]
          /\ count' = [count EXCEPT ![w] = Len(found)]
    /\ denied' = [denied EXCEPT ![w] = FALSE]
    /\ spent' = [spent EXCEPT ![w] = 0]
    /\ fd' = fd

Permitted(w, a) == server[w] \in PermittedServer /\ a \in PermittedAddress
PermittedAtFirst(w, a) ==                       \* mutant: reconnections are not checked
    w = "creator" => server[w] \in PermittedServer /\ a \in PermittedAddress
CheckNetworkAccess(w, a) == Permitted(w, a)

TryNext(w) == rest' = [rest EXCEPT ![w] = Tail(@)]

\* An address that is not permitted is left out.
SkipDenied(w) ==
    /\ step[w] = "next" /\ rest[w] # <<>>
    /\ ~CheckNetworkAccess(w, Head(rest[w]))
    /\ denied' = [denied EXCEPT ![w] = TRUE]
    /\ TryNext(w)
    /\ UNCHANGED <<ctor, connVars, step, server, count, fd, spent, exceptionVars>>

\* connectAddress(): a socket, which the holder closes unless the connection is made, or none.
OpenSocket(w) ==
    /\ step[w] = "next" /\ rest[w] # <<>>
    /\ CheckNetworkAccess(w, Head(rest[w]))
    /\ \/ \E f \in Fd \ open :
             /\ open' = open \cup {f}
             /\ fd' = [fd EXCEPT ![w] = f]
          /\ step' = [step EXCEPT ![w] = "poll"]
          /\ rest' = rest
       \/ TryNext(w) /\ UNCHANGED <<open, fd, step>>
    /\ UNCHANGED <<ctor, conn, tried, clientFd, server, count, denied, spent, exceptionVars>>

\* The address is waited for, for some time up to the limit.
Waits(w) == \E d \in {0, PerAddress(count[w])} : spent' = [spent EXCEPT ![w] = @ + d]

\* The destructor of SocketHolder.
CloseHeld(w) ==
    /\ open' = open \ {fd[w]}
    /\ fd' = [fd EXCEPT ![w] = None]
LeakHeld(w) ==                                  \* mutant: the socket is released before its options are set
    /\ open' = open
    /\ fd' = [fd EXCEPT ![w] = None]
HolderGone(w) == CloseHeld(w)

\* The connection is refused, times out or cannot be set up.
AddressFails(w) ==
    /\ step[w] = "poll"
    /\ Waits(w)
    /\ HolderGone(w)
    /\ step' = [step EXCEPT ![w] = "next"]
    /\ TryNext(w)
    /\ UNCHANGED <<ctor, conn, tried, clientFd, server, count, denied, exceptionVars>>

\* keepException(): the first exception while the connection is created; later nobody could receive it.
KeepFirst == pending' = (pending \/ initial)
KeepAlways == pending' = TRUE                   \* mutant: exceptions of the reconnect thread are kept for ever
KeepException == KeepFirst

\* The thread is cancelled, or its sandbox interrupted: the C client is told of an error.
Cancelled(w) ==
    /\ step[w] = "poll"
    /\ HolderGone(w)
    /\ KeepException
    /\ interrupted' = (interrupted \/ w = "creator")
    /\ step' = [step EXCEPT ![w] = "idle"]
    /\ rest' = [rest EXCEPT ![w] = <<>>]
    /\ UNCHANGED <<ctor, conn, tried, clientFd, server, count, denied, spent, initial, raised>>

\* No address is left: NATS_NOT_PERMITTED or NATS_NO_SERVER.
NoServer(w) ==
    /\ step[w] = "next" /\ rest[w] = <<>>
    /\ step' = [step EXCEPT ![w] = "idle"]
    /\ UNCHANGED <<ctor, connVars, server, rest, count, denied, fd, spent, exceptionVars>>

\* The socket goes to the C client, which makes its connection with it, or not (its handshake fails).
Connected(w) ==
    /\ step[w] = "poll"
    /\ Waits(w)
    /\ fd' = [fd EXCEPT ![w] = None]
    /\ step' = [step EXCEPT ![w] = "idle"]
    /\ rest' = [rest EXCEPT ![w] = <<>>]
    /\ \/ /\ conn # "closing"
          /\ clientFd' = fd[w] /\ open' = open
          /\ conn' = "open"
          /\ ctor' = IF w = "creator" THEN "take" ELSE ctor
       \/ /\ open' = open \ {fd[w]}
          /\ UNCHANGED <<clientFd, ctor, conn>>
    /\ UNCHANGED <<tried, server, count, denied, exceptionVars>>

(***************************************************************************)
(* The connection object.                                                  *)
(***************************************************************************)

\* natsConnection_Connect() tries its servers, and returns with a connection (Connected) or without.
TryServer(s) ==
    /\ ctor = "connect" /\ s \notin tried
    /\ Dial("creator", s)
    /\ tried' = tried \cup {s}
    /\ UNCHANGED <<ctor, conn, clientFd, open, exceptionVars>>

ConnectFails ==
    /\ ctor = "connect" /\ tried # {} /\ step["creator"] = "idle"
    /\ ctor' = "take"
    /\ UNCHANGED <<connVars, dialVars, exceptionVars>>

\* takeException(): an exception of the dialer is raised, or else the status.
TakeException ==
    IF pending THEN Fail("cancelled")
    ELSE IF conn = "none" THEN Fail("status")
    ELSE ctor' = "made" /\ UNCHANGED raised

StatusFirst ==                                  \* mutant: the status is raised in place of the exception
    IF conn = "none" THEN Fail("status")
    ELSE IF pending THEN Fail("cancelled")
    ELSE ctor' = "made" /\ UNCHANGED raised

Outcome == TakeException

ConnectReturns ==
    /\ ctor = "take"
    /\ Outcome
    /\ initial' = FALSE /\ pending' = FALSE
    /\ UNCHANGED <<connVars, dialVars, interrupted>>

\* The C client's connection is lost, and its reconnect thread tries servers until it has one.
Lost ==
    /\ conn = "open" /\ clientFd # None
    /\ open' = open \ {clientFd}
    /\ clientFd' = None
    /\ UNCHANGED <<ctor, conn, tried, dialVars, exceptionVars>>

Reconnect(s) ==
    /\ conn = "open" /\ clientFd = None
    /\ Dial("reconnect", s)
    /\ UNCHANGED <<ctor, connVars, exceptionVars>>

\* The destructor: natsConnection_Destroy() closes the connection and joins the reconnect thread,
\* and the dialer, a member of the object, is freed after that.
Destroy ==
    /\ ctor \in {"made", "failed"}
    /\ ctor' = "destroying"
    /\ conn' = IF conn = "open" THEN "closing" ELSE conn
    /\ open' = open \ {clientFd}
    /\ clientFd' = None
    /\ UNCHANGED <<tried, dialVars, exceptionVars>>

Free ==
    /\ ctor = "destroying"
    /\ step["reconnect"] = "idle"
    /\ ctor' = "freed"
    /\ UNCHANGED <<connVars, dialVars, exceptionVars>>

-----------------------------------------------------------------------------

Connect(w) == SkipDenied(w) \/ OpenSocket(w) \/ AddressFails(w) \/ Cancelled(w) \/ NoServer(w) \/ Connected(w)

Next ==
    \/ \E s \in Server \cup {None} : CheckURL(s)
    \/ \E s \in Server : TryServer(s) \/ Reconnect(s)
    \/ \E w \in Thread : Connect(w)
    \/ ConnectFails \/ ConnectReturns \/ Lost \/ Destroy \/ Free

Spec == Init /\ [][Next]_vars

-----------------------------------------------------------------------------
(***************************************************************************)
(* Properties.                                                             *)
(***************************************************************************)

\* Types of the variables (NatsSandboxDialer's members and the locals of connectIntern()).
TypeOK ==
    /\ ctor \in {"check", "connect", "take", "made", "failed", "destroying", "freed"}
    /\ conn \in {"none", "open", "closing"}
    /\ tried \subseteq Server
    /\ clientFd \in Fd \cup {None} /\ open \subseteq Fd
    /\ step \in [Thread -> {"idle", "next", "poll"}]
    /\ server \in [Thread -> Server \cup {None}]
    /\ rest \in [Thread -> Seq(Address)] /\ \A w \in Thread : step[w] = "poll" => rest[w] # <<>>
    /\ count \in [Thread -> Nat] /\ spent \in [Thread -> Nat]
    /\ denied \in [Thread -> BOOLEAN]
    /\ fd \in [Thread -> Fd \cup {None}]
    /\ initial \in BOOLEAN /\ pending \in BOOLEAN /\ interrupted \in BOOLEAN
    /\ raised \in {"none", "denied", "cancelled", "status"}

\* Every address that a socket is connected to is permitted, on whatever thread and whatever the
\* host name resolves to by then (the check per address in connectIntern()).
OnlyPermitted ==
    \A w \in Thread : step[w] = "poll" =>
        server[w] \in PermittedServer /\ Head(rest[w]) \in PermittedAddress

\* Every open socket has one owner, which will close it: the holder of a connection in progress,
\* or the C client (SocketHolder, and the hand-over in connectAddress()); a connection object that
\* is freed, with the dialer in it, leaves no socket and no thread in the dialer (its destructor).
SocketsOwned ==
    /\ open = ({clientFd} \cup {fd[w] : w \in Thread}) \ {None}
    /\ \A w \in Thread : fd[w] # None => fd[w] # clientFd
    /\ fd["creator"] = fd["reconnect"] => fd["creator"] = None
    /\ ctor = "freed" => open = {} /\ \A w \in Thread : step[w] = "idle"

\* A cancellation of the first connection is what the constructor raises, although the C client
\* is only told of an error and may go on with another server (keepException(), takeException()).
CancellationRaised ==
    interrupted /\ ctor \notin {"connect", "take"} => raised = "cancelled"

\* No exception is kept that nobody will take: none after takeException() (keepException() on the
\* reconnect thread).
NoExceptionKept == pending => initial

\* The two together: an exception of the dialer is raised by the constructor, or by nobody.
ExceptionsReachConstructor == CancellationRaised /\ NoExceptionKept

\* The addresses of a host share the connect timeout, except for the minimum of each
\* (per_address_ms in connectIntern()).
TimeShared ==
    \A w \in Thread : spent[w] <= Timeout \/ spent[w] <= count[w] * MinPerAddress

=============================================================================
