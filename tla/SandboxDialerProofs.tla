-------------------------- MODULE SandboxDialerProofs --------------------------
(***************************************************************************)
(* Proofs about SandboxDialer, for any servers, addresses and policy.      *)
(*                                                                         *)
(* The two threads never are in the dialer at the same time: the creating  *)
(* thread is there before the C client has a connection, the reconnect     *)
(* thread only while it has one that is lost.  Stages says so, and which   *)
(* sockets there are then; with the properties it is inductive.            *)
(***************************************************************************)
EXTENDS SandboxDialer, TLAPS

\* The stages of the constructor, of the C client's connection and of the two threads.
Stages ==
    /\ \A w \in Thread : step[w] = "poll" <=> fd[w] # None
    /\ step["creator"] # "idle" => ctor = "connect"
    /\ ctor \in {"check", "connect"} => conn = "none"
    /\ step["reconnect"] # "idle" => conn # "none" /\ clientFd = None
    /\ clientFd # None => conn = "open"
    /\ ctor \in {"destroying", "freed"} => conn # "open"
    /\ ctor = "freed" => step["reconnect"] = "idle"

\* The exception that is kept: the creating thread is cancelled only while it creates the connection.
Exceptions ==
    /\ ctor \in {"check", "connect", "take"} => initial
    /\ ctor = "check" => ~interrupted
    /\ interrupted /\ ctor \in {"connect", "take"} => pending

\* How long each thread has waited: at most PerAddress for each address that was tried.
Waited ==
    \A w \in Thread :
        /\ Len(rest[w]) <= count[w]
        /\ spent[w] = 0 \/ (count[w] > 0 /\ spent[w] <= (count[w] - Len(rest[w])) * PerAddress(count[w]))

Safe == OnlyPermitted /\ SocketsOwned /\ NoExceptionKept /\ CancellationRaised

Inv == TypeOK /\ Stages /\ Exceptions /\ Waited /\ Safe

\* A resolution is a sequence of addresses.
LEMMA ResolutionIsSeq ==
    ASSUME NEW found \in Resolutions
    PROVE  found \in Seq(Address) /\ Len(found) \in Nat
  BY DEF Resolutions

\* The time for an address is a number, and the times of all are the timeout or the minima.
LEMMA PerAddressTimes ==
    ASSUME NEW n \in Nat, n > 0
    PROVE  /\ PerAddress(n) \in Nat
           /\ n * PerAddress(n) <= Timeout \/ n * PerAddress(n) <= n * MinPerAddress
<1>1. Timeout \in Nat
  BY TimesAssumption DEF Timeout
<1>2. PICK q \in Nat : q = Timeout \div n
  BY <1>1
<1>3. n * q <= Timeout
  BY <1>1, <1>2
<1>4. PerAddress(n) = q \/ PerAddress(n) = MinPerAddress
  BY <1>2 DEF PerAddress, AtLeastMin
<1> QED
  BY <1>1, <1>2, <1>3, <1>4, TimesAssumption

\* What is left of the addresses of a host after one of them.
LEMMA TailOfAddresses ==
    ASSUME NEW s \in Seq(Address), s # <<>>
    PROVE  /\ Tail(s) \in Seq(Address)
           /\ Len(s) \in Nat /\ Len(s) > 0 /\ Len(Tail(s)) = Len(s) - 1
  OBVIOUS

\* Arithmetic of the waits: one more address, or all that are left, with time p for each.
LEMMA OneMore ==
    ASSUME NEW c \in Nat, NEW l \in Nat, NEW k \in Nat, NEW p \in Nat, NEW x \in Nat, NEW d \in {0, p},
           l <= c, k < l, x <= (c - l) * p
    PROVE  x + d <= (c - k) * p
<1>1. PICK m \in Nat : l = k + m + 1
  <2>1. l - k - 1 \in Nat /\ l = k + (l - k - 1) + 1
    OBVIOUS
  <2> QED
    BY <2>1
<1>2. PICK n \in Nat : c = l + n
  <2>1. c - l \in Nat /\ c = l + (c - l)
    OBVIOUS
  <2> QED
    BY <2>1
<1>3. c - l = n /\ c - k = n + m + 1
  BY <1>1, <1>2
<1>4. (n + m + 1) * p = n * p + m * p + p /\ m * p >= 0 /\ n * p >= 0
  OBVIOUS
<1> QED
  BY ONLY <1>3, <1>4, x <= (c - l) * p, d \in {0, p}, p \in Nat, x \in Nat, n \in Nat, m \in Nat

\* A step of connectIntern() that drops addresses from the front of the list of thread w, and that
\* waited for the first one at most.
LEMMA DropsAddresses ==
    ASSUME TypeOK, Waited, NEW w \in Thread, NEW left \in Seq(Address),
           rest' = [rest EXCEPT ![w] = left], count' = count,
           \/ spent' = spent /\ Len(left) <= Len(rest[w])
           \/ Waits(w) /\ Len(left) < Len(rest[w])
    PROVE  rest' \in [Thread -> Seq(Address)] /\ spent' \in [Thread -> Nat] /\ Waited'
<1> USE DEF TypeOK
<1>0. Len(left) \in Nat /\ Len(rest[w]) \in Nat /\ count[w] \in Nat /\ spent[w] \in Nat
  OBVIOUS
<1>1. rest' \in [Thread -> Seq(Address)]
  OBVIOUS
<1>2. \A u \in Thread : u # w => rest'[u] = rest[u] /\ spent'[u] = spent[u]
  BY DEF Waits
<1>3. CASE Len(left) < Len(rest[w])
  <2>1. count[w] > 0 /\ Len(rest[w]) <= count[w]
    BY <1>0, <1>3 DEF Waited
  <2>2. PICK p \in Nat : p = PerAddress(count[w])
    BY <1>0, <2>1, PerAddressTimes
  <2>3. PICK d \in {0, p} : spent' = [spent EXCEPT ![w] = @ + d]
    <3>1. CASE Waits(w)
      BY <3>1, <2>2 DEF Waits
    <3>2. CASE spent' = spent
      <4>1. spent = [spent EXCEPT ![w] = @ + 0]
        BY <1>0
      <4> QED
        BY <3>2, <4>1
    <3> QED
      BY <3>1, <3>2
  <2>4. spent' \in [Thread -> Nat] /\ spent'[w] = spent[w] + d
    BY <1>0, <2>3, <2>2
  <2>5. spent[w] <= (count[w] - Len(rest[w])) * p
    <3>1. (count[w] - Len(rest[w])) \in Nat
      BY <1>0, <2>1
    <3>2. (count[w] - Len(rest[w])) * p >= 0
      BY <3>1
    <3> QED
      BY <3>2, <2>2 DEF Waited
  <2>6. spent'[w] <= (count[w] - Len(left)) * p
    BY <1>0, <1>3, <2>1, <2>4, <2>5, OneMore
  <2>7. rest'[w] = left /\ count'[w] = count[w] /\ PerAddress(count[w])' = p
    BY <2>2 DEF PerAddress, AtLeastMin, Timeout
  <2>8. Waited'
    <3>1. ASSUME NEW u \in Thread, u # w
          PROVE  /\ Len(rest'[u]) <= count'[u]
                 /\ spent'[u] = 0 \/ (count'[u] > 0 /\ spent'[u] <= (count'[u] - Len(rest'[u])) * PerAddress(count'[u]))
      BY ONLY <3>1, <1>2, count' = count, Waited DEF Waited
    <3>2. /\ Len(rest'[w]) <= count'[w]
          /\ count'[w] > 0 /\ spent'[w] <= (count'[w] - Len(rest'[w])) * PerAddress(count'[w])
      BY <1>0, <1>3, <2>1, <2>2, <2>6, <2>7
    <3> QED
      BY <3>1, <3>2 DEF Waited, PerAddress, AtLeastMin, Timeout
  <2> QED
    BY <1>1, <2>4, <2>8
<1>4. CASE ~(Len(left) < Len(rest[w]))
  <2>1. spent' = spent /\ \A u \in Thread : Len(rest'[u]) = Len(rest[u])
    BY <1>0, <1>2, <1>4
  <2> QED
    BY <1>1, <2>1 DEF Waited, PerAddress, AtLeastMin, Timeout
<1> QED
  BY <1>3, <1>4

\* connectIntern() begins with all the addresses and no time spent.
LEMMA DialWaits ==
    ASSUME TypeOK, Waited, NEW w \in Thread, NEW s \in Server, Dial(w, s)
    PROVE  /\ rest' \in [Thread -> Seq(Address)] /\ count' \in [Thread -> Nat] /\ spent' \in [Thread -> Nat]
           /\ Waited'
<1> USE DEF TypeOK
<1>1. PICK found \in Resolutions : /\ rest' = [rest EXCEPT ![w] = found]
                                   /\ count' = [count EXCEPT ![w] = Len(found)]
  BY DEF Dial
<1>2. found \in Seq(Address) /\ Len(found) \in Nat
  BY ResolutionIsSeq
<1>3. spent' = [spent EXCEPT ![w] = 0]
  BY DEF Dial
<1>4. rest' \in [Thread -> Seq(Address)] /\ count' \in [Thread -> Nat] /\ spent' \in [Thread -> Nat]
  BY <1>1, <1>2, <1>3
<1>5. \A u \in Thread : u # w => rest'[u] = rest[u] /\ spent'[u] = spent[u] /\ count'[u] = count[u]
  BY <1>1, <1>3
<1>6. Len(rest'[w]) <= count'[w] /\ spent'[w] = 0
  BY <1>1, <1>2, <1>3
<1> QED
  BY <1>4, <1>5, <1>6 DEF Waited, PerAddress, AtLeastMin, Timeout

LEMMA InitInv == Init => Inv
<1> SUFFICES ASSUME Init PROVE Inv
  OBVIOUS
<1> USE NoneAssumption DEF Init
<1>1. TypeOK
  <2>1. rest \in [Thread -> Seq(Address)]
    OBVIOUS
  <2>2. server \in [Thread -> Server \cup {None}] /\ fd \in [Thread -> Fd \cup {None}]
    OBVIOUS
  <2>3. /\ step \in [Thread -> {"idle", "next", "poll"}]
        /\ count \in [Thread -> Nat] /\ spent \in [Thread -> Nat]
        /\ denied \in [Thread -> BOOLEAN]
    OBVIOUS
  <2> QED
    BY <2>1, <2>2, <2>3 DEF TypeOK
<1>2. Waited
  BY DEF Waited
<1>3. Stages /\ Exceptions /\ Safe
  BY DEF Stages, Exceptions, Safe, OnlyPermitted, SocketsOwned, NoExceptionKept, CancellationRaised, Thread
<1> QED
  BY <1>1, <1>2, <1>3 DEF Inv

LEMMA CheckURLInv ==
    ASSUME Inv, NEW s, CheckURL(s)
    PROVE  Inv'
<1> USE NoneAssumption DEF Inv, CheckURL, Fail, connVars, dialVars, exceptionVars
<1>1. TypeOK'
  BY DEF TypeOK
<1>2. Stages'
  BY DEF Stages, TypeOK, Thread
<1>3. Exceptions'
  BY DEF Exceptions, Stages, Thread
<1>4. Waited'
  BY DEF Waited, TypeOK
<1>5. Safe'
  BY DEF Safe, OnlyPermitted, SocketsOwned, NoExceptionKept, CancellationRaised, Stages, Exceptions, TypeOK, Thread
<1> QED
  BY <1>1, <1>2, <1>3, <1>4, <1>5

LEMMA SkipDeniedInv ==
    ASSUME Inv, NEW w \in Thread, SkipDenied(w)
    PROVE  Inv'
<1> USE NoneAssumption DEF Inv, SkipDenied, TryNext, connVars, dialVars, exceptionVars
<1>0. rest' \in [Thread -> Seq(Address)] /\ spent' \in [Thread -> Nat] /\ Waited'
  <2>1. rest[w] \in Seq(Address) /\ rest[w] # <<>>
    BY DEF TypeOK
  <2>2. Tail(rest[w]) \in Seq(Address) /\ Len(Tail(rest[w])) < Len(rest[w])
    BY <2>1, TailOfAddresses
  <2>3. Len(Tail(rest[w])) <= Len(rest[w])
    BY <2>1, TailOfAddresses
  <2> QED
    BY <2>2, <2>3, DropsAddresses
<1>1. TypeOK'
  BY <1>0 DEF TypeOK
<1>2. Stages'
  BY DEF Stages, TypeOK, Thread
<1>3. Exceptions'
  BY DEF Exceptions, Stages, Thread
<1>4. Waited'
  BY <1>0
<1>5. Safe'
  BY DEF Safe, OnlyPermitted, SocketsOwned, NoExceptionKept, CancellationRaised, Stages, Exceptions, TypeOK, Thread
<1> QED
  BY <1>1, <1>2, <1>3, <1>4, <1>5

LEMMA OpenSocketInv ==
    ASSUME Inv, NEW w \in Thread, OpenSocket(w)
    PROVE  Inv'
<1> USE NoneAssumption DEF Inv, OpenSocket, TryNext, CheckNetworkAccess, Permitted, connVars, dialVars, exceptionVars
<1>0. rest' \in [Thread -> Seq(Address)] /\ spent' \in [Thread -> Nat] /\ Waited'
  <2>1. rest[w] \in Seq(Address) /\ rest[w] # <<>>
    BY DEF TypeOK
  <2>2. CASE rest' = rest
    BY <2>2 DEF TypeOK, Waited, PerAddress, AtLeastMin, Timeout
  <2>3. CASE rest' = [rest EXCEPT ![w] = Tail(@)]
    <3>1. Tail(rest[w]) \in Seq(Address) /\ Len(Tail(rest[w])) <= Len(rest[w])
      BY <2>1, TailOfAddresses
    <3> QED
      BY <3>1, <2>3, DropsAddresses
  <2> QED
    BY <2>2, <2>3
<1>1. TypeOK'
  <2>1. open' \subseteq Fd /\ fd' \in [Thread -> Fd \cup {None}] /\ step' \in [Thread -> {"idle", "next", "poll"}]
    <3>1. CASE UNCHANGED <<open, fd, step>>
      BY <3>1 DEF TypeOK
    <3>2. ASSUME NEW f \in Fd, open' = open \cup {f}, fd' = [fd EXCEPT ![w] = f], step' = [step EXCEPT ![w] = "poll"]
          PROVE  open' \subseteq Fd /\ fd' \in [Thread -> Fd \cup {None}] /\ step' \in [Thread -> {"idle", "next", "poll"}]
      BY ONLY TypeOK, <3>2 DEF TypeOK
    <3> QED
      BY <3>1, <3>2
  <2>2. \A u \in Thread : step'[u] = "poll" => rest'[u] # <<>>
    BY DEF TypeOK
  <2> QED
    BY <1>0, <2>1, <2>2 DEF TypeOK
<1>2. Stages'
  BY DEF Stages, TypeOK, Thread
<1>3. Exceptions'
  BY DEF Exceptions, Stages, Thread
<1>4. Waited'
  BY <1>0
<1>5. Safe'
  BY DEF Safe, OnlyPermitted, SocketsOwned, NoExceptionKept, CancellationRaised, Stages, Exceptions, TypeOK, Thread
<1> QED
  BY <1>1, <1>2, <1>3, <1>4, <1>5

LEMMA AddressFailsInv ==
    ASSUME Inv, NEW w \in Thread, AddressFails(w)
    PROVE  Inv'
<1> USE NoneAssumption DEF Inv, AddressFails, TryNext, Waits, HolderGone, CloseHeld, connVars, dialVars, exceptionVars
<1>0. rest' \in [Thread -> Seq(Address)] /\ spent' \in [Thread -> Nat] /\ Waited'
  <2>1. rest[w] \in Seq(Address) /\ rest[w] # <<>>
    BY DEF TypeOK
  <2>2. Tail(rest[w]) \in Seq(Address) /\ Len(Tail(rest[w])) < Len(rest[w])
    BY <2>1, TailOfAddresses
  <2>3. Len(Tail(rest[w])) <= Len(rest[w])
    BY <2>1, TailOfAddresses
  <2> QED
    BY <2>2, <2>3, DropsAddresses
<1>1. TypeOK'
  BY <1>0 DEF TypeOK
<1>2. Stages'
  BY DEF Stages, TypeOK, Thread
<1>3. Exceptions'
  BY DEF Exceptions, Stages, Thread
<1>4. Waited'
  BY <1>0
<1>5. Safe'
  BY DEF Safe, OnlyPermitted, SocketsOwned, NoExceptionKept, CancellationRaised, Stages, Exceptions, TypeOK, Thread
<1> QED
  BY <1>1, <1>2, <1>3, <1>4, <1>5

LEMMA CancelledInv ==
    ASSUME Inv, NEW w \in Thread, Cancelled(w)
    PROVE  Inv'
<1> USE NoneAssumption DEF Inv, Cancelled, HolderGone, CloseHeld, KeepException, KeepFirst, connVars, dialVars, exceptionVars
<1>0. rest' \in [Thread -> Seq(Address)] /\ spent' \in [Thread -> Nat] /\ Waited'
  <2>1. rest[w] \in Seq(Address) /\ rest[w] # <<>>
    BY DEF TypeOK
  <2>2. <<>> \in Seq(Address) /\ Len(<<>>) <= Len(rest[w])
    BY <2>1, TailOfAddresses
  <2> QED
    BY <2>2, DropsAddresses
<1>1. TypeOK'
  BY <1>0 DEF TypeOK
<1>2. Stages'
  BY DEF Stages, TypeOK, Thread
<1>3. Exceptions'
  BY DEF Exceptions, Stages, Thread
<1>4. Waited'
  BY <1>0
<1>5. Safe'
  BY DEF Safe, OnlyPermitted, SocketsOwned, NoExceptionKept, CancellationRaised, Stages, Exceptions, TypeOK, Thread
<1> QED
  BY <1>1, <1>2, <1>3, <1>4, <1>5

LEMMA NoServerInv ==
    ASSUME Inv, NEW w \in Thread, NoServer(w)
    PROVE  Inv'
<1> USE NoneAssumption DEF Inv, NoServer, connVars, dialVars, exceptionVars
<1>1. TypeOK'
  BY DEF TypeOK
<1>2. Stages'
  BY DEF Stages, TypeOK, Thread
<1>3. Exceptions'
  BY DEF Exceptions, Stages, Thread
<1>4. Waited'
  BY DEF Waited, TypeOK
<1>5. Safe'
  BY DEF Safe, OnlyPermitted, SocketsOwned, NoExceptionKept, CancellationRaised, Stages, Exceptions, TypeOK, Thread
<1> QED
  BY <1>1, <1>2, <1>3, <1>4, <1>5

LEMMA ConnectedInv ==
    ASSUME Inv, NEW w \in Thread, Connected(w)
    PROVE  Inv'
<1> USE NoneAssumption DEF Inv, Connected, Waits, connVars, dialVars, exceptionVars
<1>0. rest' \in [Thread -> Seq(Address)] /\ spent' \in [Thread -> Nat] /\ Waited'
  <2>1. rest[w] \in Seq(Address) /\ rest[w] # <<>>
    BY DEF TypeOK
  <2>2. <<>> \in Seq(Address) /\ Len(<<>>) < Len(rest[w])
    BY <2>1, TailOfAddresses
  <2> QED
    BY <2>2, DropsAddresses DEF Waits
<1>1. TypeOK'
  BY <1>0 DEF TypeOK
<1>2. Stages'
  BY DEF Stages, TypeOK, Thread
<1>3. Exceptions'
  BY DEF Exceptions, Stages, Thread
<1>4. Waited'
  BY <1>0
<1>5. Safe'
  BY DEF Safe, OnlyPermitted, SocketsOwned, NoExceptionKept, CancellationRaised, Stages, Exceptions, TypeOK, Thread
<1> QED
  BY <1>1, <1>2, <1>3, <1>4, <1>5

LEMMA TryServerInv ==
    ASSUME Inv, NEW s \in Server, TryServer(s)
    PROVE  Inv'
<1> USE NoneAssumption DEF Inv, TryServer, connVars, dialVars, exceptionVars
<1>0. /\ rest' \in [Thread -> Seq(Address)] /\ count' \in [Thread -> Nat] /\ spent' \in [Thread -> Nat]
      /\ Waited'
  BY DialWaits, "creator" \in Thread DEF Thread
<1>1. TypeOK'
  BY <1>0 DEF TypeOK, Dial
<1>2. Stages'
  BY DEF Stages, TypeOK, Thread, Dial
<1>3. Exceptions'
  BY DEF Exceptions, Stages, Thread, Dial
<1>4. Waited'
  BY <1>0
<1>5. Safe'
  BY DEF Safe, OnlyPermitted, SocketsOwned, NoExceptionKept, CancellationRaised, Stages, Exceptions, TypeOK, Thread, Dial
<1> QED
  BY <1>1, <1>2, <1>3, <1>4, <1>5

LEMMA ReconnectInv ==
    ASSUME Inv, NEW s \in Server, Reconnect(s)
    PROVE  Inv'
<1> USE NoneAssumption DEF Inv, Reconnect, connVars, dialVars, exceptionVars
<1>0. /\ rest' \in [Thread -> Seq(Address)] /\ count' \in [Thread -> Nat] /\ spent' \in [Thread -> Nat]
      /\ Waited'
  BY DialWaits, "reconnect" \in Thread DEF Thread
<1>1. TypeOK'
  BY <1>0 DEF TypeOK, Dial
<1>2. Stages'
  BY DEF Stages, TypeOK, Thread, Dial
<1>3. Exceptions'
  BY DEF Exceptions, Stages, Thread, Dial
<1>4. Waited'
  BY <1>0
<1>5. Safe'
  BY DEF Safe, OnlyPermitted, SocketsOwned, NoExceptionKept, CancellationRaised, Stages, Exceptions, TypeOK, Thread, Dial
<1> QED
  BY <1>1, <1>2, <1>3, <1>4, <1>5

LEMMA ConnectFailsInv ==
    ASSUME Inv, ConnectFails
    PROVE  Inv'
<1> USE NoneAssumption DEF Inv, ConnectFails, connVars, dialVars, exceptionVars
<1>1. TypeOK'
  BY DEF TypeOK
<1>2. Stages'
  BY DEF Stages, TypeOK, Thread
<1>3. Exceptions'
  BY DEF Exceptions, Stages, Thread
<1>4. Waited'
  BY DEF Waited, TypeOK
<1>5. Safe'
  BY DEF Safe, OnlyPermitted, SocketsOwned, NoExceptionKept, CancellationRaised, Stages, Exceptions, TypeOK, Thread
<1> QED
  BY <1>1, <1>2, <1>3, <1>4, <1>5

LEMMA ConnectReturnsInv ==
    ASSUME Inv, ConnectReturns
    PROVE  Inv'
<1> USE NoneAssumption DEF Inv, ConnectReturns, Outcome, TakeException, Fail, connVars, dialVars, exceptionVars
<1>1. TypeOK'
  BY DEF TypeOK
<1>2. Stages'
  BY DEF Stages, TypeOK, Thread
<1>3. Exceptions'
  BY DEF Exceptions, Stages, Thread
<1>4. Waited'
  BY DEF Waited, TypeOK
<1>5. Safe'
  BY DEF Safe, OnlyPermitted, SocketsOwned, NoExceptionKept, CancellationRaised, Stages, Exceptions, TypeOK, Thread
<1> QED
  BY <1>1, <1>2, <1>3, <1>4, <1>5

LEMMA LostInv ==
    ASSUME Inv, Lost
    PROVE  Inv'
<1> USE NoneAssumption DEF Inv, Lost, connVars, dialVars, exceptionVars
<1>1. TypeOK'
  BY DEF TypeOK
<1>2. Stages'
  BY DEF Stages, TypeOK, Thread
<1>3. Exceptions'
  BY DEF Exceptions, Stages, Thread
<1>4. Waited'
  BY DEF Waited, TypeOK
<1>5. Safe'
  BY DEF Safe, OnlyPermitted, SocketsOwned, NoExceptionKept, CancellationRaised, Stages, Exceptions, TypeOK, Thread
<1> QED
  BY <1>1, <1>2, <1>3, <1>4, <1>5

LEMMA DestroyInv ==
    ASSUME Inv, Destroy
    PROVE  Inv'
<1> USE NoneAssumption DEF Inv, Destroy, connVars, dialVars, exceptionVars
<1>1. TypeOK'
  BY DEF TypeOK
<1>2. Stages'
  BY DEF Stages, TypeOK, Thread
<1>3. Exceptions'
  BY DEF Exceptions, Stages, Thread
<1>4. Waited'
  BY DEF Waited, TypeOK
<1>5. Safe'
  BY DEF Safe, OnlyPermitted, SocketsOwned, NoExceptionKept, CancellationRaised, Stages, Exceptions, TypeOK, Thread
<1> QED
  BY <1>1, <1>2, <1>3, <1>4, <1>5

LEMMA FreeInv ==
    ASSUME Inv, Free
    PROVE  Inv'
<1> USE NoneAssumption DEF Inv, Free, connVars, dialVars, exceptionVars
<1>1. TypeOK'
  BY DEF TypeOK
<1>2. Stages'
  BY DEF Stages, TypeOK, Thread
<1>3. Exceptions'
  BY DEF Exceptions, Stages, Thread
<1>4. Waited'
  BY DEF Waited, TypeOK
<1>5. Safe'
  BY DEF Safe, OnlyPermitted, SocketsOwned, NoExceptionKept, CancellationRaised, Stages, Exceptions, TypeOK, Thread
<1> QED
  BY <1>1, <1>2, <1>3, <1>4, <1>5

LEMMA StutterInv == ASSUME Inv, UNCHANGED vars PROVE Inv'
  BY DEF vars, connVars, dialVars, exceptionVars, Inv, TypeOK, Stages, Exceptions, Waited, PerAddress, AtLeastMin,
         Timeout, Safe, OnlyPermitted, SocketsOwned, NoExceptionKept, CancellationRaised

LEMMA NextInv == ASSUME Inv, [Next]_vars PROVE Inv'
<1>1. CASE UNCHANGED vars
  BY <1>1, StutterInv
<1>2. ASSUME NEW s, CheckURL(s) PROVE Inv'
  BY <1>2, CheckURLInv
<1>3. ASSUME NEW s \in Server, TryServer(s) \/ Reconnect(s) PROVE Inv'
  BY <1>3, TryServerInv, ReconnectInv
<1>4. ASSUME NEW w \in Thread, Connect(w) PROVE Inv'
  BY <1>4, SkipDeniedInv, OpenSocketInv, AddressFailsInv, CancelledInv, NoServerInv, ConnectedInv DEF Connect
<1>5. CASE ConnectFails \/ ConnectReturns \/ Lost \/ Destroy \/ Free
  BY <1>5, ConnectFailsInv, ConnectReturnsInv, LostInv, DestroyInv, FreeInv
<1> QED
  BY <1>1, <1>2, <1>3, <1>4, <1>5 DEF Next

LEMMA InvHolds == Spec => []Inv
  BY InitInv, NextInv, PTL DEF Spec

\* The variables have their types.
THEOREM TypeCorrect == Spec => []TypeOK
<1>1. Inv => TypeOK
  BY DEF Inv
<1> QED
  BY <1>1, InvHolds, PTL

\* connectIntern() connects to no address that the policy does not permit, whatever a name resolves
\* to, on the creating thread and on the reconnect thread.
THEOREM PolicyKept == Spec => []OnlyPermitted
<1>1. Inv => OnlyPermitted
  BY DEF Inv, Safe
<1> QED
  BY <1>1, InvHolds, PTL

\* Every socket of the dialer has one owner, and none is left when the connection object is freed.
THEOREM NoSocketLeaks == Spec => []SocketsOwned
<1>1. Inv => SocketsOwned
  BY DEF Inv, Safe
<1> QED
  BY <1>1, InvHolds, PTL

\* keepException() and takeException(): a cancellation of the first connection is raised, and
\* no exception is kept that the constructor does not take any more.
THEOREM ExceptionsTaken == Spec => []ExceptionsReachConstructor
<1>1. Inv => ExceptionsReachConstructor
  BY DEF Inv, Safe, ExceptionsReachConstructor
<1> QED
  BY <1>1, InvHolds, PTL

\* The addresses of a host share the connect timeout, except for the minimum of each.
THEOREM TimeoutShared == Spec => []TimeShared
<1>1. Inv => TimeShared
  <2> SUFFICES ASSUME Inv, NEW w \in Thread
               PROVE  spent[w] <= Timeout \/ spent[w] <= count[w] * MinPerAddress
    BY DEF TimeShared
  <2>1. count[w] \in Nat /\ Len(rest[w]) \in Nat /\ spent[w] \in Nat
    BY DEF Inv, TypeOK
  <2>2. CASE spent[w] = 0
    BY <2>1, <2>2, TimesAssumption DEF Timeout
  <2>3. CASE count[w] > 0 /\ spent[w] <= (count[w] - Len(rest[w])) * PerAddress(count[w])
    <3>1. PICK p \in Nat : /\ p = PerAddress(count[w])
                           /\ count[w] * p <= Timeout \/ count[w] * p <= count[w] * MinPerAddress
      BY <2>1, <2>3, PerAddressTimes
    <3>2. (count[w] - Len(rest[w])) * p = count[w] * p - Len(rest[w]) * p /\ Len(rest[w]) * p >= 0
      BY <2>1
    <3>3. Timeout \in Nat /\ count[w] * MinPerAddress \in Nat /\ count[w] * p \in Nat /\ Len(rest[w]) * p \in Nat
      BY <2>1, TimesAssumption DEF Timeout
    <3>4. spent[w] <= count[w] * p - Len(rest[w]) * p
      BY <2>3, <3>1, <3>2
    <3> QED
      BY ONLY <2>1, <3>1, <3>2, <3>3, <3>4
  <2> QED
    BY <2>2, <2>3 DEF Inv, Waited
<1> QED
  BY <1>1, InvHolds, PTL

=============================================================================
