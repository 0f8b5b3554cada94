----------------------- MODULE ConnectionCallbacksProofs -----------------------
(***************************************************************************)
(* Proofs about ConnectionCallbacks, for any number of callbacks: the      *)
(* callback context is alive whenever a callback runs or can still run,    *)
(* and after the destructor the callback thread brings it to its end.      *)
(***************************************************************************)
EXTENDS ConnectionCallbacks, TLAPS

\* What the constructor has set up at each point of the object's life.
SetUp ==
    /\ object = "options" => cb_ctx = FALSE /\ handlers = {} /\ step = 0 /\ context = "none"
    /\ object \in {"callbacks", "dialer", "connecting", "connected", "built"} =>
          (cb_ctx <=> wanted # {})
    /\ object = "callbacks" => wanted # {}
    /\ object \in {"options", "callbacks", "dialer", "connecting"} => conn = "none"
    /\ object \in {"destroying", "destroyed"} => ~Established
    /\ object = "destroyed" => ~cb_ctx
    /\ object = "callbacks" /\ step >= 3 => "on_closed" \in handlers
    /\ object \in {"dialer", "connecting"} \/ conn # "none" =>
          (wanted # {} => "on_closed" \in handlers)

\* Without callbacks there is neither a context nor a handler.
NoCallbacks ==
    wanted = {} => cb_ctx = FALSE /\ context = "none" /\ handlers = {}

\* What the C client has posted follows its connection; the closed callback is last.
Posted ==
    /\ conn = "none" \/ Established => closed_cb = "none"
    /\ conn = "none" => posted = 0 /\ ~running
    /\ conn = "closed" /\ wanted # {} => closed_cb # "none"
    /\ closed_cb \in {"running", "done"} => posted = 0 /\ ~running
    /\ posted > 0 \/ running \/ closed_cb # "none" => wanted # {}

\* Whoever holds a reference holds a live context, with the closures of its handlers.
HoldersHold ==
    /\ cb_ctx => context = "live"
    /\ ClosedCallbackDue /\ wanted # {} => context = "live"
    /\ context = "live" => wanted \cap handlers \subseteq closures

IInv == TypeOK /\ RefsAreHolders /\ SetUp /\ NoCallbacks /\ Posted /\ HoldersHold

LEMMA OrderFacts ==
    /\ Len(Order) = 6
    /\ \A i \in 1..6 : Order[i] \in Kind
    /\ Order[3] = "on_closed"
    /\ "on_closed" \in Kind
BY DEF Order, Kind

\* A callback that can still run finds its context and its closures.
LEMMA InUse == IInv => ContextInUse
BY DEF IInv, TypeOK, SetUp, NoCallbacks, Posted, HoldersHold, ContextInUse, CallbackToCome,
       ClosedCallbackDue, Established

LEMMA InitInv == Init => IInv
<1> SUFFICES ASSUME Init PROVE IInv
  OBVIOUS
<1>1. TypeOK
  <2>1. step \in 0..Len(Order) /\ refs \in 0..2 /\ events \in Nat /\ posted \in Nat
    BY OrderFacts DEF Init
  <2>2. wanted \subseteq Kind /\ closures \subseteq wanted /\ handlers \subseteq Kind
    BY DEF Init
  <2>3. object = "options" /\ cb_ctx = FALSE /\ context = "none" /\ conn = "none"
          /\ running = FALSE /\ closed_cb = "none"
    BY DEF Init
  <2>4. QED
    BY <2>1, <2>2, <2>3, Zenon DEF TypeOK
<1>2. RefsAreHolders /\ SetUp /\ NoCallbacks
  BY DEF Init, RefsAreHolders, SetUp, NoCallbacks, Established
<1>3. Posted /\ HoldersHold
  BY DEF Init, Posted, HoldersHold, ClosedCallbackDue, Established
<1>4. QED
  BY <1>1, <1>2, <1>3 DEF IInv

\* The constructor's steps before the connection.
LEMMA SetUpInv ==
    ASSUME IInv, \/ OptionsFail \/ SetupCallbacks \/ SetCallback \/ SetCallbackFails
                 \/ CallbacksSet \/ DialerFails
    PROVE  IInv'
<1> USE OrderFacts DEF IInv, TypeOK, RefsAreHolders, SetUp, NoCallbacks, Posted, HoldersHold,
        ClosedCallbackDue, Established, contextVars, asyncVars
<1>1. CASE OptionsFail
  BY <1>1 DEF OptionsFail
<1>2. CASE SetupCallbacks
  <2>1. CASE wanted = {}
    BY <1>2, <2>1 DEF SetupCallbacks
  <2>2. CASE wanted # {}
    <3>1. TypeOK'
      <4>1. refs' = 1 /\ cb_ctx' = TRUE /\ context' = "live"
        BY <1>2, <2>2 DEF SetupCallbacks
      <4>2. UNCHANGED <<wanted, step, closures, handlers, conn, events, posted, running, closed_cb>>
              /\ object' = "callbacks"
        BY <1>2, <2>2 DEF SetupCallbacks
      <4>3. QED
        BY <4>1, <4>2
    <3>2. SetUp'
      BY <1>2, <2>2 DEF SetupCallbacks
    <3>3. NoCallbacks'
      BY <1>2, <2>2 DEF SetupCallbacks
    <3>4. RefsAreHolders' /\ Posted' /\ HoldersHold'
      BY <1>2, <2>2 DEF SetupCallbacks
    <3>5. QED
      BY <3>1, <3>2, <3>3, <3>4
  <2>3. QED
    BY <2>1, <2>2
<1>3. CASE SetCallback
  <2>1. PICK k \in Kind : k = Order[step'] /\ (step = 2 => k = "on_closed")
    BY <1>3 DEF SetCallback
  <2>2. TypeOK'
    <3>1. step' \in 0..Len(Order) /\ step' = step + 1
      BY <1>3 DEF SetCallback
    <3>2. closures' \subseteq wanted' /\ handlers' \subseteq Kind
      BY <1>3, <2>1 DEF SetCallback
    <3>3. QED
      BY <1>3, <3>1, <3>2 DEF SetCallback
  <2>3. SetUp' /\ NoCallbacks'
    BY <1>3, <2>1 DEF SetCallback, Registers
  <2>4. RefsAreHolders' /\ Posted' /\ HoldersHold'
    BY <1>3 DEF SetCallback, Registers
  <2>5. QED
    BY <2>2, <2>3, <2>4
<1>4. CASE SetCallbackFails
  BY <1>4 DEF SetCallbackFails, Registers
<1>5. CASE CallbacksSet
  BY <1>5 DEF CallbacksSet
<1>6. CASE DialerFails
  BY <1>6 DEF DialerFails
<1>7. QED
  BY <1>1, <1>2, <1>3, <1>4, <1>5, <1>6

\* connect(), and the destructor.
LEMMA ConnectInv ==
    ASSUME IInv, \/ Connect \/ ConnectSucceeds \/ ConnectFails \/ ConnectReturns
                 \/ Destruct \/ ReleaseContext
    PROVE  IInv'
<1> USE DEF IInv, TypeOK, RefsAreHolders, SetUp, NoCallbacks, Posted, HoldersHold,
        ClosedCallbackDue, Established, contextVars, asyncVars
<1>1. CASE Connect
  BY <1>1 DEF Connect, RefForClosed
<1>2. CASE ConnectSucceeds
  BY <1>2 DEF ConnectSucceeds
<1>3. CASE ConnectFails
  BY <1>3 DEF ConnectFails, TakeBackRef, ReleaseIfSet, Release
<1>4. CASE ConnectReturns
  BY <1>4 DEF ConnectReturns
<1>5. CASE Destruct
  BY <1>5 DEF Destruct, EndConnection
<1>6. CASE ReleaseContext
  <2>1. CASE cb_ctx
    <3>1. RefsAreHolders'
      BY <1>6, <2>1 DEF ReleaseContext, ReleaseIfSet, Release
    <3>2. TypeOK'
      <4>1. refs' \in 0..2 /\ cb_ctx' = FALSE
        <5>1. refs \in {1, 2}
          BY <2>1
        <5>2. refs' = refs - 1 /\ cb_ctx' = FALSE
          BY <1>6, <2>1 DEF ReleaseContext, ReleaseIfSet, Release
        <5>3. QED
          BY ONLY <5>1, <5>2
      <4>2. \/ context' = "freed" /\ closures' = {}
            \/ context' = context /\ closures' = closures
        BY <1>6, <2>1 DEF ReleaseContext, ReleaseIfSet, Release
      <4>3. UNCHANGED <<wanted, step, handlers, conn, events, posted, running, closed_cb>>
              /\ object' = "destroyed"
        BY <1>6 DEF ReleaseContext
      <4>4. QED
        BY <4>1, <4>2, <4>3
    <3>3. SetUp' /\ NoCallbacks' /\ Posted' /\ HoldersHold'
      BY <1>6, <2>1 DEF ReleaseContext, ReleaseIfSet, Release
    <3>4. QED
      BY <3>1, <3>2, <3>3
  <2>2. CASE ~cb_ctx
    BY <1>6, <2>2 DEF ReleaseContext, ReleaseIfSet
  <2>3. QED
    BY <2>1, <2>2
<1>7. QED
  BY <1>1, <1>2, <1>3, <1>4, <1>5, <1>6

\* The C client's connection and its callback thread.
LEMMA ClientInv ==
    ASSUME IInv, \/ Drain \/ Close \/ Post \/ CallbackThread
    PROVE  IInv'
<1> USE DEF IInv, TypeOK, RefsAreHolders, SetUp, NoCallbacks, Posted, HoldersHold,
        ClosedCallbackDue, Established, contextVars, asyncVars
<1>1. CASE Drain
  BY <1>1 DEF Drain
<1>2. CASE Close
  BY <1>2 DEF Close, EndConnection
<1>3. CASE Post
  BY <1>3 DEF Post
<1>4. CASE RunCallback
  BY <1>4 DEF RunCallback, Idle
<1>5. CASE CallbackReturns
  BY <1>5 DEF CallbackReturns
<1>6. CASE RunClosed
  BY <1>6 DEF RunClosed, Idle
<1>7. CASE ClosedReturns
  BY <1>7 DEF ClosedReturns, Release
<1>8. QED
  BY <1>1, <1>2, <1>3, <1>4, <1>5, <1>6, <1>7 DEF CallbackThread

LEMMA NextInv == IInv /\ [Next]_vars => IInv'
<1> SUFFICES ASSUME IInv, [Next]_vars PROVE IInv'
  OBVIOUS
<1>1. CASE Next
  BY <1>1, SetUpInv, ConnectInv, ClientInv DEF Next, Construct
<1>2. CASE UNCHANGED vars
  BY <1>2 DEF IInv, TypeOK, RefsAreHolders, SetUp, NoCallbacks, Posted, HoldersHold,
       ClosedCallbackDue, Established, vars, contextVars, asyncVars
<1>3. QED
  BY <1>1, <1>2

LEMMA Invariant == Spec => []IInv
BY InitInv, NextInv, PTL DEF Spec

\* The variables have their types, and there are never more than two references.
THEOREM TypeCorrect == Spec => []TypeOK
<1>1. IInv => TypeOK
  BY DEF IInv
<1>2. QED
  BY <1>1, Invariant, PTL

\* The callback context lives, with its closures, whenever a callback runs or can still
\* run, whatever the order of the destructor, the callbacks and a failing constructor.
THEOREM ContextSafe == Spec => []ContextInUse
BY InUse, Invariant, PTL

\* NatsCallbackContext::refs counts the connection object and the closed callback.
THEOREM RefsCorrect == Spec => []RefsAreHolders
<1>1. IInv => RefsAreHolders
  BY DEF IInv
<1>2. QED
  BY <1>1, Invariant, PTL

-----------------------------------------------------------------------------
(* The end of the context *)

\* Closures are referenced by a live context only.
ClosuresKept == context # "live" => closures = {}

LEMMA InitClosures == Init => ClosuresKept
BY DEF Init, ClosuresKept

LEMMA NextClosures == IInv /\ ClosuresKept /\ [Next]_vars => ClosuresKept'
<1> SUFFICES ASSUME IInv, ClosuresKept, [Next]_vars PROVE ClosuresKept'
  OBVIOUS
<1> USE DEF ClosuresKept, contextVars
<1>1. CASE SetupCallbacks
  BY <1>1 DEF SetupCallbacks
<1>2. CASE SetCallback \/ SetCallbackFails
  BY <1>2 DEF SetCallback, SetCallbackFails, IInv, SetUp, HoldersHold
<1>3. CASE ConnectFails \/ ReleaseContext \/ ClosedReturns
  BY <1>3 DEF ConnectFails, TakeBackRef, ReleaseContext, ClosedReturns, ReleaseIfSet, Release
<1>4. CASE OptionsFail \/ CallbacksSet \/ DialerFails \/ Connect \/ ConnectSucceeds \/ ConnectReturns
  BY <1>4 DEF OptionsFail, CallbacksSet, DialerFails, Connect, ConnectSucceeds, ConnectReturns
<1>5. CASE Drain \/ Close \/ Destruct \/ Post \/ RunCallback \/ CallbackReturns \/ RunClosed
           \/ UNCHANGED vars
  BY <1>5 DEF Drain, Close, Destruct, Post, RunCallback, CallbackReturns, RunClosed, vars
<1>6. QED
  BY <1>1, <1>2, <1>3, <1>4, <1>5 DEF Next, Construct, CallbackThread

\* The steps that the callback thread has to take for what was posted.
CallbacksLeft ==
    2 * posted + (IF running THEN 1 ELSE 0)
    + (CASE closed_cb = "posted" -> 2 [] closed_cb = "running" -> 1 [] OTHER -> 0)

Freed == context # "live" /\ closures = {}
Over == object = "destroyed"

LEMMA LeftIsNat == TypeOK => CallbacksLeft \in Nat
BY DEF TypeOK, CallbacksLeft

\* A destroyed connection whose callbacks have all run leaves no context and no closure.
LEMMA FreedWhenRun == IInv /\ ClosuresKept /\ Over /\ CallbacksLeft = 0 => Freed
<1> SUFFICES ASSUME IInv, ClosuresKept, Over, CallbacksLeft = 0 PROVE context # "live"
  BY DEF Freed, ClosuresKept
<1>1. closed_cb \notin {"posted", "running"}
  BY DEF CallbacksLeft, IInv, TypeOK
<1>2. ~ClosedCallbackDue /\ ~cb_ctx
  BY <1>1 DEF ClosedCallbackDue, Over, IInv, SetUp, Established
<1>3. QED
  BY <1>2 DEF IInv, RefsAreHolders

\* Weak fairness of the callback thread, with its guard written out, as ENABLED has no proof
\* rules here.
ThreadReady == running \/ closed_cb \in {"posted", "running"} \/ posted > 0
ThreadRuns == []<>~ThreadReady \/ []<><<CallbackThread>>_vars

LEMMA FairThread ==
    WF_vars(CallbackThread) /\ [](ThreadReady => ENABLED <<CallbackThread>>_vars) => ThreadRuns
BY PTL DEF ThreadRuns

LEMMA ReadyWhenLeft == TypeOK /\ CallbacksLeft > 0 => ThreadReady
BY DEF TypeOK, CallbacksLeft, ThreadReady

LEMMA ThreadGoesOn ==
    ASSUME IInv, Over, CallbackThread
    PROVE  Over' /\ CallbacksLeft' < CallbacksLeft
<1> USE DEF IInv, TypeOK, Over, CallbacksLeft
<1>1. CASE RunCallback
  BY <1>1 DEF RunCallback, Idle
<1>2. CASE CallbackReturns
  BY <1>2 DEF CallbackReturns
<1>3. CASE RunClosed
  BY <1>3 DEF RunClosed, asyncVars
<1>4. CASE ClosedReturns
  BY <1>4 DEF ClosedReturns, asyncVars
<1>5. QED
  BY <1>1, <1>2, <1>3, <1>4 DEF CallbackThread

\* Nobody else does anything any more.
LEMMA OthersAreOver ==
    ASSUME IInv, Over, [Next]_vars, ~CallbackThread
    PROVE  Over' /\ CallbacksLeft' = CallbacksLeft
BY DEF IInv, SetUp, Over, CallbacksLeft, Next, Construct, OptionsFail, SetupCallbacks, SetCallback,
   SetCallbackFails, CallbacksSet, DialerFails, Connect, ConnectSucceeds, ConnectFails,
   ConnectReturns, Drain, Close, Destruct, ReleaseContext, Post, Established, vars, asyncVars

ComesToEnd(n) == (Over /\ CallbacksLeft = n) ~> (Freed \/ (Over /\ CallbacksLeft < n))

LEMMA EndComes ==
    ASSUME NEW n \in Nat
    PROVE  Spec /\ ThreadRuns => ComesToEnd(n)
<1> DEFINE Inv == IInv /\ ClosuresKept
           At == Over /\ CallbacksLeft = n
           Less == Over /\ CallbacksLeft < n
           Wait == IInv /\ At /\ CallbacksLeft > 0
           Done == Freed
<1>1. Spec => []Inv
  BY InitInv, NextInv, InitClosures, NextClosures, PTL DEF Spec
<1>2. Inv /\ At => Done \/ Wait
  BY FreedWhenRun, LeftIsNat DEF IInv
<1>3. Wait => ThreadReady
  BY ReadyWhenLeft DEF IInv
<1>4. Inv' /\ Wait /\ [Next]_vars => (Wait \/ Less)'
  BY ThreadGoesOn, OthersAreOver
<1>5. Wait /\ <<CallbackThread>>_vars => Less'
  BY ThreadGoesOn
<1> HIDE DEF Inv, At, Less, Wait, Done
<1>6. Spec /\ ThreadRuns => [](At => <>(Done \/ Less))
  BY <1>1, <1>2, <1>3, <1>4, <1>5, PTL DEF Spec, ThreadRuns
<1>7. QED
  BY <1>6, PTL DEF ComesToEnd, At, Less, Done

\* A destroyed connection whose callbacks have all run leaves neither the context nor a closure.
THEOREM NothingStays == Spec => [](Over /\ CallbacksLeft = 0 => Freed)
BY InitInv, NextInv, InitClosures, NextClosures, FreedWhenRun, PTL DEF Spec

\* After the destructor the callback thread comes, from any number of steps that it has left,
\* to a smaller number or frees the context: the step from which ContextFreed follows by
\* induction on that number.
THEOREM ContextComesToEnd == Spec /\ ThreadRuns => \A n \in Nat : ComesToEnd(n)
BY EndComes
=============================================================================
