-------------------------- MODULE ConnectionCallbacks --------------------------
(***************************************************************************)
(* The life of a NatsCallbackContext: the constructor of QoreNatsConnection *)
(* makes it for the callbacks of the connection options, the C client's    *)
(* asynchronous callback thread calls into it, also after the connection   *)
(* object is gone, and whoever drops the last reference frees it.          *)
(*                                                                         *)
(* The C client is external: while a connection exists it posts callbacks  *)
(* of the kinds registered for it, it posts the closed callback once, when *)
(* the connection closes, after all others, and one thread of its own runs *)
(* what was posted in that order.  A connection that could not be          *)
(* established posts nothing.                                              *)
(***************************************************************************)
EXTENDS Integers, Sequences

CONSTANT MaxEvents      \* bound: the callbacks, other than the closed one, that are posted

ASSUME MaxEventsAssumption == MaxEvents \in Nat

VARIABLES
    object,     \* where the connection object is in its life
    wanted,     \* the callbacks in the connection options
    step,       \* how many kinds of callback setupCallbacks() has dealt with
    cb_ctx,     \* the object's pointer to the context is set
    context,    \* the context: "none", "live" or "freed"
    refs,       \* NatsCallbackContext::refs
    closures,   \* the closures that the context references
    handlers,   \* the handlers registered with the options of the C client
    conn,       \* the C client's connection
    events,     \* how many callbacks were posted
    posted,     \* the posted callbacks that did not run yet, but for the closed one
    running,    \* the callback thread is in one of those
    closed_cb   \* the closed callback: "none", "posted", "running" or "done"

contextVars == <<context, refs, closures>>
asyncVars == <<events, posted, running>>
vars == <<object, wanted, step, cb_ctx, contextVars, handlers, conn, asyncVars, closed_cb>>

\* The order in which setupCallbacks() registers the kinds of callback.
Order == <<"on_disconnect", "on_reconnect", "on_closed", "on_error", "on_lame_duck",
           "on_discovered_servers">>
Kind == {Order[i] : i \in DOMAIN Order}

Established == conn \in {"open", "draining"}

Init ==
    /\ object = "options"
    /\ wanted \in SUBSET Kind
    /\ step = 0
    /\ cb_ctx = FALSE
    /\ context = "none" /\ refs = 0 /\ closures = {}
    /\ handlers = {}
    /\ conn = "none"
    /\ events = 0 /\ posted = 0 /\ running = FALSE
    /\ closed_cb = "none"

\* release(): the last reference releases the closures and deletes the context.
ReleaseTwice ==                                 \* mutant: the counter is decremented twice
    /\ refs' = refs - 2
    /\ IF refs = 1 THEN context' = "freed" /\ closures' = {} ELSE UNCHANGED <<context, closures>>
Release ==
    /\ refs' = refs - 1
    /\ IF refs = 1 THEN context' = "freed" /\ closures' = {} ELSE UNCHANGED <<context, closures>>

\* release() by the owner of a pointer that is only set when there were callbacks.
ReleaseIfSet == IF cb_ctx THEN Release ELSE UNCHANGED contextVars

-----------------------------------------------------------------------------
(* The constructor *)

\* natsOptions_Create() or configureOptions() fails.
OptionsFail ==
    /\ object = "options"
    /\ object' = "failed"
    /\ UNCHANGED <<wanted, step, cb_ctx, contextVars, handlers, conn, asyncVars, closed_cb>>

\* setupCallbacks(): without callbacks there is no context and no handler.
SetupCallbacks ==
    /\ object = "options"
    /\ IF wanted = {}
       THEN /\ object' = "dialer"
            /\ UNCHANGED <<cb_ctx, context, refs>>
       ELSE /\ object' = "callbacks"
            /\ cb_ctx' = TRUE
            /\ context' = "live"
            /\ refs' = 1
    /\ UNCHANGED <<wanted, step, closures, handlers, conn, asyncVars, closed_cb>>

\* The handlers that setupCallbacks() registers.
OnlyWanted == wanted                            \* mutant: the closed one only for a callback
Registers == wanted \cup {"on_closed"}

\* setupCallbacks(): the closure of the next kind, if there is one, is referenced by
\* the context and its handler registered.
SetCallback ==
    /\ object = "callbacks"
    /\ step < Len(Order)
    /\ step' = step + 1
    /\ closures' = closures \cup ({Order[step']} \cap wanted)
    /\ handlers' = handlers \cup ({Order[step']} \cap Registers)
    /\ UNCHANGED <<object, wanted, cb_ctx, context, refs, conn, asyncVars, closed_cb>>

\* natsOptions_Set...CB() fails for it; the constructor raises its exception.
SetCallbackFails ==
    /\ object = "callbacks"
    /\ step < Len(Order)
    /\ Order[step + 1] \in Registers
    /\ closures' = closures \cup ({Order[step + 1]} \cap wanted)
    /\ object' = "failed"
    /\ UNCHANGED <<wanted, step, cb_ctx, context, refs, handlers, conn, asyncVars, closed_cb>>

CallbacksSet ==
    /\ object = "callbacks"
    /\ step = Len(Order)
    /\ object' = "dialer"
    /\ UNCHANGED <<wanted, step, cb_ctx, contextVars, handlers, conn, asyncVars, closed_cb>>

\* The sandbox denies the URL, or setupDialer() fails.
DialerFails ==
    /\ object = "dialer"
    /\ object' = "failed"
    /\ UNCHANGED <<wanted, step, cb_ctx, contextVars, handlers, conn, asyncVars, closed_cb>>

\* The reference that connect() takes for the closed callback.
NoRef == UNCHANGED refs                         \* mutant: it is not taken
RefForClosed == refs' = IF cb_ctx THEN refs + 1 ELSE refs

\* setupDialer() succeeds, and connect() begins.
Connect ==
    /\ object = "dialer"
    /\ RefForClosed
    /\ object' = "connecting"
    /\ UNCHANGED <<wanted, step, cb_ctx, context, closures, handlers, conn, asyncVars, closed_cb>>

\* natsConnection_Connect() makes a connection, which lives before the call returns.
ConnectSucceeds ==
    /\ object = "connecting"
    /\ conn' = "open"
    /\ object' = "connected"
    /\ UNCHANGED <<wanted, step, cb_ctx, contextVars, handlers, asyncVars, closed_cb>>

\* It makes none: no closed callback will release the reference taken for it.
LeaveRef == UNCHANGED contextVars               \* mutant: nobody does
TakeBackRef == ReleaseIfSet
ConnectFails ==
    /\ object = "connecting"
    /\ TakeBackRef
    /\ object' = "failed"
    /\ UNCHANGED <<wanted, step, cb_ctx, handlers, conn, asyncVars, closed_cb>>

\* connect() returns; a connection whose set-up was cancelled fails all the same.
ConnectReturns ==
    /\ object = "connected"
    /\ object' \in {"built", "failed"}
    /\ UNCHANGED <<wanted, step, cb_ctx, contextVars, handlers, conn, asyncVars, closed_cb>>

-----------------------------------------------------------------------------
(* The connection, and its end *)

\* The C client closes the connection and posts the closed callback, if registered.
EndConnection ==
    /\ conn' = "closed"
    /\ closed_cb' = IF "on_closed" \in handlers THEN "posted" ELSE closed_cb

\* drain()
Drain ==
    /\ object = "built"
    /\ conn = "open"
    /\ conn' = "draining"
    /\ UNCHANGED <<object, wanted, step, cb_ctx, contextVars, handlers, asyncVars, closed_cb>>

\* close(), the end of a drain, or the end of the attempts to reconnect.
Close ==
    /\ Established
    /\ EndConnection
    /\ UNCHANGED <<object, wanted, step, cb_ctx, contextVars, handlers, asyncVars>>

\* ~QoreNatsConnection(), also of an object whose constructor failed: first
\* natsConnection_Destroy(), which closes a connection that is still open ...
Destruct ==
    /\ object \in {"built", "failed"}
    /\ object' = "destroying"
    /\ IF Established THEN EndConnection ELSE UNCHANGED <<conn, closed_cb>>
    /\ UNCHANGED <<wanted, step, cb_ctx, contextVars, handlers, asyncVars>>

\* ... then the object's reference to the context.
ReleaseContext ==
    /\ object = "destroying"
    /\ object' = "destroyed"
    /\ ReleaseIfSet
    /\ cb_ctx' = FALSE
    /\ UNCHANGED <<wanted, step, handlers, conn, asyncVars, closed_cb>>

-----------------------------------------------------------------------------
(* The callback thread of the C client *)

\* Something happens to the connection that a registered handler is for.
Post ==
    /\ Established
    /\ handlers \ {"on_closed"} # {}
    /\ events < MaxEvents
    /\ events' = events + 1
    /\ posted' = posted + 1
    /\ UNCHANGED <<object, wanted, step, cb_ctx, contextVars, handlers, conn, running, closed_cb>>

Idle == ~running /\ closed_cb # "running"

\* The next posted callback: a handler that calls execCallback(), or errorHandler().
RunCallback ==
    /\ Idle
    /\ posted > 0
    /\ posted' = posted - 1
    /\ running' = TRUE
    /\ UNCHANGED <<object, wanted, step, cb_ctx, contextVars, handlers, conn, events, closed_cb>>

CallbackReturns ==
    /\ running
    /\ running' = FALSE
    /\ UNCHANGED <<object, wanted, step, cb_ctx, contextVars, handlers, conn, events, posted,
                   closed_cb>>

\* closedHandler() starts, after every other callback ...
RunClosed ==
    /\ Idle
    /\ posted = 0
    /\ closed_cb = "posted"
    /\ closed_cb' = "running"
    /\ UNCHANGED <<object, wanted, step, cb_ctx, contextVars, handlers, conn, asyncVars>>

\* ... and releases its reference when execCallback() has returned.
ClosedReturns ==
    /\ closed_cb = "running"
    /\ closed_cb' = "done"
    /\ Release
    /\ UNCHANGED <<object, wanted, step, cb_ctx, handlers, conn, asyncVars>>

-----------------------------------------------------------------------------

Construct ==
    \/ OptionsFail \/ SetupCallbacks \/ SetCallback \/ SetCallbackFails \/ CallbacksSet
    \/ DialerFails \/ Connect \/ ConnectSucceeds \/ ConnectFails \/ ConnectReturns
CallbackThread == RunCallback \/ CallbackReturns \/ RunClosed \/ ClosedReturns

Next ==
    \/ Construct \/ Drain \/ Close \/ Destruct \/ ReleaseContext
    \/ Post \/ CallbackThread

Spec == Init /\ [][Next]_vars

\* The destructor runs to its end, and the callback thread runs; callbacks return.
Fairness == WF_vars(ReleaseContext) /\ WF_vars(CallbackThread)

FairSpec == Spec /\ Fairness

-----------------------------------------------------------------------------
(* Properties *)

\* Every variable has its type; there are never more references than the two that
\* the class description names.
TypeOK ==
    /\ object \in {"options", "callbacks", "dialer", "connecting", "connected", "built",
                   "failed", "destroying", "destroyed"}
    /\ wanted \subseteq Kind
    /\ step \in 0..Len(Order)
    /\ cb_ctx \in BOOLEAN
    /\ context \in {"none", "live", "freed"}
    /\ refs \in 0..2
    /\ closures \subseteq wanted
    /\ handlers \subseteq Kind
    /\ conn \in {"none", "open", "draining", "closed"}
    /\ events \in Nat /\ posted \in Nat /\ running \in BOOLEAN
    /\ closed_cb \in {"none", "posted", "running", "done"}

\* A callback of the connection can run now or later.
CallbackToCome ==
    \/ handlers # {} /\ Established
    \/ posted > 0 \/ running \/ closed_cb \in {"posted", "running"}

\* A handler never runs on a freed context or without its closures: as long as a
\* callback runs, is posted or can be posted, the context lives, however the object's
\* destructor, a failing constructor and the callback thread interleave.
ContextInUse ==
    CallbackToCome => context = "live" /\ wanted \cap handlers \subseteq closures

\* The closed callback's reference is out: from connect() on, until closedHandler()
\* or the failing connect() gives it back.
ClosedCallbackDue ==
    object = "connecting" \/ Established \/ closed_cb \in {"posted", "running"}

\* The counter counts the holders, the connection object and the closed callback, and
\* the context lives exactly while there is one.
RefsAreHolders ==
    /\ context = "live" =>
          refs = (IF cb_ctx THEN 1 ELSE 0) + (IF ClosedCallbackDue THEN 1 ELSE 0)
    /\ context = "live" <=> refs > 0

\* Once the connection object is destroyed, whether its constructor succeeded or
\* failed at any point, the context and the closures it references are freed.
ContextFreed == (object = "destroyed") ~> (context # "live" /\ closures = {})
=============================================================================
