----------------------------- MODULE RequestReply -----------------------------
(***************************************************************************)
(* QoreNatsConnection::request(): any number of threads send requests over *)
(* one connection and wait for the replies, which the C client delivers on *)
(* a thread of its own through one wildcard reply subscription.            *)
(*                                                                         *)
(* Modelled by what src/src/QoreNatsConnection.cpp does under which lock:  *)
(* a step is a critical section of reply_init_lock or of the mux's mutex,  *)
(* or one call of the C client.  The C client itself (subscriptions, their *)
(* delivery thread, the network) is external and does what its callers     *)
(* here rely on: it may lose, delay, duplicate and reorder replies, runs   *)
(* one message callback of a subscription at a time, and calls the         *)
(* completion callback after the last message callback.                    *)
(***************************************************************************)
EXTENDS Naturals

CONSTANTS
    Thread,         \* the threads that call request()
    Mux,            \* the ReplyMux objects that getReplyMux() can allocate
    Message,        \* the replies (natsMsg objects) the C client can hand over
    None,           \* the null pointer
    Cancellable,    \* TRUE: built with _QORE_HAS_CANCELLABLE_POLL
    MaxRequests     \* bound: the number of calls of request()

ASSUME CancellableAssumption == Cancellable \in BOOLEAN
ASSUME MaxRequestsAssumption == MaxRequests \in Nat
\* What the subject of a reply, or its no-responders status, tells the program.
Address == [mux : Mux, token : Nat, no_responders : BOOLEAN]

ASSUME NoneAssumption == None \notin Mux \cup Message \cup Thread /\ None \notin Address

VARIABLES
    conn,           \* the connection object and its C client connection
    init_lock,      \* the holder of reply_init_lock, or None
    reply_mux,      \* QoreNatsConnection::reply_mux
    sub,            \* sub[m]: the reply subscription made for mux m
    on_complete,    \* on_complete[m]: replyComplete is registered for sub[m]
    closure,        \* closure[m]: the heap reference to m held for replyHandler
    replies,        \* replies[m]: ReplyMux::replies, a map from token to message
    reply_counter,  \* QoreNatsConnection::reply_counter
    pc,             \* pc[t]: where t is in request()
    mux,            \* mux[t]: t's own reference to its mux
    token,          \* token[t]: the token of t's last request
    reply,          \* reply[t]: the message t took from the map
    expired,        \* expired[t]: the deadline of t's request has passed
    cancelled,      \* cancelled[t]: t was cancelled, or its Program interrupted
    signalled,      \* the waiting threads that a broadcast has reached
    outcome,        \* outcome[t]: how t's last request ended
    requests,       \* the number of calls made
    published,      \* the <<mux, token>> reply subjects published with a request
    addr,           \* addr[msg]: where msg is addressed, or None if not sent yet
    net,            \* the messages on their way to the reply handler
    handling,       \* handling[m]: the message replyHandler runs on for mux m
    destroyed       \* destroyed[msg]: the calls of natsMsg_Destroy(msg)

threadVars == <<pc, mux, token, reply, expired, cancelled, signalled, outcome, requests>>
initVars == <<init_lock, reply_mux, on_complete>>
subVars == <<conn, sub, closure>>
wireVars == <<published, addr, net, handling>>
vars == <<threadVars, initVars, subVars, wireVars, replies, reply_counter, destroyed>>

-----------------------------------------------------------------------------
(* Helpers *)

\* std::map: the map with an entry for key, and the map without it.
Assign(map, key, value) ==
    [k \in DOMAIN map \cup {key} |-> IF k = key THEN value ELSE map[k]]
Forget(map, key) == map                         \* mutant: ~WaitingRequest() leaves the entry
Erase(map, key) == [k \in DOMAIN map \ {key} |-> map[k]]

\* The entry of t's request in its mux; operator[] makes a null entry of a missing one.
Slot(t) ==
    IF token[t] \in DOMAIN replies[mux[t]] THEN replies[mux[t]][token[t]] ELSE None

\* natsMsg_Destroy() for every message of a set.
Destroy(msgs) ==
    destroyed' = [msg \in Message |-> IF msg \in msgs THEN destroyed[msg] + 1 ELSE destroyed[msg]]

\* reply_init_lock can be taken.
NoLock == TRUE                                  \* mutant: getReplyMux() without its lock
InitLockFree == init_lock = None

\* ++reply_counter
StuckToken == reply_counter                     \* mutant: the counter is read, not incremented
NextToken == reply_counter + 1

Goto(t, label) == pc' = [pc EXCEPT ![t] = label]
EndWith(t, how) == outcome' = [outcome EXCEPT ![t] = how]

Init ==
    /\ conn = "open"
    /\ init_lock = None
    /\ reply_mux = None
    /\ sub = [m \in Mux |-> "none"]
    /\ on_complete = [m \in Mux |-> FALSE]
    /\ closure = [m \in Mux |-> "none"]
    /\ replies = [m \in Mux |-> [k \in {} |-> None]]
    /\ reply_counter = 0
    /\ pc = [t \in Thread |-> "idle"]
    /\ mux = [t \in Thread |-> None]
    /\ token = [t \in Thread |-> 0]
    /\ reply = [t \in Thread |-> None]
    /\ expired = [t \in Thread |-> FALSE]
    /\ cancelled = [t \in Thread |-> FALSE]
    /\ signalled = {}
    /\ outcome = [t \in Thread |-> "none"]
    /\ requests = 0
    /\ published = {}
    /\ addr = [msg \in Message |-> None]
    /\ net = {}
    /\ handling = [m \in Mux |-> None]
    /\ destroyed = [msg \in Message |-> 0]

-----------------------------------------------------------------------------
(* request(), up to the publication *)

\* The caller holds a reference to the connection object.  A thread that is
\* already cancelled gets its exception here and changes nothing.
Begin(t) ==
    /\ conn # "destroyed"
    /\ pc[t] = "idle"
    /\ ~cancelled[t]
    /\ requests < MaxRequests
    /\ requests' = requests + 1
    /\ token' = [token EXCEPT ![t] = 0]
    /\ EndWith(t, "none")
    /\ Goto(t, "getmux")
    /\ UNCHANGED <<mux, reply, expired, cancelled, signalled, initVars, subVars, wireVars,
                   replies, reply_counter, destroyed>>

\* getReplyMux() with the mux already there.
UseMux(t) ==
    /\ pc[t] = "getmux"
    /\ InitLockFree
    /\ reply_mux # None
    /\ mux' = [mux EXCEPT ![t] = reply_mux]
    /\ Goto(t, "register")
    /\ UNCHANGED <<token, reply, expired, cancelled, signalled, outcome, requests,
                   initVars, subVars, wireVars, replies, reply_counter, destroyed>>

\* getReplyMux(): no inbox, or natsConnection_Subscribe() fails; closure and mux are freed.
SubscribeFails(t) ==
    /\ pc[t] = "getmux"
    /\ InitLockFree
    /\ reply_mux = None
    /\ EndWith(t, "error")
    /\ Goto(t, "idle")
    /\ UNCHANGED <<mux, token, reply, expired, cancelled, signalled, requests,
                   initVars, subVars, wireVars, replies, reply_counter, destroyed>>

\* getReplyMux(): natsConnection_Subscribe() succeeds; reply_init_lock stays locked.
Subscribe(t) ==
    /\ pc[t] = "getmux"
    /\ InitLockFree
    /\ reply_mux = None
    /\ conn = "open"
    /\ \E m \in {x \in Mux : sub[x] = "none"} :
         /\ mux' = [mux EXCEPT ![t] = m]
         /\ closure' = [closure EXCEPT ![m] = "live"]
         /\ sub' = [sub EXCEPT ![m] = "active"]
    /\ init_lock' = t
    /\ Goto(t, "oncomplete")
    /\ UNCHANGED <<token, reply, expired, cancelled, signalled, outcome, requests, conn,
                   reply_mux, on_complete, wireVars, replies, reply_counter, destroyed>>

\* natsSubscription_SetOnCompleteCB()
SkipOnComplete(m) == UNCHANGED on_complete      \* mutant: replyComplete is not registered
RegisterOnComplete(m) == on_complete' = [on_complete EXCEPT ![m] = TRUE]

\* natsSubscription_SetOnCompleteCB() accepts a subscription that is still open.
SetOnComplete(t) ==
    /\ pc[t] = "oncomplete"
    /\ sub[mux[t]] = "active"
    /\ RegisterOnComplete(mux[t])
    /\ reply_mux' = mux[t]
    /\ init_lock' = None
    /\ Goto(t, "register")
    /\ UNCHANGED <<mux, token, reply, expired, cancelled, signalled, outcome, requests,
                   subVars, wireVars, replies, reply_counter, destroyed>>

\* The callback can still run, and its end will not be reported: the closure is not freed.
DeleteClosure(m) == closure' = [closure EXCEPT ![m] = "deleted"]    \* mutant: it is freed
AbandonClosure(m) == UNCHANGED closure

\* It fails: the subscription is ended, and the mux not used.
SetOnCompleteFails(t) ==
    /\ pc[t] = "oncomplete"
    /\ sub' = [sub EXCEPT ![mux[t]] = IF @ = "active" THEN "ending" ELSE @]
    /\ mux' = [mux EXCEPT ![t] = None]
    /\ init_lock' = None
    /\ EndWith(t, "error")
    /\ Goto(t, "idle")
    /\ AbandonClosure(mux[t])
    /\ UNCHANGED <<token, reply, expired, cancelled, signalled, requests, conn,
                   reply_mux, on_complete, wireVars, replies, reply_counter, destroyed>>

\* The token is new, and its entry is in the map before the request is published.
Register(t) ==
    /\ pc[t] = "register"
    /\ reply_counter' = NextToken
    /\ token' = [token EXCEPT ![t] = reply_counter']
    /\ replies' = [replies EXCEPT ![mux[t]] = Assign(@, token'[t], None)]
    /\ Goto(t, "publish")
    /\ UNCHANGED <<mux, reply, expired, cancelled, signalled, outcome, requests,
                   initVars, subVars, wireVars, destroyed>>

\* natsConnection_PublishRequest() succeeds; the deadline starts.
Publish(t) ==
    /\ pc[t] = "publish"
    /\ conn \in {"open", "draining"}
    /\ published' = published \cup {<<mux[t], token[t]>>}
    /\ Goto(t, "check")
    /\ UNCHANGED <<mux, token, reply, expired, cancelled, signalled, outcome, requests,
                   initVars, subVars, addr, net, handling, replies, reply_counter, destroyed>>

\* It fails: always on a closed connection, and for reasons of its own.
PublishFails(t) ==
    /\ pc[t] = "publish"
    /\ EndWith(t, "error")
    /\ Goto(t, "leaving")
    /\ UNCHANGED <<mux, token, reply, expired, cancelled, signalled, requests,
                   initVars, subVars, wireVars, replies, reply_counter, destroyed>>

-----------------------------------------------------------------------------
(* request(), the wait for the reply, under the mutex of the mux *)

\* The wait ends when a reply was broadcast, at the deadline, and at an
\* interruption; without a cancellable poll it also ends after every poll interval.
Woken(t) ==
    /\ pc[t] = "wait"
    /\ t \in signalled \/ expired[t] \/ cancelled[t] \/ ~Cancellable

\* The wait returned and reported that it was not interrupted.  Without a
\* cancellable poll, the thread asks for itself before it looks at its entry again.
Resumed(t) == Woken(t) /\ (Cancellable \/ ~cancelled[t])

\* The thread evaluates the condition of its wait loop.
Looks(t) == pc[t] = "check" \/ Resumed(t)

\* The map after its reply was taken from the waiting request.
LeaveTaken(t) == replies[mux[t]]                \* mutant: the entry keeps the pointer
Taken(t) == Assign(replies[mux[t]], token[t], None)

TakeReply(t) ==
    /\ Looks(t)
    /\ Slot(t) # None
    /\ reply' = [reply EXCEPT ![t] = Slot(t)]
    /\ replies' = [replies EXCEPT ![mux[t]] = Taken(t)]
    /\ signalled' = signalled \ {t}
    /\ Goto(t, "convert")
    /\ UNCHANGED <<mux, token, expired, cancelled, outcome, requests,
                   initVars, subVars, wireVars, reply_counter, destroyed>>

TimeOut(t) ==
    /\ Looks(t)
    /\ Slot(t) = None
    /\ expired[t]
    /\ signalled' = signalled \ {t}
    /\ EndWith(t, "timeout")
    /\ Goto(t, "leaving")
    /\ UNCHANGED <<mux, token, reply, expired, cancelled, requests,
                   initVars, subVars, wireVars, replies, reply_counter, destroyed>>

Wait(t) ==
    /\ Looks(t)
    /\ Slot(t) = None
    /\ ~expired[t]
    /\ signalled' = signalled \ {t}
    /\ Goto(t, "wait")
    /\ UNCHANGED <<mux, token, reply, expired, cancelled, outcome, requests,
                   initVars, subVars, wireVars, replies, reply_counter, destroyed>>

Interrupted(t) ==
    /\ Woken(t)
    /\ cancelled[t]
    /\ signalled' = signalled \ {t}
    /\ EndWith(t, "interrupted")
    /\ Goto(t, "leaving")
    /\ UNCHANGED <<mux, token, reply, expired, cancelled, requests,
                   initVars, subVars, wireVars, replies, reply_counter, destroyed>>

\* The reply becomes the result, or the error that nobody serves the subject;
\* NatsMsgHolder destroys it.  The mutex was released when the reply was taken.
Convert(t) ==
    /\ pc[t] = "convert"
    /\ EndWith(t, IF addr[reply[t]].no_responders THEN "noresponders" ELSE reply[t])
    /\ Destroy({reply[t]})
    /\ reply' = [reply EXCEPT ![t] = None]
    /\ Goto(t, "leaving")
    /\ UNCHANGED <<mux, token, expired, cancelled, signalled, requests,
                   initVars, subVars, wireVars, replies, reply_counter>>

\* The reply that arrived after the wait was over, or after the first reply was taken.
NoUnclaimed(t) == {}                            \* mutant: it is not destroyed
Unclaimed(t) == {Slot(t)} \ {None}

\* ~WaitingRequest(), on every way out after Register.
Leave(t) ==
    /\ pc[t] = "leaving"
    /\ Destroy(Unclaimed(t))
    /\ replies' = [replies EXCEPT ![mux[t]] = Erase(@, token[t])]
    /\ mux' = [mux EXCEPT ![t] = None]
    /\ expired' = [expired EXCEPT ![t] = FALSE]
    /\ Goto(t, "idle")
    /\ UNCHANGED <<token, reply, cancelled, signalled, outcome, requests,
                   initVars, subVars, wireVars, reply_counter>>

-----------------------------------------------------------------------------
(* The reply handler, on the delivery thread of the C client *)

\* The C client calls replyHandler(), which takes over the message.
Deliver(m) ==
    /\ sub[m] \in {"active", "ending"}
    /\ handling[m] = None
    /\ \E msg \in net :
         /\ addr[msg].mux = m
         /\ handling' = [handling EXCEPT ![m] = msg]
         /\ net' = net \ {msg}
    /\ UNCHANGED <<threadVars, initVars, subVars, published, addr, replies, reply_counter,
                   destroyed>>

\* The entry a reply is for, if its request still waits without a reply.
Expected(m, msg) ==
    /\ addr[msg].token \in DOMAIN replies[m]
    /\ replies[m][addr[msg].token] = None

NoWaiters(m) == {}                              \* mutant: the reply is stored without a broadcast
\* cond.broadcast(): every thread in the wait on m.
Waiters(m) == {t \in Thread : pc[t] = "wait" /\ mux[t] = m}

\* replyHandler(), under the mutex: the reply goes to its waiting request.
StoreReply(m) ==
    /\ handling[m] # None
    /\ Expected(m, handling[m])
    /\ replies' = [replies EXCEPT ![m] = Assign(@, addr[handling[m]].token, handling[m])]
    /\ signalled' = signalled \cup Waiters(m)
    /\ handling' = [handling EXCEPT ![m] = None]
    /\ UNCHANGED <<pc, mux, token, reply, expired, cancelled, outcome, requests,
                   initVars, subVars, published, addr, net, reply_counter, destroyed>>

\* replyHandler(), under the mutex: nobody waits, or there is a reply already.
DropReply(m) ==
    /\ handling[m] # None
    /\ ~Expected(m, handling[m])
    /\ Destroy({handling[m]})
    /\ handling' = [handling EXCEPT ![m] = None]
    /\ UNCHANGED <<threadVars, initVars, subVars, published, addr, net, replies, reply_counter>>

\* The delivery of a subscription that ended is over; replyComplete() deletes the closure.
Complete(m) ==
    /\ sub[m] = "ending"
    /\ handling[m] = None
    /\ sub' = [sub EXCEPT ![m] = "complete"]
    /\ closure' = [closure EXCEPT ![m] = IF on_complete[m] THEN "deleted" ELSE @]
    /\ UNCHANGED <<conn, threadVars, initVars, wireVars, replies, reply_counter, destroyed>>

-----------------------------------------------------------------------------
(* The connection and the environment *)

\* Every open subscription of the connection ends.
EndSubs == sub' = [m \in Mux |-> IF sub[m] = "active" THEN "ending" ELSE sub[m]]

\* drain(): natsConnection_Drain() ends the subscriptions first and closes later.
Drain ==
    /\ conn = "open"
    /\ conn' = "draining"
    /\ EndSubs
    /\ UNCHANGED <<threadVars, initVars, closure, wireVars, replies, reply_counter, destroyed>>

\* close(), the end of a drain, or a connection that cannot be re-established.
Close ==
    /\ conn \in {"open", "draining"}
    /\ conn' = "closed"
    /\ EndSubs
    /\ UNCHANGED <<threadVars, initVars, closure, wireVars, replies, reply_counter, destroyed>>

\* ~QoreNatsConnection(): no call is in progress, each holds a reference to the object.
Destruct ==
    /\ conn # "destroyed"
    /\ \A t \in Thread : pc[t] = "idle"
    /\ conn' = "destroyed"
    /\ reply_mux' = None
    /\ EndSubs
    /\ UNCHANGED <<init_lock, on_complete, closure, threadVars, wireVars, replies,
                   reply_counter, destroyed>>

\* A responder, or the server in the name of none, answers a published request.
Respond(msg) ==
    /\ addr[msg] = None
    /\ \E p \in published, nr \in BOOLEAN :
         /\ sub[p[1]] = "active"
         /\ addr' = [addr EXCEPT ![msg] = [mux |-> p[1], token |-> p[2], no_responders |-> nr]]
    /\ net' = net \cup {msg}
    /\ UNCHANGED <<threadVars, initVars, subVars, published, handling, replies, reply_counter,
                   destroyed>>

Expire(t) ==
    /\ pc[t] \in {"check", "wait"}
    /\ ~expired[t]
    /\ expired' = [expired EXCEPT ![t] = TRUE]
    /\ UNCHANGED <<pc, mux, token, reply, cancelled, signalled, outcome, requests,
                   initVars, subVars, wireVars, replies, reply_counter, destroyed>>

Cancel(t) ==
    /\ pc[t] # "idle"
    /\ ~cancelled[t]
    /\ cancelled' = [cancelled EXCEPT ![t] = TRUE]
    /\ UNCHANGED <<pc, mux, token, reply, expired, signalled, outcome, requests,
                   initVars, subVars, wireVars, replies, reply_counter, destroyed>>

-----------------------------------------------------------------------------

\* The steps of a call that is in progress.
Step(t) ==
    \/ UseMux(t) \/ SubscribeFails(t) \/ Subscribe(t)
    \/ SetOnComplete(t) \/ SetOnCompleteFails(t)
    \/ Register(t) \/ Publish(t) \/ PublishFails(t)
    \/ TakeReply(t) \/ TimeOut(t) \/ Wait(t) \/ Interrupted(t)
    \/ Convert(t) \/ Leave(t)

\* The steps of the delivery thread that do not wait for the network.
Handle(m) == StoreReply(m) \/ DropReply(m) \/ Complete(m)

Next ==
    \/ \E t \in Thread : Begin(t) \/ Step(t) \/ Expire(t) \/ Cancel(t)
    \/ \E m \in Mux : Deliver(m) \/ Handle(m)
    \/ \E msg \in Message : Respond(msg)
    \/ Drain \/ Close \/ Destruct

Spec == Init /\ [][Next]_vars

\* The threads run, and so does the C client's delivery thread; nothing makes a
\* caller call, a responder answer, the connection close or a deadline pass.
Fairness ==
    /\ \A t \in Thread : WF_vars(Step(t))
    /\ \A m \in Mux : WF_vars(Handle(m))

FairSpec == Spec /\ Fairness
-----------------------------------------------------------------------------
(* Properties *)

MapType(m) ==
    /\ DOMAIN replies[m] \subseteq 1..reply_counter
    /\ \A k \in DOMAIN replies[m] : replies[m][k] \in Message \cup {None}

Labels == {"idle", "getmux", "oncomplete", "register", "publish", "check", "wait", "convert",
           "leaving"}
Failures == {"error", "timeout", "interrupted", "noresponders"}

\* Every variable has its type, every entry of a reply map a token already given out.
TypeOK ==
    /\ conn \in {"open", "draining", "closed", "destroyed"}
    /\ init_lock \in Thread \cup {None}
    /\ reply_mux \in Mux \cup {None}
    /\ sub \in [Mux -> {"none", "active", "ending", "complete"}]
    /\ on_complete \in [Mux -> BOOLEAN]
    /\ closure \in [Mux -> {"none", "live", "deleted"}]
    /\ DOMAIN replies = Mux
    /\ \A m \in Mux : MapType(m)
    /\ reply_counter \in Nat
    /\ pc \in [Thread -> Labels]
    /\ mux \in [Thread -> Mux \cup {None}]
    /\ token \in [Thread -> Nat]
    /\ \A t \in Thread : token[t] <= reply_counter
    /\ reply \in [Thread -> Message \cup {None}]
    /\ expired \in [Thread -> BOOLEAN]
    /\ cancelled \in [Thread -> BOOLEAN]
    /\ signalled \subseteq Thread
    /\ outcome \in [Thread -> Failures \cup {"none"} \cup Message]
    /\ requests \in 0..MaxRequests
    /\ published \subseteq Mux \X Nat
    /\ addr \in [Message -> Address \cup {None}]
    /\ net \subseteq Message
    /\ handling \in [Mux -> Message \cup {None}]
    /\ destroyed \in [Message -> Nat]

\* Where the program keeps a pointer to msg: the handler, an entry of a map, a request.
Holders(msg) ==
    {<<"handler", m>> : m \in {x \in Mux : handling[x] = msg}}
    \cup {<<"request", t>> : t \in {x \in Thread : reply[x] = msg}}
    \cup UNION {{<<"entry", m, k>> : k \in {x \in DOMAIN replies[m] : replies[m][x] = msg}}
               : m \in Mux}

\* Every reply the C client handed over is in exactly one place until it is
\* destroyed, and is destroyed once: replyHandler(), the wait loop and
\* ~WaitingRequest() neither leak a reply nor destroy or use a destroyed one,
\* however late or often it arrives.
ReplyOwnership ==
    \A msg \in Message :
        IF addr[msg] = None \/ msg \in net
        THEN destroyed[msg] = 0 /\ Holders(msg) = {}
        ELSE \/ destroyed[msg] = 1 /\ Holders(msg) = {}
             \/ destroyed[msg] = 0 /\ \E h \in Holders(msg) : Holders(msg) = {h}

\* The requests that have an entry in their map.
Registered == {t \in Thread : pc[t] \in {"publish", "check", "wait", "convert", "leaving"}}

\* The entries of the maps are exactly those of the requests in progress, one
\* each: a request that returned, for whatever reason, leaves none behind for a
\* late reply, and a mux that is freed has no reply left to free.
EntriesAreRequests ==
    /\ \A t \in Registered : token[t] \in DOMAIN replies[mux[t]]
    /\ \A t, u \in Registered : t # u => token[t] # token[u]
    /\ \A m \in Mux : \A k \in DOMAIN replies[m] :
           \E t \in Registered : mux[t] = m /\ token[t] = k

\* replyHandler() can run from the subscription until its end is reported: all
\* that time its closure, and so its mux, exists, also when the set-up fails
\* half way and when the connection object is gone.
HandlerHasMux ==
    \A m \in Mux :
        sub[m] \in {"active", "ending"} \/ handling[m] # None => closure[m] = "live"

\* First requests that race for the connection's reply subscription make one, and
\* no request uses a mux other than the connection's.
OneReplySubscription ==
    /\ \A m, n \in Mux : sub[m] = "active" /\ sub[n] = "active" => m = n
    /\ \A t \in Registered : mux[t] = reply_mux

\* Published once, under a subject of its own, ended by an answer to that subject or by
\* an error: request() implements RequestCall.
Phase(t) ==
    CASE pc[t] \in {"idle", "leaving"} -> "idle"
      [] pc[t] \in {"getmux", "oncomplete", "register", "publish"} -> "called"
      [] OTHER -> "sent"
Sent == {p[2] : p \in published}
Abstract == INSTANCE RequestCall WITH
    call <- [t \in Thread |-> Phase(t)],
    id <- [t \in Thread |-> IF token[t] \in Sent THEN token[t] ELSE 0],
    sent <- Sent,
    answered <- [msg \in Message |-> IF addr[msg] = None THEN None ELSE addr[msg].token],
    result <- outcome
ImplementsRequestCall == Abstract!Spec

\* A waiting request returns once its reply is stored, its deadline passes or it is
\* cancelled: no reply arrives unnoticed between the look at the map and the wait.
RequestEnds ==
    \A t \in Thread :
        (pc[t] = "wait" /\ (Slot(t) # None \/ expired[t] \/ cancelled[t])) ~> pc[t] = "idle"

\* A reply that was handed over is destroyed in the end.
RepliesDestroyed == \A msg \in Message : (Holders(msg) # {}) ~> (destroyed[msg] = 1)

\* When the connection is closed or destroyed, the callback's reference to the
\* replies is released, and the closure freed with it.
ClosureReleased ==
    \A m \in Mux :
        (reply_mux = m /\ <>(conn \in {"closed", "destroyed"})) ~> (closure[m] = "deleted")
=============================================================================
