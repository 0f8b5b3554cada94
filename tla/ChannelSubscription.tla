-------------------------- MODULE ChannelSubscription --------------------------
(***************************************************************************)
(* NatsChannelSubscription: a background thread moves the messages of a    *)
(* NATS subscription into a bounded channel, from which a consumer takes   *)
(* them, while other threads close or drain the subscription.              *)
(*                                                                         *)
(* A step is a critical section of the object's mutex or one call on the   *)
(* subscription or the channel.  The subscription of the C client and      *)
(* Qore's Channel are external: the subscription hands out what is pending *)
(* in order until it ends; send() blocks while the channel is full and     *)
(* raises CHANNEL-CLOSED once it is closed; recv() and the iterator still  *)
(* hand out what is in a closed channel.                                   *)
(***************************************************************************)
EXTENDS Naturals, Sequences

CONSTANTS
    Caller,         \* the threads that call close() or drain(), or run the destructor
    BufferSize,     \* the size of the channel's buffer
    MaxMessages,    \* bound: the messages that arrive for the subscription
    None            \* no message

ASSUME CallerAssumption == Caller # {}
ASSUME BufferSizeAssumption == BufferSize \in Nat \ {0}
ASSUME MaxMessagesAssumption == MaxMessages \in Nat
ASSUME NoneAssumption == None \notin Nat

VARIABLES
    nsub,           \* the subscription: "open", "draining", "ended" or "lost"
    arrived,        \* how many messages arrived; they are numbered in that order
    pending,        \* the messages that arrived and nextMsg() did not return yet
    chan_open,      \* the channel is not closed
    buffer,         \* the messages in the channel
    loop,           \* where bgLoop() is
    msg,            \* the message bgLoop() has in its hands
    stopping,       \* NatsChannelSubscription::stopping
    call,           \* call[c]: where thread c is in close() or drain()
    stopped_by,     \* the call that set stopping
    close_returned, \* a call of close() returned
    received,       \* the messages the consumer received
    consumer        \* "reading", or "ended" by the end of the channel

subVars == <<nsub, arrived, pending>>
chanVars == <<chan_open, buffer>>
loopVars == <<loop, msg>>
stopVars == <<stopping, call, stopped_by, close_returned>>
consumerVars == <<received, consumer>>
vars == <<subVars, chanVars, loopVars, stopVars, consumerVars>>

\* The constructor has started bgLoop().
Init ==
    /\ nsub = "open"
    /\ arrived = 0
    /\ pending = <<>>
    /\ chan_open = TRUE
    /\ buffer = <<>>
    /\ loop = "check"
    /\ msg = None
    /\ stopping = FALSE
    /\ call = [c \in Caller |-> "idle"]
    /\ stopped_by = "none"
    /\ close_returned = FALSE
    /\ received = <<>>
    /\ consumer = "reading"

-----------------------------------------------------------------------------
(* bgLoop() *)

CheckStopping ==
    /\ loop = "check"
    /\ loop' = IF stopping THEN "exit" ELSE "next"
    /\ UNCHANGED <<subVars, chanVars, msg, stopVars, consumerVars>>

NextMsg ==
    /\ loop = "next"
    /\ nsub \in {"open", "draining"}
    /\ pending # <<>>
    /\ msg' = Head(pending)
    /\ pending' = Tail(pending)
    /\ loop' = "send"
    /\ UNCHANGED <<nsub, arrived, chanVars, stopVars, consumerVars>>

\* nextMsg() returns NOTHING: nothing came in time, or the subscription ended for a
\* reason that QoreNatsSubscription::nextMsg() does not count as an error.
NextNothing ==
    /\ loop = "next"
    /\ nsub # "lost"
    /\ nsub = "ended" \/ pending = <<>>
    /\ loop' = "check"
    /\ UNCHANGED <<subVars, chanVars, msg, stopVars, consumerVars>>

\* Where bgLoop() goes on after an exception of nextMsg(), and after CHANNEL-CLOSED.
KeepLooping == "check"                          \* mutant: the exception is ignored
AfterError == "exit"
AfterClosed == "exit"

\* nextMsg() raises an exception: the connection is closed, the thread is cancelled,
\* the consumer is too slow for the C client, ...
NextFails ==
    /\ loop = "next"
    /\ loop' = AfterError
    /\ UNCHANGED <<subVars, chanVars, msg, stopVars, consumerVars>>

\* The variable of the message after it was sent.
KeepMessage == msg                              \* mutant: it keeps the message
NoMessage == None

Send ==
    /\ loop = "send"
    /\ chan_open
    /\ Len(buffer) < BufferSize
    /\ buffer' = Append(buffer, msg)
    /\ msg' = NoMessage
    /\ loop' = "check"
    /\ UNCHANGED <<subVars, chan_open, stopVars, consumerVars>>

\* CHANNEL-CLOSED: the message is dropped.
SendFails ==
    /\ loop = "send"
    /\ ~chan_open
    /\ msg' = None
    /\ loop' = AfterClosed
    /\ UNCHANGED <<subVars, chanVars, stopVars, consumerVars>>

\* Any other exception of send(): the thread is cancelled, also while it waits for room.  The
\* message is dropped.
SendRaises ==
    /\ loop = "send"
    /\ msg' = None
    /\ loop' = AfterError
    /\ UNCHANGED <<subVars, chanVars, stopVars, consumerVars>>

\* on_exit, however the loop ended.
LeaveOpen == UNCHANGED chan_open                \* mutant: the channel is not closed
CloseOnExit == chan_open' = FALSE
Exit ==
    /\ loop = "exit"
    /\ CloseOnExit
    /\ loop' = "done"
    /\ UNCHANGED <<subVars, buffer, msg, stopVars, consumerVars>>

-----------------------------------------------------------------------------
(* close(), drain() and the destructor *)

\* Only the first call stops the subscription.
AnyCall == TRUE                                 \* mutant: every call does
FirstCall == ~stopping

\* close(), and the destructor, up to the end of the critical section.
Close(c) ==
    /\ call[c] = "idle"
    /\ FirstCall
    /\ stopping' = TRUE
    /\ stopped_by' = "close"
    /\ call' = [call EXCEPT ![c] = "unsubscribe"]
    /\ UNCHANGED <<subVars, chanVars, loopVars, close_returned, consumerVars>>

\* close() after another call of close() or drain() returns at once.
CloseAgain(c) ==
    /\ call[c] = "idle"
    /\ stopping
    /\ close_returned' = TRUE
    /\ UNCHANGED <<subVars, chanVars, loopVars, stopping, call, stopped_by, consumerVars>>

\* nsub.unsubscribe(), which discards what is pending; its errors are ignored.
Unsubscribe(c) ==
    /\ call[c] = "unsubscribe"
    /\ \/ nsub \in {"open", "draining"} /\ nsub' = "ended" /\ pending' = <<>>
       \/ UNCHANGED <<nsub, pending>>
    /\ call' = [call EXCEPT ![c] = "closechannel"]
    /\ UNCHANGED <<arrived, chanVars, loopVars, stopping, stopped_by, close_returned,
                   consumerVars>>

\* chan.close()
KeepChannel == UNCHANGED chan_open              \* mutant: it is left to bgLoop()
CloseChan == chan_open' = FALSE
CloseChannel(c) ==
    /\ call[c] = "closechannel"
    /\ CloseChan
    /\ close_returned' = TRUE
    /\ call' = [call EXCEPT ![c] = "idle"]
    /\ UNCHANGED <<subVars, buffer, loopVars, stopping, stopped_by, consumerVars>>

\* drain(), up to the end of the critical section; a later call returns at once.
Drain(c) ==
    /\ call[c] = "idle"
    /\ FirstCall
    /\ stopping' = TRUE
    /\ stopped_by' = "drain"
    /\ call' = [call EXCEPT ![c] = "drain"]
    /\ UNCHANGED <<subVars, chanVars, loopVars, close_returned, consumerVars>>

\* nsub.drain(); its exception goes to the caller.
DrainSubscription(c) ==
    /\ call[c] = "drain"
    /\ \/ nsub = "open" /\ nsub' = "draining"
       \/ UNCHANGED nsub
    /\ call' = [call EXCEPT ![c] = "idle"]
    /\ UNCHANGED <<arrived, pending, chanVars, loopVars, stopping, stopped_by, close_returned,
                   consumerVars>>

-----------------------------------------------------------------------------
(* The consumer and the environment *)

\* recv(), or the iterator of foreach.
Receive ==
    /\ consumer = "reading"
    /\ buffer # <<>>
    /\ received' = Append(received, Head(buffer))
    /\ buffer' = Tail(buffer)
    /\ UNCHANGED <<subVars, chan_open, loopVars, stopVars, consumer>>

\* recv() returns NOTHING, and foreach ends, as the channel is closed and empty.
ReceiveNothing ==
    /\ consumer = "reading"
    /\ ~chan_open /\ buffer = <<>>
    /\ consumer' = "ended"
    /\ UNCHANGED <<subVars, chanVars, loopVars, stopVars, received>>

Arrive ==
    /\ nsub = "open"
    /\ arrived < MaxMessages
    /\ arrived' = arrived + 1
    /\ pending' = Append(pending, arrived')
    /\ UNCHANGED <<nsub, chanVars, loopVars, stopVars, consumerVars>>

\* The connection is drained, and its subscriptions with it.
ConnectionDrains ==
    /\ nsub = "open"
    /\ nsub' = "draining"
    /\ UNCHANGED <<arrived, pending, chanVars, loopVars, stopVars, consumerVars>>

\* A drained subscription ends when nothing is pending any more, an open one when it is
\* unsubscribed by someone else or reaches the limit that autoUnsubscribe() set.
SubscriptionEnds ==
    /\ nsub \in {"open", "draining"}
    /\ nsub = "draining" => pending = <<>>
    /\ nsub' = "ended"
    /\ pending' = <<>>
    /\ UNCHANGED <<arrived, chanVars, loopVars, stopVars, consumerVars>>

\* The connection is closed, or cannot be re-established.
ConnectionCloses ==
    /\ nsub \in {"open", "draining"}
    /\ nsub' = "lost"
    /\ pending' = <<>>
    /\ UNCHANGED <<arrived, chanVars, loopVars, stopVars, consumerVars>>

-----------------------------------------------------------------------------

Loop == CheckStopping \/ NextMsg \/ NextNothing \/ NextFails \/ Send \/ SendFails \/ Exit
Calls(c) == Unsubscribe(c) \/ CloseChannel(c) \/ DrainSubscription(c)
Consume == Receive \/ ReceiveNothing

Next ==
    \/ Loop \/ SendRaises
    \/ \E c \in Caller : Close(c) \/ CloseAgain(c) \/ Drain(c) \/ Calls(c)
    \/ Consume
    \/ Arrive \/ ConnectionDrains \/ SubscriptionEnds \/ ConnectionCloses

Spec == Init /\ [][Next]_vars

\* The background thread and the callers run.  Nothing makes the application call, cancel a
\* thread that waits for room, or take a message from the channel.
Fairness == WF_vars(Loop) /\ \A c \in Caller : WF_vars(Calls(c))

FairSpec == Spec /\ Fairness

-----------------------------------------------------------------------------
(* Properties *)

IsMessages(s) == s \in Seq(1..arrived)

\* Every variable has its type, and the channel's buffer its limit.
TypeOK ==
    /\ nsub \in {"open", "draining", "ended", "lost"}
    /\ arrived \in 0..MaxMessages
    /\ IsMessages(pending) /\ IsMessages(buffer) /\ IsMessages(received)
    /\ Len(buffer) <= BufferSize
    /\ chan_open \in BOOLEAN
    /\ loop \in {"check", "next", "send", "exit", "done"}
    /\ msg \in 1..arrived \cup {None}
    /\ loop = "send" <=> msg # None
    /\ stopping \in BOOLEAN
    /\ call \in [Caller -> {"idle", "unsubscribe", "closechannel", "drain"}]
    /\ stopped_by \in {"none", "close", "drain"}
    /\ close_returned \in BOOLEAN
    /\ consumer \in {"reading", "ended"}

InHand == IF msg = None THEN <<>> ELSE <<msg>>
Ahead == received \o buffer \o InHand
InOrder(s) == \A i \in 1..Len(s) : s[i] = i

\* The consumer receives the messages in the order in which they arrived, each once
\* and without a gap: what it received, what is in the channel and what bgLoop()
\* holds are the first messages that arrived.  As long as the subscription and the
\* loop go on, what is still pending are all the others.
Active == nsub \in {"open", "draining"} /\ loop \notin {"exit", "done"}
DeliveredInOrder ==
    /\ InOrder(Ahead)
    /\ Active => InOrder(Ahead \o pending) /\ Len(Ahead \o pending) = arrived

\* One of the calls of close() and drain() that race acts on the subscription and the
\* channel, the others return.
OneCallStops ==
    \A c, d \in Caller : call[c] # "idle" /\ call[d] # "idle" => c = d

\* The consumer reads a MessageStream: in bgLoop()'s hands and in the subscription is what
\* can still get into the channel, until the channel is closed, the loop is left or the
\* subscription ends.
Deliverable ==
    IF ~chan_open THEN buffer
    ELSE IF Active THEN buffer \o InHand \o pending
    ELSE buffer \o InHand
StreamState ==
    IF consumer = "ended" THEN "ended" ELSE IF Active /\ chan_open THEN "open" ELSE "cut"
Stream == INSTANCE MessageStream WITH waiting <- Deliverable, state <- StreamState
ImplementsMessageStream == Stream!Spec

\* A close() that comes first ends the background thread, also when it blocks on a full
\* channel that nobody reads any more.
CloseEndsLoop == (stopped_by = "close") ~> (loop = "done" /\ ~chan_open)

\* When the connection is closed, the channel is closed too, and its readers are not left
\* waiting, unless the background thread waits for room in the channel.
Blocked == loop = "send" /\ Len(buffer) = BufferSize
LossReported == (nsub = "lost") ~> (~chan_open \/ Blocked)

\* A consumer that goes on reading, as NatsClient::callbackLoop() does, reaches the end
\* of the channel after a drain(), a close() or the loss of the connection.
ConsumerReleased ==
    WF_vars(Consume) => ((stopping \/ nsub = "lost") ~> (consumer = "ended"))

-----------------------------------------------------------------------------
(* What the documentation says, and the code does not do *)

\* drain(): "Drains the subscription (processes pending messages then closes)".
DrainProcessesPending ==
    [][CheckStopping /\ stopped_by = "drain" /\ nsub = "draining" /\ loop' = "exit"
          => pending = <<>>]_vars

\* bgLoop(): it ends when the "Subscription has been unsubscribed or is invalid".
EndedSubscriptionEndsLoop == (nsub = "ended") ~> (loop = "done" \/ Blocked)

\* close(): "Closes the subscription and channel".
CloseClosesChannel == close_returned ~> ~chan_open
=============================================================================
