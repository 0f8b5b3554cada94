---------------------------- MODULE NatsSubscription ----------------------------
(***************************************************************************)
(* A QoreNatsSubscription used by one Qore thread, with the two other      *)
(* blocking calls that wait the same way: QoreNatsConnection::flush() and  *)
(* QoreNatsKVWatcher::next().  Each of these calls waits in the C client   *)
(* in slices of at most QORE_IO_POLL_INTERVAL_MS and looks for a           *)
(* cancellation between two slices.                                        *)
(*                                                                         *)
(* The messages of the subscription are numbered in the order in which     *)
(* they arrive.  A message that the C client hands out is allocated by it  *)
(* and has to be destroyed by the module: the subscription keeps the last  *)
(* one in lastMsg, which ack() and its like use.                           *)
(*                                                                         *)
(* The C client is external: a wait returns NATS_TIMEOUT when its time is  *)
(* over and not earlier, and anything else at any moment before.  It       *)
(* refuses a timeout that is not positive in fetch(), flush() and next();  *)
(* in waitForDrainCompletion() such a timeout is no limit at all.  Time    *)
(* passes in Tick, in units of a fraction of the poll interval.            *)
(***************************************************************************)
EXTENDS Integers, Sequences, SequencesExt

CONSTANTS
    Interval,       \* QORE_IO_POLL_INTERVAL_MS in units of time
    Timeouts,       \* the timeouts that callers give, besides -1 and 0
    MaxMessages,    \* bound: the messages that arrive
    MaxBatch        \* bound: the batch size of fetch()

ASSUME IntervalAssumption == Interval \in Nat \ {0}
ASSUME TimeoutsAssumption == Timeouts \subseteq Nat \ {0}
ASSUME BoundsAssumption == {MaxMessages, MaxBatch} \subseteq Nat

VARIABLES
    object,     \* the QoreNatsSubscription: "live" or "destroyed"
    sub,        \* the C client's subscription: "open", "draining" or "closed"
    limit,      \* the limit of autoUnsubscribe(), 0 for none
    arrived,    \* how many messages reached the C client
    taken,      \* how many of them the C client handed out
    marker,     \* the watcher's end-of-initial-values marker (a null entry) is still to come
    pc,         \* the thread: "idle", "loop", "wait" or "convert"
    call,       \* its blocking call: operation and timeout
    remaining,  \* remaining_ms
    effective,  \* effective_timeout of the slice
    slice,      \* time spent in the slice
    elapsed,    \* time spent in the call, unless its wait has no limit
    cancelled,  \* the thread was cancelled, or its Program interrupted
    late,       \* time the call has gone on for since then
    lastMsg,    \* QoreNatsSubscription::lastMsg, 0 for nullptr
    list,       \* fetch(): the messages of natsMsgList that are not converted yet
    result,     \* fetch(): the list under construction
    live,       \* the native messages that are allocated
    returned,   \* the messages returned to the caller, in order
    handed,     \* those that the last call returned
    acks,       \* calls of ack() since then
    acked,      \* the messages acknowledged since then
    failed,     \* the conversion of a message raised
    outcome     \* how the last blocking call ended

objectVars == <<object, sub, limit>>
clientVars == <<arrived, taken, marker>>
waitVars == <<call, remaining, effective, slice, elapsed>>
messageVars == <<lastMsg, list, result, live>>
callerVars == <<returned, handed, acks, acked, failed>>
vars == <<objectVars, clientVars, pc, waitVars, cancelled, late, messageVars, callerVars, outcome>>

SubscriptionOp == {"nextMsg", "fetch", "waitForDrainCompletion"}
Op == SubscriptionOp \cup {"flush", "next"}

NoMsg == 0
CallTimeout == Timeouts \cup {-1, 0}      \* -1: nextMsg() waits without end
NoCall == [op |-> "none", timeout |-> 0]
Queued == arrived - taken
Infinite == call.op = "nextMsg" /\ call.timeout < 0
LimitReached == limit > 0 /\ taken >= limit
Running == pc # "idle"

Init ==
    /\ object = "live" /\ sub = "open" /\ limit = 0
    /\ arrived = 0 /\ taken = 0 /\ marker = TRUE
    /\ pc = "idle" /\ call = NoCall
    /\ remaining = 0 /\ effective = 0 /\ slice = 0 /\ elapsed = 0
    /\ cancelled = FALSE /\ late = 0
    /\ lastMsg = NoMsg /\ list = <<>> /\ result = <<>> /\ live = {}
    /\ returned = <<>> /\ handed = <<>> /\ acks = 0 /\ acked = {} /\ failed = FALSE
    /\ outcome = "none"

(***************************************************************************)
(* The wait loop that the blocking calls have in common.                   *)
(***************************************************************************)

\* A blocking call, whose object is valid, begins.
Begin(op, timeout) ==
    /\ pc = "idle"
    /\ op \in SubscriptionOp => object = "live"
    /\ pc' = "loop"
    /\ call' = [op |-> op, timeout |-> timeout]
    /\ remaining' = timeout
    /\ effective' = 0 /\ slice' = 0 /\ elapsed' = 0 /\ late' = 0
    /\ handed' = <<>> /\ acks' = 0 /\ acked' = {}
    /\ outcome' = "none"
    /\ UNCHANGED <<objectVars, clientVars, cancelled, messageVars, returned, failed>>

\* The call returns or raises; its locals are gone.
Return(how) ==
    /\ pc' = "idle"
    /\ outcome' = how
    /\ remaining' = 0 /\ effective' = 0 /\ slice' = 0 /\ late' = 0
    /\ UNCHANGED <<objectVars, call, elapsed>>

\* The messages ms are the value of the call.
Hand(ms) ==
    /\ returned' = returned \o ms
    /\ handed' = ms
    /\ UNCHANGED <<acks, acked, failed>>

\* The conversion of a message raises, and the call with it.
RaiseInConversion ==
    /\ Return("raised")
    /\ failed' = TRUE
    /\ UNCHANGED <<returned, handed, acks, acked>>

\* effective_timeout of the next slice.
Capped == IF Infinite \/ remaining > Interval THEN Interval ELSE remaining
Uncapped == IF Infinite THEN Interval ELSE remaining        \* mutant: one wait for the whole timeout
FullInterval == Interval                                    \* mutant: the last slice is a whole interval, too
EffectiveTimeout == Capped

\* The top of the loop: a cancellation ends the call, or the C client waits for a slice.
LoopTop ==
    /\ pc = "loop"
    /\ IF cancelled
       THEN Return("cancelled") /\ cancelled' = FALSE
       ELSE /\ effective' = EffectiveTimeout
            /\ slice' = 0
            /\ pc' = "wait"
            /\ UNCHANGED <<objectVars, call, remaining, elapsed, cancelled, late, outcome>>
    /\ UNCHANGED <<clientVars, messageVars, callerVars>>

\* In the C client: a wait for the end of a drain without a deadline, ...
NoDeadline == call.op = "waitForDrainCompletion" /\ effective <= 0

\* ... and a wait that it answers at once: it refuses the timeout, or no drain is under way.
AtOnce ==
    \/ call.op \in {"fetch", "flush", "next"} /\ effective <= 0
    \/ call.op = "waitForDrainCompletion" /\ sub # "draining"

\* What is left of the timeout after a slice without a result.
Subtracted == IF Infinite THEN remaining ELSE remaining - effective
NotSubtracted == remaining                                  \* mutant: every slice starts with the whole timeout
Remaining == Subtracted

\* NATS_TIMEOUT: the end of the slice, and of the call when its time is over (which flush() and
\* waitForDrainCompletion() raise as an error, and the others return as nothing).
SliceEnds ==
    /\ pc = "wait"
    /\ slice >= effective
    /\ effective > 0 \/ call.op = "nextMsg"
    /\ IF ~Infinite /\ Remaining <= 0
       THEN Return("timeout")
       ELSE /\ remaining' = Remaining
            /\ effective' = 0 /\ slice' = 0
            /\ pc' = "loop"
            /\ UNCHANGED <<objectVars, call, elapsed, outcome, late>>
    /\ UNCHANGED <<clientVars, cancelled, messageVars, callerVars>>

\* Any other status.  That a subscription reached its limit or was closed is no error of nextMsg().
Fails ==
    /\ pc = "wait"
    /\ LET ended == call.op = "nextMsg" /\ (LimitReached \/ sub = "closed")
       IN Return(IF ended THEN "ended" ELSE "raised")
    /\ UNCHANGED <<clientVars, cancelled, messageVars, callerVars>>

(***************************************************************************)
(* What the waits return.                                                  *)
(***************************************************************************)

CanTake == pc = "wait" /\ Queued > 0 /\ sub # "closed" /\ ~LimitReached

\* A message becomes lastMsg, and the one it replaces is destroyed.
Replaced == live \ {lastMsg}
Forgotten == live                                           \* mutant: the replaced message is not destroyed
AfterReplacing == Replaced

\* nextMsg(): the message becomes lastMsg; its conversion to a hash can raise.
NextMsg ==
    /\ CanTake /\ call.op = "nextMsg"
    /\ taken' = taken + 1
    /\ lastMsg' = taken'
    /\ live' = AfterReplacing \cup {taken'}
    /\ (Return("value") /\ Hand(<<taken'>>)) \/ RaiseInConversion
    /\ UNCHANGED <<arrived, marker, cancelled, list, result>>

\* fetch(): the C client fills a list.
Fetch ==
    /\ CanTake /\ call.op = "fetch"
    /\ effective > 0
    /\ \E n \in 1..MaxBatch :
          /\ n <= Queued
          /\ list' = [i \in 1..n |-> taken + i]
          /\ live' = live \cup ToSet(list')
          /\ taken' = taken + n
    /\ result' = <<>>
    /\ remaining' = 0 /\ effective' = 0 /\ slice' = 0
    /\ pc' = "convert"
    /\ UNCHANGED <<objectVars, arrived, marker, call, elapsed, cancelled, late, lastMsg, callerVars, outcome>>

\* fetch(): each message of the list becomes lastMsg and is converted.
ConvertOne ==
    /\ pc = "convert" /\ list # <<>>
    /\ lastMsg' = Head(list)
    /\ live' = AfterReplacing
    /\ list' = Tail(list)
    /\ result' = Append(result, Head(list))
    /\ UNCHANGED <<objectVars, clientVars, pc, waitVars, cancelled, late, callerVars, outcome>>

\* A conversion that raises destroys the rest of the list and drops what is converted.
ConversionRaises ==
    /\ pc = "convert" /\ list # <<>>
    /\ lastMsg' = Head(list)
    /\ live' = AfterReplacing \ ToSet(Tail(list))
    /\ list' = <<>> /\ result' = <<>>
    /\ RaiseInConversion
    /\ UNCHANGED <<clientVars, cancelled>>

ConvertOrCancel ==                                          \* mutant: a cancellation is looked for between two messages
    \/ ConvertOne
    \/ /\ pc = "convert" /\ list # <<>> /\ cancelled
       /\ live' = live \ ToSet(list)
       /\ list' = <<>> /\ result' = <<>>
       /\ cancelled' = FALSE
       /\ Return("cancelled")
       /\ UNCHANGED <<clientVars, lastMsg, callerVars>>

FetchConvert == ConvertOne

FetchReturn ==
    /\ pc = "convert" /\ list = <<>>
    /\ result' = <<>>
    /\ Return("value") /\ Hand(result)
    /\ UNCHANGED <<clientVars, cancelled, lastMsg, list, live>>

\* KVWatcher::next(): an entry, which is converted and destroyed, or the marker, which is skipped.
WatcherNext ==
    /\ pc = "wait" /\ call.op = "next"
    /\ effective > 0
    /\ \/ Return("value") \/ Return("raised")
    /\ UNCHANGED <<clientVars, cancelled, messageVars, callerVars>>

SkipMarker ==
    /\ pc = "wait" /\ call.op = "next"
    /\ effective > 0
    /\ marker
    /\ marker' = FALSE
    /\ effective' = 0 /\ slice' = 0
    /\ pc' = "loop"
    /\ UNCHANGED <<objectVars, arrived, taken, call, remaining, elapsed, cancelled, late, messageVars,
                   callerVars, outcome>>

\* flush() and waitForDrainCompletion() are done.
Completes ==
    /\ pc = "wait"
    /\ \/ call.op = "flush" /\ effective > 0
       \/ call.op = "waitForDrainCompletion" /\ sub = "closed"
    /\ Return("value")
    /\ UNCHANGED <<clientVars, cancelled, messageVars, callerVars>>

(***************************************************************************)
(* The calls that do not wait.                                             *)
(***************************************************************************)

\* ack(), and nak(), inProgress(), term(), nakWithDelay(), which differ in what they tell the server only.
Ack ==
    /\ object = "live" /\ pc = "idle"
    /\ lastMsg # NoMsg
    /\ acks < MaxBatch                          \* bound
    /\ acks' = acks + 1
    /\ acked' = acked \cup {lastMsg}
    /\ UNCHANGED <<objectVars, clientVars, pc, waitVars, cancelled, late, messageVars,
                   returned, handed, failed, outcome>>

DestroyNative ==                                            \* mutant: the native subscription is destroyed instead
    /\ object = "live" /\ pc = "idle" /\ sub # "closed"
    /\ sub' = "destroyed"
    /\ UNCHANGED <<object, limit, clientVars, pc, waitVars, cancelled, late, messageVars, callerVars, outcome>>

Unsubscribe ==
    /\ object = "live" /\ pc = "idle" /\ sub # "closed"
    /\ sub' = "closed"
    /\ UNCHANGED <<object, limit, clientVars, pc, waitVars, cancelled, late, messageVars, callerVars, outcome>>

AutoUnsubscribe ==
    /\ object = "live" /\ pc = "idle" /\ sub = "open" /\ limit = 0
    /\ limit' \in 1..MaxMessages
    /\ UNCHANGED <<object, sub, clientVars, pc, waitVars, cancelled, late, messageVars, callerVars, outcome>>

Drain ==
    /\ object = "live" /\ pc = "idle" /\ sub = "open"
    /\ sub' = "draining"
    /\ UNCHANGED <<object, limit, clientVars, pc, waitVars, cancelled, late, messageVars, callerVars, outcome>>

\* The destructor destroys lastMsg and the subscription.
Destroy ==
    /\ object = "live" /\ pc = "idle"
    /\ object' = "destroyed" /\ sub' = "closed"
    /\ live' = AfterReplacing
    /\ lastMsg' = NoMsg
    /\ UNCHANGED <<limit, clientVars, pc, waitVars, cancelled, late, list, result, callerVars, outcome>>

(***************************************************************************)
(* The environment.                                                        *)
(***************************************************************************)

Arrive ==
    /\ sub = "open" /\ arrived < MaxMessages
    /\ arrived' = arrived + 1
    /\ UNCHANGED <<objectVars, taken, marker, pc, waitVars, cancelled, late, messageVars, callerVars, outcome>>

\* A draining subscription is closed when its messages are consumed, or the connection is.
DrainComplete ==
    /\ sub = "draining"
    /\ sub' = "closed"
    /\ UNCHANGED <<object, limit, clientVars, pc, waitVars, cancelled, late, messageVars, callerVars, outcome>>

Cancel ==
    /\ Running /\ ~cancelled
    /\ cancelled' = TRUE
    /\ UNCHANGED <<objectVars, clientVars, pc, waitVars, late, messageVars, callerVars, outcome>>

\* bound: a clock that has passed the value a property looks for stops.
Advance(clock, bound) == IF clock <= bound THEN clock + 1 ELSE clock

Tick ==
    /\ pc = "wait" /\ ~AtOnce
    /\ slice < effective \/ NoDeadline
    /\ slice' = IF NoDeadline THEN slice ELSE slice + 1
    /\ elapsed' = IF Infinite \/ NoDeadline THEN elapsed ELSE Advance(elapsed, call.timeout + Interval)
    /\ late' = IF cancelled THEN Advance(late, Interval) ELSE late
    /\ UNCHANGED <<objectVars, clientVars, pc, call, remaining, effective, cancelled, messageVars, callerVars, outcome>>

BeginCall == \E op \in Op, timeout \in CallTimeout : Begin(op, timeout)

Code == LoopTop \/ SliceEnds \/ FetchConvert \/ ConversionRaises \/ FetchReturn

Answers == AtOnce /\ (Completes \/ Fails)

Next ==
    \/ BeginCall \/ Code
    \/ NextMsg \/ Fetch \/ WatcherNext \/ SkipMarker \/ Completes \/ Fails \/ Tick
    \/ Ack \/ Unsubscribe \/ AutoUnsubscribe \/ Drain \/ Destroy
    \/ Arrive \/ DrainComplete \/ Cancel

Spec == Init /\ [][Next]_vars

\* The thread goes on with its call, time passes, and the C client answers what it
\* answers at once.  Nothing ends a wait without a deadline.
Fairness == WF_vars(Code) /\ WF_vars(Tick) /\ WF_vars(Answers)

FairSpec == Spec /\ Fairness

-----------------------------------------------------------------------------
(***************************************************************************)
(* Properties.                                                             *)
(***************************************************************************)

Msg == 1..MaxMessages

\* Types of the variables (QoreNatsSubscription's members and the locals of its calls).
TypeOK ==
    /\ object \in {"live", "destroyed"} /\ sub \in {"open", "draining", "closed"}
    /\ limit \in Nat /\ arrived \in Nat /\ taken \in Nat /\ marker \in BOOLEAN
    /\ pc \in {"idle", "loop", "wait", "convert"}
    /\ call \in [op : Op \cup {"none"}, timeout : CallTimeout]
    /\ {remaining, effective} \subseteq Int /\ {slice, elapsed, late} \subseteq Nat
    /\ cancelled \in BOOLEAN /\ failed \in BOOLEAN
    /\ lastMsg \in Nat /\ live \subseteq Nat \ {NoMsg}
    /\ {list, result, returned, handed} \subseteq Seq(Nat \ {NoMsg})
    /\ acks \in Nat /\ acked \subseteq Nat \ {NoMsg}
    /\ outcome \in {"none", "value", "timeout", "ended", "cancelled", "raised"}

\* The native messages that are allocated are lastMsg and those of a batch that is being
\* converted: no call, whatever way it ends, leaks one, and no one is destroyed twice or used
\* after it was destroyed (nextMsg(), fetch() and the destructor).
MessagesOwned == live = ({lastMsg} \ {NoMsg}) \cup ToSet(list)

\* waitForDrainCompletion() passes a timeout of 0 or less on to the C client, which takes it for no
\* limit: such a call waits in one slice that does not end and looks for no cancellation, against
\* the documentation (QC_NatsSubscription.qpp:149).
Unlimited == call.op = "waitForDrainCompletion" /\ call.timeout <= 0

\* A cancellation ends a blocking call within one poll interval, whatever its timeout
\* (the slices of the wait loops; the manual promises "within about 500 ms").  The exception is
\* waitForDrainCompletion() without a positive timeout, which breaks that promise.
CancelLatency == ~Unlimited => late <= Interval

\* A call does not last longer than its timeout (next(): than the timeout and one interval, as a
\* skipped marker restarts its slice; not at all with 0 or less, which wait without end only in
\* nextMsg() and waitForDrainCompletion()), and gives up no earlier than that, although it
\* subtracts whole slices (remaining_ms of the wait loops).
TimeoutKept ==
    /\ call.timeout > 0 => elapsed <= call.timeout + (IF call.op = "next" THEN Interval ELSE 0)
    /\ call.timeout <= 0 /\ ~Infinite /\ ~Unlimited => elapsed = 0
    /\ outcome = "timeout" => elapsed >= call.timeout

\* Unless a conversion raised, every message that the C client handed out has been returned to
\* the caller, once and in order: no cancellation or timeout loses one (nextMsg() and fetch()).
ReturnedInOrder == pc = "idle" /\ ~failed => returned = [i \in 1..taken |-> i]

\* A call returns when it has a timeout and when it is cancelled (the wait loops end).  One of
\* waitForDrainCompletion() without a positive timeout returns when there is no drain to wait for,
\* and need not return, even if it is cancelled, as long as there is one.
CallReturns == Running /\ (IF Unlimited THEN sub # "draining" ELSE cancelled \/ ~Infinite) ~> ~Running

\* What the documentation shows for fetch() (QC_NatsSubscription.qpp:88-95): a call of ack() per
\* message of the batch acknowledges the batch.
FetchedAreAcked == handed # <<>> /\ acks >= Len(handed) => ToSet(handed) \subseteq acked

=============================================================================
