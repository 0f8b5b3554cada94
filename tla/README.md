# A TLA+ model of the Qore NATS module

`module-nats` gives Qore programs access to NATS through the C client library (nats.c):
a binary module in C++ (`src/src/`) that wraps the C client's objects, and three Qore
modules on top of it (`src/qlib/`): `NatsUtil`, with channel based subscriptions, and the
data provider modules.  Most of the C++ is one call of the C client per method.  What is
hard is where state of the module is shared between Qore threads, the C client's own
threads, and destructors.  This project models that: what happens in every order of the
threads' steps, and what remains to be freed, delivered or returned in the end.

1. [The system](#the-system) - the inventory
2. [The modules](#the-modules) - which module models what, and how
3. [The runs](#the-runs) - what TLC checks, with which bounds
4. [Fairness](#fairness)
5. [The proofs](#the-proofs)
6. [Where the code and its documentation differ](#where-the-code-and-its-documentation-differ)
7. [What is not modelled](#what-is-not-modelled)
8. [What could follow](#what-could-follow)

## The system

| Component | State | Operations | Threads, and what is hard |
|---|---|---|---|
| **Request/reply**: `QoreNatsConnection::request` (`QoreNatsConnection.cpp` 860-1007) | `reply_init_lock`, `reply_mux`, `reply_sub`, `reply_counter`; in the shared `ReplyMux` a mutex, a condition and the map of waiting requests; the closure of the reply callback, a heap allocated reference to the mux | `request`, `getReplyMux`, `replyHandler`, `replyComplete`, `~WaitingRequest` | any number of requesters and the delivery thread of the C client. First requests race for the one reply subscription; replies come early, late, twice or never; the deadline, a cancellation and a reply race; the connection goes while the handler runs |
| **Connection set-up and callbacks**: constructor, `connect`, `setupCallbacks`, `NatsCallbackContext` (63-195, 632-796) | the options, the context with its reference count and closures, the pointer to it, the registered handlers | constructor, `connect`, `drain`, `close`, destructor, the six handlers, `release` | the constructing and the destroying thread and the callback thread of the C client. Each step of the constructor can fail; the closed callback comes before, during or after the destructor |
| **Publish, subscribe, flush, statistics** (798-858, 1009-1583) | none of their own | one call of the C client each, or several for the connection's information; `flush` polls in slices | cancellation between slices; a failure between an allocation and its release |
| **Subscription**: `QoreNatsSubscription` | the subscription, `lastMsg` | `nextMsg`, `fetch`, `unsubscribe`, `drain`, `waitForDrainCompletion`, `ack`, `nak`, ... | sliced polling against a deadline and a cancellation; `lastMsg` owns a message that every call replaces; a batch of `fetch` that fails half way |
| **Channel subscription**: `NatsChannelSubscription`, `NatsClient::callbackLoop` | the subscription, the bounded channel, `stopping` with its mutex | `bgLoop`, `recv`, the iterator, `close`, `drain`, destructor | a background thread, consumers and closing threads. Blocking on a full channel, order and completeness of what is delivered, the end of the loop |
| **Sandbox dialer**: `NatsSandboxDialer` | `pending`, `initial` with their mutex | `connect`, `takeException`, `keepException` | the constructing thread and the C client's reconnect thread use it one after the other, and leave an exception in it; names resolve differently each time; sockets on failing paths |
| **Microservices**: `QoreNatsMicroService`, `QoreNatsMicroGroup` | the shared state of handler contexts and the done flag | constructor, `addEndpoint`, `serviceDone`, `requestHandler`, destructor | the done handler and the registration of a handler come in either order, on two threads; groups outlive the service object |
| **JetStream context**: `QoreNatsJetStream` | none, the state is in the server | publish, streams, consumers, pull and push subscribe | conversion of configurations in both directions; the arrays of a configuration on failing paths |
| **Key/value store and watcher** | the watcher | `get`, `put`, `update`, ...; `next` | sliced polling, with the entry that marks the end of the initial data |
| **`NatsChannelKVWatch`** | like the channel subscription | `bgLoop`, `recv`, `close` | as above |
| **Event providers** (four `*SubscribeEventDataProvider`) | `started`, `stopping`, `active`, the channel subscription | `observersReady`, `stopEvents`, the notification loop | start and stop in either order; one notification of the end |
| **Request data providers** | none | one call and two conversions each | - |
| **Use after fork**: `NatsCreatorProcess` | the creating process | a check in destructors | which calls a child makes on its parent's objects; the C client's lock at the time of the fork, and its exit handler |
| **URL and name helpers** | none | pure functions | corner cases of the split |

They interact as follows.  A `NatsClient` owns a connection; its channel subscriptions own
a subscription of that connection each, which ends when the connection is drained or
closed.  The event providers run a loop over a channel subscription.  A request of any
thread goes through the connection's one reply subscription.  The C client runs the message
handler of a subscription on a delivery thread, one message at a time, and the callbacks of
a connection on another thread; both call back into objects of this module, some of which
the module may by then have given up.  Destructors run on the thread that drops the last
reference, with no call on the object in progress.

What makes the components correct:

* request/reply: a reply goes to the request it answers, or is destroyed, once; a request
  gets a reply to itself or an error; it returns when it has reason to; nothing is left in
  the map; the mux and the closure live as long as the handler can run, and no longer.
* callbacks: the context lives as long as a callback can run, and is then freed.
* channel subscription: the consumer sees the messages in order and without gaps; closing
  ends the background thread; a consumer is not left waiting after the end.
* subscription, watcher, flush: a deadline is kept, a cancellation ends the call within a
  poll interval; no message is lost, leaked or destroyed twice.
* microservices: a handler context lives while a request can use it, and is released once.
* sandbox dialer: every connection is to a permitted address, every socket has an owner, a
  cancellation reaches the constructor and no later call.
* native objects: what a call allocates is released whatever fails; a child process neither
  releases what is its parent's nor waits for threads that it does not have.
* configurations: what is read, changed in one place and written back stays the same in
  the others.

`PROJECT.json` lists the hazards behind this by line, with the properties that cover them.

## The modules

| Module | Models |
|---|---|
| `RequestCall` | what `request()` promises its caller: the abstract specification |
| `RequestReply` | how it keeps the promise: requesters, reply map, reply subscription, delivery thread, connection |
| `MCRequestReply` | the symmetry sets of its instances |
| `RequestReplyProofs`, `RequestReplyRefinement` | its theorems: safety, progress, and that it implements `RequestCall` |
| `ConnectionCallbacks`, `ConnectionCallbacksProofs` | the callback context of a connection from the constructor to the last callback |
| `MessageStream` | what a channel subscription promises the one that reads its channel: the abstract specification |
| `ChannelSubscription`, `ChannelSubscriptionProofs` | `NatsChannelSubscription` with its producer, consumer and closing threads |
| `NatsSubscription`, `NatsSubscriptionProofs` | a `QoreNatsSubscription` and the blocking calls that poll in slices, with time |
| `MicroService`, `MicroServiceProofs` | a service, its groups and the contexts of its endpoint handlers |
| `SandboxDialer`, `SandboxDialerProofs` | the check of the URL and the `NatsSandboxDialer` on both of its threads |
| `JetStreamConfig` | the conversions of stream and consumer configurations, as operators |
| `NativeObjects`, `NativeObjectsProofs` | every call on every kind of native object, what it owns, and `fork()`; uses `JetStreamConfig` |

### RequestReply

A step is a critical section (of `reply_init_lock` or of the mutex of the mux) or one call
of the C client, so that everything that another thread can see in between is a state.

| State | Code |
|---|---|
| `init_lock`, `reply_mux`, `reply_counter` | the members of the same names; the lock is only held across a step while a subscription is set up |
| `sub`, `on_complete`, `closure` | per `ReplyMux`: the C client's subscription, whether `replyComplete` is registered for it, and the heap allocated `shared_ptr` that both callbacks get |
| `replies` | `ReplyMux::replies`, a function from tokens to a message or null |
| `pc`, `mux`, `token`, `reply`, `expired`, `cancelled`, `signalled`, `outcome` | per thread: its place in `request()`, its local variables, and the state of its wait on the condition |
| `conn`, `published`, `addr`, `net`, `handling` | the C client and the network: replies in flight and the one in the handler |
| `destroyed` | how often `natsMsg_Destroy` was called for a message |

`request()` is the chain `Begin`, `UseMux` or `Subscribe`/`SetOnComplete` (with their
failures), `Register` (the entry is in the map before anything is published), `Publish` or
`PublishFails`, the wait loop `TakeReply`/`Wait`/`TimeOut`/`Interrupted`, `Convert`, and
`Leave`, which is the destructor `~WaitingRequest()` and so a part of every way out.  The
wait is the standard one of a condition variable: `Wait` releases the mutex, `StoreReply`
puts the waiting threads in `signalled`.  `Cancellable` tells the two builds apart: with
`_QORE_HAS_CANCELLABLE_POLL` a waiter only wakes for a reason, without it the wait also ends
after every poll interval.  `replyHandler` is `StoreReply` or `DropReply`, `replyComplete`
is part of `Complete`.  Subjects are abstracted to the pair of a mux and a token.

`RequestCall` knows calls, identifiers and answers only.  `ImplementsRequestCall` maps a
request to a call that is `called` before `Publish`, `sent` until it has its result, and
idle from then on; the entry in the map, the locks and the handler are all invisible there.

### ConnectionCallbacks

`object` follows the object from `configureOptions` to its destruction, `wanted` are the
callbacks in the options, `step` counts the kinds that `setupCallbacks` has dealt with, in
its order, so that a failure can come between any two.  `context`, `refs`, `closures` and
`cb_ctx` are the context and the object's pointer to it; `RefForClosed`, `TakeBackRef`,
`ReleaseContext` and `ClosedReturns` are the places that take and give back references.
`posted`, `running` and `closed_cb` are the queue of the callback thread: the closed
callback is the last.  A failed constructor runs the destructor, from any step (`Destruct`).
A connection whose set-up was cancelled fails the constructor after the C client connected
(`ConnectReturns`): callbacks are then possible on an object that never came to be.

### ChannelSubscription

`loop` and `msg` are `bgLoop()` and the message in its hands; its steps are the look at
`stopping` under the mutex, `nextMsg()`, `chan.send()` and the `on_exit` block.  `call` holds
the threads in `close()` (or the destructor, which calls it) and `drain()`; the step that
sets `stopping` is apart from the calls it guards, as in the code, where the mutex is
released in between.  `nsub` tells how the subscription ended: `"ended"` for the reasons
that `nextMsg()` reports as no message (`NATS_INVALID_SUBSCRIPTION`,
`NATS_MAX_DELIVERED_MSGS`), `"lost"` for a closed connection, which it reports as an
exception.  An exception of `send()` leaves the loop as well: of a closed channel (`SendFails`)
or, as of a thread that is cancelled while it waits for room, any other (`SendRaises`); either
drops the message.  Messages are numbered in the order of arrival, which is all that the properties
look at.  `NextFails` is always possible: a cancelled thread, or a consumer that is too slow
for the C client.  Here `nextMsg()` is one step; `NatsSubscription` opens it.

`MessageStream` knows what arrived, what the reader can still get and what it got, and
whether the stream was cut behind a message.  `ImplementsMessageStream` maps to it what is in
the channel, in the hands of `bgLoop()` and in the subscription, in this order, which is what
`Deliverable` says; the threads, the size of the channel, and who stopped what are invisible
there.  A close, a lost connection and an error of `nextMsg()` or `send()` are all the same: a
cut.

### NatsSubscription

| State | Code |
|---|---|
| `lastMsg`, `object`, `sub`, `limit` | the members of `QoreNatsSubscription`, the C client's subscription and the limit of `autoUnsubscribe()` |
| `pc`, `call`, `remaining`, `effective` | the blocking call, and the locals `remaining_ms` and `effective_timeout` of its loop |
| `slice`, `elapsed`, `late` | clocks: since the slice began, since the call began (unless its wait has no limit), since the cancellation |
| `list`, `result` | the `natsMsgList` of `fetch()` that is being converted, and the Qore list |
| `live` | the native messages that are allocated, by number of arrival |
| `returned`, `handed`, `acks`, `acked` | what the caller got, ever and by the last call, and what it acknowledged of that |

Five calls have the same loop written out: `nextMsg()`, `fetch()`,
`waitForDrainCompletion()`, `QoreNatsConnection::flush()` and `QoreNatsKVWatcher::next()`.
They share `LoopTop` (look for a cancellation, compute the slice), `SliceEnds`
(`NATS_TIMEOUT`: subtract the slice, or give up) and `Fails`, and differ in how they
succeed: `NextMsg`, `Fetch` with `ConvertOne`, `Completes`, `WatcherNext` and `SkipMarker`,
which is the entry-less success that the watcher skips without subtracting anything.
Timeouts of 0 and -1 are among the inputs of all five, as no method refuses them: with 0
`nextMsg()` looks once, and with -1 it waits without end, in slices.  `fetch()`, `flush()` and
`next()` pass them on to the C client, which refuses them (`AtOnce`); `waitForDrainCompletion()`
does so, too, but there the C client takes them for no limit (`NoDeadline`): the first slice lasts
until the drain is over, and no cancellation is seen meanwhile (`Unlimited`).  Where five
copies of the same lines could have come to differ, one model shows what they agree in.
That the class is used by one thread at a time is an assumption of the class.

### MicroService

`handlers` and `done` are the members of the `MicroServiceState` that the service, its
groups and the done handler share; `dying` is the local vector that `serviceDone()` swaps
them into; `own` is the context that a constructor or an `addEndpoint()` has made and not
yet registered.  In between the C client may already deliver requests with it (`Request`),
and may already have called the done handler: `Register` then releases it at once.
`ServiceFails` leaves either nothing or, when monitoring endpoints had been added, a
service whose done handler still comes (`"partial"`).  `refs` counts the references to the
service and group objects: `AddGroup` takes one to the service, `Dropped` gives it back
with the last of the group, and the destructor of the service stops it (`Destructed`).
Contexts and groups are memory, and are used again after they were freed, so that a use
after a release would be seen as a use of something else.

### SandboxDialer

`ctor` is the place in the constructor or destructor.  The constructor checks its URLs one after
the other (`CheckURL`), those of the `servers` option first; one without a host passes
unchecked, and what the C client connects to for it is the dialer's to check.  `step`, `server`, `rest`, `count` and
`fd` are per thread the place and the locals of `connectIntern()` and `connectAddress()`;
`initial` and `pending` are the members of the dialer.  A name resolves to any sequence of
addresses that `ip_resolution_order` allows, afresh for each attempt: what `CheckURL` saw
may be gone.  `Cancelled` is the way out with an exception, which goes to the constructor
(`keepException()`) although the C client only sees an error and may go on to a server
that answers; `TakeException` then makes the constructor fail all the same.  `Free` is
after `natsConnection_Destroy()` has joined the reconnect thread.

### NativeObjects and JetStreamConfig

Most of the methods of the module have one shape: allocate arguments, call the C client,
convert the result, free both; for some, several times.  `Calls` lists them, by method, as
data: the kind of object, the arrays for the arguments, and the parts with what each
returns and whether its failure ends the call (`getConnectionInfo()` leaves out what it
cannot get).  `CallStep` runs any of them with a failure at any step.  `blocks` is the
memory that the call owns, `native` the objects that exist in the C client, and `held` the
handles in the wrapper objects of each process.

The calls on streams and consumers carry a configuration.  `stored` is what the server
has, `known` the hash that the script last got, and `wanted` the history of what it set.
The structure and the hash are functions on member names, sorted by what the code does
with them (`StreamMembers`, `ConsumerMembers`): numbers are copied in 64 bits, or cast to
an `int` or an enumeration, and times are multiplied or divided by the nanoseconds of a
millisecond.  `ConsumerInfoMembers` is smaller, as in the code.

A fork copies `held`, `closed`, the library's flag and its lock into the child, which has
no thread of the C client.  `Destroy` and `Close` ask `IsForkedChild`; without that the
native object goes, and its threads are joined by a process that does not have them
(`Joins`).  `RunExitHandlers` takes the library lock, which nobody gives back in the child,
unless the fork handler told it to end quickly.  The order of setting the flag (`Use`) and
opening the library (`Connect`) is in the code, and matters.

## The runs

| Run | Instance | Shows |
|---|---|---|
| `request_reply` | 2 threads, 2 muxes, 2 replies, 2 requests, with symmetry; polling build | `ReplyOwnership`, `EntriesAreRequests`, `HandlerHasMux`, `OneReplySubscription`, and that the protocol implements `RequestCall` |
| `request_reply_live` | 2 threads, 1 mux, 1 reply, 2 requests; cancellable build, where a lost wake-up would be for ever | `RequestEnds`, `RepliesDestroyed`, `ClosureReleased` |
| `connection_callbacks` | all 64 choices of callbacks, 2 events | `ContextInUse`, `RefsAreHolders`, `ContextFreed` |
| `channel_subscription` | 4 messages, channel of 2, 2 closing threads | `DeliveredInOrder`, `OneCallStops`, `CloseEndsLoop`, `LossReported`, `ConsumerReleased`, and that the channel implements `MessageStream` |
| `channel_drain`, `channel_ended`, `channel_close_after_drain` | 3 messages, channel of 1, 2 closing threads | three of the differences described below |
| `NatsSubscription` | poll interval 2, timeouts -1, 0 and 3, 3 messages, batches of 2 | `MessagesOwned`, `CancelLatency`, `TimeoutKept`, `ReturnedInOrder`, `CallReturns` |
| `FetchAck` | the same with 2 messages | the fourth difference |
| `MicroService` | 2 threads, 3 contexts, 2 groups | `HandlerContextExists`, `OneOwner`, `ObjectsKept`, `ReleasedInTheEnd` |
| `SandboxDialer` | 2 servers, one permitted; 4 addresses of both families, three permitted; 2 descriptors | `OnlyPermitted`, `SocketsOwned`, `ExceptionsReachConstructor`, `TimeShared` |
| `NativeObjects` | 7 members of all sorts with 2 values, 64 bits as 32 numbers, an `int` as 8, 3 nanoseconds per millisecond, 3 wrapper objects | `Owned`, `NoForeignWait`, `ConfigKept` |

Each module has one type invariant, `TypeOK`, besides.  Deadlock is not checked where the
bounds stop the instance, and a program that calls nothing any more is a legal end; the runs
of `NatsSubscription` do check it, as a call can always be made.

The bounds.

* `Thread`, `MaxRequests`: two requests overlap on two threads (the race for the
  subscription, one waiter woken by the reply of the other, a reply that arrives after its
  request is over and while the other waits) or follow each other on one thread (a late
  reply of the first during the second).  An instance with three requests (2.0 million
  states) passes as well; it is not a run, for its time.
* `Mux`: the second mux is needed when the set-up of the first failed after its
  subscription was made.  A third would need a third request.  A thread that finds no free
  mux fails as if the C client refused the subscription.
* `Message`: two replies are a reply and its duplicate, or the replies of both requests.
* `MaxEvents`: one callback that runs and one that waits behind it.
* `MaxMessages`, `BufferSize`: with four messages and a channel of two, the channel is
  full, one message is in hand and one is pending at the same time.
* `Caller`: two threads make all the pairs of `close()` and `drain()`.
* `Interval`, `Timeouts`: a timeout of one interval and a half has a full slice and a shorter
  one; the clocks stop when they have passed what a property compares them with.
* `MaxMessages` = 3 and `MaxBatch` = 2 in `NatsSubscription`: a message in `lastMsg`, a batch
  after it whose conversion can fail at either message.
* `Context`, `Group` in `MicroService`: a default endpoint and two that are added at once by
  two threads, after which freed memory is used again; two groups, so that the one that is
  dropped is not the last.
* `SandboxDialer`: three addresses that can be tried share a timeout of 5 with a minimum of 2
  each, so that the minimum takes over; two descriptors are one of the C client and one
  being opened.
* `NativeObjects`: of the values one fits into the narrow type and one does not, one fits as
  a time and one does not.  One configuration at a time is followed (of a stream or of a
  consumer), with at most two members set (`MaxMembers`): the conversions go member by
  member.  Three of the six kinds of objects exist at a time (`MaxObjects`), which is a chain
  of a connection, a context and what is made from it.  Calls are made until the process
  forks, the lock and the fork are followed while no configuration is stored, and the child
  makes connections of its own only if its parent had not used the C client, as the
  documentation demands: these keep apart what does not interact.

The proofs below remove these bounds for the safety properties and the refinements, and for the
steps of the liveness properties.

## Fairness

Weak fairness is assumed of the steps of a thread that has work to do: a request in
progress, the delivery thread in its handler, the callback thread, the background thread, a
call of `close()` or `drain()`, a destructor that has begun.  The operating system runs
them, the mutexes of the code are held for bounded times, and no step waits for another
process (an empty subscription is polled with a timeout, after which `nextMsg()` returns).
Nothing is assumed of the application, of the network or of the server: no call needs to
be made, no reply to come, no connection to close, and no deadline to pass.  Liveness is
therefore stated from the moment there is a reason: `RequestEnds` speaks of a request whose
reply is there, whose deadline has passed, or which was cancelled.  `ConsumerReleased` alone
speaks of a consumer that goes on reading, and says so in its premise.  The callbacks of a
Qore program are assumed to return (`CallbackReturns`).

Nothing is assumed to cancel a thread that waits for room in a channel (`SendRaises`).

In `NatsSubscription` time passes in a wait, the thread goes on, and the C client answers what it
answers at once: a timeout that it refuses, and the wait for a drain that is not under way.
Nothing makes it return anything else before the slice is over, and nothing ends a wait that
has no deadline.
In `MicroService` calls and request handlers return and the C client calls the done handler
when its endpoints are complete.  Strong fairness is assumed of the completion of an
endpoint (`EndpointComplete`): requests may occupy a draining endpoint again and again, but
it has been unsubscribed and the requests that it still has are finitely many.

## The proofs

Everything below is proved for every value of the constants, under the named assumptions
of the modules: the null value is none of the objects, bounds are naturals, the buffer of
a channel is not empty, there is a caller, the poll interval and the timeouts are positive,
the policy speaks of servers and addresses, a range of numbers is even (as those of two's
complement are).

**RequestReply.**  `TypeCorrect` carries, besides the types, that a request holds a mux
from the return of `getReplyMux` to the end of `Leave`, and a reply exactly while it converts
it (`PcInv`).  `EntriesCorrect` is inductive together with it, as `reply_counter` bounds
all tokens given out.  `HandlerSafe` and `OneSubscription` need `LockInv`: who holds
`reply_init_lock` is the only one that may have a subscription which is not yet the
connection's.  `OwnershipCorrect` is about the *set* of places that point to a reply,
which is not inductive as stated; `OwnInv` says it pointer by pointer: all pointers are to
replies that were handed over and not destroyed, no two to the same one, and each such
reply has a pointer.  That each step keeps them apart is a case per kind of pair.

`RequestCallImplemented` says that the specification implements `RequestCall`.  Two facts
strengthen the invariants for it: `TokenPhases` (a token is 0, new or published according
to the place in `request()`, and nobody else's) and `Addressed` (a stored reply has the
address of the entry it is stored in).  Each step is then a step of the call or hidden:
`Begin` is `Call`, the three failures before publication are `Refuse`, `Publish` is `Send`,
`TimeOut`, `Interrupted` and `Convert` are `Finish`, `Respond` is `Answer`.

`WakeupsReach` is the classical hazard of a condition variable: a thread that waits while its
reply is stored has been signalled.  It is inductive with `EntriesAreRequests`, as a broadcast
reaches all threads that wait with the mux.  With it a request that has reason to return is
always able to, and `WaitsEnd` and `RequestsEnd` follow the chain from the wait over `Convert`
and `Leave`.  In the cancellable build a cancelled thread may be woken by the broadcast for
another request, look, and wait again; that happens once per reply, and `CancelledRequestsEnd`
counts the replies that are still to be handled, of which it assumes a finite number.  `RepliesGo` follows a reply from place to place:
handler, map, hands of a request, and the two ways in which it is destroyed without being
returned (`Leave` and `DropReply`).  For `ClosureReleased`, `ClosuresDue` says that once the
connection is off the end of its reply subscription is due (`ClosureInv` carries it: a mux that
was once the connection's keeps its completion callback), and `ClosureComesToEnd` that each
delivery brings it nearer.

**ConnectionCallbacks.**  `ContextInUse` and `RefsAreHolders` follow from `IInv`, whose
parts say what the constructor has set up at each point of its life (`SetUp`), that without
callbacks there is nothing (`NoCallbacks`), in which order the callbacks come (`Posted`) and
that each holder of a reference has a live context with the closures of its handlers
(`HoldersHold`).  The step that needs the most of it is `ReleaseContext`: the object gives
its reference up at any time, and the context is freed unless the closed callback is due.
`NothingStays` adds that no closure outlives it, and `ContextComesToEnd` that every step of the
callback thread after the destructor brings the context nearer to its end.

**ChannelSubscription.**  `OrderCorrect` is about concatenated sequences; `Positions` says
the same by index (the `i`-th message in the buffer is number `Len(received) + i`, and so
on), which each step changes in one place.  `OneCallCorrect` follows from the fact that no
call is under way before `stopping` is set.

`MessageStreamImplemented` takes two facts more: the consumer knows the end only of a closed and
empty channel (`EndIsFinal`), and the steps map: `NextMsg` and `Send` move a message within
`Deliverable` and are hidden, `Arrive` is `Accept` or `Ignore`, `Receive` is `Read`,
`ReceiveNothing` is `End`, and everything that stops the stream is `Cut` or hidden, by the part of
`Deliverable` that it takes away.  `CloseIsDone` puts two chains together: the call that has set
`stopping` closes the channel, after which `bgLoop()` cannot be blocked and leaves its loop.
`ConsumerComesToEnd` counts what is left to do when the subscription stops: messages that
are still in it do not count, but for the one that `bgLoop()` may be asking for: it is the last,
and needs room in the channel that only the consumer makes.

**NatsSubscription.**  `CancelLatency` and `TimeoutKept` need a relation of the clocks to the
locals (`Times`): a slice is never longer than the interval (`Late`), and what has elapsed
is, up to the slice that is running, what has been subtracted from the timeout; a skipped
marker adds one slice, once, because there is one marker (`Elapsed`).  A timeout of 0 or less is
waited for in no slice (`Untimed`).  The wait for a drain without a limit is excepted in `Late`
as in `CancelLatency`: there the clock of the cancellation goes on.  For the messages,
`Listed` says that the list of a batch is the last part of what was taken and that
`result` is the part before it; with `MessagesOwned` and the order of `returned` (`InOrder`)
it is inductive.  A conversion that raises is the only way in which messages are taken and
not returned, and the theorem says so.

`CallComesToEnd` has a measure of the steps that are left (`StepsLeft`): the slices that the rest of
the timeout takes, the ticks of the one that runs, and the messages of a batch.  The skipped marker
of the watcher, which does not shorten the timeout, is a slice that is paid for in advance.  Each
step of the thread or the clock lowers it and nobody else's step raises it; and always one of the
two, or the C client's answer, can go on.  A wait without a limit is no case of it, except when
there is no drain to wait for.

**MicroService.**  `Stages` is the order of events: endpoints are active only in a service that
runs or is stopping, `done` is set when it has completed, `dying` is filled after that, and
the context that a call has made is not active before the C client's call.  With it
`OneOwner` is inductive, and so is `HandlerContextExists`: when contexts are released, no
endpoint is active any more, or theirs never was.  `ObjectsKept`, and that no count is
negative, are about numbers: `Counts` says that each reference count is the cardinality of
a set of holders (calls, the script, groups that live), which is finite however many
threads there are, and each step adds or removes one; `Early` says that nobody has the
service before its constructor returns.

`NothingLeft` needs only that nothing is registered after `done` (`Settled`).
`EndpointsComplete` is where strong fairness is used: an endpoint that is busy again and again is
completed all the same.  In `ContextsReleased` each context that is left when the done handler has
run is in one of two places, the vector of `serviceDone()` or the hands of the call that made it,
and leaves either.

**SandboxDialer.**  The two threads are never in the dialer at the same time: the reconnect
thread runs while the connection is open, when the creating thread has left (`Stages`).
Sockets and the place of an exception (`Exceptions`) follow from that.  `TimeShared` needs
multiplication: what has been spent is at most the number of addresses tried times the
share of each (`Waited`).

**NativeObjects.**  For `NoForeignWait`, `Processes` says that a lock is held where its threads
are, or in a child that ends quickly; the flag is set before the library can be open, so
that no fork falls between.  `Owned` needs that every call in the tables is well formed
(`CallsWellFormed`, a lemma per table) and what each place in a call owns.  For
`ConfigKept`, `Config` relates `stored` to `wanted` and `Pending` the hash of a call to both;
`RoundTrip` is the arithmetic: the information gives a value that fits as the hash had it.

**Progress.**  The prover has no rules for `ENABLED`, and so none for `WF_` and `SF_`.  The
theorems about what must happen in the end therefore have fairness as a hypothesis in which the
guard is written out: `LoopRuns` is "again and again `bgLoop()` cannot go on, or it takes a step",
which is weak fairness of `Loop` when `LoopReady` is the condition in which `Loop` can be taken.
The lemmas `FairLoop`, `FairCalls`, `FairCode`, ... prove just that from `LoopReady => ENABLED
<<Loop>>_vars` and its like, which TLC confirms when it is given them as invariants of the same
instances (they are not properties of the runs, as they say nothing about the code).  Without any one of
the hypotheses on fairness the proofs fail, as they should.

Four of the hypotheses speak of whoever is in charge, where `FairSpec` speaks of each thread:
`CallsRun` (the call that is under way), `HandlerRuns` and `RequestRuns` (who has a reply),
`OwnerRuns` (who has made a context).  They follow from it because there is only one at a time and
it stays the same until it has taken its step: by `OneCallStops`, `ReplyOwnership` and `OneOwner`.

From these, `RepliesDestroyed`, `CloseEndsLoop` and `LossReported` are proved as the runs check
them, and `RequestEnds` for the build without a cancellable poll, where the run has the other one;
`WaitsEnd` is all of it but the cancellation, for both builds.  The others need an induction over a number of
steps that is not bounded beforehand, and the induction theorem cannot be used with temporal
formulas here.  What is proved of them is each step: from any number of steps left the
system comes to a smaller number, or to the end.

**What is only model-checked.**  That the steps add up: the last induction over the number of
steps for `ContextFreed`, `ConsumerReleased`, `CallReturns`, for the second part of
`ClosureReleased`, and for a cancelled request in the cancellable build; for `ReleasedInTheEnd`,
that finitely many endpoints which are completed one by one are all completed.  And that the
guards in the hypotheses on fairness imply the `ENABLED` of their actions, and that fairness per
thread gives that of whoever is in charge.
Every invariant, action property and refinement of the passing runs is proved.

## Where the code and its documentation differ

Four runs state what a comment or the documentation says, and TLC shows a behaviour of the
code that does not do it.

* `channel_drain`: `drain()` "processes pending messages then closes"
  (`NatsChannelSubscription.qc` 144).  It sets `stopping` first, `bgLoop()` leaves its loop at
  the next look at it and closes the channel; what is pending is never asked for.
* `channel_ended`: `bgLoop()` expects an exception when the "subscription has been
  unsubscribed or is invalid" (197).  `nextMsg()` returns `NOTHING` for that
  (`QoreNatsSubscription.cpp` 98), as after a timeout, so that after a drain of the
  connection or at the limit of `autoUnsubscribe()` the loop goes on polling, and the
  channel's readers wait for ever.
* `channel_close_after_drain`: `close()` "closes the subscription and channel" (123).  After
  a `drain()` it returns at once and leaves the channel to the `on_exit` of `bgLoop()`, which
  is not reached while `send()` blocks on a full channel that nobody reads.
* `FetchAck`: the documentation of `fetch()` (`QC_NatsSubscription.qpp` 89) acknowledges a
  batch with one `ack()` per message.  `ack()` uses `lastMsg` (`QoreNatsSubscription.cpp`
  277), which is the last message of the batch: that one is acknowledged each time, and the
  others never.

The properties that hold are stated around these: `CloseEndsLoop` is about a `close()` that
comes first, `LossReported` and `ConsumerReleased` about a lost connection or a stop.

Others were met on the way and have no run of their own:

* `waitForDrainCompletion()` with a timeout of 0 or -1, which it does not refuse
  (`QC_NatsSubscription.qpp` 160, `QoreNatsSubscription.cpp` 205), waits for the drain without a
  limit and in one slice, so that a cancellation does not end it; the manual says that "when the
  thread is cancelled [...] the call ends within about 500 ms" (`QC_NatsSubscription.qpp` 149),
  and an infinite timeout is what `nextMsg()` takes -1 for.  The model has this.  `CancelLatency`,
  `TimeoutKept` and `CallReturns` state it as their exception (`Unlimited`); TLC finds
  `CancelLatency` and `CallReturns` violated without it.
* `consumerInfoToHash()` gives `AckFloor.Consumer` as `ack_pending`
  (`QoreNatsJetStream.cpp` 727), which is documented as the number of messages that wait for
  an acknowledgement (`NatsJetStreamDefs.qc` 524).  The values of results are not modelled.
* The hash of a consumer's information lacks `opt_start_seq`, `back_off` and
  `filter_subjects`, which its type has (`NatsJetStreamDefs.qc` 505).  A script that writes
  back what it read loses them.  `ConfigKept` speaks of the members that the information
  has, `InfoMembers`.
* `ConfigKept` excludes values that do not fit: a time that overflows as nanoseconds, a
  number that is cast to an `int`.  The overflow of the multiplication, undefined in C++, is
  modelled as the wrapping that the compilers of the supported platforms produce.
* An exception of a reconnect thread that is cancelled between the return of
  `natsConnection_Connect()` and `takeException()` goes to the constructor of a connection
  that was made, and fails it (`NatsHelper.cpp` 397, `NatsHelper.h` 107).  The model has this;
  the comments do not exclude it.
* In a child process the destructor of `NatsChannelSubscription` calls `unsubscribe()`, which,
  unlike the destructors of the native objects, does not look at the creating process.
* Without the fork handler of Qore 3.0 (`_QORE_HAS_FORK_CHILD_QUICK_EXIT`) the child may wait
  in the exit handler; the model is of the build that has it.

## What is not modelled

* The C client, Qore's `Channel` and the network are external: what the modules assume of
  them is what their callers in `src/` rely on, said at the head of each module.  That the C
  client drops messages of a slow consumer is an error of `nextMsg()` here, not a gap.
* What becomes of the members of a result other than a configuration; of publishing options
  and of subscription options, only that they are given or refused.
* Two threads that use one `NatsSubscription` at once: `lastMsg` has no lock, and the class does
  not claim to be safe for it.
* `NatsChannelKVWatch`: its code is that of `NatsChannelSubscription` without `drain()`, and
  each of its behaviours is one of `ChannelSubscription`, so that the safety properties there
  carry over; it has no module of its own.
* The event providers: three flags around a loop over the iterator of a channel subscription.
  The order of the calls that their framework makes is not in the repository.
* The request data providers: each converts a record, makes one call and converts its result.
* The text of a URL: its host is given to `CheckURL` as a name, or as `None` if it has none.
* A channel subscription with a buffer of size 0 (a rendezvous), and what Qore does with
  the members of an object that is deleted explicitly while its background thread runs: the
  destructor is a caller of `close()` here.
* What each option of a connection sets in the C client; only that it can fail.
* Components marked `not_modelled` in `PROJECT.json`, for the reasons given there.

## What could follow

The plan of this project was, in its order: requests, connection callbacks and channel
subscriptions; microservices; the sandbox dialer; the subscription with its polling loops
and the watcher; fork; the conversions of configurations.  All of these are done.  Left are

* the event providers, composed with `ChannelSubscription`: start, stop and the notification
  of the end, once it is known which calls their framework makes at the same time;
* the split of a URL into host and port (`parse_nats_url()`) against a reference definition.
