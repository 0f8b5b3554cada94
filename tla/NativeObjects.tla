---------------------------- MODULE NativeObjects ----------------------------
(***************************************************************************)
(* The native objects of the C client that wrapper objects of Qore code    *)
(* hold (connection, JetStream context, subscription, key/value store,     *)
(* watcher, microservice), the calls on them, and fork().                  *)
(*                                                                         *)
(* A call allocates its arguments, calls the C client one or more times,   *)
(* and converts each result, which is a block that the call must free, or  *)
(* a native object, which goes to a new wrapper object.  Every step can    *)
(* fail.  What a call owns is followed for all of them; the calls that     *)
(* read and write configurations also for what becomes of its members.     *)
(*                                                                         *)
(* A child process gets a copy of the wrapper objects, but none of the     *)
(* threads of the C client: it abandons the native objects of its parent   *)
(* (NatsCreatorProcess), and ends without the library's exit handler       *)
(* (nats-module.cpp).  The calls are followed until the process forks.     *)
(***************************************************************************)
EXTENDS JetStreamConfig, Sequences, FiniteSets

CONSTANTS
    Touched,    \* the members that scripts set
    Values,     \* and to what
    MaxMembers, \* bound: members that a script sets
    MaxObjects  \* bound: wrapper objects of a process

ASSUME ValuesAssumption == Values \subseteq Int

Process == {"parent", "child"}
Kind == {"connection", "jetstream", "subscription", "store", "watcher", "service"}
Object == Process \X Kind                       \* one of each kind made by each process
Maker(o) == o[1]
Entity == {"stream", "consumer"}

VARIABLES
    life,       \* each process
    library,    \* nats_library_opened and the C client library: marked, then open; the child's can be its parent's
    locked,     \* the processes in whose memory the library lock is held
    quick,      \* the child ends without running exit handlers
    held,       \* each process: the native objects that its wrapper objects refer to
    native,     \* the native objects that exist
    closed,     \* the wrapper objects whose connection was closed, with their process
    call,       \* the call of the script's thread in the parent
    blocks,     \* the memory blocks that it owns
    stored,     \* the configuration that the server has, of a stream or a consumer
    known,      \* the hash that the script got of it
    wanted      \* what the script set, member by member (history)

processVars == <<life, library, locked, quick>>
objectVars == <<held, native, closed>>
callVars == <<call, blocks>>
configVars == <<stored, known, wanted>>
vars == <<processVars, objectVars, callVars, configVars>>

NoHash == <<>>
NoConfig == [entity |-> "none", config |-> NoHash]
NothingKnown == [entity |-> "none", hash |-> NoHash]
NoCall == [at |-> "none", arguments |-> {}, parts |-> <<>>, hash |-> NoHash, change |-> NoHash]

Init ==
    /\ life = [p \in Process |-> IF p = "parent" THEN "running" ELSE "unborn"]
    /\ library = [p \in Process |-> "unused"]
    /\ locked = {} /\ quick = FALSE
    /\ held = [p \in Process |-> {}] /\ native = {} /\ closed = {}
    /\ call = NoCall /\ blocks = {}
    /\ stored = NoConfig /\ known = NothingKnown /\ wanted = NoHash

(***************************************************************************)
(* The calls: the kind of object they are made on, the blocks allocated    *)
(* for their arguments, and their parts: a part is a call of the C client  *)
(* with its result, and says whether its failure ends the call or the part *)
(* is left out.                                                            *)
(***************************************************************************)

Part(result, failure) == [result |-> result, failure |-> failure]
Value == Part("value", "ends")
Block == Part("block", "ends")
New(kind) == Part(kind, "ends")
Call(kind, arguments, parts) == [on |-> kind, arguments |-> arguments, parts |-> parts]
Simple(kind, part) == Call(kind, {}, <<part>>)

StreamCalls ==
    [addStream     |-> Call("jetstream", {"Subjects"}, <<Part("stream", "ends")>>),
     updateStream  |-> Call("jetstream", {"Subjects"}, <<Part("stream", "ends")>>),
     deleteStream  |-> Simple("jetstream", Part("deleted", "ends")),
     getStreamInfo |-> Simple("jetstream", Part("stream", "ends")),
     purgeStream   |-> Simple("jetstream", Value)]

ConsumerCalls ==
    [addConsumer     |-> Call("jetstream", {"BackOff", "FilterSubjects"}, <<Part("consumer", "ends")>>),
     updateConsumer  |-> Call("jetstream", {"BackOff", "FilterSubjects"}, <<Part("consumer", "ends")>>),
     deleteConsumer  |-> Simple("jetstream", Part("deleted", "ends")),
     getConsumerInfo |-> Simple("jetstream", Part("consumer", "ends"))]

PublishCalls ==
    [publish            |-> Simple("jetstream", Block),
     subscribe          |-> Simple("jetstream", New("subscription")),
     pullSubscribe      |-> Simple("jetstream", New("subscription")),
     publishWithOptions |-> Simple("jetstream", Block)]

ListCalls ==
    [name \in {"getAccountInfo", "listStreams", "listStreamNames"} |-> Simple("jetstream", Block)]

ListConsumerCalls ==
    [name \in {"listConsumers", "listConsumerNames"} |-> Simple("jetstream", Block)]

MessageCalls ==
    [getMsg     |-> Simple("jetstream", Block),
     getLastMsg |-> Simple("jetstream", Block),
     deleteMsg  |-> Simple("jetstream", Value),
     eraseMsg   |-> Simple("jetstream", Value)]

OptionCalls ==
    [subscribeWithOptions     |-> Simple("jetstream", New("subscription")),
     pullSubscribeWithOptions |-> Simple("jetstream", New("subscription"))]

AsyncCalls ==
    [pauseConsumer        |-> Simple("jetstream", Block),
     publishAsync         |-> Simple("jetstream", Value),
     publishAsyncComplete |-> Simple("jetstream", Value)]

BucketCalls ==
    [keyValue       |-> Simple("jetstream", New("store")),
     createKeyValue |-> Simple("jetstream", New("store")),
     deleteKeyValue |-> Simple("jetstream", Value)]

StoreCalls ==
    [name \in {"put", "putString", "create", "update", "get", "del", "purge"} |->
        Simple("store", IF name = "get" THEN Block ELSE Value)]

StoreListCalls ==
    [name \in {"keys", "history", "status"} |-> Simple("store", Block)]

WatchCalls ==
    [name \in {"watch", "watchMulti", "watchAll"} |-> Simple("store", New("watcher"))]

ConnectionCalls ==
    [subscribe      |-> Simple("connection", New("subscription")),
     queueSubscribe |-> Simple("connection", New("subscription")),
     jetStream      |-> Simple("connection", New("jetstream"))]

\* publishMsg(): the message is made, gets its headers and is published, which can fail.
MessagesPublished ==
    [publish    |-> Simple("connection", Value),
     publishMsg |-> Simple("connection", Block)]

Getters ==
    [name \in {"getConnectedUrl", "getServerId", "getClientId", "getClientIp", "getRtt", "getLocalIpAndPort"} |->
        Simple("connection", IF name \in {"getClientIp", "getLocalIpAndPort"} THEN Block ELSE Value)]

\* getStats() destroys the statistics before it looks at the status of reading them.
StatisticsCalls ==
    [getStats             |-> Call("connection", {}, <<Block>>),
     getServers           |-> Simple("connection", Block),
     getDiscoveredServers |-> Simple("connection", Block),
     reconnect            |-> Simple("connection", Value)]

\* getConnectionInfo(): URL, server and client id, client IP, round trip time, local IP, servers,
\* discovered servers, and getStats().
InfoCalls ==
    LET skipped(result) == Part(result, "skipped")
    IN  [getConnectionInfo |-> Call("connection", {},
            <<skipped("value"), skipped("block"), skipped("value"), skipped("block"),
              skipped("block"), skipped("block"), Block>>)]

ServiceCalls ==
    [createMicroService |-> Simple("connection", New("service")),
     getInfo            |-> Simple("service", Block)]

ServiceStatistics == [getStats |-> Simple("service", Block)]

SubscriptionCalls ==
    [name \in {"getPending", "getDelivered", "getDropped", "getSubscriptionStats", "setPendingLimits"} |->
        Simple("subscription", Value)]

MetadataCalls == [getMetadata |-> Simple("subscription", Block)]

Calls == UNION {Range(table) : table \in
    {StreamCalls, ConsumerCalls, PublishCalls, ListCalls, ListConsumerCalls, MessageCalls, OptionCalls,
     AsyncCalls, BucketCalls, StoreCalls, StoreListCalls, WatchCalls, ConnectionCalls, MessagesPublished,
     Getters, StatisticsCalls, InfoCalls, ServiceCalls, ServiceStatistics, SubscriptionCalls, MetadataCalls}}

(***************************************************************************)
(* A call.                                                                 *)
(***************************************************************************)

InCall == call.at # "none"
Result == call.parts[1].result
Now(at) == [call EXCEPT !.at = at]

\* The handle of the wrapper object is valid, and no configuration is passed.
Begin(c) ==
    /\ ~InCall /\ life["parent"] = "running" /\ life["child"] = "unborn"
    /\ \E o \in held["parent"] : o[2] = c.on
    /\ c.arguments = {}
    /\ call' = [at |-> "client", arguments |-> {}, parts |-> c.parts, hash |-> NoHash, change |-> NoHash]
    /\ UNCHANGED <<processVars, objectVars, blocks, configVars>>

\* The hash with the members of both, those of new where both have them.
Over(new, hash) ==
    [member \in DOMAIN new \cup DOMAIN hash |-> IF member \in DOMAIN new THEN new[member] ELSE hash[member]]

\* The script sets one member: in a new configuration, or in the one that it read.
Configure(c, member, n) ==
    LET entity == c.parts[1].result
        change == [m \in {member} |-> n]
    IN  /\ ~InCall /\ life["parent"] = "running" /\ life["child"] = "unborn"
        /\ \E o \in held["parent"] : o[2] = c.on
        /\ c.arguments # {}
        /\ \E sort \in Sort : member \in Members(entity)[sort]
        /\ \/ stored = NoConfig
           \/ /\ stored.entity = entity /\ known.entity = entity
              /\ Cardinality(DOMAIN wanted \cup {member}) <= MaxMembers
        /\ call' = [at |-> "arguments", arguments |-> c.arguments, parts |-> c.parts,
                    hash |-> Over(change, known.hash), change |-> change]
        /\ UNCHANGED <<processVars, objectVars, blocks, configVars>>

\* An array that the hash calls for is allocated, in the order of the code or not at all.
Argument(b) ==
    /\ InCall /\ call.at = "arguments" /\ b \in call.arguments
    /\ call' = [call EXCEPT !.arguments = @ \ {b}]
    /\ blocks' = blocks \cup {b}
    /\ UNCHANGED <<processVars, objectVars, configVars>>

Converted ==
    /\ InCall /\ call.at = "arguments"
    /\ call' = Now("client")
    /\ UNCHANGED <<processVars, objectVars, blocks, configVars>>

\* The conversion fails half way, or the call is cancelled before it.
ArgumentsFreed == {}
KeepsFirst == blocks                            \* mutant: the arrays are freed after the C client's call only
BlocksAfterRaise == ArgumentsFreed

ArgumentRaises ==
    /\ InCall /\ call.at = "arguments"
    /\ call' = NoCall
    /\ blocks' = BlocksAfterRaise
    /\ UNCHANGED <<processVars, objectVars, configVars>>

\* The parts that follow.
Following(parts) ==
    IF Len(parts) = 1 THEN NoCall ELSE [call EXCEPT !.at = "client", !.parts = Tail(parts)]
FollowingAlways(parts) == [call EXCEPT !.at = "client", !.parts = Tail(parts)]  \* mutant: the call does not return
Rest(parts) == Following(parts)

\* The C client's call returned: the arguments are freed before the status is looked at.
ClientFails ==
    /\ InCall /\ call.at = "client"
    /\ blocks' = {}
    /\ call' = IF call.parts[1].failure = "skipped" THEN Rest(call.parts) ELSE NoCall
    /\ UNCHANGED <<processVars, objectVars, configVars>>

ReturnsValue ==
    /\ InCall /\ call.at = "client" /\ Result = "value"
    /\ blocks' = {}
    /\ call' = Rest(call.parts)
    /\ UNCHANGED <<processVars, objectVars, configVars>>

ReturnsDeleted ==
    /\ InCall /\ call.at = "client" /\ Result = "deleted"
    /\ blocks' = {} /\ call' = NoCall
    /\ stored' = NoConfig /\ known' = NothingKnown /\ wanted' = NoHash
    /\ UNCHANGED <<processVars, objectVars>>

\* new QoreNatsSubscription(sub) and the like.
ReturnsObject(kind) ==
    /\ InCall /\ call.at = "client" /\ Result = kind
    /\ <<"parent", kind>> \notin native /\ Cardinality(held["parent"]) < MaxObjects
    /\ native' = native \cup {<<"parent", kind>>}
    /\ held' = [held EXCEPT !["parent"] = @ \cup {<<"parent", kind>>}]
    /\ call' = NoCall
    /\ UNCHANGED <<processVars, closed, blocks, configVars>>

ReturnsBlock ==
    /\ InCall /\ call.at = "client" /\ Result = "block"
    /\ blocks' = {"result"}
    /\ call' = Now("result")
    /\ UNCHANGED <<processVars, objectVars, configVars>>

\* The server stores a configuration that it is given, and returns information with it.
ReturnsInfo ==
    /\ InCall /\ call.at = "client" /\ Result \in Entity
    /\ IF call.hash = NoHash
       THEN stored.entity = Result /\ UNCHANGED <<stored, wanted>>
       ELSE /\ stored' = [entity |-> Result, config |-> Configured(Result, call.hash)]
            /\ wanted' = Over(call.change, wanted)
    /\ blocks' = {"result"}
    /\ call' = Now("result")
    /\ known' = NothingKnown
    /\ UNCHANGED <<processVars, objectVars>>

\* The result is converted; the block is freed whether or not that raises an exception.
ResultConverted ==
    /\ InCall /\ call.at = "result"
    /\ blocks' = {}
    /\ call' = Rest(call.parts)
    /\ known' = IF Result \in Entity
                THEN [entity |-> Result, hash |-> InfoHash(Result, stored.config)]
                ELSE known
    /\ UNCHANGED <<processVars, objectVars, stored, wanted>>

ResultRaises ==
    /\ InCall /\ call.at = "result"
    /\ blocks' = {} /\ call' = NoCall
    /\ UNCHANGED <<processVars, objectVars, configVars>>

(***************************************************************************)
(* Connections and the destruction of objects.                             *)
(***************************************************************************)

\* The child can use a C client that its parent did not use.
MayUse(p) == life[p] = "running" /\ library[p] \in {"unused", "marked", "open"}

\* nats_library_used(), before the options open the library.
Use(p) ==
    /\ MayUse(p) /\ library[p] = "unused" /\ ~InCall
    /\ library' = [library EXCEPT ![p] = "marked"]
    /\ UNCHANGED <<life, locked, quick, objectVars, callVars, configVars>>

\* The constructor of QoreNatsConnection: the library is open, and the connection is made or not.
Connect(p) ==
    /\ MayUse(p) /\ library[p] \in {"marked", "open"} /\ ~InCall
    /\ library' = [library EXCEPT ![p] = "open"]
    /\ \/ /\ <<p, "connection">> \notin native /\ Cardinality(held[p]) < MaxObjects
          /\ native' = native \cup {<<p, "connection">>}
          /\ held' = [held EXCEPT ![p] = @ \cup {<<p, "connection">>}]
       \/ UNCHANGED <<native, held>>
    /\ UNCHANGED <<life, locked, quick, closed, callVars, configVars>>

\* NatsCreatorProcess.
IsForkedChild(p, o) == Maker(o) # p

\* The C client joins the threads of the object, which the process that made it has.
Joins(p, o) == life' = IF Maker(o) = p THEN life ELSE [life EXCEPT ![p] = "waiting"]

\* The destructors, when the script deletes the object or ends.
Destroy(p, o) ==
    /\ life[p] \in {"running", "ending"} /\ o \in held[p] /\ ~InCall
    /\ held' = [held EXCEPT ![p] = @ \ {o}]
    /\ closed' = closed \ {<<p, o>>}
    /\ IF IsForkedChild(p, o)
       THEN UNCHANGED <<native, life>>
       ELSE native' = native \ {o} /\ Joins(p, o)
    /\ UNCHANGED <<library, locked, quick, callVars, configVars>>

\* close(): in the child, the wrapper object forgets the connection.
Close(p, o) ==
    /\ life[p] = "running" /\ o \in held[p] /\ o[2] = "connection" /\ <<p, o>> \notin closed /\ ~InCall
    /\ closed' = closed \cup {<<p, o>>}
    /\ IF IsForkedChild(p, o) THEN UNCHANGED life ELSE Joins(p, o)
    /\ UNCHANGED <<library, locked, quick, held, native, callVars, configVars>>

(***************************************************************************)
(* fork() and the end of a process.                                        *)
(***************************************************************************)

\* The threads of the C client are in the process that opened the library; each use takes its lock.
\* (Bound: the lock and the fork are followed while no configuration is stored.)
HasThreads(p) == library[p] \in {"marked", "open"}

Lock(p) ==
    /\ life[p] = "running" /\ HasThreads(p) /\ p \notin locked
    /\ ~InCall /\ stored = NoConfig
    /\ locked' = locked \cup {p}
    /\ UNCHANGED <<life, library, quick, objectVars, callVars, configVars>>

Unlock(p) ==
    /\ HasThreads(p) /\ p \in locked /\ ~InCall
    /\ locked' = locked \ {p}
    /\ UNCHANGED <<life, library, quick, objectVars, callVars, configVars>>

\* nats_fork_child() looks at nats_library_opened.
LibraryOpened == library["parent"] # "unused"
LibraryReady == library["parent"] = "open"      \* mutant: the flag is set when the library is open
EndsQuickly == LibraryOpened

\* The child is a copy of the memory of the parent.
Fork ==
    /\ life["parent"] = "running" /\ life["child"] = "unborn"
    /\ ~InCall /\ stored = NoConfig
    /\ life' = [life EXCEPT !["child"] = "running"]
    /\ quick' = EndsQuickly
    /\ library' = [library EXCEPT !["child"] = IF library["parent"] = "unused" THEN "unused" ELSE "inherited"]
    /\ locked' = IF "parent" \in locked THEN Process ELSE {}
    /\ held' = [held EXCEPT !["child"] = held["parent"]]
    /\ closed' = closed \cup {<<"child", c[2]>> : c \in closed}
    /\ UNCHANGED <<native, callVars, configVars>>

ScriptEnds(p) ==
    /\ life[p] = "running" /\ ~InCall
    /\ life' = [life EXCEPT ![p] = "ending"]
    /\ UNCHANGED <<library, locked, quick, objectVars, callVars, configVars>>

\* nats_module_delete(): the process that loaded the module closes the library.
DeleteModule(p) ==
    /\ life[p] = "ending" /\ held[p] = {}
    /\ life' = [life EXCEPT ![p] = "exiting"]
    /\ library' = IF p = "parent" /\ HasThreads(p) THEN [library EXCEPT ![p] = "closed"] ELSE library
    /\ locked' = IF p = "parent" THEN locked \ {p} ELSE locked
    /\ UNCHANGED <<quick, objectVars, callVars, configVars>>

\* The C client's exit handler takes the library lock, which a thread of this process gives back,
\* or nobody; the child that must end quickly runs no exit handlers.
RunExitHandlers(p) ==
    /\ life[p] = "exiting"
    /\ ~(p \in locked /\ HasThreads(p))
    /\ life' = [life EXCEPT ![p] = IF p \in locked /\ ~(p = "child" /\ quick) THEN "waiting" ELSE "ended"]
    /\ UNCHANGED <<library, locked, quick, objectVars, callVars, configVars>>

-----------------------------------------------------------------------------

CallStep ==
    \/ \E c \in Calls : Begin(c)
    \/ \E c \in Calls, member \in Touched, n \in Values : Configure(c, member, n)
    \/ \E b \in {"Subjects", "BackOff", "FilterSubjects"} : Argument(b)
    \/ Converted \/ ArgumentRaises
    \/ ClientFails \/ ReturnsValue \/ ReturnsDeleted \/ ReturnsBlock \/ ReturnsInfo
    \/ \E kind \in Kind : ReturnsObject(kind)
    \/ ResultConverted \/ ResultRaises

ProcessStep(p) ==
    \/ Use(p) \/ Connect(p) \/ Lock(p) \/ Unlock(p)
    \/ \E o \in Object : Destroy(p, o) \/ Close(p, o)
    \/ ScriptEnds(p) \/ DeleteModule(p) \/ RunExitHandlers(p)

Next == CallStep \/ Fork \/ \E p \in Process : ProcessStep(p)

Spec == Init /\ [][Next]_vars

-----------------------------------------------------------------------------
(***************************************************************************)
(* Properties.                                                             *)
(***************************************************************************)

\* Types of the variables.
TypeOK ==
    /\ life \in [Process -> {"unborn", "running", "ending", "exiting", "waiting", "ended"}]
    /\ library \in [Process -> {"unused", "marked", "open", "inherited", "closed"}]
    /\ locked \subseteq Process /\ quick \in BOOLEAN
    /\ held \in [Process -> SUBSET Object] /\ native \subseteq Object
    /\ closed \subseteq Process \X Object
    /\ InCall => call.at \in {"arguments", "client", "result"} /\ call.parts # <<>>
    /\ blocks \subseteq {"Subjects", "BackOff", "FilterSubjects", "result"}
    /\ stored.entity \in Entity \cup {"none"} /\ known.entity \in {"none", stored.entity}
    /\ DOMAIN stored.config \subseteq Touched /\ DOMAIN wanted \subseteq Touched

\* Whatever fails, a call leaves no memory block behind when it returns, and holds none in the C
\* client's call but its arguments; every native object has the wrapper object of the process that
\* made it, which will release it, and is there as long as that refers to it, whatever a child
\* process does with its copy (the paths of every call, and the destructors after fork()).
Owned ==
    /\ ~InCall => blocks = {}
    /\ InCall => blocks \subseteq (IF call.at = "result" THEN {"result"} ELSE {"Subjects", "BackOff", "FilterSubjects"})
    /\ native = {o \in Object : o \in held[Maker(o)]}

\* No process waits for threads that exist only in another one: not when it destroys its copy of an
\* object or closes it, not when the module is deleted, and not in the exit handler of the C client,
\* whose lock a thread of the parent held when the process forked.
NoForeignWait == \A p \in Process : life[p] # "waiting"

\* A script that reads a configuration, sets one member and gives it back leaves the other members
\* that the information has as it had set them (the conversions in both directions).
ConfigKept ==
    stored # NoConfig =>
        \A member \in DOMAIN wanted \cap InfoMembers(stored.entity) :
            Fits(stored.entity, member, wanted[member]) =>
                /\ member \in DOMAIN InfoHash(stored.entity, stored.config)
                /\ InfoHash(stored.entity, stored.config)[member] = wanted[member]

=============================================================================
