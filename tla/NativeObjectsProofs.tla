-------------------------- MODULE NativeObjectsProofs --------------------------
(***************************************************************************)
(* Proofs about NativeObjects, for any members, values, widths and bounds. *)
(*                                                                         *)
(* Three invariants, of the processes, of the objects and the blocks of a  *)
(* call, and of the configurations.  The last one rests on the round trip  *)
(* of a number that fits through both conversions, and on what a script    *)
(* knows being what the server has: nothing comes between its reading a    *)
(* configuration and its giving back the changed one.                      *)
(***************************************************************************)
EXTENDS NativeObjects, SequenceTheorems, TLAPS

ArgumentBlock == {"Subjects", "BackOff", "FilterSubjects"}
PartOfCall == [result : {"value", "block", "deleted"} \cup Kind \cup Entity, failure : {"ends", "skipped"}]

-----------------------------------------------------------------------------
(***************************************************************************)
(* The calls.                                                              *)
(***************************************************************************)

\* The shape of a call: it has a part, and configurations belong to calls with one part.
WellFormed(c) ==
    /\ c.parts \in Seq(PartOfCall) /\ c.parts # <<>>
    /\ c.arguments \subseteq ArgumentBlock
    /\ c.arguments # {} => Len(c.parts) = 1 /\ c.parts[1].result \in Entity /\ c.parts[1].failure = "ends"

LEMMA SimpleWellFormed ==
    ASSUME NEW kind, NEW result \in {"value", "block", "deleted"} \cup Kind \cup Entity
    PROVE  WellFormed(Simple(kind, Part(result, "ends")))
  BY DEF WellFormed, Simple, Call, Part, PartOfCall

LEMMA ConfigWellFormed ==
    ASSUME NEW kind, NEW arguments \in SUBSET ArgumentBlock, NEW entity \in Entity
    PROVE  WellFormed(Call(kind, arguments, <<Part(entity, "ends")>>))
  BY DEF WellFormed, Call, Part, PartOfCall

\* The calls of each table.

LEMMA StreamCallsWellFormed == \A c \in Range(StreamCalls) : WellFormed(c)
  BY SimpleWellFormed, ConfigWellFormed DEF StreamCalls, Range, Entity, Value, Block, New, ArgumentBlock

LEMMA ConsumerCallsWellFormed == \A c \in Range(ConsumerCalls) : WellFormed(c)
  BY SimpleWellFormed, ConfigWellFormed DEF ConsumerCalls, Range, Entity, Value, Block, New, ArgumentBlock

LEMMA PublishCallsWellFormed == \A c \in Range(PublishCalls) : WellFormed(c)
  BY SimpleWellFormed, ConfigWellFormed DEF PublishCalls, Range, Entity, Value, Block, New, Kind

LEMMA ListCallsWellFormed == \A c \in Range(ListCalls) : WellFormed(c)
  BY SimpleWellFormed, ConfigWellFormed DEF ListCalls, Range, Entity, Value, Block, New, Kind

LEMMA ListConsumerCallsWellFormed == \A c \in Range(ListConsumerCalls) : WellFormed(c)
  BY SimpleWellFormed, ConfigWellFormed DEF ListConsumerCalls, Range, Entity, Value, Block, New, Kind

LEMMA MessageCallsWellFormed == \A c \in Range(MessageCalls) : WellFormed(c)
  BY SimpleWellFormed, ConfigWellFormed DEF MessageCalls, Range, Entity, Value, Block, New, Kind

LEMMA OptionCallsWellFormed == \A c \in Range(OptionCalls) : WellFormed(c)
  BY SimpleWellFormed, ConfigWellFormed DEF OptionCalls, Range, Entity, Value, Block, New, Kind

LEMMA AsyncCallsWellFormed == \A c \in Range(AsyncCalls) : WellFormed(c)
  BY SimpleWellFormed, ConfigWellFormed DEF AsyncCalls, Range, Entity, Value, Block, New, Kind

LEMMA BucketCallsWellFormed == \A c \in Range(BucketCalls) : WellFormed(c)
  BY SimpleWellFormed, ConfigWellFormed DEF BucketCalls, Range, Entity, Value, Block, New, Kind

LEMMA StoreCallsWellFormed == \A c \in Range(StoreCalls) : WellFormed(c)
<1> SUFFICES ASSUME NEW name \in DOMAIN StoreCalls PROVE WellFormed(StoreCalls[name])
  BY DEF Range
<1>1. PICK kind \in Kind : StoreCalls[name] = Simple(kind, Part("value", "ends")) \/ StoreCalls[name] = Simple(kind, Part("block", "ends"))
  BY DEF StoreCalls, Value, Block, Kind
<1> QED
  BY <1>1, SimpleWellFormed

LEMMA StoreListCallsWellFormed == \A c \in Range(StoreListCalls) : WellFormed(c)
  BY SimpleWellFormed, ConfigWellFormed DEF StoreListCalls, Range, Entity, Value, Block, New, Kind

LEMMA WatchCallsWellFormed == \A c \in Range(WatchCalls) : WellFormed(c)
  BY SimpleWellFormed, ConfigWellFormed DEF WatchCalls, Range, Entity, Value, Block, New, Kind

LEMMA ConnectionCallsWellFormed == \A c \in Range(ConnectionCalls) : WellFormed(c)
  BY SimpleWellFormed, ConfigWellFormed DEF ConnectionCalls, Range, Entity, Value, Block, New, Kind

LEMMA MessagesPublishedWellFormed == \A c \in Range(MessagesPublished) : WellFormed(c)
  BY SimpleWellFormed, ConfigWellFormed DEF MessagesPublished, Range, Entity, Value, Block, New, Kind

LEMMA GettersWellFormed == \A c \in Range(Getters) : WellFormed(c)
<1> SUFFICES ASSUME NEW name \in DOMAIN Getters PROVE WellFormed(Getters[name])
  BY DEF Range
<1>1. PICK kind \in Kind : Getters[name] = Simple(kind, Part("value", "ends")) \/ Getters[name] = Simple(kind, Part("block", "ends"))
  BY DEF Getters, Value, Block, Kind
<1> QED
  BY <1>1, SimpleWellFormed

LEMMA SubscriptionCallsWellFormed == \A c \in Range(SubscriptionCalls) : WellFormed(c)
  BY SimpleWellFormed, ConfigWellFormed DEF SubscriptionCalls, Range, Entity, Value, Block, New, Kind

LEMMA ServiceCallsWellFormed == \A c \in Range(ServiceCalls) : WellFormed(c)
  BY SimpleWellFormed, ConfigWellFormed DEF ServiceCalls, Range, Entity, Value, Block, New, Kind

LEMMA ServiceStatisticsWellFormed == \A c \in Range(ServiceStatistics) : WellFormed(c)
  BY SimpleWellFormed, ConfigWellFormed DEF ServiceStatistics, Range, Entity, Value, Block, New, Kind

LEMMA MetadataCallsWellFormed == \A c \in Range(MetadataCalls) : WellFormed(c)
  BY SimpleWellFormed, ConfigWellFormed DEF MetadataCalls, Range, Entity, Value, Block, New, Kind

LEMMA StatisticsCallsWellFormed == \A c \in Range(StatisticsCalls) : WellFormed(c)
<1>1. WellFormed(Call("connection", {}, <<Block>>))
  BY DEF WellFormed, Call, Block, Part, PartOfCall
<1> QED
  BY <1>1, SimpleWellFormed DEF StatisticsCalls, Range, Value, Block

LEMMA InfoCallsWellFormed == \A c \in Range(InfoCalls) : WellFormed(c)
<1>1. ASSUME NEW p \in PartOfCall, NEW q \in PartOfCall, NEW r \in PartOfCall
      PROVE  <<p, q, p, q, q, q, r>> \in Seq(PartOfCall)
  OBVIOUS
<1>2. Part("value", "skipped") \in PartOfCall /\ Part("block", "skipped") \in PartOfCall /\ Block \in PartOfCall
  BY DEF Part, Block, PartOfCall
<1>3. WellFormed(InfoCalls.getConnectionInfo)
  BY <1>1, <1>2 DEF InfoCalls, WellFormed, Call
<1>4. DOMAIN InfoCalls = {"getConnectionInfo"}
  BY DEF InfoCalls
<1> QED
  BY <1>3, <1>4 DEF Range

LEMMA CallsWellFormed == \A c \in Calls : WellFormed(c)
  BY StreamCallsWellFormed, ConsumerCallsWellFormed, PublishCallsWellFormed, ListCallsWellFormed,
     ListConsumerCallsWellFormed, MessageCallsWellFormed, OptionCallsWellFormed, AsyncCallsWellFormed,
     BucketCallsWellFormed, StoreCallsWellFormed, StoreListCallsWellFormed, WatchCallsWellFormed,
     ConnectionCallsWellFormed, MessagesPublishedWellFormed, GettersWellFormed, StatisticsCallsWellFormed,
     InfoCallsWellFormed, ServiceCallsWellFormed, ServiceStatisticsWellFormed, SubscriptionCallsWellFormed, MetadataCallsWellFormed
  DEF Calls

-----------------------------------------------------------------------------
(***************************************************************************)
(* The processes.                                                          *)
(***************************************************************************)

\* A lock of the library is held where its threads are, or in a child that will end quickly.
Processes ==
    /\ life \in [Process -> {"unborn", "running", "ending", "exiting", "waiting", "ended"}]
    /\ library \in [Process -> {"unused", "marked", "open", "inherited", "closed"}]
    /\ locked \subseteq Process /\ quick \in BOOLEAN
    /\ "parent" \in locked => HasThreads("parent") /\ life["parent"] \in {"running", "ending"}
    /\ "child" \in locked => quick \/ HasThreads("child")
    /\ NoForeignWait

LEMMA InitProcesses == Init => Processes
  BY DEF Init, Processes, Process, NoForeignWait

LEMMA QuietProcesses == ASSUME Processes, UNCHANGED processVars PROVE Processes'
  BY DEF Processes, processVars, HasThreads, NoForeignWait

\* The destructors and close(), in the process that made the object, only.
LEMMA DestroyProcesses ==
    ASSUME Processes, NEW p \in Process, NEW o \in Object, Destroy(p, o) \/ Close(p, o)
    PROVE  UNCHANGED processVars
  BY DEF Destroy, Close, Joins, IsForkedChild, processVars

LEMMA LibraryProcesses ==
    ASSUME Processes, NEW p \in Process, Use(p) \/ Connect(p) \/ Lock(p) \/ Unlock(p)
    PROVE  Processes'
  BY DEF Processes, Process, HasThreads, NoForeignWait, Use, Connect, Lock, Unlock, MayUse

LEMMA EndProcesses ==
    ASSUME Processes, NEW p \in Process, ScriptEnds(p) \/ DeleteModule(p) \/ RunExitHandlers(p)
    PROVE  Processes'
<1>1. CASE ScriptEnds(p)
  BY <1>1 DEF Processes, Process, HasThreads, NoForeignWait, ScriptEnds
<1>2. CASE DeleteModule(p)
  BY <1>2 DEF Processes, Process, HasThreads, NoForeignWait, DeleteModule
<1>3. CASE RunExitHandlers(p)
  BY <1>3 DEF Processes, Process, HasThreads, NoForeignWait, RunExitHandlers
<1> QED
  BY <1>1, <1>2, <1>3

LEMMA ForkProcesses == ASSUME Processes, Fork PROVE Processes'
  BY DEF Processes, Process, HasThreads, NoForeignWait, Fork, EndsQuickly, LibraryOpened

LEMMA CallProcesses == CallStep => UNCHANGED processVars
  BY DEF CallStep, Begin, Configure, Argument, Converted, ArgumentRaises, ClientFails, ReturnsValue, ReturnsDeleted,
         ReturnsBlock, ReturnsInfo, ReturnsObject, ResultConverted, ResultRaises

LEMMA NextProcesses == ASSUME Processes, [Next]_vars PROVE Processes'
<1>1. CASE CallStep
  BY <1>1, CallProcesses, QuietProcesses
<1>2. CASE Fork
  BY <1>2, ForkProcesses
<1>3. ASSUME NEW p \in Process, ProcessStep(p) PROVE Processes'
  BY <1>3, LibraryProcesses, DestroyProcesses, QuietProcesses, EndProcesses DEF ProcessStep
<1>4. CASE UNCHANGED vars
  BY <1>4, QuietProcesses DEF vars
<1> QED
  BY <1>1, <1>2, <1>3, <1>4 DEF Next

LEMMA ProcessesHold == Spec => []Processes
  BY InitProcesses, NextProcesses, PTL DEF Spec

\* No process waits for threads that exist only in another one, whenever the script forks, deletes
\* objects and ends.
THEOREM NobodyWaits == Spec => []NoForeignWait
<1>1. Processes => NoForeignWait
  BY DEF Processes
<1> QED
  BY <1>1, ProcessesHold, PTL

-----------------------------------------------------------------------------
(***************************************************************************)
(* The native objects, and the blocks of a call.                           *)
(***************************************************************************)

Fields == {"at", "arguments", "parts", "hash", "change"}

CallTypes ==
    /\ DOMAIN call = Fields
    /\ call.at \in {"none", "arguments", "client", "result"}
    /\ InCall => call.parts \in Seq(PartOfCall) /\ call.parts # <<>>
    /\ InCall /\ (call.hash # NoHash \/ call.at = "arguments") =>
          Len(call.parts) = 1 /\ call.parts[1].result \in Entity /\ call.parts[1].failure = "ends"

BlocksOwned ==
    /\ ~InCall => blocks = {}
    /\ InCall => blocks \subseteq (IF call.at = "result" THEN {"result"} ELSE ArgumentBlock)
    /\ InCall /\ call.at # "result" /\ blocks # {} => call.parts[1].result \in Entity

\* The child has copies of what the parent had.
Objects ==
    /\ held \in [Process -> SUBSET Object] /\ native \subseteq Object /\ closed \subseteq Process \X Object
    /\ native = {o \in Object : o \in held[Maker(o)]}
    /\ \A o \in held["parent"] : Maker(o) = "parent"
    /\ life["child"] = "unborn" => held["child"] = {}

LEMMA InitObjects == Init => Objects
  BY DEF Init, Objects, Process, Object, Maker

LEMMA QuietObjects == ASSUME Objects, UNCHANGED objectVars, life'["child"] = "unborn" => life["child"] = "unborn" PROVE Objects'
  BY DEF Objects, objectVars

LEMMA ObjectKinds == ASSUME NEW p \in Process, NEW kind \in Kind PROVE <<p, kind>> \in Object /\ Maker(<<p, kind>>) = p
  BY DEF Object, Maker

LEMMA MakerIsProcess == \A o \in Object : Maker(o) \in Process
  BY DEF Object, Maker

\* A process makes an object.
LEMMA MadeObjects ==
    ASSUME Objects, NEW p \in Process, NEW kind \in Kind,
           native' = native \cup {<<p, kind>>}, held' = [held EXCEPT ![p] = @ \cup {<<p, kind>>}],
           closed' = closed, life' = life, life["child"] = "unborn" => p = "parent"
    PROVE  Objects'
  BY ObjectKinds, MakerIsProcess DEF Objects, Process

LEMMA DestroyObjects ==
    ASSUME Processes, Objects, NEW p \in Process, NEW o \in Object, Destroy(p, o)
    PROVE  Objects'
<1>0. life' = life
  BY DestroyProcesses DEF processVars
<1>1. closed' \subseteq Process \X Object
  BY DEF Destroy, Objects
<1>2. held' = [held EXCEPT ![p] = @ \ {o}] /\ o \in held[p]
  BY DEF Destroy
<1>3. native' = IF Maker(o) = p THEN native \ {o} ELSE native
  BY DEF Destroy, IsForkedChild
<1>4. held' \in [Process -> SUBSET Object] /\ native' \subseteq Object
  BY <1>2, <1>3 DEF Objects
<1>5. native' = {x \in Object : x \in held'[Maker(x)]}
  BY <1>2, <1>3, MakerIsProcess DEF Objects
<1> QED
  BY <1>0, <1>1, <1>2, <1>4, <1>5 DEF Objects, Process

LEMMA ForkObjects == ASSUME Objects, Processes, Fork PROVE Objects'
<1>1. held' = [held EXCEPT !["child"] = held["parent"]] /\ native' = native /\ life["child"] = "unborn"
  BY DEF Fork
<1>2. life'["child"] = "running"
  BY DEF Fork, Processes, Process
<1>3. closed' \subseteq Process \X Object
  BY DEF Fork, Objects, Process
<1>4. native' = {x \in Object : x \in held'[Maker(x)]}
  BY <1>1, MakerIsProcess DEF Objects, Process
<1> QED
  BY <1>1, <1>2, <1>3, <1>4 DEF Objects, Process

LEMMA NextObjects == ASSUME Processes, Objects, [Next]_vars PROVE Objects'
<1>1. CASE CallStep
  <2>1. ASSUME NEW kind \in Kind, ReturnsObject(kind) PROVE Objects'
    BY <2>1, MadeObjects DEF ReturnsObject, processVars, Process
  <2>2. CASE UNCHANGED <<objectVars, processVars>>
    BY <2>2, QuietObjects DEF processVars
  <2> QED
    BY <1>1, <2>1, <2>2 DEF CallStep, Begin, Configure, Argument, Converted, ArgumentRaises, ClientFails, ReturnsValue,
       ReturnsDeleted, ReturnsBlock, ReturnsInfo, ResultConverted, ResultRaises
<1>2. CASE Fork
  BY <1>2, ForkObjects
<1>3. ASSUME NEW p \in Process, ProcessStep(p) PROVE Objects'
  <2>1. CASE Use(p) \/ Lock(p) \/ Unlock(p)
    BY <2>1, QuietObjects DEF Use, Lock, Unlock
  <2>2. CASE Connect(p)
    <3>1. CASE UNCHANGED <<native, held>>
      BY <2>2, <3>1, QuietObjects DEF Connect, objectVars
    <3>2. CASE ~UNCHANGED <<native, held>>
      BY <2>2, <3>2, MadeObjects DEF Connect, MayUse, Kind, Process
    <3> QED
      BY <3>1, <3>2
  <2>3. ASSUME NEW o \in Object, Destroy(p, o) PROVE Objects'
    BY <2>3, DestroyObjects
  <2>4. ASSUME NEW o \in Object, Close(p, o) PROVE Objects'
    BY <2>4, DestroyProcesses DEF Close, Objects, processVars
  <2>5. CASE ScriptEnds(p) \/ DeleteModule(p) \/ RunExitHandlers(p)
    <3>1. PICK how \in {"ending", "exiting", "waiting", "ended"} : life' = [life EXCEPT ![p] = how]
      BY <2>5 DEF ScriptEnds, DeleteModule, RunExitHandlers
    <3>2. life'["child"] = "unborn" => life["child"] = "unborn"
      BY <3>1 DEF Processes, Process
    <3> QED
      BY <2>5, <3>2, QuietObjects DEF ScriptEnds, DeleteModule, RunExitHandlers
  <2> QED
    BY <1>3, <2>1, <2>2, <2>3, <2>4, <2>5 DEF ProcessStep
<1>4. CASE UNCHANGED vars
  BY <1>4, QuietObjects DEF vars, processVars
<1> QED
  BY <1>1, <1>2, <1>3, <1>4 DEF Next

LEMMA InitCall == Init => CallTypes /\ BlocksOwned
  BY DEF Init, CallTypes, BlocksOwned, InCall, NoCall, Fields, ArgumentBlock

LEMMA QuietCall == ASSUME CallTypes, BlocksOwned, UNCHANGED callVars PROVE CallTypes' /\ BlocksOwned'
  BY DEF CallTypes, BlocksOwned, callVars, InCall

\* A call that begins, and one that is over.
LEMMA BeginCall ==
    ASSUME NEW c \in Calls, NEW at \in {"arguments", "client"}, NEW hash, NEW change, ~InCall, BlocksOwned, blocks' = blocks,
           call' = [at |-> at, arguments |-> c.arguments, parts |-> c.parts, hash |-> hash, change |-> change],
           (hash = NoHash /\ at = "client") \/ c.arguments # {}
    PROVE  CallTypes' /\ BlocksOwned'
<1>1. WellFormed(c)
  BY CallsWellFormed
<1>2. /\ DOMAIN call' = Fields /\ call'.at = at /\ call'.arguments = c.arguments /\ call'.parts = c.parts
      /\ call'.hash = hash
  BY DEF Fields
<1>3. CallTypes'
  BY <1>1, <1>2 DEF CallTypes, WellFormed, InCall
<1>4. BlocksOwned'
  BY <1>2 DEF BlocksOwned, InCall
<1> QED
  BY <1>3, <1>4

LEMMA NoCallIsOwned == ASSUME call' = NoCall, blocks' = {} PROVE CallTypes' /\ BlocksOwned'
  BY DEF CallTypes, BlocksOwned, InCall, NoCall, Fields

\* The call goes on with the parts that follow, or is over.
LEMMA RestIsOwned ==
    ASSUME CallTypes, InCall, call' = Rest(call.parts), blocks' = {}
    PROVE  CallTypes' /\ BlocksOwned'
<1>1. CASE Len(call.parts) = 1
  BY <1>1, NoCallIsOwned DEF Rest, Following
<1>2. CASE Len(call.parts) # 1
  <2>1. call.parts \in Seq(PartOfCall) /\ call.parts # <<>>
    BY DEF CallTypes
  <2>2. Tail(call.parts) \in Seq(PartOfCall) /\ Len(Tail(call.parts)) = Len(call.parts) - 1 /\ Len(call.parts) \in Nat
    BY <2>1, HeadTailProperties, LenProperties
  <2>3. Len(call.parts) # 0
    BY <2>1, EmptySeq
  <2>4. Tail(call.parts) # <<>>
    <3>1. Len(Tail(call.parts)) # 0
      BY ONLY <1>2, <2>2, <2>3
    <3>2. Len(<<>>) = 0
      BY EmptySeq
    <3> QED
      BY ONLY <3>1, <3>2
  <2>5. call' = [call EXCEPT !.at = "client", !.parts = Tail(call.parts)]
    BY <1>2 DEF Rest, Following
  <2>6. /\ DOMAIN call' = Fields /\ call'.at = "client" /\ call'.parts = Tail(call.parts) /\ call'.hash = call.hash
    BY <2>5 DEF CallTypes, Fields
  <2>7. CallTypes'
    BY <1>2, <2>2, <2>4, <2>6 DEF CallTypes, InCall
  <2>8. BlocksOwned'
    BY <2>6 DEF BlocksOwned, InCall
  <2> QED
    BY <2>7, <2>8
<1> QED
  BY <1>1, <1>2

\* The call goes on to another place.
LEMMA NowIsOwned ==
    ASSUME CallTypes, BlocksOwned, InCall, NEW at \in {"client", "result"}, call' = Now(at),
           at = "client" => blocks' = blocks /\ call.at = "arguments",
           at = "result" => blocks' = {"result"}
    PROVE  CallTypes' /\ BlocksOwned'
<1>1. DOMAIN call' = Fields /\ call'.at = at /\ call'.parts = call.parts /\ call'.hash = call.hash
  BY DEF Now, CallTypes, Fields
<1>2. CallTypes'
  BY <1>1 DEF CallTypes, InCall
<1>3. BlocksOwned'
  BY <1>1 DEF BlocksOwned, InCall
<1> QED
  BY <1>2, <1>3

LEMMA NextCall == ASSUME CallTypes, BlocksOwned, [Next]_vars PROVE CallTypes' /\ BlocksOwned'
<1>1. ASSUME NEW c \in Calls, Begin(c) PROVE CallTypes' /\ BlocksOwned'
  <2>1. call' = [at |-> "client", arguments |-> c.arguments, parts |-> c.parts, hash |-> NoHash, change |-> NoHash]
    BY <1>1 DEF Begin
  <2> QED
    BY <1>1, <2>1, BeginCall DEF Begin
<1>2. ASSUME NEW c \in Calls, NEW member \in Touched, NEW n \in Values, Configure(c, member, n)
      PROVE  CallTypes' /\ BlocksOwned'
  BY <1>2, BeginCall DEF Configure
<1>3. ASSUME NEW b \in ArgumentBlock, Argument(b) PROVE CallTypes' /\ BlocksOwned'
  <2>1. /\ InCall /\ call.at = "arguments" /\ blocks' = blocks \cup {b}
        /\ call' = [call EXCEPT !.arguments = @ \ {b}]
    BY <1>3 DEF Argument
  <2>2. DOMAIN call' = Fields /\ call'.at = "arguments" /\ call'.parts = call.parts /\ call'.hash = call.hash
    BY <2>1 DEF CallTypes, Fields
  <2>3. CallTypes'
    BY <2>1, <2>2 DEF CallTypes, InCall
  <2>4. call.parts[1].result \in Entity /\ blocks \subseteq ArgumentBlock
    BY <2>1 DEF CallTypes, BlocksOwned
  <2>5. BlocksOwned'
    BY <2>1, <2>2, <2>4 DEF BlocksOwned, InCall
  <2> QED
    BY <2>3, <2>5
<1>4. CASE Converted
  BY <1>4, NowIsOwned DEF Converted
<1>5. CASE ArgumentRaises
  BY <1>5, NoCallIsOwned DEF ArgumentRaises, BlocksAfterRaise, ArgumentsFreed
<1>6. CASE ClientFails
  BY <1>6, NoCallIsOwned, RestIsOwned DEF ClientFails
<1>7. CASE ReturnsValue
  BY <1>7, RestIsOwned DEF ReturnsValue
<1>8. CASE ReturnsDeleted
  BY <1>8, NoCallIsOwned DEF ReturnsDeleted
<1>9. CASE ReturnsBlock \/ ReturnsInfo
  BY <1>9, NowIsOwned DEF ReturnsBlock, ReturnsInfo
<1>10. ASSUME NEW kind \in Kind, ReturnsObject(kind) PROVE CallTypes' /\ BlocksOwned'
  <2>1. Result = kind /\ InCall /\ call.at = "client" /\ blocks' = blocks /\ call' = NoCall
    BY <1>10 DEF ReturnsObject
  <2>2. blocks = {}
    BY <2>1 DEF BlocksOwned, Result, Kind, Entity
  <2> QED
    BY <2>1, <2>2, NoCallIsOwned
<1>11. CASE ResultConverted
  BY <1>11, RestIsOwned DEF ResultConverted
<1>12. CASE ResultRaises
  BY <1>12, NoCallIsOwned DEF ResultRaises
<1>13. CASE Fork
  BY <1>13, QuietCall DEF Fork
<1>14. ASSUME NEW p \in Process, ProcessStep(p) PROVE CallTypes' /\ BlocksOwned'
  BY <1>14, QuietCall DEF ProcessStep, Use, Connect, Lock, Unlock, Destroy, Close, ScriptEnds, DeleteModule, RunExitHandlers
<1>15. CASE UNCHANGED vars
  BY <1>15, QuietCall DEF vars
<1> QED
  BY <1>1, <1>2, <1>3, <1>4, <1>5, <1>6, <1>7, <1>8, <1>9, <1>10, <1>11, <1>12, <1>13, <1>14, <1>15
  DEF Next, CallStep, ArgumentBlock

\* What the properties say, from the invariants.
LEMMA ObjectsOwned == Objects /\ BlocksOwned => Owned
  BY DEF Objects, BlocksOwned, Owned, ArgumentBlock

LEMMA ObjectsHold == Spec => [](Objects /\ CallTypes /\ BlocksOwned)
<1>1. Init => Objects /\ CallTypes /\ BlocksOwned
  BY InitObjects, InitCall
<1>2. Processes /\ (Objects /\ CallTypes /\ BlocksOwned) /\ [Next]_vars => (Objects /\ CallTypes /\ BlocksOwned)'
  BY NextObjects, NextCall
<1> QED
  BY <1>1, <1>2, ProcessesHold, PTL DEF Spec

\* Whatever fails, no call leaks a block, and every native object belongs to one wrapper object of the
\* process that made it.
THEOREM NothingLeaks == Spec => []Owned
  BY ObjectsHold, ObjectsOwned, PTL

-----------------------------------------------------------------------------
(***************************************************************************)
(* The conversions.                                                        *)
(***************************************************************************)

\* No member is sorted twice, and an array of times is in no information.
LEMMA Sorted ==
    ASSUME NEW entity \in Entity
    PROVE  /\ Members(entity).time \cap Members(entity).narrow = {}
           /\ Members(entity).times \cap InfoMembers(entity) = {}
<1>1. CASE entity = "stream"
  BY <1>1 DEF Members, StreamMembers, InfoMembers
<1>2. CASE entity = "consumer"
  <2>1. Members(entity).time \cap Members(entity).narrow = {}
    BY <1>2 DEF Members, ConsumerMembers
  <2>2. Members(entity).times = {"back_off"}
    BY <1>2 DEF Members, ConsumerMembers
  <2>3. "back_off" \notin InfoMembers(entity)
    <3>1. InfoMembers(entity) = ConsumerInfoMembers
      BY <1>2 DEF InfoMembers
    <3>2. ASSUME NEW S PROVE "back_off" \notin S \ {"opt_start_seq", "back_off", "filter_subjects"}
      OBVIOUS
    <3>3. "back_off" \notin ConsumerInfoMembers
      BY <3>2 DEF ConsumerInfoMembers
    <3> QED
      BY <3>1, <3>3
  <2> QED
    BY <2>1, <2>2, <2>3
<1> QED
  BY <1>1, <1>2 DEF Entity

\* A number in the range keeps its value.
LEMMA WrapInRange ==
    ASSUME NEW range \in Nat \ {0}, range % 2 = 0, NEW n \in Int, n \in -(range \div 2) .. (range \div 2 - 1)
    PROVE  Wrap(n, range) = n
<1>1. PICK half \in Int : half = range \div 2 /\ 2 * half = range
  OBVIOUS
<1>2. n + half \in 0 .. (range - 1)
  BY <1>1
<1>3. (n + half) % range = n + half
  BY <1>2
<1> QED
  BY <1>1, <1>3 DEF Wrap

\* Milliseconds that fit come back from nanoseconds.
LEMMA TimeRoundTrip ==
    ASSUME NEW n \in Int, n * Scale \in -(Wide \div 2) .. (Wide \div 2 - 1)
    PROVE  ToMilliseconds(ToNanoseconds(n)) = n
<1>1. Scale \in Nat /\ Scale > 0 /\ n * Scale \in Int
  BY WidthAssumption
<1>2. ToNanoseconds(n) = n * Scale
  BY <1>1, WrapInRange, WidthAssumption DEF ToNanoseconds
<1>3. ASSUME NEW k \in Nat PROVE (k * Scale) \div Scale = k /\ k * Scale >= 0
  BY <1>1
<1>4. CASE n >= 0
  <2>1. (n * Scale) \div Scale = n /\ n * Scale >= 0
    BY <1>3, <1>4
  <2> QED
    BY <1>1, <1>2, <2>1 DEF ToMilliseconds, DividedByScale
<1>5. CASE n < 0
  <2>1. PICK k \in Nat : k = -n /\ k > 0
    BY <1>5
  <2>2. (k * Scale) \div Scale = k /\ k * Scale = -(n * Scale) /\ k * Scale > 0
    BY <1>1, <1>3, <2>1
  <2> QED
    BY <1>1, <1>2, <2>1, <2>2 DEF ToMilliseconds, DividedByScale
<1> QED
  BY <1>4, <1>5

\* A member of a hash that is in the information comes back from the structure.
LEMMA RoundTrip ==
    ASSUME NEW entity \in Entity, NEW hash, NEW member \in DOMAIN hash, member \in InfoMembers(entity),
           hash[member] \in Int, Fits(entity, member, hash[member])
    PROVE  /\ member \in DOMAIN InfoHash(entity, Configured(entity, hash))
           /\ InfoHash(entity, Configured(entity, hash))[member] = hash[member]
<1>1. /\ member \in DOMAIN InfoHash(entity, Configured(entity, hash))
      /\ InfoHash(entity, Configured(entity, hash))[member] =
            IF member \in Members(entity).time
            THEN ToMilliseconds(Configured(entity, hash)[member])
            ELSE Configured(entity, hash)[member]
  BY DEF InfoHash, Configured
<1>2. CASE member \in Members(entity).time
  <2>1. Configured(entity, hash)[member] = ToNanoseconds(hash[member])
    BY <1>2, Sorted DEF Configured
  <2>2. hash[member] * Scale \in -(Wide \div 2) .. (Wide \div 2 - 1)
    BY <1>2, Sorted DEF Fits
  <2> QED
    BY <1>1, <1>2, <2>1, <2>2, TimeRoundTrip
<1>3. CASE member \in Members(entity).narrow
  <2>1. member \notin Members(entity).time \cup Members(entity).times
    BY <1>3, Sorted
  <2>2. Configured(entity, hash)[member] = Wrap(hash[member], Narrow)
    BY <1>3, <2>1 DEF Configured
  <2>3. hash[member] \in -(Narrow \div 2) .. (Narrow \div 2 - 1)
    BY <1>3, <2>1 DEF Fits
  <2> QED
    BY <1>1, <2>1, <2>2, <2>3, WrapInRange, WidthAssumption
<1>4. CASE member \notin Members(entity).time \cup Members(entity).narrow
  <2>1. member \notin Members(entity).times
    BY Sorted
  <2>2. Configured(entity, hash)[member] = hash[member]
    BY <1>4, <2>1 DEF Configured
  <2> QED
    BY <1>1, <1>4, <2>2
<1> QED
  BY <1>2, <1>3, <1>4

-----------------------------------------------------------------------------
(***************************************************************************)
(* The configurations.                                                     *)
(***************************************************************************)

Given == InCall /\ call.at \in {"arguments", "client"} /\ call.hash # NoHash

Pending ==
    /\ Given =>
          /\ call.hash = Over(call.change, known.hash)
          /\ DOMAIN call.change \subseteq Touched
          /\ \A member \in DOMAIN call.change : call.change[member] \in Values
          /\ stored.entity \in {"none", Result} /\ known.entity = stored.entity
    /\ InCall /\ call.at = "result" /\ Result \in Entity => stored.entity = Result

Known ==
    /\ known.entity \in {"none", stored.entity}
    /\ known.entity = "none" => known.hash = NoHash
    /\ known.entity # "none" => known.hash = InfoHash(stored.entity, stored.config)

Stored ==
    /\ stored.entity \in Entity \cup {"none"}
    /\ stored.entity = "none" => stored = NoConfig /\ wanted = NoHash
    /\ DOMAIN stored.config \subseteq Touched /\ DOMAIN wanted \subseteq Touched
    /\ \A member \in DOMAIN wanted : wanted[member] \in Values

Config == Stored /\ Known /\ ConfigKept

LEMMA NothingStored ==
    /\ DOMAIN NoHash = {} /\ NoConfig.entity = "none" /\ NoConfig.config = NoHash
    /\ NothingKnown.entity = "none" /\ NothingKnown.hash = NoHash
  BY DEF NoHash, NoConfig, NothingKnown

LEMMA InitConfig == Init => Config /\ Pending
<1> SUFFICES ASSUME Init PROVE Config /\ Pending
  OBVIOUS
<1>1. stored = NoConfig /\ known = NothingKnown /\ wanted = NoHash /\ ~InCall
  BY DEF Init, InCall, NoCall
<1> QED
  BY <1>1, NothingStored DEF Config, Stored, Known, ConfigKept, Pending, Given

LEMMA QuietConfig == ASSUME Config, UNCHANGED configVars PROVE Config'
  BY DEF Config, Stored, Known, ConfigKept, configVars

LEMMA NoCallPending == ASSUME call' = NoCall PROVE Pending'
  BY DEF Pending, Given, InCall, NoCall

LEMMA QuietPending == ASSUME Pending, UNCHANGED <<callVars, configVars>> PROVE Pending'
  BY DEF Pending, Given, InCall, Result, callVars, configVars

\* The call goes on with the parts that follow: it gives no configuration.
LEMMA RestPending == ASSUME CallTypes, InCall, call' = Rest(call.parts) PROVE Pending'
<1>1. CASE Len(call.parts) = 1
  BY <1>1, NoCallPending DEF Rest, Following
<1>2. CASE Len(call.parts) # 1
  <2>1. call.hash = NoHash
    BY <1>2 DEF CallTypes
  <2>2. call' = [call EXCEPT !.at = "client", !.parts = Tail(call.parts)]
    BY <1>2 DEF Rest, Following
  <2>3. call'.at = "client" /\ call'.hash = NoHash
    BY <2>1, <2>2 DEF CallTypes, Fields
  <2> QED
    BY <2>3 DEF Pending, Given
<1> QED
  BY <1>1, <1>2

LEMMA ConfigurePending ==
    ASSUME Config, NEW c \in Calls, NEW member \in Touched, NEW n \in Values, Configure(c, member, n)
    PROVE  Pending'
<1> DEFINE change == [m \in {member} |-> n]
<1>1. /\ call' = [at |-> "arguments", arguments |-> c.arguments, parts |-> c.parts,
                  hash |-> Over(change, known.hash), change |-> change]
      /\ UNCHANGED configVars
      /\ stored = NoConfig \/ (stored.entity = c.parts[1].result /\ known.entity = c.parts[1].result)
  BY DEF Configure
<1>2. /\ call'.at = "arguments" /\ call'.parts = c.parts /\ call'.change = change
      /\ call'.hash = Over(change, known.hash)
  BY <1>1
<1>3. DOMAIN change \subseteq Touched /\ \A m \in DOMAIN change : change[m] \in Values
  OBVIOUS
<1>4. known.entity = stored.entity /\ stored.entity \in {"none", c.parts[1].result}
  BY <1>1, NothingStored DEF Config, Known
<1> HIDE DEF change
<1>5. known' = known /\ stored' = stored /\ Over(change, known.hash)' = Over(change, known.hash)'
  BY <1>1 DEF configVars
<1> QED
  BY <1>2, <1>3, <1>4, <1>5 DEF Pending, Given, InCall, Result, Over

\* The call goes on where it is, with other arguments, or to the C client.
LEMMA ArgumentPending ==
    ASSUME CallTypes, Pending, UNCHANGED configVars, InCall, call.at = "arguments",
           (\E b : call' = [call EXCEPT !.arguments = @ \ {b}]) \/ call' = Now("client")
    PROVE  Pending'
<1>1. /\ call'.at \in {"arguments", "client"} /\ call'.parts = call.parts /\ call'.change = call.change
      /\ call'.hash = call.hash
  BY DEF CallTypes, Fields, Now
<1> QED
  BY <1>1 DEF Pending, Given, InCall, Result, Over, configVars

\* The server stores a configuration: what the script had set before is in the hash that it knew.
LEMMA StoreConfig ==
    ASSUME CallTypes, Config, Pending, ReturnsInfo, call.hash # NoHash
    PROVE  Config'
<1>1. /\ Result \in Entity /\ Given
      /\ stored' = [entity |-> Result, config |-> Configured(Result, call.hash)]
      /\ wanted' = Over(call.change, wanted) /\ known' = NothingKnown
  BY DEF ReturnsInfo, Given
<1>2. /\ call.hash = Over(call.change, known.hash) /\ DOMAIN call.change \subseteq Touched
      /\ \A member \in DOMAIN call.change : call.change[member] \in Values
      /\ stored.entity \in {"none", Result} /\ known.entity = stored.entity
  BY <1>1 DEF Pending
<1>3. DOMAIN known.hash \subseteq Touched
  <2>1. CASE known.entity = "none"
    BY <2>1, NothingStored DEF Config, Known
  <2>2. CASE known.entity # "none"
    <3>1. known.hash = InfoHash(stored.entity, stored.config)
      BY <2>2 DEF Config, Known
    <3>2. DOMAIN InfoHash(stored.entity, stored.config) \subseteq DOMAIN stored.config
      BY DEF InfoHash
    <3> QED
      BY <3>1, <3>2 DEF Config, Stored
  <2> QED
    BY <2>1, <2>2
<1>4. DOMAIN wanted \subseteq Touched /\ \A member \in DOMAIN wanted : wanted[member] \in Values
  BY DEF Config, Stored
<1>5. /\ DOMAIN call.hash = DOMAIN call.change \cup DOMAIN known.hash
      /\ DOMAIN wanted' = DOMAIN call.change \cup DOMAIN wanted
      /\ \A member \in DOMAIN wanted' :
            wanted'[member] = IF member \in DOMAIN call.change THEN call.change[member] ELSE wanted[member]
  BY <1>1, <1>2 DEF Over
<1>6. Stored'
  <2>1. DOMAIN stored'.config = DOMAIN call.hash /\ stored'.entity = Result
    BY <1>1 DEF Configured
  <2>2. \A member \in DOMAIN wanted' : wanted'[member] \in Values
    BY <1>2, <1>4, <1>5
  <2>3. Result # "none"
    BY <1>1 DEF Entity
  <2> QED
    BY <1>1, <1>2, <1>3, <1>4, <1>5, <2>1, <2>2, <2>3 DEF Stored
<1>7. Known'
  BY <1>1, NothingStored DEF Known
<1>8. ConfigKept'
  <2> SUFFICES ASSUME NEW member \in DOMAIN wanted' \cap InfoMembers(Result), Fits(Result, member, wanted'[member])
               PROVE  /\ member \in DOMAIN InfoHash(Result, Configured(Result, call.hash))
                      /\ InfoHash(Result, Configured(Result, call.hash))[member] = wanted'[member]
    BY <1>1 DEF ConfigKept
  <2>1. wanted'[member] \in Int
    BY <1>6, ValuesAssumption DEF Stored
  <2>2. member \in DOMAIN call.hash /\ call.hash[member] = wanted'[member]
    <3>1. CASE member \in DOMAIN call.change
      BY <1>2, <1>5, <3>1 DEF Over
    <3>2. CASE member \notin DOMAIN call.change
      <4>1. member \in DOMAIN wanted /\ wanted'[member] = wanted[member]
        BY <1>5, <3>2
      <4>2. stored.entity = Result /\ stored # NoConfig /\ Result # "none"
        BY <1>1, <1>2, <4>1, NothingStored DEF Config, Stored, Entity
      <4>3. /\ member \in DOMAIN InfoHash(stored.entity, stored.config)
            /\ InfoHash(stored.entity, stored.config)[member] = wanted[member]
        BY <4>1, <4>2 DEF Config, ConfigKept
      <4>4. known.hash = InfoHash(stored.entity, stored.config)
        BY <1>2, <4>2 DEF Config, Known
      <4> QED
        BY <1>2, <3>2, <4>1, <4>3, <4>4 DEF Over
    <3> QED
      BY <3>1, <3>2
  <2> QED
    BY <1>1, <2>1, <2>2, RoundTrip
<1> QED
  BY <1>6, <1>7, <1>8 DEF Config

LEMMA ReturnsInfoConfig ==
    ASSUME CallTypes, Config, Pending, ReturnsInfo
    PROVE  Config' /\ Pending'
<1>1. Config'
  <2>1. CASE call.hash # NoHash
    BY <2>1, StoreConfig
  <2>2. CASE call.hash = NoHash
    <3>1. stored' = stored /\ wanted' = wanted /\ known' = NothingKnown
      BY <2>2 DEF ReturnsInfo
    <3> QED
      BY <3>1, NothingStored DEF Config, Stored, Known, ConfigKept
  <2> QED
    BY <2>1, <2>2
<1>2. Pending'
  <2>1. /\ call'.at = "result" /\ call'.parts = call.parts
    BY DEF ReturnsInfo, Now, CallTypes, Fields
  <2>2. stored'.entity = Result
    BY DEF ReturnsInfo
  <2> QED
    BY <2>1, <2>2 DEF Pending, Given, Result
<1> QED
  BY <1>1, <1>2

LEMMA ResultConvertedConfig ==
    ASSUME CallTypes, Config, Pending, ResultConverted
    PROVE  Config' /\ Pending'
<1>1. stored' = stored /\ wanted' = wanted /\ InCall /\ call.at = "result" /\ call' = Rest(call.parts)
  BY DEF ResultConverted
<1>2. Known'
  <2>1. CASE Result \in Entity
    <3>1. known' = [entity |-> Result, hash |-> InfoHash(Result, stored.config)] /\ stored.entity = Result
      BY <1>1, <2>1 DEF ResultConverted, Pending
    <3>2. Result # "none"
      BY <2>1 DEF Entity
    <3> QED
      BY <1>1, <3>1, <3>2 DEF Known
  <2>2. CASE Result \notin Entity
    BY <1>1, <2>2 DEF ResultConverted, Config, Known
  <2> QED
    BY <2>1, <2>2
<1> QED
  BY <1>1, <1>2, RestPending DEF Config, Stored, ConfigKept

LEMMA NextConfig ==
    ASSUME CallTypes, Config, Pending, [Next]_vars
    PROVE  Config' /\ Pending'
<1>1. ASSUME NEW c \in Calls, Begin(c) PROVE Config' /\ Pending'
  <2>1. call'.at = "client" /\ call'.hash = NoHash /\ UNCHANGED configVars
    BY <1>1 DEF Begin
  <2> QED
    BY <2>1, QuietConfig DEF Pending, Given
<1>2. ASSUME NEW c \in Calls, NEW member \in Touched, NEW n \in Values, Configure(c, member, n)
      PROVE  Config' /\ Pending'
  <2>1. UNCHANGED configVars
    BY <1>2 DEF Configure
  <2> QED
    BY <1>2, <2>1, QuietConfig, ConfigurePending
<1>3. ASSUME NEW b \in ArgumentBlock, Argument(b) PROVE Config' /\ Pending'
  BY <1>3, QuietConfig, ArgumentPending DEF Argument
<1>4. CASE Converted
  BY <1>4, QuietConfig, ArgumentPending DEF Converted
<1>5. CASE ArgumentRaises
  BY <1>5, QuietConfig, NoCallPending DEF ArgumentRaises
<1>6. CASE ClientFails
  BY <1>6, QuietConfig, NoCallPending, RestPending DEF ClientFails
<1>7. CASE ReturnsValue
  BY <1>7, QuietConfig, RestPending DEF ReturnsValue
<1>8. CASE ReturnsDeleted
  <2>1. stored' = NoConfig /\ known' = NothingKnown /\ wanted' = NoHash /\ call' = NoCall
    BY <1>8 DEF ReturnsDeleted
  <2> QED
    BY <2>1, NothingStored, NoCallPending DEF Config, Stored, Known, ConfigKept
<1>9. CASE ReturnsBlock
  <2>1. call.parts[1].result = "block" /\ call'.at = "result" /\ call'.parts = call.parts /\ UNCHANGED configVars
    BY <1>9 DEF ReturnsBlock, Result, Now, CallTypes, Fields
  <2> QED
    BY <2>1, QuietConfig DEF Pending, Given, Result, Entity
<1>10. CASE ReturnsInfo
  BY <1>10, ReturnsInfoConfig
<1>11. ASSUME NEW kind \in Kind, ReturnsObject(kind) PROVE Config' /\ Pending'
  BY <1>11, QuietConfig, NoCallPending DEF ReturnsObject
<1>12. CASE ResultConverted
  BY <1>12, ResultConvertedConfig
<1>13. CASE ResultRaises
  BY <1>13, QuietConfig, NoCallPending DEF ResultRaises
<1>14. CASE UNCHANGED <<callVars, configVars>>
  BY <1>14, QuietConfig, QuietPending
<1>15. CASE Fork
  BY <1>14, <1>15 DEF Fork
<1>16. ASSUME NEW p \in Process, ProcessStep(p) PROVE Config' /\ Pending'
  BY <1>14, <1>16 DEF ProcessStep, Use, Connect, Lock, Unlock, Destroy, Close, ScriptEnds, DeleteModule, RunExitHandlers
<1>17. CASE UNCHANGED vars
  BY <1>14, <1>17 DEF vars
<1> QED
  BY <1>1, <1>2, <1>3, <1>4, <1>5, <1>6, <1>7, <1>8, <1>9, <1>10, <1>11, <1>12, <1>13, <1>15, <1>16, <1>17
  DEF Next, CallStep, ArgumentBlock

LEMMA ConfigHolds == Spec => [](Config /\ Pending)
<1>1. (Objects /\ CallTypes /\ BlocksOwned) /\ (Config /\ Pending) /\ [Next]_vars => (Config /\ Pending)'
  BY NextConfig
<1> QED
  BY <1>1, InitConfig, ObjectsHold, PTL DEF Spec

\* A member that the information has, and that a script set to a value that fits, is in it as
\* the script had set it, however often the script reads the information, changes other members and
\* gives it back.
THEOREM ConfigurationsKept == Spec => []ConfigKept
<1>1. Config => ConfigKept
  BY DEF Config
<1> QED
  BY <1>1, ConfigHolds, PTL

\* The variables have their types.
THEOREM TypeCorrect == Spec => []TypeOK
<1>1. Processes /\ (Objects /\ CallTypes /\ BlocksOwned) /\ (Config /\ Pending) => TypeOK
  BY DEF Processes, Objects, CallTypes, BlocksOwned, Config, Known, Stored, TypeOK, InCall, ArgumentBlock
<1> QED
  BY <1>1, ProcessesHold, ObjectsHold, ConfigHolds, PTL

=============================================================================
