------------------------------ MODULE MicroService ------------------------------
(***************************************************************************)
(* A QoreNatsMicroService with its groups (QoreNatsMicroGroup), and the    *)
(* contexts of its endpoint handlers (MicroEndpointCallbackContext).       *)
(*                                                                         *)
(* A context is made by the constructor or by addEndpoint(), is used by    *)
(* request handlers on delivery threads of the C client as soon as the C   *)
(* client has added the endpoint, and is released when the C client calls  *)
(* the done handler, or at once when that happened before the context was  *)
(* registered.  The wrapper objects are counted by references: a group     *)
(* keeps its service, a call keeps the object that it is made on.          *)
(*                                                                         *)
(* The C client is external: it delivers requests to an endpoint one at a  *)
(* time, a stopping service completes its endpoints when their requests    *)
(* are handled, and the done handler is called once, after that.           *)
(***************************************************************************)
EXTENDS Integers

CONSTANTS
    Thread,     \* threads of Qore code
    Context,    \* memory for handler contexts, which is used again after it was freed
    Group,      \* memory for group objects, likewise
    Svc,        \* the service object
    None

ASSUME NamesAssumption == Svc \notin Group /\ None \notin Group \cup {Svc} \cup Context

VARIABLES
    service,    \* the C client's service; "partial" when micro_AddService failed half way
    active,     \* the contexts whose endpoint is subscribed
    handling,   \* the contexts with a request in requestHandler()
    allocated,  \* the contexts that exist
    handlers,   \* MicroServiceState::handlers
    done,       \* MicroServiceState::done
    dying,      \* serviceDone(): its local vector of contexts
    refs,       \* reference counts of the service and group objects
    script,     \* the objects that Qore code holds
    pc,         \* each thread: "idle", or its place in the constructor or addEndpoint()
    target,     \* the object of its call
    own         \* the context that it has not handed on

clientVars == <<service, active, handling>>
stateVars == <<handlers, done, dying>>
objectVars == <<refs, script>>
threadVars == <<pc, target, own>>
vars == <<clientVars, allocated, stateVars, objectVars, threadVars>>

Object == {Svc} \cup Group
Ending == {"stopping", "done"}

Init ==
    /\ service = "none" /\ active = {} /\ handling = {}
    /\ allocated = {}
    /\ handlers = {} /\ done = FALSE /\ dying = {}
    /\ refs = [o \in Object |-> 0] /\ script = {}
    /\ pc = [t \in Thread |-> "idle"]
    /\ target = [t \in Thread |-> None]
    /\ own = [t \in Thread |-> None]

(***************************************************************************)
(* References.                                                             *)
(***************************************************************************)

\* A group that is freed gives back its reference to the service.
Deref(o) ==
    LET less == [refs EXCEPT ![o] = @ - 1]
    IN IF o \in Group /\ less[o] = 0 THEN [less EXCEPT ![Svc] = @ - 1] ELSE less

DerefWithEveryCall(o) ==                        \* mutant: the service is given back with each reference of a group
    LET less == [refs EXCEPT ![o] = @ - 1]
    IN IF o \in Group THEN [less EXCEPT ![Svc] = @ - 1] ELSE less

Dropped(o) == Deref(o)

\* The destructor of the service stops it.
StopWhenFreed == IF refs'[Svc] = 0 /\ service = "running" THEN "stopping" ELSE service
OnlyFree == service                             \* mutant: the destructor leaves the service to the connection
Destructed == StopWhenFreed

GroupRefs(g) == [refs EXCEPT ![g] = 1, ![Svc] = @ + 1]
GroupRefsAlone(g) == [refs EXCEPT ![g] = 1]     \* mutant: a group does not keep its service
NewGroup(g) == GroupRefs(g)

(***************************************************************************)
(* The constructor and addEndpoint() of the service and of its groups.     *)
(***************************************************************************)

Allocate(t) == \E c \in Context \ allocated :
    /\ allocated' = allocated \cup {c}
    /\ own' = [own EXCEPT ![t] = c]

\* The constructor, with or without a default endpoint.
Create(t) ==
    /\ pc[t] = "idle" /\ service = "none"
    /\ service' = "creating"
    /\ pc' = [pc EXCEPT ![t] = "create"]
    /\ Allocate(t) \/ UNCHANGED <<allocated, own>>
    /\ UNCHANGED <<active, handling, stateVars, objectVars, target>>

\* The call returns: the constructor's object goes to the caller, another call gives its object back.
Return(t) ==
    /\ pc' = [pc EXCEPT ![t] = "idle"]
    /\ own' = [own EXCEPT ![t] = None]
    /\ target' = [target EXCEPT ![t] = None]
    /\ IF target[t] = None
       THEN refs' = refs /\ script' = script \cup {Svc}
       ELSE refs' = Dropped(target[t]) /\ script' = script

ServiceAdded(t) ==
    /\ pc[t] = "create"
    /\ service' = "running"
    /\ active' = {own[t]} \ {None}
    /\ refs' = [refs EXCEPT ![Svc] = 1]
    /\ IF own[t] = None
       THEN pc' = [pc EXCEPT ![t] = "idle"] /\ script' = {Svc}
       ELSE pc' = [pc EXCEPT ![t] = "register"] /\ UNCHANGED script
    /\ UNCHANGED <<handling, allocated, stateVars, target, own>>

\* micro_AddService fails, before or after it added monitoring endpoints; the object is never seen.
ServiceFails(t) ==
    /\ pc[t] = "create"
    /\ service' \in {"gone", "partial"}
    /\ allocated' = allocated \ {own[t]}
    /\ own' = [own EXCEPT ![t] = None]
    /\ pc' = [pc EXCEPT ![t] = "idle"]
    /\ UNCHANGED <<active, handling, stateVars, objectVars, target>>

Begin(t, o) ==
    /\ pc[t] = "idle" /\ o \in script
    /\ refs' = [refs EXCEPT ![o] = @ + 1]
    /\ pc' = [pc EXCEPT ![t] = "add"]
    /\ target' = [target EXCEPT ![t] = o]
    /\ Allocate(t)
    /\ UNCHANGED <<clientVars, stateVars, script>>

\* The C client subscribes an endpoint that is added to a service that runs.
EndpointAdded(t) ==
    /\ pc[t] = "add"
    /\ active' = IF service = "running" THEN active \cup {own[t]} ELSE active
    /\ pc' = [pc EXCEPT ![t] = "register"]
    /\ UNCHANGED <<service, handling, allocated, stateVars, objectVars, target, own>>

EndpointFails(t) ==
    /\ pc[t] = "add"
    /\ allocated' = allocated \ {own[t]}
    /\ Return(t)
    /\ service' = Destructed
    /\ UNCHANGED <<active, handling, stateVars>>

\* registerHandler(): after the done handler ran, the context is released at once.
RegisterUnlessDone(t) ==
    /\ pc[t] = "register"
    /\ IF done
       THEN allocated' = allocated \ {own[t]} /\ UNCHANGED handlers
       ELSE handlers' = handlers \cup {own[t]} /\ UNCHANGED allocated
    /\ Return(t)
    /\ service' = Destructed
    /\ UNCHANGED <<active, handling, done, dying>>

RegisterAlways(t) ==                            \* mutant: done is not looked at
    /\ pc[t] = "register"
    /\ handlers' = handlers \cup {own[t]}
    /\ Return(t)
    /\ service' = Destructed
    /\ UNCHANGED <<active, handling, allocated, done, dying>>

Register(t) == RegisterUnlessDone(t)

(***************************************************************************)
(* The other operations of Qore code.                                      *)
(***************************************************************************)

\* addGroup() of the service or of a group: the group refers to the service either way.
AddGroup(g) ==
    /\ script # {} /\ refs[g] = 0 /\ service # "creating"
    /\ refs' = NewGroup(g)
    /\ script' = script \cup {g}
    /\ UNCHANGED <<clientVars, allocated, stateVars, threadVars>>

Drop(o) ==
    /\ o \in script
    /\ script' = script \ {o}
    /\ refs' = Dropped(o)
    /\ service' = Destructed
    /\ UNCHANGED <<active, handling, allocated, stateVars, threadVars>>

StopReleasing ==                                \* mutant: stop() releases the contexts itself
    /\ Svc \in script /\ service = "running"
    /\ service' = "stopping"
    /\ allocated' = allocated \ handlers
    /\ handlers' = {}
    /\ UNCHANGED <<active, handling, done, dying, objectVars, threadVars>>

Stop ==
    /\ Svc \in script /\ service = "running"
    /\ service' = "stopping"
    /\ UNCHANGED <<active, handling, allocated, stateVars, objectVars, threadVars>>

(***************************************************************************)
(* The C client's threads.                                                 *)
(***************************************************************************)

\* requestHandler() runs the handler of the endpoint's context, and answers with its value or an error.
Request(c) ==
    /\ c \in active \ handling
    /\ handling' = handling \cup {c}
    /\ UNCHANGED <<service, active, allocated, stateVars, objectVars, threadVars>>

Answer(c) ==
    /\ c \in handling
    /\ handling' = handling \ {c}
    /\ UNCHANGED <<service, active, allocated, stateVars, objectVars, threadVars>>

\* The connection is closed.
ConnectionEnds ==
    /\ service = "running"
    /\ service' = "stopping"
    /\ UNCHANGED <<active, handling, allocated, stateVars, objectVars, threadVars>>

EndpointComplete(c) ==
    /\ service = "stopping" /\ c \in active \ handling
    /\ active' = active \ {c}
    /\ UNCHANGED <<service, handling, allocated, stateVars, objectVars, threadVars>>

\* serviceDone() under the lock: from now on contexts are released as they are registered.
Swap ==
    /\ done' = TRUE
    /\ dying' = handlers
    /\ handlers' = {}

Copy ==                                         \* mutant: the contexts stay in the shared vector
    /\ done' = TRUE
    /\ dying' = handlers
    /\ handlers' = handlers

TakeHandlers == Swap

ServiceDone ==
    /\ (service = "stopping" /\ active = {}) \/ service = "partial"
    /\ service' = "done"
    /\ TakeHandlers
    /\ UNCHANGED <<active, handling, allocated, objectVars, threadVars>>

\* releaseHandlers() for the contexts that serviceDone() took.
ReleaseHandler(c) ==
    /\ c \in dying
    /\ dying' = dying \ {c}
    /\ allocated' = allocated \ {c}
    /\ UNCHANGED <<clientVars, handlers, done, objectVars, threadVars>>

-----------------------------------------------------------------------------

Call(t) == ServiceAdded(t) \/ ServiceFails(t) \/ EndpointAdded(t) \/ EndpointFails(t) \/ Register(t)

Next ==
    \/ \E t \in Thread : Create(t) \/ Call(t)
    \/ \E t \in Thread, o \in Object : Begin(t, o)
    \/ \E g \in Group : AddGroup(g)
    \/ \E o \in Object : Drop(o)
    \/ Stop \/ ConnectionEnds \/ ServiceDone
    \/ \E c \in Context : Request(c) \/ Answer(c) \/ EndpointComplete(c) \/ ReleaseHandler(c)

Spec == Init /\ [][Next]_vars

\* Calls return, request handlers too, and the C client completes a service that is stopped: a
\* draining endpoint has a finite number of requests left, hence the strong fairness.
Fairness ==
    /\ \A t \in Thread : WF_vars(Call(t))
    /\ \A c \in Context :
          /\ WF_vars(Answer(c)) /\ WF_vars(ReleaseHandler(c))
          /\ SF_vars(EndpointComplete(c))
    /\ WF_vars(ServiceDone)

FairSpec == Spec /\ Fairness

-----------------------------------------------------------------------------
(***************************************************************************)
(* Properties.                                                             *)
(***************************************************************************)

\* Types of the variables (MicroServiceState, the wrapper objects and the locals of their calls).
TypeOK ==
    /\ service \in {"none", "creating", "running", "stopping", "done", "partial", "gone"}
    /\ active \subseteq Context /\ handling \subseteq Context
    /\ allocated \subseteq Context /\ handlers \subseteq Context /\ dying \subseteq Context
    /\ done \in BOOLEAN
    /\ refs \in [Object -> Nat] /\ script \subseteq Object
    /\ pc \in [Thread -> {"idle", "create", "add", "register"}]
    /\ target \in [Thread -> Object \cup {None}]
    /\ own \in [Thread -> Context \cup {None}]

\* No request handler uses a context that was released, nor can the C client start one with it
\* (requestHandler() against serviceDone(), registerHandler() and the failing paths).
HandlerContextExists == active \cup handling \subseteq allocated

\* Every context that exists has one owner, which will release it: the call that made it, the
\* shared vector, or the done handler; no one that is released is still owned by anybody.
OneOwner ==
    /\ allocated = handlers \cup dying \cup ({own[t] : t \in Thread} \ {None})
    /\ handlers \cap dying = {}
    /\ \A t \in Thread : own[t] \notin handlers \cup dying
    /\ \A t, u \in Thread : own[t] = own[u] /\ own[t] # None => t = u

\* An object that a group or a call uses has not been freed: a group has its service, whose
\* registerHandler() it calls, and a call has its object (QoreNatsMicroGroup's ref() and deref()).
ObjectsKept ==
    /\ \A o \in script : refs[o] > 0
    /\ \A g \in Group : refs[g] > 0 => refs[Svc] > 0
    /\ \A t \in Thread : target[t] # None => refs[target[t]] > 0

\* A service object that is freed, or whose service is stopped, has all its contexts released,
\* also those whose endpoint was being added (serviceDone() and registerHandler()).
Ended == service \in Ending \/ (service = "running" /\ refs[Svc] = 0)
ReleasedInTheEnd == \A c \in Context : Ended /\ c \in allocated ~> c \notin allocated

=============================================================================
