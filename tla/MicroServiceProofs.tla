-------------------------- MODULE MicroServiceProofs --------------------------
(***************************************************************************)
(* Proofs about MicroService, for any number of threads, contexts and      *)
(* groups.                                                                 *)
(*                                                                         *)
(* What the done handler and registerHandler() rely on is an order: done   *)
(* is set when the service has completed, after which no endpoint is       *)
(* subscribed and no request is handled, and a context that is not handed  *)
(* on belongs to the call that made it, whose endpoint is not subscribed   *)
(* before the C client's call.  Stages says so; with the ownership it is   *)
(* inductive.  Reference counts play no part in it: the destructor only    *)
(* stops a service that runs.                                              *)
(*                                                                         *)
(* They have invariants of their own, and so have the last theorems, that  *)
(* what a service holds is released in the end.                            *)
(***************************************************************************)
EXTENDS MicroService, FiniteSetTheorems, TLAPS

\* The types that the argument needs.
Types ==
    /\ active \subseteq Context /\ handling \subseteq Context
    /\ allocated \subseteq Context /\ handlers \subseteq Context /\ dying \subseteq Context
    /\ done \in BOOLEAN
    /\ pc \in [Thread -> {"idle", "create", "add", "register"}]
    /\ own \in [Thread -> Context \cup {None}]

\* The stages of the service and of the calls.
Stages ==
    /\ handling \subseteq active
    /\ active # {} => service \in {"running", "stopping"}
    /\ done => service = "done"
    /\ dying # {} => done
    /\ \A t \in Thread : pc[t] = "create" => service = "creating"
    /\ \A t, u \in Thread : pc[t] = "create" /\ pc[u] = "create" => t = u
    /\ \A t \in Thread : pc[t] = "idle" => own[t] = None
    /\ \A t \in Thread : pc[t] \in {"add", "register"} => own[t] # None
    /\ \A t \in Thread : pc[t] \in {"create", "add"} => own[t] \notin active

Inv == Types /\ Stages /\ OneOwner /\ HandlerContextExists

LEMMA InitInv == Init => Inv
  BY NamesAssumption DEF Init, Inv, Types, Stages, OneOwner, HandlerContextExists

\* A step that changes none of these variables, or only stops the service, keeps the invariant.
LEMMA OthersInv ==
    ASSUME Inv, UNCHANGED <<active, handling, allocated, handlers, done, dying, pc, own>>,
           service' = service \/ (service = "running" /\ service' = "stopping")
    PROVE  Inv'
  BY DEF Inv, Types, Stages, OneOwner, HandlerContextExists

\* A call that takes a new context, or none (Allocate, within Create and Begin).
LEMMA AllocateInv ==
    ASSUME Inv, NEW t \in Thread, NEW stage \in {"create", "add"},
           pc' = [pc EXCEPT ![t] = stage],
           stage = "create" => service = "none" /\ service' = "creating",
           stage = "add" => service' = service,
           Allocate(t) \/ (stage = "create" /\ UNCHANGED <<allocated, own>>),
           pc[t] = "idle", own[t] = None,
           UNCHANGED <<active, handling, handlers, done, dying>>
    PROVE  Inv'
<1> USE NamesAssumption DEF Inv
<1>1. Types'
  BY DEF Types, Allocate
<1>2. HandlerContextExists'
  BY DEF HandlerContextExists, Allocate
<1>3. OneOwner'
  <2>1. CASE Allocate(t)
    BY <2>1 DEF Allocate, OneOwner, Types, Stages
  <2>2. CASE UNCHANGED <<allocated, own>>
    BY <2>2 DEF OneOwner
  <2> QED
    BY <2>1, <2>2
<1>4. Stages'
  <2>1. own'[t] \notin active
    BY DEF Allocate, Types, Stages, HandlerContextExists
  <2> QED
    BY <2>1 DEF Stages, Types, Allocate
<1> QED
  BY <1>1, <1>2, <1>3, <1>4

\* A call that failed, or whose context is released at once: Return after the release.
LEMMA ReleaseOwnInv ==
    ASSUME Inv, NEW t \in Thread, own[t] \notin active,
           allocated' = allocated \ {own[t]},
           own' = [own EXCEPT ![t] = None],
           pc' = [pc EXCEPT ![t] = "idle"],
           UNCHANGED <<active, handling, handlers, done, dying>>,
           \/ service' = service
           \/ service = "running" /\ service' = "stopping"
           \/ pc[t] = "create"
    PROVE  Inv'
<1> USE NamesAssumption DEF Inv
<1>1. Types'
  BY DEF Types
<1>2. HandlerContextExists'
  BY DEF HandlerContextExists, Stages
<1>3. OneOwner'
  BY DEF OneOwner, Types
<1>4. Stages'
  BY DEF Stages, Types
<1> QED
  BY <1>1, <1>2, <1>3, <1>4

\* The context is handed on to the shared vector (registerHandler()).
LEMMA HandOnInv ==
    ASSUME Inv, NEW t \in Thread, own[t] # None, ~done, pc[t] = "register",
           handlers' = handlers \cup {own[t]},
           own' = [own EXCEPT ![t] = None],
           pc' = [pc EXCEPT ![t] = "idle"],
           UNCHANGED <<active, handling, allocated, done, dying>>,
           \/ service' = service
           \/ service = "running" /\ service' = "stopping"
    PROVE  Inv'
<1> USE NamesAssumption DEF Inv
<1>1. Types'
  BY DEF Types
<1>2. HandlerContextExists'
  BY DEF HandlerContextExists
<1>3. OneOwner'
  BY DEF OneOwner, Types
<1>4. Stages'
  BY DEF Stages, Types
<1> QED
  BY <1>1, <1>2, <1>3, <1>4

LEMMA DestructedStops == service' = Destructed => service' = service \/ (service = "running" /\ service' = "stopping")
  BY DEF Destructed, StopWhenFreed

LEMMA CallsInv ==
    ASSUME Inv, NEW t \in Thread, Create(t) \/ Call(t) \/ \E o \in Object : Begin(t, o)
    PROVE  Inv'
<1> USE NamesAssumption
<1>1. ASSUME Create(t) PROVE Inv'
  <2>1. pc[t] = "idle" /\ own[t] = None
    BY <1>1 DEF Create, Inv, Stages
  <2> QED
    BY <1>1, <2>1, AllocateInv DEF Create, stateVars
<1>2. ASSUME NEW o \in Object, Begin(t, o) PROVE Inv'
  <2>1. pc[t] = "idle" /\ own[t] = None
    BY <1>2 DEF Begin, Inv, Stages
  <2> QED
    BY <1>2, <2>1, AllocateInv DEF Begin, stateVars, clientVars
<1>3. ASSUME ServiceAdded(t) PROVE Inv'
  <2> USE <1>3 DEF ServiceAdded, stateVars
  <2>1. active = {} /\ handling = {} /\ ~done /\ dying = {}
    BY DEF Inv, Stages, Types
  <2>6. UNCHANGED <<allocated, handlers, done, dying, own, handling>>
    OBVIOUS
  <2>7. \/ pc' = [pc EXCEPT ![t] = "idle"] /\ own[t] = None
        \/ pc' = [pc EXCEPT ![t] = "register"] /\ own[t] # None
    BY ONLY <1>3, Zenon DEF ServiceAdded
  <2>8. active' = {own[t]} \ {None} /\ service' = "running"
    OBVIOUS
  <2>9. own[t] = None \/ own[t] \in allocated
    BY DEF Inv, OneOwner
  <2>2. Types'
    BY ONLY <2>6, <2>7, <2>8, Inv, t \in Thread, NamesAssumption DEF Inv, Types
  <2>3. HandlerContextExists'
    BY ONLY <2>1, <2>6, <2>8, <2>9 DEF HandlerContextExists
  <2>4. OneOwner'
    BY ONLY <2>6, Inv DEF Inv, OneOwner
  <2>5. Stages'
    <3>1. \A u \in Thread : pc'[u] \in {"create", "add"} => u # t /\ pc[u] = pc'[u]
      BY ONLY <2>7, Inv, t \in Thread DEF Inv, Types
    <3>2. \A u \in Thread : pc'[u] \in {"create", "add"} => own'[u] \notin active'
      BY ONLY <3>1, <2>6, <2>8, Inv DEF Inv, OneOwner
    <3>3. \A u \in Thread : pc'[u] # "create"
      BY ONLY <3>1, <1>3, Inv, t \in Thread DEF Inv, Stages, ServiceAdded
    <3>4. \A u \in Thread : /\ pc'[u] = "idle" => own'[u] = None
                            /\ pc'[u] \in {"add", "register"} => own'[u] # None
      BY ONLY <2>6, <2>7, Inv, t \in Thread DEF Inv, Stages, Types
    <3> QED
      BY <2>1, <2>6, <2>8, <3>2, <3>3, <3>4 DEF Stages
  <2> QED
    BY <2>2, <2>3, <2>4, <2>5 DEF Inv
<1>4. ASSUME ServiceFails(t) PROVE Inv'
  <2>1. own[t] \notin active
    BY <1>4 DEF ServiceFails, Inv, Stages
  <2> QED
    BY <1>4, <2>1, ReleaseOwnInv DEF ServiceFails, stateVars
<1>5. ASSUME EndpointAdded(t) PROVE Inv'
  <2> USE <1>5 DEF EndpointAdded, stateVars
  <2>5. own[t] \in allocated
    BY DEF Inv, Stages, OneOwner
  <2>6. active' \subseteq active \cup {own[t]}
    OBVIOUS
  <2>1. Types'
    BY <2>5, <2>6 DEF Inv, Types
  <2>2. HandlerContextExists'
    BY <2>5, <2>6 DEF Inv, HandlerContextExists
  <2>3. OneOwner'
    BY DEF Inv, OneOwner
  <2>4. Stages'
    BY DEF Inv, Stages, Types, OneOwner
  <2> QED
    BY <2>1, <2>2, <2>3, <2>4 DEF Inv
<1>6. ASSUME EndpointFails(t) PROVE Inv'
  <2>1. own[t] \notin active
    BY <1>6 DEF EndpointFails, Inv, Stages
  <2> QED
    BY <1>6, <2>1, ReleaseOwnInv, DestructedStops DEF EndpointFails, Return, stateVars
<1>7. ASSUME Register(t) PROVE Inv'
  <2> USE <1>7 DEF Register, RegisterUnlessDone, Return
  <2>1. CASE done
    <3>1. active = {}
      BY <2>1 DEF Inv, Stages
    <3> QED
      BY <2>1, <3>1, ReleaseOwnInv, DestructedStops
  <2>2. CASE ~done
    <3>1. own[t] # None
      BY DEF Inv, Stages
    <3> QED
      BY <2>2, <3>1, HandOnInv, DestructedStops
  <2> QED
    BY <2>1, <2>2
<1> QED
  BY <1>1, <1>2, <1>3, <1>4, <1>5, <1>6, <1>7 DEF Call

\* The other operations of Qore code change references and may stop the service.
LEMMA OperationsInv ==
    ASSUME Inv, Stop \/ (\E g \in Group : AddGroup(g)) \/ (\E o \in Object : Drop(o)) \/ ConnectionEnds
    PROVE  Inv'
<1>1. UNCHANGED <<active, handling, allocated, handlers, done, dying, pc, own>>
  BY DEF Stop, AddGroup, Drop, ConnectionEnds, stateVars, threadVars, clientVars
<1>2. service' = service \/ (service = "running" /\ service' = "stopping")
  BY DestructedStops DEF Stop, AddGroup, Drop, ConnectionEnds, clientVars
<1> QED
  BY <1>1, <1>2, OthersInv

\* The threads of the C client.
LEMMA ClientInv ==
    ASSUME Inv,
           \/ ServiceDone
           \/ \E c \in Context : Request(c) \/ Answer(c) \/ EndpointComplete(c) \/ ReleaseHandler(c)
    PROVE  Inv'
<1>1. ASSUME ServiceDone PROVE Inv'
  <2> USE <1>1 DEF ServiceDone, TakeHandlers, Swap, threadVars
  <2>1. active = {} /\ dying = {}
    BY DEF Inv, Stages
  <2>2. Types'
    BY DEF Inv, Types
  <2>3. HandlerContextExists'
    BY DEF Inv, HandlerContextExists
  <2>4. OneOwner'
    BY <2>1 DEF Inv, OneOwner
  <2>5. Stages'
    BY <2>1 DEF Inv, Stages, Types
  <2> QED
    BY <2>2, <2>3, <2>4, <2>5 DEF Inv
<1>2. ASSUME NEW c \in Context, Request(c) PROVE Inv'
  BY <1>2 DEF Request, stateVars, threadVars, Inv, Types, Stages, OneOwner, HandlerContextExists
<1>3. ASSUME NEW c \in Context, Answer(c) PROVE Inv'
  BY <1>3 DEF Answer, stateVars, threadVars, Inv, Types, Stages, OneOwner, HandlerContextExists
<1>4. ASSUME NEW c \in Context, EndpointComplete(c) PROVE Inv'
  BY <1>4 DEF EndpointComplete, stateVars, threadVars, Inv, Types, Stages, OneOwner, HandlerContextExists
<1>5. ASSUME NEW c \in Context, ReleaseHandler(c) PROVE Inv'
  <2> USE <1>5 DEF ReleaseHandler, clientVars, threadVars
  <2>1. active = {} /\ handling = {}
    BY DEF Inv, Stages
  <2>2. Types'
    BY DEF Inv, Types
  <2>3. HandlerContextExists'
    BY <2>1 DEF HandlerContextExists
  <2>4. OneOwner'
    BY DEF Inv, OneOwner
  <2>5. Stages'
    BY <2>1 DEF Inv, Stages, Types
  <2> QED
    BY <2>2, <2>3, <2>4, <2>5 DEF Inv
<1> QED
  BY <1>1, <1>2, <1>3, <1>4, <1>5

LEMMA NextInv == Inv /\ [Next]_vars => Inv'
<1> SUFFICES ASSUME Inv, [Next]_vars PROVE Inv'
  OBVIOUS
<1>1. CASE UNCHANGED vars
  BY <1>1, OthersInv DEF vars, clientVars, stateVars, threadVars
<1>2. CASE Next
  BY <1>2, CallsInv, OperationsInv, ClientInv DEF Next
<1> QED
  BY <1>1, <1>2

LEMMA Invariance == Spec => []Inv
<1> QED
  BY InitInv, NextInv, PTL DEF Spec

\* No request handler uses a context that was released (requestHandler(), serviceDone(),
\* registerHandler() and the failing paths of the constructor and addEndpoint()).
THEOREM HandlersSafe == Spec => []HandlerContextExists
<1>1. Inv => HandlerContextExists
  BY DEF Inv
<1> QED
  BY <1>1, Invariance, PTL

\* Every context that exists has exactly one owner that will release it: no path leaks a context or
\* releases one twice.
THEOREM ContextsOwned == Spec => []OneOwner
<1>1. Inv => OneOwner
  BY DEF Inv
<1> QED
  BY <1>1, Invariance, PTL

-----------------------------------------------------------------------------
(***************************************************************************)
(* References: the count of an object is the number of its holders, which  *)
(* are the calls on it (for the service, its constructor too), the script  *)
(* and, for the service, the groups that have not been freed.  There are   *)
(* finitely many of them at any time, however many threads there are.      *)
(***************************************************************************)

Uses(t, o) == target[t] = o \/ (o = Svc /\ target[t] = None /\ pc[t] = "register")
Direct(o) == ({"call"} \X {t \in Thread : Uses(t, o)}) \cup ({"script"} \X (script \cap {o}))
Holders(o) == Direct(o) \cup ({"group"} \X {g \in Group : o = Svc /\ refs[g] > 0})

Counts == \A o \in Object : IsFiniteSet(Holders(o)) /\ refs[o] = Cardinality(Holders(o))

RefTypes ==
    /\ service \in {"none", "creating", "running", "stopping", "done", "partial", "gone"}
    /\ refs \in [Object -> Nat] /\ script \subseteq Object
    /\ pc \in [Thread -> {"idle", "create", "add", "register"}]
    /\ target \in [Thread -> Object \cup {None}]

\* Until the constructor returns, nobody else has the service.
Making(t) == pc[t] = "create" \/ (pc[t] = "register" /\ target[t] = None)

Early ==
    /\ service \in {"none", "creating"} =>
          /\ script = {} /\ \A o \in Object : refs[o] = 0
          /\ \A t \in Thread : target[t] = None /\ pc[t] \in {"idle", "create"}
    /\ service = "none" => \A t \in Thread : pc[t] = "idle"
    /\ \A t \in Thread : pc[t] = "create" => service = "creating"
    /\ \A t \in Thread : pc[t] \in {"idle", "create"} => target[t] = None
    /\ \A t \in Thread : pc[t] = "add" => target[t] # None
    /\ \A t \in Thread : Making(t) =>
          /\ script = {} /\ \A g \in Group : refs[g] = 0
          /\ \A u \in Thread : target[u] = None /\ (Making(u) => u = t)

RefInv == RefTypes /\ Early /\ Counts

LEMMA NoHolders == ASSUME Counts, NEW o \in Object, refs[o] = 0 PROVE Holders(o) = {}
  BY FS_EmptySet DEF Counts

\* Who holds an object is counted.
LEMMA HeldCounted == ASSUME RefTypes, Counts, NEW o \in Object, NEW x, x \in Holders(o) PROVE refs[o] > 0
<1>1. Cardinality(Holders(o)) # 0
  BY FS_EmptySet DEF Counts
<1>2. refs[o] \in Nat /\ refs[o] = Cardinality(Holders(o))
  BY DEF RefTypes, Counts
<1> QED
  BY <1>1, <1>2

LEMMA InitRef == Init => RefInv
<1> SUFFICES ASSUME Init PROVE RefInv
  OBVIOUS
<1>1. RefTypes
  BY DEF Init, RefTypes
<1>2. Early
  BY DEF Init, Early, Making
<1>3. \A o \in Object : Holders(o) = {}
  BY NamesAssumption DEF Init, Holders, Direct, Uses, Object
<1>4. Counts
  BY <1>3, FS_EmptySet DEF Counts, Init
<1> QED
  BY <1>1, <1>2, <1>4 DEF RefInv

\* A step that changes no reference and no holder.
LEMMA SameCounts ==
    ASSUME Counts, refs' = refs, \A o \in Object : Direct(o)' = Direct(o)
    PROVE  Counts'
<1>1. \A o \in Object : Holders(o)' = Holders(o)
  BY DEF Holders
<1> QED
  BY <1>1 DEF Counts

\* A reference to o is taken for the holder x, when o has been made.
LEMMA AddedCounts ==
    ASSUME RefTypes, Counts, NEW o \in Object, NEW x, x \notin Holders(o),
           o \in Group => refs[o] > 0,
           refs' = [refs EXCEPT ![o] = @ + 1],
           \A p \in Object : Direct(p)' = IF p = o THEN Direct(p) \cup {x} ELSE Direct(p)
    PROVE  Counts'
<1>1. \A g \in Group : refs'[g] > 0 <=> refs[g] > 0
  BY DEF RefTypes, Object
<1>2. \A p \in Object : Holders(p)' = IF p = o THEN Holders(p) \cup {x} ELSE Holders(p)
  BY <1>1 DEF Holders
<1>3. IsFiniteSet(Holders(o)) /\ refs[o] = Cardinality(Holders(o))
  BY DEF Counts
<1>4. IsFiniteSet(Holders(o) \cup {x}) /\ Cardinality(Holders(o) \cup {x}) = refs[o] + 1
  BY <1>3, FS_AddElement
<1>5. \A p \in Object : refs'[p] = IF p = o THEN refs[o] + 1 ELSE refs[p]
  BY DEF RefTypes
<1> QED
  BY <1>2, <1>4, <1>5 DEF Counts

\* The holder x gives a reference to o back, and a group that is freed gives back the service.
LEMMA DroppedCounts ==
    ASSUME RefTypes, Counts, NEW o \in Object, NEW x, x \in Direct(o),
           refs' = Dropped(o),
           \A p \in Object : Direct(p)' = IF p = o THEN Direct(p) \ {x} ELSE Direct(p)
    PROVE  refs' \in [Object -> Nat] /\ Counts' /\ \A g \in Group : refs'[g] <= refs[g]
<1> DEFINE last == o \in Group /\ refs[o] = 1
<1>1. Svc \in Object /\ Svc \notin Group /\ \A g \in Group : g \in Object /\ g # Svc
  BY NamesAssumption DEF Object
<1>2. x \in Holders(o) /\ refs[o] > 0
  BY HeldCounted DEF Holders
<1>3. last => <<"group", o>> \in Holders(Svc) /\ refs[Svc] > 0
  <2> SUFFICES ASSUME last PROVE <<"group", o>> \in Holders(Svc) /\ refs[Svc] > 0
    OBVIOUS
  <2>1. <<"group", o>> \in Holders(Svc)
    BY <1>2 DEF Holders
  <2> QED
    BY <2>1, <1>1, HeldCounted
<1>4. refs' = IF last THEN [[refs EXCEPT ![o] = @ - 1] EXCEPT ![Svc] = @ - 1] ELSE [refs EXCEPT ![o] = @ - 1]
  <2>1. refs[o] \in Nat /\ [refs EXCEPT ![o] = @ - 1][o] = refs[o] - 1
    BY DEF RefTypes
  <2>2. [refs EXCEPT ![o] = @ - 1][o] = 0 <=> refs[o] = 1
    BY <2>1
  <2> QED
    BY <2>2 DEF Dropped, Deref
<1>5. \A p \in Object : refs'[p] = IF p = o \/ (p = Svc /\ last) THEN refs[p] - 1 ELSE refs[p]
  BY <1>1, <1>4 DEF RefTypes
<1>6. refs' \in [Object -> Nat]
  <2>1. \A p \in Object : refs'[p] \in Nat
    BY <1>2, <1>3, <1>5 DEF RefTypes
  <2>2. \E f : refs' = [p \in Object |-> f[p]]
    BY <1>4 DEF RefTypes
  <2> QED
    BY <2>1, <2>2
<1>7. \A g \in Group : refs'[g] > 0 <=> refs[g] > 0 /\ ~(last /\ g = o)
  BY <1>1, <1>2, <1>5 DEF RefTypes
<1>8. \A p \in Object \ {o, Svc} : Holders(p)' = Holders(p)
  BY DEF Holders
<1>9. CASE last
  <2>1. Holders(o)' = Holders(o) \ {x}
    BY <1>1, <1>9 DEF Holders
  <2>2. Holders(Svc)' = Holders(Svc) \ {<<"group", o>>}
    BY <1>1, <1>7, <1>9 DEF Holders, Direct
  <2>3. Counts'
    <3>1. ASSUME NEW p \in Object, NEW y, y \in Holders(p), Holders(p)' = Holders(p) \ {y}, refs'[p] = refs[p] - 1
          PROVE  IsFiniteSet(Holders(p)') /\ refs'[p] = Cardinality(Holders(p)')
      BY <3>1, FS_RemoveElement DEF Counts
    <3>2. o \in Object /\ o # Svc
      BY <1>1, <1>9
    <3>3. refs'[o] = refs[o] - 1 /\ refs'[Svc] = refs[Svc] - 1
      BY <1>1, <1>5, <1>9
    <3>4. IsFiniteSet(Holders(o)') /\ refs'[o] = Cardinality(Holders(o)')
      BY <3>1, <3>3, <1>2, <2>1
    <3>5. IsFiniteSet(Holders(Svc)') /\ refs'[Svc] = Cardinality(Holders(Svc)')
      BY <3>1, <3>3, <1>1, <1>3, <1>9, <2>2
    <3>6. \A p \in Object \ {o, Svc} : IsFiniteSet(Holders(p)') /\ refs'[p] = Cardinality(Holders(p)')
      BY <1>5, <1>8 DEF Counts
    <3> QED
      BY <3>4, <3>5, <3>6 DEF Counts
  <2> QED
    BY <1>1, <1>5, <1>6, <2>3 DEF RefTypes
<1>10. CASE ~last
  <2>1. Holders(o)' = Holders(o) \ {x}
    BY <1>1, <1>7, <1>10 DEF Holders, Direct
  <2>2. \A p \in Object \ {o} : Holders(p)' = Holders(p)
    BY <1>1, <1>7, <1>10 DEF Holders
  <2>3. Counts'
    BY <1>2, <1>5, <1>10, <2>1, <2>2, FS_RemoveElement DEF Counts
  <2> QED
    BY <1>1, <1>5, <1>6, <2>3 DEF RefTypes
<1> QED
  BY <1>9, <1>10

LEMMA ServiceIsObject == Svc \in Object /\ Svc \notin Group /\ (\A g \in Group : g \in Object /\ g # Svc) /\ None \notin Object
  BY NamesAssumption DEF Object

LEMMA CreateRef == ASSUME RefInv, NEW t \in Thread, Create(t) PROVE RefInv'
<1> USE DEF RefInv, Create, objectVars
<1>1. RefTypes'
  BY DEF RefTypes
<1>2. Early'
  <2>1. /\ script = {} /\ \A o \in Object : refs[o] = 0
        /\ \A u \in Thread : target[u] = None /\ pc[u] = "idle"
    BY DEF Early
  <2>2. \A u \in Thread : pc'[u] = IF u = t THEN "create" ELSE "idle"
    BY <2>1 DEF RefTypes
  <2> QED
    BY <2>1, <2>2, ServiceIsObject DEF Early, Making
<1>3. \A o \in Object : Direct(o)' = Direct(o)
  BY DEF RefTypes, Direct, Uses
<1> QED
  BY <1>1, <1>2, <1>3, SameCounts

\* The object is made; its first holder is the constructor, or the caller that it returns to.
LEMMA ServiceAddedRef == ASSUME RefInv, NEW t \in Thread, ServiceAdded(t) PROVE RefInv'
<1> USE ServiceIsObject DEF RefInv, ServiceAdded
<1>1. /\ script = {} /\ \A o \in Object : refs[o] = 0
      /\ \A u \in Thread : target[u] = None /\ pc[u] \in {"idle", "create"} /\ (pc[u] = "create" => u = t)
  BY DEF Early, Making
<1>2. refs' = [refs EXCEPT ![Svc] = 1] /\ \A g \in Group : refs'[g] = 0
  BY <1>1 DEF RefTypes
<1>3. RefTypes'
  BY <1>2 DEF RefTypes
<1>4. Early'
  BY <1>1, <1>2 DEF RefTypes, Early, Making
<1>5. PICK x : \A o \in Object : Direct(o)' = IF o = Svc THEN {x} ELSE {}
  <2>1. CASE own[t] = None
    <3>1. pc' = [pc EXCEPT ![t] = "idle"] /\ script' = {Svc} /\ target' = target
      BY <2>1
    <3>2. \A o \in Object : Direct(o)' = IF o = Svc THEN {<<"script", Svc>>} ELSE {}
      <4>1. \A o \in Object, u \in Thread : ~Uses(u, o)'
        BY <1>1, <3>1 DEF RefTypes, Uses
      <4>2. \A o \in Object : {u \in Thread : Uses(u, o)}' = {} /\ (script \cap {o})' = IF o = Svc THEN {Svc} ELSE {}
        BY <3>1, <4>1
      <4> QED
        BY <4>2 DEF Direct
    <3> QED
      BY <3>2
  <2>2. CASE own[t] # None
    <3>1. pc' = [pc EXCEPT ![t] = "register"] /\ script' = {} /\ target' = target
      BY <1>1, <2>2
    <3>2. \A o \in Object : Direct(o)' = IF o = Svc THEN {<<"call", t>>} ELSE {}
      BY <1>1, <3>1 DEF RefTypes, Direct, Uses
    <3> QED
      BY <3>2
  <2> QED
    BY <2>1, <2>2
<1>6. \A o \in Object : Holders(o)' = IF o = Svc THEN {x} ELSE {}
  BY <1>2, <1>5 DEF Holders
<1>7. IsFiniteSet({x}) /\ Cardinality({x}) = 1
  BY FS_Singleton
<1>8. \A o \in Object : refs'[o] = IF o = Svc THEN 1 ELSE 0
  BY <1>1 DEF RefTypes
<1>9. Counts'
  BY <1>6, <1>7, <1>8, FS_EmptySet DEF Counts
<1> QED
  BY <1>3, <1>4, <1>9

LEMMA ServiceFailsRef == ASSUME RefInv, NEW t \in Thread, ServiceFails(t) PROVE RefInv'
<1> USE DEF RefInv, ServiceFails, objectVars
<1>1. RefTypes'
  BY DEF RefTypes
<1>2. Early'
  BY DEF RefTypes, Early, Making
<1>3. \A o \in Object : Direct(o)' = Direct(o)
  BY DEF RefTypes, Direct, Uses
<1> QED
  BY <1>1, <1>2, <1>3, SameCounts

\* A call keeps its object.
LEMMA BeginRef == ASSUME RefInv, NEW t \in Thread, NEW o \in Object, Begin(t, o) PROVE RefInv'
<1> USE ServiceIsObject DEF RefInv, Begin, clientVars
<1>1. target[t] = None /\ pc[t] = "idle" /\ o \in script
  BY DEF Early
<1>2. refs[o] > 0
  <2>1. <<"script", o>> \in Holders(o)
    BY <1>1 DEF Holders, Direct
  <2> QED
    BY <2>1, HeldCounted
<1>3. RefTypes'
  BY DEF RefTypes
<1>4. service \notin {"none", "creating"} /\ \A u \in Thread : ~Making(u)
  BY <1>1 DEF Early
<1>5. Early'
  BY <1>1, <1>4 DEF RefTypes, Early, Making
<1>6. \A p \in Object : Direct(p)' = IF p = o THEN Direct(p) \cup {<<"call", t>>} ELSE Direct(p)
  BY <1>1 DEF RefTypes, Direct, Uses
<1>7. <<"call", t>> \notin Holders(o)
  BY <1>1 DEF Holders, Direct, Uses
<1>8. Counts'
  BY <1>2, <1>6, <1>7, AddedCounts
<1> QED
  BY <1>3, <1>5, <1>8

LEMMA EndpointAddedRef == ASSUME RefInv, NEW t \in Thread, EndpointAdded(t) PROVE RefInv'
<1> USE DEF RefInv, EndpointAdded, objectVars
<1>1. target[t] # None
  BY DEF Early
<1>2. RefTypes'
  BY DEF RefTypes
<1>3. Early'
  BY <1>1 DEF RefTypes, Early, Making
<1>4. \A o \in Object : Direct(o)' = Direct(o)
  BY <1>1 DEF RefTypes, Direct, Uses
<1> QED
  BY <1>2, <1>3, <1>4, SameCounts

\* The constructor gives its reference to the caller, and another call gives it back.
LEMMA ReturnRef ==
    ASSUME RefInv, NEW t \in Thread, pc[t] \in {"add", "register"}, Return(t), service' = Destructed
    PROVE  RefInv'
<1> USE ServiceIsObject DEF RefInv, Return
<1>1. service \notin {"none", "creating"}
  BY DEF Early
<1>2. service' = service \/ (service = "running" /\ service' = "stopping")
  BY DestructedStops
<1>3. CASE target[t] = None
  <2>1. /\ refs' = refs /\ script' = {Svc} /\ Making(t) /\ pc[t] = "register" /\ script = {}
        /\ \A u \in Thread : target[u] = None /\ (Making(u) => u = t)
    BY <1>3 DEF Early, Making
  <2>2. target' = target
    BY <1>3 DEF RefTypes
  <2>3. RefTypes'
    BY <1>2, <2>1, <2>2 DEF RefTypes
  <2>4. Early'
    BY <1>1, <1>2, <2>1, <2>2 DEF RefTypes, Early, Making
  <2>5. \A o \in Object : Holders(o)' =
            IF o = Svc THEN (Holders(o) \ {<<"call", t>>}) \cup {<<"script", Svc>>} ELSE Holders(o)
    <3>1. \A o \in Object, u \in Thread : ~Uses(u, o)' /\ (Uses(u, o) <=> u = t /\ o = Svc)
      BY <2>1, <2>2 DEF RefTypes, Uses, Making
    <3>2. \A o \in Object : Direct(o) = IF o = Svc THEN {<<"call", t>>} ELSE {}
      BY <2>1, <3>1 DEF Direct
    <3>3. \A o \in Object : Direct(o)' = IF o = Svc THEN {<<"script", Svc>>} ELSE {}
      <4>1. \A o \in Object : {u \in Thread : Uses(u, o)}' = {} /\ (script \cap {o})' = IF o = Svc THEN {Svc} ELSE {}
        BY <2>1, <3>1
      <4> QED
        BY <4>1 DEF Direct
    <3> QED
      BY <2>1, <3>2, <3>3 DEF Holders
  <2>6. <<"call", t>> \in Holders(Svc) /\ <<"script", Svc>> \notin Holders(Svc) \ {<<"call", t>>}
    BY <2>1 DEF Holders, Direct, Uses
  <2>7. IsFiniteSet(Holders(Svc)) /\ refs[Svc] = Cardinality(Holders(Svc)) /\ refs[Svc] \in Nat
    BY DEF Counts, RefTypes
  <2>8. IsFiniteSet(Holders(Svc) \ {<<"call", t>>}) /\ Cardinality(Holders(Svc) \ {<<"call", t>>}) = refs[Svc] - 1
    BY <2>6, <2>7, FS_RemoveElement
  <2>9. IsFiniteSet(Holders(Svc)') /\ Cardinality(Holders(Svc)') = refs[Svc]
    <3>1. Cardinality((Holders(Svc) \ {<<"call", t>>}) \cup {<<"script", Svc>>}) = (refs[Svc] - 1) + 1
      BY <2>6, <2>8, FS_AddElement
    <3>2. IsFiniteSet((Holders(Svc) \ {<<"call", t>>}) \cup {<<"script", Svc>>})
      BY <2>8, FS_AddElement
    <3>3. Holders(Svc)' = (Holders(Svc) \ {<<"call", t>>}) \cup {<<"script", Svc>>}
      BY <2>5
    <3>4. (refs[Svc] - 1) + 1 = refs[Svc]
      BY <2>7
    <3> QED
      BY <3>1, <3>2, <3>3, <3>4
  <2>10. Counts'
    BY <2>1, <2>5, <2>9 DEF Counts
  <2> QED
    BY <2>3, <2>4, <2>10
<1>4. CASE target[t] # None
  <2> DEFINE o == target[t]
  <2>1. o \in Object /\ refs' = Dropped(o) /\ script' = script
    BY <1>4 DEF RefTypes
  <2>2. <<"call", t>> \in Direct(o)
    BY DEF Direct, Uses
  <2>3. \A p \in Object : Direct(p)' = IF p = o THEN Direct(p) \ {<<"call", t>>} ELSE Direct(p)
    BY <1>4, <2>1 DEF RefTypes, Direct, Uses
  <2>4. refs' \in [Object -> Nat] /\ Counts' /\ \A g \in Group : refs'[g] <= refs[g]
    BY <2>1, <2>2, <2>3, DroppedCounts
  <2>5. RefTypes'
    BY <1>2, <2>1, <2>4 DEF RefTypes
  <2>6. \A u \in Thread : ~Making(u)
    BY <1>4 DEF Early
  <2>7. \A u \in Thread : ~Making(u)'
    BY <2>6 DEF RefTypes, Making
  <2>8. Early'
    BY <1>1, <1>2, <2>6, <2>7 DEF RefTypes, Early, Making
  <2> QED
    BY <2>4, <2>5, <2>8
<1> QED
  BY <1>3, <1>4

LEMMA DropRef == ASSUME RefInv, NEW o \in Object, Drop(o) PROVE RefInv'
<1> USE ServiceIsObject DEF RefInv, Drop, threadVars
<1>1. service \notin {"none", "creating"} /\ \A u \in Thread : ~Making(u)
  BY DEF Early
<1>2. service' = service \/ (service = "running" /\ service' = "stopping")
  BY DestructedStops
<1>3. <<"script", o>> \in Direct(o)
  BY DEF Direct
<1>4. \A p \in Object : Direct(p)' = IF p = o THEN Direct(p) \ {<<"script", o>>} ELSE Direct(p)
  BY DEF Direct, Uses
<1>5. refs' \in [Object -> Nat] /\ Counts'
  BY <1>3, <1>4, DroppedCounts
<1>6. RefTypes'
  BY <1>2, <1>5 DEF RefTypes
<1>7. Early'
  BY <1>1, <1>2 DEF RefTypes, Early, Making
<1> QED
  BY <1>5, <1>6, <1>7

\* A group has its own reference, for the script, and one to its service.
LEMMA AddGroupRef == ASSUME RefInv, NEW g \in Group, AddGroup(g) PROVE RefInv'
<1> USE ServiceIsObject DEF RefInv, AddGroup, threadVars, clientVars
<1>1. service \notin {"none", "creating"} /\ \A u \in Thread : ~Making(u)
  BY DEF Early
<1>2. Holders(g) = {}
  BY NoHolders
<1>3. \A o \in Object : refs'[o] = IF o = g THEN 1 ELSE IF o = Svc THEN refs[o] + 1 ELSE refs[o]
  BY DEF RefTypes, NewGroup, GroupRefs
<1>4. RefTypes'
  BY DEF RefTypes, NewGroup, GroupRefs
<1>5. Early'
  BY <1>1 DEF RefTypes, Early, Making
<1>6. g \notin script /\ \A o \in Object : Direct(o)' = IF o = g THEN Direct(o) \cup {<<"script", g>>} ELSE Direct(o)
  <2>1. g \notin script
    <3>1. g \in script => <<"script", g>> \in Holders(g)
      BY DEF Holders, Direct
    <3> QED
      BY <1>2, <3>1
  <2>2. script' = script \cup {g} /\ \A o \in Object, u \in Thread : Uses(u, o)' <=> Uses(u, o)
    BY DEF Uses
  <2> QED
    BY <2>1, <2>2 DEF Direct
<1>7. \A h \in Group : refs'[h] > 0 <=> refs[h] > 0 \/ h = g
  BY <1>3 DEF RefTypes
<1>8. /\ Holders(g)' = {<<"script", g>>}
      /\ Holders(Svc)' = Holders(Svc) \cup {<<"group", g>>}
      /\ \A o \in Object \ {g, Svc} : Holders(o)' = Holders(o)
  <2>1. Holders(g)' = {<<"script", g>>}
    BY <1>2, <1>6 DEF Holders
  <2>2. Holders(Svc)' = Holders(Svc) \cup {<<"group", g>>}
    BY <1>6, <1>7 DEF Holders
  <2>3. \A o \in Object \ {g, Svc} : Holders(o)' = Holders(o)
    BY <1>6 DEF Holders
  <2> QED
    BY <2>1, <2>2, <2>3
<1>9. <<"group", g>> \notin Holders(Svc)
  BY DEF Holders, Direct
<1>10. IsFiniteSet(Holders(Svc)) /\ refs[Svc] = Cardinality(Holders(Svc))
  BY DEF Counts
<1>11. IsFiniteSet(Holders(Svc)') /\ refs'[Svc] = Cardinality(Holders(Svc)')
  <2>1. Holders(Svc)' = Holders(Svc) \cup {<<"group", g>>} /\ refs'[Svc] = refs[Svc] + 1
    BY ONLY <1>3, <1>8, ServiceIsObject, g \in Group
  <2>2. /\ IsFiniteSet(Holders(Svc) \cup {<<"group", g>>})
        /\ Cardinality(Holders(Svc) \cup {<<"group", g>>}) = Cardinality(Holders(Svc)) + 1
    BY ONLY <1>9, <1>10, FS_AddElement
  <2> QED
    BY ONLY <1>10, <2>1, <2>2
<1>12. IsFiniteSet(Holders(g)') /\ refs'[g] = Cardinality(Holders(g)')
  BY ONLY <1>3, <1>8, ServiceIsObject, g \in Group, FS_Singleton
<1>13. \A o \in Object \ {g, Svc} : IsFiniteSet(Holders(o)') /\ refs'[o] = Cardinality(Holders(o)')
  BY ONLY <1>3, <1>8, Counts DEF Counts
<1>14. Counts'
  BY ONLY <1>11, <1>12, <1>13 DEF Counts
<1> QED
  BY <1>4, <1>5, <1>14

\* What the C client does changes no reference.
LEMMA OthersRef ==
    ASSUME RefInv, UNCHANGED <<refs, script, pc, target>>,
           \/ service' = service
           \/ service \notin {"none", "creating"} /\ service' \in {"stopping", "done"}
    PROVE  RefInv'
<1> USE DEF RefInv
<1>1. RefTypes'
  BY DEF RefTypes
<1>2. Early'
  BY DEF Early, Making
<1>3. \A o \in Object : Direct(o)' = Direct(o)
  BY DEF Direct, Uses
<1> QED
  BY <1>1, <1>2, <1>3, SameCounts

LEMMA NextRef == RefInv /\ [Next]_vars => RefInv'
<1> SUFFICES ASSUME RefInv, [Next]_vars PROVE RefInv'
  OBVIOUS
<1>1. CASE UNCHANGED vars
  BY <1>1, OthersRef DEF vars, clientVars, objectVars, threadVars
<1>2. ASSUME NEW t \in Thread, Create(t) \/ Call(t) PROVE RefInv'
  <2>1. ASSUME EndpointFails(t) \/ Register(t) PROVE RefInv'
    BY <2>1, ReturnRef DEF EndpointFails, Register, RegisterUnlessDone
  <2> QED
    BY <1>2, <2>1, CreateRef, ServiceAddedRef, ServiceFailsRef, EndpointAddedRef DEF Call
<1>3. ASSUME Stop \/ ConnectionEnds \/ ServiceDone PROVE RefInv'
  BY <1>3, OthersRef DEF Stop, ConnectionEnds, ServiceDone, objectVars, threadVars
<1>4. ASSUME NEW c \in Context, Request(c) \/ Answer(c) \/ EndpointComplete(c) \/ ReleaseHandler(c) PROVE RefInv'
  BY <1>4, OthersRef DEF Request, Answer, EndpointComplete, ReleaseHandler, clientVars, objectVars, threadVars
<1> QED
  BY <1>1, <1>2, <1>3, <1>4, BeginRef, AddGroupRef, DropRef DEF Next

LEMMA RefInvariance == Spec => []RefInv
<1> QED
  BY InitRef, NextRef, PTL DEF Spec

\* Type correctness; that no reference count is negative is the part of it that needs an argument.
THEOREM TypeCorrect == Spec => []TypeOK
<1>1. Inv /\ RefInv => TypeOK
  BY DEF Inv, Types, RefInv, RefTypes, TypeOK
<1> QED
  BY <1>1, Invariance, RefInvariance, PTL

\* What is in use has not been freed: neither the service of a group, nor the object of a call.
THEOREM ObjectsSafe == Spec => []ObjectsKept
<1>1. ASSUME RefInv PROVE ObjectsKept
  <2> USE <1>1, ServiceIsObject DEF RefInv
  <2>1. ASSUME NEW o \in script PROVE refs[o] > 0
    <3>1. o \in Object /\ <<"script", o>> \in Holders(o)
      BY DEF RefTypes, Holders, Direct
    <3> QED
      BY <3>1, HeldCounted
  <2>2. ASSUME NEW g \in Group, refs[g] > 0 PROVE refs[Svc] > 0
    <3>1. <<"group", g>> \in Holders(Svc)
      BY <2>2 DEF Holders
    <3> QED
      BY <3>1, HeldCounted
  <2>3. ASSUME NEW t \in Thread, target[t] # None PROVE refs[target[t]] > 0
    <3>1. target[t] \in Object /\ <<"call", t>> \in Holders(target[t])
      BY <2>3 DEF RefTypes, Holders, Direct, Uses
    <3> QED
      BY <3>1, HeldCounted
  <2> QED
    BY <2>1, <2>2, <2>3 DEF ObjectsKept
<1> QED
  BY <1>1, RefInvariance, PTL

-----------------------------------------------------------------------------
(***************************************************************************)
(* The end of a service.  ENABLED has no proof rules here, so that         *)
(* fairness is stated with the guards of the actions written out.          *)
(***************************************************************************)

\* done tells the state of the service, and nothing is registered from then on.
Settled == (done <=> service = "done") /\ (done => handlers = {})

LEMMA InitSettled == Init => Settled
  BY DEF Init, Settled

LEMMA NextSettled == Inv /\ Settled /\ [Next]_vars => Settled'
<1> SUFFICES ASSUME Inv, Settled, [Next]_vars PROVE Settled'
  OBVIOUS
<1> USE DEF Settled
<1>1. ASSUME NEW t \in Thread, Create(t) \/ \E o \in Object : Begin(t, o) PROVE Settled'
  BY <1>1 DEF Create, Begin, stateVars, clientVars
<1>2. ASSUME NEW t \in Thread, ServiceAdded(t) \/ ServiceFails(t) PROVE Settled'
  BY <1>2 DEF ServiceAdded, ServiceFails, stateVars, Inv, Stages
<1>3. ASSUME NEW t \in Thread, EndpointAdded(t) PROVE Settled'
  BY <1>3 DEF EndpointAdded, stateVars
<1>4. ASSUME NEW t \in Thread, EndpointFails(t) PROVE Settled'
  BY <1>4, DestructedStops DEF EndpointFails, stateVars
<1>5. ASSUME NEW t \in Thread, Register(t) PROVE Settled'
  BY <1>5, DestructedStops DEF Register, RegisterUnlessDone
<1>6. CASE Stop \/ (\E g \in Group : AddGroup(g)) \/ (\E o \in Object : Drop(o)) \/ ConnectionEnds
  BY <1>6, DestructedStops DEF Stop, AddGroup, Drop, ConnectionEnds, stateVars, clientVars
<1>7. CASE ServiceDone
  BY <1>7 DEF ServiceDone, TakeHandlers, Swap
<1>8. CASE \E c \in Context : Request(c) \/ Answer(c) \/ EndpointComplete(c) \/ ReleaseHandler(c)
  BY <1>8 DEF Request, Answer, EndpointComplete, ReleaseHandler, stateVars, clientVars
<1>9. CASE UNCHANGED vars
  BY <1>9 DEF vars, stateVars, clientVars
<1> QED
  BY <1>1, <1>2, <1>3, <1>4, <1>5, <1>6, <1>7, <1>8, <1>9 DEF Next, Call

LEMMA SettledHolds == Spec => [](Inv /\ Settled)
  BY Invariance, InitSettled, NextSettled, PTL DEF Spec

\* When the done handler has run, released what it took, and no call is under way, no context is
\* left (serviceDone() and registerHandler()).
THEOREM NothingLeft == Spec => [](done /\ dying = {} /\ (\A t \in Thread : own[t] = None) => allocated = {})
<1>1. Inv /\ Settled => (done /\ dying = {} /\ (\A t \in Thread : own[t] = None) => allocated = {})
  BY DEF Inv, OneOwner, Settled
<1> QED
  BY <1>1, SettledHolds, PTL

\* A service that ends goes on to do so.
Completed == service \in {"partial", "done"} \/ (service = "stopping" /\ active = {})

LEMMA ServiceEnds ==
    ASSUME Inv, [Next]_vars
    PROVE  /\ service = "done" => service' = "done"
           /\ Completed => Completed'
           /\ \A c \in Context : service = "stopping" /\ c \in active =>
                 c \notin active' \/ (service' = "stopping" /\ c \in active')
<1> USE DEF Completed
<1>1. ASSUME NEW t \in Thread, Create(t) \/ \E o \in Object : Begin(t, o)
      PROVE  UNCHANGED <<service, active>> \/ service = "none"
  BY <1>1 DEF Create, Begin, clientVars
<1>2. ASSUME NEW t \in Thread, ServiceAdded(t) \/ ServiceFails(t) PROVE service = "creating"
  BY <1>2 DEF ServiceAdded, ServiceFails, Inv, Stages
<1>3. ASSUME NEW t \in Thread, EndpointAdded(t)
      PROVE  service' = service /\ (service # "running" => active' = active)
  BY <1>3 DEF EndpointAdded
<1>4. ASSUME NEW t \in Thread, EndpointFails(t) \/ Register(t)
      PROVE  active' = active /\ (service' = service \/ service = "running")
  BY <1>4, DestructedStops DEF EndpointFails, Register, RegisterUnlessDone
<1>5. CASE Stop \/ (\E g \in Group : AddGroup(g)) \/ (\E o \in Object : Drop(o)) \/ ConnectionEnds
  <2>1. active' = active /\ (service' = service \/ service = "running")
    BY <1>5, DestructedStops DEF Stop, AddGroup, Drop, ConnectionEnds, clientVars
  <2> QED
    BY <2>1
<1>6. CASE ServiceDone
  BY <1>6 DEF ServiceDone
<1>7. CASE \E c \in Context : Request(c) \/ Answer(c) \/ EndpointComplete(c) \/ ReleaseHandler(c)
  <2>1. service' = service /\ active' \subseteq active
    BY <1>7 DEF Request, Answer, EndpointComplete, ReleaseHandler, clientVars
  <2> QED
    BY <2>1
<1>8. CASE UNCHANGED vars
  BY <1>8 DEF vars, clientVars
<1> QED
  BY <1>1, <1>2, <1>3, <1>4, <1>5, <1>6, <1>7, <1>8 DEF Next, Call

\* A request handler returns, and the C client completes an endpoint that is again and again
\* without a request.
AnswerRuns(c) == []<>(c \notin handling) \/ []<><<Answer(c)>>_vars
CompleteReady(c) == service = "stopping" /\ c \in active \ handling
CompleteRuns(c) == <>[]~CompleteReady(c) \/ []<><<EndpointComplete(c)>>_vars

LEMMA FairAnswer ==
    ASSUME NEW c \in Context
    PROVE  WF_vars(Answer(c)) /\ [](c \in handling => ENABLED <<Answer(c)>>_vars) => AnswerRuns(c)
<1> DEFINE In == c \in handling
<1>1. (c \notin handling) <=> ~In
  OBVIOUS
<1> HIDE DEF In
<1>2. WF_vars(Answer(c)) /\ [](In => ENABLED <<Answer(c)>>_vars) => []<>~In \/ []<><<Answer(c)>>_vars
  BY PTL
<1> QED
  BY <1>1, <1>2, PTL DEF AnswerRuns, In

LEMMA FairComplete ==
    ASSUME NEW c \in Context
    PROVE  SF_vars(EndpointComplete(c)) /\ [](CompleteReady(c) => ENABLED <<EndpointComplete(c)>>_vars)
           => CompleteRuns(c)
BY PTL DEF CompleteRuns

EndpointEnds(c) == (service = "stopping" /\ c \in active) ~> (c \notin active)

LEMMA EndpointIsCompleted ==
    ASSUME NEW c \in Context
    PROVE  Spec /\ AnswerRuns(c) /\ CompleteRuns(c) => EndpointEnds(c)
<1> DEFINE Subscribed == service = "stopping" /\ c \in active
           Gone == c \notin active
           Busy == c \in handling
           Ready == CompleteReady(c)
<1>1. Spec => []Inv
  BY Invariance
<1>2. Inv /\ Subscribed /\ [Next]_vars => (Gone \/ Subscribed)'
  BY ServiceEnds
<1>3. Subscribed => Busy \/ Ready
  BY DEF CompleteReady
<1>4. <<Answer(c)>>_vars => ~Busy'
  BY DEF Answer
<1>5. <<EndpointComplete(c)>>_vars => Gone'
  BY DEF EndpointComplete
<1>6. (c \notin handling) <=> ~Busy
  OBVIOUS
<1> HIDE DEF Subscribed, Gone, Busy, Ready
<1>7. Spec /\ AnswerRuns(c) => [](Subscribed => <>(Gone \/ (Subscribed /\ ~Busy)))
  BY <1>1, <1>2, <1>4, <1>6, PTL DEF Spec, AnswerRuns
<1>8. Spec /\ CompleteRuns(c) /\ [](Subscribed => <>(Gone \/ (Subscribed /\ ~Busy)))
        => [](Subscribed => <>Gone)
  BY <1>1, <1>2, <1>3, <1>5, PTL DEF Spec, CompleteRuns, Ready
<1> QED
  BY <1>7, <1>8, PTL DEF EndpointEnds, Subscribed, Gone

\* Each endpoint of a service that is stopped is completed, although its requests go on until then:
\* the first part of ReleasedInTheEnd.
THEOREM EndpointsComplete ==
    Spec /\ (\A c \in Context : AnswerRuns(c) /\ CompleteRuns(c)) => \A c \in Context : EndpointEnds(c)
BY EndpointIsCompleted

\* The C client calls the done handler when the endpoints are completed, the done handler releases
\* what it took, and the call that made a context goes on.
DoneReady == service = "partial" \/ (service = "stopping" /\ active = {})
DoneRuns == []<>~DoneReady \/ []<><<ServiceDone>>_vars
ReleaseRuns(c) == []<>(c \notin dying) \/ []<><<ReleaseHandler(c)>>_vars
CallOf(c) == \E t \in Thread : own[t] = c /\ Call(t)
Owned(c) == \E t \in Thread : own[t] = c
OwnerRuns(c) == []<>~Owned(c) \/ []<><<CallOf(c)>>_vars

LEMMA FairDone == WF_vars(ServiceDone) /\ [](DoneReady => ENABLED <<ServiceDone>>_vars) => DoneRuns
BY PTL DEF DoneRuns

LEMMA FairRelease ==
    ASSUME NEW c \in Context
    PROVE  WF_vars(ReleaseHandler(c)) /\ [](c \in dying => ENABLED <<ReleaseHandler(c)>>_vars) => ReleaseRuns(c)
<1> DEFINE In == c \in dying
<1>1. (c \notin dying) <=> ~In
  OBVIOUS
<1> HIDE DEF In
<1>2. WF_vars(ReleaseHandler(c)) /\ [](In => ENABLED <<ReleaseHandler(c)>>_vars)
        => []<>~In \/ []<><<ReleaseHandler(c)>>_vars
  BY PTL
<1> QED
  BY <1>1, <1>2, PTL DEF ReleaseRuns, In

LEMMA FairOwner ==
    ASSUME NEW c \in Context
    PROVE  WF_vars(CallOf(c)) /\ [](Owned(c) => ENABLED <<CallOf(c)>>_vars) => OwnerRuns(c)
BY PTL DEF OwnerRuns

\* Where the call is that made c.
At(c, place) == \E t \in Thread : own[t] = c /\ pc[t] = place

\* Only the call itself hands its context on.
LEMMA OthersKeepOwn ==
    ASSUME Inv, NEW t \in Thread, own[t] # None, [Next]_vars, ~Call(t)
    PROVE  own'[t] = own[t] /\ pc'[t] = pc[t]
<1> USE DEF Inv, Types
<1>0. pc[t] # "idle"
  BY DEF Stages
<1>1. ASSUME NEW u \in Thread, Create(u) \/ Call(u) \/ \E o \in Object : Begin(u, o)
      PROVE  own'[t] = own[t] /\ pc'[t] = pc[t]
  <2>1. u # t
    BY <1>0, <1>1 DEF Create, Begin
  <2>2. \A v \in Thread \ {u} : own'[v] = own[v] /\ pc'[v] = pc[v]
    <3>1. CASE Create(u) \/ \E o \in Object : Begin(u, o)
      BY <3>1 DEF Create, Begin, Allocate
    <3>2. CASE ServiceAdded(u) \/ ServiceFails(u) \/ EndpointAdded(u)
      BY <3>2 DEF ServiceAdded, ServiceFails, EndpointAdded
    <3>3. CASE EndpointFails(u) \/ Register(u)
      BY <3>3 DEF EndpointFails, Register, RegisterUnlessDone, Return
    <3> QED
      BY <1>1, <3>1, <3>2, <3>3 DEF Call
  <2> QED
    BY <2>1, <2>2
<1>2. CASE Stop \/ (\E g \in Group : AddGroup(g)) \/ (\E o \in Object : Drop(o)) \/ ConnectionEnds
  BY <1>2 DEF Stop, AddGroup, Drop, ConnectionEnds, threadVars
<1>3. CASE \/ ServiceDone
           \/ \E c \in Context : Request(c) \/ Answer(c) \/ EndpointComplete(c) \/ ReleaseHandler(c)
           \/ UNCHANGED vars
  BY <1>3 DEF ServiceDone, Request, Answer, EndpointComplete, ReleaseHandler, threadVars, vars
<1> QED
  BY <1>1, <1>2, <1>3 DEF Next

\* What a call does with its context when the service is done.
LEMMA CallReleases ==
    ASSUME Inv, Settled, service = "done", NEW t \in Thread, own[t] # None, Call(t)
    PROVE  \/ pc[t] = "add" /\ own'[t] = own[t] /\ pc'[t] = "register"
           \/ own[t] \notin allocated'
<1> USE DEF Inv, Types
<1>1. pc[t] # "create" /\ done
  BY DEF Stages, Settled
<1>2. CASE EndpointAdded(t)
  BY <1>2 DEF EndpointAdded
<1>3. CASE EndpointFails(t)
  BY <1>3 DEF EndpointFails
<1>4. CASE Register(t)
  BY <1>1, <1>4 DEF Register, RegisterUnlessDone
<1> QED
  BY <1>1, <1>2, <1>3, <1>4 DEF Call, ServiceAdded, ServiceFails

\* The places of a context that is left when the service is done.
LEMMA PlacesWhenDone ==
    ASSUME Inv, Settled, service = "done", NEW c \in Context
    PROVE  c \notin allocated \/ c \in dying \/ At(c, "add") \/ At(c, "register")
<1> SUFFICES ASSUME c \in allocated, c \notin dying PROVE At(c, "add") \/ At(c, "register")
  OBVIOUS
<1>1. PICK t \in Thread : own[t] = c
  BY DEF Inv, OneOwner, Settled
<1>2. c # None
  BY NamesAssumption
<1>3. pc[t] \in {"add", "register"}
  BY <1>1, <1>2 DEF Inv, Stages, Types
<1> QED
  BY <1>1, <1>3 DEF At

LEMMA AddGoesOn ==
    ASSUME Inv, Settled, service = "done", NEW c \in Context, At(c, "add"), [Next]_vars
    PROVE  /\ c \notin allocated' \/ At(c, "add")' \/ At(c, "register")'
           /\ CallOf(c) => c \notin allocated' \/ At(c, "register")'
<1>1. PICK t \in Thread : own[t] = c /\ pc[t] = "add"
  BY DEF At
<1>2. own[t] # None
  BY <1>1, NamesAssumption
<1>3. CallOf(c) => Call(t)
  BY <1>1, <1>2 DEF CallOf, Inv, OneOwner
<1>4. CASE Call(t)
  BY <1>1, <1>2, <1>4, CallReleases DEF At
<1>5. CASE ~Call(t)
  BY <1>1, <1>2, <1>3, <1>5, OthersKeepOwn DEF At
<1> QED
  BY <1>4, <1>5

LEMMA RegisterGoesOn ==
    ASSUME Inv, Settled, service = "done", NEW c \in Context, At(c, "register"), [Next]_vars
    PROVE  /\ c \notin allocated' \/ At(c, "register")'
           /\ CallOf(c) => c \notin allocated'
<1>1. PICK t \in Thread : own[t] = c /\ pc[t] = "register"
  BY DEF At
<1>2. own[t] # None
  BY <1>1, NamesAssumption
<1>3. CallOf(c) => Call(t)
  BY <1>1, <1>2 DEF CallOf, Inv, OneOwner
<1>4. CASE Call(t)
  BY <1>1, <1>2, <1>4, CallReleases
<1>5. CASE ~Call(t)
  BY <1>1, <1>2, <1>3, <1>5, OthersKeepOwn DEF At
<1> QED
  BY <1>4, <1>5

LEMMA DyingGoesOn ==
    ASSUME NEW c \in Context, c \in dying, [Next]_vars, Inv, service = "done"
    PROVE  c \notin allocated' \/ c \in dying'
<1>1. ASSUME NEW t \in Thread, Create(t) \/ Call(t) \/ \E o \in Object : Begin(t, o) PROVE dying' = dying
  BY <1>1 DEF Create, Begin, Call, ServiceAdded, ServiceFails, EndpointAdded, EndpointFails, Register,
     RegisterUnlessDone, stateVars
<1>2. CASE Stop \/ (\E g \in Group : AddGroup(g)) \/ (\E o \in Object : Drop(o)) \/ ConnectionEnds
  BY <1>2 DEF Stop, AddGroup, Drop, ConnectionEnds, stateVars
<1>3. CASE ServiceDone
  BY <1>3 DEF ServiceDone
<1>4. CASE \E d \in Context : Request(d) \/ Answer(d) \/ EndpointComplete(d) \/ ReleaseHandler(d)
  BY <1>4 DEF Request, Answer, EndpointComplete, ReleaseHandler, stateVars
<1>5. CASE UNCHANGED vars
  BY <1>5 DEF vars, stateVars
<1> QED
  BY <1>1, <1>2, <1>3, <1>4, <1>5 DEF Next

ContextReleased(c) == (Completed /\ c \in allocated) ~> (c \notin allocated)

LEMMA ContextIsReleased ==
    ASSUME NEW c \in Context
    PROVE  Spec /\ DoneRuns /\ ReleaseRuns(c) /\ OwnerRuns(c) => ContextReleased(c)
<1> DEFINE FInv == Inv /\ Settled
           Over == Completed
           Done == service = "done"
           Left == c \in allocated
           Free == c \notin allocated
           Dying == c \in dying
           Adding == At(c, "add")
           Registering == At(c, "register")
           Own == Owned(c)
           Ready == DoneReady
<1>1. Spec => []FInv
  BY SettledHolds
<1>2. /\ FInv /\ Over /\ [Next]_vars => Over'
      /\ FInv /\ Done /\ [Next]_vars => Done'
      /\ Over => Done \/ Ready
  BY ServiceEnds DEF Completed, DoneReady
<1>3. <<ServiceDone>>_vars => Done'
  BY DEF ServiceDone
<1>4. FInv /\ Done => Free \/ Dying \/ Adding \/ Registering
  BY PlacesWhenDone
<1>5. /\ FInv /\ Done /\ Dying /\ [Next]_vars => (Free \/ Dying)'
      /\ FInv /\ Done /\ Adding /\ [Next]_vars => (Free \/ Adding \/ Registering)'
      /\ FInv /\ Done /\ Registering /\ [Next]_vars => (Free \/ Registering)'
  BY DyingGoesOn, AddGoesOn, RegisterGoesOn
<1>6. <<ReleaseHandler(c)>>_vars => Free'
  BY DEF ReleaseHandler
<1>7. /\ FInv /\ Done /\ Adding /\ [Next]_vars /\ <<CallOf(c)>>_vars => (Free \/ Registering)'
      /\ FInv /\ Done /\ Registering /\ [Next]_vars /\ <<CallOf(c)>>_vars => Free'
  BY AddGoesOn, RegisterGoesOn
<1>8. /\ Adding \/ Registering => Own
      /\ (c \notin dying) <=> ~Dying
      /\ (c \in allocated) <=> Left
      /\ (c \notin allocated) <=> Free
  BY DEF At, Owned
<1> HIDE DEF FInv, Over, Done, Left, Free, Dying, Adding, Registering, Own, Ready
<1>9. Spec /\ DoneRuns => [](Over => <>Done)
  BY <1>1, <1>2, <1>3, PTL DEF Spec, DoneRuns, Ready
<1>10. Spec /\ ReleaseRuns(c) => [](Done /\ Dying => <>Free)
  BY <1>1, <1>2, <1>5, <1>6, <1>8, PTL DEF Spec, ReleaseRuns
<1>11. Spec /\ OwnerRuns(c) => [](Done /\ Registering => <>Free)
  BY <1>1, <1>2, <1>5, <1>7, <1>8, PTL DEF Spec, OwnerRuns, Own
<1>12. Spec /\ OwnerRuns(c) => [](Done /\ Adding => <>(Free \/ (Done /\ Registering)))
  BY <1>1, <1>2, <1>5, <1>7, <1>8, PTL DEF Spec, OwnerRuns, Own
<1>13. Spec /\ DoneRuns /\ ReleaseRuns(c) /\ OwnerRuns(c) => [](Over => <>Free)
  BY <1>1, <1>4, <1>9, <1>10, <1>11, <1>12, PTL
<1> QED
  BY <1>8, <1>13, PTL DEF ContextReleased, Over

\* When its endpoints are completed, or its constructor failed half way, every context that is left
\* is released, also one whose endpoint is just being added: the second part of ReleasedInTheEnd.
THEOREM ContextsReleased ==
    Spec /\ DoneRuns /\ (\A c \in Context : ReleaseRuns(c) /\ OwnerRuns(c))
    => \A c \in Context : ContextReleased(c)
BY ContextIsReleased

=============================================================================
