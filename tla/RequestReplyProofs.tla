-------------------------- MODULE RequestReplyProofs --------------------------
(***************************************************************************)
(* Proofs about RequestReply, for any threads, muxes, replies and bounds:  *)
(* first its safety, then, of the threads that go on, that a request       *)
(* returns, that its reply is destroyed and that the closure of the reply  *)
(* subscription is freed.                                                  *)
(***************************************************************************)
EXTENDS RequestReply, FiniteSetTheorems, TLAPS

\* What the program counter of a request says about its references.
PcInv ==
    \A t \in Thread :
        /\ pc[t] \in {"idle", "getmux"} <=> mux[t] = None
        /\ pc[t] = "convert" <=> reply[t] # None

\* What a map holds after an entry was set or erased.
LEMMA AssignType ==
    ASSUME NEW map, NEW key, NEW value, NEW D, NEW V,
           DOMAIN map \subseteq D, key \in D, value \in V,
           \A k \in DOMAIN map : map[k] \in V
    PROVE  /\ DOMAIN Assign(map, key, value) \subseteq D
           /\ \A k \in DOMAIN Assign(map, key, value) : Assign(map, key, value)[k] \in V
BY DEF Assign

LEMMA EraseType ==
    ASSUME NEW map, NEW key, NEW D, NEW V,
           DOMAIN map \subseteq D, \A k \in DOMAIN map : map[k] \in V
    PROVE  /\ DOMAIN Erase(map, key) \subseteq D
           /\ \A k \in DOMAIN Erase(map, key) : Erase(map, key)[k] \in V
BY DEF Erase

LEMMA InitType == Init => TypeOK /\ PcInv
<1> SUFFICES ASSUME Init PROVE TypeOK /\ PcInv
  OBVIOUS
<1>1. TypeOK
  <2>1. ASSUME NEW m \in Mux PROVE DOMAIN replies[m] = {}
    BY DEF Init
  <2>2. DOMAIN replies = Mux /\ \A m \in Mux : MapType(m)
    BY <2>1 DEF Init, MapType
  <2>3. QED
    BY <2>2, MaxRequestsAssumption DEF Init, TypeOK, Labels
<1>2. PcInv
  BY DEF Init, PcInv
<1>3. QED
  BY <1>1, <1>2

\* The steps that touch neither the reply maps nor the state of a taken reply.
LEMMA PlainType ==
    ASSUME TypeOK, PcInv, NEW t \in Thread,
           \/ Begin(t) \/ UseMux(t) \/ SubscribeFails(t) \/ Subscribe(t) \/ SetOnComplete(t)
           \/ SetOnCompleteFails(t) \/ Publish(t) \/ PublishFails(t) \/ TimeOut(t) \/ Wait(t)
           \/ Interrupted(t) \/ Expire(t) \/ Cancel(t)
    PROVE  TypeOK' /\ PcInv'
<1> USE NoneAssumption, MaxRequestsAssumption
    DEF threadVars, initVars, subVars, wireVars, Goto, EndWith, Labels, Failures
<1>1. CASE Begin(t)
  BY <1>1 DEF Begin, TypeOK, PcInv, MapType
<1>2. CASE UseMux(t)
  BY <1>2 DEF UseMux, TypeOK, PcInv, MapType
<1>3. CASE SubscribeFails(t)
  BY <1>3 DEF SubscribeFails, TypeOK, PcInv, MapType
<1>4. CASE Subscribe(t)
  BY <1>4 DEF Subscribe, TypeOK, PcInv, MapType
<1>5. CASE SetOnComplete(t)
  BY <1>5 DEF SetOnComplete, RegisterOnComplete, TypeOK, PcInv, MapType
<1>6. CASE SetOnCompleteFails(t)
  BY <1>6 DEF SetOnCompleteFails, AbandonClosure, TypeOK, PcInv, MapType
<1>7. CASE Publish(t)
  BY <1>7 DEF Publish, TypeOK, PcInv, MapType
<1>8. CASE PublishFails(t)
  BY <1>8 DEF PublishFails, TypeOK, PcInv, MapType
<1>9. CASE TimeOut(t) \/ Wait(t) \/ Interrupted(t)
  BY <1>9 DEF TimeOut, Wait, Interrupted, Looks, Resumed, Woken, TypeOK, PcInv, MapType
<1>10. CASE Expire(t)
  BY <1>10 DEF Expire, TypeOK, PcInv, MapType
<1>11. CASE Cancel(t)
  BY <1>11 DEF Cancel, TypeOK, PcInv, MapType
<1>12. QED
  BY <1>1, <1>2, <1>3, <1>4, <1>5, <1>6, <1>7, <1>8, <1>9, <1>10, <1>11

\* The steps of a request that change the reply maps or hand a reply on.
LEMMA ReplyType ==
    ASSUME TypeOK, PcInv, NEW t \in Thread,
           Register(t) \/ TakeReply(t) \/ Convert(t) \/ Leave(t)
    PROVE  TypeOK' /\ PcInv'
<1> USE NoneAssumption
    DEF threadVars, initVars, subVars, wireVars, Goto, EndWith, Labels, Failures
<1>1. CASE Register(t)
  <2>1. mux[t] \in Mux
    BY <1>1 DEF Register, TypeOK, PcInv
  <2>2. /\ reply_counter' = reply_counter + 1
        /\ token'[t] = reply_counter'
        /\ replies' = [replies EXCEPT ![mux[t]] = Assign(@, token'[t], None)]
    BY <1>1 DEF Register, NextToken, TypeOK
  <2>3. ASSUME NEW m \in Mux PROVE MapType(m)'
    <3>1. /\ DOMAIN replies[m] \subseteq 1..reply_counter'
          /\ \A k \in DOMAIN replies[m] : replies[m][k] \in Message \cup {None}
      BY <2>2 DEF TypeOK, MapType
    <3>2. CASE m = mux[t]
      <4>1. replies'[m] = Assign(replies[m], token'[t], None)
        BY <2>2, <3>2 DEF TypeOK
      <4>2. token'[t] \in 1..reply_counter'
        BY <2>2 DEF TypeOK
      <4>3. QED
        BY <3>1, <4>1, <4>2, AssignType DEF MapType
    <3>3. CASE m # mux[t]
      BY <2>2, <3>1, <3>3 DEF MapType, TypeOK
    <3>4. QED
      BY <3>2, <3>3
  <2>4. QED
    BY <1>1, <2>1, <2>2, <2>3 DEF Register, TypeOK, PcInv
<1>2. CASE TakeReply(t)
  <2>1. mux[t] \in Mux /\ reply[t] = None
    BY <1>2 DEF TakeReply, Looks, Resumed, Woken, TypeOK, PcInv
  <2>2. Slot(t) \in Message
    BY <1>2, <2>1 DEF TakeReply, Slot, TypeOK, MapType
  <2>3. token[t] \in DOMAIN replies[mux[t]]
    BY <1>2, <2>2 DEF TakeReply, Slot
  <2>4. ASSUME NEW m \in Mux PROVE MapType(m)'
    <3>1. /\ DOMAIN replies[m] \subseteq 1..reply_counter
          /\ \A k \in DOMAIN replies[m] : replies[m][k] \in Message \cup {None}
          /\ reply_counter' = reply_counter
      BY <1>2 DEF TypeOK, MapType, TakeReply
    <3>2. CASE m = mux[t]
      <4>1. replies'[m] = Assign(replies[m], token[t], None)
        BY <1>2, <3>2 DEF TypeOK, TakeReply, Taken
      <4>2. token[t] \in 1..reply_counter
        BY <2>3, <3>1, <3>2
      <4>3. /\ DOMAIN Assign(replies[m], token[t], None) \subseteq 1..reply_counter
            /\ \A k \in DOMAIN Assign(replies[m], token[t], None) :
                  Assign(replies[m], token[t], None)[k] \in Message \cup {None}
        BY <3>1, <4>2 DEF Assign
      <4>4. QED
        BY <3>1, <4>1, <4>3 DEF MapType
    <3>3. CASE m # mux[t]
      BY <1>2, <3>1, <3>3 DEF MapType, TakeReply, TypeOK
    <3>4. QED
      BY <3>2, <3>3
  <2>5. QED
    BY <1>2, <2>1, <2>2, <2>4 DEF TakeReply, Looks, Resumed, Woken, TypeOK, PcInv
<1>3. CASE Convert(t)
  <2>1. reply[t] \in Message
    BY <1>3 DEF Convert, TypeOK, PcInv
  <2>2. QED
    BY <1>3, <2>1 DEF Convert, Destroy, TypeOK, PcInv, MapType
<1>4. CASE Leave(t)
  <2>1. mux[t] \in Mux
    BY <1>4 DEF Leave, TypeOK, PcInv
  <2>2. ASSUME NEW m \in Mux PROVE MapType(m)'
    <3>1. /\ DOMAIN replies[m] \subseteq 1..reply_counter
          /\ \A k \in DOMAIN replies[m] : replies[m][k] \in Message \cup {None}
          /\ reply_counter' = reply_counter
      BY <1>4 DEF TypeOK, MapType, Leave
    <3>2. CASE m = mux[t]
      <4>1. replies'[m] = Erase(replies[m], token[t])
        BY <1>4, <3>2 DEF TypeOK, Leave
      <4>2. QED
        BY <3>1, <4>1, EraseType DEF MapType
    <3>3. CASE m # mux[t]
      BY <1>4, <3>1, <3>3 DEF MapType, Leave, TypeOK
    <3>4. QED
      BY <3>2, <3>3
  <2>3. QED
    BY <1>4, <2>1, <2>2 DEF Leave, Destroy, TypeOK, PcInv
<1>5. QED
  BY <1>1, <1>2, <1>3, <1>4

\* The steps of the delivery thread.
LEMMA HandlerType ==
    ASSUME TypeOK, PcInv, NEW m \in Mux,
           Deliver(m) \/ StoreReply(m) \/ DropReply(m) \/ Complete(m)
    PROVE  TypeOK' /\ PcInv'
<1> USE NoneAssumption
    DEF threadVars, initVars, subVars, wireVars, Labels, Failures
<1>1. CASE Deliver(m)
  BY <1>1 DEF Deliver, TypeOK, PcInv, MapType
<1>2. CASE StoreReply(m)
  <2> DEFINE k == addr[handling[m]].token
  <2>1. handling[m] \in Message /\ k \in DOMAIN replies[m]
    BY <1>2 DEF StoreReply, Expected, TypeOK
  <2>2. ASSUME NEW n \in Mux PROVE MapType(n)'
    <3>1. /\ DOMAIN replies[n] \subseteq 1..reply_counter
          /\ \A j \in DOMAIN replies[n] : replies[n][j] \in Message \cup {None}
          /\ reply_counter' = reply_counter
      BY <1>2 DEF TypeOK, MapType, StoreReply
    <3>2. CASE n = m
      <4>1. replies'[n] = Assign(replies[n], k, handling[m])
        BY <1>2, <3>2 DEF TypeOK, StoreReply
      <4> HIDE DEF k
      <4>2. k \in 1..reply_counter
        BY <2>1, <3>1, <3>2
      <4>3. /\ DOMAIN Assign(replies[n], k, handling[m]) \subseteq 1..reply_counter
            /\ \A j \in DOMAIN Assign(replies[n], k, handling[m]) :
                  Assign(replies[n], k, handling[m])[j] \in Message \cup {None}
        BY <2>1, <3>1, <4>2 DEF Assign
      <4>4. QED
        BY <3>1, <4>1, <4>3 DEF MapType
    <3>3. CASE n # m
      BY <1>2, <3>1, <3>3 DEF MapType, StoreReply, TypeOK
    <3>4. QED
      BY <3>2, <3>3
  <2>3. QED
    BY <1>2, <2>1, <2>2 DEF StoreReply, Waiters, TypeOK, PcInv
<1>3. CASE DropReply(m)
  BY <1>3 DEF DropReply, Destroy, TypeOK, PcInv, MapType
<1>4. CASE Complete(m)
  BY <1>4 DEF Complete, TypeOK, PcInv, MapType
<1>5. QED
  BY <1>1, <1>2, <1>3, <1>4

\* The steps of the connection and of the responders.
LEMMA EnvironmentType ==
    ASSUME TypeOK, PcInv, Drain \/ Close \/ Destruct \/ \E msg \in Message : Respond(msg)
    PROVE  TypeOK' /\ PcInv'
<1> USE DEF threadVars, initVars, subVars, wireVars, Labels, Failures
<1>1. CASE Drain \/ Close \/ Destruct
  BY <1>1 DEF Drain, Close, Destruct, EndSubs, TypeOK, PcInv, MapType
<1>2. ASSUME NEW msg \in Message, Respond(msg) PROVE TypeOK' /\ PcInv'
  BY <1>2 DEF Respond, Address, TypeOK, PcInv, MapType
<1>3. QED
  BY <1>1, <1>2

LEMMA NextType == TypeOK /\ PcInv /\ [Next]_vars => TypeOK' /\ PcInv'
<1> SUFFICES ASSUME TypeOK, PcInv, [Next]_vars PROVE TypeOK' /\ PcInv'
  OBVIOUS
<1>1. ASSUME NEW t \in Thread, Begin(t) \/ Step(t) \/ Expire(t) \/ Cancel(t)
      PROVE  TypeOK' /\ PcInv'
  BY <1>1, PlainType, ReplyType DEF Step
<1>2. ASSUME NEW m \in Mux, Deliver(m) \/ Handle(m) PROVE TypeOK' /\ PcInv'
  BY <1>2, HandlerType DEF Handle
<1>3. CASE Drain \/ Close \/ Destruct \/ \E msg \in Message : Respond(msg)
  BY <1>3, EnvironmentType
<1>4. CASE UNCHANGED vars
  BY <1>4 DEF vars, threadVars, initVars, subVars, wireVars, TypeOK, PcInv, MapType
<1>5. QED
  BY <1>1, <1>2, <1>3, <1>4 DEF Next

\* The type invariant holds in every state, and with it that a request has a
\* mux while it is registered and a reply only while it converts it.
THEOREM TypeCorrect == Spec => [](TypeOK /\ PcInv)
<1>1. QED
  BY InitType, NextType, PTL DEF Spec

-----------------------------------------------------------------------------
(* What the steps that change a reply map do to the entries of all maps. *)

LEMMA RegisterMaps ==
    ASSUME TypeOK, PcInv, NEW t \in Thread, Register(t)
    PROVE  /\ mux[t] \in Mux
           /\ token'[t] = reply_counter + 1
           /\ \A m \in Mux :
                /\ DOMAIN replies'[m] = IF m = mux[t] THEN DOMAIN replies[m] \cup {token'[t]}
                                                     ELSE DOMAIN replies[m]
                /\ \A k \in DOMAIN replies'[m] :
                      replies'[m][k] = IF m = mux[t] /\ k = token'[t] THEN None
                                                                    ELSE replies[m][k]
<1>1. mux[t] \in Mux /\ token'[t] = reply_counter + 1
  BY DEF Register, NextToken, TypeOK, PcInv
<1>2. ASSUME NEW m \in Mux
      PROVE  replies'[m] = IF m = mux[t] THEN Assign(replies[m], token'[t], None) ELSE replies[m]
  BY <1>1 DEF Register, TypeOK
<1>3. QED
  BY <1>1, <1>2 DEF Assign

LEMMA TakeReplyMaps ==
    ASSUME TypeOK, PcInv, NEW t \in Thread, TakeReply(t)
    PROVE  /\ mux[t] \in Mux
           /\ token[t] \in DOMAIN replies[mux[t]]
           /\ reply'[t] = replies[mux[t]][token[t]]
           /\ reply'[t] \in Message
           /\ \A m \in Mux :
                /\ DOMAIN replies'[m] = DOMAIN replies[m]
                /\ \A k \in DOMAIN replies'[m] :
                      replies'[m][k] = IF m = mux[t] /\ k = token[t] THEN None
                                                                   ELSE replies[m][k]
<1>1. mux[t] \in Mux
  BY DEF TakeReply, Looks, Resumed, Woken, TypeOK, PcInv
<1>2. /\ token[t] \in DOMAIN replies[mux[t]]
      /\ reply'[t] = replies[mux[t]][token[t]]
      /\ reply'[t] \in Message
  BY <1>1 DEF TakeReply, Slot, TypeOK, MapType
<1>3. ASSUME NEW m \in Mux
      PROVE  replies'[m] = IF m = mux[t] THEN Assign(replies[m], token[t], None) ELSE replies[m]
  BY <1>1 DEF TakeReply, Taken, TypeOK
<1>4. QED
  BY <1>1, <1>2, <1>3 DEF Assign

LEMMA LeaveMaps ==
    ASSUME TypeOK, PcInv, NEW t \in Thread, Leave(t)
    PROVE  /\ mux[t] \in Mux
           /\ \A m \in Mux :
                /\ DOMAIN replies'[m] = IF m = mux[t] THEN DOMAIN replies[m] \ {token[t]}
                                                     ELSE DOMAIN replies[m]
                /\ \A k \in DOMAIN replies'[m] : replies'[m][k] = replies[m][k]
<1>1. mux[t] \in Mux
  BY DEF Leave, TypeOK, PcInv
<1>2. ASSUME NEW m \in Mux
      PROVE  replies'[m] = IF m = mux[t] THEN Erase(replies[m], token[t]) ELSE replies[m]
  BY <1>1 DEF Leave, TypeOK
<1>3. QED
  BY <1>1, <1>2 DEF Erase

LEMMA StoreReplyMaps ==
    ASSUME TypeOK, NEW n \in Mux, StoreReply(n)
    PROVE  /\ handling[n] \in Message
           /\ addr[handling[n]].token \in DOMAIN replies[n]
           /\ replies[n][addr[handling[n]].token] = None
           /\ \A m \in Mux :
                /\ DOMAIN replies'[m] = DOMAIN replies[m]
                /\ \A k \in DOMAIN replies'[m] :
                      replies'[m][k] = IF m = n /\ k = addr[handling[n]].token THEN handling[n]
                                                                     ELSE replies[m][k]
<1> DEFINE key == addr[handling[n]].token
<1>1. /\ handling[n] \in Message
      /\ key \in DOMAIN replies[n]
      /\ replies[n][key] = None
  BY DEF StoreReply, Expected, TypeOK
<1>2. ASSUME NEW m \in Mux
      PROVE  replies'[m] = IF m = n THEN Assign(replies[m], key, handling[n]) ELSE replies[m]
  BY DEF StoreReply, TypeOK
<1> HIDE DEF key
<1>3. \A m \in Mux :
        /\ DOMAIN replies'[m] = DOMAIN replies[m]
        /\ \A k \in DOMAIN replies'[m] :
              replies'[m][k] = IF m = n /\ k = key THEN handling[n] ELSE replies[m][k]
  BY <1>1, <1>2 DEF Assign
<1>4. QED
  BY <1>1, <1>3 DEF key

-----------------------------------------------------------------------------
(* Every other step leaves the maps alone. *)

\* The steps of threads that change no map.
Quiet(t) ==
    \/ Begin(t) \/ UseMux(t) \/ SubscribeFails(t) \/ Subscribe(t) \/ SetOnComplete(t)
    \/ SetOnCompleteFails(t) \/ Publish(t) \/ PublishFails(t) \/ TimeOut(t) \/ Wait(t)
    \/ Interrupted(t) \/ Convert(t) \/ Expire(t) \/ Cancel(t)

\* The entries of the reply maps are those of the requests in progress.
LEMMA InitEntries == Init => EntriesAreRequests
<1> SUFFICES ASSUME Init PROVE EntriesAreRequests
  OBVIOUS
<1>1. Registered = {}
  BY DEF Init, Registered
<1>2. ASSUME NEW m \in Mux PROVE DOMAIN replies[m] = {}
  BY DEF Init
<1>3. QED
  BY <1>1, <1>2 DEF EntriesAreRequests

LEMMA NextEntries ==
    ASSUME TypeOK, PcInv, EntriesAreRequests, [Next]_vars
    PROVE  EntriesAreRequests'
<1> USE DEF threadVars, initVars, subVars, wireVars, Goto, EndWith
<1>1. ASSUME NEW t \in Thread, Quiet(t) PROVE EntriesAreRequests'
  <2>1. /\ replies' = replies
        /\ Registered' = Registered
        /\ \A u \in Registered : mux'[u] = mux[u] /\ token'[u] = token[u]
    BY <1>1 DEF Quiet, Begin, UseMux, SubscribeFails, Subscribe, SetOnComplete,
                SetOnCompleteFails, Publish, PublishFails, TimeOut, Wait, Interrupted, Convert,
                Expire, Cancel, Looks, Resumed, Woken, Registered, TypeOK
  <2>2. QED
    BY <2>1 DEF EntriesAreRequests
<1>2. ASSUME NEW t \in Thread, Register(t) PROVE EntriesAreRequests'
  <2>0. \A m \in Mux :
          DOMAIN replies'[m] = IF m = mux[t] THEN DOMAIN replies[m] \cup {token'[t]}
                                             ELSE DOMAIN replies[m]
    BY <1>2, RegisterMaps
  <2>1. /\ Registered' = Registered \cup {t} /\ t \notin Registered
        /\ mux' = mux
        /\ \A u \in Thread : u # t => token'[u] = token[u]
    BY <1>2 DEF Register, Registered, TypeOK
  <2>2. \A u \in Registered : token[u] <= reply_counter /\ u \in Thread
    BY DEF TypeOK, Registered
  <2>3. \A u \in Registered : token[u] # token'[t]
    BY <1>2, <2>2, RegisterMaps DEF TypeOK
  <2>4. \A u \in Registered : mux[u] \in Mux
    BY DEF Registered, TypeOK, PcInv
  <2>5. ASSUME NEW u \in Registered' PROVE token'[u] \in DOMAIN replies'[mux'[u]]
    <3>1. CASE u = t
      BY <1>2, <2>0, <2>1, <3>1, RegisterMaps
    <3>2. CASE u # t
      <4>1. u \in Registered /\ token'[u] = token[u] /\ mux'[u] = mux[u]
        BY <2>1, <2>2, <3>2
      <4>2. token[u] \in DOMAIN replies[mux[u]] /\ mux[u] \in Mux
        BY <2>4, <4>1 DEF EntriesAreRequests
      <4>3. QED
        BY <2>0, <4>1, <4>2
    <3>3. QED
      BY <3>1, <3>2
  <2>6. \A u, v \in Registered' : u # v => token'[u] # token'[v]
    BY <2>1, <2>2, <2>3 DEF EntriesAreRequests
  <2>7. ASSUME NEW m \in Mux, NEW k \in DOMAIN replies'[m]
        PROVE  \E u \in Registered' : mux'[u] = m /\ token'[u] = k
    <3>1. CASE m = mux[t] /\ k = token'[t]
      BY <2>1, <3>1
    <3>2. CASE ~(m = mux[t] /\ k = token'[t])
      <4>1. k \in DOMAIN replies[m]
        BY <2>0, <3>2
      <4>2. PICK u \in Registered : mux[u] = m /\ token[u] = k
        BY <4>1 DEF EntriesAreRequests
      <4>3. QED
        BY <2>1, <2>2, <4>2
    <3>3. QED
      BY <3>1, <3>2
  <2>8. QED
    BY <2>5, <2>6, <2>7 DEF EntriesAreRequests
<1>3. ASSUME NEW t \in Thread, TakeReply(t) PROVE EntriesAreRequests'
  <2>1. Registered' = Registered /\ mux' = mux /\ token' = token
    BY <1>3 DEF TakeReply, Looks, Resumed, Woken, Registered, TypeOK
  <2>2. \A m \in Mux : DOMAIN replies'[m] = DOMAIN replies[m]
    BY <1>3, TakeReplyMaps
  <2>3. \A u \in Registered : mux[u] \in Mux
    BY DEF Registered, TypeOK, PcInv
  <2>4. QED
    BY <2>1, <2>2, <2>3 DEF EntriesAreRequests
<1>4. ASSUME NEW t \in Thread, Leave(t) PROVE EntriesAreRequests'
  <2>0. \A m \in Mux :
          DOMAIN replies'[m] = IF m = mux[t] THEN DOMAIN replies[m] \ {token[t]}
                                             ELSE DOMAIN replies[m]
    BY <1>4, LeaveMaps
  <2>1. /\ Registered' = Registered \ {t} /\ t \in Registered
        /\ token' = token
        /\ \A u \in Registered' : mux'[u] = mux[u]
    BY <1>4 DEF Leave, Registered, TypeOK
  <2>2. \A u \in Registered : mux[u] \in Mux
    BY DEF Registered, TypeOK, PcInv
  <2>3. ASSUME NEW u \in Registered' PROVE token'[u] \in DOMAIN replies'[mux'[u]]
    <3>1. u \in Registered /\ u # t /\ token'[u] = token[u] /\ mux'[u] = mux[u]
      BY <2>1
    <3>2. /\ token[u] \in DOMAIN replies[mux[u]]
          /\ mux[u] \in Mux
          /\ token[u] # token[t]
      BY <2>1, <2>2, <3>1 DEF EntriesAreRequests
    <3>3. QED
      BY <2>0, <3>1, <3>2
  <2>4. ASSUME NEW m \in Mux, NEW k \in DOMAIN replies'[m]
        PROVE  \E u \in Registered' : mux'[u] = m /\ token'[u] = k
    <3>1. k \in DOMAIN replies[m] /\ ~(m = mux[t] /\ k = token[t])
      BY <2>0
    <3>2. PICK u \in Registered : mux[u] = m /\ token[u] = k
      BY <3>1 DEF EntriesAreRequests
    <3>3. QED
      BY <2>1, <3>1, <3>2
  <2>5. QED
    BY <2>1, <2>3, <2>4 DEF EntriesAreRequests
<1>5. ASSUME NEW m \in Mux, StoreReply(m) PROVE EntriesAreRequests'
  <2>1. Registered' = Registered /\ mux' = mux /\ token' = token
    BY <1>5 DEF StoreReply, Registered
  <2>2. \A n \in Mux : DOMAIN replies'[n] = DOMAIN replies[n]
    BY <1>5, StoreReplyMaps
  <2>3. \A u \in Registered : mux[u] \in Mux
    BY DEF Registered, TypeOK, PcInv
  <2>4. QED
    BY <2>1, <2>2, <2>3 DEF EntriesAreRequests
<1>6. ASSUME UNCHANGED <<pc, mux, token, replies>> PROVE EntriesAreRequests'
  BY <1>6 DEF EntriesAreRequests, Registered
<1>7. ASSUME NEW m \in Mux, Deliver(m) \/ DropReply(m) \/ Complete(m)
      PROVE  EntriesAreRequests'
  BY <1>6, <1>7 DEF Deliver, DropReply, Complete
<1>8. CASE Drain \/ Close \/ Destruct \/ (\E msg \in Message : Respond(msg)) \/ UNCHANGED vars
  BY <1>6, <1>8 DEF Drain, Close, Destruct, Respond, vars
<1>9. QED
  BY <1>1, <1>2, <1>3, <1>4, <1>5, <1>7, <1>8 DEF Next, Step, Handle, Quiet

\* A request that returned leaves no entry behind; no two requests share one.
THEOREM EntriesCorrect == Spec => []EntriesAreRequests
<1>1. Init => EntriesAreRequests
  BY InitEntries
<1>2. TypeOK /\ PcInv /\ EntriesAreRequests /\ [Next]_vars => EntriesAreRequests'
  BY NextEntries
<1>3. QED
  BY <1>1, <1>2, TypeCorrect, PTL DEF Spec

-----------------------------------------------------------------------------
(* The reply subscription and its closure. *)

\* Who may hold the reply subscription: the request that sets it up under
\* reply_init_lock, and then the connection.
LockInv ==
    /\ \A t \in Thread : pc[t] = "oncomplete" <=> init_lock = t
    /\ init_lock # None => reply_mux = None
    /\ \A t \in Thread : pc[t] \notin {"idle", "getmux", "oncomplete"} => mux[t] = reply_mux
    /\ \A m \in Mux : sub[m] = "active" =>
           m = reply_mux \/ \E t \in Thread : init_lock = t /\ mux[t] = m

\* The delivery thread is in the handler only while the subscription is not complete.
HandlerInv ==
    /\ HandlerHasMux
    /\ \A m \in Mux : handling[m] # None => sub[m] \in {"active", "ending"}

LEMMA InitLock == Init => LockInv /\ HandlerInv
BY NoneAssumption DEF Init, LockInv, HandlerInv, HandlerHasMux

LEMMA NextLock ==
    ASSUME TypeOK, PcInv, LockInv, [Next]_vars
    PROVE  LockInv'
<1> USE NoneAssumption DEF threadVars, initVars, subVars, wireVars, Goto, EndWith
<1>1. ASSUME NEW t \in Thread,
             Begin(t) \/ UseMux(t) \/ SubscribeFails(t) \/ Subscribe(t) \/ SetOnComplete(t)
             \/ SetOnCompleteFails(t)
      PROVE  LockInv'
  <2>1. CASE Begin(t)
    BY <2>1 DEF Begin, LockInv, TypeOK
  <2>2. CASE UseMux(t)
    BY <2>2 DEF UseMux, LockInv, TypeOK
  <2>3. CASE SubscribeFails(t)
    BY <2>3 DEF SubscribeFails, LockInv, TypeOK
  <2>4. CASE Subscribe(t)
    BY <2>4 DEF Subscribe, InitLockFree, LockInv, TypeOK
  <2>5. CASE SetOnComplete(t)
    BY <2>5 DEF SetOnComplete, RegisterOnComplete, LockInv, TypeOK, PcInv
  <2>6. CASE SetOnCompleteFails(t)
    BY <2>6 DEF SetOnCompleteFails, LockInv, TypeOK
  <2>7. QED
    BY <1>1, <2>1, <2>2, <2>3, <2>4, <2>5, <2>6
<1>2. ASSUME NEW t \in Thread,
             Register(t) \/ Publish(t) \/ PublishFails(t) \/ TakeReply(t) \/ TimeOut(t)
             \/ Wait(t) \/ Interrupted(t) \/ Convert(t) \/ Expire(t) \/ Cancel(t)
      PROVE  LockInv'
  <2>1. /\ UNCHANGED <<init_lock, reply_mux, sub, mux>>
        /\ \A u \in Thread : pc'[u] = pc[u] \/
              (pc[u] \notin {"idle", "getmux", "oncomplete"} /\
               pc'[u] \notin {"idle", "getmux", "oncomplete"})
    BY <1>2 DEF Register, Publish, PublishFails, TakeReply, TimeOut, Wait, Interrupted, Convert,
                Expire, Cancel, Looks, Resumed, Woken, TypeOK
  <2>2. QED
    BY <2>1 DEF LockInv
<1>3. ASSUME NEW t \in Thread, Leave(t) PROVE LockInv'
  BY <1>3 DEF Leave, LockInv, TypeOK
<1>4. ASSUME NEW m \in Mux, Deliver(m) \/ Handle(m) PROVE LockInv'
  BY <1>4 DEF Deliver, Handle, StoreReply, DropReply, Complete, LockInv, TypeOK
<1>5. CASE Drain \/ Close
  BY <1>5 DEF Drain, Close, EndSubs, LockInv, TypeOK
<1>6. CASE Destruct
  BY <1>6 DEF Destruct, EndSubs, LockInv, TypeOK
<1>7. CASE (\E msg \in Message : Respond(msg)) \/ UNCHANGED vars
  BY <1>7 DEF Respond, vars, LockInv
<1>8. QED
  BY <1>1, <1>2, <1>3, <1>4, <1>5, <1>6, <1>7 DEF Next, Step

LEMMA NextHandler ==
    ASSUME TypeOK, PcInv, HandlerInv, [Next]_vars
    PROVE  HandlerInv'
<1> USE DEF threadVars, initVars, subVars, wireVars, HandlerInv, HandlerHasMux
<1>1. ASSUME NEW t \in Thread, Subscribe(t) PROVE HandlerInv'
  BY <1>1 DEF Subscribe, TypeOK
<1>2. ASSUME NEW t \in Thread, SetOnCompleteFails(t) PROVE HandlerInv'
  BY <1>2 DEF SetOnCompleteFails, AbandonClosure, TypeOK
<1>3. ASSUME NEW t \in Thread, ~Subscribe(t), ~SetOnCompleteFails(t),
             Begin(t) \/ Step(t) \/ Expire(t) \/ Cancel(t)
      PROVE  HandlerInv'
  <2>1. UNCHANGED <<sub, closure, handling>>
    BY <1>3 DEF Step, Begin, UseMux, SubscribeFails, SetOnComplete, Register, Publish,
                PublishFails, TakeReply, TimeOut, Wait, Interrupted, Convert, Leave, Expire, Cancel
  <2>2. QED
    BY <2>1
<1>4. ASSUME NEW m \in Mux, Deliver(m) PROVE HandlerInv'
  BY <1>4 DEF Deliver, TypeOK
<1>5. ASSUME NEW m \in Mux, StoreReply(m) \/ DropReply(m) PROVE HandlerInv'
  BY <1>5 DEF StoreReply, DropReply, TypeOK
<1>6. ASSUME NEW m \in Mux, Complete(m) PROVE HandlerInv'
  BY <1>6 DEF Complete, TypeOK
<1>7. CASE Drain \/ Close \/ Destruct
  BY <1>7 DEF Drain, Close, Destruct, EndSubs, TypeOK
<1>8. CASE (\E msg \in Message : Respond(msg)) \/ UNCHANGED vars
  BY <1>8 DEF Respond, vars
<1>9. QED
  BY <1>1, <1>2, <1>3, <1>4, <1>5, <1>6, <1>7, <1>8 DEF Next, Handle

\* replyHandler() never runs without its mux, on any way the subscription ends.
THEOREM HandlerSafe == Spec => []HandlerHasMux
<1>1. TypeOK /\ PcInv /\ HandlerInv /\ [Next]_vars => HandlerInv'
  BY NextHandler
<1>2. HandlerInv => HandlerHasMux
  BY DEF HandlerInv
<1>3. QED
  BY <1>1, <1>2, InitLock, TypeCorrect, PTL DEF Spec

\* A connection has at most one reply subscription, which all its requests use.
THEOREM OneSubscription == Spec => []OneReplySubscription
<1>1. TypeOK /\ PcInv /\ LockInv /\ [Next]_vars => LockInv'
  BY NextLock
<1>2. TypeOK /\ LockInv => OneReplySubscription
  BY NoneAssumption DEF TypeOK, LockInv, OneReplySubscription, Registered
<1>3. QED
  BY <1>1, <1>2, InitLock, TypeCorrect, PTL DEF Spec

-----------------------------------------------------------------------------
(* The ownership of replies, stated pointer by pointer. *)

\* Not sent yet, or sent and not handed over by the C client.
Fresh(msg) == addr[msg] = None \/ msg \in net

\* Handed over and not destroyed: what a pointer of the program points to.
Held(msg) == addr[msg] # None /\ msg \notin net /\ destroyed[msg] = 0

\* A pointer to a reply points to one that is not destroyed.
PointersLive ==
    /\ \A m \in Mux : handling[m] # None => Held(handling[m])
    /\ \A t \in Thread : reply[t] # None => Held(reply[t])
    /\ \A m \in Mux : \A k \in DOMAIN replies[m] :
           replies[m][k] # None => Held(replies[m][k])

\* No two pointers point to the same reply.
PointersUnique ==
    /\ \A m, n \in Mux : handling[m] # None /\ handling[m] = handling[n] => m = n
    /\ \A t, u \in Thread : reply[t] # None /\ reply[t] = reply[u] => t = u
    /\ \A m, n \in Mux : \A j \in DOMAIN replies[m], k \in DOMAIN replies[n] :
           replies[m][j] # None /\ replies[m][j] = replies[n][k] => m = n /\ j = k
    /\ \A m \in Mux, t \in Thread : handling[m] # None => handling[m] # reply[t]
    /\ \A m, n \in Mux : \A k \in DOMAIN replies[n] :
           handling[m] # None => handling[m] # replies[n][k]
    /\ \A t \in Thread, n \in Mux : \A k \in DOMAIN replies[n] :
           reply[t] # None => reply[t] # replies[n][k]

Pointed(msg) ==
    \/ \E m \in Mux : handling[m] = msg
    \/ \E t \in Thread : reply[t] = msg
    \/ \E m \in Mux : \E k \in DOMAIN replies[m] : replies[m][k] = msg

\* A reply is not destroyed before it is handed over, and then either pointed to
\* or destroyed once.
Accounted ==
    /\ \A msg \in net : addr[msg] # None
    /\ \A msg \in Message :
          /\ Fresh(msg) => destroyed[msg] = 0
          /\ ~Fresh(msg) => destroyed[msg] = 1 \/ (destroyed[msg] = 0 /\ Pointed(msg))

OwnInv == PointersLive /\ PointersUnique /\ Accounted

LEMMA InitOwn == Init => OwnInv
<1> SUFFICES ASSUME Init PROVE OwnInv
  OBVIOUS
<1>1. ASSUME NEW m \in Mux PROVE DOMAIN replies[m] = {}
  BY DEF Init
<1>2. /\ \A m \in Mux : handling[m] = None
      /\ \A t \in Thread : reply[t] = None
      /\ \A msg \in Message : addr[msg] = None /\ destroyed[msg] = 0
      /\ net = {}
  BY DEF Init
<1>3. QED
  BY <1>1, <1>2 DEF OwnInv, PointersLive, PointersUnique, Accounted, Fresh, Held

\* A step that moves no reply.
LEMMA QuietOwn ==
    ASSUME OwnInv, UNCHANGED <<addr, net, destroyed, handling, reply, replies>>
    PROVE  OwnInv'
BY DEF OwnInv, PointersLive, PointersUnique, Accounted, Fresh, Held, Pointed

LEMMA RegisterOwn ==
    ASSUME TypeOK, PcInv, OwnInv, NEW t \in Thread, Register(t)
    PROVE  OwnInv'
<1>1. UNCHANGED <<addr, net, destroyed, handling, reply>>
  BY DEF Register, wireVars
<1>2. \A m \in Mux : \A k \in DOMAIN replies'[m] :
        replies'[m][k] = None \/ (k \in DOMAIN replies[m] /\ replies'[m][k] = replies[m][k])
  <2>1. \A m \in Mux :
          DOMAIN replies'[m] = IF m = mux[t] THEN DOMAIN replies[m] \cup {token'[t]}
                                             ELSE DOMAIN replies[m]
    BY RegisterMaps
  <2>2. \A m \in Mux : \A k \in DOMAIN replies'[m] :
          replies'[m][k] = IF m = mux[t] /\ k = token'[t] THEN None ELSE replies[m][k]
    BY RegisterMaps
  <2>3. QED
    BY <2>1, <2>2
<1>3. \A m \in Mux : \A k \in DOMAIN replies[m] :
        k \in DOMAIN replies'[m] /\ replies'[m][k] = replies[m][k]
  <2>1. SUFFICES ASSUME NEW m \in Mux, NEW k \in DOMAIN replies[m]
                 PROVE  k \in DOMAIN replies'[m] /\ replies'[m][k] = replies[m][k]
    OBVIOUS
  <2>2. k \in 1..reply_counter /\ k # token'[t]
    BY RegisterMaps DEF TypeOK, MapType
  <2>3. DOMAIN replies'[m] = IF m = mux[t] THEN DOMAIN replies[m] \cup {token'[t]}
                                           ELSE DOMAIN replies[m]
    BY RegisterMaps
  <2>4. k \in DOMAIN replies'[m]
    BY <2>3
  <2>5. QED
    BY <2>2, <2>4, RegisterMaps
<1>4. PointersLive'
  BY <1>1, <1>2 DEF OwnInv, PointersLive, Held
<1>5. PointersUnique'
  BY <1>1, <1>2 DEF OwnInv, PointersUnique
<1>6. Accounted'
  BY <1>1, <1>3 DEF OwnInv, Accounted, Fresh, Pointed
<1>7. QED
  BY <1>4, <1>5, <1>6 DEF OwnInv

LEMMA TakeReplyOwn ==
    ASSUME TypeOK, PcInv, OwnInv, NEW t \in Thread, TakeReply(t)
    PROVE  OwnInv'
<1> DEFINE m0 == mux[t]
           k0 == token[t]
<1>1. /\ UNCHANGED <<addr, net, destroyed, handling>>
      /\ reply[t] = None
      /\ \A u \in Thread : u # t => reply'[u] = reply[u]
  BY DEF TakeReply, wireVars, Looks, Resumed, Woken, TypeOK, PcInv
<1>2. /\ m0 \in Mux /\ k0 \in DOMAIN replies[m0]
      /\ reply'[t] = replies[m0][k0] /\ reply'[t] # None /\ reply'[t] \in Message
  BY TakeReplyMaps, NoneAssumption
<1>3. \A m \in Mux :
        /\ DOMAIN replies'[m] = DOMAIN replies[m]
        /\ \A k \in DOMAIN replies[m] :
              replies'[m][k] = IF m = m0 /\ k = k0 THEN None ELSE replies[m][k]
  BY TakeReplyMaps
<1> HIDE DEF m0, k0
<1>4. PointersLive'
  BY <1>1, <1>2, <1>3 DEF OwnInv, PointersLive, Held
<1>5. PointersUnique'
  BY <1>1, <1>2, <1>3 DEF OwnInv, PointersUnique
<1>6. \A msg \in Message : Pointed(msg) => Pointed(msg)'
  BY <1>1, <1>2, <1>3, NoneAssumption DEF Pointed
<1>7. Accounted'
  BY <1>1, <1>6 DEF OwnInv, Accounted, Fresh
<1>8. QED
  BY <1>4, <1>5, <1>7 DEF OwnInv

LEMMA ConvertOwn ==
    ASSUME TypeOK, PcInv, OwnInv, NEW t \in Thread, Convert(t)
    PROVE  OwnInv'
<1> DEFINE r == reply[t]
<1>1. /\ UNCHANGED <<addr, net, handling, replies>>
      /\ r \in Message /\ r # None /\ Held(r)
      /\ reply'[t] = None
      /\ \A u \in Thread : u # t => reply'[u] = reply[u]
  BY NoneAssumption DEF Convert, wireVars, TypeOK, PcInv, OwnInv, PointersLive
<1>2. /\ destroyed'[r] = 1
      /\ \A msg \in Message : msg # r => destroyed'[msg] = destroyed[msg]
  BY <1>1 DEF Convert, Destroy, Held
<1>3. /\ \A m \in Mux : handling[m] # r
      /\ \A u \in Thread : u # t => reply[u] # r
      /\ \A m \in Mux : \A k \in DOMAIN replies[m] : replies[m][k] # r
  BY <1>1 DEF OwnInv, PointersUnique
<1>4. /\ \A m \in Mux : handling[m] \in Message \cup {None}
      /\ \A u \in Thread : reply[u] \in Message \cup {None}
      /\ \A m \in Mux : \A k \in DOMAIN replies[m] : replies[m][k] \in Message \cup {None}
  BY DEF TypeOK, MapType
<1> HIDE DEF r
<1>5. PointersLive'
  BY <1>1, <1>2, <1>3, <1>4 DEF OwnInv, PointersLive, Held
<1>6. PointersUnique'
  BY <1>1, <1>3 DEF OwnInv, PointersUnique
<1>7. \A msg \in Message : msg # r /\ Pointed(msg) => Pointed(msg)'
  BY <1>1 DEF Pointed, r
<1>8. Accounted'
  BY <1>1, <1>2, <1>7 DEF OwnInv, Accounted, Fresh, Held
<1>9. QED
  BY <1>5, <1>6, <1>8 DEF OwnInv

LEMMA LeaveOwn ==
    ASSUME TypeOK, PcInv, OwnInv, NEW t \in Thread, Leave(t)
    PROVE  OwnInv'
<1> DEFINE m0 == mux[t]
           k0 == token[t]
           r == Slot(t)
<1>1. UNCHANGED <<addr, net, handling, reply>>
  BY DEF Leave, wireVars
<1>2. m0 \in Mux
  BY LeaveMaps
<1>3. \A m \in Mux :
        /\ DOMAIN replies'[m] = IF m = m0 THEN DOMAIN replies[m] \ {k0} ELSE DOMAIN replies[m]
        /\ \A k \in DOMAIN replies'[m] : replies'[m][k] = replies[m][k]
  BY LeaveMaps
<1>a. \A m \in Mux : \A k \in DOMAIN replies'[m] :
         k \in DOMAIN replies[m] /\ replies'[m][k] = replies[m][k]
  BY <1>3
<1>b. \A m \in Mux : \A k \in DOMAIN replies[m] :
         ~(m = m0 /\ k = k0) => k \in DOMAIN replies'[m] /\ replies'[m][k] = replies[m][k]
  <2>1. SUFFICES ASSUME NEW m \in Mux, NEW k \in DOMAIN replies[m], ~(m = m0 /\ k = k0)
                 PROVE  k \in DOMAIN replies'[m] /\ replies'[m][k] = replies[m][k]
    OBVIOUS
  <2>2. DOMAIN replies'[m] = IF m = m0 THEN DOMAIN replies[m] \ {k0} ELSE DOMAIN replies[m]
    BY <1>3
  <2>3. k \in DOMAIN replies'[m]
    BY <2>1, <2>2
  <2>4. QED
    BY <1>3, <2>3
<1>4. /\ \A m \in Mux : handling[m] \in Message \cup {None}
      /\ \A u \in Thread : reply[u] \in Message \cup {None}
      /\ \A m \in Mux : \A k \in DOMAIN replies[m] : replies[m][k] \in Message \cup {None}
  BY DEF TypeOK, MapType
<1>5. /\ r = None \/ (k0 \in DOMAIN replies[m0] /\ r = replies[m0][k0])
      /\ k0 \in DOMAIN replies[m0] => r = replies[m0][k0]
      /\ r \in Message \cup {None}
  BY <1>2, <1>4 DEF Slot
<1>6. \A msg \in Message :
        destroyed'[msg] = IF msg = r /\ r # None THEN destroyed[msg] + 1 ELSE destroyed[msg]
  BY DEF Leave, Destroy, Unclaimed
<1> HIDE DEF m0, k0, r
<1>7. PointersUnique'
  BY <1>1, <1>a DEF OwnInv, PointersUnique
<1>8. CASE r = None
  <2>1. destroyed' = destroyed
    BY <1>6, <1>8 DEF TypeOK, Leave, Destroy
  <2>2. PointersLive'
    BY <1>1, <1>a, <2>1 DEF OwnInv, PointersLive, Held
  <2>3. \A m \in Mux : \A k \in DOMAIN replies[m] :
          replies[m][k] # None => k \in DOMAIN replies'[m] /\ replies'[m][k] = replies[m][k]
    BY <1>b, <1>5, <1>8
  <2>4. \A msg \in Message : Pointed(msg) => Pointed(msg)'
    BY <1>1, <2>3, NoneAssumption DEF Pointed
  <2>5. Accounted'
    BY <1>1, <2>1, <2>4 DEF OwnInv, Accounted, Fresh
  <2>6. QED
    BY <1>7, <2>2, <2>5 DEF OwnInv
<1>9. CASE r # None
  <2>1. r \in Message /\ k0 \in DOMAIN replies[m0] /\ r = replies[m0][k0] /\ Held(r)
    BY <1>2, <1>5, <1>9 DEF OwnInv, PointersLive
  <2>2. /\ destroyed'[r] = 1
        /\ \A msg \in Message : msg # r => destroyed'[msg] = destroyed[msg]
    BY <1>6, <1>9, <2>1 DEF Held
  <2>3. /\ \A m \in Mux : handling[m] # r
        /\ \A u \in Thread : reply[u] # r
        /\ \A m \in Mux : \A k \in DOMAIN replies[m] : replies[m][k] = r => m = m0 /\ k = k0
    BY <1>2, <1>9, <2>1 DEF OwnInv, PointersUnique
  <2>4. \A m \in Mux : \A k \in DOMAIN replies'[m] :
          k \in DOMAIN replies[m] /\ replies'[m][k] = replies[m][k] /\ replies'[m][k] # r
    <3>1. \A m \in Mux : \A k \in DOMAIN replies'[m] : ~(m = m0 /\ k = k0)
      BY <1>3
    <3>2. QED
      BY <1>a, <2>3, <3>1
  <2>5. PointersLive'
    BY <1>1, <1>4, <2>2, <2>3, <2>4 DEF OwnInv, PointersLive, Held
  <2>6. \A m \in Mux : \A k \in DOMAIN replies[m] :
          replies[m][k] # r => k \in DOMAIN replies'[m] /\ replies'[m][k] = replies[m][k]
    BY <1>b, <2>1
  <2>7. \A msg \in Message : msg # r /\ Pointed(msg) => Pointed(msg)'
    BY <1>1, <2>6 DEF Pointed
  <2>8. Accounted'
    BY <1>1, <2>1, <2>2, <2>7 DEF OwnInv, Accounted, Fresh, Held
  <2>9. QED
    BY <1>7, <2>5, <2>8 DEF OwnInv
<1>10. QED
  BY <1>8, <1>9

LEMMA DeliverOwn ==
    ASSUME TypeOK, OwnInv, NEW n \in Mux, Deliver(n)
    PROVE  OwnInv'
<1>1. PICK r \in net : /\ addr[r].mux = n
                       /\ handling' = [handling EXCEPT ![n] = r]
                       /\ net' = net \ {r}
  BY DEF Deliver
<1>2. /\ UNCHANGED <<addr, destroyed, reply, replies>>
      /\ handling[n] = None
      /\ handling'[n] = r
      /\ \A m \in Mux : m # n => handling'[m] = handling[m]
  BY <1>1 DEF Deliver, threadVars, TypeOK
<1>3. r \in Message /\ addr[r] # None /\ destroyed[r] = 0 /\ r # None
  BY <1>1, NoneAssumption DEF TypeOK, OwnInv, Accounted, Fresh
<1>4. /\ \A m \in Mux : handling[m] # r
      /\ \A u \in Thread : reply[u] # r
      /\ \A m \in Mux : \A k \in DOMAIN replies[m] : replies[m][k] # r
  BY <1>1, <1>3 DEF OwnInv, PointersLive, Held
<1>5. PointersLive'
  BY <1>1, <1>2, <1>3 DEF OwnInv, PointersLive, Held
<1>6. PointersUnique'
  BY <1>2, <1>3, <1>4 DEF OwnInv, PointersUnique
<1>7. \A msg \in Message : Pointed(msg) \/ msg = r => Pointed(msg)'
  BY <1>2, NoneAssumption DEF Pointed
<1>8. Accounted'
  BY <1>1, <1>2, <1>3, <1>7 DEF OwnInv, Accounted, Fresh
<1>9. QED
  BY <1>5, <1>6, <1>8 DEF OwnInv

LEMMA StoreReplyOwn ==
    ASSUME TypeOK, OwnInv, NEW n \in Mux, StoreReply(n)
    PROVE  OwnInv'
<1> DEFINE r == handling[n]
           k0 == addr[handling[n]].token
<1>1. /\ UNCHANGED <<addr, net, destroyed, reply>>
      /\ handling'[n] = None
      /\ \A m \in Mux : m # n => handling'[m] = handling[m]
  BY DEF StoreReply, TypeOK
<1>2. r \in Message /\ r # None /\ k0 \in DOMAIN replies[n] /\ replies[n][k0] = None
  BY StoreReplyMaps, NoneAssumption
<1>3. \A m \in Mux :
        /\ DOMAIN replies'[m] = DOMAIN replies[m]
        /\ \A k \in DOMAIN replies[m] :
              replies'[m][k] = IF m = n /\ k = k0 THEN r ELSE replies[m][k]
  BY StoreReplyMaps
<1>4. Held(r)
  BY <1>2 DEF OwnInv, PointersLive
<1>5. /\ \A m \in Mux : m # n => handling[m] # r
      /\ \A u \in Thread : reply[u] # r
      /\ \A m \in Mux : \A k \in DOMAIN replies[m] : replies[m][k] # r
  BY <1>2 DEF OwnInv, PointersUnique
<1>6. \A msg \in Message : Pointed(msg) => Pointed(msg)'
  <2>1. SUFFICES ASSUME NEW msg \in Message, Pointed(msg) PROVE Pointed(msg)'
    OBVIOUS
  <2>2. CASE msg = r
    BY <1>2, <1>3, <2>2 DEF Pointed
  <2>3. CASE msg # r
    BY <1>1, <1>2, <1>3, <2>1, <2>3, NoneAssumption DEF Pointed
  <2>4. QED
    BY <2>2, <2>3
<1> HIDE DEF r, k0
<1>7. PointersLive'
  BY <1>1, <1>2, <1>3, <1>4 DEF OwnInv, PointersLive, Held
<1>8. PointersUnique'
  BY <1>1, <1>2, <1>3, <1>5 DEF OwnInv, PointersUnique
<1>9. Accounted'
  BY <1>1, <1>6 DEF OwnInv, Accounted, Fresh
<1>10. QED
  BY <1>7, <1>8, <1>9 DEF OwnInv

LEMMA DropReplyOwn ==
    ASSUME TypeOK, OwnInv, NEW n \in Mux, DropReply(n)
    PROVE  OwnInv'
<1> DEFINE r == handling[n]
<1>1. /\ UNCHANGED <<addr, net, reply, replies>>
      /\ handling'[n] = None
      /\ \A m \in Mux : m # n => handling'[m] = handling[m]
  BY DEF DropReply, threadVars, TypeOK
<1>2. r \in Message /\ r # None /\ Held(r)
  BY NoneAssumption DEF DropReply, TypeOK, OwnInv, PointersLive
<1>3. /\ destroyed'[r] = 1
      /\ \A msg \in Message : msg # r => destroyed'[msg] = destroyed[msg]
  BY <1>2 DEF DropReply, Destroy, Held
<1>4. /\ \A m \in Mux : m # n => handling[m] # r
      /\ \A u \in Thread : reply[u] # r
      /\ \A m \in Mux : \A k \in DOMAIN replies[m] : replies[m][k] # r
  BY <1>2 DEF OwnInv, PointersUnique
<1>5. /\ \A m \in Mux : handling[m] \in Message \cup {None}
      /\ \A u \in Thread : reply[u] \in Message \cup {None}
      /\ \A m \in Mux : \A k \in DOMAIN replies[m] : replies[m][k] \in Message \cup {None}
  BY DEF TypeOK, MapType
<1>6. \A msg \in Message : msg # r /\ Pointed(msg) => Pointed(msg)'
  BY <1>1 DEF Pointed
<1> HIDE DEF r
<1>7. PointersLive'
  BY <1>1, <1>3, <1>4, <1>5 DEF OwnInv, PointersLive, Held
<1>8. PointersUnique'
  BY <1>1 DEF OwnInv, PointersUnique
<1>9. Accounted'
  BY <1>1, <1>2, <1>3, <1>6 DEF OwnInv, Accounted, Fresh, Held
<1>10. QED
  BY <1>7, <1>8, <1>9 DEF OwnInv

LEMMA RespondOwn ==
    ASSUME TypeOK, OwnInv, NEW r \in Message, Respond(r)
    PROVE  OwnInv'
<1>1. /\ UNCHANGED <<destroyed, reply, replies, handling>>
      /\ addr[r] = None
      /\ net' = net \cup {r}
      /\ \A msg \in Message : msg # r => addr'[msg] = addr[msg]
  BY DEF Respond, threadVars, TypeOK
<1>2. addr'[r] # None
  <2>1. PICK p \in published, nr \in BOOLEAN :
          addr'[r] = [mux |-> p[1], token |-> p[2], no_responders |-> nr]
    BY DEF Respond, TypeOK
  <2>2. p[1] \in Mux /\ p[2] \in Nat
    BY DEF TypeOK
  <2>3. addr'[r] \in Address
    BY <2>1, <2>2 DEF Address
  <2>4. QED
    BY <2>3, NoneAssumption
<1>3. /\ \A m \in Mux : handling[m] \in Message \cup {None}
      /\ \A u \in Thread : reply[u] \in Message \cup {None}
      /\ \A m \in Mux : \A k \in DOMAIN replies[m] : replies[m][k] \in Message \cup {None}
  BY DEF TypeOK, MapType
<1>4. PointersLive'
  BY <1>1, <1>2, <1>3 DEF OwnInv, PointersLive, Held
<1>5. PointersUnique'
  BY <1>1 DEF OwnInv, PointersUnique
<1>6. Accounted'
  BY <1>1, <1>2 DEF OwnInv, Accounted, Fresh, Pointed, TypeOK
<1>7. QED
  BY <1>4, <1>5, <1>6 DEF OwnInv

LEMMA NextOwn == TypeOK /\ PcInv /\ OwnInv /\ [Next]_vars => OwnInv'
<1> SUFFICES ASSUME TypeOK, PcInv, OwnInv, [Next]_vars PROVE OwnInv'
  OBVIOUS
<1>1. ASSUME NEW t \in Thread, Quiet(t), ~Convert(t) PROVE OwnInv'
  BY <1>1, QuietOwn DEF Quiet, Begin, UseMux, SubscribeFails, Subscribe, SetOnComplete,
     SetOnCompleteFails, Publish, PublishFails, TimeOut, Wait, Interrupted, Expire, Cancel, wireVars
<1>2. ASSUME NEW t \in Thread, Register(t) \/ TakeReply(t) \/ Convert(t) \/ Leave(t)
      PROVE  OwnInv'
  BY <1>2, RegisterOwn, TakeReplyOwn, ConvertOwn, LeaveOwn
<1>3. ASSUME NEW m \in Mux, Deliver(m) \/ StoreReply(m) \/ DropReply(m) PROVE OwnInv'
  BY <1>3, DeliverOwn, StoreReplyOwn, DropReplyOwn
<1>4. ASSUME NEW m \in Mux, Complete(m) PROVE OwnInv'
  BY <1>4, QuietOwn DEF Complete, wireVars, threadVars
<1>5. ASSUME NEW msg \in Message, Respond(msg) PROVE OwnInv'
  BY <1>5, RespondOwn
<1>6. CASE Drain \/ Close \/ Destruct \/ UNCHANGED vars
  BY <1>6, QuietOwn DEF Drain, Close, Destruct, vars, wireVars, threadVars
<1>7. QED
  BY <1>1, <1>2, <1>3, <1>4, <1>5, <1>6 DEF Next, Step, Handle, Quiet

\* Pointer by pointer, OwnInv is what ReplyOwnership says of the set of holders.
LEMMA OwnHolders == TypeOK /\ OwnInv => ReplyOwnership
<1> SUFFICES ASSUME TypeOK, OwnInv, NEW msg \in Message
             PROVE  IF addr[msg] = None \/ msg \in net
                    THEN destroyed[msg] = 0 /\ Holders(msg) = {}
                    ELSE \/ destroyed[msg] = 1 /\ Holders(msg) = {}
                         \/ destroyed[msg] = 0 /\ \E h \in Holders(msg) : Holders(msg) = {h}
  BY DEF ReplyOwnership
<1>1. msg # None
  BY NoneAssumption
<1>2. ~Held(msg) => Holders(msg) = {}
  BY <1>1 DEF OwnInv, PointersLive, Holders
<1>3. CASE Fresh(msg)
  BY <1>2, <1>3 DEF OwnInv, Accounted, Fresh, Held
<1>4. CASE ~Fresh(msg) /\ destroyed[msg] = 1
  BY <1>2, <1>4 DEF Fresh, Held
<1>5. CASE ~Fresh(msg) /\ destroyed[msg] = 0 /\ Pointed(msg)
  <2>1. ASSUME NEW m \in Mux, handling[m] = msg PROVE Holders(msg) = {<<"handler", m>>}
    BY <1>1, <2>1 DEF OwnInv, PointersUnique, Holders
  <2>2. ASSUME NEW t \in Thread, reply[t] = msg PROVE Holders(msg) = {<<"request", t>>}
    BY <1>1, <2>2 DEF OwnInv, PointersUnique, Holders
  <2>3. ASSUME NEW m \in Mux, NEW k \in DOMAIN replies[m], replies[m][k] = msg
        PROVE  Holders(msg) = {<<"entry", m, k>>}
    BY <1>1, <2>3 DEF OwnInv, PointersUnique, Holders
  <2>4. \E h : Holders(msg) = {h}
    BY <1>5, <2>1, <2>2, <2>3 DEF Pointed
  <2>5. QED
    BY <1>5, <2>4 DEF Fresh
<1>6. QED
  BY <1>3, <1>4, <1>5 DEF OwnInv, Accounted

\* No reply is leaked, used after it is destroyed, or destroyed twice.
THEOREM OwnershipCorrect == Spec => []ReplyOwnership
<1>1. QED
  BY InitOwn, NextOwn, OwnHolders, TypeCorrect, PTL DEF Spec

-----------------------------------------------------------------------------
(* The wait for the reply *)

\* The broadcast of a reply that is stored for a waiting request has reached its thread.
NoWakeupLost == \A t \in Thread : pc[t] = "wait" /\ Slot(t) # None => t \in signalled

\* What the other threads leave of a registered request: its references, its deadline, a
\* reply that is stored for it, and the broadcast of it.
Kept(t) ==
    /\ pc'[t] = pc[t] /\ token'[t] = token[t] /\ mux'[t] = mux[t] /\ reply'[t] = reply[t]
    /\ expired[t] => expired'[t]
    /\ cancelled[t] => cancelled'[t]
    /\ t \in signalled => t \in signalled'
    /\ Slot(t) # None => Slot(t)' = Slot(t)
    /\ Slot(t) = None /\ pc[t] = "wait" => Slot(t)' = None \/ t \in signalled'

LEMMA KeptByThread ==
    ASSUME TypeOK, PcInv, EntriesAreRequests, NEW t \in Registered, NEW u \in Thread,
           u # t, Begin(u) \/ Step(u)
    PROVE  Kept(t)
<1> USE DEF threadVars, initVars, subVars, wireVars, Goto, EndWith
<1>0. /\ t \in Thread /\ mux[t] \in Mux /\ token[t] <= reply_counter /\ token[t] \in Nat
      /\ reply_counter \in Nat
  BY DEF Registered, TypeOK, PcInv
<1>1. CASE Quiet(u)
  <2>1. /\ replies' = replies /\ signalled \ {u} \subseteq signalled'
        /\ pc'[t] = pc[t] /\ token'[t] = token[t] /\ mux'[t] = mux[t] /\ reply'[t] = reply[t]
        /\ expired[t] => expired'[t]
        /\ cancelled[t] => cancelled'[t]
    BY <1>0, <1>1 DEF Quiet, Begin, UseMux, SubscribeFails, Subscribe, SetOnComplete,
       SetOnCompleteFails, Publish, PublishFails, TimeOut, Wait, Interrupted, Convert,
       Expire, Cancel, TypeOK
  <2>2. QED
    BY <2>1 DEF Kept, Slot
<1>2. CASE Register(u)
  <2>1. /\ pc'[t] = pc[t] /\ token'[t] = token[t] /\ mux'[t] = mux[t]
        /\ UNCHANGED <<reply, expired, cancelled, signalled>>
    BY <1>0, <1>2 DEF Register, TypeOK
  <2>2. token'[u] # token[t]
    BY <1>0, <1>2, RegisterMaps
  <2>3. Slot(t)' = Slot(t)
    <3>1. token[t] \in DOMAIN replies[mux[t]] /\ mux'[t] \in Mux
      BY <1>0, <2>1 DEF EntriesAreRequests
    <3>2. token[t] \in DOMAIN replies'[mux[t]]
      BY <1>0, <1>2, <3>1, RegisterMaps
    <3>3. replies'[mux[t]][token[t]] = replies[mux[t]][token[t]]
      BY <1>0, <1>2, <2>2, <3>2, RegisterMaps
    <3>4. QED
      BY <2>1, <3>1, <3>2, <3>3 DEF Slot
  <2>4. QED
    BY <2>1, <2>3 DEF Kept
<1>3. CASE TakeReply(u)
  <2>1. /\ pc'[t] = pc[t] /\ reply'[t] = reply[t] /\ signalled' = signalled \ {u}
        /\ UNCHANGED <<token, mux, expired, cancelled>>
    BY <1>0, <1>3 DEF TakeReply, TypeOK
  <2>2. token[u] # token[t]
    BY <1>3 DEF TakeReply, Looks, Resumed, Woken, Registered, EntriesAreRequests
  <2>3. Slot(t)' = Slot(t)
    BY <1>0, <1>3, <2>1, <2>2, TakeReplyMaps DEF Slot
  <2>4. QED
    BY <2>1, <2>3 DEF Kept
<1>4. CASE Leave(u)
  <2>1. /\ pc'[t] = pc[t] /\ mux'[t] = mux[t] /\ expired'[t] = expired[t]
        /\ UNCHANGED <<token, reply, cancelled, signalled>>
    BY <1>0, <1>4 DEF Leave, TypeOK
  <2>2. token[u] # token[t]
    BY <1>4 DEF Leave, Registered, EntriesAreRequests
  <2>3. Slot(t)' = Slot(t)
    <3>1. token[t] \in DOMAIN replies[mux[t]]
      BY DEF EntriesAreRequests
    <3>2. token[t] \in DOMAIN replies'[mux[t]]
      BY <1>0, <1>4, <2>2, <3>1, LeaveMaps
    <3>3. replies'[mux[t]][token[t]] = replies[mux[t]][token[t]]
      BY <1>0, <1>4, <3>2, LeaveMaps
    <3>4. QED
      BY <2>1, <3>1, <3>2, <3>3 DEF Slot
  <2>4. QED
    BY <2>1, <2>3 DEF Kept
<1>5. QED
  BY <1>1, <1>2, <1>3, <1>4 DEF Step, Quiet

LEMMA KeptByOthers ==
    ASSUME TypeOK, PcInv, EntriesAreRequests, [Next]_vars, NEW t \in Registered, ~Step(t)
    PROVE  Kept(t)
<1> USE DEF threadVars, initVars, subVars, wireVars
<1>0. t \in Thread /\ mux[t] \in Mux /\ token[t] \in DOMAIN replies[mux[t]] /\ pc[t] # "idle"
  BY DEF Registered, TypeOK, PcInv, EntriesAreRequests
<1>1. ASSUME UNCHANGED <<pc, mux, token, reply, expired, cancelled, signalled, replies>>
      PROVE  Kept(t)
  BY <1>1 DEF Kept, Slot
<1>2. CASE \E u \in Thread : Expire(u) \/ Cancel(u)
  <2>1. /\ UNCHANGED <<pc, mux, token, reply, signalled, replies>>
        /\ expired[t] => expired'[t]
        /\ cancelled[t] => cancelled'[t]
    BY <1>0, <1>2 DEF Expire, Cancel, TypeOK
  <2>2. QED
    BY <2>1 DEF Kept, Slot
<1>3. CASE \E u \in Thread : Begin(u) \/ Step(u)
  BY <1>0, <1>3, KeptByThread DEF Begin
<1>4. ASSUME NEW m \in Mux, StoreReply(m) PROVE Kept(t)
  <2>1. /\ UNCHANGED <<pc, mux, token, reply, expired, cancelled>>
        /\ signalled' = signalled \cup Waiters(m)
    BY <1>4 DEF StoreReply
  <2>2. Slot(t) # None => Slot(t)' = Slot(t)
    BY <1>0, <1>4, <2>1, StoreReplyMaps DEF Slot
  <2>3. Slot(t)' = Slot(t) \/ mux[t] = m
    BY <1>0, <1>4, <2>1, StoreReplyMaps DEF Slot
  <2>4. QED
    BY <1>0, <2>1, <2>2, <2>3 DEF Kept, Waiters
<1>5. CASE \E m \in Mux : Deliver(m) \/ DropReply(m) \/ Complete(m)
  BY <1>1, <1>5 DEF Deliver, DropReply, Complete
<1>6. CASE Drain \/ Close \/ Destruct \/ (\E msg \in Message : Respond(msg)) \/ UNCHANGED vars
  BY <1>1, <1>6 DEF Drain, Close, Destruct, Respond, vars
<1>7. QED
  BY <1>2, <1>3, <1>4, <1>5, <1>6 DEF Next, Handle

\* No wakeup is lost: between the look at its entry and the wait a thread holds the mutex, and
\* each reply stored while it waits is broadcast to it, for any number of requests that share
\* the mux and its condition variable.
LEMMA NextWakeup ==
    TypeOK /\ PcInv /\ EntriesAreRequests /\ NoWakeupLost /\ [Next]_vars => NoWakeupLost'
<1> SUFFICES ASSUME TypeOK, PcInv, EntriesAreRequests, NoWakeupLost, [Next]_vars, NEW t \in Thread,
                    (pc[t] = "wait" /\ Slot(t) # None)'
             PROVE  t \in signalled'
  BY DEF NoWakeupLost
<1>1. CASE Step(t)
  <2>1. Wait(t)
    BY <1>1 DEF Step, UseMux, SubscribeFails, Subscribe, SetOnComplete, SetOnCompleteFails,
       Register, Publish, PublishFails, TakeReply, TimeOut, Interrupted, Convert, Leave, Goto,
       TypeOK
  <2>2. Slot(t)' = None
    BY <2>1 DEF Wait, Slot
  <2>3. QED
    BY <2>2
<1>2. CASE ~Step(t) /\ t \in Registered
  <2>1. Kept(t)
    BY <1>2, KeptByOthers
  <2>2. QED
    BY <2>1 DEF Kept, NoWakeupLost
<1>3. CASE ~Step(t) /\ t \notin Registered
  <2>1. pc'[t] # "wait"
    <3>1. ASSUME NEW u \in Thread, u # t, Step(u) PROVE pc'[t] = pc[t]
      BY <3>1 DEF Step, UseMux, SubscribeFails, Subscribe, SetOnComplete, SetOnCompleteFails,
         Register, Publish, PublishFails, TakeReply, TimeOut, Wait, Interrupted, Convert, Leave,
         Goto, TypeOK
    <3>2. ASSUME NEW u \in Thread, Begin(u) \/ Expire(u) \/ Cancel(u)
          PROVE  pc'[t] = pc[t] \/ pc'[t] = "getmux"
      BY <3>2 DEF Begin, Expire, Cancel, Goto, TypeOK
    <3>3. CASE UNCHANGED vars \/ Drain \/ Close \/ Destruct \/ (\E m \in Mux : Deliver(m) \/ Handle(m))
               \/ \E msg \in Message : Respond(msg)
      BY <1>3, <3>3 DEF Drain, Close, Destruct, Deliver, Handle, StoreReply, DropReply, Complete,
         Respond, vars, threadVars, Registered
    <3>4. QED
      BY <1>3, <3>1, <3>2, <3>3 DEF Next, Registered
  <2>2. QED
    BY <2>1
<1>4. QED
  BY <1>1, <1>2, <1>3

\* A thread that waits for its reply has been reached by the broadcast of the reply that is
\* stored for it, for any number of requests that share the mux and its condition variable.
THEOREM WakeupsReach == Spec => []NoWakeupLost
<1>1. Init => NoWakeupLost
  BY DEF Init, NoWakeupLost
<1>2. QED
  BY <1>1, NextWakeup, EntriesCorrect, TypeCorrect, PTL DEF Spec

-----------------------------------------------------------------------------
(* What the threads bring about as they go on.  ENABLED has no proof rules here, so that   *)
(* weak fairness is stated with the guard of the action written out.                       *)

\* Thread t can take a step that changes the state.
StepReady(t) ==
    \/ pc[t] \in {"oncomplete", "register", "publish", "check", "convert", "leaving"}
    \/ pc[t] = "getmux" /\ InitLockFree
    \/ /\ pc[t] = "wait"
       /\ t \in signalled \/ expired[t] \/ cancelled[t] \/ (~Cancellable /\ Slot(t) # None)
StepRuns(t) == []<>~StepReady(t) \/ []<><<Step(t)>>_vars

\* The delivery thread has a message in the handler, or the end of the subscription to report.
HandleReady(m) == handling[m] # None \/ sub[m] = "ending"
HandleRuns(m) == []<>~HandleReady(m) \/ []<><<Handle(m)>>_vars

\* The two are what the fairness of the specification says of the actions.
LEMMA FairStep ==
    ASSUME NEW t \in Thread
    PROVE  WF_vars(Step(t)) /\ [](StepReady(t) => ENABLED <<Step(t)>>_vars) => StepRuns(t)
BY PTL DEF StepRuns

LEMMA FairHandle ==
    ASSUME NEW m \in Mux
    PROVE  WF_vars(Handle(m)) /\ [](HandleReady(m) => ENABLED <<Handle(m)>>_vars) => HandleRuns(m)
BY PTL DEF HandleRuns

\* The safety properties that the following rests on.
Safe == TypeOK /\ PcInv /\ EntriesAreRequests /\ NoWakeupLost /\ ReplyOwnership

LEMMA SafeAlways == Spec => []Safe
BY TypeCorrect, EntriesCorrect, WakeupsReach, OwnershipCorrect, PTL DEF Safe

\* t's wait is to end: a reply is stored, or it is too late, or, without a cancellable poll,
\* the thread finds itself cancelled.
WaitOver(t) == Slot(t) # None \/ expired[t] \/ (~Cancellable /\ cancelled[t])
WaitEnds(t) == (pc[t] = "wait" /\ WaitOver(t)) ~> pc[t] = "idle"

Waiting(t) == Safe /\ pc[t] = "wait" /\ WaitOver(t)
After(t, label) == Safe /\ pc[t] = label

\* The steps of t itself from the end of its wait.
LEMMA WaitSteps ==
    ASSUME NEW t \in Thread, TypeOK, Step(t)
    PROVE  /\ pc[t] = "wait" /\ WaitOver(t) => pc'[t] \in {"convert", "leaving"}
           /\ pc[t] = "convert" => pc'[t] = "leaving"
           /\ pc[t] = "leaving" => pc'[t] = "idle"
BY DEF Step, UseMux, SubscribeFails, Subscribe, SetOnComplete, SetOnCompleteFails,
   Register, Publish, PublishFails, TakeReply, TimeOut, Wait, Interrupted, Convert, Leave, Goto,
   Looks, Resumed, Woken, WaitOver, TypeOK

\* No step of another thread puts off the end of a wait.
LEMMA WaitKept ==
    ASSUME NEW t \in Thread, Safe, [Next]_vars, ~Step(t)
    PROVE  /\ pc[t] \in {"wait", "convert", "leaving"} => pc'[t] = pc[t]
           /\ pc[t] = "wait" /\ WaitOver(t) => WaitOver(t)'
<1> SUFFICES ASSUME pc[t] \in {"wait", "convert", "leaving"}
             PROVE  pc'[t] = pc[t] /\ (WaitOver(t) => WaitOver(t)')
  OBVIOUS
<1>1. Kept(t)
  BY KeptByOthers DEF Safe, Registered
<1>2. QED
  BY <1>1 DEF Kept, WaitOver

LEMMA WaitReturns ==
    ASSUME NEW t \in Thread
    PROVE  Spec /\ StepRuns(t) => WaitEnds(t)
<1> DEFINE W == Waiting(t)
           C == After(t, "convert")
           L == After(t, "leaving")
           Begins == pc[t] = "wait" /\ WaitOver(t)
           Idle == pc[t] = "idle"
<1>1. Safe /\ Begins => W
  BY DEF Waiting
<1>2. /\ W => StepReady(t)
      /\ C => StepReady(t)
      /\ L => StepReady(t)
  BY DEF Waiting, After, StepReady, WaitOver, Safe, NoWakeupLost
<1>3. /\ Safe' /\ W /\ [Next]_vars => (W \/ C \/ L)'
      /\ Safe' /\ C /\ [Next]_vars => (C \/ L)'
      /\ Safe' /\ L /\ [Next]_vars => (L \/ Idle)'
  BY WaitSteps, WaitKept DEF Waiting, After, Safe
<1>4. /\ Safe' /\ W /\ <<Step(t)>>_vars => (C \/ L)'
      /\ Safe' /\ C /\ <<Step(t)>>_vars => L'
      /\ L /\ <<Step(t)>>_vars => Idle'
  BY WaitSteps DEF Waiting, After, Safe
<1> HIDE DEF W, C, L, Begins, Idle
<1>5. Spec /\ StepRuns(t) => [](Begins => <>Idle)
  BY <1>1, <1>2, <1>3, <1>4, SafeAlways, PTL DEF Spec, StepRuns
<1>6. QED
  BY <1>5, PTL DEF WaitEnds, Begins, Idle

\* request() returns once its reply is stored or its deadline passes, whatever the other
\* requests, the delivery thread and the connection do, for any number of them, as long as the
\* thread that calls it runs.
THEOREM WaitsEnd == Spec /\ (\A t \in Thread : StepRuns(t)) => \A t \in Thread : WaitEnds(t)
BY WaitReturns

\* Without a cancellable poll, it also returns once it is cancelled.
THEOREM RequestsEnd ==
    ASSUME ~Cancellable
    PROVE  Spec /\ (\A t \in Thread : StepRuns(t)) => RequestEnds
<1> SUFFICES ASSUME NEW t \in Thread
             PROVE  Spec /\ (\A u \in Thread : StepRuns(u)) =>
                       ((pc[t] = "wait" /\ (Slot(t) # None \/ expired[t] \/ cancelled[t]))
                          ~> pc[t] = "idle")
  BY DEF RequestEnds
<1>1. (pc[t] = "wait" /\ (Slot(t) # None \/ expired[t] \/ cancelled[t])) =>
         (pc[t] = "wait" /\ WaitOver(t))
  BY DEF WaitOver
<1>2. Spec /\ (\A u \in Thread : StepRuns(u)) => WaitEnds(t)
  BY WaitReturns
<1>3. QED
  BY <1>1, <1>2, PTL DEF WaitEnds

-----------------------------------------------------------------------------
(* The way of a reply through replyHandler() and request() *)

\* Thread t's request has msg: stored for it, or taken.
Has(t, msg) == t \in Registered /\ (Slot(t) = msg \/ reply[t] = msg)
Destroyed(msg) == destroyed[msg] = 1

\* Where t is with the stored msg, and with msg taken.
Stored(t, msg, label) == Safe /\ pc[t] = label /\ Slot(t) = msg
Took(t, msg) == Safe /\ pc[t] = "convert" /\ reply[t] = msg

\* A pointer of the program to a reply is to one that is not destroyed.
LEMMA HeldAlive ==
    ASSUME TypeOK, ReplyOwnership, NEW msg \in Message, NEW h \in Holders(msg)
    PROVE  destroyed[msg] = 0
BY DEF ReplyOwnership

LEMMA HasAlive ==
    ASSUME Safe, NEW t \in Thread, NEW msg \in Message, Has(t, msg)
    PROVE  destroyed[msg] = 0
<1>0. msg # None /\ t \in Registered
  BY NoneAssumption DEF Has
<1>1. CASE reply[t] = msg
  <2>1. <<"request", t>> \in Holders(msg)
    BY <1>1 DEF Holders
  <2>2. QED
    BY <2>1, HeldAlive DEF Safe
<1>2. CASE Slot(t) = msg
  <2>1. mux[t] \in Mux /\ token[t] \in DOMAIN replies[mux[t]] /\ replies[mux[t]][token[t]] = msg
    BY <1>0, <1>2 DEF Safe, Slot, Registered, TypeOK, PcInv
  <2>2. <<"entry", mux[t], token[t]>> \in Holders(msg)
    BY <2>1 DEF Holders
  <2>3. QED
    BY <2>2, HeldAlive DEF Safe
<1>3. QED
  BY <1>1, <1>2 DEF Has

\* The steps of t itself.
LEMMA StoredSteps ==
    ASSUME Safe, NEW t \in Thread, NEW msg \in Message, Step(t), Slot(t) = msg, t \in Registered
    PROVE  /\ pc[t] = "publish" => pc'[t] \in {"check", "leaving"} /\ Slot(t)' = msg
           /\ pc[t] = "check" => pc'[t] = "convert" /\ reply'[t] = msg
           /\ pc[t] = "wait" => \/ pc'[t] = "convert" /\ reply'[t] = msg
                                \/ pc'[t] = "leaving" /\ Slot(t)' = msg
           /\ pc[t] = "convert" => pc'[t] = "leaving" /\ Slot(t)' = msg
           /\ pc[t] = "leaving" => destroyed'[msg] = 1
<1>0. msg # None /\ TypeOK
  BY NoneAssumption DEF Safe
<1>1. CASE Publish(t) \/ PublishFails(t) \/ Convert(t)
  BY <1>0, <1>1 DEF Publish, PublishFails, Convert, Goto, Slot, wireVars, TypeOK
<1>2. CASE TakeReply(t)
  BY <1>0, <1>2 DEF TakeReply, Looks, Resumed, Woken, Goto, TypeOK
<1>3. CASE Interrupted(t)
  BY <1>0, <1>3 DEF Interrupted, Woken, Goto, Slot, TypeOK
<1>4. CASE TimeOut(t) \/ Wait(t)
  BY <1>0, <1>4 DEF TimeOut, Wait
<1>5. CASE Leave(t)
  <2>1. destroyed[msg] = 0
    BY HasAlive DEF Has
  <2>2. QED
    BY <1>0, <1>5, <2>1 DEF Leave, Unclaimed, Destroy, TypeOK
<1>6. CASE UseMux(t) \/ SubscribeFails(t) \/ Subscribe(t) \/ SetOnComplete(t) \/ SetOnCompleteFails(t)
           \/ Register(t)
  BY <1>6 DEF UseMux, SubscribeFails, Subscribe, SetOnComplete, SetOnCompleteFails, Register,
     Registered
<1>7. QED
  BY <1>1, <1>2, <1>3, <1>4, <1>5, <1>6 DEF Step

LEMMA TookSteps ==
    ASSUME Safe, NEW t \in Thread, NEW msg \in Message, Step(t), pc[t] = "convert", reply[t] = msg
    PROVE  destroyed'[msg] = 1
<1>1. Convert(t)
  BY DEF Step, UseMux, SubscribeFails, Subscribe, SetOnComplete, SetOnCompleteFails, Register,
     Publish, PublishFails, TakeReply, TimeOut, Wait, Interrupted, Leave, Looks, Resumed, Woken
<1>2. destroyed[msg] = 0
  BY HasAlive DEF Has, Registered
<1>3. QED
  BY <1>1, <1>2 DEF Convert, Destroy, Safe, TypeOK

\* The steps of the others.
LEMMA HasKept ==
    ASSUME Safe, NEW t \in Registered, NEW msg \in Message, [Next]_vars, ~Step(t)
    PROVE  /\ pc'[t] = pc[t]
           /\ Slot(t) = msg => Slot(t)' = msg
           /\ reply[t] = msg => reply'[t] = msg
<1>1. Kept(t) /\ msg # None
  BY KeptByOthers, NoneAssumption DEF Safe
<1>2. QED
  BY <1>1 DEF Kept

\* Where msg goes in each step.
LEMMA ReplyMoves ==
    ASSUME NEW t \in Thread, NEW msg \in Message
    PROVE  LET P == Stored(t, msg, "publish")
               K == Stored(t, msg, "check")
               W == Stored(t, msg, "wait")
               C == Stored(t, msg, "convert")
               L == Stored(t, msg, "leaving")
               T == Took(t, msg)
               H == Has(t, msg)
               D == Destroyed(msg)
           IN  /\ Safe /\ H => P \/ K \/ W \/ C \/ L \/ T
               /\ P \/ K \/ W \/ C \/ L \/ T => H /\ StepReady(t)
               /\ Safe' /\ P /\ Step(t) => (K \/ L)'
               /\ Safe' /\ K /\ Step(t) => T'
               /\ Safe' /\ W /\ Step(t) => (T \/ L)'
               /\ Safe' /\ C /\ Step(t) => L'
               /\ L /\ Step(t) => D'
               /\ T /\ Step(t) => D'
               /\ Safe' /\ P /\ [Next]_vars /\ ~Step(t) => P'
               /\ Safe' /\ K /\ [Next]_vars /\ ~Step(t) => K'
               /\ Safe' /\ W /\ [Next]_vars /\ ~Step(t) => W'
               /\ Safe' /\ C /\ [Next]_vars /\ ~Step(t) => C'
               /\ Safe' /\ L /\ [Next]_vars /\ ~Step(t) => L'
               /\ Safe' /\ T /\ [Next]_vars /\ ~Step(t) => T'
<1> DEFINE P == Stored(t, msg, "publish")
           K == Stored(t, msg, "check")
           W == Stored(t, msg, "wait")
           C == Stored(t, msg, "convert")
           L == Stored(t, msg, "leaving")
           T == Took(t, msg)
           H == Has(t, msg)
           D == Destroyed(msg)
<1>0. /\ msg # None
      /\ Stored(t, msg, "publish") \/ Stored(t, msg, "check") \/ Stored(t, msg, "wait")
         \/ Stored(t, msg, "convert") \/ Stored(t, msg, "leaving") \/ Took(t, msg)
            => t \in Registered
  BY NoneAssumption DEF Stored, Took, Registered
<1>has. P \/ K \/ W \/ C \/ L \/ T => H
  BY <1>0 DEF Stored, Took, Has
<1>1. Safe /\ H => P \/ K \/ W \/ C \/ L \/ T
  BY <1>0 DEF Has, Stored, Took, Registered, Safe, PcInv
<1>2. /\ P => StepReady(t)
      /\ K => StepReady(t)
      /\ W => StepReady(t)
      /\ C => StepReady(t)
      /\ L => StepReady(t)
      /\ T => StepReady(t)
  BY <1>0 DEF Stored, Took, StepReady, Safe, NoWakeupLost
<1>3. /\ Safe' /\ P /\ Step(t) => (K \/ L)'
      /\ Safe' /\ K /\ Step(t) => T'
      /\ Safe' /\ W /\ Step(t) => (T \/ L)'
      /\ Safe' /\ C /\ Step(t) => L'
      /\ L /\ Step(t) => D'
      /\ T /\ Step(t) => D'
  BY <1>0, StoredSteps, TookSteps DEF Stored, Took, Destroyed, Registered
<1>4. /\ Safe' /\ P /\ [Next]_vars /\ ~Step(t) => P'
      /\ Safe' /\ K /\ [Next]_vars /\ ~Step(t) => K'
      /\ Safe' /\ W /\ [Next]_vars /\ ~Step(t) => W'
      /\ Safe' /\ C /\ [Next]_vars /\ ~Step(t) => C'
      /\ Safe' /\ L /\ [Next]_vars /\ ~Step(t) => L'
      /\ Safe' /\ T /\ [Next]_vars /\ ~Step(t) => T'
  BY <1>0, HasKept DEF Stored, Took
<1>5. QED
  BY <1>1, <1>2, <1>3, <1>4, <1>has

LEMMA ReplyGoes ==
    ASSUME NEW t \in Thread, NEW msg \in Message
    PROVE  Spec /\ StepRuns(t) => (Has(t, msg) ~> Destroyed(msg))
<1> DEFINE P == Stored(t, msg, "publish")
           K == Stored(t, msg, "check")
           W == Stored(t, msg, "wait")
           C == Stored(t, msg, "convert")
           L == Stored(t, msg, "leaving")
           T == Took(t, msg)
           H == Has(t, msg)
           D == Destroyed(msg)
<1>1. /\ Safe /\ H => P \/ K \/ W \/ C \/ L \/ T
      /\ P \/ K \/ W \/ C \/ L \/ T => StepReady(t)
  BY ReplyMoves
<1>5. /\ Safe' /\ P /\ [Next]_vars => (P \/ K \/ L)'
      /\ Safe' /\ K /\ [Next]_vars => (K \/ T)'
      /\ Safe' /\ W /\ [Next]_vars => (W \/ T \/ L)'
      /\ Safe' /\ C /\ [Next]_vars => (C \/ L)'
      /\ Safe' /\ L /\ [Next]_vars => (L \/ D)'
      /\ Safe' /\ T /\ [Next]_vars => (T \/ D)'
  BY ReplyMoves
<1>6. /\ Safe' /\ P /\ <<Step(t)>>_vars => (K \/ L)'
      /\ Safe' /\ K /\ <<Step(t)>>_vars => T'
      /\ Safe' /\ W /\ <<Step(t)>>_vars => (T \/ L)'
      /\ Safe' /\ C /\ <<Step(t)>>_vars => L'
      /\ L /\ <<Step(t)>>_vars => D'
      /\ T /\ <<Step(t)>>_vars => D'
  BY ReplyMoves
<1> HIDE DEF P, K, W, C, L, T, H, D
<1>7. Spec /\ StepRuns(t) => [](H => <>D)
  BY <1>1, <1>5, <1>6, SafeAlways, PTL DEF Spec, StepRuns
<1>8. QED
  BY <1>7, PTL DEF H, D

\* replyHandler() does not keep the message it runs on: the message is destroyed, or is the
\* stored reply of a request in progress.
LEMMA HandlerSteps ==
    ASSUME Safe, Safe', NEW m \in Mux, NEW msg \in Message, handling[m] = msg, Handle(m)
    PROVE  Destroyed(msg)' \/ (\E t \in Thread : Has(t, msg))'
<1>0. msg # None
  BY NoneAssumption
<1>1. CASE DropReply(m)
  <2>1. <<"handler", m>> \in Holders(msg)
    BY DEF Holders
  <2>2. destroyed[msg] = 0
    BY <2>1, HeldAlive DEF Safe
  <2>3. QED
    BY <1>1, <2>2 DEF DropReply, Destroy, Destroyed, Safe, TypeOK
<1>2. CASE StoreReply(m)
  <2> DEFINE k == addr[msg].token
  <2>1. k \in DOMAIN replies[m] /\ k \in DOMAIN replies'[m] /\ replies'[m][k] = msg
    BY <1>2, StoreReplyMaps DEF Safe
  <2>2. PICK t \in Registered : mux[t] = m /\ token[t] = k
    BY <2>1 DEF Safe, EntriesAreRequests
  <2>3. UNCHANGED <<pc, mux, token>>
    BY <1>2 DEF StoreReply
  <2> HIDE DEF k
  <2>4. t \in Registered' /\ Slot(t)' = msg /\ t \in Thread
    BY <2>1, <2>2, <2>3 DEF Slot, Registered
  <2>5. QED
    BY <2>4 DEF Has
<1>3. CASE Complete(m)
  BY <1>0, <1>3 DEF Complete
<1>4. QED
  BY <1>1, <1>2, <1>3 DEF Handle

LEMMA HandlerKept ==
    ASSUME NEW m \in Mux, NEW msg \in Message, handling[m] = msg, TypeOK, [Next]_vars, ~Handle(m)
    PROVE  handling'[m] = msg
<1>0. msg # None
  BY NoneAssumption
<1>1. CASE \E t \in Thread : Begin(t) \/ Step(t) \/ Expire(t) \/ Cancel(t)
  BY <1>1 DEF Begin, Step, UseMux, SubscribeFails, Subscribe, SetOnComplete, SetOnCompleteFails,
     Register, Publish, PublishFails, TakeReply, TimeOut, Wait, Interrupted, Convert, Leave,
     Expire, Cancel, wireVars
<1>2. CASE \E n \in Mux : Deliver(n) \/ Handle(n)
  BY <1>0, <1>2 DEF Deliver, Handle, StoreReply, DropReply, Complete, wireVars, TypeOK
<1>3. CASE Drain \/ Close \/ Destruct \/ (\E r \in Message : Respond(r)) \/ UNCHANGED vars
  BY <1>3 DEF Drain, Close, Destruct, Respond, vars, wireVars
<1>4. QED
  BY <1>1, <1>2, <1>3 DEF Next

Handled(m, msg) == (handling[m] = msg) ~> (Destroyed(msg) \/ \E t \in Thread : Has(t, msg))

LEMMA ReplyHandled ==
    ASSUME NEW m \in Mux, NEW msg \in Message
    PROVE  Spec /\ HandleRuns(m) => Handled(m, msg)
<1> DEFINE H == handling[m] = msg
           G == Destroyed(msg) \/ \E t \in Thread : Has(t, msg)
<1>1. H => HandleReady(m)
  BY NoneAssumption DEF HandleReady
<1>2. Safe /\ Safe' /\ H /\ [Next]_vars => (H \/ G)'
  BY HandlerSteps, HandlerKept DEF Safe
<1>3. Safe /\ Safe' /\ H /\ <<Handle(m)>>_vars => G'
  BY HandlerSteps
<1> HIDE DEF H, G
<1>4. Spec /\ HandleRuns(m) => [](H => <>G)
  BY <1>1, <1>2, <1>3, SafeAlways, PTL DEF Spec, HandleRuns
<1>5. QED
  BY <1>4, PTL DEF Handled, H, G

\* replyHandler() comes to an end with every message, which is destroyed or goes to a request,
\* as long as the delivery thread runs.
THEOREM RepliesHandled ==
    Spec /\ (\A m \in Mux : HandleRuns(m)) => \A m \in Mux, msg \in Message : Handled(m, msg)
BY ReplyHandled

Consumed(t, msg) == Has(t, msg) ~> Destroyed(msg)

\* A request destroys every reply that is stored for it, also the one that arrives before it
\* waits, after it took another or when it is cancelled, as long as its thread runs.
THEOREM RepliesConsumed ==
    Spec /\ (\A t \in Thread : StepRuns(t)) => \A t \in Thread, msg \in Message : Consumed(t, msg)
<1>1. ASSUME NEW t \in Thread, NEW msg \in Message
      PROVE  Spec /\ StepRuns(t) => Consumed(t, msg)
  BY ReplyGoes, PTL DEF Consumed
<1>2. QED
  BY <1>1

\* The same from the side of a message: who has it goes on.  As a message is in one place, and moves
\* between them in the steps of their owners only, this follows when each thread goes on.
InHandler(msg) == \E m \in Mux : handling[m] = msg
HandlerOf(msg) == \E m \in Mux : handling[m] = msg /\ Handle(m)
HandlerRuns(msg) == []<>~InHandler(msg) \/ []<><<HandlerOf(msg)>>_vars

InRequest(msg) == \E t \in Thread : Has(t, msg)
RequestOf(msg) == \E t \in Thread : Has(t, msg) /\ Step(t)
RequestRuns(msg) == []<>~InRequest(msg) \/ []<><<RequestOf(msg)>>_vars

LEMMA FairHandlerOf ==
    ASSUME NEW msg \in Message
    PROVE  WF_vars(HandlerOf(msg)) /\ [](InHandler(msg) => ENABLED <<HandlerOf(msg)>>_vars)
           => HandlerRuns(msg)
BY PTL DEF HandlerRuns

LEMMA FairRequestOf ==
    ASSUME NEW msg \in Message
    PROVE  WF_vars(RequestOf(msg)) /\ [](InRequest(msg) => ENABLED <<RequestOf(msg)>>_vars)
           => RequestRuns(msg)
BY PTL DEF RequestRuns

LEMMA HoldersHave ==
    ASSUME Safe, NEW msg \in Message, Holders(msg) # {}
    PROVE  InHandler(msg) \/ InRequest(msg)
<1>0. msg # None
  BY NoneAssumption
<1>1. CASE \E t \in Thread : reply[t] = msg
  BY <1>0, <1>1 DEF Safe, PcInv, InRequest, Has, Registered
<1>2. CASE \E m \in Mux : \E k \in DOMAIN replies[m] : replies[m][k] = msg
  <2>1. PICK m \in Mux : \E k \in DOMAIN replies[m] : replies[m][k] = msg
    BY <1>2
  <2>2. PICK k \in DOMAIN replies[m] : replies[m][k] = msg
    BY <2>1
  <2>3. PICK t \in Registered : mux[t] = m /\ token[t] = k
    BY <2>2 DEF Safe, EntriesAreRequests
  <2>4. Slot(t) = msg /\ t \in Thread
    BY <2>2, <2>3 DEF Slot, Registered
  <2>5. QED
    BY <2>4 DEF InRequest, Has
<1>3. CASE \E m \in Mux : handling[m] = msg
  BY <1>3 DEF InHandler
<1>4. QED
  BY <1>1, <1>2, <1>3 DEF Holders

\* No two requests have the same reply.
LEMMA OneHas ==
    ASSUME Safe, NEW t \in Thread, NEW u \in Thread, NEW msg \in Message, Has(t, msg), Has(u, msg)
    PROVE  t = u
<1>0. /\ msg # None /\ t \in Registered /\ u \in Registered
      /\ \A x, y \in Holders(msg) : x = y
  <2>1. \A x, y \in Holders(msg) : x = y
    BY DEF Safe, ReplyOwnership
  <2>2. QED
    BY <2>1, NoneAssumption DEF Has
<1>1. ASSUME NEW v \in Registered, Slot(v) = msg PROVE <<"entry", mux[v], token[v]>> \in Holders(msg)
  <2>1. mux[v] \in Mux /\ token[v] \in DOMAIN replies[mux[v]] /\ replies[mux[v]][token[v]] = msg
    BY <1>0, <1>1 DEF Safe, Slot, Registered, TypeOK, PcInv
  <2>2. QED
    BY <2>1 DEF Holders
<1>2. ASSUME NEW v \in Thread, reply[v] = msg PROVE <<"request", v>> \in Holders(msg)
  BY <1>2 DEF Holders
<1>3. CASE Slot(t) = msg /\ Slot(u) = msg
  <2>1. <<"entry", mux[t], token[t]>> = <<"entry", mux[u], token[u]>>
    BY <1>0, <1>1, <1>3
  <2>2. token[t] = token[u]
    BY <2>1
  <2>3. QED
    BY <1>0, <2>2 DEF Safe, EntriesAreRequests
<1>4. CASE reply[t] = msg /\ reply[u] = msg
  <2>1. <<"request", t>> = <<"request", u>>
    BY <1>0, <1>2, <1>4
  <2>2. QED
    BY <2>1
<1>5. CASE Slot(t) = msg /\ reply[u] = msg
  <2>1. <<"entry", mux[t], token[t]>> = <<"request", u>>
    BY <1>0, <1>1, <1>2, <1>5
  <2>2. QED
    BY <2>1
<1>6. CASE reply[t] = msg /\ Slot(u) = msg
  <2>1. <<"entry", mux[u], token[u]>> = <<"request", t>>
    BY <1>0, <1>1, <1>2, <1>6
  <2>2. QED
    BY <2>1
<1>7. QED
  BY <1>3, <1>4, <1>5, <1>6 DEF Has

LEMMA MessageGoes ==
    ASSUME NEW msg \in Message
    PROVE  Spec /\ RequestRuns(msg) => [](InRequest(msg) => <>Destroyed(msg))
<1> DEFINE P == \E t \in Thread : Stored(t, msg, "publish")
           K == \E t \in Thread : Stored(t, msg, "check")
           W == \E t \in Thread : Stored(t, msg, "wait")
           C == \E t \in Thread : Stored(t, msg, "convert")
           L == \E t \in Thread : Stored(t, msg, "leaving")
           T == \E t \in Thread : Took(t, msg)
           H == InRequest(msg)
           D == Destroyed(msg)
<1>1. /\ Safe /\ H => P \/ K \/ W \/ C \/ L \/ T
      /\ P \/ K \/ W \/ C \/ L \/ T => H
  BY ReplyMoves DEF InRequest
<1>2. /\ Safe' /\ P /\ [Next]_vars => (P \/ K \/ L)'
      /\ Safe' /\ K /\ [Next]_vars => (K \/ T)'
      /\ Safe' /\ W /\ [Next]_vars => (W \/ T \/ L)'
      /\ Safe' /\ C /\ [Next]_vars => (C \/ L)'
      /\ Safe' /\ L /\ [Next]_vars => (L \/ D)'
      /\ Safe' /\ T /\ [Next]_vars => (T \/ D)'
  BY ReplyMoves
<1>3. ASSUME Safe, NEW t \in Thread, Has(t, msg), RequestOf(msg) PROVE Step(t)
  BY <1>3, OneHas DEF RequestOf
<1>4. /\ Safe /\ Safe' /\ P /\ <<RequestOf(msg)>>_vars => (K \/ L)'
      /\ Safe /\ Safe' /\ K /\ <<RequestOf(msg)>>_vars => T'
      /\ Safe /\ Safe' /\ W /\ <<RequestOf(msg)>>_vars => (T \/ L)'
      /\ Safe /\ Safe' /\ C /\ <<RequestOf(msg)>>_vars => L'
      /\ Safe /\ L /\ <<RequestOf(msg)>>_vars => D'
      /\ Safe /\ T /\ <<RequestOf(msg)>>_vars => D'
  BY <1>3, ReplyMoves
<1> HIDE DEF P, K, W, C, L, T, H, D
<1>5. Spec /\ RequestRuns(msg) => [](H => <>D)
  BY <1>1, <1>2, <1>4, SafeAlways, PTL DEF Spec, RequestRuns, H
<1>6. QED
  BY <1>5, PTL DEF H, D

\* A reply that was handed over is destroyed in the end, wherever it is: in the handler, stored for
\* a request that takes it, that has taken another, or that is leaving.
THEOREM RepliesGo == Spec /\ (\A msg \in Message : HandlerRuns(msg) /\ RequestRuns(msg)) => RepliesDestroyed
<1> SUFFICES ASSUME NEW msg \in Message
             PROVE  Spec /\ HandlerRuns(msg) /\ RequestRuns(msg) => ((Holders(msg) # {}) ~> (destroyed[msg] = 1))
  BY DEF RepliesDestroyed
<1> DEFINE A == Holders(msg) # {}
           H == InHandler(msg)
           R == InRequest(msg)
           D == Destroyed(msg)
<1>1. Safe /\ A => H \/ R
  BY HoldersHave
<1>2. Safe /\ Safe' /\ H /\ [Next]_vars => (H \/ R \/ D)'
  BY HandlerSteps, HandlerKept DEF Safe, InHandler, InRequest
<1>3. Safe /\ Safe' /\ H /\ <<HandlerOf(msg)>>_vars => (R \/ D)'
  BY HandlerSteps DEF HandlerOf, InRequest
<1>4. Spec /\ RequestRuns(msg) => [](R => <>D)
  BY MessageGoes
<1>5. Spec /\ HandlerRuns(msg) => [](H => <>(R \/ D))
  <2> HIDE DEF H, R, D
  <2>1. QED
    BY <1>2, <1>3, SafeAlways, PTL DEF Spec, HandlerRuns, H
<1>6. Spec /\ HandlerRuns(msg) /\ RequestRuns(msg) => [](A => <>D)
  <2> HIDE DEF A, H, R, D
  <2>1. QED
    BY <1>1, <1>4, <1>5, SafeAlways, PTL
<1>7. QED
  <2>1. D <=> destroyed[msg] = 1
    BY DEF Destroyed
  <2> HIDE DEF D
  <2>2. QED
    BY <1>6, <2>1, PTL DEF A

-----------------------------------------------------------------------------
(* A cancelled wait, with a cancellable poll *)

\* The replies that are not handled yet, and so can still be broadcast.
Unhandled == {msg \in Message : addr[msg] = None \/ msg \in net \/ \E m \in Mux : handling[m] = msg}

Owned == Safe /\ OwnInv

LEMMA OwnedAlways == Spec => []Owned
<1>1. TypeOK /\ PcInv /\ OwnInv /\ [Next]_vars => OwnInv'
  BY NextOwn
<1>2. QED
  BY <1>1, InitOwn, TypeCorrect, SafeAlways, PTL DEF Spec, Owned

\* A reply that is handled stays so, and replyHandler() is what handles it.
LEMMA HandledStays ==
    ASSUME Owned, [Next]_vars
    PROVE  /\ Unhandled' \subseteq Unhandled
           /\ (\E m \in Mux : StoreReply(m)) => Unhandled' # Unhandled
<1> USE NoneAssumption DEF threadVars, initVars, subVars, wireVars
<1>0. TypeOK
  BY DEF Owned, Safe
<1>1. ASSUME NEW t \in Thread, Begin(t) \/ Step(t) \/ Expire(t) \/ Cancel(t)
      PROVE  UNCHANGED <<addr, net, handling>>
  BY <1>1 DEF Begin, Step, UseMux, SubscribeFails, Subscribe, SetOnComplete, SetOnCompleteFails,
     Register, Publish, PublishFails, TakeReply, TimeOut, Wait, Interrupted, Convert, Leave,
     Expire, Cancel
<1>2. ASSUME NEW m \in Mux, Deliver(m) PROVE Unhandled' \subseteq Unhandled
  <2>1. PICK msg \in net : net' = net \ {msg} /\ handling' = [handling EXCEPT ![m] = msg] /\ addr' = addr
    BY <1>2 DEF Deliver
  <2>2. \A n \in Mux, x \in Message : handling'[n] = x => handling[n] = x \/ x = msg
    BY <1>0, <2>1 DEF TypeOK
  <2>3. QED
    BY <2>1, <2>2 DEF Unhandled
<1>3. ASSUME NEW m \in Mux, StoreReply(m) \/ DropReply(m)
      PROVE  Unhandled' \subseteq Unhandled /\ handling[m] \in Unhandled \ Unhandled'
  <2>1. UNCHANGED <<addr, net>> /\ handling[m] # None /\ handling' = [handling EXCEPT ![m] = None]
    BY <1>3 DEF StoreReply, DropReply
  <2>2. handling[m] \in Message
    BY <1>0, <2>1 DEF TypeOK
  <2>3. \A n \in Mux, x \in Message : handling'[n] = x => handling[n] = x /\ n # m
    BY <1>0, <2>1 DEF TypeOK
  <2>4. \A n \in Mux : handling'[n] # handling[m]
    BY <2>1, <2>2, <2>3 DEF Owned, OwnInv, PointersUnique
  <2>5. addr[handling[m]] # None /\ handling[m] \notin net
    BY <2>1 DEF Owned, OwnInv, PointersLive, Held
  <2>6. QED
    BY <2>1, <2>2, <2>3, <2>4, <2>5 DEF Unhandled
<1>4. ASSUME NEW m \in Mux, Complete(m) PROVE UNCHANGED <<addr, net, handling>>
  BY <1>4 DEF Complete
<1>5. ASSUME Drain \/ Close \/ Destruct PROVE Unhandled' \subseteq Unhandled
  BY <1>5 DEF Drain, Close, Destruct, Unhandled
<1>6. ASSUME NEW msg \in Message, Respond(msg) PROVE Unhandled' \subseteq Unhandled
  <2>1. /\ addr[msg] = None /\ net' = net \cup {msg} /\ handling' = handling
        /\ \A x \in Message \ {msg} : addr'[x] = addr[x]
    BY <1>0, <1>6 DEF Respond, TypeOK
  <2>2. QED
    BY <2>1 DEF Unhandled
<1>7. ASSUME UNCHANGED vars PROVE Unhandled' \subseteq Unhandled
  BY <1>7 DEF vars, Unhandled
<1>8. /\ (\E m \in Mux : StoreReply(m)) => Unhandled' # Unhandled
      /\ (\E m \in Mux : Handle(m) \/ Deliver(m)) => Unhandled' \subseteq Unhandled
  BY <1>2, <1>3, <1>4 DEF Handle, Unhandled
<1>9. (\E t \in Thread : Begin(t) \/ Step(t) \/ Expire(t) \/ Cancel(t)) => Unhandled' \subseteq Unhandled
  BY <1>1 DEF Unhandled
<1>10. QED
  BY <1>5, <1>6, <1>7, <1>8, <1>9 DEF Next

LEMMA HandledCounts ==
    ASSUME IsFiniteSet(Message), Owned, [Next]_vars
    PROVE  /\ Cardinality(Unhandled) \in Nat /\ Cardinality(Unhandled') \in Nat
           /\ Cardinality(Unhandled') <= Cardinality(Unhandled)
           /\ (\E m \in Mux : StoreReply(m)) => Cardinality(Unhandled') < Cardinality(Unhandled)
<1>1. IsFiniteSet(Unhandled)
  BY FS_Subset DEF Unhandled
<1>2. Unhandled' \subseteq Unhandled
  BY HandledStays
<1>3. /\ IsFiniteSet(Unhandled') /\ Cardinality(Unhandled') <= Cardinality(Unhandled)
      /\ Cardinality(Unhandled) \in Nat /\ Cardinality(Unhandled') \in Nat
  BY <1>1, <1>2, FS_Subset, FS_CardinalityType
<1>4. ASSUME NEW m \in Mux, StoreReply(m) PROVE Cardinality(Unhandled') < Cardinality(Unhandled)
  <2>1. PICK x \in Unhandled : x \notin Unhandled'
    BY <1>2, <1>4, HandledStays
  <2>2. Unhandled' \subseteq Unhandled \ {x}
    BY <1>2, <2>1
  <2>3. IsFiniteSet(Unhandled \ {x}) /\ Cardinality(Unhandled \ {x}) = Cardinality(Unhandled) - 1
    BY <1>1, <2>1, FS_RemoveElement
  <2>4. Cardinality(Unhandled') <= Cardinality(Unhandled \ {x})
    BY <2>2, <2>3, FS_Subset
  <2>5. QED
    BY <1>3, <2>3, <2>4
<1>5. QED
  BY <1>3, <1>4

\* A cancelled wait, and the broadcasts that can still put off its end.
Off(t) == pc[t] = "wait" /\ cancelled[t]

LEMMA OffSteps ==
    ASSUME Owned, NEW t \in Thread, Off(t), <<Step(t)>>_vars
    PROVE  \/ pc'[t] \in {"convert", "leaving"}
           \/ t \in signalled /\ Off(t)' /\ t \notin signalled'
<1> USE DEF Off, Owned, Safe, TypeOK
<1>1. CASE Wait(t)
  <2>1. pc' = pc /\ cancelled' = cancelled /\ signalled' = signalled \ {t}
    BY <1>1 DEF Wait, Goto
  <2>2. t \in signalled
    BY <1>1, <2>1 DEF Wait, vars, threadVars, initVars, subVars, wireVars
  <2>3. QED
    BY <2>1, <2>2
<1>2. CASE TakeReply(t) \/ TimeOut(t) \/ Interrupted(t)
  BY <1>2 DEF TakeReply, TimeOut, Interrupted, Goto
<1>3. QED
  BY <1>1, <1>2 DEF Step, UseMux, SubscribeFails, Subscribe, SetOnComplete, SetOnCompleteFails,
     Register, Publish, PublishFails, Convert, Leave

LEMMA OffKept ==
    ASSUME Owned, NEW t \in Thread, Off(t), [Next]_vars, ~Step(t), ~\E m \in Mux : StoreReply(m)
    PROVE  Off(t)' /\ (t \notin signalled => t \notin signalled')
<1>1. Kept(t)
  BY KeptByOthers DEF Off, Owned, Safe, Registered
<1>2. signalled' \subseteq signalled
  BY DEF Next, Begin, Step, UseMux, SubscribeFails, Subscribe, SetOnComplete, SetOnCompleteFails,
     Register, Publish, PublishFails, TakeReply, TimeOut, Wait, Interrupted, Convert, Leave, Expire,
     Cancel, Deliver, Handle, DropReply, Complete, Respond, Drain, Close, Destruct, vars, threadVars
<1>3. QED
  BY <1>1, <1>2 DEF Kept, Off

LEMMA OffStored ==
    ASSUME Owned, NEW t \in Thread, Off(t), NEW m \in Mux, StoreReply(m)
    PROVE  Off(t)'
BY DEF Off, StoreReply

ComesToInterruption(t, n) ==
    (Off(t) /\ Cardinality(Unhandled) = n)
    ~> (pc[t] = "idle" \/ (Off(t) /\ Cardinality(Unhandled) < n))

LEMMA InterruptionComes ==
    ASSUME IsFiniteSet(Message), NEW t \in Thread, NEW n \in Nat
    PROVE  Spec /\ StepRuns(t) => ComesToInterruption(t, n)
<1> DEFINE At == Off(t) /\ Cardinality(Unhandled) = n
           Awake == At /\ t \in signalled
           Asleep == At /\ t \notin signalled
           Less == Off(t) /\ Cardinality(Unhandled) < n
           C == After(t, "convert")
           L == After(t, "leaving")
           Idle == pc[t] = "idle"
<1>1. /\ Awake => StepReady(t)
      /\ Asleep => StepReady(t)
      /\ C => StepReady(t)
      /\ L => StepReady(t)
  BY DEF Off, After, StepReady
<1>2. At => Awake \/ Asleep
  OBVIOUS
<1>3. Owned /\ Owned' /\ At /\ <<Step(t)>>_vars /\ [Next]_vars =>
         (C \/ L)' \/ (t \in signalled /\ (Asleep \/ Less)')
  <2> SUFFICES ASSUME Owned, Owned', At, <<Step(t)>>_vars, [Next]_vars
               PROVE  (C \/ L)' \/ (t \in signalled /\ (Asleep \/ Less)')
    OBVIOUS
  <2>1. CASE pc'[t] \in {"convert", "leaving"}
    BY <2>1 DEF After, Owned
  <2>2. CASE t \in signalled /\ Off(t)' /\ t \notin signalled'
    <3>1. Cardinality(Unhandled') <= n /\ Cardinality(Unhandled') \in Nat
      BY HandledCounts
    <3>2. QED
      BY <2>2, <3>1
  <2>3. QED
    BY <2>1, <2>2, OffSteps
<1>4. Owned /\ Owned' /\ At /\ [Next]_vars =>
         \/ (C \/ L \/ Less)'
         \/ (Asleep => Asleep') /\ (Awake => (Awake \/ Asleep)')
  <2> SUFFICES ASSUME Owned, Owned', At, [Next]_vars, ~(C \/ L \/ Less)'
               PROVE  (Asleep => Asleep') /\ (Awake => (Awake \/ Asleep)')
    OBVIOUS
  <2>1. /\ Cardinality(Unhandled') <= n /\ Cardinality(Unhandled') \in Nat
        /\ (\E m \in Mux : StoreReply(m)) => Cardinality(Unhandled') < n
    BY HandledCounts
  <2>2. CASE \E m \in Mux : StoreReply(m)
    BY <2>1, <2>2, OffStored
  <2>3. CASE <<Step(t)>>_vars
    BY <1>3, <2>3
  <2>4. CASE vars' = vars
    <3>1. UNCHANGED <<pc, cancelled, signalled, addr, net, handling>>
      BY <2>4 DEF vars, threadVars, wireVars
    <3>2. QED
      BY <3>1 DEF Off, Unhandled
  <2>5. CASE ~Step(t) /\ ~\E m \in Mux : StoreReply(m)
    <3>1. Off(t)' /\ (t \notin signalled => t \notin signalled')
      BY <2>5, OffKept
    <3>2. QED
      BY <2>1, <3>1
  <2>6. QED
    BY <2>2, <2>3, <2>4, <2>5
<1>5. /\ Owned /\ Owned' /\ Asleep /\ [Next]_vars => (Asleep \/ Less \/ C \/ L)'
      /\ Owned /\ Owned' /\ Awake /\ [Next]_vars => (Awake \/ Asleep \/ Less \/ C \/ L)'
      /\ Owned /\ Owned' /\ Asleep /\ [Next]_vars /\ <<Step(t)>>_vars => (C \/ L)'
      /\ Owned /\ Owned' /\ Awake /\ [Next]_vars /\ <<Step(t)>>_vars => (Asleep \/ Less \/ C \/ L)'
  BY <1>3, <1>4
<1>6. Owned => Safe
  BY DEF Owned
<1>7. /\ Safe /\ Safe' /\ C /\ [Next]_vars => (C \/ L)'
      /\ Safe /\ Safe' /\ L /\ [Next]_vars => (L \/ Idle)'
      /\ Safe /\ Safe' /\ C /\ <<Step(t)>>_vars => L'
      /\ Safe /\ Safe' /\ L /\ <<Step(t)>>_vars => Idle'
  BY WaitSteps, WaitKept DEF After, Safe
<1> HIDE DEF At, Awake, Asleep, Less, C, L, Idle
<1>8. Spec /\ StepRuns(t) => [](C \/ L => <>Idle)
  BY <1>1, <1>6, <1>7, OwnedAlways, PTL DEF Spec, StepRuns
<1>9. Spec /\ StepRuns(t) => [](Asleep => <>(Idle \/ Less))
  BY <1>1, <1>5, <1>8, OwnedAlways, PTL DEF Spec, StepRuns
<1>10. Spec /\ StepRuns(t) => [](Awake => <>(Idle \/ Less))
  BY <1>1, <1>5, <1>8, <1>9, OwnedAlways, PTL DEF Spec, StepRuns
<1>11. QED
  BY <1>2, <1>9, <1>10, PTL DEF ComesToInterruption, At, Less, Idle

\* Also with a cancellable poll, where a thread that is woken by a broadcast for others waits once
\* more, a cancelled request comes nearer to its end with each reply that is handled, or returns:
\* the rest of RequestEnds, for any finite number of replies.
THEOREM CancelledRequestsEnd ==
    ASSUME IsFiniteSet(Message)
    PROVE  Spec /\ (\A t \in Thread : StepRuns(t)) =>
              \A t \in Thread, n \in Nat : ComesToInterruption(t, n)
BY InterruptionComes

-----------------------------------------------------------------------------
(* The end of a reply subscription and of its closure *)

\* The messages that the C client holds for the subscription of m.
For(m) == {msg \in net : addr[msg].mux = m}

\* Of a connection that is closed no subscription goes on, replyComplete() is registered for the
\* connection's own, and deletes the closure.
ClosureInv ==
    /\ conn \in {"closed", "destroyed"} => \A m \in Mux : sub[m] # "active"
    /\ \A m \in Mux : on_complete[m] => sub[m] # "none"
    /\ \A m \in Mux : on_complete[m] /\ sub[m] = "complete" => closure[m] = "deleted"
    /\ \A m \in Mux : reply_mux = m => on_complete[m]
    /\ IsFiniteSet(net)
    /\ \A msg \in net : addr[msg] # None

LEMMA InitClosure == Init => ClosureInv
BY NoneAssumption, FS_EmptySet DEF Init, ClosureInv

LEMMA NextClosure ==
    ASSUME TypeOK, PcInv, ClosureInv, [Next]_vars
    PROVE  ClosureInv'
<1> USE NoneAssumption DEF threadVars, initVars, subVars, wireVars, ClosureInv
<1>1. ASSUME NEW t \in Thread, Subscribe(t) PROVE ClosureInv'
  BY <1>1 DEF Subscribe, TypeOK
<1>2. ASSUME NEW t \in Thread, SetOnComplete(t) PROVE ClosureInv'
  BY <1>2 DEF SetOnComplete, RegisterOnComplete, TypeOK
<1>3. ASSUME NEW t \in Thread, SetOnCompleteFails(t) PROVE ClosureInv'
  BY <1>3 DEF SetOnCompleteFails, AbandonClosure, TypeOK
<1>4. ASSUME NEW t \in Thread, ~Subscribe(t), ~SetOnComplete(t), ~SetOnCompleteFails(t),
             Begin(t) \/ Step(t) \/ Expire(t) \/ Cancel(t)
      PROVE  ClosureInv'
  <2>1. UNCHANGED <<conn, sub, on_complete, closure, reply_mux, net, addr>>
    BY <1>4 DEF Step, Begin, UseMux, SubscribeFails, Register, Publish,
                PublishFails, TakeReply, TimeOut, Wait, Interrupted, Convert, Leave, Expire, Cancel
  <2>2. QED
    BY <2>1
<1>5. ASSUME NEW m \in Mux, Deliver(m) PROVE ClosureInv'
  <2>1. /\ UNCHANGED <<conn, sub, on_complete, closure, reply_mux, addr>>
        /\ net' \subseteq net
    BY <1>5 DEF Deliver
  <2>2. IsFiniteSet(net')
    BY <2>1, FS_Subset
  <2>3. QED
    BY <2>1, <2>2
<1>6. ASSUME NEW m \in Mux, StoreReply(m) \/ DropReply(m) PROVE ClosureInv'
  BY <1>6 DEF StoreReply, DropReply
<1>7. ASSUME NEW m \in Mux, Complete(m) PROVE ClosureInv'
  BY <1>7 DEF Complete, TypeOK
<1>8. CASE Drain \/ Close \/ Destruct
  BY <1>8 DEF Drain, Close, Destruct, EndSubs, TypeOK
<1>9. ASSUME NEW msg \in Message, Respond(msg) PROVE ClosureInv'
  <2>1. /\ UNCHANGED <<conn, sub, on_complete, closure, reply_mux>>
        /\ net' = net \cup {msg}
        /\ \A x \in Message \ {msg} : addr'[x] = addr[x]
    BY <1>9 DEF Respond, TypeOK
  <2>0. addr'[msg] # None
    <3>1. PICK p \in published, nr \in BOOLEAN :
            addr'[msg] = [mux |-> p[1], token |-> p[2], no_responders |-> nr]
      BY <1>9 DEF Respond, TypeOK
    <3>2. p[1] \in Mux /\ p[2] \in Nat
      BY DEF TypeOK
    <3>3. addr'[msg] \in Address
      BY <3>1, <3>2 DEF Address
    <3>4. QED
      BY <3>3
  <2>2. IsFiniteSet(net')
    BY <2>1, FS_AddElement
  <2>3. net \subseteq Message
    BY DEF TypeOK
  <2>4. QED
    BY <2>0, <2>1, <2>2, <2>3
<1>10. CASE UNCHANGED vars
  BY <1>10 DEF vars
<1>11. QED
  BY <1>1, <1>2, <1>3, <1>4, <1>5, <1>6, <1>7, <1>8, <1>9, <1>10 DEF Next, Handle

CInv == TypeOK /\ PcInv /\ ClosureInv

LEMMA ClosureAlways == Spec => []CInv
<1>1. CInv <=> (TypeOK /\ PcInv) /\ ClosureInv
  BY DEF CInv
<1>2. (TypeOK /\ PcInv) /\ ClosureInv /\ [Next]_vars => ClosureInv'
  BY NextClosure
<1>3. QED
  BY <1>1, <1>2, InitClosure, TypeCorrect, PTL DEF Spec

\* The end of m's subscription is to be reported to replyComplete(), after as many steps of the
\* delivery thread as there are messages.
EndsWithClosure(m) == sub[m] = "ending" /\ on_complete[m]
Deleted(m) == closure[m] = "deleted"
DeliveriesLeft(m) == 2 * Cardinality(For(m)) + (IF handling[m] = None THEN 0 ELSE 1)

LEMMA DeliveriesAreNat ==
    ASSUME ClosureInv, NEW m \in Mux
    PROVE  IsFiniteSet(For(m)) /\ Cardinality(For(m)) \in Nat /\ DeliveriesLeft(m) \in Nat
<1>1. IsFiniteSet(For(m))
  BY FS_Subset DEF For, ClosureInv
<1>2. Cardinality(For(m)) \in Nat
  BY <1>1, FS_CardinalityType
<1>3. QED
  BY <1>1, <1>2 DEF DeliveriesLeft

\* A step of the delivery thread, with a message or without.
LEMMA DeliveryGoesOn ==
    ASSUME CInv, NEW m \in Mux, EndsWithClosure(m), Handle(m) \/ Deliver(m)
    PROVE  Deleted(m)' \/ (EndsWithClosure(m)' /\ DeliveriesLeft(m)' < DeliveriesLeft(m))
<1> USE NoneAssumption DEF EndsWithClosure, Deleted
<1>0. IsFiniteSet(For(m)) /\ Cardinality(For(m)) \in Nat
  BY DeliveriesAreNat DEF CInv
<1>1. CASE Complete(m)
  BY <1>1 DEF Complete, CInv, TypeOK
<1>2. CASE StoreReply(m) \/ DropReply(m)
  <2>1. /\ UNCHANGED <<sub, on_complete, net, addr>>
        /\ handling[m] # None /\ handling'[m] = None
    BY <1>2 DEF StoreReply, DropReply, initVars, subVars, CInv, TypeOK
  <2>2. For(m)' = For(m)
    BY <2>1 DEF For
  <2>3. QED
    BY <1>0, <2>1, <2>2 DEF DeliveriesLeft
<1>3. CASE Deliver(m)
  <2>1. PICK msg \in net : /\ addr[msg].mux = m /\ net' = net \ {msg}
                           /\ handling' = [handling EXCEPT ![m] = msg]
    BY <1>3 DEF Deliver
  <2>2. handling[m] = None /\ UNCHANGED <<sub, on_complete, addr>>
    BY <1>3 DEF Deliver, initVars, subVars
  <2>3. msg \in For(m) /\ For(m)' = For(m) \ {msg} /\ handling'[m] = msg /\ msg # None
    BY <2>1, <2>2 DEF For, CInv, TypeOK
  <2>4. Cardinality(For(m)') = Cardinality(For(m)) - 1
    BY <1>0, <2>3, FS_RemoveElement
  <2>5. DeliveriesLeft(m)' = 2 * (Cardinality(For(m)) - 1) + 1
    BY <2>3, <2>4 DEF DeliveriesLeft
  <2>6. DeliveriesLeft(m) = 2 * Cardinality(For(m))
    BY <1>0, <2>2 DEF DeliveriesLeft
  <2>7. QED
    BY <1>0, <2>2, <2>5, <2>6
<1>4. QED
  BY <1>1, <1>2, <1>3 DEF Handle

\* Nothing arrives for a subscription that ends, so that no other step puts its end off.
LEMMA OthersDeliver ==
    ASSUME CInv, NEW m \in Mux, EndsWithClosure(m), [Next]_vars, ~Handle(m), ~Deliver(m)
    PROVE  EndsWithClosure(m)' /\ DeliveriesLeft(m)' = DeliveriesLeft(m)
<1> SUFFICES ASSUME TypeOK, sub[m] = "ending", on_complete[m]
             PROVE  sub'[m] = "ending" /\ on_complete'[m] /\ handling'[m] = handling[m] /\ For(m)' = For(m)
  BY DEF EndsWithClosure, DeliveriesLeft, CInv
<1> USE NoneAssumption DEF threadVars, initVars, subVars, wireVars
<1>1. ASSUME NEW t \in Thread, Begin(t) \/ Step(t) \/ Expire(t) \/ Cancel(t)
      PROVE  sub'[m] = "ending" /\ on_complete'[m] /\ UNCHANGED <<handling, net, addr>>
  <2>1. CASE Subscribe(t)
    BY <2>1 DEF Subscribe, TypeOK
  <2>2. CASE SetOnComplete(t) \/ SetOnCompleteFails(t)
    BY <2>2 DEF SetOnComplete, RegisterOnComplete, SetOnCompleteFails, TypeOK
  <2>3. CASE ~Subscribe(t) /\ ~SetOnComplete(t) /\ ~SetOnCompleteFails(t)
    BY <1>1, <2>3 DEF Step, Begin, UseMux, SubscribeFails, Register, Publish,
       PublishFails, TakeReply, TimeOut, Wait, Interrupted, Convert, Leave, Expire, Cancel
  <2>4. QED
    BY <2>1, <2>2, <2>3
<1>2. ASSUME NEW x \in Mux, x # m, Handle(x)
      PROVE  UNCHANGED <<sub[m], on_complete, handling[m], net, addr>>
  BY <1>2 DEF Handle, StoreReply, DropReply, Complete, TypeOK
<1>3. ASSUME NEW x \in Mux, x # m, Deliver(x)
      PROVE  UNCHANGED <<sub, on_complete, handling[m]>> /\ For(m)' = For(m)
  BY <1>3 DEF Deliver, For, TypeOK
<1>4. CASE Drain \/ Close \/ Destruct
  BY <1>4 DEF Drain, Close, Destruct, EndSubs, For, TypeOK
<1>5. ASSUME NEW msg \in Message, Respond(msg)
      PROVE  UNCHANGED <<sub, on_complete, handling>> /\ For(m)' = For(m)
  <2>1. PICK p \in published, nr \in BOOLEAN :
            /\ sub[p[1]] = "active"
            /\ addr' = [addr EXCEPT ![msg] = [mux |-> p[1], token |-> p[2], no_responders |-> nr]]
    BY <1>5 DEF Respond
  <2>2. net' = net \cup {msg} /\ msg \notin net /\ net \subseteq Message
    BY <1>5 DEF Respond, CInv, ClosureInv, TypeOK
  <2>3. addr'[msg].mux # m /\ \A y \in net : addr'[y] = addr[y]
    BY <2>1, <2>2 DEF TypeOK
  <2>4. For(m)' = For(m)
    BY <2>2, <2>3 DEF For
  <2>5. QED
    BY <1>5, <2>4 DEF Respond
<1>6. CASE UNCHANGED vars
  BY <1>6 DEF vars, For
<1>7. QED
  BY <1>1, <1>2, <1>3, <1>4, <1>5, <1>6 DEF Next, For

ComesToDeletion(m, n) ==
    (EndsWithClosure(m) /\ DeliveriesLeft(m) = n)
    ~> (Deleted(m) \/ (EndsWithClosure(m) /\ DeliveriesLeft(m) < n))

LEMMA DeletionComes ==
    ASSUME NEW m \in Mux, NEW n \in Nat
    PROVE  Spec /\ HandleRuns(m) => ComesToDeletion(m, n)
<1> DEFINE At == EndsWithClosure(m) /\ DeliveriesLeft(m) = n
           Less == EndsWithClosure(m) /\ DeliveriesLeft(m) < n
           Over == Deleted(m)
<1>1. At => HandleReady(m)
  BY DEF EndsWithClosure, HandleReady
<1>2. CInv /\ At /\ [Next]_vars => (At \/ Less \/ Over)'
  <2> SUFFICES ASSUME CInv, At, [Next]_vars PROVE (At \/ Less \/ Over)'
    OBVIOUS
  <2>1. CASE Handle(m) \/ Deliver(m)
    BY <2>1, DeliveryGoesOn
  <2>2. CASE ~Handle(m) /\ ~Deliver(m)
    BY <2>2, OthersDeliver
  <2>3. QED
    BY <2>1, <2>2
<1>3. CInv /\ At /\ <<Handle(m)>>_vars => (Less \/ Over)'
  BY DeliveryGoesOn
<1> HIDE DEF At, Less, Over
<1>4. Spec /\ HandleRuns(m) => [](At => <>(Over \/ Less))
  BY <1>1, <1>2, <1>3, ClosureAlways, PTL DEF Spec, HandleRuns
<1>5. QED
  BY <1>4, PTL DEF ComesToDeletion, At, Less, Over

\* The subscription of a connection's replies ends in replyComplete(), whatever is still delivered
\* to it: from any number of messages left, the delivery thread comes to a smaller number or to the
\* deletion of the closure.
THEOREM ClosureComesToEnd ==
    Spec /\ (\A m \in Mux : HandleRuns(m)) => \A m \in Mux, n \in Nat : ComesToDeletion(m, n)
BY DeletionComes

\* A mux that was once the connection's keeps its completion callback.
LEMMA MuxEnds ==
    ASSUME CInv, NEW m \in Mux
    PROVE  /\ reply_mux = m => on_complete[m]
           /\ on_complete[m] /\ conn \in {"closed", "destroyed"} => EndsWithClosure(m) \/ Deleted(m)
BY DEF CInv, ClosureInv, TypeOK, EndsWithClosure, Deleted

LEMMA CompletionKept ==
    ASSUME TypeOK, NEW m \in Mux, on_complete[m], [Next]_vars
    PROVE  on_complete'[m]
<1>1. on_complete' = on_complete \/ \E t \in Thread : on_complete' = [on_complete EXCEPT ![mux[t]] = TRUE]
  BY DEF Next, Begin, Step, UseMux, SubscribeFails, Subscribe, SetOnComplete, RegisterOnComplete,
     SetOnCompleteFails, Register, Publish, PublishFails, TakeReply, TimeOut, Wait, Interrupted, Convert,
     Leave, Expire, Cancel, Deliver, Handle, StoreReply, DropReply, Complete, Respond, Drain, Close,
     Destruct, vars, initVars, subVars, threadVars, wireVars
<1>2. QED
  BY <1>1 DEF TypeOK

ClosureDue(m) ==
    (reply_mux = m /\ <>(conn \in {"closed", "destroyed"})) ~> (Deleted(m) \/ EndsWithClosure(m))

\* When the connection is closed or destroyed, the end of the subscription is on its way to
\* replyComplete(), or has reached it.
THEOREM ClosuresDue == Spec => \A m \in Mux : ClosureDue(m)
<1> SUFFICES ASSUME NEW m \in Mux PROVE Spec => ClosureDue(m)
  OBVIOUS
<1> DEFINE Is == reply_mux = m
           Had == on_complete[m]
           Closed == conn \in {"closed", "destroyed"}
           Due == Deleted(m) \/ EndsWithClosure(m)
<1>1. /\ CInv /\ Is => Had
      /\ CInv /\ Had /\ Closed => Due
  BY MuxEnds
<1>2. CInv /\ Had /\ [Next]_vars => Had'
  BY CompletionKept DEF CInv
<1> HIDE DEF Is, Had, Closed, Due
<1>3. Spec => [](Is /\ <>Closed => <>Due)
  BY <1>1, <1>2, ClosureAlways, PTL DEF Spec
<1>4. QED
  BY <1>3, PTL DEF ClosureDue, Is, Closed, Due
=============================================================================
