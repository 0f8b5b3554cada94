------------------------- MODULE RequestReplyRefinement -------------------------
(***************************************************************************)
(* RequestReply implements RequestCall: each step of the protocol is a step *)
(* of the call it belongs to, or none.                                     *)
(***************************************************************************)
EXTENDS RequestReplyProofs

\* The token of a request is 0 before it is registered, new and not published before
\* it is published, and published while the reply is waited for.  No other thread has it.
TokenPhases ==
    /\ \A k \in Sent : k <= reply_counter
    /\ \A t \in Thread :
          /\ pc[t] \in {"getmux", "oncomplete", "register"} => token[t] = 0
          /\ pc[t] = "publish" => token[t] # 0 /\ token[t] \notin Sent
          /\ pc[t] \in {"check", "wait", "convert"} => token[t] \in Sent
    /\ 0 \notin Sent
    /\ \A t, u \in Thread : t # u /\ token[t] # 0 => token[t] # token[u]

\* A reply that was handed over has an address, and a stored one the address of the
\* request that it is stored for.
Addressed ==
    /\ \A msg \in net : addr[msg] # None
    /\ \A m \in Mux : handling[m] # None => addr[handling[m]] # None
    /\ \A t \in Thread : reply[t] # None =>
          addr[reply[t]] # None /\ addr[reply[t]].token = token[t]
    /\ \A m \in Mux : \A k \in DOMAIN replies[m] : replies[m][k] # None =>
          addr[replies[m][k]] # None /\ addr[replies[m][k]].token = k

Inv == TypeOK /\ PcInv /\ EntriesAreRequests

LEMMA SentGrows ==
    ASSUME NEW m, NEW k, published' = published \cup {<<m, k>>}
    PROVE  Sent' = Sent \cup {k}
<1>1. ASSUME NEW j PROVE j \in Sent' <=> j \in Sent \/ j = k
  <2>1. j \in Sent' <=> \E p \in published \cup {<<m, k>>} : j = p[2]
    BY DEF Sent
  <2>2. j \in Sent <=> \E p \in published : j = p[2]
    BY DEF Sent
  <2>3. <<m, k>>[2] = k
    OBVIOUS
  <2>4. QED
    BY ONLY <2>1, <2>2, <2>3
<1>2. QED
  BY <1>1

LEMMA InitRef == Init => TokenPhases /\ Addressed
<1> SUFFICES ASSUME Init PROVE TokenPhases /\ Addressed
  OBVIOUS
<1>1. Sent = {} /\ \A m \in Mux : DOMAIN replies[m] = {}
  BY DEF Init, Sent
<1>2. TokenPhases
  BY <1>1 DEF Init, TokenPhases
<1>3. Addressed
  BY <1>1 DEF Init, Addressed
<1>4. QED
  BY <1>2, <1>3

\* The tokens of requests other than t are where they were.
LEMMA NextTokens ==
    ASSUME Inv, TokenPhases, [Next]_vars
    PROVE  TokenPhases'
<1> USE DEF threadVars, initVars, subVars, wireVars, Goto, EndWith
<1>1. ASSUME NEW t \in Thread, Begin(t) PROVE TokenPhases'
  BY <1>1 DEF Begin, TokenPhases, Inv, TypeOK, Sent
<1>2. ASSUME NEW t \in Thread,
             \/ UseMux(t) \/ Subscribe(t) \/ SubscribeFails(t) \/ SetOnComplete(t)
             \/ SetOnCompleteFails(t)
      PROVE  TokenPhases'
  BY <1>2 DEF UseMux, Subscribe, SubscribeFails, SetOnComplete, SetOnCompleteFails,
              TokenPhases, Inv, TypeOK, Sent
<1>3. ASSUME NEW t \in Thread, Register(t) PROVE TokenPhases'
  <2>1. reply_counter \in Nat /\ reply_counter' = reply_counter + 1
        /\ token' = [token EXCEPT ![t] = reply_counter'] /\ published' = published
        /\ pc' = [pc EXCEPT ![t] = "publish"]
    BY <1>3 DEF Register, NextToken, Inv, TypeOK
  <2>2. Sent' = Sent /\ Sent \subseteq Nat
    <3>1. published \subseteq Mux \X Nat
      BY DEF Inv, TypeOK
    <3>2. QED
      BY ONLY <2>1, <3>1 DEF Sent
  <2>3. token'[t] # 0 /\ token'[t] \notin Sent'
    BY <2>1, <2>2 DEF TokenPhases, Inv, TypeOK
  <2>4. \A k \in Sent' : k <= reply_counter'
    BY <2>1, <2>2 DEF TokenPhases
  <2>5. \A u \in Thread : u # t => token'[u] = token[u] /\ pc'[u] = pc[u]
    BY <2>1 DEF Inv, TypeOK
  <2>6. pc'[t] = "publish"
    BY <2>1 DEF Inv, TypeOK
  <2>7. \A u, v \in Thread : u # v /\ token'[u] # 0 => token'[u] # token'[v]
    <3>1. \A u \in Thread : token[u] \in Nat /\ token[u] <= reply_counter
      BY DEF Inv, TypeOK
    <3>2. token'[t] = reply_counter + 1
      BY <2>1 DEF Inv, TypeOK
    <3>3. \A u \in Thread : token[u] # token'[t]
      BY ONLY <2>1, <3>1, <3>2
    <3>4. QED
      BY <2>5, <3>3 DEF TokenPhases
  <2>8. QED
    BY <2>2, <2>3, <2>4, <2>5, <2>6, <2>7 DEF TokenPhases
<1>4. ASSUME NEW t \in Thread, Publish(t) PROVE TokenPhases'
  <2>1. Sent' = Sent \cup {token[t]} /\ UNCHANGED <<token, reply_counter>>
    <3>1. published' = published \cup {<<mux[t], token[t]>>}
      BY <1>4 DEF Publish
    <3>2. QED
      BY <1>4, <3>1, SentGrows DEF Publish
  <2>2. pc[t] = "publish" /\ pc'[t] = "check" /\ \A u \in Thread : u # t => pc'[u] = pc[u]
    BY <1>4 DEF Publish, Inv, TypeOK
  <2>3. token[t] <= reply_counter /\ token[t] # 0
    BY <2>2 DEF Inv, TypeOK, TokenPhases
  <2>4. \A u \in Thread : u # t /\ pc[u] = "publish" => token[u] # token[t]
    BY <2>2 DEF Inv, EntriesAreRequests, Registered
  <2>5. QED
    BY <2>1, <2>2, <2>3, <2>4 DEF TokenPhases
<1>5. ASSUME NEW t \in Thread,
             \/ PublishFails(t) \/ TakeReply(t) \/ TimeOut(t) \/ Wait(t) \/ Interrupted(t)
             \/ Convert(t) \/ Leave(t) \/ Expire(t) \/ Cancel(t)
      PROVE  TokenPhases'
  BY <1>5 DEF PublishFails, TakeReply, TimeOut, Wait, Interrupted, Convert, Leave, Expire,
              Cancel, Looks, Resumed, Woken, TokenPhases, Inv, TypeOK, Sent
<1>6. CASE \/ \E m \in Mux : Deliver(m) \/ Handle(m)
           \/ \E msg \in Message : Respond(msg)
           \/ Drain \/ Close \/ Destruct \/ UNCHANGED vars
  BY <1>6 DEF Deliver, Handle, StoreReply, DropReply, Complete, Respond, Drain, Close, Destruct,
              vars, TokenPhases, Sent
<1>7. QED
  BY <1>1, <1>2, <1>3, <1>4, <1>5, <1>6 DEF Next, Step

LEMMA NextAddressed ==
    ASSUME Inv, TokenPhases, Addressed, [Next]_vars
    PROVE  Addressed'
<1> USE DEF threadVars, initVars, subVars, wireVars, Goto, EndWith
<1>1. ASSUME NEW t \in Thread,
             \/ Begin(t) \/ UseMux(t) \/ Subscribe(t) \/ SubscribeFails(t) \/ SetOnComplete(t)
             \/ SetOnCompleteFails(t) \/ Publish(t) \/ PublishFails(t) \/ TimeOut(t) \/ Wait(t)
             \/ Interrupted(t) \/ Expire(t) \/ Cancel(t)
      PROVE  Addressed'
  <2>1. UNCHANGED <<addr, net, handling, reply, replies>>
    BY <1>1 DEF Begin, UseMux, Subscribe, SubscribeFails, SetOnComplete, SetOnCompleteFails,
         Publish, PublishFails, TimeOut, Wait, Interrupted, Expire, Cancel
  <2>2. \A u \in Thread : reply[u] # None => token'[u] = token[u]
    BY <1>1 DEF Begin, UseMux, Subscribe, SubscribeFails, SetOnComplete, SetOnCompleteFails,
         Publish, PublishFails, TimeOut, Wait, Interrupted, Expire, Cancel, Inv, PcInv, TypeOK
  <2>3. QED
    BY <2>1, <2>2 DEF Addressed
<1>2. ASSUME NEW t \in Thread, Register(t) PROVE Addressed'
  <2>1. UNCHANGED <<addr, net, handling, reply>>
    BY <1>2 DEF Register
  <2>2. \A u \in Thread : reply[u] # None => token'[u] = token[u]
    BY <1>2 DEF Register, Inv, PcInv, TypeOK
  <2>3. \A m \in Mux : \A k \in DOMAIN replies'[m] :
            replies'[m][k] # None => k \in DOMAIN replies[m] /\ replies'[m][k] = replies[m][k]
    <3>1. ASSUME NEW m \in Mux, NEW k \in DOMAIN replies'[m], replies'[m][k] # None
          PROVE  k \in DOMAIN replies[m] /\ replies'[m][k] = replies[m][k]
      <4>1. ~(m = mux[t] /\ k = token'[t])
        BY <1>2, <3>1, RegisterMaps DEF Inv
      <4>2. /\ DOMAIN replies'[m] = IF m = mux[t] THEN DOMAIN replies[m] \cup {token'[t]}
                                                  ELSE DOMAIN replies[m]
            /\ replies'[m][k] = IF m = mux[t] /\ k = token'[t] THEN None ELSE replies[m][k]
        BY <1>2, RegisterMaps DEF Inv
      <4>3. QED
        BY ONLY <3>1, <4>1, <4>2
    <3>2. QED
      BY <3>1
  <2>4. QED
    BY <2>1, <2>2, <2>3 DEF Addressed
<1>3. ASSUME NEW t \in Thread, TakeReply(t) PROVE Addressed'
  <2>1. UNCHANGED <<addr, net, handling, token>>
    BY <1>3 DEF TakeReply
  <2>2. \A u \in Thread : u # t => reply'[u] = reply[u]
    BY <1>3 DEF TakeReply, Inv, TypeOK
  <2>3. addr[reply'[t]] # None /\ addr[reply'[t]].token = token[t]
    <3>1. mux[t] \in Mux /\ token[t] \in DOMAIN replies[mux[t]]
          /\ reply'[t] = replies[mux[t]][token[t]] /\ reply'[t] # None
      BY <1>3, TakeReplyMaps, NoneAssumption DEF Inv
    <3>2. QED
      BY <3>1 DEF Addressed
  <2>4. \A m \in Mux : \A k \in DOMAIN replies'[m] :
            replies'[m][k] # None => k \in DOMAIN replies[m] /\ replies'[m][k] = replies[m][k]
    BY <1>3, TakeReplyMaps DEF Inv
  <2>5. QED
    BY <2>1, <2>2, <2>3, <2>4 DEF Addressed
<1>4. ASSUME NEW t \in Thread, Convert(t) PROVE Addressed'
  <2>1. UNCHANGED <<addr, net, handling, token, replies>> /\ reply'[t] = None
        /\ \A u \in Thread : u # t => reply'[u] = reply[u]
    BY <1>4 DEF Convert, Inv, TypeOK
  <2>2. QED
    BY <2>1 DEF Addressed
<1>5. ASSUME NEW t \in Thread, Leave(t) PROVE Addressed'
  <2>1. UNCHANGED <<addr, net, handling, token, reply>>
    BY <1>5 DEF Leave
  <2>2. \A m \in Mux : \A k \in DOMAIN replies'[m] :
            k \in DOMAIN replies[m] /\ replies'[m][k] = replies[m][k]
    BY <1>5, LeaveMaps DEF Inv
  <2>3. QED
    BY <2>1, <2>2 DEF Addressed
<1>6. ASSUME NEW n \in Mux, StoreReply(n) PROVE Addressed'
  <2>1. UNCHANGED <<addr, net, token, reply>> /\ handling[n] # None
        /\ handling' = [handling EXCEPT ![n] = None]
    BY <1>6 DEF StoreReply
  <2>2. addr[handling[n]] # None
    BY <2>1 DEF Addressed
  <2>3. \A m \in Mux : \A k \in DOMAIN replies'[m] :
          /\ k \in DOMAIN replies[m]
          /\ \/ replies'[m][k] = replies[m][k]
             \/ replies'[m][k] = handling[n] /\ k = addr[handling[n]].token
    BY <1>6, StoreReplyMaps DEF Inv
  <2>4. \A m \in Mux : handling'[m] # None => handling'[m] = handling[m]
    BY <2>1 DEF Inv, TypeOK
  <2>5. QED
    BY <2>1, <2>2, <2>3, <2>4 DEF Addressed
<1>7. ASSUME NEW n \in Mux, Deliver(n) \/ DropReply(n) \/ Complete(n) PROVE Addressed'
  <2>1. UNCHANGED <<addr, token, reply, replies>> /\ net' \subseteq net
    BY <1>7 DEF Deliver, DropReply, Complete
  <2>2. \A m \in Mux : handling'[m] # None => handling'[m] = handling[m] \/ handling'[m] \in net
    BY <1>7 DEF Deliver, DropReply, Complete, Inv, TypeOK
  <2>3. QED
    BY <2>1, <2>2 DEF Addressed
<1>8. ASSUME NEW msg \in Message, Respond(msg) PROVE Addressed'
  <2>1. UNCHANGED <<token, reply, replies, handling>> /\ net' = net \cup {msg}
        /\ addr[msg] = None
    BY <1>8 DEF Respond
  <2>2. \A x \in Message : x # msg => addr'[x] = addr[x]
    BY <1>8 DEF Respond, Inv, TypeOK
  <2>3. addr'[msg] # None
    BY <1>8, NoneAssumption DEF Respond, Inv, TypeOK, Address
  <2>4. /\ \A m \in Mux : handling[m] \in Message \cup {None}
        /\ \A t \in Thread : reply[t] \in Message \cup {None}
        /\ \A m \in Mux : \A k \in DOMAIN replies[m] : replies[m][k] \in Message \cup {None}
        /\ net \subseteq Message
    BY DEF Inv, TypeOK, MapType
  <2>5. QED
    BY <2>1, <2>2, <2>3, <2>4 DEF Addressed
<1>9. CASE Drain \/ Close \/ Destruct \/ UNCHANGED vars
  BY <1>9 DEF Drain, Close, Destruct, vars, Addressed
<1>10. QED
  BY <1>1, <1>2, <1>3, <1>4, <1>5, <1>6, <1>7, <1>8, <1>9 DEF Next, Step, Handle

-----------------------------------------------------------------------------
(* The refinement mapping *)

Id(t) == IF token[t] \in Sent THEN token[t] ELSE 0
AnsweredTo(msg) == IF addr[msg] = None THEN None ELSE addr[msg].token

\* A step that changes nothing the caller, the responders or the network can see.
LEMMA Hidden ==
    ASSUME UNCHANGED <<published, addr, outcome>>,
           \A t \in Thread : Phase(t)' = Phase(t) /\ Id(t)' = Id(t)
    PROVE  UNCHANGED Abstract!vars
<1>1. Sent' = Sent
  BY DEF Sent
<1>2. [t \in Thread |-> Phase(t)]' = [t \in Thread |-> Phase(t)]
  OBVIOUS
<1>3. [t \in Thread |-> IF token[t] \in Sent THEN token[t] ELSE 0]'
        = [t \in Thread |-> IF token[t] \in Sent THEN token[t] ELSE 0]
  BY DEF Id
<1>4. [msg \in Message |-> IF addr[msg] = None THEN None ELSE addr[msg].token]'
        = [msg \in Message |-> IF addr[msg] = None THEN None ELSE addr[msg].token]
  OBVIOUS
<1>5. QED
  BY <1>1, <1>2, <1>3, <1>4 DEF Abstract!vars

LEMMA InitRefines == Init => Abstract!Init
<1> SUFFICES ASSUME Init PROVE Abstract!Init
  OBVIOUS
<1>1. Sent = {}
  BY DEF Init, Sent
<1>2. \A t \in Thread : Phase(t) = "idle"
  BY DEF Init, Phase
<1>3. QED
  BY <1>1, <1>2 DEF Init, Abstract!Init

RInv == Inv /\ TokenPhases /\ Addressed

LEMMA ThreadRefines ==
    ASSUME RInv, NEW t \in Thread, Begin(t) \/ Step(t)
    PROVE  Abstract!Next \/ UNCHANGED Abstract!vars
<1> USE DEF threadVars, initVars, subVars, wireVars, Goto, EndWith, RInv
<1>t. /\ pc \in [Thread -> Labels] /\ token \in [Thread -> Nat] 
      /\ outcome \in [Thread -> Failures \cup {"none"} \cup Message]
  BY DEF Inv, TypeOK
<1>1. CASE Begin(t)
  <2>1. UNCHANGED <<published, addr>> /\ pc[t] = "idle" /\ pc' = [pc EXCEPT ![t] = "getmux"]
        /\ token' = [token EXCEPT ![t] = 0] /\ outcome' = [outcome EXCEPT ![t] = "none"]
    BY <1>1 DEF Begin
  <2>2. Sent' = Sent /\ 0 \notin Sent
    BY <2>1 DEF Sent, TokenPhases
  <2>3. Abstract!Call(t)
    BY <1>t, <2>1, <2>2 DEF Abstract!Call, Phase
  <2>4. QED
    BY <2>3 DEF Abstract!Next
<1>2. CASE SubscribeFails(t) \/ SetOnCompleteFails(t) \/ PublishFails(t)
  <2>1. UNCHANGED <<published, addr, token>> /\ pc[t] \in {"getmux", "oncomplete", "publish"}
        /\ (pc' = [pc EXCEPT ![t] = "idle"] \/ pc' = [pc EXCEPT ![t] = "leaving"])
        /\ outcome' = [outcome EXCEPT ![t] = "error"]
    BY <1>2 DEF SubscribeFails, SetOnCompleteFails, PublishFails
  <2>2. Sent' = Sent
    BY <2>1 DEF Sent
  <2>3. Abstract!Refuse(t)
    BY <1>t, <2>1, <2>2 DEF Abstract!Refuse, Phase
  <2>4. QED
    BY <2>3 DEF Abstract!Next
<1>3. CASE UseMux(t) \/ Subscribe(t) \/ SetOnComplete(t) \/ TakeReply(t) \/ Wait(t) \/ Leave(t)
  <2>1. UNCHANGED <<published, addr, outcome, token>>
    BY <1>3 DEF UseMux, Subscribe, SetOnComplete, TakeReply, Wait, Leave
  <2>2. \A u \in Thread : Phase(u)' = Phase(u)
    BY <1>t, <1>3 DEF UseMux, Subscribe, SetOnComplete, TakeReply, Wait, Leave, Looks, Resumed,
                      Woken, Phase
  <2>3. QED
    BY <2>1, <2>2, Hidden DEF Id, Sent
<1>4. CASE Register(t)
  <2>1. UNCHANGED <<published, addr, outcome>> /\ pc[t] = "register"
        /\ pc' = [pc EXCEPT ![t] = "publish"] /\ token' = [token EXCEPT ![t] = reply_counter']
    BY <1>4 DEF Register
  <2>2. Sent' = Sent
    BY <2>1 DEF Sent
  <2>3. TokenPhases'
    BY <1>4, NextTokens DEF Next, Step
  <2>4. token[t] = 0 /\ 0 \notin Sent /\ token'[t] \notin Sent'
    BY <1>t, <2>1, <2>3 DEF TokenPhases
  <2>5. \A u \in Thread : Phase(u)' = Phase(u) /\ Id(u)' = Id(u)
    BY <1>t, <2>1, <2>2, <2>4 DEF Phase, Id
  <2>6. QED
    BY <2>1, <2>5, Hidden
<1>5. CASE Publish(t)
  <2>1. UNCHANGED <<addr, outcome, token>> /\ pc[t] = "publish" /\ pc' = [pc EXCEPT ![t] = "check"]
        /\ published' = published \cup {<<mux[t], token[t]>>}
    BY <1>5 DEF Publish
  <2>2. Sent' = Sent \cup {token[t]}
    BY <2>1, SentGrows
  <2>3. token[t] \in (Nat \ {0}) \ Sent
    BY <1>t, <2>1 DEF TokenPhases
  <2>4. \A u \in Thread : u # t => Id(u)' = Id(u)
    BY <2>1, <2>2, <2>3 DEF Id, TokenPhases
  <2>5. Id(t) = 0 /\ Id(t)' = token[t] /\ token'[t] = token[t]
    BY <2>1, <2>2, <2>3 DEF Id
  <2>6. Abstract!Send(t)
    BY <1>t, <2>1, <2>2, <2>3, <2>4, <2>5 DEF Abstract!Send, Phase, Id
  <2>7. QED
    BY <2>6 DEF Abstract!Next
<1>6. CASE TimeOut(t) \/ Interrupted(t) \/ Convert(t)
  <2>1. UNCHANGED <<published, addr, token>> /\ pc[t] \in {"check", "wait", "convert"}
        /\ pc' = [pc EXCEPT ![t] = "leaving"]
    BY <1>6 DEF TimeOut, Interrupted, Convert, Looks, Resumed, Woken
  <2>2. Sent' = Sent /\ token[t] \in Sent
    BY <2>1 DEF Sent, TokenPhases
  <2>3. PICK r : /\ outcome' = [outcome EXCEPT ![t] = r]
                 /\ r \in Failures \/ (r \in Message /\ AnsweredTo(r) = token[t])
    <3>1. CASE TimeOut(t) \/ Interrupted(t)
      BY <3>1 DEF TimeOut, Interrupted, Failures
    <3>2. CASE Convert(t)
      <4>1. reply[t] \in Message /\ AnsweredTo(reply[t]) = token[t]
        BY <3>2 DEF Convert, Inv, TypeOK, PcInv, Addressed, AnsweredTo
      <4>2. QED
        BY <3>2, <4>1 DEF Convert, Failures
    <3>3. QED
      BY <1>6, <3>1, <3>2
  <2>4. Abstract!Finish(t)
    BY <1>t, <2>1, <2>2, <2>3 DEF Abstract!Finish, Phase, AnsweredTo, Abstract!Failures, Failures
  <2>5. QED
    BY <2>4 DEF Abstract!Next
<1>7. QED
  BY <1>1, <1>2, <1>3, <1>4, <1>5, <1>6 DEF Step

LEMMA OtherRefines ==
    ASSUME RInv,
           \/ \E t \in Thread : Expire(t) \/ Cancel(t)
           \/ \E m \in Mux : Deliver(m) \/ Handle(m)
           \/ \E msg \in Message : Respond(msg)
           \/ Drain \/ Close \/ Destruct \/ UNCHANGED vars
    PROVE  Abstract!Next \/ UNCHANGED Abstract!vars
<1> USE DEF threadVars, initVars, subVars, wireVars
<1>1. ASSUME UNCHANGED <<published, addr, outcome, pc, token>> PROVE UNCHANGED Abstract!vars
  BY <1>1, Hidden DEF Phase, Id, Sent
<1>2. CASE \/ \E t \in Thread : Expire(t) \/ Cancel(t)
           \/ \E m \in Mux : Deliver(m) \/ Handle(m)
           \/ Drain \/ Close \/ Destruct \/ UNCHANGED vars
  BY <1>1, <1>2 DEF Expire, Cancel, Deliver, Handle, StoreReply, DropReply, Complete, Drain,
                    Close, Destruct, vars
<1>3. ASSUME NEW msg \in Message, Respond(msg) PROVE Abstract!Next
  <2>1. PICK p \in published, nr \in BOOLEAN :
          addr' = [addr EXCEPT ![msg] = [mux |-> p[1], token |-> p[2], no_responders |-> nr]]
    BY <1>3 DEF Respond
  <2>2. UNCHANGED <<published, outcome, pc, token>> /\ addr[msg] = None
    BY <1>3 DEF Respond
  <2>3. p \in Mux \X Nat /\ addr \in [Message -> Address \cup {None}]
    BY DEF RInv, Inv, TypeOK
  <2>4. addr'[msg] # None /\ addr'[msg].token = p[2]
    BY <2>1, <2>3, NoneAssumption DEF Address
  <2>5. \A x \in Message : AnsweredTo(x)' = IF x = msg THEN p[2] ELSE AnsweredTo(x)
    BY <2>1, <2>3, <2>4 DEF AnsweredTo
  <2>6. Sent' = Sent /\ p[2] \in Sent
    BY <2>2 DEF Sent
  <2>7. Abstract!Answer(msg)
    BY <2>2, <2>5, <2>6 DEF Abstract!Answer, AnsweredTo, Phase
  <2>8. QED
    BY <2>7 DEF Abstract!Next
<1>4. QED
  BY <1>2, <1>3

LEMMA NextRefines == RInv /\ [Next]_vars => [Abstract!Next]_(Abstract!vars)
BY ThreadRefines, OtherRefines DEF Next

LEMMA RefInvariant == Spec => []RInv
<1>1. RInv /\ [Next]_vars => TokenPhases' /\ Addressed'
  BY NextTokens, NextAddressed DEF RInv
<1>2. QED
  BY <1>1, InitRef, TypeCorrect, EntriesCorrect, PTL DEF Spec, RInv, Inv

\* request() keeps the promise of RequestCall, for any number of threads, of requests and
\* of replies that are lost, late, repeated or for someone else: a call is published at
\* most once under an identifier of its own, and ends with an answer to it or an error.
THEOREM RequestCallImplemented == Spec => ImplementsRequestCall
BY InitRefines, NextRefines, RefInvariant, PTL DEF Spec, ImplementsRequestCall, Abstract!Spec
=============================================================================
