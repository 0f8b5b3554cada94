----------------------------- MODULE RequestCall -----------------------------
(***************************************************************************)
(* What NatsConnection::request() promises its caller, without inboxes,    *)
(* subscriptions or locks: a call is published at most once, under an      *)
(* identifier of its own; it ends with an answer sent to that identifier,  *)
(* or with an error; an answer sent to a call that has ended is lost.      *)
(***************************************************************************)
EXTENDS Naturals

CONSTANTS
    Thread,     \* the calling threads
    Message,    \* the answers that responders can send
    None        \* stands for "not sent yet"

VARIABLES
    call,       \* call[t]: what thread t's current call has done so far
    id,         \* id[t]: the identifier t's call was published under, 0 before
    sent,       \* every identifier published so far
    answered,   \* answered[msg]: the identifier msg was sent to, or None
    result      \* result[t]: how t's last call ended

vars == <<call, id, sent, answered, result>>

Failures == {"error", "timeout", "interrupted", "noresponders"}

Init ==
    /\ call = [t \in Thread |-> "idle"]
    /\ id = [t \in Thread |-> 0]
    /\ sent = {}
    /\ answered = [msg \in Message |-> None]
    /\ result = [t \in Thread |-> "none"]

Call(t) ==
    /\ call[t] = "idle"
    /\ call' = [call EXCEPT ![t] = "called"]
    /\ id' = [id EXCEPT ![t] = 0]
    /\ result' = [result EXCEPT ![t] = "none"]
    /\ UNCHANGED <<sent, answered>>

\* A call that fails before it is published can only end with an error.
Refuse(t) ==
    /\ call[t] = "called"
    /\ call' = [call EXCEPT ![t] = "idle"]
    /\ result' = [result EXCEPT ![t] = "error"]
    /\ UNCHANGED <<id, sent, answered>>

\* The identifier is one that no call was ever published under.
Send(t) ==
    /\ call[t] = "called"
    /\ id'[t] \in (Nat \ {0}) \ sent
    /\ id' = [id EXCEPT ![t] = id'[t]]
    /\ sent' = sent \cup {id'[t]}
    /\ call' = [call EXCEPT ![t] = "sent"]
    /\ UNCHANGED <<answered, result>>

\* Responders answer what was published; several may answer the same call.
Answer(msg) ==
    /\ answered[msg] = None
    /\ \E n \in sent : answered' = [answered EXCEPT ![msg] = n]
    /\ UNCHANGED <<call, id, sent, result>>

Finish(t) ==
    /\ call[t] = "sent"
    /\ call' = [call EXCEPT ![t] = "idle"]
    /\ \E r \in Failures \cup {msg \in Message : answered[msg] = id[t]} :
         result' = [result EXCEPT ![t] = r]
    /\ UNCHANGED <<id, sent, answered>>

Next ==
    \/ \E t \in Thread : Call(t) \/ Refuse(t) \/ Send(t) \/ Finish(t)
    \/ \E msg \in Message : Answer(msg)

Spec == Init /\ [][Next]_vars
=============================================================================
