----------------------- MODULE ChannelSubscriptionProofs -----------------------
(***************************************************************************)
(* Proofs about ChannelSubscription, for any number of callers, messages   *)
(* and any size of the channel's buffer: the order of delivery, that one   *)
(* call of close() or drain() acts, that the channel is a MessageStream,   *)
(* and what its threads bring about as they go on.                         *)
(***************************************************************************)
EXTENDS ChannelSubscription, TLAPS, SequenceTheorems

Held == IF msg = None THEN 0 ELSE 1

\* Where each message is, counted from the first that arrived: what the consumer
\* received, the channel's buffer, bgLoop()'s hands and what is pending follow each other.
Positions ==
    /\ \A i \in 1..Len(received) : received[i] = i
    /\ \A i \in 1..Len(buffer) : buffer[i] = Len(received) + i
    /\ msg # None => msg = Len(received) + Len(buffer) + 1
    /\ Active =>
          /\ \A i \in 1..Len(pending) :
                pending[i] = Len(received) + Len(buffer) + Held + i
          /\ Len(received) + Len(buffer) + Held + Len(pending) = arrived

\* A call is under way only after it, or another, has set stopping.
CallsStop == \/ stopping
             \/ \A c \in Caller : call[c] = "idle"

IInv == TypeOK /\ Positions /\ CallsStop /\ OneCallStops

\* A longer range has the sequences over a shorter one.
LEMMA SeqGrows ==
    ASSUME NEW n \in Nat, NEW s \in Seq(1..n)
    PROVE  s \in Seq(1..(n + 1))
<1>1. 1..n \subseteq 1..(n + 1)
  OBVIOUS
<1>2. QED
  BY <1>1, SeqMonotonic

LEMMA InitType == Init => TypeOK
<1> SUFFICES ASSUME Init PROVE TypeOK
  OBVIOUS
<1>1. arrived \in 0..MaxMessages /\ msg \in 1..arrived \cup {None}
  BY MaxMessagesAssumption DEF Init
<1>2. IsMessages(pending) /\ IsMessages(buffer) /\ IsMessages(received)
  BY EmptySeq DEF Init, IsMessages
<1>3. Len(buffer) <= BufferSize
  BY BufferSizeAssumption DEF Init
<1>4. call \in [Caller -> {"idle", "unsubscribe", "closechannel", "drain"}]
  BY DEF Init
<1>5. QED
  BY <1>1, <1>2, <1>3, <1>4 DEF Init, TypeOK

LEMMA InitInv == Init => IInv
<1>1. Init => Positions
  BY NoneAssumption DEF Init, Positions, Active, Held
<1>2. Init => CallsStop /\ OneCallStops
  BY DEF Init, CallsStop, OneCallStops
<1>3. QED
  BY <1>1, <1>2, InitType DEF IInv

-----------------------------------------------------------------------------
(* One step of bgLoop() *)

LEMMA LoopType == TypeOK /\ Loop => TypeOK'
<1> SUFFICES ASSUME TypeOK, Loop PROVE TypeOK'
  OBVIOUS
<1> USE NoneAssumption DEF TypeOK, IsMessages, subVars, chanVars, stopVars, consumerVars
<1>1. CASE CheckStopping
  BY <1>1 DEF CheckStopping
<1>2. CASE NextMsg
  <2>1. Head(pending) \in 1..arrived /\ Tail(pending) \in Seq(1..arrived)
    BY <1>2 DEF NextMsg
  <2>2. msg' \in 1..arrived' /\ msg' # None /\ pending' \in Seq(1..arrived')
    BY <1>2, <2>1 DEF NextMsg
  <2>3. QED
    BY <1>2, <2>2 DEF NextMsg
<1>3. CASE NextNothing
  BY <1>3 DEF NextNothing
<1>4. CASE NextFails
  BY <1>4 DEF NextFails, AfterError
<1>5. CASE Send
  <2>1. msg \in 1..arrived
    BY <1>5 DEF Send
  <2>2. buffer' \in Seq(1..arrived') /\ Len(buffer') <= BufferSize
    BY <1>5, <2>1, BufferSizeAssumption DEF Send
  <2>3. QED
    BY <1>5, <2>2 DEF Send, NoMessage
<1>6. CASE SendFails
  BY <1>6 DEF SendFails, AfterClosed
<1>7. CASE Exit
  BY <1>7 DEF Exit, CloseOnExit
<1>8. QED
  BY <1>1, <1>2, <1>3, <1>4, <1>5, <1>6, <1>7 DEF Loop

LEMMA LoopPositions == TypeOK /\ Positions /\ Loop => Positions'
<1> SUFFICES ASSUME TypeOK, Positions, Loop PROVE Positions'
  OBVIOUS
<1> USE NoneAssumption DEF Positions, Active, Held, subVars, chanVars, stopVars, consumerVars
<1>0. /\ received \in Seq(1..arrived) /\ buffer \in Seq(1..arrived) /\ pending \in Seq(1..arrived)
      /\ arrived \in Nat
      /\ loop = "send" <=> msg # None
  BY MaxMessagesAssumption DEF TypeOK, IsMessages
<1>l. Len(received) \in Nat /\ Len(buffer) \in Nat /\ Len(pending) \in Nat
  BY <1>0
<1>1. CASE CheckStopping
  BY <1>0, <1>1 DEF CheckStopping
<1>2. CASE NextMsg
  <2>1. Active /\ msg = None /\ Len(pending) > 0
    BY <1>0, <1>2 DEF NextMsg
  <2>p. /\ \A i \in 1..Len(pending) : pending[i] = Len(received) + Len(buffer) + i
        /\ Len(received) + Len(buffer) + Len(pending) = arrived
    BY <1>l, <2>1
  <2>2. msg' = Len(received) + Len(buffer) + 1 /\ msg' # None
    <3>1. msg' = Head(pending) /\ Head(pending) = pending[1]
      BY <1>0, <1>2 DEF NextMsg
    <3>2. pending[1] = Len(received) + Len(buffer) + 1
      BY ONLY <1>l, <2>1, <2>p
    <3>3. QED
      BY ONLY <3>1, <3>2, <1>l, NoneAssumption
  <2>3. /\ Len(pending') = Len(pending) - 1
        /\ \A i \in 1..Len(pending') : pending'[i] = pending[i + 1]
    <3>1. pending' = Tail(pending) /\ pending # <<>>
      BY <1>2 DEF NextMsg
    <3>2. QED
      BY ONLY <1>0, <3>1, HeadTailProperties
  <2>4. UNCHANGED <<received, buffer, arrived>>
    BY <1>2 DEF NextMsg
  <2>5. \A i \in 1..Len(pending') :
            pending'[i] = Len(received') + Len(buffer') + 1 + i
    BY ONLY <1>l, <2>p, <2>3, <2>4
  <2>6. Len(received') + Len(buffer') + 1 + Len(pending') = arrived'
    <3>1. Len(received') = Len(received) /\ Len(buffer') = Len(buffer) /\ arrived' = arrived
      BY <2>4
    <3>2. QED
      BY ONLY <1>l, <2>p, <2>3, <3>1
  <2>7. QED
    BY <2>2, <2>4, <2>5, <2>6
<1>3. CASE NextNothing
  BY <1>0, <1>3 DEF NextNothing
<1>4. CASE NextFails
  BY <1>0, <1>4 DEF NextFails, AfterError
<1>5. CASE Send
  <2>1. msg # None /\ msg = Len(received) + Len(buffer) + 1
    BY <1>0, <1>5 DEF Send
  <2>2. /\ Len(buffer') = Len(buffer) + 1
        /\ \A i \in 1..Len(buffer') : buffer'[i] = IF i = Len(buffer') THEN msg ELSE buffer[i]
    BY <1>0, <1>5, <2>1 DEF Send
  <2>3. UNCHANGED <<received, pending, arrived, nsub>> /\ msg' = None /\ (Active' => Active)
    BY <1>5 DEF Send, NoMessage
  <2>b. \A i \in 1..Len(buffer) : buffer[i] = Len(received) + i
    OBVIOUS
  <2>4. \A i \in 1..Len(buffer') : buffer'[i] = Len(received') + i
    BY ONLY <1>l, <2>1, <2>2, <2>3, <2>b
  <2>5. Active' =>
          /\ \A i \in 1..Len(pending') : pending'[i] = Len(received') + Len(buffer') + i
          /\ Len(received') + Len(buffer') + Len(pending') = arrived'
    BY <1>0, <2>1, <2>2, <2>3
  <2>6. QED
    BY <1>0, <2>3, <2>4, <2>5
<1>6. CASE SendFails
  BY <1>0, <1>6 DEF SendFails, AfterClosed
<1>7. CASE Exit
  BY <1>0, <1>7 DEF Exit
<1>8. QED
  BY <1>1, <1>2, <1>3, <1>4, <1>5, <1>6, <1>7 DEF Loop

LEMMA RaisesType == TypeOK /\ SendRaises => TypeOK'
BY NoneAssumption DEF TypeOK, IsMessages, SendRaises, AfterError, subVars, chanVars, stopVars, consumerVars

LEMMA RaisesPositions == Positions /\ SendRaises => Positions'
<1>1. SendRaises => UNCHANGED <<received, buffer, arrived>> /\ ~Active'
  BY DEF SendRaises, AfterError, Active, subVars, chanVars, consumerVars
<1>2. SendRaises => msg' = None
  BY DEF SendRaises
<1>3. QED
  BY <1>1, <1>2 DEF Positions, Held

LEMMA LoopInv == IInv /\ (Loop \/ SendRaises) => IInv'
<1>1. Loop \/ SendRaises => UNCHANGED stopVars
  BY DEF Loop, CheckStopping, NextMsg, NextNothing, NextFails, Send, SendFails, SendRaises, Exit
<1>2. CallsStop /\ OneCallStops /\ UNCHANGED stopVars => CallsStop' /\ OneCallStops'
  BY DEF CallsStop, OneCallStops, stopVars
<1>3. QED
  BY <1>1, <1>2, LoopType, LoopPositions, RaisesType, RaisesPositions DEF IInv

-----------------------------------------------------------------------------
(* One step of close(), of drain() or of the destructor *)

CallerStep(c) == Close(c) \/ CloseAgain(c) \/ Drain(c) \/ Calls(c)

LEMMA CallerInv ==
    ASSUME IInv, NEW c \in Caller, CallerStep(c)
    PROVE  IInv'
<1> USE DEF IInv
<1>1. TypeOK'
  <2> USE NoneAssumption DEF TypeOK, IsMessages, subVars, chanVars, loopVars, consumerVars
  <2>1. CASE Close(c)
    BY <2>1 DEF Close
  <2>2. CASE CloseAgain(c)
    BY <2>2 DEF CloseAgain
  <2>3. CASE Drain(c)
    BY <2>3 DEF Drain
  <2>4. CASE Unsubscribe(c)
    <3>1. pending' \in Seq(1..arrived') /\ nsub' \in {"open", "draining", "ended", "lost"}
      BY <2>4, EmptySeq DEF Unsubscribe
    <3>2. QED
      BY <2>4, <3>1 DEF Unsubscribe
  <2>5. CASE CloseChannel(c)
    BY <2>5 DEF CloseChannel, CloseChan
  <2>6. CASE DrainSubscription(c)
    BY <2>6 DEF DrainSubscription
  <2>7. QED
    BY <2>1, <2>2, <2>3, <2>4, <2>5, <2>6 DEF CallerStep, Calls
<1>2. Positions'
  <2>1. UNCHANGED <<received, buffer, msg, arrived, loop>>
    BY DEF CallerStep, Calls, Close, CloseAgain, Drain, Unsubscribe, CloseChannel,
       DrainSubscription, subVars, chanVars, loopVars, consumerVars
  <2>2. Active' => Active /\ UNCHANGED pending
    BY DEF CallerStep, Calls, Close, CloseAgain, Drain, Unsubscribe, CloseChannel,
       DrainSubscription, subVars, chanVars, loopVars, consumerVars, Active
  <2>3. QED
    BY <2>1, <2>2 DEF Positions, Held
<1>3. CallsStop' /\ OneCallStops'
  <2>1. call' \in [Caller -> {"idle", "unsubscribe", "closechannel", "drain"}]
    BY <1>1 DEF TypeOK
  <2>2. CASE Close(c) \/ Drain(c)
    <3>1. ~stopping /\ stopping' /\ \A d \in Caller : d # c => call'[d] = call[d]
      BY <2>2 DEF Close, Drain, FirstCall, TypeOK
    <3>2. QED
      BY <3>1 DEF CallsStop, OneCallStops
  <2>3. CASE CloseAgain(c)
    BY <2>3 DEF CloseAgain, CallsStop, OneCallStops
  <2>4. CASE Calls(c)
    <3>1. stopping' = stopping /\ call[c] # "idle"
      BY <2>4 DEF Calls, Unsubscribe, CloseChannel, DrainSubscription
    <3>2. \A d \in Caller : d # c => call'[d] = call[d]
      BY <2>4 DEF Calls, Unsubscribe, CloseChannel, DrainSubscription, TypeOK
    <3>3. QED
      BY <3>1, <3>2 DEF CallsStop, OneCallStops
  <2>5. QED
    BY <2>2, <2>3, <2>4 DEF CallerStep
<1>4. QED
  BY <1>1, <1>2, <1>3

-----------------------------------------------------------------------------
(* One step of the consumer, or of the environment *)

OtherStep == Consume \/ Arrive \/ ConnectionDrains \/ SubscriptionEnds \/ ConnectionCloses

LEMMA OtherType == TypeOK /\ OtherStep => TypeOK'
<1> SUFFICES ASSUME TypeOK, OtherStep PROVE TypeOK'
  OBVIOUS
<1> USE NoneAssumption DEF TypeOK, IsMessages, subVars, chanVars, loopVars, stopVars, consumerVars
<1>1. CASE Receive
  <2>1. Head(buffer) \in 1..arrived /\ Tail(buffer) \in Seq(1..arrived)
        /\ Len(Tail(buffer)) = Len(buffer) - 1
    BY <1>1 DEF Receive
  <2>2. buffer' \in Seq(1..arrived') /\ Len(buffer') <= BufferSize
    BY <1>1, <2>1, BufferSizeAssumption DEF Receive
  <2>3. received' \in Seq(1..arrived')
    BY <1>1, <2>1 DEF Receive
  <2>4. QED
    BY <1>1, <2>2, <2>3 DEF Receive
<1>2. CASE ReceiveNothing
  BY <1>2 DEF ReceiveNothing
<1>3. CASE Arrive
  <2>1. arrived \in Nat /\ arrived' = arrived + 1 /\ arrived' \in 0..MaxMessages
    BY <1>3, MaxMessagesAssumption DEF Arrive
  <2>2. buffer \in Seq(1..arrived') /\ received \in Seq(1..arrived') /\ pending \in Seq(1..arrived')
    BY <2>1, SeqGrows
  <2>3. pending' \in Seq(1..arrived')
    <3>1. arrived' \in 1..arrived' /\ pending' = Append(pending, arrived')
      BY <1>3, <2>1 DEF Arrive
    <3>2. QED
      BY ONLY <2>2, <3>1, AppendProperties
  <2>4. msg' \in 1..arrived' \cup {None}
    BY <1>3, <2>1 DEF Arrive
  <2>5. QED
    BY <1>3, <2>1, <2>2, <2>3, <2>4 DEF Arrive
<1>4. CASE ConnectionDrains
  BY <1>4 DEF ConnectionDrains
<1>5. CASE SubscriptionEnds
  BY <1>5, EmptySeq DEF SubscriptionEnds
<1>6. CASE ConnectionCloses
  BY <1>6, EmptySeq DEF ConnectionCloses
<1>7. QED
  BY <1>1, <1>2, <1>3, <1>4, <1>5, <1>6 DEF OtherStep, Consume

LEMMA OtherPositions == TypeOK /\ Positions /\ OtherStep => Positions'
<1> SUFFICES ASSUME TypeOK, Positions, OtherStep PROVE Positions'
  OBVIOUS
<1>0. /\ received \in Seq(1..arrived) /\ buffer \in Seq(1..arrived) /\ pending \in Seq(1..arrived)
      /\ arrived \in Nat
  BY MaxMessagesAssumption DEF TypeOK, IsMessages
<1>l. Len(received) \in Nat /\ Len(buffer) \in Nat /\ Len(pending) \in Nat
  BY <1>0
<1>1. CASE Receive
  <2>1. /\ Len(buffer) > 0
        /\ Len(received') = Len(received) + 1 /\ Len(buffer') = Len(buffer) - 1
        /\ \A i \in 1..Len(buffer') : buffer'[i] = buffer[i + 1]
        /\ \A i \in 1..Len(received') :
              received'[i] = IF i = Len(received') THEN buffer[1] ELSE received[i]
    <3>1. /\ buffer # <<>> /\ buffer' = Tail(buffer) /\ received' = Append(received, Head(buffer))
      BY <1>1 DEF Receive
    <3>2. Head(buffer) = buffer[1] /\ Head(buffer) \in 1..arrived
      BY ONLY <1>0, <3>1, HeadTailProperties, ElementOfSeq
    <3>3. Len(buffer) > 0 /\ Len(buffer') = Len(buffer) - 1
          /\ \A i \in 1..Len(buffer') : buffer'[i] = buffer[i + 1]
      BY ONLY <1>0, <3>1, HeadTailProperties, EmptySeq
    <3>4. Len(received') = Len(received) + 1
          /\ \A i \in 1..Len(received') :
                received'[i] = IF i = Len(received') THEN buffer[1] ELSE received[i]
      BY ONLY <1>0, <3>1, <3>2
    <3>5. QED
      BY <3>3, <3>4
  <2>2. UNCHANGED <<pending, arrived, msg, nsub, loop>>
    BY <1>1 DEF Receive, subVars, loopVars
  <2>3. /\ \A i \in 1..Len(received) : received[i] = i
        /\ \A i \in 1..Len(buffer) : buffer[i] = Len(received) + i
    BY DEF Positions
  <2>4. /\ \A i \in 1..Len(received') : received'[i] = i
        /\ \A i \in 1..Len(buffer') : buffer'[i] = Len(received') + i
    <3>1. buffer[1] = Len(received) + 1
      BY ONLY <1>l, <2>1, <2>3
    <3>2. \A i \in 1..Len(received') : received'[i] = i
      BY ONLY <1>l, <2>1, <2>3, <3>1
    <3>3. \A i \in 1..Len(buffer') : buffer[i + 1] = Len(received) + (i + 1)
      BY ONLY <1>l, <2>1, <2>3
    <3>4. \A i \in 1..Len(buffer') : buffer'[i] = Len(received') + i
      BY ONLY <1>l, <2>1, <3>3
    <3>5. QED
      BY <3>2, <3>4
  <2>5. Len(received') + Len(buffer') = Len(received) + Len(buffer)
    BY ONLY <1>l, <2>1
  <2>6. QED
    BY <2>2, <2>4, <2>5 DEF Positions, Active, Held
<1>2. CASE Arrive
  <2>1. /\ UNCHANGED <<received, buffer, msg, nsub, loop>>
        /\ arrived' = arrived + 1 /\ pending' = Append(pending, arrived')
    BY <1>2 DEF Arrive, chanVars, loopVars, consumerVars
  <2>2. /\ Len(pending') = Len(pending) + 1
        /\ \A i \in 1..Len(pending') :
              pending'[i] = IF i = Len(pending') THEN arrived' ELSE pending[i]
    BY ONLY <1>0, <1>l, <2>1
  <2>3. CASE Active
    <3>1. /\ \A i \in 1..Len(pending) : pending[i] = Len(received) + Len(buffer) + Held + i
          /\ Len(received) + Len(buffer) + Held + Len(pending) = arrived
      BY <2>3 DEF Positions
    <3>2. Held \in Nat
      BY DEF Held
    <3>n. arrived' = arrived + 1 /\ arrived \in Nat
      BY <1>0, <2>1
    <3>3. /\ \A i \in 1..Len(pending') : pending'[i] = Len(received) + Len(buffer) + Held + i
          /\ Len(received) + Len(buffer) + Held + Len(pending') = arrived'
      BY ONLY <1>l, <2>2, <3>1, <3>2, <3>n
    <3>4. QED
      BY <2>1, <3>3 DEF Positions, Held
  <2>4. CASE ~Active
    BY <2>1, <2>4 DEF Positions, Active
  <2>5. QED
    BY <2>3, <2>4
<1>3. CASE ReceiveNothing \/ ConnectionDrains \/ SubscriptionEnds \/ ConnectionCloses
  <2>1. UNCHANGED <<received, buffer, msg, arrived, loop>>
    BY <1>3 DEF ReceiveNothing, ConnectionDrains, SubscriptionEnds, ConnectionCloses,
       subVars, chanVars, loopVars, consumerVars
  <2>2. Active' => Active /\ UNCHANGED pending
    BY <1>3 DEF ReceiveNothing, ConnectionDrains, SubscriptionEnds, ConnectionCloses,
       subVars, loopVars, Active
  <2>3. QED
    BY <2>1, <2>2 DEF Positions, Held
<1>4. QED
  BY <1>1, <1>2, <1>3 DEF OtherStep, Consume

LEMMA OtherInv == IInv /\ OtherStep => IInv'
<1>1. OtherStep => UNCHANGED stopVars
  BY DEF OtherStep, Consume, Receive, ReceiveNothing, Arrive, ConnectionDrains,
     SubscriptionEnds, ConnectionCloses
<1>2. CallsStop /\ OneCallStops /\ UNCHANGED stopVars => CallsStop' /\ OneCallStops'
  BY DEF CallsStop, OneCallStops, stopVars
<1>3. QED
  BY <1>1, <1>2, OtherType, OtherPositions DEF IInv

-----------------------------------------------------------------------------

LEMMA StutterInv == IInv /\ UNCHANGED vars => IInv'
BY DEF IInv, TypeOK, IsMessages, Positions, Active, Held, CallsStop, OneCallStops, vars,
   subVars, chanVars, loopVars, stopVars, consumerVars

LEMMA NextInv == IInv /\ [Next]_vars => IInv'
BY LoopInv, CallerInv, OtherInv, StutterInv DEF Next, CallerStep, OtherStep

LEMMA Invariant == Spec => []IInv
BY InitInv, NextInv, PTL DEF Spec

\* Messages that are in order, and those that follow them, are in order together.
LEMMA Following ==
    ASSUME NEW n \in Nat, NEW s \in Seq(1..n), NEW t \in Seq(1..n),
           InOrder(s), \A i \in 1..Len(t) : t[i] = Len(s) + i
    PROVE  /\ s \o t \in Seq(1..n) /\ InOrder(s \o t)
           /\ Len(s \o t) = Len(s) + Len(t)
<1>1. /\ s \o t \in Seq(1..n)
      /\ Len(s \o t) = Len(s) + Len(t)
      /\ \A i \in 1..(Len(s) + Len(t)) : (s \o t)[i] = IF i <= Len(s) THEN s[i] ELSE t[i - Len(s)]
  BY ConcatProperties
<1>2. \A i \in 1..(Len(s) + Len(t)) : (s \o t)[i] = i
  <2>1. Len(s) \in Nat /\ Len(t) \in Nat /\ \A i \in 1..Len(s) : s[i] = i
    BY DEF InOrder
  <2>2. \A i \in 1..Len(t) : t[i] = Len(s) + i
    OBVIOUS
  <2>3. QED
    BY ONLY <1>1, <2>1, <2>2
<1>3. QED
  BY <1>1, <1>2 DEF InOrder

\* The positions of the messages are the order in which they are, or will be, delivered.
LEMMA PositionsInOrder == TypeOK /\ Positions => DeliveredInOrder
<1> SUFFICES ASSUME TypeOK, Positions PROVE DeliveredInOrder
  OBVIOUS
<1>0. /\ received \in Seq(1..arrived) /\ buffer \in Seq(1..arrived) /\ pending \in Seq(1..arrived)
      /\ arrived \in Nat
  BY MaxMessagesAssumption DEF TypeOK, IsMessages
<1>l. Len(received) \in Nat /\ Len(buffer) \in Nat /\ Len(pending) \in Nat /\ Held \in {0, 1}
  BY <1>0 DEF Held
<1>1. /\ InHand \in Seq(1..arrived) /\ Len(InHand) = Held
      /\ \A i \in 1..Len(InHand) : InHand[i] = Len(received) + Len(buffer) + i
  <2>1. CASE msg = None
    BY <2>1, EmptySeq DEF InHand, Held
  <2>2. CASE msg # None
    BY <2>2 DEF InHand, Held, Positions, TypeOK
  <2>3. QED
    BY <2>1, <2>2
<1>2. InOrder(received) /\ \A i \in 1..Len(buffer) : buffer[i] = Len(received) + i
  BY DEF Positions, InOrder
<1>3. /\ received \o buffer \in Seq(1..arrived) /\ InOrder(received \o buffer)
      /\ Len(received \o buffer) = Len(received) + Len(buffer)
  BY ONLY <1>0, <1>2, Following
<1>4. /\ Ahead \in Seq(1..arrived) /\ InOrder(Ahead)
      /\ Len(Ahead) = Len(received) + Len(buffer) + Held
  <2>1. \A i \in 1..Len(InHand) : InHand[i] = Len(received \o buffer) + i
    BY ONLY <1>1, <1>3
  <2>2. /\ (received \o buffer) \o InHand \in Seq(1..arrived)
        /\ InOrder((received \o buffer) \o InHand)
        /\ Len((received \o buffer) \o InHand) = Len(received \o buffer) + Len(InHand)
    BY ONLY <1>0, <1>1, <1>3, <2>1, Following
  <2>3. QED
    BY ONLY <1>1, <1>3, <2>2 DEF Ahead
<1>5. CASE Active
  <2>1. /\ \A i \in 1..Len(pending) : pending[i] = Len(Ahead) + i
        /\ Len(Ahead) + Len(pending) = arrived
    BY <1>4, <1>5 DEF Positions
  <2>2. InOrder(Ahead \o pending) /\ Len(Ahead \o pending) = arrived
    BY <1>0, <1>4, <2>1, Following
  <2>3. QED
    BY <1>4, <2>2 DEF DeliveredInOrder
<1>6. CASE ~Active
  BY <1>4, <1>6 DEF DeliveredInOrder, Active
<1>7. QED
  BY <1>5, <1>6

\* Every variable has its type, and the channel never holds more than its buffer's size.
THEOREM TypeCorrect == Spec => []TypeOK
<1>1. IInv => TypeOK
  BY DEF IInv
<1>2. QED
  BY <1>1, Invariant, PTL

\* The consumer receives the messages in the order in which they arrived, each once and
\* without a gap, whatever the size of the channel and however close(), drain() and the
\* loss of the connection interleave with bgLoop().
THEOREM OrderCorrect == Spec => []DeliveredInOrder
<1>1. IInv => DeliveredInOrder
  BY PositionsInOrder DEF IInv
<1>2. QED
  BY <1>1, Invariant, PTL

\* Of any number of threads that call close() and drain() at the same time, one acts.
THEOREM OneCallCorrect == Spec => []OneCallStops
<1>1. IInv => OneCallStops
  BY DEF IInv
<1>2. QED
  BY <1>1, Invariant, PTL

-----------------------------------------------------------------------------
(* The consumer reads a MessageStream *)

\* The reader has been told of the end of a channel that is closed and empty.
EndIsFinal == consumer = "ended" => ~chan_open /\ buffer = <<>>

Messages == 1..arrived

LEMMA Parts ==
    ASSUME TypeOK
    PROVE  /\ buffer \in Seq(Messages) /\ pending \in Seq(Messages) /\ InHand \in Seq(Messages)
           /\ arrived \in Nat
<1>1. /\ buffer \in Seq(Messages) /\ pending \in Seq(Messages) /\ arrived \in Nat
  BY MaxMessagesAssumption DEF TypeOK, IsMessages, Messages
<1>2. InHand \in Seq(Messages)
  <2>1. CASE msg = None
    BY <2>1, EmptySeq DEF InHand
  <2>2. CASE msg # None
    <3>1. msg \in Messages
      BY <2>2 DEF TypeOK, Messages
    <3>2. <<msg>> \in Seq(Messages)
      BY ONLY <3>1
    <3>3. QED
      BY <2>2, <3>2 DEF InHand
  <2>3. QED
    BY <2>1, <2>2
<1>3. QED
  BY <1>1, <1>2

\* A sequence is what is left when something behind it is cut off.
LEMMA CutBehind ==
    ASSUME NEW S, NEW s \in Seq(S), NEW t \in Seq(S)
    PROVE  \E n \in 0..Len(s \o t) : s = SubSeq(s \o t, 1, n)
<1>1. Len(s) \in Nat /\ Len(s \o t) = Len(s) + Len(t) /\ Len(t) \in Nat
  BY ConcatProperties, LenProperties
<1>2. CASE s = <<>>
  <2>1. SubSeq(s \o t, 1, 0) = <<>>
    BY SubSeqEmpty
  <2>2. 0 \in 0..Len(s \o t)
    BY <1>1
  <2>3. QED
    BY ONLY <1>2, <2>1, <2>2
<1>3. CASE s # <<>>
  <2>1. Len(s) \in 1..Len(s) /\ 1 \in 1..Len(s)
    BY <1>1, <1>3, EmptySeq
  <2>2. SubSeq(s \o t, 1, Len(s)) = SubSeq(s, 1, Len(s))
    BY ONLY <2>1, SubSeqOfConcat1, s \in Seq(S), t \in Seq(S)
  <2>3. SubSeq(s, 1, Len(s)) = s
    BY SubSeqFull
  <2>4. Len(s) \in 0..Len(s \o t)
    BY <1>1
  <2>5. QED
    BY ONLY <2>2, <2>3, <2>4
<1>4. QED
  BY <1>2, <1>3

LEMMA EndInit == Init => EndIsFinal
BY DEF Init, EndIsFinal

LEMMA EndNext == EndIsFinal /\ [Next]_vars => EndIsFinal'
<1> SUFFICES ASSUME EndIsFinal, [Next]_vars PROVE EndIsFinal'
  OBVIOUS
<1> USE DEF EndIsFinal
<1>1. CASE Loop \/ SendRaises
  BY <1>1 DEF Loop, CheckStopping, NextMsg, NextNothing, NextFails, Send, SendFails, SendRaises, Exit,
     CloseOnExit, chanVars, consumerVars
<1>2. CASE \E c \in Caller : CallerStep(c)
  BY <1>2 DEF CallerStep, Calls, Close, CloseAgain, Drain, Unsubscribe, CloseChannel, CloseChan,
     DrainSubscription, chanVars, consumerVars
<1>3. CASE OtherStep
  BY <1>3 DEF OtherStep, Consume, Receive, ReceiveNothing, Arrive, ConnectionDrains,
     SubscriptionEnds, ConnectionCloses, chanVars, consumerVars
<1>4. CASE UNCHANGED vars
  BY <1>4 DEF vars, chanVars, consumerVars
<1>5. QED
  BY <1>1, <1>2, <1>3, <1>4 DEF Next, CallerStep, OtherStep

StreamVars == <<arrived, Deliverable, received, StreamState>>

\* Behind a closed channel there is only its buffer.
LEMMA ClosedStep ==
    ASSUME IInv, EndIsFinal, ~chan_open, Next
    PROVE  Stream!Next \/ UNCHANGED StreamVars
<1>1. ~chan_open' /\ Deliverable = buffer /\ Deliverable' = buffer'
  <2>1. ~chan_open'
    BY DEF Next, Loop, CheckStopping, NextMsg, NextNothing, NextFails, Send, SendFails, SendRaises, Exit,
       CloseOnExit, Calls, Close, CloseAgain, Drain, Unsubscribe, CloseChannel, CloseChan, DrainSubscription,
       Consume, Receive, ReceiveNothing, Arrive, ConnectionDrains, SubscriptionEnds, ConnectionCloses,
       chanVars
  <2>2. QED
    BY <2>1 DEF Deliverable
<1>2. /\ StreamState = IF consumer = "ended" THEN "ended" ELSE "cut"
      /\ StreamState' = IF consumer' = "ended" THEN "ended" ELSE "cut"
  BY <1>1 DEF StreamState
<1>3. CASE Receive
  BY <1>1, <1>2, <1>3 DEF Receive, Stream!Next, Stream!Read, subVars
<1>4. CASE ReceiveNothing
  BY <1>1, <1>2, <1>4 DEF ReceiveNothing, Stream!Next, Stream!End, subVars, chanVars
<1>5. CASE Arrive
  BY <1>1, <1>2, <1>5 DEF Arrive, Stream!Next, Stream!Ignore, chanVars, consumerVars
<1>6. CASE Loop \/ SendRaises
  <2>1. UNCHANGED <<arrived, buffer, received, consumer>>
    BY <1>6 DEF Loop, CheckStopping, NextMsg, NextNothing, NextFails, Send, SendFails, SendRaises, Exit,
       subVars, chanVars, consumerVars
  <2>2. QED
    BY <1>1, <1>2, <2>1 DEF StreamVars
<1>7. CASE \E c \in Caller : CallerStep(c)
  <2>1. UNCHANGED <<arrived, buffer, received, consumer>>
    BY <1>7 DEF CallerStep, Calls, Close, CloseAgain, Drain, Unsubscribe, CloseChannel,
       DrainSubscription, subVars, chanVars, consumerVars
  <2>2. QED
    BY <1>1, <1>2, <2>1 DEF StreamVars
<1>8. CASE ConnectionDrains \/ SubscriptionEnds \/ ConnectionCloses
  BY <1>1, <1>2, <1>8 DEF ConnectionDrains, SubscriptionEnds, ConnectionCloses, StreamVars, chanVars,
     consumerVars
<1>9. QED
  BY <1>3, <1>4, <1>5, <1>6, <1>7, <1>8 DEF Next, CallerStep, Consume

\* While the channel is open, a stream that was cut may lose what is behind its buffer.
LEMMA OpenCut ==
    ASSUME IInv, EndIsFinal, chan_open, chan_open', ~Active',
           UNCHANGED <<buffer, msg, arrived, received, consumer>>
    PROVE  Stream!Next \/ UNCHANGED StreamVars
<1>1. consumer # "ended" /\ consumer' # "ended" /\ InHand' = InHand
  BY DEF EndIsFinal, InHand
<1>2. Deliverable' = buffer \o InHand /\ StreamState' = "cut"
  BY <1>1 DEF Deliverable, StreamState
<1>3. CASE Active
  <2>1. Deliverable = (buffer \o InHand) \o pending /\ StreamState = "open"
    BY <1>1, <1>3 DEF Deliverable, StreamState
  <2>2. buffer \o InHand \in Seq(Messages) /\ pending \in Seq(Messages)
    BY Parts, ConcatProperties DEF IInv
  <2>3. \E n \in 0..Len((buffer \o InHand) \o pending) :
            buffer \o InHand = SubSeq((buffer \o InHand) \o pending, 1, n)
    BY ONLY <2>2, CutBehind
  <2>4. Stream!Cut
    BY <1>2, <2>1, <2>3 DEF Stream!Cut
  <2>5. QED
    BY <2>4 DEF Stream!Next
<1>4. CASE ~Active
  BY <1>1, <1>2, <1>4 DEF Deliverable, StreamState, StreamVars
<1>5. QED
  BY <1>3, <1>4

\* Closing the channel, and an exception of send(), cut the stream behind what is in its buffer.
LEMMA CloseCut ==
    ASSUME IInv, EndIsFinal, chan_open, ~chan_open' \/ (msg' = None /\ ~Active'),
           UNCHANGED <<buffer, arrived, received, consumer>>
    PROVE  Stream!Next
<1>1. consumer # "ended" /\ consumer' # "ended"
  BY DEF EndIsFinal
<1>2. Deliverable' = buffer /\ StreamState' = "cut" /\ StreamState # "ended"
  <2>1. buffer \o <<>> = buffer
    BY Parts, ConcatEmptySeq DEF IInv
  <2>2. QED
    BY <1>1, <2>1 DEF Deliverable, StreamState, InHand
<1>3. PICK t \in Seq(Messages) : Deliverable = buffer \o t
  <2>1. /\ buffer \in Seq(Messages) /\ InHand \in Seq(Messages) /\ pending \in Seq(Messages)
    BY Parts DEF IInv
  <2>2. (buffer \o InHand) \o pending = buffer \o (InHand \o pending)
        /\ InHand \o pending \in Seq(Messages)
    BY ONLY <2>1, ConcatAssociative, ConcatProperties
  <2>3. QED
    BY <2>1, <2>2 DEF Deliverable
<1>4. \E n \in 0..Len(buffer \o t) : buffer = SubSeq(buffer \o t, 1, n)
  <2>1. buffer \in Seq(Messages)
    BY Parts DEF IInv
  <2>2. QED
    BY ONLY <1>3, <2>1, CutBehind
<1>5. Stream!Cut
  BY <1>2, <1>3, <1>4 DEF Stream!Cut
<1>6. QED
  BY <1>5 DEF Stream!Next

\* While the channel is open, a message moves on inside the stream.
LEMMA MovesOn ==
    ASSUME IInv, EndIsFinal, chan_open, NextMsg \/ Send
    PROVE  UNCHANGED StreamVars
<1>0. /\ buffer \in Seq(Messages) /\ InHand \in Seq(Messages) /\ pending \in Seq(Messages)
  BY Parts DEF IInv
<1>1. /\ UNCHANGED <<arrived, received, consumer, chan_open>>
      /\ Active' = Active
  BY DEF NextMsg, Send, subVars, chanVars, consumerVars, Active
<1>2. CASE NextMsg
  <2>1. /\ msg = None /\ msg' = Head(pending) /\ pending # <<>> /\ pending' = Tail(pending)
        /\ buffer' = buffer /\ Active
    BY <1>2, NoneAssumption DEF NextMsg, IInv, TypeOK, chanVars, Active
  <2>2. Head(pending) # None /\ Head(pending) \in Messages /\ Tail(pending) \in Seq(Messages)
    <3>1. Head(pending) \in Messages /\ Tail(pending) \in Seq(Messages)
      BY ONLY <1>0, <2>1, HeadTailProperties
    <3>2. QED
      BY <3>1, NoneAssumption, Parts DEF Messages, IInv
  <2>3. InHand = <<>> /\ InHand' = <<Head(pending)>>
    BY <2>1, <2>2 DEF InHand
  <2>4. <<Head(pending)>> \o Tail(pending) = pending
    <3>1. /\ SubSeq(pending, 1, Len(pending)) = <<pending[1]>> \o SubSeq(pending, 2, Len(pending))
          /\ SubSeq(pending, 1, Len(pending)) = pending
          /\ Tail(pending) = SubSeq(pending, 2, Len(pending))
          /\ Head(pending) = pending[1]
      <4>1. 1 \in 1..Len(pending) /\ Len(pending) \in 1..Len(pending)
        BY ONLY <1>0, <2>1, EmptySeq
      <4>2. SubSeq(pending, 1, Len(pending)) = <<pending[1]>> \o SubSeq(pending, 1 + 1, Len(pending))
        BY ONLY <1>0, <4>1, SubSeqRecursiveFirst
      <4>3. QED
        BY ONLY <1>0, <2>1, <4>2, SubSeqFull, TailIsSubSeq
    <3>2. QED
      BY ONLY <3>1
  <2>5. (buffer \o <<>>) \o pending = (buffer \o <<Head(pending)>>) \o Tail(pending)
    <3>1. buffer \o <<>> = buffer
      BY ONLY <1>0, ConcatEmptySeq
    <3>2. <<Head(pending)>> \in Seq(Messages)
      BY ONLY <2>2
    <3>3. (buffer \o <<Head(pending)>>) \o Tail(pending)
             = buffer \o (<<Head(pending)>> \o Tail(pending))
      BY ONLY <1>0, <2>2, <3>2, ConcatAssociative
    <3>4. QED
      BY ONLY <2>4, <3>1, <3>3
  <2>6. QED
    BY <1>1, <2>1, <2>3, <2>5 DEF Deliverable, StreamState, StreamVars
<1>3. CASE Send
  <2>1. /\ msg # None /\ msg' = None /\ buffer' = Append(buffer, msg) /\ pending' = pending
    BY <1>3 DEF Send, NoMessage, IInv, TypeOK, subVars
  <2>2. InHand = <<msg>> /\ InHand' = <<>> /\ msg \in Messages
    BY <2>1 DEF InHand, IInv, TypeOK, Messages
  <2>3. Append(buffer, msg) \o <<>> = buffer \o <<msg>>
    <3>1. Append(buffer, msg) \in Seq(Messages)
      BY ONLY <1>0, <2>2, AppendProperties
    <3>2. Append(buffer, msg) \o <<>> = Append(buffer, msg)
      BY ONLY <3>1, ConcatEmptySeq
    <3>3. Append(buffer, msg) = buffer \o <<msg>>
      BY ONLY <1>0, <2>2, AppendIsConcat
    <3>4. QED
      BY ONLY <3>2, <3>3
  <2>4. QED
    BY <1>1, <2>1, <2>2, <2>3 DEF Deliverable, StreamState, StreamVars
<1>4. QED
  BY <1>2, <1>3

\* What is behind the buffer of an open channel.
Behind == IF Active THEN InHand \o pending ELSE InHand

LEMMA OpenStream ==
    ASSUME IInv, chan_open
    PROVE  Deliverable = buffer \o Behind /\ Behind \in Seq(Messages) /\ buffer \in Seq(Messages)
<1>1. /\ buffer \in Seq(Messages) /\ InHand \in Seq(Messages) /\ pending \in Seq(Messages)
  BY Parts DEF IInv
<1>2. (buffer \o InHand) \o pending = buffer \o (InHand \o pending) /\ InHand \o pending \in Seq(Messages)
  BY ONLY <1>1, ConcatAssociative, ConcatProperties
<1>3. QED
  BY <1>1, <1>2 DEF Deliverable, Behind

LEMMA OpenRead ==
    ASSUME IInv, EndIsFinal, chan_open, Receive
    PROVE  Stream!Next
<1>1. /\ consumer # "ended" /\ consumer' # "ended" /\ Behind' = Behind /\ chan_open'
      /\ Deliverable = buffer \o Behind
      /\ buffer # <<>> /\ buffer' = Tail(buffer) /\ received' = Append(received, Head(buffer))
      /\ UNCHANGED <<arrived, StreamState>>
  BY OpenStream DEF EndIsFinal, Receive, Behind, InHand, Active, StreamState, subVars, loopVars
<1>2. Deliverable' = Tail(buffer) \o Behind
  <2>1. InHand' = InHand /\ pending' = pending /\ Active' = Active
    BY DEF Receive, InHand, Active, subVars, loopVars
  <2>2. /\ Tail(buffer) \in Seq(Messages)
        /\ InHand \in Seq(Messages) /\ pending \in Seq(Messages)
    BY <1>1, OpenStream, Parts, HeadTailProperties DEF IInv
  <2>3. (Tail(buffer) \o InHand) \o pending = Tail(buffer) \o (InHand \o pending)
    BY ONLY <2>2, ConcatAssociative
  <2>4. QED
    BY <1>1, <2>1, <2>3 DEF Deliverable, Behind
<1>3. /\ buffer \o Behind # <<>>
      /\ Head(buffer \o Behind) = Head(buffer)
      /\ Tail(buffer \o Behind) = Tail(buffer) \o Behind
  <2>1. buffer \in Seq(Messages) /\ Behind \in Seq(Messages) /\ buffer # <<>>
    BY <1>1, OpenStream
  <2>2. /\ Len(buffer) \in Nat \ {0} /\ Len(Behind) \in Nat
        /\ buffer \o Behind \in Seq(Messages)
        /\ Len(buffer \o Behind) = Len(buffer) + Len(Behind)
        /\ \A i \in 1..(Len(buffer) + Len(Behind)) :
              (buffer \o Behind)[i] = IF i <= Len(buffer) THEN buffer[i] ELSE Behind[i - Len(buffer)]
    BY ONLY <2>1, ConcatProperties, EmptySeq, LenProperties
  <2>3. buffer \o Behind # <<>>
    BY ONLY <2>2, EmptySeq
  <2>4. Head(buffer \o Behind) = (buffer \o Behind)[1] /\ Head(buffer) = buffer[1]
    BY ONLY <2>1, <2>2, <2>3
  <2>5. /\ Tail(buffer) \in Seq(Messages) /\ Len(Tail(buffer)) = Len(buffer) - 1
        /\ \A i \in 1..Len(Tail(buffer)) : Tail(buffer)[i] = buffer[i + 1]
    BY ONLY <2>1, HeadTailProperties
  <2>6. /\ Tail(buffer \o Behind) \in Seq(Messages)
        /\ Len(Tail(buffer \o Behind)) = Len(buffer \o Behind) - 1
        /\ \A i \in 1..Len(Tail(buffer \o Behind)) : Tail(buffer \o Behind)[i] = (buffer \o Behind)[i + 1]
    BY ONLY <2>2, <2>3, HeadTailProperties
  <2>7. /\ Tail(buffer) \o Behind \in Seq(Messages)
        /\ Len(Tail(buffer) \o Behind) = Len(Tail(buffer)) + Len(Behind)
        /\ \A i \in 1..(Len(Tail(buffer)) + Len(Behind)) : (Tail(buffer) \o Behind)[i] =
              IF i <= Len(Tail(buffer)) THEN Tail(buffer)[i] ELSE Behind[i - Len(Tail(buffer))]
    BY ONLY <2>1, <2>5, ConcatProperties
  <2>8. \A i \in 1..Len(Tail(buffer \o Behind)) :
            Tail(buffer \o Behind)[i] = (Tail(buffer) \o Behind)[i]
    <3> SUFFICES ASSUME NEW i \in 1..(Len(buffer) + Len(Behind) - 1)
                 PROVE  Tail(buffer \o Behind)[i] = (Tail(buffer) \o Behind)[i]
      BY <2>2, <2>6
    <3>1. Tail(buffer \o Behind)[i] =
             IF i + 1 <= Len(buffer) THEN buffer[i + 1] ELSE Behind[(i + 1) - Len(buffer)]
      BY <2>2, <2>6
    <3>2. (Tail(buffer) \o Behind)[i] =
             IF i <= Len(buffer) - 1 THEN buffer[i + 1] ELSE Behind[i - (Len(buffer) - 1)]
      BY <2>2, <2>5, <2>7
    <3>3. (i + 1) - Len(buffer) = i - (Len(buffer) - 1) /\ (i + 1 <= Len(buffer) <=> i <= Len(buffer) - 1)
      BY <2>2
    <3>4. QED
      BY ONLY <3>1, <3>2, <3>3
  <2>9. Len(Tail(buffer \o Behind)) = Len(Tail(buffer) \o Behind)
    BY <2>2, <2>5, <2>6, <2>7
  <2>10. Tail(buffer \o Behind) = Tail(buffer) \o Behind
    BY ONLY <2>6, <2>7, <2>8, <2>9, SeqEqual
  <2>11. (buffer \o Behind)[1] = buffer[1]
    BY ONLY <2>2
  <2>12. QED
    BY ONLY <2>3, <2>4, <2>10, <2>11
<1>4. StreamState # "ended"
  BY <1>1 DEF StreamState
<1>5. Stream!Read
  BY <1>1, <1>2, <1>3, <1>4 DEF Stream!Read
<1>6. QED
  BY <1>5 DEF Stream!Next

\* Appending to the second part of a sequence appends to the whole.
LEMMA AppendToConcat ==
    ASSUME NEW S, NEW s \in Seq(S), NEW t \in Seq(S), NEW e \in S
    PROVE  s \o Append(t, e) = Append(s \o t, e)
<1>1. s \o t \in Seq(S) /\ <<e>> \in Seq(S)
  BY ConcatProperties
<1>2. Append(t, e) = t \o <<e>> /\ Append(s \o t, e) = (s \o t) \o <<e>>
  BY <1>1, AppendIsConcat
<1>3. (s \o t) \o <<e>> = s \o (t \o <<e>>)
  BY <1>1, ConcatAssociative
<1>4. QED
  BY ONLY <1>2, <1>3

LEMMA OpenArrive ==
    ASSUME IInv, EndIsFinal, chan_open, Arrive
    PROVE  Stream!Next
<1>1. /\ consumer # "ended" /\ consumer' # "ended" /\ InHand' = InHand /\ chan_open' /\ Active' = Active
      /\ buffer' = buffer /\ pending' = Append(pending, arrived') /\ arrived' = arrived + 1
      /\ UNCHANGED <<received, StreamState>>
  BY DEF EndIsFinal, Arrive, InHand, Active, StreamState, chanVars, loopVars, consumerVars
<1>2. CASE Active
  <2>1. /\ buffer \in Seq(Nat) /\ InHand \in Seq(Nat) /\ pending \in Seq(Nat) /\ arrived' \in Nat
    <3>1. Messages \subseteq Nat /\ arrived \in Nat
      BY Parts DEF Messages, IInv
    <3>2. arrived' \in Nat
      BY <1>1, <3>1
    <3>3. QED
      BY <3>1, <3>2, SeqMonotonic, Parts DEF IInv
  <2>2. (buffer \o InHand) \o Append(pending, arrived') = Append((buffer \o InHand) \o pending, arrived')
    <3>1. buffer \o InHand \in Seq(Nat)
      BY ONLY <2>1, ConcatProperties
    <3>2. QED
      BY ONLY <2>1, <3>1, AppendToConcat
  <2>3. Deliverable' = Append(Deliverable, arrived')
    BY <1>1, <1>2, <2>2 DEF Deliverable
  <2>4. StreamState = "open"
    BY <1>1, <1>2 DEF StreamState
  <2>5. QED
    BY <1>1, <2>3, <2>4 DEF Stream!Next, Stream!Accept
<1>3. CASE ~Active
  <2>1. Deliverable' = Deliverable /\ StreamState # "open"
    BY <1>1, <1>3 DEF Deliverable, StreamState
  <2>2. QED
    BY <1>1, <2>1 DEF Stream!Next, Stream!Ignore
<1>4. QED
  BY <1>2, <1>3

\* While the channel is open, a step that moves no message and ends nothing is hidden.
LEMMA Hidden ==
    ASSUME UNCHANGED <<buffer, msg, pending, arrived, received, consumer, chan_open, Active>>
    PROVE  UNCHANGED StreamVars
BY DEF StreamVars, Deliverable, StreamState, InHand

LEMMA OpenLoop ==
    ASSUME IInv, EndIsFinal, chan_open, Loop
    PROVE  Stream!Next \/ UNCHANGED StreamVars
<1>1. CASE CheckStopping
  <2>1. UNCHANGED <<buffer, msg, pending, arrived, received, consumer, chan_open, nsub>>
    BY <1>1 DEF CheckStopping, subVars, chanVars, consumerVars
  <2>2. ~Active' \/ Active' = Active
    BY <1>1, <2>1 DEF CheckStopping, Active
  <2>3. QED
    BY <2>1, <2>2, OpenCut, Hidden
<1>2. CASE NextMsg \/ Send
  BY <1>2, MovesOn
<1>3. CASE NextNothing
  <2>1. UNCHANGED <<buffer, msg, pending, arrived, received, consumer, chan_open, Active>>
    BY <1>3 DEF NextNothing, subVars, chanVars, consumerVars, Active
  <2>2. QED
    BY <2>1, Hidden
<1>4. CASE NextFails
  <2>1. UNCHANGED <<buffer, msg, arrived, received, consumer, chan_open>> /\ ~Active'
    BY <1>4 DEF NextFails, AfterError, subVars, chanVars, consumerVars, Active
  <2>2. QED
    BY <2>1, OpenCut
<1>5. CASE SendFails
  BY <1>5 DEF SendFails
<1>6. CASE Exit
  <2>1. UNCHANGED <<buffer, arrived, received, consumer>> /\ ~chan_open'
    BY <1>6 DEF Exit, CloseOnExit, subVars, consumerVars
  <2>2. QED
    BY <2>1, CloseCut
<1>7. QED
  BY <1>1, <1>2, <1>3, <1>4, <1>5, <1>6 DEF Loop

LEMMA OpenCaller ==
    ASSUME IInv, EndIsFinal, chan_open, NEW c \in Caller, CallerStep(c)
    PROVE  Stream!Next \/ UNCHANGED StreamVars
<1>1. CASE Unsubscribe(c)
  <2>1. UNCHANGED <<buffer, msg, arrived, received, consumer, chan_open, loop>>
    BY <1>1 DEF Unsubscribe, chanVars, loopVars, consumerVars
  <2>2. ~Active' \/ (UNCHANGED pending /\ Active' = Active)
    BY <1>1, <2>1 DEF Unsubscribe, Active
  <2>3. QED
    BY <2>1, <2>2, OpenCut, Hidden
<1>2. CASE CloseChannel(c)
  <2>1. UNCHANGED <<buffer, arrived, received, consumer>> /\ ~chan_open'
    BY <1>2 DEF CloseChannel, CloseChan, subVars, consumerVars
  <2>2. QED
    BY <2>1, CloseCut
<1>3. CASE Close(c) \/ CloseAgain(c) \/ Drain(c) \/ DrainSubscription(c)
  <2>1. UNCHANGED <<buffer, msg, pending, arrived, received, consumer, chan_open, Active>>
    BY <1>3 DEF Close, CloseAgain, Drain, DrainSubscription, subVars, chanVars, loopVars, consumerVars, Active
  <2>2. QED
    BY <2>1, Hidden
<1>4. QED
  BY <1>1, <1>2, <1>3 DEF CallerStep, Calls

LEMMA OpenOther ==
    ASSUME IInv, EndIsFinal, chan_open, OtherStep
    PROVE  Stream!Next \/ UNCHANGED StreamVars
<1>1. CASE ReceiveNothing
  BY <1>1 DEF ReceiveNothing
<1>2. CASE ConnectionDrains
  <2>1. UNCHANGED <<buffer, msg, pending, arrived, received, consumer, chan_open, Active>>
    BY <1>2 DEF ConnectionDrains, chanVars, loopVars, consumerVars, Active
  <2>2. QED
    BY <2>1, Hidden
<1>3. CASE SubscriptionEnds \/ ConnectionCloses
  <2>1. UNCHANGED <<buffer, msg, arrived, received, consumer, chan_open>> /\ ~Active'
    BY <1>3 DEF SubscriptionEnds, ConnectionCloses, chanVars, loopVars, consumerVars, Active
  <2>2. QED
    BY <2>1, OpenCut
<1>4. QED
  BY <1>1, <1>2, <1>3, OpenRead, OpenArrive DEF OtherStep, Consume

LEMMA OpenRaises ==
    ASSUME IInv, EndIsFinal, chan_open, SendRaises
    PROVE  Stream!Next
<1>1. msg' = None /\ ~Active' /\ UNCHANGED <<buffer, arrived, received, consumer>>
  BY DEF SendRaises, AfterError, Active, subVars, chanVars, consumerVars
<1>2. QED
  BY <1>1, CloseCut

LEMMA StreamStep == IInv /\ EndIsFinal /\ [Next]_vars => [Stream!Next]_(Stream!vars)
<1> SUFFICES ASSUME IInv, EndIsFinal, [Next]_vars
             PROVE  Stream!Next \/ UNCHANGED StreamVars
  BY DEF Stream!vars, StreamVars
<1>1. CASE UNCHANGED vars
  BY <1>1, Hidden DEF vars, subVars, chanVars, loopVars, consumerVars, Active
<1>2. CASE Next
  BY <1>2, ClosedStep, OpenLoop, OpenRaises, OpenCaller, OpenOther DEF Next, CallerStep, OtherStep
<1>3. QED
  BY <1>1, <1>2

LEMMA StreamInit == Init => Stream!Init
<1> SUFFICES ASSUME Init PROVE Stream!Init
  OBVIOUS
<1>1. InHand = <<>> /\ Active /\ chan_open /\ consumer = "reading"
  BY DEF Init, InHand, Active
<1>2. Deliverable = <<>> /\ StreamState = "open"
  <2>1. (<<>> \o <<>>) \o <<>> = <<>>
    BY ConcatEmptySeq, EmptySeq
  <2>2. QED
    BY <1>1, <2>1 DEF Init, Deliverable, StreamState
<1>3. QED
  BY <1>2 DEF Init, Stream!Init

\* Whoever reads the channel reads a MessageStream: in order, with nothing lost but an end that
\* is cut off, and with an end that is reported after the last message and is final, for any
\* size of the channel and however the threads interleave.
THEOREM MessageStreamImplemented == Spec => ImplementsMessageStream
<1>1. Spec => [](IInv /\ EndIsFinal)
  BY InitInv, NextInv, EndInit, EndNext, PTL DEF Spec
<1>2. QED
  BY <1>1, StreamInit, StreamStep, PTL DEF Spec, ImplementsMessageStream, Stream!Spec

-----------------------------------------------------------------------------
(* What the threads bring about as they go on.  ENABLED has no proof rules here, so that   *)
(* weak fairness is stated with the guard of the action written out.                       *)

\* bgLoop() can take a step: it was not left, and does not wait for room in the channel.
LoopReady == loop # "done" /\ ~(chan_open /\ Blocked)
LoopRuns == []<>~LoopReady \/ []<><<Loop>>_vars

\* A call under way goes on.
SomeCall == \E c \in Caller : Calls(c)
CallReady == \E c \in Caller : call[c] # "idle"
CallsRun == []<>~CallReady \/ []<><<SomeCall>>_vars

\* The two are what the fairness of the specification says of the actions.
LEMMA FairLoop == WF_vars(Loop) /\ [](LoopReady => ENABLED <<Loop>>_vars) => LoopRuns
BY PTL DEF LoopRuns

LEMMA FairCalls ==
    WF_vars(SomeCall) /\ [](CallReady => ENABLED <<SomeCall>>_vars) => CallsRun
BY PTL DEF CallsRun

\* bgLoop() leaves its loop only through its on_exit block, which closes the channel.
LeftClosed == loop = "done" => ~chan_open

LEMMA LeftInit == Init => LeftClosed
BY DEF Init, LeftClosed

LEMMA LeftNext == LeftClosed /\ [Next]_vars => LeftClosed'
BY DEF LeftClosed, Next, Loop, CheckStopping, NextMsg, NextNothing, NextFails, AfterError, Send,
   SendFails, AfterClosed, SendRaises, Exit, CloseOnExit, Calls, Close, CloseAgain, Drain, Unsubscribe,
   CloseChannel, CloseChan, DrainSubscription, Consume, Receive, ReceiveNothing, Arrive,
   ConnectionDrains, SubscriptionEnds, ConnectionCloses, vars, subVars, chanVars, loopVars,
   stopVars, consumerVars

\* Where bgLoop() is while a lost connection is not reported yet.
Unreported(places) ==
    TypeOK /\ LeftClosed /\ nsub = "lost" /\ chan_open /\ ~Blocked /\ loop \in places

LEMMA LostStays == nsub = "lost" /\ [Next]_vars => (nsub = "lost")'
BY DEF Next, Loop, CheckStopping, NextMsg, NextNothing, NextFails, Send, SendFails, SendRaises, Exit, Calls,
   Close, CloseAgain, Drain, Unsubscribe, CloseChannel, DrainSubscription, Consume, Receive, ReceiveNothing,
   Arrive, ConnectionDrains, SubscriptionEnds, ConnectionCloses, vars, subVars, chanVars, loopVars,
   stopVars, consumerVars

\* A step of another thread leaves bgLoop() where it is.
LEMMA LoopWaits == [Next]_vars => Loop \/ SendRaises \/ loop' = loop
BY DEF Next, Calls, Close, CloseAgain, Drain, Unsubscribe, CloseChannel, DrainSubscription, Consume,
   Receive, ReceiveNothing, Arrive, ConnectionDrains, SubscriptionEnds, ConnectionCloses, vars,
   loopVars

LEMMA LoopMoves == TypeOK /\ (Loop \/ SendRaises) /\ nsub = "lost" =>
    \/ loop = "send" /\ loop' \in {"check", "exit"}
    \/ loop = "check" /\ loop' \in {"next", "exit"}
    \/ loop = "next" /\ loop' = "exit"
    \/ loop = "exit" /\ ~chan_open'
BY DEF Loop, CheckStopping, NextMsg, NextNothing, NextFails, AfterError, Send, SendFails,
   AfterClosed, SendRaises, Exit, CloseOnExit

\* When the connection is lost, bgLoop() finds out and closes the channel unless it waits for
\* room in the channel, for any size of the channel and any number of callers, as long as
\* bgLoop()'s thread runs.
THEOREM LossIsReported == Spec /\ LoopRuns => LossReported
<1> DEFINE Found == ~chan_open \/ Blocked
           Sends == Unreported({"send"})
           Checks == Unreported({"check"})
           Nexts == Unreported({"next"})
           Exits == Unreported({"exit"})
<1>1. Spec => [](TypeOK /\ LeftClosed)
  BY TypeCorrect, LeftInit, LeftNext, PTL DEF Spec
<1>2. TypeOK /\ LeftClosed /\ nsub = "lost" => Found \/ Sends \/ Checks \/ Nexts \/ Exits
  BY DEF TypeOK, LeftClosed, Unreported
<1>3. Sends \/ Checks \/ Nexts \/ Exits => LoopReady
  BY DEF LoopReady, Unreported
<1>4. /\ Sends /\ [Next]_vars /\ (TypeOK /\ LeftClosed)' => (Found \/ Sends \/ Checks \/ Exits)'
      /\ Checks /\ [Next]_vars /\ (TypeOK /\ LeftClosed)' => (Found \/ Checks \/ Nexts \/ Exits)'
      /\ Nexts /\ [Next]_vars /\ (TypeOK /\ LeftClosed)' => (Found \/ Nexts \/ Exits)'
      /\ Exits /\ [Next]_vars /\ (TypeOK /\ LeftClosed)' => (Found \/ Exits)'
  BY LostStays, LoopWaits, LoopMoves DEF Unreported
<1>5. /\ Sends /\ <<Loop>>_vars /\ (TypeOK /\ LeftClosed /\ nsub = "lost")' => (Found \/ Checks \/ Exits)'
      /\ Checks /\ <<Loop>>_vars /\ (TypeOK /\ LeftClosed /\ nsub = "lost")' => (Found \/ Nexts \/ Exits)'
      /\ Nexts /\ <<Loop>>_vars /\ (TypeOK /\ LeftClosed /\ nsub = "lost")' => (Found \/ Exits)'
      /\ Exits /\ <<Loop>>_vars => Found'
  BY LoopMoves DEF Unreported
<1> HIDE DEF Found, Sends, Checks, Nexts, Exits
<1>6. Spec /\ LoopRuns => [](nsub = "lost" => <>Found)
  BY <1>1, <1>2, <1>3, <1>4, <1>5, LostStays, PTL DEF Spec, LoopRuns
<1>7. QED
  BY <1>6, PTL DEF LossReported, Found

\* A call of close() that came first is under way until it has closed the channel.
ClosePending ==
    stopped_by = "close" =>
        /\ stopping
        /\ \A c \in Caller : call[c] # "drain"
        /\ ~chan_open \/ CallReady

NotStopped == ~stopping => stopped_by = "none" /\ \A c \in Caller : call[c] = "idle"

LEMMA CloseInit == Init => ClosePending /\ NotStopped
BY DEF Init, ClosePending, NotStopped

LEMMA CloseNext == TypeOK /\ OneCallStops /\ NotStopped /\ ClosePending /\ [Next]_vars
                      => ClosePending' /\ NotStopped'
<1> SUFFICES ASSUME TypeOK, OneCallStops, NotStopped, ClosePending, [Next]_vars
             PROVE  ClosePending' /\ NotStopped'
  OBVIOUS
<1> USE DEF ClosePending, NotStopped, CallReady
<1>0. call \in [Caller -> {"idle", "unsubscribe", "closechannel", "drain"}]
  BY DEF TypeOK
<1>1. CASE UNCHANGED <<stopping, stopped_by, call>> /\ (chan_open' = chan_open \/ ~chan_open')
  BY <1>1
<1>2. ASSUME NEW c \in Caller, Close(c) \/ Drain(c) PROVE ClosePending' /\ NotStopped'
  BY <1>0, <1>2 DEF Close, Drain, FirstCall, chanVars
<1>3. ASSUME NEW c \in Caller, Unsubscribe(c) PROVE ClosePending' /\ NotStopped'
  BY <1>0, <1>3 DEF Unsubscribe, chanVars
<1>4. ASSUME NEW c \in Caller, CloseChannel(c) PROVE ClosePending' /\ NotStopped'
  BY <1>0, <1>4 DEF CloseChannel, CloseChan
<1>5. ASSUME NEW c \in Caller, DrainSubscription(c) PROVE ClosePending' /\ NotStopped'
  BY <1>0, <1>5 DEF DrainSubscription, chanVars
<1>6. CASE Loop \/ SendRaises
  BY <1>1, <1>6 DEF Loop, CheckStopping, NextMsg, NextNothing, NextFails, Send, SendFails, SendRaises, Exit,
     CloseOnExit, chanVars, stopVars
<1>7. CASE \E c \in Caller : CloseAgain(c)
  BY <1>1, <1>7 DEF CloseAgain, chanVars
<1>8. CASE Consume \/ Arrive \/ ConnectionDrains \/ SubscriptionEnds \/ ConnectionCloses \/ UNCHANGED vars
  BY <1>1, <1>8 DEF Consume, Receive, ReceiveNothing, Arrive, ConnectionDrains, SubscriptionEnds,
     ConnectionCloses, vars, chanVars, stopVars
<1>9. QED
  BY <1>2, <1>3, <1>4, <1>5, <1>6, <1>7, <1>8 DEF Next, Calls

\* Where the call of close() is that came first and has not closed the channel yet.
Closing(place) ==
    /\ TypeOK /\ OneCallStops /\ ClosePending
    /\ stopped_by = "close" /\ chan_open
    /\ \E c \in Caller : call[c] = place

\* Where bgLoop() is after the channel was closed.
Stopping(places) == TypeOK /\ stopping /\ ~chan_open /\ loop \in places

\* The call that sets stopping is not replaced by another.
LEMMA StaysClosed ==
    NotStopped /\ [Next]_vars =>
        /\ stopped_by = "close" => stopped_by' = "close"
        /\ stopping => stopping'
        /\ ~chan_open => ~chan_open'
BY DEF NotStopped, Next, Loop, CheckStopping, NextMsg, NextNothing, NextFails, Send, SendFails, SendRaises,
   Exit, CloseOnExit, Calls, Close, FirstCall, CloseAgain, Drain, Unsubscribe, CloseChannel, CloseChan,
   DrainSubscription, Consume, Receive, ReceiveNothing, Arrive, ConnectionDrains,
   SubscriptionEnds, ConnectionCloses, vars, chanVars, stopVars

LEMMA ClosingMoves ==
    ASSUME Closing("unsubscribe") \/ Closing("closechannel"), [Next]_vars, chan_open',
           NEW c \in Caller, call[c] # "idle"
    PROVE  \/ call' = call
           \/ call[c] = "unsubscribe" /\ call'[c] = "closechannel"
<1>0. /\ call \in [Caller -> {"idle", "unsubscribe", "closechannel", "drain"}]
      /\ stopping /\ OneCallStops /\ \A d \in Caller : call[d] # "drain"
  BY DEF Closing, ClosePending, TypeOK
<1>1. CASE \E d \in Caller : Close(d) \/ CloseAgain(d) \/ Drain(d)
  BY <1>0, <1>1 DEF Close, CloseAgain, Drain, FirstCall
<1>2. ASSUME NEW d \in Caller, Calls(d)
      PROVE  call[c] = "unsubscribe" /\ call'[c] = "closechannel"
  BY <1>0, <1>2 DEF Calls, Unsubscribe, CloseChannel, CloseChan, DrainSubscription, OneCallStops
<1>3. CASE Loop \/ SendRaises \/ Consume \/ Arrive \/ ConnectionDrains \/ SubscriptionEnds \/ ConnectionCloses
             \/ UNCHANGED vars
  BY <1>3 DEF Loop, CheckStopping, NextMsg, NextNothing, NextFails, Send, SendFails, SendRaises, Exit,
     Consume, Receive, ReceiveNothing, Arrive, ConnectionDrains, SubscriptionEnds,
     ConnectionCloses, vars, stopVars
<1>4. QED
  BY <1>1, <1>2, <1>3 DEF Next

\* A step of a call that came first brings it on.
LEMMA ClosingCalls ==
    ASSUME Closing("unsubscribe") \/ Closing("closechannel"), SomeCall, chan_open'
    PROVE  Closing("unsubscribe") /\ \E c \in Caller : call'[c] = "closechannel"
<1>0. /\ call \in [Caller -> {"idle", "unsubscribe", "closechannel", "drain"}]
      /\ \A d \in Caller : call[d] # "drain"
  BY DEF Closing, ClosePending, TypeOK
<1>1. PICK c \in Caller : Calls(c)
  BY DEF SomeCall
<1>2. call[c] = "unsubscribe" /\ call'[c] = "closechannel"
  BY <1>0, <1>1 DEF Calls, Unsubscribe, CloseChannel, CloseChan, DrainSubscription
<1>3. QED
  BY <1>2 DEF Closing

LEMMA ClosedLoop == TypeOK /\ (Loop \/ SendRaises) /\ stopping /\ ~chan_open =>
    \/ loop = "next" /\ loop' \in {"send", "check", "exit"}
    \/ loop \in {"send", "check"} /\ loop' = "exit"
    \/ loop = "exit" /\ loop' = "done"
BY DEF Loop, CheckStopping, NextMsg, NextNothing, NextFails, AfterError, Send, SendFails,
   AfterClosed, SendRaises, Exit, CloseOnExit

\* A close() that comes first closes the channel, if the call goes on.
LEMMA CloseCloses == Spec /\ CallsRun => (stopped_by = "close" ~> ~chan_open)
<1> DEFINE Good == TypeOK /\ OneCallStops /\ ClosePending /\ NotStopped
           First == Closing("unsubscribe")
           Second == Closing("closechannel")
           Closed == ~chan_open
           Stopped == stopped_by = "close"
<1>1. Spec => []Good
  BY TypeCorrect, OneCallCorrect, CloseInit, CloseNext, PTL DEF Spec
<1>2. Good /\ Stopped => Closed \/ First \/ Second
  BY DEF Closing, ClosePending, CallReady, TypeOK
<1>3. First \/ Second => CallReady
  BY DEF Closing, CallReady
<1>4. Good /\ Good' /\ Stopped /\ [Next]_vars => Stopped'
  BY StaysClosed
<1>5. Good' /\ Stopped' /\ First /\ [Next]_vars => (Closed \/ First \/ Second)'
  BY <1>2, PTL
<1>6. Good' /\ Stopped' /\ Second /\ [Next]_vars => (Closed \/ Second)'
  <2> SUFFICES ASSUME Good', Stopped', Second, [Next]_vars, chan_open' PROVE Second'
    OBVIOUS
  <2>1. PICK c \in Caller : call[c] = "closechannel"
    BY DEF Closing
  <2>2. call' = call
    BY <2>1, ClosingMoves
  <2>3. QED
    BY <2>1, <2>2 DEF Closing
<1>7. Good' /\ Stopped' /\ First /\ <<SomeCall>>_vars => (Closed \/ Second)'
  BY ClosingCalls DEF Closing
<1>8. Second /\ <<SomeCall>>_vars => Closed'
  <2> SUFFICES ASSUME Second, SomeCall, chan_open' PROVE FALSE
    OBVIOUS
  <2>1. Closing("unsubscribe")
    BY ClosingCalls
  <2>2. PICK c \in Caller, d \in Caller : call[c] = "unsubscribe" /\ call[d] = "closechannel"
    BY <2>1 DEF Closing
  <2>3. QED
    BY <2>1, <2>2 DEF Closing, OneCallStops
<1> HIDE DEF Good, First, Second, Closed, Stopped
<1>9. Spec /\ CallsRun => [](Stopped => <>Closed)
  BY <1>1, <1>2, <1>3, <1>4, <1>5, <1>6, <1>7, <1>8, PTL DEF Spec, CallsRun
<1>10. QED
  BY <1>9, PTL DEF Closed, Stopped

\* After the channel was closed by a call, bgLoop() ends, also if it waited for room in it.
LEMMA ClosedEnds == Spec /\ LoopRuns => ((stopping /\ ~chan_open) ~> loop = "done")
<1> DEFINE Good == TypeOK /\ NotStopped
           Shut == stopping /\ ~chan_open
           Nexts == Stopping({"next"})
           Works == Stopping({"send", "check"})
           Exits == Stopping({"exit"})
           Done == loop = "done"
<1>1. Spec => []Good
  BY TypeCorrect, OneCallCorrect, CloseInit, CloseNext, PTL DEF Spec
<1>2. Good /\ Shut => Nexts \/ Works \/ Exits \/ Done
  BY DEF TypeOK, Stopping
<1>3. Nexts \/ Works \/ Exits => LoopReady
  BY DEF Stopping, LoopReady
<1>4. Good /\ Shut /\ [Next]_vars => Shut'
  BY StaysClosed
<1>5. /\ Good' /\ Shut' /\ Nexts /\ [Next]_vars => (Nexts \/ Works \/ Exits)'
      /\ Good' /\ Shut' /\ Works /\ [Next]_vars => (Works \/ Exits)'
      /\ Good' /\ Shut' /\ Exits /\ [Next]_vars => (Exits \/ Done)'
  BY LoopWaits, ClosedLoop DEF Stopping
<1>6. /\ Good' /\ Shut' /\ Nexts /\ <<Loop>>_vars => (Works \/ Exits)'
      /\ Good' /\ Shut' /\ Works /\ <<Loop>>_vars => Exits'
      /\ Exits /\ <<Loop>>_vars => Done'
  BY ClosedLoop DEF Stopping
<1> HIDE DEF Good, Shut, Nexts, Works, Exits, Done
<1>7. Spec /\ LoopRuns => [](Shut => <>Done)
  BY <1>1, <1>2, <1>3, <1>4, <1>5, <1>6, PTL DEF Spec, LoopRuns
<1>8. QED
  BY <1>7, PTL DEF Shut, Done

\* A close() that comes first ends bgLoop() and leaves the channel closed, wherever bgLoop()
\* was and however full the channel is, for any number of threads that call close() or drain()
\* at the same time, as long as bgLoop()'s thread and the call of close() go on.
THEOREM CloseIsDone == Spec /\ LoopRuns /\ CallsRun => CloseEndsLoop
<1> DEFINE Stopped == stopped_by = "close"
           Closed == ~chan_open
           Done == loop = "done"
<1>1. Spec => [](ClosePending /\ NotStopped /\ LeftClosed)
  <2>1. Spec => [](TypeOK /\ OneCallStops /\ ClosePending /\ NotStopped)
    BY TypeCorrect, OneCallCorrect, CloseInit, CloseNext, PTL DEF Spec
  <2>2. QED
    BY <2>1, LeftInit, LeftNext, PTL DEF Spec
<1>2. ClosePending /\ Stopped => stopping
  BY DEF ClosePending
<1>3. NotStopped /\ Stopped /\ [Next]_vars => Stopped'
  BY StaysClosed
<1>4. LeftClosed /\ Done => Closed
  BY DEF LeftClosed
<1>5. Spec /\ CallsRun => [](Stopped => <>Closed)
  BY CloseCloses, PTL
<1>6. Spec /\ LoopRuns => [](stopping /\ Closed => <>Done)
  BY ClosedEnds, PTL
<1> HIDE DEF Stopped, Closed, Done
<1>7. Spec => [](Stopped => []Stopped)
  BY <1>1, <1>3, PTL DEF Spec
<1>8. Spec => [](Stopped => stopping) /\ [](Done => Closed)
  BY <1>1, <1>2, <1>4, PTL
<1>9. Spec /\ LoopRuns /\ CallsRun => [](Stopped => <>(Done /\ Closed))
  BY <1>5, <1>6, <1>7, <1>8, PTL
<1>10. QED
  BY <1>9, PTL DEF CloseEndsLoop, Stopped, Closed, Done

-----------------------------------------------------------------------------
(* A consumer that goes on reading *)

\* Weak fairness of the consumer, with its guard written out.
ConsumeReady == consumer = "reading" /\ (buffer # <<>> \/ ~chan_open)
ConsumeRuns == []<>~ConsumeReady \/ []<><<Consume>>_vars

LEMMA FairConsumer ==
    WF_vars(Consume) /\ [](ConsumeReady => ENABLED <<Consume>>_vars) => ConsumeRuns
BY PTL DEF ConsumeRuns

\* The subscription was stopped, or is lost: from then on bgLoop() has a number of steps left,
\* and the consumer that of the messages that the channel holds or still gets.
Ending == stopping \/ nsub = "lost"
StepsLeft ==
    IF loop = "done" THEN 0
    ELSE IF loop = "exit" THEN 1
    ELSE IF nsub = "lost"
         THEN IF loop = "next" THEN 2 ELSE IF loop = "check" THEN 3 ELSE 4
         ELSE IF loop = "check" THEN 6 ELSE IF loop = "send" THEN 7 ELSE 8
WorkLeft == 2 * StepsLeft + Len(buffer) + (IF consumer = "reading" THEN 1 ELSE 0)

EInv == TypeOK /\ EndIsFinal /\ LeftClosed

LEMMA WorkIsNat == TypeOK => WorkLeft \in Nat /\ StepsLeft \in Nat /\ Len(buffer) \in Nat
<1>1. StepsLeft \in Nat
  BY DEF StepsLeft
<1>2. TypeOK => Len(buffer) \in Nat
  BY DEF TypeOK, IsMessages
<1>3. QED
  BY <1>1, <1>2 DEF WorkLeft

LEMMA LoopEnds ==
    ASSUME TypeOK, Ending, Loop \/ SendRaises
    PROVE  Ending' /\ WorkLeft' < WorkLeft
<1>0. Len(buffer) \in Nat /\ StepsLeft \in Nat /\ StepsLeft' \in Nat
  <2>1. StepsLeft' \in Nat
    BY DEF StepsLeft
  <2>2. QED
    BY <2>1, WorkIsNat
<1>1. UNCHANGED <<stopping, consumer>> /\ nsub' = nsub
  BY DEF Loop, CheckStopping, NextMsg, NextNothing, NextFails, Send, SendFails, SendRaises, Exit, subVars,
     stopVars, consumerVars
<1>2. StepsLeft' < StepsLeft
  BY <1>1 DEF Ending, StepsLeft, Loop, CheckStopping, NextMsg, NextNothing, NextFails, AfterError,
     Send, SendFails, AfterClosed, SendRaises, Exit
<1>3. buffer' = buffer \/ Len(buffer') = Len(buffer) + 1
  BY DEF Loop, CheckStopping, NextMsg, NextNothing, NextFails, Send, SendFails, SendRaises, Exit, chanVars,
     TypeOK, IsMessages
<1>4. Len(buffer') <= Len(buffer) + 1 /\ Len(buffer') \in Nat
  BY <1>0, <1>3
<1>5. Ending'
  BY <1>1 DEF Ending
<1>6. QED
  BY <1>0, <1>1, <1>2, <1>4, <1>5 DEF WorkLeft

LEMMA ConsumerEnds ==
    ASSUME TypeOK, Ending, Consume
    PROVE  Ending' /\ WorkLeft' < WorkLeft
<1>0. Len(buffer) \in Nat /\ StepsLeft \in Nat
  BY WorkIsNat
<1>1. StepsLeft' = StepsLeft /\ Ending'
  BY DEF Consume, Receive, ReceiveNothing, StepsLeft, Ending, subVars, loopVars, stopVars
<1>2. CASE Receive
  <2>1. Len(buffer') = Len(buffer) - 1 /\ consumer' = consumer
    BY <1>2 DEF Receive, TypeOK, IsMessages
  <2>2. QED
    BY <1>0, <1>1, <2>1 DEF WorkLeft
<1>3. CASE ReceiveNothing
  <2>1. buffer' = buffer /\ consumer = "reading" /\ consumer' = "ended"
    BY <1>3 DEF ReceiveNothing, chanVars
  <2>2. QED
    BY <1>0, <1>1, <2>1 DEF WorkLeft
<1>4. QED
  BY <1>2, <1>3 DEF Consume

\* Nobody else puts off the end: a step of another thread leaves bgLoop() and the channel's
\* messages where they are, and only closes the channel or loses the connection.
LEMMA OthersEnd ==
    ASSUME TypeOK, Ending, [Next]_vars, ~Loop, ~SendRaises, ~Consume
    PROVE  /\ Ending' /\ WorkLeft' <= WorkLeft
           /\ UNCHANGED <<loop, buffer, consumer>>
           /\ ~chan_open => ~chan_open'
<1>0. Len(buffer) \in Nat
  BY WorkIsNat
<1>1. /\ UNCHANGED <<loop, buffer, consumer>>
      /\ stopping => stopping'
      /\ nsub = "lost" => nsub' = "lost"
      /\ ~chan_open => ~chan_open'
  BY DEF Next, Calls, Close, CloseAgain, Drain, Unsubscribe, CloseChannel, CloseChan,
     DrainSubscription, Arrive, ConnectionDrains, SubscriptionEnds, ConnectionCloses, vars,
     subVars, chanVars, loopVars, stopVars, consumerVars
<1>2. StepsLeft' <= StepsLeft /\ StepsLeft \in Nat /\ StepsLeft' \in Nat
  BY <1>1 DEF StepsLeft, TypeOK
<1>3. Ending'
  BY <1>1 DEF Ending
<1>4. WorkLeft' <= WorkLeft
  BY <1>0, <1>1, <1>2 DEF WorkLeft
<1>5. QED
  BY <1>1, <1>3, <1>4

\* As long as the consumer did not see the end, it or bgLoop() has something to do.
LEMMA SomeoneReady ==
    ASSUME EInv, consumer # "ended", ~LoopReady
    PROVE  ConsumeReady
<1>1. CASE loop = "done"
  BY <1>1 DEF EInv, TypeOK, LeftClosed, ConsumeReady
<1>2. CASE chan_open /\ Blocked
  BY <1>2, BufferSizeAssumption DEF EInv, TypeOK, Blocked, ConsumeReady, IsMessages
<1>3. QED
  BY <1>1, <1>2 DEF LoopReady

ComesToEnd(n) ==
    (Ending /\ WorkLeft = n) ~> (consumer = "ended" \/ (Ending /\ WorkLeft < n))

LEMMA EndComes ==
    ASSUME NEW n \in Nat
    PROVE  Spec /\ LoopRuns /\ ConsumeRuns => ComesToEnd(n)
<1> DEFINE At == Ending /\ WorkLeft = n
           Less == Ending /\ WorkLeft < n
           Ended == consumer = "ended"
           LoopTurn == EInv /\ At /\ ~Ended /\ LoopReady
           ReaderTurn == EInv /\ At /\ ~Ended /\ ~LoopReady
<1>1. Spec => []EInv
  BY TypeCorrect, EndInit, EndNext, LeftInit, LeftNext, PTL DEF Spec, EInv
<1>2. EInv /\ At => Ended \/ LoopTurn \/ ReaderTurn
  OBVIOUS
<1>3. /\ LoopTurn => LoopReady
      /\ ReaderTurn => ConsumeReady
  BY SomeoneReady
<1>n. EInv => WorkLeft \in Nat
  BY WorkIsNat DEF EInv
<1>p. EInv' => (WorkLeft \in Nat)'
  BY <1>n, PTL
<1>4. EInv /\ EInv' /\ At /\ [Next]_vars => (At \/ Less)'
  <2> SUFFICES ASSUME EInv, EInv', At, [Next]_vars PROVE Ending' /\ WorkLeft' <= n
    BY <1>p
  <2>1. Ending' /\ WorkLeft' <= WorkLeft
    BY <1>n, <1>p, LoopEnds, ConsumerEnds, OthersEnd DEF EInv
  <2>2. QED
    BY <2>1
<1>5. EInv /\ EInv' /\ LoopTurn /\ [Next]_vars => (Ended \/ LoopTurn \/ Less)'
  <2> SUFFICES ASSUME EInv, EInv', LoopTurn, [Next]_vars, ~Less'
               PROVE  (Ended \/ LoopTurn)'
    OBVIOUS
  <2>1. ~Loop /\ ~SendRaises /\ ~Consume
    BY LoopEnds, ConsumerEnds DEF EInv
  <2>2. UNCHANGED <<loop, buffer, consumer>> /\ (~chan_open => ~chan_open')
    BY <2>1, OthersEnd DEF EInv
  <2>3. LoopReady'
    BY <2>2 DEF LoopReady, Blocked
  <2>4. QED
    BY <1>4, <2>2, <2>3
<1>6. EInv /\ EInv' /\ ReaderTurn /\ [Next]_vars => (Ended \/ LoopTurn \/ ReaderTurn \/ Less)'
  BY <1>4
<1>7. LoopTurn /\ <<Loop>>_vars => Less'
  BY LoopEnds DEF EInv
<1>8. ReaderTurn /\ <<Consume>>_vars => Less'
  BY ConsumerEnds DEF EInv
<1> HIDE DEF At, Less, Ended, LoopTurn, ReaderTurn
<1>9. Spec /\ LoopRuns /\ ConsumeRuns => [](At => <>(Ended \/ Less))
  BY <1>1, <1>2, <1>3, <1>5, <1>6, <1>7, <1>8, PTL DEF Spec, LoopRuns, ConsumeRuns
<1>10. QED
  BY <1>9, PTL DEF ComesToEnd, At, Less, Ended

\* After a drain(), a close() or the loss of the connection, the consumer that goes on reading and
\* bgLoop() come, from any amount of work that they have left, to a smaller one or to the end of
\* the channel, also when bgLoop() waits for room in it: the step from which ConsumerReleased
\* follows by induction on that amount.
THEOREM ConsumerComesToEnd == Spec /\ LoopRuns /\ ConsumeRuns => \A n \in Nat : ComesToEnd(n)
BY EndComes
=============================================================================
