------------------------- MODULE NatsSubscriptionProofs -------------------------
(***************************************************************************)
(* Proofs about NatsSubscription, for any interval, timeouts and bounds.   *)
(*                                                                         *)
(* Two invariants that do not touch each other carry the properties.       *)
(* Times relates the clocks to what the loop still has to wait: elapsed is *)
(* the timeout without remaining, plus the slice that is going on, and     *)
(* late is not more than that slice, unless the C client has been given no *)
(* limit.  Messages says which messages each place holds: the list is the  *)
(* last ones taken, lastMsg is one before.  The end of a call needs        *)
(* neither: it counts the steps that are left.                             *)
(***************************************************************************)
EXTENDS NatsSubscription, SequenceTheorems, TLAPS

Number == Nat \ {NoMsg}

USE DEF NoMsg

-----------------------------------------------------------------------------
(***************************************************************************)
(* Types.                                                                  *)
(***************************************************************************)

ObjectTypes == /\ object \in {"live", "destroyed"} /\ sub \in {"open", "draining", "closed"} /\ limit \in Nat
               /\ arrived \in Nat /\ taken \in Nat /\ marker \in BOOLEAN

WaitTypes ==
    /\ pc \in {"idle", "loop", "wait", "convert"}
    /\ call \in [op : Op \cup {"none"}, timeout : CallTimeout]
    /\ remaining \in Int /\ effective \in Int
    /\ slice \in Nat /\ elapsed \in Nat /\ late \in Nat
    /\ cancelled \in BOOLEAN
    /\ outcome \in {"none", "value", "timeout", "ended", "cancelled", "raised"}

MessageTypes == lastMsg \in Nat /\ live \subseteq Number /\ list \in Seq(Number) /\ result \in Seq(Number)

CallerTypes == /\ returned \in Seq(Number) /\ handed \in Seq(Number)
               /\ acks \in Nat /\ acked \subseteq Number /\ failed \in BOOLEAN

Types == ObjectTypes /\ WaitTypes /\ MessageTypes /\ CallerTypes

LEMMA TypesAreTypeOK == Types => TypeOK
  BY DEF Types, ObjectTypes, WaitTypes, MessageTypes, CallerTypes, TypeOK, Number

LEMMA TimeoutsAreIntegers == CallTimeout \subseteq Int /\ Interval \in Int /\ Interval > 0
  BY TimeoutsAssumption, IntervalAssumption DEF CallTimeout

LEMMA InitTypes == Init => Types
<1> SUFFICES ASSUME Init PROVE Types
  OBVIOUS
<1>1. ObjectTypes
  BY DEF Init, ObjectTypes
<1>2. WaitTypes
  <2>1. NoCall \in [op : Op \cup {"none"}, timeout : CallTimeout]
    BY DEF NoCall, CallTimeout
  <2>2. call \in [op : Op \cup {"none"}, timeout : CallTimeout]
    BY <2>1 DEF Init
  <2>3. /\ pc = "idle" /\ remaining = 0 /\ effective = 0 /\ slice = 0 /\ elapsed = 0 /\ late = 0
        /\ cancelled \in BOOLEAN /\ outcome = "none"
    BY DEF Init
  <2> QED
    BY ONLY <2>2, <2>3 DEF WaitTypes
<1>3. MessageTypes /\ CallerTypes
  BY EmptySeq DEF Init, MessageTypes, CallerTypes, Number
<1> QED
  BY <1>1, <1>2, <1>3 DEF Types

LEMMA BeginTypes == ASSUME Types, NEW op \in Op, NEW timeout \in CallTimeout, Begin(op, timeout) PROVE Types'
<1>1. ObjectTypes'
  BY DEF Types, ObjectTypes, Begin, objectVars, clientVars, waitVars, messageVars, callerVars
<1>2. WaitTypes'
  <2>1. call' \in [op : Op \cup {"none"}, timeout : CallTimeout]
    BY DEF Begin
  <2>2. timeout \in Int
    BY TimeoutsAreIntegers
  <2> QED
    BY <2>1, <2>2 DEF Types, WaitTypes, Begin
<1>3. MessageTypes'
  BY DEF Types, MessageTypes, Begin, objectVars, clientVars, waitVars, messageVars, callerVars
<1>4. CallerTypes'
  BY EmptySeq DEF Types, CallerTypes, Begin
<1> QED
  BY <1>1, <1>2, <1>3, <1>4 DEF Types

LEMMA LoopTopTypes == ASSUME Types, LoopTop PROVE Types'
<1>1. ObjectTypes'
  BY DEF Types, ObjectTypes, LoopTop, Return, objectVars, clientVars, waitVars, messageVars, callerVars
<1>2. WaitTypes'
  <2>1. EffectiveTimeout \in Int
    BY TimeoutsAreIntegers DEF EffectiveTimeout, Capped, Types, WaitTypes
  <2>2. CASE cancelled
    <3>1. /\ pc' = "idle" /\ outcome' = "cancelled" /\ call' = call /\ elapsed' = elapsed
          /\ remaining' = 0 /\ effective' = 0 /\ slice' = 0 /\ late' = 0 /\ cancelled' \in BOOLEAN
      BY <2>2 DEF LoopTop, Return
    <3>2. call \in [op : Op \cup {"none"}, timeout : CallTimeout] /\ elapsed \in Nat
      BY DEF Types, WaitTypes
    <3> QED
      BY ONLY <3>1, <3>2 DEF WaitTypes
  <2>3. CASE ~cancelled
    BY <2>1, <2>3 DEF Types, WaitTypes, LoopTop
  <2> QED
    BY <2>2, <2>3
<1>3. MessageTypes'
  BY DEF Types, MessageTypes, LoopTop, Return, objectVars, clientVars, waitVars, messageVars, callerVars
<1>4. CallerTypes'
  BY DEF Types, CallerTypes, LoopTop, Return, objectVars, clientVars, waitVars, messageVars, callerVars
<1> QED
  BY <1>1, <1>2, <1>3, <1>4 DEF Types

LEMMA SliceEndsTypes == ASSUME Types, SliceEnds PROVE Types'
<1>1. ObjectTypes'
  BY DEF Types, ObjectTypes, SliceEnds, Return, objectVars, clientVars, waitVars, messageVars, callerVars
<1>2. WaitTypes'
  <2>1. Remaining \in Int
    BY DEF Remaining, Subtracted, Types, WaitTypes
  <2> QED
    BY <2>1 DEF Types, WaitTypes, SliceEnds, Return, objectVars
<1>3. MessageTypes'
  BY DEF Types, MessageTypes, SliceEnds, Return, objectVars, clientVars, waitVars, messageVars, callerVars
<1>4. CallerTypes'
  BY DEF Types, CallerTypes, SliceEnds, Return, objectVars, clientVars, waitVars, messageVars, callerVars
<1> QED
  BY <1>1, <1>2, <1>3, <1>4 DEF Types

LEMMA FailsTypes == ASSUME Types, Fails PROVE Types'
<1>1. ObjectTypes'
  BY DEF Types, ObjectTypes, Fails, Return, objectVars, clientVars, waitVars, messageVars, callerVars
<1>2. WaitTypes'
  BY DEF Types, WaitTypes, Fails, Return, objectVars, clientVars, waitVars, messageVars, callerVars
<1>3. MessageTypes'
  BY DEF Types, MessageTypes, Fails, Return, objectVars, clientVars, waitVars, messageVars, callerVars
<1>4. CallerTypes'
  BY DEF Types, CallerTypes, Fails, Return, objectVars, clientVars, waitVars, messageVars, callerVars
<1> QED
  BY <1>1, <1>2, <1>3, <1>4 DEF Types

LEMMA NextMsgTypes == ASSUME Types, NextMsg PROVE Types'
<1>1. ObjectTypes'
  BY DEF Types, ObjectTypes, NextMsg, Return, Hand, RaiseInConversion, objectVars, clientVars, waitVars, messageVars, callerVars
<1>2. WaitTypes'
  BY DEF Types, WaitTypes, NextMsg, Return, Hand, RaiseInConversion, objectVars, clientVars, waitVars, messageVars, callerVars
<1>3. MessageTypes'
  BY DEF Types, ObjectTypes, MessageTypes, Number, NextMsg, AfterReplacing, Replaced
<1>4. CallerTypes'
  <2>0. taken + 1 \in Number
    BY DEF Types, ObjectTypes, Number
  <2>1. <<taken'>> \in Seq(Number)
    BY <2>0 DEF NextMsg
  <2>2. CASE Hand(<<taken'>>)
    BY <2>1, <2>2, ConcatProperties DEF Types, CallerTypes, Hand
  <2>3. CASE RaiseInConversion
    BY <2>3 DEF Types, CallerTypes, RaiseInConversion
  <2> QED
    BY <2>2, <2>3 DEF NextMsg
<1> QED
  BY <1>1, <1>2, <1>3, <1>4 DEF Types

LEMMA FetchTypes == ASSUME Types, Fetch PROVE Types'
<1>1. ObjectTypes'
  BY DEF Types, ObjectTypes, Fetch, objectVars, clientVars, waitVars, messageVars, callerVars
<1>2. WaitTypes'
  BY DEF Types, WaitTypes, Fetch
<1>3. MessageTypes'
  <2>1. PICK n \in 1..MaxBatch : /\ list' = [i \in 1..n |-> taken + i]
                                 /\ live' = live \cup ToSet(list')
    BY DEF Fetch
  <2>2. n \in Nat /\ \A i \in 1..n : taken + i \in Number
    BY DEF Types, ObjectTypes, Number
  <2>3. list' \in Seq(Number)
    BY <2>1, <2>2
  <2>4. ToSet(list') \subseteq Number
    BY <2>3, ElementOfSeq, LenProperties DEF ToSet
  <2> QED
    BY <2>1, <2>3, <2>4, EmptySeq DEF Types, MessageTypes, Fetch
<1>4. CallerTypes'
  BY DEF Types, CallerTypes, Fetch, objectVars, clientVars, waitVars, messageVars, callerVars
<1> QED
  BY <1>1, <1>2, <1>3, <1>4 DEF Types

LEMMA ConvertOneTypes == ASSUME Types, FetchConvert PROVE Types'
<1>1. ObjectTypes'
  BY DEF Types, ObjectTypes, FetchConvert, ConvertOne, objectVars, clientVars, waitVars, messageVars, callerVars
<1>2. WaitTypes'
  BY DEF Types, WaitTypes, FetchConvert, ConvertOne, objectVars, clientVars, waitVars, messageVars, callerVars
<1>3. MessageTypes'
  <2>1. Head(list) \in Number /\ Tail(list) \in Seq(Number)
    BY HeadTailProperties DEF Types, MessageTypes, FetchConvert, ConvertOne
  <2> QED
    BY <2>1, AppendProperties DEF Types, MessageTypes, FetchConvert, ConvertOne, AfterReplacing, Replaced, Number
<1>4. CallerTypes'
  BY DEF Types, CallerTypes, FetchConvert, ConvertOne, objectVars, clientVars, waitVars, messageVars, callerVars
<1> QED
  BY <1>1, <1>2, <1>3, <1>4 DEF Types

LEMMA ConversionRaisesTypes == ASSUME Types, ConversionRaises PROVE Types'
<1>1. ObjectTypes'
  BY DEF Types, ObjectTypes, ConversionRaises, Return, RaiseInConversion, objectVars, clientVars, waitVars, messageVars, callerVars
<1>2. WaitTypes'
  BY DEF Types, WaitTypes, ConversionRaises, Return, RaiseInConversion, objectVars, clientVars, waitVars, messageVars, callerVars
<1>3. MessageTypes'
  <2>1. Head(list) \in Number
    BY HeadTailProperties DEF Types, MessageTypes, ConversionRaises
  <2> QED
    BY <2>1, EmptySeq DEF Types, MessageTypes, ConversionRaises, AfterReplacing, Replaced, Number
<1>4. CallerTypes'
  BY DEF Types, CallerTypes, ConversionRaises, Return, RaiseInConversion, objectVars, clientVars, waitVars, messageVars, callerVars
<1> QED
  BY <1>1, <1>2, <1>3, <1>4 DEF Types

LEMMA FetchReturnTypes == ASSUME Types, FetchReturn PROVE Types'
<1>1. ObjectTypes'
  BY DEF Types, ObjectTypes, FetchReturn, Return, Hand, objectVars, clientVars, waitVars, messageVars, callerVars
<1>2. WaitTypes'
  BY DEF Types, WaitTypes, FetchReturn, Return, Hand, objectVars, clientVars, waitVars, messageVars, callerVars
<1>3. MessageTypes'
  BY EmptySeq DEF Types, MessageTypes, FetchReturn
<1>4. CallerTypes'
  BY ConcatProperties DEF Types, MessageTypes, CallerTypes, FetchReturn, Hand
<1> QED
  BY <1>1, <1>2, <1>3, <1>4 DEF Types

LEMMA WaitingTypes == ASSUME Types, WatcherNext \/ SkipMarker \/ Completes \/ Tick PROVE Types'
<1>1. CASE WatcherNext
  BY <1>1 DEF Types, ObjectTypes, WaitTypes, MessageTypes, CallerTypes, WatcherNext, Return, Advance, objectVars, clientVars, waitVars, messageVars, callerVars
<1>2. CASE SkipMarker
  <2>1. WaitTypes'
    BY <1>2 DEF Types, WaitTypes, SkipMarker
  <2> QED
    BY <1>2, <2>1 DEF Types, ObjectTypes, MessageTypes, CallerTypes, SkipMarker, objectVars, messageVars, callerVars
<1>3. CASE Completes
  BY <1>3 DEF Types, ObjectTypes, WaitTypes, MessageTypes, CallerTypes, Completes, Return, Advance, objectVars, clientVars, waitVars, messageVars, callerVars
<1>4. CASE Tick
  BY <1>4 DEF Types, ObjectTypes, WaitTypes, MessageTypes, CallerTypes, Tick, Return, Advance, objectVars, clientVars, waitVars, messageVars, callerVars
<1> QED
  BY <1>1, <1>2, <1>3, <1>4

LEMMA CallTypes == ASSUME Types, Ack \/ Unsubscribe \/ AutoUnsubscribe \/ Drain \/ Destroy PROVE Types'
<1>1. CASE Ack
  BY <1>1 DEF Types, ObjectTypes, WaitTypes, MessageTypes, CallerTypes, Ack, AfterReplacing, Replaced, Number, objectVars, clientVars, waitVars, messageVars, callerVars
<1>2. CASE Unsubscribe
  BY <1>2 DEF Types, ObjectTypes, WaitTypes, MessageTypes, CallerTypes, Unsubscribe, AfterReplacing, Replaced, Number, objectVars, clientVars, waitVars, messageVars, callerVars
<1>3. CASE AutoUnsubscribe
  BY <1>3 DEF Types, ObjectTypes, WaitTypes, MessageTypes, CallerTypes, AutoUnsubscribe, AfterReplacing, Replaced, Number, objectVars, clientVars, waitVars, messageVars, callerVars
<1>4. CASE Drain
  BY <1>4 DEF Types, ObjectTypes, WaitTypes, MessageTypes, CallerTypes, Drain, AfterReplacing, Replaced, Number, objectVars, clientVars, waitVars, messageVars, callerVars
<1>5. CASE Destroy
  BY <1>5 DEF Types, ObjectTypes, WaitTypes, MessageTypes, CallerTypes, Destroy, AfterReplacing, Replaced, Number, objectVars, clientVars, waitVars, messageVars, callerVars
<1> QED
  BY <1>1, <1>2, <1>3, <1>4, <1>5

LEMMA EnvironmentTypes == ASSUME Types, Arrive \/ DrainComplete \/ Cancel \/ UNCHANGED vars PROVE Types'
<1>1. CASE Arrive
  BY <1>1 DEF Types, ObjectTypes, WaitTypes, MessageTypes, CallerTypes, Arrive, objectVars, clientVars, waitVars, messageVars, callerVars
<1>2. CASE DrainComplete
  BY <1>2 DEF Types, ObjectTypes, WaitTypes, MessageTypes, CallerTypes, DrainComplete, objectVars, clientVars, waitVars, messageVars, callerVars
<1>3. CASE Cancel
  BY <1>3 DEF Types, ObjectTypes, WaitTypes, MessageTypes, CallerTypes, Cancel, objectVars, clientVars, waitVars, messageVars, callerVars
<1>4. CASE UNCHANGED vars
  BY <1>4 DEF Types, ObjectTypes, WaitTypes, MessageTypes, CallerTypes, vars, objectVars, clientVars, waitVars, messageVars, callerVars
<1> QED
  BY <1>1, <1>2, <1>3, <1>4

LEMMA NextTypes == ASSUME Types, [Next]_vars PROVE Types'
<1>1. CASE BeginCall
  BY <1>1, BeginTypes DEF BeginCall
<1>2. CASE Code
  BY <1>2, LoopTopTypes, SliceEndsTypes, ConvertOneTypes, ConversionRaisesTypes, FetchReturnTypes DEF Code
<1>3. CASE NextMsg \/ Fetch \/ WatcherNext \/ SkipMarker \/ Completes \/ Fails \/ Tick
  BY <1>3, NextMsgTypes, FetchTypes, WaitingTypes, FailsTypes
<1>4. CASE Ack \/ Unsubscribe \/ AutoUnsubscribe \/ Drain \/ Destroy
  BY <1>4, CallTypes
<1>5. CASE Arrive \/ DrainComplete \/ Cancel \/ UNCHANGED vars
  BY <1>5, EnvironmentTypes
<1> QED
  BY <1>1, <1>2, <1>3, <1>4, <1>5 DEF Next

LEMMA TypesHold == Spec => []Types
  BY InitTypes, NextTypes, PTL DEF Spec

\* The variables have their types.
THEOREM TypeCorrect == Spec => []TypeOK
  BY TypesHold, TypesAreTypeOK, PTL

-----------------------------------------------------------------------------
(***************************************************************************)
(* The clocks of the wait loops.                                           *)
(***************************************************************************)

\* How much longer a skipped marker has made this call.
Slack == IF call.op = "next" /\ ~marker THEN Interval ELSE 0
LoopSlice == IF pc = "wait" THEN slice ELSE 0

Late ==
    /\ ~cancelled => late = 0
    /\ pc = "wait" => (slice <= effective \/ slice = 0) /\ effective <= Interval
    /\ ~Unlimited => late <= Interval /\ (pc = "wait" => late <= slice)

Timed == call.timeout > 0

Elapsed ==
    Timed =>
        /\ elapsed <= call.timeout + Slack
        /\ pc \in {"loop", "wait"} =>
              /\ remaining > 0
              /\ call.timeout - remaining + LoopSlice <= elapsed
              /\ elapsed <= call.timeout - remaining + LoopSlice + Slack
        /\ pc = "wait" => slice <= effective /\ 0 < effective /\ effective <= remaining
        /\ pc # "idle" => outcome # "timeout"
        /\ outcome = "timeout" => elapsed >= call.timeout

\* A timeout of 0 or less leaves nothing to wait for, unless it means no limit.
Untimed ==
    ~Timed /\ ~Infinite /\ ~Unlimited =>
        /\ elapsed = 0
        /\ pc \in {"loop", "wait"} => remaining <= 0
        /\ pc = "wait" => effective = remaining

Times == Late /\ Elapsed /\ Untimed

LEMMA TypedTimes ==
    ASSUME Types
    PROVE  /\ call.timeout \in Int /\ remaining \in Int /\ effective \in Int
           /\ slice \in Nat /\ elapsed \in Nat /\ Interval \in Int /\ Interval > 0
<1>1. call.timeout \in CallTimeout
  BY DEF Types, WaitTypes
<1> QED
  BY <1>1, TimeoutsAreIntegers DEF Types, WaitTypes

LEMMA InitTimes == Init => Times
  BY TimeoutsAreIntegers DEF Init, Times, Late, Elapsed, Timed, Slack, LoopSlice, Untimed, Unlimited, Infinite, NoCall

LEMMA BeginTimes == ASSUME Types, Times, NEW op \in Op, NEW timeout \in CallTimeout, Begin(op, timeout) PROVE Times'
  BY TimeoutsAreIntegers DEF Types, WaitTypes, Times, Late, Elapsed, Slack, LoopSlice, Timed, Untimed, Unlimited, Infinite, Begin, clientVars

LEMMA CodeTimes == ASSUME Types, Times, LoopTop \/ SliceEnds \/ FetchConvert \/ ConversionRaises \/ FetchReturn PROVE Times'
<1> USE TimeoutsAreIntegers DEF Types, WaitTypes, ObjectTypes
<1>0. /\ call.timeout \in Int /\ remaining \in Int /\ effective \in Int
      /\ slice \in Nat /\ elapsed \in Nat /\ Interval \in Int /\ Interval > 0
  BY TypedTimes
<1>1. CASE LoopTop
  <2>1. Late'
    BY <1>1 DEF Times, Late, Unlimited, LoopTop, Return, EffectiveTimeout, Capped, Remaining, Subtracted, Infinite, ConvertOne, RaiseInConversion, objectVars, clientVars, waitVars, messageVars, callerVars
  <2>2. Elapsed'
    <3> SUFFICES ASSUME Timed PROVE Elapsed'
      BY <1>0, <1>1 DEF Elapsed, Timed, LoopTop, Return
    <3>1. CASE cancelled
      <4>1. pc' = "idle" /\ outcome' = "cancelled" /\ call' = call /\ elapsed' = elapsed /\ marker' = marker
        BY <1>0, <1>1, <3>1 DEF LoopTop, Return, clientVars
      <4> QED
        BY <1>0, <4>1 DEF Times, Elapsed, Timed, Slack
    <3>2. CASE ~cancelled
      <4>1. /\ pc = "loop" /\ pc' = "wait" /\ outcome' = outcome /\ call' = call /\ elapsed' = elapsed
            /\ marker' = marker /\ remaining' = remaining /\ slice' = 0 /\ effective' = EffectiveTimeout
        BY <1>0, <1>1, <3>2 DEF LoopTop, clientVars
      <4>2. remaining > 0 /\ effective' <= remaining /\ effective' > 0
        BY <1>0, <4>1 DEF Times, Elapsed, EffectiveTimeout, Capped, Infinite, Timed
      <4>3. LoopSlice = 0 /\ LoopSlice' = 0 /\ Slack' = Slack /\ effective' \in Int
        BY <1>0, <4>1, <4>2 DEF LoopSlice, Slack, EffectiveTimeout, Capped
      <4>4. /\ elapsed <= call.timeout + Slack /\ outcome # "timeout"
            /\ call.timeout - remaining + LoopSlice <= elapsed
            /\ elapsed <= call.timeout - remaining + LoopSlice + Slack
        BY <4>1 DEF Times, Elapsed
      <4> QED
        BY <1>0, <4>1, <4>2, <4>3, <4>4 DEF Elapsed, Timed
    <3> QED
      BY <1>0, <3>1, <3>2
  <2>3. Untimed'
    BY <1>0, <1>1 DEF Times, Untimed, Timed, Infinite, Unlimited, LoopTop, Return, RaiseInConversion, ConvertOne, CanTake, Advance, EffectiveTimeout, Capped, Remaining, Subtracted, NoDeadline, objectVars, clientVars, waitVars, messageVars, callerVars
  <2> QED
    BY <2>1, <2>2, <2>3 DEF Times
<1>2. CASE SliceEnds
  <2>1. Late'
    BY <1>2 DEF Times, Late, Unlimited, SliceEnds, Return, EffectiveTimeout, Capped, Remaining, Subtracted, Infinite, ConvertOne, RaiseInConversion, objectVars, clientVars, waitVars, messageVars, callerVars
  <2>2. Elapsed'
    <3> SUFFICES ASSUME Timed PROVE Elapsed'
      BY <1>0, <1>2 DEF Elapsed, Timed, SliceEnds, Return
    <3>1. /\ call' = call /\ elapsed' = elapsed /\ marker' = marker /\ pc = "wait" /\ slice >= effective
          /\ Remaining = remaining - effective
      BY <1>0, <1>2 DEF SliceEnds, Return, clientVars, Remaining, Subtracted, Infinite, Timed
    <3>2. /\ elapsed <= call.timeout + Slack /\ slice = effective
          /\ call.timeout - (remaining - effective) <= elapsed
          /\ elapsed <= call.timeout - (remaining - effective) + Slack
          /\ outcome # "timeout"
      BY <1>0, <3>1 DEF Times, Elapsed, LoopSlice, Slack
    <3>3. CASE Remaining <= 0
      <4>1. pc' = "idle" /\ elapsed >= call.timeout
        BY <1>0, <1>2, <3>1, <3>2, <3>3 DEF SliceEnds, Return, Infinite, Timed, Slack
      <4> QED
        BY <1>0, <3>1, <3>2, <4>1 DEF Elapsed, Timed, Slack
    <3>4. CASE ~(Remaining <= 0)
      <4>1. pc' = "loop" /\ remaining' = remaining - effective /\ outcome' = outcome /\ remaining - effective > 0
        BY <1>0, <1>2, <3>1, <3>4 DEF SliceEnds
      <4> QED
        BY <1>0, <3>1, <3>2, <4>1 DEF Elapsed, Timed, Slack, LoopSlice
    <3> QED
      BY <1>0, <3>3, <3>4
  <2>3. Untimed'
    BY <1>0, <1>2 DEF Times, Untimed, Timed, Infinite, Unlimited, SliceEnds, Return, RaiseInConversion, ConvertOne, CanTake, Advance, EffectiveTimeout, Capped, Remaining, Subtracted, NoDeadline, objectVars, clientVars, waitVars, messageVars, callerVars
  <2> QED
    BY <2>1, <2>2, <2>3 DEF Times
<1>3. CASE FetchConvert
  <2>1. Late'
    BY <1>3 DEF Times, Late, Unlimited, FetchConvert, Return, EffectiveTimeout, Capped, Remaining, Subtracted, Infinite, ConvertOne, RaiseInConversion, objectVars, clientVars, waitVars, messageVars, callerVars
  <2>2. Elapsed'
    BY <1>3 DEF Times, Late, Unlimited, Elapsed, Slack, LoopSlice, Timed, FetchConvert, Return, EffectiveTimeout, Capped, Remaining, Subtracted, Infinite, ConvertOne, RaiseInConversion, objectVars, clientVars, waitVars, messageVars, callerVars
  <2>3. Untimed'
    BY <1>0, <1>3 DEF Times, Untimed, Timed, Infinite, Unlimited, FetchConvert, Return, RaiseInConversion, ConvertOne, CanTake, Advance, EffectiveTimeout, Capped, Remaining, Subtracted, NoDeadline, objectVars, clientVars, waitVars, messageVars, callerVars
  <2> QED
    BY <2>1, <2>2, <2>3 DEF Times
<1>4. CASE ConversionRaises
  <2>1. Late'
    BY <1>4 DEF Times, Late, Unlimited, ConversionRaises, Return, EffectiveTimeout, Capped, Remaining, Subtracted, Infinite, ConvertOne, RaiseInConversion, objectVars, clientVars, waitVars, messageVars, callerVars
  <2>2. Elapsed'
    BY <1>4 DEF Times, Late, Unlimited, Elapsed, Slack, LoopSlice, Timed, ConversionRaises, Return, EffectiveTimeout, Capped, Remaining, Subtracted, Infinite, ConvertOne, RaiseInConversion, objectVars, clientVars, waitVars, messageVars, callerVars
  <2>3. Untimed'
    BY <1>0, <1>4 DEF Times, Untimed, Timed, Infinite, Unlimited, ConversionRaises, Return, RaiseInConversion, ConvertOne, CanTake, Advance, EffectiveTimeout, Capped, Remaining, Subtracted, NoDeadline, objectVars, clientVars, waitVars, messageVars, callerVars
  <2> QED
    BY <2>1, <2>2, <2>3 DEF Times
<1>5. CASE FetchReturn
  <2>1. Late'
    BY <1>5 DEF Times, Late, Unlimited, FetchReturn, Return, EffectiveTimeout, Capped, Remaining, Subtracted, Infinite, ConvertOne, RaiseInConversion, objectVars, clientVars, waitVars, messageVars, callerVars
  <2>2. Elapsed'
    BY <1>5 DEF Times, Late, Unlimited, Elapsed, Slack, LoopSlice, Timed, FetchReturn, Return, EffectiveTimeout, Capped, Remaining, Subtracted, Infinite, ConvertOne, RaiseInConversion, objectVars, clientVars, waitVars, messageVars, callerVars
  <2>3. Untimed'
    BY <1>0, <1>5 DEF Times, Untimed, Timed, Infinite, Unlimited, FetchReturn, Return, RaiseInConversion, ConvertOne, CanTake, Advance, EffectiveTimeout, Capped, Remaining, Subtracted, NoDeadline, objectVars, clientVars, waitVars, messageVars, callerVars
  <2> QED
    BY <2>1, <2>2, <2>3 DEF Times
<1> QED
  BY <1>1, <1>2, <1>3, <1>4, <1>5

LEMMA WaitingTimes == ASSUME Types, Times, NextMsg \/ Fetch \/ WatcherNext \/ SkipMarker \/ Completes \/ Fails \/ Tick PROVE Times'
<1> USE TimeoutsAreIntegers DEF Types, WaitTypes, ObjectTypes
<1>0. /\ call.timeout \in Int /\ remaining \in Int /\ effective \in Int
      /\ slice \in Nat /\ elapsed \in Nat /\ Interval \in Int /\ Interval > 0
  BY TypedTimes
<1>1. CASE NextMsg
  <2>1. Late'
    BY <1>1 DEF Times, Late, Unlimited, NextMsg, Return, CanTake, RaiseInConversion, Advance, objectVars, clientVars, waitVars, messageVars, callerVars
  <2>2. Elapsed'
    BY <1>1 DEF Times, Late, Unlimited, Elapsed, Slack, LoopSlice, Timed, NextMsg, Return, CanTake, RaiseInConversion, Advance, objectVars, clientVars, waitVars, messageVars, callerVars
  <2>3. Untimed'
    BY <1>0, <1>1 DEF Times, Untimed, Timed, Infinite, Unlimited, NextMsg, Return, RaiseInConversion, ConvertOne, CanTake, Advance, EffectiveTimeout, Capped, Remaining, Subtracted, NoDeadline, objectVars, clientVars, waitVars, messageVars, callerVars
  <2> QED
    BY <2>1, <2>2, <2>3 DEF Times
<1>2. CASE Fetch
  <2>1. Late'
    BY <1>2 DEF Times, Late, Unlimited, Fetch, Return, CanTake, RaiseInConversion, Advance, objectVars, clientVars, waitVars, messageVars, callerVars
  <2>2. Elapsed'
    BY <1>2 DEF Times, Late, Unlimited, Elapsed, Slack, LoopSlice, Timed, Fetch, Return, CanTake, RaiseInConversion, Advance, objectVars, clientVars, waitVars, messageVars, callerVars
  <2>3. Untimed'
    BY <1>0, <1>2 DEF Times, Untimed, Timed, Infinite, Unlimited, Fetch, Return, RaiseInConversion, ConvertOne, CanTake, Advance, EffectiveTimeout, Capped, Remaining, Subtracted, NoDeadline, objectVars, clientVars, waitVars, messageVars, callerVars
  <2> QED
    BY <2>1, <2>2, <2>3 DEF Times
<1>3. CASE WatcherNext
  <2>1. Late'
    BY <1>3 DEF Times, Late, Unlimited, WatcherNext, Return, CanTake, RaiseInConversion, Advance, objectVars, clientVars, waitVars, messageVars, callerVars
  <2>2. Elapsed'
    BY <1>3 DEF Times, Late, Unlimited, Elapsed, Slack, LoopSlice, Timed, WatcherNext, Return, CanTake, RaiseInConversion, Advance, objectVars, clientVars, waitVars, messageVars, callerVars
  <2>3. Untimed'
    BY <1>0, <1>3 DEF Times, Untimed, Timed, Infinite, Unlimited, WatcherNext, Return, RaiseInConversion, ConvertOne, CanTake, Advance, EffectiveTimeout, Capped, Remaining, Subtracted, NoDeadline, objectVars, clientVars, waitVars, messageVars, callerVars
  <2> QED
    BY <2>1, <2>2, <2>3 DEF Times
<1>4. CASE SkipMarker
  <2>1. Late'
    BY <1>4 DEF Times, Late, Unlimited, SkipMarker, Return, CanTake, RaiseInConversion, Advance, objectVars, clientVars, waitVars, messageVars, callerVars
  <2>2. Elapsed'
    <3> SUFFICES ASSUME Timed PROVE Elapsed'
      BY <1>0, <1>4 DEF Elapsed, Timed, SkipMarker
    <3>1. /\ call' = call /\ elapsed' = elapsed /\ pc = "wait" /\ call.op = "next" /\ marker /\ ~marker'
          /\ pc' = "loop" /\ remaining' = remaining /\ outcome' = outcome
      BY <1>0, <1>4 DEF SkipMarker
    <3>2. Slack = 0 /\ Slack' = Interval /\ LoopSlice = slice /\ LoopSlice' = 0
      BY <1>0, <3>1 DEF Slack, LoopSlice
    <3>3. slice <= Interval
      BY <1>0, <3>1 DEF Times, Late
    <3>4. /\ remaining > 0 /\ call.timeout - remaining + slice <= elapsed /\ outcome # "timeout"
          /\ elapsed <= call.timeout - remaining + slice
      BY <1>0, <3>1, <3>2 DEF Times, Elapsed
    <3> QED
      BY <1>0, <3>1, <3>2, <3>3, <3>4 DEF Elapsed, Timed
  <2>3. Untimed'
    BY <1>0, <1>4 DEF Times, Untimed, Timed, Infinite, Unlimited, SkipMarker, Return, RaiseInConversion, ConvertOne, CanTake, Advance, EffectiveTimeout, Capped, Remaining, Subtracted, NoDeadline, objectVars, clientVars, waitVars, messageVars, callerVars
  <2> QED
    BY <2>1, <2>2, <2>3 DEF Times
<1>5. CASE Completes
  <2>1. Late'
    BY <1>5 DEF Times, Late, Unlimited, Completes, Return, CanTake, RaiseInConversion, Advance, objectVars, clientVars, waitVars, messageVars, callerVars
  <2>2. Elapsed'
    BY <1>5 DEF Times, Late, Unlimited, Elapsed, Slack, LoopSlice, Timed, Completes, Return, CanTake, RaiseInConversion, Advance, objectVars, clientVars, waitVars, messageVars, callerVars
  <2>3. Untimed'
    BY <1>0, <1>5 DEF Times, Untimed, Timed, Infinite, Unlimited, Completes, Return, RaiseInConversion, ConvertOne, CanTake, Advance, EffectiveTimeout, Capped, Remaining, Subtracted, NoDeadline, objectVars, clientVars, waitVars, messageVars, callerVars
  <2> QED
    BY <2>1, <2>2, <2>3 DEF Times
<1>6. CASE Fails
  <2>1. Late'
    BY <1>6 DEF Times, Late, Unlimited, Fails, Return, CanTake, RaiseInConversion, Advance, objectVars, clientVars, waitVars, messageVars, callerVars
  <2>2. Elapsed'
    BY <1>6 DEF Times, Late, Unlimited, Elapsed, Slack, LoopSlice, Timed, Fails, Return, CanTake, RaiseInConversion, Advance, objectVars, clientVars, waitVars, messageVars, callerVars
  <2>3. Untimed'
    BY <1>0, <1>6 DEF Times, Untimed, Timed, Infinite, Unlimited, Fails, Return, RaiseInConversion, ConvertOne, CanTake, Advance, EffectiveTimeout, Capped, Remaining, Subtracted, NoDeadline, objectVars, clientVars, waitVars, messageVars, callerVars
  <2> QED
    BY <2>1, <2>2, <2>3 DEF Times
<1>7. CASE Tick
  <2>0. pc = "wait" /\ ~Unlimited => ~NoDeadline
    BY <1>0 DEF Times, Elapsed, Timed, Unlimited, NoDeadline
  <2>1. Late'
    BY <1>0, <1>7, <2>0 DEF Times, Late, Unlimited, Tick, Advance
  <2>2. Elapsed'
    <3> SUFFICES ASSUME Timed PROVE Elapsed'
      BY <1>0, <1>7 DEF Elapsed, Timed, Tick
    <3>1. /\ call' = call /\ pc = "wait" /\ pc' = pc /\ slice < effective /\ slice' = slice + 1 /\ marker' = marker
          /\ remaining' = remaining /\ effective' = effective /\ outcome' = outcome
          /\ elapsed' = Advance(elapsed, call.timeout + Interval)
      <4>1. ~NoDeadline /\ ~Infinite
        BY <1>0, <1>7, <2>0 DEF Tick, Timed, Unlimited, Infinite
      <4> QED
        BY <1>0, <1>7, <4>1 DEF Tick, clientVars
    <3>2. /\ remaining > 0 /\ call.timeout - remaining + slice <= elapsed /\ outcome # "timeout"
          /\ elapsed <= call.timeout - remaining + slice + Slack /\ effective <= remaining
          /\ elapsed <= call.timeout + Slack /\ Slack \in 0..Interval
      BY <1>0, <3>1 DEF Times, Elapsed, LoopSlice, Slack
    <3>3. Slack' = Slack /\ LoopSlice' = slice + 1
      BY <1>0, <3>1 DEF Slack, LoopSlice
    <3>4. elapsed' = elapsed + 1
      BY <1>0, <3>1, <3>2 DEF Advance
    <3> QED
      BY <1>0, <3>1, <3>2, <3>3, <3>4 DEF Elapsed, Timed
  <2>3. Untimed'
    BY <1>0, <1>7 DEF Times, Untimed, Timed, Infinite, Unlimited, Tick, Return, RaiseInConversion, ConvertOne, CanTake, Advance, EffectiveTimeout, Capped, Remaining, Subtracted, NoDeadline, objectVars, clientVars, waitVars, messageVars, callerVars
  <2> QED
    BY <2>1, <2>2, <2>3 DEF Times
<1> QED
  BY <1>1, <1>2, <1>3, <1>4, <1>5, <1>6, <1>7

LEMMA CallTimes == ASSUME Types, Times, Ack \/ Unsubscribe \/ AutoUnsubscribe \/ Drain \/ Destroy PROVE Times'
<1> USE TimeoutsAreIntegers DEF Types, WaitTypes, ObjectTypes
<1>0. /\ call.timeout \in Int /\ remaining \in Int /\ effective \in Int
      /\ slice \in Nat /\ elapsed \in Nat /\ Interval \in Int /\ Interval > 0
  BY TypedTimes
<1>1. CASE Ack
  <2>1. Late'
    BY <1>1 DEF Times, Late, Unlimited, Ack, objectVars, clientVars, waitVars, messageVars, callerVars
  <2>2. Elapsed'
    BY <1>1 DEF Times, Late, Unlimited, Elapsed, Slack, LoopSlice, Timed, Ack, objectVars, clientVars, waitVars, messageVars, callerVars
  <2>3. Untimed'
    BY <1>0, <1>1 DEF Times, Untimed, Timed, Infinite, Unlimited, Ack, Return, RaiseInConversion, ConvertOne, CanTake, Advance, EffectiveTimeout, Capped, Remaining, Subtracted, NoDeadline, objectVars, clientVars, waitVars, messageVars, callerVars
  <2> QED
    BY <2>1, <2>2, <2>3 DEF Times
<1>2. CASE Unsubscribe
  <2>1. Late'
    BY <1>2 DEF Times, Late, Unlimited, Unsubscribe, objectVars, clientVars, waitVars, messageVars, callerVars
  <2>2. Elapsed'
    BY <1>2 DEF Times, Late, Unlimited, Elapsed, Slack, LoopSlice, Timed, Unsubscribe, objectVars, clientVars, waitVars, messageVars, callerVars
  <2>3. Untimed'
    BY <1>0, <1>2 DEF Times, Untimed, Timed, Infinite, Unlimited, Unsubscribe, Return, RaiseInConversion, ConvertOne, CanTake, Advance, EffectiveTimeout, Capped, Remaining, Subtracted, NoDeadline, objectVars, clientVars, waitVars, messageVars, callerVars
  <2> QED
    BY <2>1, <2>2, <2>3 DEF Times
<1>3. CASE AutoUnsubscribe
  <2>1. Late'
    BY <1>3 DEF Times, Late, Unlimited, AutoUnsubscribe, objectVars, clientVars, waitVars, messageVars, callerVars
  <2>2. Elapsed'
    BY <1>3 DEF Times, Late, Unlimited, Elapsed, Slack, LoopSlice, Timed, AutoUnsubscribe, objectVars, clientVars, waitVars, messageVars, callerVars
  <2>3. Untimed'
    BY <1>0, <1>3 DEF Times, Untimed, Timed, Infinite, Unlimited, AutoUnsubscribe, Return, RaiseInConversion, ConvertOne, CanTake, Advance, EffectiveTimeout, Capped, Remaining, Subtracted, NoDeadline, objectVars, clientVars, waitVars, messageVars, callerVars
  <2> QED
    BY <2>1, <2>2, <2>3 DEF Times
<1>4. CASE Drain
  <2>1. Late'
    BY <1>4 DEF Times, Late, Unlimited, Drain, objectVars, clientVars, waitVars, messageVars, callerVars
  <2>2. Elapsed'
    BY <1>4 DEF Times, Late, Unlimited, Elapsed, Slack, LoopSlice, Timed, Drain, objectVars, clientVars, waitVars, messageVars, callerVars
  <2>3. Untimed'
    BY <1>0, <1>4 DEF Times, Untimed, Timed, Infinite, Unlimited, Drain, Return, RaiseInConversion, ConvertOne, CanTake, Advance, EffectiveTimeout, Capped, Remaining, Subtracted, NoDeadline, objectVars, clientVars, waitVars, messageVars, callerVars
  <2> QED
    BY <2>1, <2>2, <2>3 DEF Times
<1>5. CASE Destroy
  <2>1. Late'
    BY <1>5 DEF Times, Late, Unlimited, Destroy, objectVars, clientVars, waitVars, messageVars, callerVars
  <2>2. Elapsed'
    BY <1>5 DEF Times, Late, Unlimited, Elapsed, Slack, LoopSlice, Timed, Destroy, objectVars, clientVars, waitVars, messageVars, callerVars
  <2>3. Untimed'
    BY <1>0, <1>5 DEF Times, Untimed, Timed, Infinite, Unlimited, Destroy, Return, RaiseInConversion, ConvertOne, CanTake, Advance, EffectiveTimeout, Capped, Remaining, Subtracted, NoDeadline, objectVars, clientVars, waitVars, messageVars, callerVars
  <2> QED
    BY <2>1, <2>2, <2>3 DEF Times
<1> QED
  BY <1>1, <1>2, <1>3, <1>4, <1>5

LEMMA EnvironmentTimes == ASSUME Types, Times, Arrive \/ DrainComplete \/ Cancel \/ UNCHANGED vars PROVE Times'
<1> USE TimeoutsAreIntegers DEF Types, WaitTypes, ObjectTypes
<1>0. /\ call.timeout \in Int /\ remaining \in Int /\ effective \in Int
      /\ slice \in Nat /\ elapsed \in Nat /\ Interval \in Int /\ Interval > 0
  BY TypedTimes
<1>1. CASE Arrive
  <2>1. Late'
    BY <1>1 DEF Times, Late, Unlimited, Arrive, objectVars, clientVars, waitVars, messageVars, callerVars
  <2>2. Elapsed'
    BY <1>1 DEF Times, Late, Unlimited, Elapsed, Slack, LoopSlice, Timed, Arrive, objectVars, clientVars, waitVars, messageVars, callerVars
  <2>3. Untimed'
    BY <1>0, <1>1 DEF Times, Untimed, Timed, Infinite, Unlimited, Arrive, Return, RaiseInConversion, ConvertOne, CanTake, Advance, EffectiveTimeout, Capped, Remaining, Subtracted, NoDeadline, objectVars, clientVars, waitVars, messageVars, callerVars
  <2> QED
    BY <2>1, <2>2, <2>3 DEF Times
<1>2. CASE DrainComplete
  <2>1. Late'
    BY <1>2 DEF Times, Late, Unlimited, DrainComplete, objectVars, clientVars, waitVars, messageVars, callerVars
  <2>2. Elapsed'
    BY <1>2 DEF Times, Late, Unlimited, Elapsed, Slack, LoopSlice, Timed, DrainComplete, objectVars, clientVars, waitVars, messageVars, callerVars
  <2>3. Untimed'
    BY <1>0, <1>2 DEF Times, Untimed, Timed, Infinite, Unlimited, DrainComplete, Return, RaiseInConversion, ConvertOne, CanTake, Advance, EffectiveTimeout, Capped, Remaining, Subtracted, NoDeadline, objectVars, clientVars, waitVars, messageVars, callerVars
  <2> QED
    BY <2>1, <2>2, <2>3 DEF Times
<1>3. CASE Cancel
  <2>1. Late'
    BY <1>3 DEF Times, Late, Unlimited, Cancel, objectVars, clientVars, waitVars, messageVars, callerVars
  <2>2. Elapsed'
    BY <1>3 DEF Times, Late, Unlimited, Elapsed, Slack, LoopSlice, Timed, Cancel, objectVars, clientVars, waitVars, messageVars, callerVars
  <2>3. Untimed'
    BY <1>0, <1>3 DEF Times, Untimed, Timed, Infinite, Unlimited, Cancel, Return, RaiseInConversion, ConvertOne, CanTake, Advance, EffectiveTimeout, Capped, Remaining, Subtracted, NoDeadline, objectVars, clientVars, waitVars, messageVars, callerVars
  <2> QED
    BY <2>1, <2>2, <2>3 DEF Times
<1>4. CASE UNCHANGED vars
  <2>1. Late'
    BY <1>4 DEF Times, Late, Unlimited, vars, objectVars, clientVars, waitVars, messageVars, callerVars
  <2>2. Elapsed'
    BY <1>4 DEF Times, Late, Unlimited, Elapsed, Slack, LoopSlice, Timed, vars, objectVars, clientVars, waitVars, messageVars, callerVars
  <2>3. Untimed'
    BY <1>0, <1>4 DEF Times, Untimed, Timed, Infinite, Unlimited, vars, Return, RaiseInConversion, ConvertOne, CanTake, Advance, EffectiveTimeout, Capped, Remaining, Subtracted, NoDeadline, objectVars, clientVars, waitVars, messageVars, callerVars
  <2> QED
    BY <2>1, <2>2, <2>3 DEF Times
<1> QED
  BY <1>1, <1>2, <1>3, <1>4

LEMMA NextTimes == ASSUME Types, Times, [Next]_vars PROVE Times'
<1>1. CASE BeginCall
  BY <1>1, BeginTimes DEF BeginCall
<1>2. CASE Code
  BY <1>2, CodeTimes DEF Code
<1>3. CASE NextMsg \/ Fetch \/ WatcherNext \/ SkipMarker \/ Completes \/ Fails \/ Tick
  BY <1>3, WaitingTimes
<1>4. CASE Ack \/ Unsubscribe \/ AutoUnsubscribe \/ Drain \/ Destroy
  BY <1>4, CallTimes
<1>5. CASE Arrive \/ DrainComplete \/ Cancel \/ UNCHANGED vars
  BY <1>5, EnvironmentTimes
<1> QED
  BY <1>1, <1>2, <1>3, <1>4, <1>5 DEF Next

LEMMA TimesHold == Spec => []Times
  BY InitTimes, NextTimes, TypesHold, PTL DEF Spec

\* A cancellation ends nextMsg(), fetch(), flush(), next() and, when it has a positive timeout,
\* waitForDrainCompletion() within one poll interval, whatever the interval and the timeout.
THEOREM CancelledInTime == Spec => []CancelLatency
<1>1. Times => CancelLatency
  BY DEF Times, Late, CancelLatency
<1> QED
  BY <1>1, TimesHold, PTL

\* No call lasts longer than its timeout, or gives up earlier, although it waits in slices; with a
\* timeout of 0 or less none waits but the two that take it for no limit.
THEOREM TimeoutsKept == Spec => []TimeoutKept
<1>1. Types /\ Times => TimeoutKept
  <2> SUFFICES ASSUME Types, Times PROVE TimeoutKept
    OBVIOUS
  <2>1. CASE Timed
    <3>1. elapsed <= call.timeout + Slack /\ (outcome = "timeout" => elapsed >= call.timeout)
      BY <2>1 DEF Times, Elapsed
    <3> QED
      BY <2>1, <3>1, TypedTimes DEF TimeoutKept, Timed, Slack
  <2>2. CASE ~Timed
    BY <2>2, TypedTimes DEF TimeoutKept, Timed, Times, Untimed
  <2> QED
    BY <2>1, <2>2
<1> QED
  BY <1>1, TypesHold, TimesHold, PTL

-----------------------------------------------------------------------------
(***************************************************************************)
(* The messages.                                                           *)
(***************************************************************************)

\* The messages that are out of the list: what is converted and the last message come before it.
Before == taken - Len(list)

Listed ==
    /\ Len(list) <= taken /\ lastMsg <= Before
    /\ \A i \in 1..Len(list) : list[i] = Before + i
    /\ pc # "convert" => list = <<>> /\ result = <<>>

InOrder ==
    ~failed =>
        /\ Len(returned) + Len(result) = Before
        /\ \A i \in 1..Len(returned) : returned[i] = i
        /\ \A i \in 1..Len(result) : result[i] = Len(returned) + i

Messages == Listed /\ MessagesOwned /\ InOrder

LEMMA InitMessages == Init => Messages
<1> SUFFICES ASSUME Init PROVE Messages
  OBVIOUS
<1>1. Listed
  BY EmptySeq DEF Init, Listed, Before
<1>2. MessagesOwned
  BY DEF Init, MessagesOwned, ToSet
<1>3. InOrder
  <2>1. returned = <<>> /\ result = <<>> /\ list = <<>> /\ taken = 0
    BY DEF Init
  <2>2. Len(<<>>) = 0
    BY EmptySeq
  <2>3. Len(returned) = 0 /\ Len(result) = 0 /\ Len(list) = 0
    BY <2>1, <2>2
  <2>4. Before = 0
    <3>1. taken = 0 /\ Len(list) = 0
      BY <2>1, <2>3
    <3> QED
      BY ONLY <3>1 DEF Before
  <2> QED
    BY ONLY <2>3, <2>4 DEF InOrder
<1> QED
  BY <1>1, <1>2, <1>3 DEF Messages

\* The elements of a list in order, and of its tail.
LEMMA ListElements ==
    ASSUME Types, Listed, list # <<>>
    PROVE  /\ Len(list) \in Nat /\ Len(list) > 0 /\ Before \in Nat
           /\ Tail(list) \in Seq(Number) /\ Len(Tail(list)) = Len(list) - 1
           /\ Head(list) = Before + 1
           /\ \A i \in 1..Len(Tail(list)) : Tail(list)[i] = Before + 1 + i
           /\ ToSet(list) = {Head(list)} \cup ToSet(Tail(list))
           /\ Head(list) \notin ToSet(Tail(list))
           /\ lastMsg \notin ToSet(list)
<1>0. list \in Seq(Number) /\ taken \in Nat /\ lastMsg \in Nat
  BY DEF Types, MessageTypes, ObjectTypes
<1>1. Len(list) \in Nat /\ Len(list) > 0 /\ Before \in Nat
  <2>1. Len(list) \in Nat /\ Len(list) # 0
    BY <1>0, LenProperties, EmptySeq
  <2>2. Len(list) <= taken
    BY DEF Listed
  <2> QED
    BY <1>0, <2>1, <2>2 DEF Before
<1>2. /\ Tail(list) \in Seq(Number) /\ Len(Tail(list)) = Len(list) - 1
      /\ \A i \in 1..Len(Tail(list)) : Tail(list)[i] = list[i + 1]
  BY <1>0, HeadTailProperties
<1>3. Head(list) = list[1] /\ list[1] = Before + 1
  BY <1>0, <1>1 DEF Listed
<1>4. \A i \in 1..Len(Tail(list)) : Tail(list)[i] = Before + 1 + i
  <2>1. ASSUME NEW i \in 1..Len(Tail(list)) PROVE Tail(list)[i] = Before + 1 + i
    <3>1. i + 1 \in 1..Len(list)
      BY <1>1, <1>2
    <3>2. list[i + 1] = Before + (i + 1)
      BY <3>1 DEF Listed
    <3> QED
      BY <1>1, <1>2, <3>2
  <2> QED
    BY <2>1
<1>5. DOMAIN list = 1..Len(list) /\ DOMAIN Tail(list) = 1..(Len(list) - 1)
  BY <1>0, <1>2, LenProperties
<1>6. ToSet(list) = {Head(list)} \cup ToSet(Tail(list))
  <2>1. ASSUME NEW m \in ToSet(list) PROVE m \in {Head(list)} \cup ToSet(Tail(list))
    <3>1. PICK i \in 1..Len(list) : m = list[i]
      BY <1>5 DEF ToSet
    <3>2. CASE i = 1
      BY <3>1, <3>2, <1>3
    <3>3. CASE i # 1
      <4>1. i - 1 \in 1..Len(Tail(list)) /\ i - 1 + 1 = i
        BY <3>1, <3>3, <1>1, <1>2
      <4> QED
        BY <3>1, <4>1, <1>2, <1>5 DEF ToSet
    <3> QED
      BY <3>2, <3>3
  <2>2. ASSUME NEW m \in ToSet(Tail(list)) PROVE m \in ToSet(list)
    <3>1. PICK i \in 1..Len(Tail(list)) : m = list[i + 1]
      BY <1>2, <1>5 DEF ToSet
    <3>2. i + 1 \in 1..Len(list)
      BY <1>1, <1>2
    <3> QED
      BY <3>1, <3>2, <1>5 DEF ToSet
  <2>3. Head(list) \in ToSet(list)
    <3>1. 1 \in 1..Len(list)
      BY <1>1
    <3> QED
      BY <3>1, <1>3, <1>5 DEF ToSet
  <2> QED
    BY <2>1, <2>2, <2>3
<1>7. Head(list) \notin ToSet(Tail(list))
  <2> SUFFICES ASSUME NEW i \in 1..Len(Tail(list)) PROVE Tail(list)[i] # Head(list)
    BY <1>2, <1>5 DEF ToSet
  <2> QED
    BY <1>1, <1>2, <1>3, <1>4
<1>8. lastMsg \notin ToSet(list)
  <2> SUFFICES ASSUME NEW i \in 1..Len(list) PROVE list[i] # lastMsg
    BY <1>5 DEF ToSet
  <2>1. list[i] = Before + i /\ lastMsg <= Before
    BY DEF Listed
  <2> QED
    BY <2>1, <1>0, <1>1
<1> QED
  BY <1>1, <1>2, <1>3, <1>4, <1>6, <1>7, <1>8

\* A step that touches no message.
LEMMA QuietMessages ==
    ASSUME Messages, UNCHANGED <<taken, lastMsg, list, result, live, returned, failed>>,
           pc = "convert" => pc' = "convert"
    PROVE  Messages'
<1>1. Listed'
  BY DEF Messages, Listed, Before
<1>2. MessagesOwned'
  BY DEF Messages, MessagesOwned
<1>3. InOrder'
  BY DEF Messages, InOrder, Before
<1> QED
  BY <1>1, <1>2, <1>3 DEF Messages

\* Nothing is listed outside of the conversion.
LEMMA NothingListed ==
    ASSUME Types, Messages, pc # "convert"
    PROVE  /\ list = <<>> /\ result = <<>> /\ Len(list) = 0 /\ Len(result) = 0 /\ Before = taken
           /\ live \ {lastMsg} = {} /\ taken \in Nat /\ lastMsg \in Nat
<1>1. list = <<>> /\ result = <<>> /\ taken \in Nat /\ lastMsg \in Nat
  BY DEF Messages, Listed, Types, ObjectTypes, MessageTypes
<1>2. Len(<<>>) = 0 /\ ToSet(<<>>) = {}
  BY EmptySeq DEF ToSet
<1> QED
  BY <1>1, <1>2 DEF Messages, MessagesOwned, Before

LEMMA NextMsgMessages == ASSUME Types, Messages, NextMsg PROVE Messages'
<1>0. /\ pc # "convert" /\ taken' = taken + 1 /\ lastMsg' = taken' /\ live' = (live \ {lastMsg}) \cup {taken'}
      /\ list' = list /\ result' = result /\ pc' = "idle"
  BY DEF NextMsg, CanTake, AfterReplacing, Replaced, Return, RaiseInConversion
<1>1. /\ list = <<>> /\ result = <<>> /\ Len(list) = 0 /\ Len(result) = 0 /\ Before = taken /\ live' = {taken'}
      /\ taken \in Nat /\ Before' = taken'
  BY <1>0, NothingListed DEF Before
<1>2. Listed'
  BY <1>0, <1>1 DEF Listed
<1>3. MessagesOwned'
  <2>1. ToSet(list') = {}
    BY <1>0, <1>1 DEF ToSet
  <2> QED
    BY <1>0, <1>1, <2>1 DEF MessagesOwned
<1>4. InOrder'
  <2> SUFFICES ASSUME ~failed' PROVE InOrder'
    BY DEF InOrder
  <2>1. ~failed /\ returned' = returned \o <<taken'>>
    BY DEF NextMsg, Hand, RaiseInConversion
  <2>2. Len(returned) = taken /\ \A i \in 1..taken : returned[i] = i
    BY <1>1, <2>1 DEF Messages, InOrder
  <2>3. returned \in Seq(Number) /\ taken' \in Number
    BY <1>0, <1>1 DEF Types, CallerTypes, Number
  <2>4. /\ Append(returned, taken') = returned'
        /\ Len(Append(returned, taken')) = taken'
        /\ \A i \in 1..taken : Append(returned, taken')[i] = i
        /\ Append(returned, taken')[taken'] = taken'
    BY <1>0, <2>1, <2>2, <2>3, AppendProperties, AppendIsConcat
  <2>5. Len(returned') = taken' /\ \A i \in 1..Len(returned') : returned'[i] = i
    BY <1>0, <1>1, <2>4
  <2> QED
    BY <1>0, <1>1, <2>5 DEF InOrder
<1> QED
  BY <1>2, <1>3, <1>4 DEF Messages

LEMMA FetchMessages == ASSUME Types, Messages, Fetch PROVE Messages'
<1>0. PICK n \in 1..MaxBatch :
         /\ list' = [i \in 1..n |-> taken + i] /\ live' = live \cup ToSet(list') /\ taken' = taken + n
  BY DEF Fetch
<1>1. /\ pc # "convert" /\ pc' = "convert" /\ result' = <<>> /\ lastMsg' = lastMsg
      /\ returned' = returned /\ failed' = failed
  BY DEF Fetch, CanTake, callerVars
<1>2. /\ list = <<>> /\ result = <<>> /\ Len(list) = 0 /\ Len(result) = 0 /\ Before = taken /\ taken \in Nat
      /\ lastMsg \in Nat
  BY <1>1, NothingListed
<1>3. n \in Nat /\ Len(list') = n /\ Before' = taken
  <2>1. n \in Nat
    OBVIOUS
  <2>2. Len(list') = n
    BY <1>0, <2>1
  <2> QED
    BY <1>0, <1>2, <2>1, <2>2 DEF Before
<1>4. Listed'
  BY <1>0, <1>1, <1>2, <1>3 DEF Listed, Messages
<1>5. MessagesOwned'
  <2>1. ToSet(list) = {}
    BY <1>2 DEF ToSet
  <2> QED
    BY <1>0, <1>1, <2>1 DEF MessagesOwned, Messages
<1>6. InOrder'
  <2>1. Len(<<>>) = 0
    BY EmptySeq
  <2> QED
    BY <1>1, <1>2, <1>3, <2>1 DEF InOrder, Messages
<1> QED
  BY <1>4, <1>5, <1>6 DEF Messages

LEMMA ConvertMessages == ASSUME Types, Messages, FetchConvert PROVE Messages'
<1>0. /\ pc = "convert" /\ pc' = pc /\ list # <<>> /\ lastMsg' = Head(list) /\ live' = live \ {lastMsg}
      /\ list' = Tail(list) /\ result' = Append(result, Head(list))
      /\ taken' = taken /\ returned' = returned /\ failed' = failed
  BY DEF FetchConvert, ConvertOne, AfterReplacing, Replaced, callerVars, clientVars
<1>1. /\ Len(list) \in Nat /\ Len(list) > 0 /\ Before \in Nat
      /\ Len(list') = Len(list) - 1 /\ Head(list) = Before + 1
      /\ \A i \in 1..Len(list') : list'[i] = Before + 1 + i
      /\ ToSet(list) = {Head(list)} \cup ToSet(list')
      /\ lastMsg \notin ToSet(list)
  BY <1>0, ListElements DEF Messages
<1>2. taken \in Nat /\ Before' = Before + 1 /\ taken = Before + Len(list)
  BY <1>0, <1>1 DEF Before, Types, ObjectTypes
<1>3. Listed'
  BY <1>0, <1>1, <1>2 DEF Listed
<1>4. MessagesOwned'
  BY <1>0, <1>1, <1>2 DEF MessagesOwned, Messages
<1>5. InOrder'
  <2> SUFFICES ASSUME ~failed PROVE InOrder'
    BY <1>0 DEF InOrder
  <2>1. /\ Len(returned) + Len(result) = Before
        /\ \A i \in 1..Len(returned) : returned[i] = i
        /\ \A i \in 1..Len(result) : result[i] = Len(returned) + i
    BY DEF InOrder, Messages
  <2>2. result \in Seq(Number) /\ Head(list) \in Number /\ returned \in Seq(Number)
    BY <1>0, HeadTailProperties DEF Types, MessageTypes, CallerTypes
  <2>3. Len(result) \in Nat /\ Len(returned) \in Nat
    BY <2>2, LenProperties
  <2>4. /\ Len(result') = Len(result) + 1
        /\ \A i \in 1..Len(result) : result'[i] = result[i]
        /\ result'[Len(result) + 1] = Before + 1
    BY <1>0, <1>1, <2>2, AppendProperties
  <2>5. ASSUME NEW i \in 1..Len(result') PROVE result'[i] = Len(returned) + i
    <3>1. CASE i \in 1..Len(result)
      BY <2>1, <2>4, <3>1
    <3>2. CASE i = Len(result) + 1
      <4>1. result'[i] = Before + 1 /\ Len(returned) + Len(result) = Before
        BY <2>1, <2>4, <3>2
      <4> QED
        BY ONLY <4>1, <2>3, <3>2
    <3> QED
      BY <2>3, <2>4, <3>1, <3>2
  <2> QED
    BY <1>0, <1>1, <1>2, <2>1, <2>3, <2>4, <2>5 DEF InOrder
<1> QED
  BY <1>3, <1>4, <1>5 DEF Messages

LEMMA ConversionRaisesMessages == ASSUME Types, Messages, ConversionRaises PROVE Messages'
<1>0. /\ list # <<>> /\ lastMsg' = Head(list) /\ live' = (live \ {lastMsg}) \ ToSet(Tail(list))
      /\ list' = <<>> /\ result' = <<>> /\ taken' = taken /\ failed'
  BY DEF ConversionRaises, AfterReplacing, Replaced, RaiseInConversion, clientVars
<1>1. /\ Len(list) \in Nat /\ Len(list) > 0 /\ Before \in Nat /\ Head(list) = Before + 1
      /\ ToSet(list) = {Head(list)} \cup ToSet(Tail(list)) /\ Head(list) \notin ToSet(Tail(list))
      /\ lastMsg \notin ToSet(list)
  BY <1>0, ListElements DEF Messages
<1>2. /\ taken \in Nat /\ taken = Before + Len(list) /\ Len(list') = 0 /\ ToSet(list') = {} /\ Before' = taken
  <2>1. Len(<<>>) = 0 /\ ToSet(<<>>) = {}
    BY EmptySeq DEF ToSet
  <2> QED
    BY <1>0, <1>1, <2>1 DEF Before, Types, ObjectTypes
<1>3. Listed'
  BY <1>0, <1>1, <1>2 DEF Listed
<1>4. MessagesOwned'
  BY <1>0, <1>1, <1>2 DEF MessagesOwned, Messages
<1> QED
  BY <1>0, <1>3, <1>4 DEF Messages, InOrder

LEMMA FetchReturnMessages == ASSUME Types, Messages, FetchReturn PROVE Messages'
<1>0. /\ list = <<>> /\ list' = list /\ result' = <<>> /\ returned' = returned \o result /\ failed' = failed
      /\ taken' = taken /\ lastMsg' = lastMsg /\ live' = live /\ pc' = "idle"
  BY DEF FetchReturn, Return, Hand, clientVars
<1>1. Listed' /\ MessagesOwned'
  BY <1>0 DEF Messages, Listed, Before, MessagesOwned
<1>2. InOrder'
  <2> SUFFICES ASSUME ~failed PROVE InOrder'
    BY <1>0 DEF InOrder
  <2>1. /\ Len(returned) + Len(result) = Before
        /\ \A i \in 1..Len(returned) : returned[i] = i
        /\ \A i \in 1..Len(result) : result[i] = Len(returned) + i
    BY DEF InOrder, Messages
  <2>2. result \in Seq(Number) /\ returned \in Seq(Number)
    BY DEF Types, MessageTypes, CallerTypes
  <2>3. Len(result) \in Nat /\ Len(returned) \in Nat
    BY <2>2, LenProperties
  <2>4. /\ Len(returned') = Len(returned) + Len(result)
        /\ \A i \in 1..Len(returned) + Len(result) :
              returned'[i] = IF i <= Len(returned) THEN returned[i] ELSE result[i - Len(returned)]
    BY <1>0, <2>2, ConcatProperties
  <2>5. ASSUME NEW i \in 1..Len(returned') PROVE returned'[i] = i
    <3>1. CASE i <= Len(returned)
      BY <2>1, <2>3, <2>4, <3>1
    <3>2. CASE ~(i <= Len(returned))
      <4>1. i - Len(returned) \in 1..Len(result)
        BY <2>3, <2>4, <3>2
      <4>2. result[i - Len(returned)] = Len(returned) + (i - Len(returned))
        BY <2>1, <4>1
      <4> QED
        BY <2>3, <2>4, <3>2, <4>2
    <3> QED
      BY <3>1, <3>2
  <2>6. Len(<<>>) = 0
    BY EmptySeq
  <2> QED
    BY <1>0, <2>1, <2>3, <2>4, <2>5, <2>6 DEF InOrder, Before
<1> QED
  BY <1>1, <1>2 DEF Messages

LEMMA DestroyMessages == ASSUME Types, Messages, Destroy PROVE Messages'
<1>0. /\ pc # "convert" /\ pc' = pc /\ live' = live \ {lastMsg} /\ lastMsg' = 0
      /\ taken' = taken /\ list' = list /\ result' = result /\ returned' = returned /\ failed' = failed
  BY DEF Destroy, AfterReplacing, Replaced, clientVars, callerVars
<1>1. list = <<>> /\ live' = {} /\ Before = taken /\ taken \in Nat
  BY <1>0, NothingListed
<1>2. Listed'
  BY <1>0, <1>1 DEF Messages, Listed, Before
<1>3. MessagesOwned'
  <2>1. ToSet(list') = {}
    BY <1>0, <1>1 DEF ToSet
  <2> QED
    BY <1>0, <1>1, <2>1 DEF MessagesOwned
<1>4. InOrder'
  BY <1>0 DEF Messages, InOrder, Before
<1> QED
  BY <1>2, <1>3, <1>4 DEF Messages

LEMMA NextMessages == ASSUME Types, Messages, [Next]_vars PROVE Messages'
<1> USE DEF clientVars, messageVars, callerVars
<1>1. CASE BeginCall
  BY <1>1, QuietMessages DEF BeginCall, Begin
<1>2. CASE LoopTop \/ SliceEnds \/ Fails
  <2>1. CASE LoopTop
    BY <2>1, QuietMessages DEF LoopTop
  <2>2. CASE SliceEnds
    BY <2>2, QuietMessages DEF SliceEnds
  <2>3. CASE Fails
    BY <2>3, QuietMessages DEF Fails
  <2> QED
    BY <1>2, <2>1, <2>2, <2>3
<1>3. CASE NextMsg \/ Fetch \/ FetchConvert \/ ConversionRaises \/ FetchReturn
  BY <1>3, NextMsgMessages, FetchMessages, ConvertMessages, ConversionRaisesMessages, FetchReturnMessages
<1>4. CASE WatcherNext \/ SkipMarker \/ Completes \/ Tick
  <2>1. CASE WatcherNext
    BY <2>1, QuietMessages DEF WatcherNext
  <2>2. CASE SkipMarker
    BY <2>2, QuietMessages DEF SkipMarker
  <2>3. CASE Completes
    BY <2>3, QuietMessages DEF Completes
  <2>4. CASE Tick
    BY <2>4, QuietMessages DEF Tick
  <2> QED
    BY <1>4, <2>1, <2>2, <2>3, <2>4
<1>5. CASE Ack \/ Unsubscribe \/ AutoUnsubscribe \/ Drain
  BY <1>5, QuietMessages DEF Ack, Unsubscribe, AutoUnsubscribe, Drain
<1>6. CASE Destroy
  BY <1>6, DestroyMessages
<1>7. CASE Arrive \/ DrainComplete \/ Cancel \/ UNCHANGED vars
  BY <1>7, QuietMessages DEF Arrive, DrainComplete, Cancel, vars
<1> QED
  BY <1>1, <1>2, <1>3, <1>4, <1>5, <1>6, <1>7 DEF Next, Code

LEMMA MessagesHold == Spec => []Messages
  BY InitMessages, NextMessages, TypesHold, PTL DEF Spec

\* No call of nextMsg() or fetch(), whatever way it ends, leaks a native message or destroys one that
\* is still used; neither does the destructor.
THEOREM NoMessageLeaks == Spec => []MessagesOwned
<1>1. Messages => MessagesOwned
  BY DEF Messages
<1> QED
  BY <1>1, MessagesHold, PTL

\* Unless a conversion raised, what the C client handed out was returned once and in order.
THEOREM NoMessageLost == Spec => []ReturnedInOrder
<1>1. Types /\ Messages => ReturnedInOrder
  <2> SUFFICES ASSUME Types, Messages, pc = "idle", ~failed PROVE returned = [i \in 1..taken |-> i]
    BY DEF ReturnedInOrder
  <2>1. Len(result) = 0 /\ Before = taken /\ returned \in Seq(Number)
    BY NothingListed DEF Types, CallerTypes
  <2>2. Len(returned) = taken /\ \A i \in 1..taken : returned[i] = i
    BY <2>1, LenProperties DEF Messages, InOrder
  <2>3. returned = [i \in 1..taken |-> returned[i]]
    BY <2>1, <2>2, LenProperties
  <2> QED
    BY <2>2, <2>3
<1> QED
  BY <1>1, TypesHold, MessagesHold, PTL

-----------------------------------------------------------------------------
(***************************************************************************)
(* The end of a call.                                                      *)
(***************************************************************************)

\* During a slice, effective is what EffectiveTimeout says of the remaining time.
SliceSet ==
    /\ pc = "wait" => effective = EffectiveTimeout
    /\ Running => call.op \in Op

LEMMA InitSlice == Init => SliceSet
  BY DEF Init, SliceSet, Running

LEMMA NextSlice == SliceSet /\ [Next]_vars => SliceSet'
<1> SUFFICES ASSUME SliceSet, [Next]_vars PROVE SliceSet'
  OBVIOUS
<1> USE DEF SliceSet, Running, EffectiveTimeout, Capped, Infinite
<1>1. CASE BeginCall
  BY <1>1 DEF BeginCall, Begin
<1>2. CASE LoopTop
  BY <1>2 DEF LoopTop, Return
<1>3. CASE SliceEnds
  BY <1>3 DEF SliceEnds, Return
<1>4. CASE FetchConvert \/ ConversionRaises \/ FetchReturn
  BY <1>4 DEF FetchConvert, ConvertOne, ConversionRaises, RaiseInConversion, FetchReturn, Return, waitVars
<1>5. CASE NextMsg \/ Fetch \/ WatcherNext \/ SkipMarker \/ Completes \/ Fails
  BY <1>5 DEF NextMsg, RaiseInConversion, Fetch, CanTake, WatcherNext, SkipMarker, Completes, Fails, Return
<1>6. CASE Tick
  BY <1>6 DEF Tick
<1>7. CASE Ack \/ Unsubscribe \/ AutoUnsubscribe \/ Drain \/ Destroy
  BY <1>7 DEF Ack, Unsubscribe, AutoUnsubscribe, Drain, Destroy, waitVars
<1>8. CASE Arrive \/ DrainComplete \/ Cancel \/ UNCHANGED vars
  BY <1>8 DEF Arrive, DrainComplete, Cancel, vars, waitVars
<1> QED
  BY <1>1, <1>2, <1>3, <1>4, <1>5, <1>6, <1>7, <1>8 DEF Next, Code

\* A call that is to end: it has a timeout, or is cancelled, or waits without a limit for no drain.
Due == Running /\ (IF Unlimited THEN sub # "draining" ELSE cancelled \/ ~Infinite)

LEMMA DueIsFinite == Due /\ ~cancelled => ~Infinite
  BY DEF Due, Unlimited, Infinite

LEMMA DueStays ==
    ASSUME Due, Running', call' = call, cancelled => cancelled', sub # "draining" => sub' # "draining"
    PROVE  Due' /\ Infinite' = Infinite
  BY DEF Due, Unlimited, Infinite

\* A bound of the steps that the thread and the clock have left in such a call: for the messages of
\* a batch, for the slice that is going on, and for the slices that remain, with those that the
\* watcher's marker adds.
Positive(x) == IF x > 0 THEN x ELSE 0
Batch == MaxBatch + 1
Ticks == Positive(effective - slice)
Marker == IF marker THEN 3 * Interval ELSE 0
Slices ==
    IF pc = "loop" THEN 3 * Positive(remaining) + 3 + Marker
    ELSE IF effective > 0 THEN 3 * (remaining - effective) + 4 + Ticks + Marker
    ELSE 1
LastSlice == IF pc = "loop" THEN 0 ELSE 1 + Ticks
StepsLeft ==
    IF pc = "convert" THEN Len(list) + 1
    ELSE Batch + (IF cancelled THEN LastSlice ELSE Slices)

Numbers ==
    /\ Batch \in Nat /\ Batch > 0 /\ Interval \in Nat /\ Interval > 0
    /\ remaining \in Int /\ effective \in Int /\ slice \in Nat
    /\ Len(list) \in Nat
    /\ cancelled \in BOOLEAN /\ marker \in BOOLEAN
    /\ pc \in {"idle", "loop", "wait", "convert"}

LEMMA AreNumbers == Types => Numbers
<1>1. Batch \in Nat /\ Batch > 0 /\ Interval \in Nat /\ Interval > 0
  BY BoundsAssumption, IntervalAssumption DEF Batch
<1>2. ASSUME Types PROVE Len(list) \in Nat
  BY <1>2 DEF Types, MessageTypes
<1> QED
  BY <1>1, <1>2 DEF Numbers, Types, WaitTypes, ObjectTypes

\* What a slice takes of a timeout.
LEMMA SliceOfTimeout ==
    ASSUME Numbers, SliceSet, pc = "wait", ~Infinite
    PROVE  effective = (IF remaining > Interval THEN Interval ELSE remaining)
  BY DEF SliceSet, EffectiveTimeout, Capped

LEMMA StepsAreNumber ==
    ASSUME Numbers, SliceSet, Due
    PROVE  StepsLeft \in Nat
<1>1. Ticks \in Nat /\ Marker \in Nat /\ Positive(remaining) \in Nat
  BY DEF Numbers, Ticks, Marker, Positive
<1>2. CASE pc = "convert"
  BY <1>2 DEF StepsLeft, Numbers
<1>3. CASE pc # "convert" /\ cancelled
  BY <1>1, <1>3 DEF StepsLeft, LastSlice, Numbers
<1>4. CASE pc = "loop" /\ ~cancelled
  BY <1>1, <1>4 DEF StepsLeft, Slices, Numbers
<1>5. CASE pc = "wait" /\ ~cancelled
  <2>1. remaining - effective \in Int /\ remaining - effective >= 0
    BY <1>5, SliceOfTimeout, DueIsFinite DEF Numbers
  <2> QED
    BY <1>1, <1>5, <2>1 DEF StepsLeft, Slices, Numbers
<1> QED
  BY <1>2, <1>3, <1>4, <1>5 DEF Due, Running, Numbers

LEMMA SliceIsLess ==
    ASSUME NEW b \in Int, NEW r \in Int, NEW m \in Int, NEW e \in Int, e >= 1
    PROVE  b + (3 * (r - e) + 4 + e + m) < b + 3 * r + 3 + m
OBVIOUS

\* Each step of the call itself, and each unit of time, is one of the steps that are left.
LEMMA LoopTopGoesOn ==
    ASSUME Numbers, SliceSet, SliceSet', Due, LoopTop
    PROVE  ~Running' \/ (Due' /\ StepsLeft' < StepsLeft)
<1>1. CASE cancelled
  BY <1>1 DEF LoopTop, Return, Running
<1>2. CASE ~cancelled
  <2>1. /\ pc = "loop" /\ pc' = "wait" /\ slice' = 0 /\ effective' = EffectiveTimeout
        /\ UNCHANGED <<sub, call, remaining, cancelled, marker, list>>
    BY <1>2 DEF LoopTop, objectVars, clientVars, messageVars
  <2>2. ~Infinite /\ ~Infinite' /\ Due'
    BY <1>2, <2>1, DueIsFinite, DueStays DEF Running
  <2>3. effective' = (IF remaining > Interval THEN Interval ELSE remaining)
    BY <2>1, <2>2 DEF EffectiveTimeout, Capped
  <2>4. Marker' = Marker /\ Marker \in Nat
    BY <2>1 DEF Marker, Numbers
  <2>5. StepsLeft = Batch + 3 * Positive(remaining) + 3 + Marker
    <3>1. Positive(remaining) \in Nat
      BY DEF Numbers, Positive
    <3> QED
      BY <1>2, <2>1, <2>4, <3>1 DEF StepsLeft, Slices, Numbers
  <2>6. CASE remaining > 0
    <3>1. effective' > 0 /\ Ticks' = effective' /\ Positive(remaining) = remaining
      BY <2>1, <2>3, <2>6 DEF Ticks, Positive, Numbers
    <3>2. StepsLeft' = Batch + (3 * (remaining - effective') + 4 + effective' + Marker)
      BY <1>2, <2>1, <2>4, <3>1 DEF StepsLeft, Slices
    <3>3. effective' \in Int /\ 1 <= effective' /\ Batch \in Int /\ remaining \in Int /\ Marker \in Int
      BY <2>3, <2>4, <3>1 DEF Numbers
    <3>4. StepsLeft = Batch + 3 * remaining + 3 + Marker
      BY <2>5, <3>1
    <3>5. StepsLeft' < StepsLeft
      BY ONLY <3>2, <3>3, <3>4, SliceIsLess
    <3> QED
      BY <2>2, <3>5
  <2>7. CASE remaining <= 0
    <3>1. ~(effective' > 0) /\ Positive(remaining) = 0
      BY <2>3, <2>7 DEF Positive, Numbers
    <3>2. StepsLeft' = Batch + 1
      BY <1>2, <2>1, <3>1 DEF StepsLeft, Slices
    <3> QED
      BY <2>2, <2>4, <2>5, <3>1, <3>2 DEF Numbers
  <2> QED
    BY <2>6, <2>7 DEF Numbers
<1> QED
  BY <1>1, <1>2

LEMMA SliceGoesOn ==
    ASSUME Numbers, SliceSet, Due, SliceEnds
    PROVE  ~Running' \/ (Due' /\ StepsLeft' < StepsLeft)
<1> SUFFICES ASSUME Running' PROVE Due' /\ StepsLeft' < StepsLeft
  OBVIOUS
<1>1. /\ pc = "wait" /\ slice >= effective /\ pc' = "loop"
      /\ remaining' = Remaining /\ (Infinite \/ ~(Remaining <= 0))
      /\ UNCHANGED <<sub, call, cancelled, marker, list>>
  BY DEF SliceEnds, Return, Running, objectVars, clientVars, messageVars
<1>2. Due' /\ Infinite' = Infinite
  BY <1>1, DueStays
<1>3. Ticks = 0 /\ Marker' = Marker /\ Marker \in Nat
  BY <1>1 DEF Ticks, Positive, Marker, Numbers
<1>4. CASE cancelled
  BY <1>1, <1>2, <1>3, <1>4 DEF StepsLeft, LastSlice, Numbers
<1>5. CASE ~cancelled
  <2>1. ~Infinite /\ remaining' = remaining - effective /\ remaining' \in Int /\ remaining' > 0
    BY <1>1, <1>5, DueIsFinite DEF Remaining, Subtracted, Numbers
  <2>2. effective > 0
    BY <1>1, <2>1, SliceOfTimeout DEF Numbers
  <2>3. StepsLeft = Batch + (3 * (remaining - effective) + 4 + 0 + Marker)
    BY <1>1, <1>3, <1>5, <2>2 DEF StepsLeft, Slices
  <2>4. StepsLeft' = Batch + (3 * remaining' + 3 + Marker)
    BY <1>1, <1>3, <1>5, <2>1 DEF StepsLeft, Slices, Positive
  <2> QED
    BY <1>2, <1>3, <2>1, <2>3, <2>4 DEF Numbers
<1> QED
  BY <1>4, <1>5

LEMMA MarkerGoesOn ==
    ASSUME Numbers, SliceSet, Due, SkipMarker
    PROVE  Due' /\ StepsLeft' < StepsLeft
<1>1. /\ pc = "wait" /\ pc' = "loop" /\ effective > 0 /\ marker /\ ~marker'
      /\ UNCHANGED <<sub, call, remaining, cancelled>>
  BY DEF SkipMarker, objectVars
<1>2. Due' /\ Infinite' = Infinite
  BY <1>1, DueStays DEF Running
<1>3. Ticks \in Nat /\ Marker = 3 * Interval /\ Marker' = 0
  BY <1>1 DEF Ticks, Positive, Marker, Numbers
<1>4. CASE cancelled
  <2>1. StepsLeft = Batch + (1 + Ticks) /\ StepsLeft' = Batch + 0
    BY <1>1, <1>4 DEF StepsLeft, LastSlice
  <2> QED
    BY <1>2, <1>3, <2>1 DEF Numbers
<1>5. CASE ~cancelled
  <2>1. effective <= remaining /\ effective <= Interval
    BY <1>1, <1>5, SliceOfTimeout, DueIsFinite DEF Numbers
  <2>2. StepsLeft = Batch + (3 * (remaining - effective) + 4 + Ticks + 3 * Interval)
    BY <1>1, <1>3, <1>5 DEF StepsLeft, Slices
  <2>3. StepsLeft' = Batch + (3 * remaining + 3 + 0)
    BY <1>1, <1>3, <1>5, <2>1 DEF StepsLeft, Slices, Positive, Numbers
  <2> QED
    BY <1>2, <1>3, <2>1, <2>2, <2>3 DEF Numbers
<1> QED
  BY <1>2, <1>4, <1>5

\* A call that is to end has a deadline, or the C client answers it at once.
LEMMA DueHasDeadline ==
    ASSUME Types, Times, Due, pc = "wait", NoDeadline
    PROVE  AtOnce
<1>1. CASE Timed
  BY <1>1 DEF Times, Elapsed, NoDeadline, Types, WaitTypes
<1>2. CASE ~Timed
  <2>1. Unlimited
    BY <1>2, TypedTimes DEF Timed, Unlimited, NoDeadline
  <2> QED
    BY <2>1 DEF Due, AtOnce, Unlimited
<1> QED
  BY <1>1, <1>2

LEMMA TickGoesOn ==
    ASSUME Types, Times, Numbers, SliceSet, Due, Tick
    PROVE  Due' /\ StepsLeft' < StepsLeft
<1>0. pc = "wait" /\ ~NoDeadline
  BY DueHasDeadline DEF Tick
<1>1. /\ pc = "wait" /\ slice < effective /\ slice' = slice + 1
      /\ UNCHANGED <<pc, sub, call, remaining, effective, cancelled, marker>>
  BY <1>0 DEF Tick, objectVars, clientVars
<1>2. Due'
  BY <1>1, DueStays DEF Running
<1>3. Ticks' = Ticks - 1 /\ Ticks \in Nat /\ Marker' = Marker /\ Marker \in Nat /\ effective > 0
  BY <1>1 DEF Ticks, Positive, Marker, Numbers
<1>4. CASE cancelled
  <2>1. StepsLeft = Batch + (1 + Ticks) /\ StepsLeft' = Batch + (1 + Ticks')
    BY <1>1, <1>4 DEF StepsLeft, LastSlice
  <2> QED
    BY <1>2, <1>3, <2>1 DEF Numbers
<1>5. CASE ~cancelled
  <2>1. /\ StepsLeft = Batch + (3 * (remaining - effective) + 4 + Ticks + Marker)
        /\ StepsLeft' = Batch + (3 * (remaining - effective) + 4 + Ticks' + Marker)
    BY <1>1, <1>3, <1>5 DEF StepsLeft, Slices
  <2> QED
    BY <1>2, <1>3, <2>1 DEF Numbers
<1> QED
  BY <1>4, <1>5

\* The messages of a batch are at most MaxBatch.
LEMMA FetchGoesOn ==
    ASSUME Numbers, SliceSet, Due, Fetch
    PROVE  Due' /\ StepsLeft' < StepsLeft
<1>1. /\ pc = "wait" /\ pc' = "convert" /\ UNCHANGED <<sub, call, cancelled>>
      /\ \E n \in 1..MaxBatch : list' = [i \in 1..n |-> taken + i]
  BY DEF Fetch, CanTake, objectVars
<1>2. Due'
  BY <1>1, DueStays DEF Running
<1>3. StepsLeft' = Len(list') + 1
  BY <1>1 DEF StepsLeft
<1>4. Len(list') \in Nat /\ Len(list') <= MaxBatch
  <2>1. PICK n \in 1..MaxBatch : list' = [i \in 1..n |-> taken + i]
    BY <1>1
  <2>2. n \in Nat /\ n <= MaxBatch
    BY <2>1, BoundsAssumption
  <2>3. Len([i \in 1..n |-> taken + i]) = n
    BY ONLY <2>2
  <2> QED
    BY <2>1, <2>2, <2>3
<1>5. Ticks \in Nat /\ Marker \in Nat
  BY DEF Ticks, Positive, Marker, Numbers
<1>6. StepsLeft > Batch
  <2>1. CASE cancelled
    BY <1>1, <1>5, <2>1 DEF StepsLeft, LastSlice, Numbers
  <2>2. CASE ~cancelled /\ effective > 0
    <3>1. remaining - effective \in Int /\ remaining - effective >= 0
      BY <1>1, <2>2, SliceOfTimeout, DueIsFinite DEF Numbers
    <3> QED
      BY <1>1, <1>5, <2>2, <3>1 DEF StepsLeft, Slices, Numbers
  <2>3. CASE ~cancelled /\ ~(effective > 0)
    BY <1>1, <2>3 DEF StepsLeft, Slices, Numbers
  <2> QED
    BY <2>1, <2>2, <2>3
<1>7. Batch = MaxBatch + 1 /\ MaxBatch \in Nat /\ StepsLeft \in Nat
  BY BoundsAssumption, StepsAreNumber DEF Batch
<1> QED
  BY <1>2, <1>3, <1>4, <1>6, <1>7

LEMMA ConvertGoesOn ==
    ASSUME Types, Due, FetchConvert
    PROVE  Due' /\ StepsLeft' < StepsLeft
<1>1. /\ pc = "convert" /\ pc' = pc /\ UNCHANGED <<sub, call, cancelled>>
      /\ list # <<>> /\ list' = Tail(list)
  BY DEF FetchConvert, ConvertOne, objectVars, waitVars
<1>2. Due'
  BY <1>1, DueStays DEF Running
<1>3. list \in Seq(Number)
  BY DEF Types, MessageTypes
<1>4. Len(list) \in Nat /\ Len(Tail(list)) = Len(list) - 1
  BY <1>1, <1>3, HeadTailProperties, EmptySeq
<1> QED
  BY <1>1, <1>2, <1>4 DEF StepsLeft

\* Every other step that is the call's ends it.
LEMMA CallEnds ==
    ConversionRaises \/ FetchReturn \/ NextMsg \/ WatcherNext \/ Completes \/ Fails => ~Running'
BY DEF ConversionRaises, RaiseInConversion, FetchReturn, NextMsg, WatcherNext, Completes, Fails, Return,
   Running

\* And no step of anybody else puts its end off: a cancellation makes it come earlier.
LEMMA OthersGoOn ==
    ASSUME Numbers, SliceSet, Due,
           \/ Ack \/ Unsubscribe \/ AutoUnsubscribe \/ Drain \/ Destroy \/ BeginCall
           \/ Arrive \/ DrainComplete \/ Cancel \/ UNCHANGED vars
    PROVE  /\ Due' /\ StepsLeft' <= StepsLeft
           /\ UNCHANGED <<pc, slice, effective, call, list>>
           /\ sub # "draining" => sub' # "draining"
<1>1. ~(Ack \/ Unsubscribe \/ AutoUnsubscribe \/ Drain \/ Destroy \/ BeginCall)
  BY DEF Due, Running, Ack, Unsubscribe, AutoUnsubscribe, Drain, Destroy, BeginCall, Begin
<1>2. /\ UNCHANGED <<pc, slice, effective, call, list, remaining, marker>>
      /\ cancelled' = cancelled \/ (~cancelled /\ cancelled')
      /\ sub # "draining" => sub' # "draining"
  BY <1>1 DEF Arrive, DrainComplete, Cancel, vars, objectVars, clientVars, waitVars, messageVars, Numbers
<1>3. Due' /\ Ticks' = Ticks /\ Slices' = Slices /\ LastSlice' = LastSlice
  <2>1. Due'
    BY <1>2, DueStays DEF Due, Running
  <2> QED
    BY <1>2, <2>1 DEF Ticks, Slices, LastSlice, Marker
<1>4. StepsLeft \in Nat
  BY StepsAreNumber
<1>5. CASE cancelled' = cancelled
  BY <1>2, <1>3, <1>4, <1>5 DEF StepsLeft
<1>6. CASE ~cancelled /\ cancelled' /\ pc = "convert"
  BY <1>2, <1>3, <1>4, <1>6 DEF StepsLeft
<1>7. CASE ~cancelled /\ cancelled' /\ pc # "convert"
  <2>1. StepsLeft = Batch + Slices /\ StepsLeft' = Batch + LastSlice
    BY <1>2, <1>3, <1>7 DEF StepsLeft
  <2>2. Ticks \in Nat /\ Marker \in Nat /\ Positive(remaining) \in Nat
    BY DEF Ticks, Positive, Marker, Numbers
  <2>3. CASE pc = "loop"
    BY <2>1, <2>2, <2>3, <1>2, <1>3 DEF Slices, LastSlice, Numbers
  <2>4. CASE pc = "wait" /\ effective > 0
    <3>1. remaining - effective \in Int /\ remaining - effective >= 0
      BY <1>7, <2>4, SliceOfTimeout, DueIsFinite DEF Numbers
    <3> QED
      BY <2>1, <2>2, <2>4, <3>1, <1>2, <1>3 DEF Slices, LastSlice, Numbers
  <2>5. CASE pc = "wait" /\ ~(effective > 0)
    <3>1. Ticks = 0
      BY <2>5 DEF Ticks, Positive, Numbers
    <3> QED
      BY <2>1, <2>5, <3>1, <1>2, <1>3 DEF Slices, LastSlice, Numbers
  <2> QED
    BY <1>7, <2>3, <2>4, <2>5 DEF Due, Running, Numbers
<1> QED
  BY <1>2, <1>3, <1>5, <1>6, <1>7 DEF Numbers

\* Weak fairness of the thread, of the clock and of the C client where it answers at once, with the
\* guards written out: ENABLED has no proof rules here.
CodeReady ==
    \/ pc \in {"loop", "convert"}
    \/ pc = "wait" /\ slice >= effective /\ (effective > 0 \/ call.op = "nextMsg")
CodeRuns == []<>~CodeReady \/ []<><<Code>>_vars

TickReady == pc = "wait" /\ ~AtOnce /\ slice < effective
TickRuns == []<>~TickReady \/ []<><<Tick>>_vars

AnswerReady == pc = "wait" /\ AtOnce
AnswersRun == []<>~AnswerReady \/ []<><<Answers>>_vars

\* They are what the fairness of the specification says of the three actions.
LEMMA FairCode == WF_vars(Code) /\ [](CodeReady => ENABLED <<Code>>_vars) => CodeRuns
BY PTL DEF CodeRuns

LEMMA FairTick == WF_vars(Tick) /\ [](TickReady => ENABLED <<Tick>>_vars) => TickRuns
BY PTL DEF TickRuns

LEMMA FairAnswers == WF_vars(Answers) /\ [](AnswerReady => ENABLED <<Answers>>_vars) => AnswersRun
BY PTL DEF AnswersRun

EndInv == Types /\ Times /\ SliceSet

LEMMA SomeoneReady == EndInv /\ Due => CodeReady \/ TickReady \/ AnswerReady
<1> SUFFICES ASSUME EndInv, Numbers, Due PROVE CodeReady \/ TickReady \/ AnswerReady
  BY AreNumbers DEF EndInv
<1>1. CASE pc # "wait" \/ AtOnce
  BY <1>1 DEF Numbers, Due, Running, CodeReady, AnswerReady
<1>2. CASE pc = "wait" /\ ~AtOnce
  <2>1. ~NoDeadline
    BY <1>2, DueHasDeadline DEF EndInv
  <2>2. effective > 0 \/ call.op = "nextMsg"
    BY <1>2, <2>1 DEF NoDeadline, AtOnce, EndInv, SliceSet, Running, Op, SubscriptionOp, Numbers
  <2> QED
    BY <1>2, <2>2 DEF CodeReady, TickReady, Numbers
<1> QED
  BY <1>1, <1>2

LEMMA StepGoesOn ==
    ASSUME EndInv, EndInv', Due,
           \/ Code \/ Tick \/ Answers
           \/ NextMsg \/ Fetch \/ WatcherNext \/ SkipMarker \/ Completes \/ Fails
    PROVE  ~Running' \/ (Due' /\ StepsLeft' < StepsLeft)
<1>1. Numbers
  BY AreNumbers DEF EndInv
<1>2. CASE LoopTop
  BY <1>1, <1>2, LoopTopGoesOn DEF EndInv
<1>3. CASE SliceEnds
  BY <1>1, <1>3, SliceGoesOn DEF EndInv
<1>4. CASE FetchConvert
  BY <1>4, ConvertGoesOn DEF EndInv
<1>5. CASE Tick \/ SkipMarker \/ Fetch
  BY <1>1, <1>5, TickGoesOn, MarkerGoesOn, FetchGoesOn DEF EndInv
<1>6. CASE ConversionRaises \/ FetchReturn \/ NextMsg \/ WatcherNext \/ Completes \/ Fails
  BY <1>6, CallEnds
<1> QED
  BY <1>2, <1>3, <1>4, <1>5, <1>6 DEF Code, Answers

LEMMA StepOrOther ==
    ASSUME EndInv, EndInv', Due, [Next]_vars
    PROVE  \/ ~Running'
           \/ Due' /\ StepsLeft' < StepsLeft
           \/ /\ Due' /\ StepsLeft' <= StepsLeft
              /\ UNCHANGED <<pc, slice, effective, call, list>>
              /\ sub # "draining" => sub' # "draining"
<1>1. Numbers /\ SliceSet
  BY AreNumbers DEF EndInv
<1>2. CASE \/ Code \/ Tick
           \/ NextMsg \/ Fetch \/ WatcherNext \/ SkipMarker \/ Completes \/ Fails
  BY <1>2, StepGoesOn
<1>3. CASE \/ Ack \/ Unsubscribe \/ AutoUnsubscribe \/ Drain \/ Destroy \/ BeginCall
           \/ Arrive \/ DrainComplete \/ Cancel \/ UNCHANGED vars
  BY <1>1, <1>3, OthersGoOn
<1> QED
  BY <1>2, <1>3 DEF Next

ComesToEnd(n) == (Due /\ StepsLeft = n) ~> (~Running \/ (Due /\ StepsLeft < n))

LEMMA EndComes ==
    ASSUME NEW n \in Nat
    PROVE  Spec /\ CodeRuns /\ TickRuns /\ AnswersRun => ComesToEnd(n)
<1> DEFINE At == Due /\ StepsLeft = n
           Less == Due /\ StepsLeft < n
           Ended == ~Running
           CodeTurn == At /\ CodeReady
           TickTurn == At /\ TickReady
           AnswerTurn == At /\ AnswerReady
<1>1. Spec => []EndInv
  BY TypesHold, TimesHold, InitSlice, NextSlice, PTL DEF Spec, EndInv
<1>2. EndInv /\ At => CodeTurn \/ TickTurn \/ AnswerTurn
  BY SomeoneReady
<1>3. /\ CodeTurn => CodeReady
      /\ TickTurn => TickReady
      /\ AnswerTurn => AnswerReady
  OBVIOUS
<1>n. EndInv /\ Due => StepsLeft \in Nat
  BY StepsAreNumber, AreNumbers DEF EndInv
<1>p. (EndInv /\ Due)' => (StepsLeft \in Nat)'
  BY <1>n, PTL
<1>4. EndInv /\ EndInv' /\ At /\ [Next]_vars =>
         \/ (Ended \/ Less)'
         \/ At' /\ UNCHANGED <<pc, slice, effective, call, list>> /\ (sub # "draining" => sub' # "draining")
  <2> SUFFICES ASSUME EndInv, EndInv', At, [Next]_vars, ~Ended', ~Less'
               PROVE  /\ At' /\ UNCHANGED <<pc, slice, effective, call, list>>
                      /\ sub # "draining" => sub' # "draining"
    OBVIOUS
  <2>1. \/ Due' /\ StepsLeft' < StepsLeft
        \/ /\ Due' /\ StepsLeft' <= StepsLeft /\ UNCHANGED <<pc, slice, effective, call, list>>
           /\ sub # "draining" => sub' # "draining"
    BY StepOrOther
  <2> QED
    BY <2>1, <1>p
<1>5. EndInv /\ EndInv' /\ CodeTurn /\ [Next]_vars => (Ended \/ Less \/ CodeTurn)'
  BY <1>4 DEF CodeReady
<1>6. EndInv /\ EndInv' /\ TickTurn /\ [Next]_vars => (Ended \/ Less \/ TickTurn \/ AnswerTurn)'
  BY <1>4 DEF TickReady, AnswerReady
<1>7. EndInv /\ EndInv' /\ AnswerTurn /\ [Next]_vars => (Ended \/ Less \/ AnswerTurn)'
  BY <1>4 DEF AnswerReady, AtOnce
<1>8. EndInv /\ EndInv' /\ At /\ (<<Code>>_vars \/ <<Tick>>_vars \/ <<Answers>>_vars) => (Ended \/ Less)'
  BY StepGoesOn
<1>9. CodeTurn \/ TickTurn \/ AnswerTurn => At
  OBVIOUS
<1> HIDE DEF At, Less, Ended, CodeTurn, TickTurn, AnswerTurn
<1>10. Spec /\ CodeRuns /\ TickRuns /\ AnswersRun => [](At => <>(Ended \/ Less))
  BY <1>1, <1>2, <1>3, <1>5, <1>6, <1>7, <1>8, <1>9, PTL DEF Spec, CodeRuns, TickRuns, AnswersRun
<1> QED
  BY <1>10, PTL DEF ComesToEnd, At, Less, Ended

\* A call that has a timeout or was cancelled, and one of waitForDrainCompletion() without a limit
\* while there is no drain to wait for, comes, from any number of steps that the thread, the clock
\* and the C client have left in it, to a smaller number or to its return, for any poll interval,
\* timeout and batch: the step from which CallReturns follows by induction on that number.
THEOREM CallComesToEnd ==
    Spec /\ CodeRuns /\ TickRuns /\ AnswersRun => \A n \in Nat : ComesToEnd(n)
BY EndComes

=============================================================================
