----------------------------- MODULE MessageStream -----------------------------
(***************************************************************************)
(* What a NatsChannelSubscription promises the one that reads its channel: *)
(* a queue.  The messages come out in the order in which they went in; one *)
(* is lost only with all those behind it, when the stream is cut; and the  *)
(* end of the stream is reported after the last message that is left in    *)
(* it, and is final.                                                       *)
(*                                                                         *)
(* Nothing is said here of threads, of the channel's size and of who cuts  *)
(* the stream.                                                             *)
(***************************************************************************)
EXTENDS Naturals, Sequences

VARIABLES
    arrived,    \* how many messages arrived; they are numbered in that order
    waiting,    \* those that the reader can still get
    received,   \* those that it got
    state       \* "open", "cut": no further message comes, or "ended": the reader knows

vars == <<arrived, waiting, received, state>>

Init ==
    /\ arrived = 0
    /\ waiting = <<>>
    /\ received = <<>>
    /\ state = "open"

Accept ==
    /\ state = "open"
    /\ arrived' = arrived + 1
    /\ waiting' = Append(waiting, arrived')
    /\ UNCHANGED <<received, state>>

\* A message that arrives behind the cut.
Ignore ==
    /\ state # "open"
    /\ arrived' = arrived + 1
    /\ UNCHANGED <<waiting, received, state>>

\* The stream is cut behind any of its messages.
Cut ==
    /\ state # "ended"
    /\ state' = "cut"
    /\ \E n \in 0..Len(waiting) : waiting' = SubSeq(waiting, 1, n)
    /\ UNCHANGED <<arrived, received>>

Read ==
    /\ state # "ended"
    /\ waiting # <<>>
    /\ received' = Append(received, Head(waiting))
    /\ waiting' = Tail(waiting)
    /\ UNCHANGED <<arrived, state>>

End ==
    /\ state = "cut"
    /\ waiting = <<>>
    /\ state' = "ended"
    /\ UNCHANGED <<arrived, waiting, received>>

Next == Accept \/ Ignore \/ Cut \/ Read \/ End

Spec == Init /\ [][Next]_vars
=============================================================================
