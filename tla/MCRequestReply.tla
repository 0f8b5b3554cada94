--------------------------- MODULE MCRequestReply ---------------------------
(* Instances of RequestReply for TLC. *)
EXTENDS RequestReply, TLC

\* Threads and replies are interchangeable; the muxes too.
Symmetry == Permutations(Thread) \cup Permutations(Message) \cup Permutations(Mux)
=============================================================================
