--------------------------- MODULE JetStreamConfig ---------------------------
(***************************************************************************)
(* The conversions of stream and consumer configurations between the       *)
(* hashes of Qore code and the structures of the C client                  *)
(* (QoreNatsJetStream: configureStreamConfig(), streamInfoToHash(),        *)
(* configureConsumerConfig(), consumerInfoToHash()).                       *)
(*                                                                         *)
(* A hash or a structure is a function on the members that were set; a     *)
(* member that was not keeps the value the C client initialises it with.   *)
(* Members are named as in the hashes, and sorted by what happens to them: *)
(* a number keeps its 64 bits, a narrow one is cast to an int or an        *)
(* enumeration, a time is in milliseconds in the hash and in nanoseconds   *)
(* in the structure, and texts, lists and flags are copied.                *)
(***************************************************************************)
EXTENDS Integers, Functions

CONSTANTS
    Wide,       \* a 64-bit number is one of the Wide numbers around 0
    Narrow,     \* an int likewise
    Scale       \* nanoseconds per millisecond

ASSUME WidthAssumption ==
    /\ Wide \in Nat \ {0} /\ Narrow \in Nat \ {0} /\ Scale \in Nat \ {0}
    /\ Wide % 2 = 0 /\ Narrow % 2 = 0

Sort == {"copied", "number", "narrow", "time", "times"}

\* configureStreamConfig(): the members it sets from the hash.
StreamMembers ==
    [copied |-> {"name", "description", "subjects", "sealed", "deny_delete", "deny_purge",
                 "allow_rollup", "no_ack", "allow_direct", "mirror_direct", "discard_new_per_subject"},
     number |-> {"max_msgs", "max_bytes", "max_msgs_per_subject", "max_consumers"},
     narrow |-> {"retention", "max_msg_size", "storage", "num_replicas", "discard"},
     time   |-> {"max_age", "duplicate_window_ms"},
     times  |-> {}]

\* streamInfoToHash(): the members that the hash of the stream's information has.
StreamInfoMembers == UNION {StreamMembers[sort] : sort \in Sort}

\* configureConsumerConfig().
ConsumerMembers ==
    [copied |-> {"durable_name", "deliver_subject", "deliver_group", "description", "filter_subject",
                 "name", "flow_control", "headers_only", "memory_storage", "filter_subjects",
                 "sample_frequency"},
     number |-> {"opt_start_seq", "rate_limit_bps", "max_request_batch", "max_request_max_bytes",
                 "num_replicas"},
     narrow |-> {"ack_policy", "deliver_policy", "replay_policy", "max_deliver", "max_ack_pending"},
     time   |-> {"ack_wait", "heartbeat_ms", "max_request_expires_ms", "inactive_threshold_ms"},
     times  |-> {"back_off"}]

\* consumerInfoToHash(): not all of them.
ConsumerInfoMembers ==
    (UNION {ConsumerMembers[sort] : sort \in Sort}) \ {"opt_start_seq", "back_off", "filter_subjects"}

Members(entity) == IF entity = "stream" THEN StreamMembers ELSE ConsumerMembers
InfoMembers(entity) == IF entity = "stream" THEN StreamInfoMembers ELSE ConsumerInfoMembers

\* A number that is kept in as many bits as the range has values (two's complement).
Wrap(n, range) == ((n + (range \div 2)) % range) - (range \div 2)

ToNanoseconds(n) == Wrap(n * Scale, Wide)

\* C++ division truncates towards zero.
DividedByScale(n) == IF n < 0 THEN -((-n) \div Scale) ELSE n \div Scale
Unscaled(n) == n                                \* mutant: nanoseconds are given to the script
ToMilliseconds(n) == DividedByScale(n)

\* The structure for a hash.
Configured(entity, hash) ==
    [member \in DOMAIN hash |->
        LET n == hash[member]
            sorted == Members(entity)
        IN  CASE member \in sorted.time \cup sorted.times -> ToNanoseconds(n)
              [] member \in sorted.narrow -> Wrap(n, Narrow)
              [] OTHER -> n]

\* The hash for the structure in the server's information.
InfoHash(entity, config) ==
    [member \in DOMAIN config \cap InfoMembers(entity) |->
        IF member \in Members(entity).time THEN ToMilliseconds(config[member]) ELSE config[member]]

\* The numbers that a member can hold, as the hash gives them.
Fits(entity, member, n) ==
    LET sorted == Members(entity)
    IN  CASE member \in sorted.time -> n * Scale \in -(Wide \div 2) .. (Wide \div 2 - 1)
          [] member \in sorted.narrow -> n \in -(Narrow \div 2) .. (Narrow \div 2 - 1)
          [] OTHER -> TRUE
=============================================================================
