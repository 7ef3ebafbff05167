----------------------------- MODULE MCLinkPair -----------------------------
(* Instances of LinkPair for TLC. *)
EXTENDS LinkPair

CONSTANTS
    T4Normal, T4Emergency,     \* the proving periods
    Emergency                  \* the links that ask for emergency alignment

MCOctets == [m \in Msu |-> 3]

MCConfig == [l \in Links |->
    [method |-> Basic, emergency |-> l \in Emergency,
     t1_aligned_ready |-> T4Normal + 3, t2_not_aligned |-> 3, t3_aligned |-> 3,
     t4_proving_normal |-> T4Normal, t4_proving_emergency |-> T4Emergency,
     t6_remote_congestion |-> 2, t7_excessive_delay |-> 2,
     aerm_threshold_normal |-> 1, aerm_threshold_emergency |-> 1,
     suerm_threshold |-> 1, suerm_decrement_interval |-> 2,
     proving_attempts |-> 2]]
=============================================================================
