---------------------------- MODULE MCLinkTraffic ----------------------------
(* Instances of LinkTraffic for TLC. *)
EXTENDS LinkTraffic

CONSTANTS Method, T6, T7

MCOctets == [m \in Msu |-> 3]
MCPcr == Pcr(2, 100)

MCConfig == [l \in Links |->
    [method |-> Method, emergency |-> FALSE,
     t1_aligned_ready |-> 3, t2_not_aligned |-> 3, t3_aligned |-> 3,
     t4_proving_normal |-> 1, t4_proving_emergency |-> 1,
     t6_remote_congestion |-> T6, t7_excessive_delay |-> T7,
     aerm_threshold_normal |-> 1, aerm_threshold_emergency |-> 1,
     suerm_threshold |-> 2, suerm_decrement_interval |-> 4,
     proving_attempts |-> 2]]
=============================================================================
