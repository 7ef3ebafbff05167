----------------------------- MODULE MCLinkAlone -----------------------------
(* Instances of LinkAlone for TLC: a link with periods of one or two ticks. *)
EXTENDS LinkAlone

MCOctets == [m \in Msu |-> 3]

MCConfig(m, normal, emergency) ==
    [method |-> m, emergency |-> FALSE,
     t1_aligned_ready |-> 1, t2_not_aligned |-> 2, t3_aligned |-> 1,
     t4_proving_normal |-> 2, t4_proving_emergency |-> 1,
     t6_remote_congestion |-> 2, t7_excessive_delay |-> 2,
     aerm_threshold_normal |-> normal, aerm_threshold_emergency |-> emergency,
     suerm_threshold |-> 2, suerm_decrement_interval |-> 2,
     proving_attempts |-> 2]

MCPcr == [l \in Links |-> MCConfig(Pcr(2, 100), 2, 1)]

\* LSSUs are handled without a look at their header, and FISUs without a look at
\* their forward part.
Lssu(status) == [kind |-> status, bsn |-> 0, bib |-> TRUE, fsn |-> 0, fib |-> TRUE, msu |-> Fisu]
MCLssus == {Lssu(s) : s \in StatusIndication}
MCFisus == [kind : {"FISU"}, bsn : SequenceNumber, bib : BOOLEAN,
            fsn : {0}, fib : {TRUE}, msu : {Fisu}]
MCMsus == [kind : {"MSU"}, bsn : SequenceNumber, bib : {TRUE},
           fsn : SequenceNumber, fib : {TRUE}, msu : Msu]
MCHeard == MCLssus \cup MCFisus \cup MCMsus
=============================================================================
