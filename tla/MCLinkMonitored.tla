--------------------------- MODULE MCLinkMonitored ---------------------------
(* Instances of LinkAlone and of LeakyBucket for TLC: a SUERM by itself is given
   every sequence of signal units while no link has been called, and the links are
   called while it is unused.  Neither sees the other. *)
EXTENDS MCLinkAlone, LeakyBucket

Unused == BucketInit /\ UNCHANGED bucketVars
Uncalled == (\A l \in Links : link[l] = Mtp2Link_new(config[l])) /\ UNCHANGED vars

MonitoredInit == BucketInit /\ Init

\* Next, call by call, or BucketNext.
MonitoredNext ==
    \/ \E l \in Links :
           \/ PollEvent(l) /\ Unused
           \/ Start(l) /\ Unused
           \/ Stop(l) /\ Unused
           \/ \E on \in BOOLEAN : SetEmergency(l, on) /\ Unused
           \/ \E on \in BOOLEAN : LocalBusy(l, on) /\ Unused
           \/ LocalProcessorOutage(l) /\ Unused
           \/ LocalProcessorRecovered(l) /\ Unused
           \/ Tick(l) /\ Unused
           \/ Submit(l) /\ Unused
           \/ PollTransmit(l) /\ Unused
           \/ Receive(l) /\ Unused
           \/ HandleCorruptedSu(l) /\ Unused
    \/ Reset /\ Uncalled
    \/ \E in_error \in BOOLEAN : Record(in_error) /\ Uncalled

MonitoredFairSpec ==
    /\ MonitoredInit /\ [][MonitoredNext]_<<vars, bucketVars>>
    /\ \A l \in Links : SF_vars(Tick(l)) /\ WF_vars(PollEvent(l))
=============================================================================
