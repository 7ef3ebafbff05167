----------------------------- MODULE LeakyBucket -----------------------------
(***************************************************************************)
(* The SUERM by itself, over any sequence of signal units: what its        *)
(* counter, which forgets, says of the signal units it was given.          *)
(***************************************************************************)
EXTENDS Monitor, Sequences, FiniteSets

CONSTANTS
    Threshold,    \* T: the count at which the link has failed (64)
    Interval,     \* D: how many signal units pay for one error (256)
    MaxUnits      \* bound: signal units received without a reset

ASSUME BucketBounds ==
    /\ Threshold \in Nat /\ Threshold >= 1
    /\ Interval \in Nat /\ Interval >= 1
    /\ MaxUnits \in Nat

VARIABLES
    suerm,    \* the monitor
    units     \* what it was given since it was reset: TRUE for one in error

bucketVars == <<suerm, units>>

BucketInit == suerm = Suerm_new(Threshold, Interval) /\ units = <<>>

Record(in_error) ==
    /\ Len(units) < MaxUnits
    /\ suerm' = Suerm_record(suerm, in_error)
    /\ units' = Append(units, in_error)

Reset == suerm' = Suerm_reset(suerm) /\ units' = <<>>

BucketNext == Reset \/ \E in_error \in BOOLEAN : Record(in_error)

BucketSpec == BucketInit /\ [][BucketNext]_bucketVars

-----------------------------------------------------------------------------
\* Of the first n units: the errors that came after the k-th leak, and how many
\* of them the leaks since then have not taken away.
errors_after(k, n) == Cardinality({i \in k * Interval + 1 .. n : units[i]})
leaks(n) == n \div Interval
excess(k, n) == errors_after(k, n) - (leaks(n) - k)

\* Failure is a matter of the units received, and of nothing else: the monitor
\* has failed when, and only when, the errors of some stretch of units, from a
\* leak (or the reset) onwards, were Threshold more than the leaks in it.  So a
\* burst of Threshold errors between two leaks always takes the link down, one
\* error between any two leaks never does (with a Threshold of 2), whichever unit
\* it falls on, and the leaks of an empty bucket save nothing up.
FailsOnExcess ==
    suerm.failed <=>
        \E n \in 0 .. Len(units) : \E k \in 0 .. leaks(n) : excess(k, n) >= Threshold
=============================================================================
