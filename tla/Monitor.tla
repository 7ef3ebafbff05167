------------------------------- MODULE Monitor -------------------------------
(***************************************************************************)
(* The error-rate monitors of src/src/monitor.rs as operators on their     *)
(* records.  Aerm counts signal units in error while a link is proving;    *)
(* Suerm is a leaky bucket over everything received in service.  Counters  *)
(* are natural numbers: a u32 saturates far above any threshold, and both  *)
(* monitors have tripped when it does.  Suerm_record_bug and               *)
(* Suerm_leak_bug are mistakes that the properties are run against; no     *)
(* specification uses them.                                                *)
(***************************************************************************)
EXTENDS Integers

saturating_sub(a, b) == IF a >= b THEN a - b ELSE 0

-----------------------------------------------------------------------------
(* Alignment Error Rate Monitor. *)

Aerm == [count : Nat, threshold : Nat]

Aerm_restart(threshold) == [count |-> 0, threshold |-> threshold]

Aerm_record_error(aerm) == [aerm EXCEPT !.count = @ + 1]

Aerm_is_tripped(aerm) == aerm.count >= aerm.threshold

-----------------------------------------------------------------------------
(* Signal Unit Error Rate Monitor. *)

Suerm == [count : Nat, threshold : Nat, decrement_interval : Nat,
          received_since_leak : Nat, failed : BOOLEAN]

Suerm_new(threshold, decrement_interval) ==
    [count |-> 0, threshold |-> threshold,
     decrement_interval |-> decrement_interval,
     received_since_leak |-> 0, failed |-> FALSE]

Suerm_reset(suerm) ==
    [suerm EXCEPT !.count = 0, !.received_since_leak = 0, !.failed = FALSE]

\* Fails only beyond the threshold.
Suerm_record_bug(suerm, in_error) ==
    LET received == suerm.received_since_leak + 1
        leaks    == received >= suerm.decrement_interval
        filled   == IF in_error THEN suerm.count + 1 ELSE suerm.count
        count    == IF leaks THEN saturating_sub(filled, 1) ELSE filled
    IN  [suerm EXCEPT !.received_since_leak = IF leaks THEN 0 ELSE received,
                      !.count  = count,
                      !.failed = @ \/ count > suerm.threshold]

\* Leaks before it fills.
Suerm_leak_bug(suerm, in_error) ==
    LET received == suerm.received_since_leak + 1
        leaks    == received >= suerm.decrement_interval
        left     == IF leaks THEN saturating_sub(suerm.count, 1) ELSE suerm.count
        count    == IF in_error THEN left + 1 ELSE left
    IN  [suerm EXCEPT !.received_since_leak = IF leaks THEN 0 ELSE received,
                      !.count  = count,
                      !.failed = @ \/ count >= suerm.threshold]

\* Counts one signal unit received.  The bucket leaks before it is compared
\* with the threshold, and a failure is remembered.
Suerm_record(suerm, in_error) ==
    LET received == suerm.received_since_leak + 1
        leaks    == received >= suerm.decrement_interval
        filled   == IF in_error THEN suerm.count + 1 ELSE suerm.count
        count    == IF leaks THEN saturating_sub(filled, 1) ELSE filled
    IN  [suerm EXCEPT !.received_since_leak = IF leaks THEN 0 ELSE received,
                      !.count  = count,
                      !.failed = @ \/ count >= suerm.threshold]
=============================================================================
