---------------------------- MODULE LinkAloneProofs ----------------------------
(***************************************************************************)
(* Theorems about links whose peers may do anything (LinkAlone): for every *)
(* set of links, every configuration of each, every modulus of the         *)
(* sequence numbers and every set of signal units that may arrive.  Then   *)
(* about the SUERM that each of them carries (LeakyBucket): for every      *)
(* threshold, interval and sequence of signal units.                       *)
(***************************************************************************)
EXTENDS LinkAlone, LeakyBucket, Mtp2LinkProofs

\* Every step of a specification of links preserves the invariant and is a step
\* of the abstract service.
LEMMA AloneStep ==
    ASSUME Engine, [Next]_vars
    PROVE  Engine' /\ ServiceStep
<1>1. CASE UNCHANGED vars
  BY <1>1, EngineStutter
<1>2. ASSUME NEW l \in Links, Control(l)
      PROVE  Engine' /\ ServiceStep
  BY <1>2, EngineControl
<1>3. ASSUME NEW l \in Links, Submit(l) \/ PollTransmit(l) \/ Receive(l) \/ HandleCorruptedSu(l)
      PROVE  Engine' /\ ServiceStep
  BY <1>3, EngineTraffic, PeerBounds DEF Submit, Receive
<1> QED BY <1>1, <1>2, <1>3 DEF Next

\* The invariant: every link is Sound, and what MTP3 has been told, with the
\* events it has yet to read, is whether the link carries traffic.
THEOREM EngineInvariant == Spec => []Engine
<1>1. Init => Engine
  BY EngineInit
<1>2. Engine /\ [Next]_vars => Engine'
  BY AloneStep
<1> QED BY <1>1, <1>2, PTL DEF Spec

\* The record of a link stays in its set, whatever its peer sends and its user
\* and driver call.
THEOREM AloneTypeCorrect == Spec => []TypeOK
<1>1. Engine => TypeOK
  BY EngineImplies
<1> QED BY <1>1, EngineInvariant, PTL

\* Exactly the timers of a link's state run in it (start_timer, stop_timer and
\* tick in link.rs): none is left over from another state, none forgotten.
THEOREM TimersCorrect == Spec => []TimersMatchState
<1>1. Engine => TimersMatchState
  BY EngineImplies
<1> QED BY <1>1, EngineInvariant, PTL

\* Nothing of an earlier period of service reaches the next one: start() makes
\* the error correction anew, and no signal unit touches it before service.
THEOREM FreshCorrect == Spec => []FreshBeforeService
<1>1. Engine => FreshBeforeService
  BY EngineImplies
<1> QED BY <1>1, EngineInvariant, PTL

\* The state and the flag of the local processor outage agree, in whatever order
\* outages, expiries and signal units come.
THEOREM OutageCorrect == Spec => []OutageMatchesState
<1>1. Engine => OutageMatchesState
  BY EngineImplies
<1> QED BY <1>1, EngineInvariant, PTL

\* No link is past proving or in service with an error-rate monitor at its
\* threshold, if every threshold is positive: the code does not refuse one of 0,
\* with which a link would go into service with a monitor at its threshold.
THEOREM ErrorRateCorrect ==
    ASSUME \A l \in Links : MonitorsSet(config[l])
    PROVE  Spec => []ErrorRateWatched
<1>1. Engine => ErrorRateWatched
  BY EngineImplies
<1> QED BY <1>1, EngineInvariant, PTL

\* What MTP3 has read and the events it has yet to read tell it the truth about
\* the service: every entry and every way out has raised its event, in order.
THEOREM Mtp3Correct == Spec => []Mtp3Informed
<1>1. Engine => Mtp3Informed
  BY EngineImplies
<1> QED BY <1>1, EngineInvariant, PTL

\* A link is a link service: it comes up only by way of alignment and proving,
\* and each change of its service raises exactly one event.
THEOREM ServiceImplemented == Spec => ImplementsService
<1>1. Init => Engine /\ Service!Init
  BY EngineInit
<1>2. Engine /\ [Next]_vars => Engine' /\ [Service!Next]_(Service!vars)
  BY AloneStep DEF ServiceStep
<1> QED BY <1>1, <1>2, PTL DEF Spec, ImplementsService, Service!Spec

-----------------------------------------------------------------------------
(* The SUERM. *)

\* Division with remainder by the interval of the leak.
LEMMA LeaksAre ==
    ASSUME NEW n \in Nat
    PROVE  /\ leaks(n) \in Nat /\ (n % Interval) \in 0 .. Interval - 1
           /\ n = Interval * leaks(n) + (n % Interval)
BY BucketBounds DEF leaks

\* ... which is the only one.
LEMMA LeaksOnly ==
    ASSUME NEW n \in Nat, NEW q \in Nat, NEW r \in 0 .. Interval - 1, n = Interval * q + r
    PROVE  leaks(n) = q /\ (n % Interval) = r
<1>1. /\ leaks(n) \in Nat /\ (n % Interval) \in 0 .. Interval - 1
      /\ n = Interval * leaks(n) + (n % Interval)
  BY LeaksAre
<1>2. Interval * (leaks(n) - q) = r - (n % Interval)
  BY <1>1, BucketBounds
<1>3. ASSUME NEW x \in Int, NEW z \in Int, z = Interval * x, z < Interval, z > -Interval
      PROVE  x = 0
  <2>1. ASSUME x >= 1 PROVE FALSE
    BY <1>3, <2>1, BucketBounds
  <2>2. ASSUME x <= -1 PROVE FALSE
    BY <1>3, <2>2, BucketBounds
  <2> QED BY <2>1, <2>2
<1>4. leaks(n) - q = 0
  <2>1. leaks(n) - q \in Int /\ r - (n % Interval) \in Int
        /\ r - (n % Interval) < Interval /\ r - (n % Interval) > -Interval
    BY <1>1, BucketBounds
  <2> QED BY <1>2, <1>3, <2>1
<1>5. leaks(n) = q
  BY <1>1, <1>4
<1> QED BY <1>1, <1>2, <1>5, BucketBounds

\* One more unit brings the next leak, or the next step towards it.
LEMMA LeaksNext ==
    ASSUME NEW n \in Nat
    PROVE  IF (n % Interval) + 1 >= Interval
           THEN /\ leaks(n + 1) = leaks(n) + 1 /\ (n + 1) % Interval = 0
                /\ Interval * leaks(n + 1) = n + 1
           ELSE leaks(n + 1) = leaks(n) /\ (n + 1) % Interval = (n % Interval) + 1
<1>1. /\ leaks(n) \in Nat /\ (n % Interval) \in 0 .. Interval - 1
      /\ n = Interval * leaks(n) + (n % Interval)
  BY LeaksAre
<1>2. CASE (n % Interval) + 1 >= Interval
  <2>1. n + 1 = Interval * (leaks(n) + 1) + 0
    BY <1>1, <1>2, BucketBounds
  <2>2. leaks(n + 1) = leaks(n) + 1 /\ (n + 1) % Interval = 0
    BY <1>1, <2>1, LeaksOnly, BucketBounds
  <2> QED BY <1>1, <1>2, <2>1, <2>2, BucketBounds
<1>3. CASE ~((n % Interval) + 1 >= Interval)
  <2>1. n + 1 = Interval * leaks(n) + ((n % Interval) + 1) /\ (n % Interval) + 1 \in 0 .. Interval - 1
    BY <1>1, <1>3, BucketBounds
  <2>2. leaks(n + 1) = leaks(n) /\ (n + 1) % Interval = (n % Interval) + 1
    BY <1>1, <2>1, LeaksOnly, BucketBounds
  <2> QED BY <1>3, <2>2
<1> QED BY <1>2, <1>3

\* The leaks of the first n units lie within them.
LEMMA LeakWithin ==
    ASSUME NEW n \in Nat, NEW k \in 0 .. leaks(n)
    PROVE  k \in Nat /\ k * Interval \in 0 .. n
<1>1. leaks(n) \in Nat /\ (n % Interval) \in Nat /\ n = Interval * leaks(n) + (n % Interval)
  BY LeaksAre, BucketBounds
<1>2. k \in Nat /\ k <= leaks(n)
  BY <1>1
<1>3. k * Interval <= leaks(n) * Interval
  BY <1>1, <1>2, BucketBounds
<1> QED BY <1>1, <1>2, <1>3, BucketBounds

\* The errors of a stretch are a finite number, and none in an empty one.
LEMMA ErrorsCounted ==
    ASSUME units \in Seq(BOOLEAN), NEW n \in 0 .. Len(units), NEW k \in Nat
    PROVE  /\ IsFiniteSet({i \in k * Interval + 1 .. n : units[i]})
           /\ errors_after(k, n) \in Nat
           /\ k * Interval >= n => errors_after(k, n) = 0
<1> DEFINE S == {i \in k * Interval + 1 .. n : units[i]}
<1>1. k * Interval \in Nat
  BY BucketBounds
<1>2. IsFiniteSet(k * Interval + 1 .. n)
  BY <1>1, FS_Interval
<1>3. IsFiniteSet(S)
  BY <1>2, FS_Subset
<1>4. k * Interval >= n => S = {}
  BY <1>1
<1> QED BY <1>3, <1>4, FS_CardinalityType, FS_EmptySet DEF errors_after

\* Another unit leaves the excess of the stretches that ended before it ...
LEMMA ExcessBefore ==
    ASSUME units \in Seq(BOOLEAN), NEW e \in BOOLEAN, units' = Append(units, e),
           NEW n \in 0 .. Len(units), NEW k \in Nat
    PROVE  excess(k, n)' = excess(k, n)
<1>1. k * Interval \in Nat
  BY BucketBounds
<1>2. \A i \in k * Interval + 1 .. n : units'[i] = units[i]
  BY <1>1
<1>3. errors_after(k, n)' = errors_after(k, n)
  BY <1>2 DEF errors_after
<1> QED BY <1>3 DEF excess, leaks

\* ... and adds one to the errors of those that go on, when it is in error.
LEMMA ErrorsNext ==
    ASSUME units \in Seq(BOOLEAN), NEW e \in BOOLEAN, units' = Append(units, e),
           NEW n \in Nat, n = Len(units), NEW k \in 0 .. leaks(n)
    PROVE  errors_after(k, n + 1)' = errors_after(k, n) + (IF e THEN 1 ELSE 0)
<1> DEFINE S == {i \in k * Interval + 1 .. n : units[i]}
           T == {i \in k * Interval + 1 .. n + 1 : units'[i]}
<1>1. k \in Nat /\ k * Interval \in 0 .. n
  BY LeakWithin
<1>2. \A i \in k * Interval + 1 .. n : units'[i] = units[i]
  BY <1>1
<1>3. units'[n + 1] = e
  OBVIOUS
<1>4. k * Interval + 1 .. n + 1 = (k * Interval + 1 .. n) \cup {n + 1}
  BY <1>1
<1>5. n + 1 \notin S
  BY <1>1
<1>6. IF e THEN T = S \cup {n + 1} ELSE T = S
  BY <1>2, <1>3, <1>4
<1>7. IsFiniteSet(S) /\ Cardinality(S) \in Nat
  BY <1>1, ErrorsCounted, FS_CardinalityType
<1>8. Cardinality(T) = Cardinality(S) + (IF e THEN 1 ELSE 0)
  <2> HIDE DEF S, T
  <2>1. CASE e
    BY <1>5, <1>6, <1>7, <2>1, FS_AddElement
  <2>2. CASE ~e
    BY <1>6, <1>7, <2>2
  <2> QED BY <2>1, <2>2
<1>9. errors_after(k, n) = Cardinality(S) /\ errors_after(k, n + 1)' = Cardinality(T)
  BY DEF errors_after
<1> QED BY <1>8, <1>9

\* The invariant: the counter is the greatest excess of a stretch that ends now.
Level ==
    LET n == Len(units)
    IN  /\ \A k \in 0 .. leaks(n) : excess(k, n) <= suerm.count
        /\ \E k \in 0 .. leaks(n) : excess(k, n) = suerm.count

Bucket ==
    /\ suerm \in Suerm /\ suerm.threshold = Threshold /\ suerm.decrement_interval = Interval
    /\ units \in Seq(BOOLEAN)
    /\ suerm.received_since_leak = Len(units) % Interval
    /\ Level
    /\ FailsOnExcess

\* A monitor that is new, or has been reset.
Unused ==
    /\ suerm \in Suerm /\ suerm.threshold = Threshold /\ suerm.decrement_interval = Interval
    /\ suerm.count = 0 /\ suerm.received_since_leak = 0 /\ suerm.failed = FALSE
    /\ units = <<>>

\* It has nothing to fail for.
LEMMA BucketUnused == Unused => Bucket
<1> SUFFICES ASSUME Unused PROVE Bucket
  OBVIOUS
<1> USE DEF Unused
<1>1. 0 = Interval * 0 + 0
  BY BucketBounds
<1>2. leaks(0) = 0 /\ 0 % Interval = 0
  BY <1>1, LeaksOnly, BucketBounds
<1>3. Len(units) = 0 /\ units \in Seq(BOOLEAN)
  OBVIOUS
<1>4. errors_after(0, 0) = 0
  BY <1>3, ErrorsCounted, BucketBounds
<1>5. excess(0, 0) = 0
  BY <1>2, <1>4 DEF excess
<1>6. 0 .. leaks(0) = {0} /\ 0 .. Len(units) = {0}
  BY <1>2, <1>3
<1>7. Level
  BY <1>3, <1>5, <1>6 DEF Level
<1>8. FailsOnExcess
  BY <1>5, <1>6, BucketBounds DEF FailsOnExcess
<1> QED BY <1>2, <1>3, <1>7, <1>8 DEF Bucket

\* Another unit keeps the invariant: the leak takes one from every excess, and the
\* stretch that begins with it starts from 0.
LEMMA BucketRecord ==
    ASSUME Bucket, NEW e \in BOOLEAN, Record(e)
    PROVE  Bucket'
<1>1. PICK n \in Nat : n = Len(units)
  BY DEF Bucket
<1> DEFINE d == IF e THEN 1 ELSE 0
           leaking == (n % Interval) + 1 >= Interval
<1>2. /\ suerm \in Suerm /\ suerm.threshold = Threshold /\ suerm.decrement_interval = Interval
      /\ units \in Seq(BOOLEAN) /\ n = Len(units)
      /\ suerm.received_since_leak = (n % Interval)
      /\ Level /\ FailsOnExcess
  BY <1>1 DEF Bucket
<1>3. /\ units' = Append(units, e) /\ units' \in Seq(BOOLEAN) /\ Len(units)' = n + 1
      /\ suerm' = Suerm_record(suerm, e)
  BY <1>2 DEF Record
<1>4. /\ leaks(n) \in Nat
      /\ (n % Interval) \in 0 .. Interval - 1
  BY <1>2, LeaksAre
<1> DEFINE filled == IF e THEN suerm.count + 1 ELSE suerm.count
           count == IF leaking THEN saturating_sub(filled, 1) ELSE filled
           received == IF leaking THEN 0 ELSE (n % Interval) + 1
<1>5. /\ suerm.count \in Nat /\ suerm.failed \in BOOLEAN
      /\ filled \in Nat /\ count \in Nat /\ received \in Nat
      /\ filled = suerm.count + d
      /\ count = IF leaking /\ filled = 0 THEN 0 ELSE IF leaking THEN filled - 1 ELSE filled
  BY <1>2, <1>4, BucketBounds DEF Suerm, saturating_sub
<1>6. suerm' = [suerm EXCEPT !.received_since_leak = received, !.count = count,
                              !.failed = suerm.failed \/ count >= Threshold]
  BY <1>2, <1>3 DEF Suerm_record
<1>7. /\ suerm'.count = count /\ suerm'.received_since_leak = received
       /\ suerm'.failed = (suerm.failed \/ count >= Threshold)
       /\ suerm'.threshold = Threshold /\ suerm'.decrement_interval = Interval
       /\ suerm' \in Suerm
  <2> HIDE DEF received, count
  <2> QED BY <1>2, <1>5, <1>6 DEF Suerm
<1>8. (n + 1) % Interval = suerm'.received_since_leak
  BY <1>7, LeaksNext
<1>9. leaks(n + 1) = (IF leaking THEN leaks(n) + 1 ELSE leaks(n))
  BY <1>2, LeaksNext
<1>10. ASSUME NEW k \in 0 .. leaks(n)
      PROVE  /\ excess(k, n) \in Int
             /\ excess(k, n + 1)' = excess(k, n) + d - (IF leaking THEN 1 ELSE 0)
  <2>1. errors_after(k, n) \in Nat
    <3>1. k \in Nat /\ n \in 0 .. Len(units)
      BY <1>1, <1>4
    <3> QED BY <1>2, <3>1, ErrorsCounted
  <2>2. errors_after(k, n + 1)' = errors_after(k, n) + d
    BY <1>2, <1>3, <1>10, ErrorsNext
  <2>3. leaks(n + 1)' = leaks(n + 1)
    BY <1>3 DEF leaks
  <2> HIDE DEF d, leaking
  <2>4. excess(k, n) = errors_after(k, n) - (leaks(n) - k)
        /\ excess(k, n + 1)' = errors_after(k, n + 1)' - (leaks(n + 1)' - k)
    BY DEF excess
  <2> QED BY <1>4, <1>9, <2>1, <2>2, <2>3, <2>4 DEF d
<1>11. ASSUME leaking, NEW k \in Nat, k = leaks(n) + 1
      PROVE  excess(k, n + 1)' = 0
  <2>1. k * Interval = n + 1 /\ leaks(n + 1) = k
    BY <1>4, <1>11, LeaksNext, BucketBounds
  <2>2. k * Interval + 1 .. n + 1 = {}
    BY <2>1
  <2>3. {i \in k * Interval + 1 .. n + 1 : units'[i]} = {}
    BY <2>2
  <2>4. errors_after(k, n + 1)' = 0
    BY <2>3, FS_EmptySet DEF errors_after
  <2>5. leaks(n + 1)' = k
    BY <2>1 DEF leaks
  <2> QED BY <2>4, <2>5 DEF excess
<1>12. \A k \in 0 .. leaks(n + 1) : excess(k, n + 1)' \in Int /\ excess(k, n + 1)' <= count
  <2> TAKE k \in 0 .. leaks(n + 1)
  <2> HIDE DEF count, filled, leaking
  <2>1. CASE k \in 0 .. leaks(n)
    <3>1. excess(k, n) \in Int /\ excess(k, n) <= suerm.count
      BY <1>2, <1>10, <2>1 DEF Level
    <3> QED BY <1>5, <1>10, <2>1, <3>1 DEF d
  <2>2. CASE k \notin 0 .. leaks(n)
    BY <1>4, <1>5, <1>9, <1>11, <2>2
  <2> QED BY <2>1, <2>2
<1>13. \E k \in 0 .. leaks(n + 1) : excess(k, n + 1)' = count
  <2> HIDE DEF count, filled, leaking
  <2>1. CASE leaking /\ filled = 0
    <3>1. leaks(n) + 1 \in 0 .. leaks(n + 1) /\ leaks(n) + 1 \in Nat
      BY <1>4, <1>9, <2>1
    <3>2. PICK k \in 0 .. leaks(n + 1) : k \in Nat /\ k = leaks(n) + 1
      BY <3>1
    <3> QED BY <1>5, <1>11, <2>1, <3>2
  <2>2. CASE ~(leaking /\ filled = 0)
    <3>1. PICK k \in 0 .. leaks(n) : excess(k, n) = suerm.count
      BY <1>2 DEF Level
    <3>2. k \in 0 .. leaks(n + 1)
      BY <1>4, <1>9
    <3>3. excess(k, n + 1)' = count
      BY <1>5, <1>10, <2>2, <3>1 DEF d
    <3> QED BY <3>2, <3>3
  <2> QED BY <2>1, <2>2
<1>14. \A k \in Nat : excess(k, Len(units))' = excess(k, n + 1)'
  BY <1>3 DEF excess, errors_after, leaks
<1>15. leaks(Len(units))' = leaks(n + 1) /\ leaks(n + 1) \in Nat
  BY <1>3, LeaksAre DEF leaks
<1>16. Level'
  <2> HIDE DEF count
  <2>1. \A k \in 0 .. leaks(n + 1) : excess(k, Len(units))' <= suerm'.count
    BY <1>12, <1>7, <1>14, <1>15
  <2>2. \E k \in 0 .. leaks(n + 1) : excess(k, Len(units))' = suerm'.count
    BY <1>13, <1>7, <1>14, <1>15
  <2> QED BY <1>15, <2>1, <2>2 DEF Level
<1>17. FailsOnExcess'
  <2> HIDE DEF count
  <2>1. count >= Threshold <=> \E k \in 0 .. leaks(n + 1) : excess(k, n + 1)' >= Threshold
    BY <1>5, <1>12, <1>13, BucketBounds
  <2>2. \A m \in 0 .. n : \A k \in 0 .. leaks(m) : excess(k, m)' = excess(k, m)
    <3> TAKE m \in 0 .. n
    <3> TAKE k \in 0 .. leaks(m)
    <3>1. k \in Nat
      BY LeaksAre
    <3> QED BY <1>2, <1>3, <3>1, ExcessBefore
  <2>3. suerm.failed <=> \E m \in 0 .. n : \E k \in 0 .. leaks(m) : excess(k, m)' >= Threshold
    BY <1>2, <2>2 DEF FailsOnExcess
  <2>4. 0 .. n + 1 = (0 .. n) \cup {n + 1}
    OBVIOUS
  <2>5. suerm'.failed <=> \E m \in 0 .. n + 1 : \E k \in 0 .. leaks(m) : excess(k, m)' >= Threshold
    BY <1>5, <1>7, <2>1, <2>3, <2>4
  <2>6. \A m : leaks(m)' = leaks(m)
    BY DEF leaks
  <2> QED BY <1>3, <2>5, <2>6 DEF FailsOnExcess
<1> QED BY <1>2, <1>3, <1>8, <1>7, <1>16, <1>17 DEF Bucket

\* The SUERM fails exactly when the errors of some stretch of units exceed the
\* leaks in it by its threshold: for every threshold, interval and sequence of units.
THEOREM BucketFails == BucketSpec => []FailsOnExcess
<1>1. BucketInit => Bucket
  BY BucketUnused, BucketBounds DEF BucketInit, Suerm_new, Suerm, Unused
<1>2. Bucket /\ [BucketNext]_bucketVars => Bucket'
  <2> SUFFICES ASSUME Bucket, [BucketNext]_bucketVars PROVE Bucket'
    OBVIOUS
  <2>1. ASSUME NEW e \in BOOLEAN, Record(e) PROVE Bucket'
    BY <2>1, BucketRecord
  <2>2. CASE Reset
    <3>1. Unused'
      BY <2>2 DEF Bucket, Reset, Suerm_reset, Suerm, Unused
    <3> QED BY <3>1, BucketUnused, PTL
  <2>3. CASE UNCHANGED bucketVars
    <3>1. suerm' = suerm /\ units' = units
      BY <2>3 DEF bucketVars
    <3>2. Level' <=> Level
      BY <3>1 DEF Level, excess, errors_after, leaks
    <3>3. FailsOnExcess' <=> FailsOnExcess
      BY <3>1 DEF FailsOnExcess, excess, errors_after, leaks
    <3> QED BY <3>1, <3>2, <3>3 DEF Bucket
  <2> QED BY <2>1, <2>2, <2>3 DEF BucketNext
<1>3. Bucket => FailsOnExcess
  BY DEF Bucket
<1> QED BY <1>1, <1>2, <1>3, PTL DEF BucketSpec
=============================================================================
