--------------------------- MODULE Mtp2LinkProofs ---------------------------
(***************************************************************************)
(* What every call of the link engine preserves and does to the service of *)
(* its link, for every configuration, peer and clock: lemmas about the     *)
(* functions of Mtp2Link, one record to the next.  They are put together   *)
(* to theorems about specifications by the modules that extend this one.   *)
(***************************************************************************)
EXTENDS Mtp2Link, RetransmissionProofs, WellFoundedInduction

(***************************************************************************)
(* What the events of a link say of its service: service_notices is a      *)
(* recursive function over a sequence of events, and these lemmas say what *)
(* it makes of an event more (emit) and an event less (poll_event).        *)
(***************************************************************************)

\* A set of natural numbers that holds 0 and with every number the next one
\* holds them all: induction, without an operator as a parameter.
LEMMA Induction ==
    ASSUME NEW S \in SUBSET Nat, 0 \in S, \A n \in S : n + 1 \in S
    PROVE  S = Nat
<1> SUFFICES ASSUME Nat \ S # {} PROVE FALSE
  OBVIOUS
<1>1. PICK n \in Nat \ S : \A m \in Nat \ S : ~(m < n)
  <2> DEFINE R == OpToRel(<, Nat)
  <2>1. IsWellFoundedOn(R, Nat)
    BY NatLessThanWellFounded
  <2>2. PICK n \in Nat \ S : \A m \in Nat \ S : ~(<<m, n>> \in R)
    <3> HIDE DEF R
    <3> QED BY <2>1, WFMin
  <2>3. ASSUME NEW m \in Nat \ S PROVE ~(m < n)
    BY <2>2, <2>3 DEF OpToRel
  <2> QED BY <2>3
<1>2. n # 0
  OBVIOUS
<1>3. n - 1 \in Nat /\ n - 1 \in S
  BY <1>1, <1>2
<1> QED BY <1>3

\* One event after those noticed before.
noticed(before, e) ==
    CASE e.event = "InService" -> Append(before, "up")
      [] e.event \in {"OutOfService", "AlignmentFailed"} -> Append(before, "down")
      [] OTHER -> before

\* f says what the first n events of s say, for n up to m.
Notices(f, s, m) ==
    f = [n \in 0 .. m |-> IF n = 0 THEN <<>> ELSE noticed(f[n - 1], s[n])]

\* There is such a function for every number of events, by induction.
LEMMA NoticesExist ==
    ASSUME NEW s, NEW m \in Nat
    PROVE  \E f : Notices(f, s, m)
<1> DEFINE S == {k \in Nat : \E f : Notices(f, s, k)}
<1>1. 0 \in S
  <2> DEFINE f == [n \in 0 .. 0 |-> <<>>]
  <2>1. Notices(f, s, 0)
    BY DEF Notices
  <2> QED BY <2>1
<1>2. ASSUME NEW k \in S PROVE k + 1 \in S
  <2>1. PICK f : Notices(f, s, k)
    OBVIOUS
  <2> DEFINE g == [n \in 0 .. k + 1 |-> IF n = 0 THEN <<>> ELSE noticed(f[n - 1], s[n])]
  <2>2. \A n \in 0 .. k : g[n] = f[n]
    BY <2>1 DEF Notices
  <2>3. Notices(g, s, k + 1)
    <3>1. \A n \in 0 .. k + 1 : n # 0 => g[n - 1] = f[n - 1]
      BY <2>2, SMTT(30)
    <3> QED BY <3>1 DEF Notices
  <2> QED BY <2>3
<1>3. S = Nat
  <2> HIDE DEF S
  <2>1. S \in SUBSET Nat
    BY DEF S
  <2> QED BY <1>1, <1>2, <2>1, Induction
<1> QED BY <1>3

\* service_notices chooses that function.
LEMMA NoticesDefined ==
    ASSUME NEW s \in Seq(Event)
    PROVE  \E f : Notices(f, s, Len(s)) /\ service_notices(s) = f[Len(s)]
<1> DEFINE f == CHOOSE f : Notices(f, s, Len(s))
<1>1. Notices(f, s, Len(s))
  BY NoticesExist
<1>2. service_notices(s) = f[Len(s)]
  BY DEF service_notices, Notices, noticed
<1> QED BY <1>1, <1>2

\* Two sequences that agree on their first m events say the same of them.
LEMMA NoticesAgree ==
    ASSUME NEW s, NEW t, NEW f, NEW g, NEW p \in Nat, NEW q \in Nat, NEW m \in Nat,
           Notices(f, s, p), Notices(g, t, q), m <= p, m <= q,
           \A i \in 1 .. m : s[i] = t[i]
    PROVE  f[m] = g[m]
<1> DEFINE S == {n \in Nat : n <= m => f[n] = g[n]}
<1>1. 0 \in S
  BY DEF Notices
<1>2. ASSUME NEW n \in S PROVE n + 1 \in S
  <2> SUFFICES ASSUME n + 1 <= m PROVE f[n + 1] = g[n + 1]
    OBVIOUS
  <2>1. f[n] = g[n]
    OBVIOUS
  <2>2. f[n + 1] = noticed(f[n], s[n + 1]) /\ g[n + 1] = noticed(g[n], t[n + 1])
    <3>1. n + 1 \in 0 .. p /\ n + 1 \in 0 .. q /\ n + 1 # 0 /\ (n + 1) - 1 = n
      OBVIOUS
    <3> QED BY <3>1 DEF Notices
  <2>3. s[n + 1] = t[n + 1]
    OBVIOUS
  <2> QED BY <2>1, <2>2, <2>3
<1>3. S = Nat
  <2> HIDE DEF S
  <2>1. S \in SUBSET Nat
    BY DEF S
  <2> QED BY <1>1, <1>2, <2>1, Induction
<1> QED BY <1>3

Notice == {"up", "down"}

\* An unread event adds at most one notice.
LEMMA NoticedType ==
    ASSUME NEW before \in Seq(Notice), NEW e
    PROVE  noticed(before, e) \in Seq(Notice)
BY DEF noticed, Notice

\* The notices of events are notices, by induction over the events.
LEMMA NoticesType ==
    ASSUME NEW s \in Seq(Event)
    PROVE  service_notices(s) \in Seq(Notice)
<1>1. PICK f : Notices(f, s, Len(s)) /\ service_notices(s) = f[Len(s)]
  BY NoticesDefined
<1> DEFINE S == {n \in Nat : n <= Len(s) => f[n] \in Seq(Notice)}
<1>2. 0 \in S
  BY <1>1 DEF Notices
<1>3. ASSUME NEW n \in S PROVE n + 1 \in S
  <2> SUFFICES ASSUME n + 1 <= Len(s) PROVE f[n + 1] \in Seq(Notice)
    OBVIOUS
  <2>1. f[n] \in Seq(Notice)
    OBVIOUS
  <2>2. f[n + 1] = noticed(f[n], s[n + 1])
    <3>1. n + 1 \in 0 .. Len(s) /\ n + 1 # 0 /\ (n + 1) - 1 = n
      OBVIOUS
    <3> QED BY <1>1, <3>1 DEF Notices
  <2> QED BY <2>1, <2>2, NoticedType
<1>4. S = Nat
  <2> HIDE DEF S
  <2>1. S \in SUBSET Nat
    BY DEF S
  <2> QED BY <1>2, <1>3, <2>1, Induction
<1>5. Len(s) \in S
  BY <1>4
<1> QED BY <1>1, <1>5

\* No events, no notices.
LEMMA NoticesEmpty == service_notices(<<>>) = <<>>
<1>1. <<>> \in Seq(Event) /\ Len(<<>>) = 0
  OBVIOUS
<1>2. PICK f : Notices(f, <<>>, Len(<<>>)) /\ service_notices(<<>>) = f[Len(<<>>)]
  BY <1>1, NoticesDefined
<1> QED BY <1>1, <1>2 DEF Notices

\* emit
LEMMA NoticesAppend ==
    ASSUME NEW s \in Seq(Event), NEW e \in Event
    PROVE  service_notices(Append(s, e)) = noticed(service_notices(s), e)
<1> DEFINE t == Append(s, e)
<1>1. t \in Seq(Event) /\ Len(t) = Len(s) + 1 /\ t[Len(t)] = e /\ Len(s) \in Nat
  OBVIOUS
<1>2. \A i \in 1 .. Len(s) : t[i] = s[i]
  OBVIOUS
<1> HIDE DEF t
<1>3. PICK f : Notices(f, s, Len(s)) /\ service_notices(s) = f[Len(s)]
  BY NoticesDefined
<1>4. PICK g : Notices(g, t, Len(t)) /\ service_notices(t) = g[Len(t)]
  BY <1>1, NoticesDefined
<1>5. g[Len(s)] = f[Len(s)]
  <2>1. /\ Len(s) \in Nat /\ Len(t) \in Nat
        /\ Len(s) <= Len(s) /\ Len(s) <= Len(t)
    BY <1>1
  <2> QED BY <1>2, <1>3, <1>4, <2>1, NoticesAgree
<1>6. g[Len(t)] = noticed(g[Len(s)], e)
  <2>1. Len(t) \in 0 .. Len(t) /\ Len(t) # 0 /\ Len(t) - 1 = Len(s)
    BY <1>1
  <2> QED BY <1>1, <1>4, <2>1 DEF Notices
<1> QED BY <1>3, <1>4, <1>5, <1>6 DEF t

\* poll_event
LEMMA NoticesTail ==
    ASSUME NEW s \in Seq(Event), s # <<>>
    PROVE  service_notices(s) = noticed(<<>>, Head(s)) \o service_notices(Tail(s))
<1> DEFINE t == Tail(s)
           first == noticed(<<>>, Head(s))
<1>1. /\ t \in Seq(Event) /\ Len(s) = Len(t) + 1 /\ Len(t) \in Nat
      /\ Head(s) = s[1] /\ \A i \in 1 .. Len(t) : s[i + 1] = t[i]
  OBVIOUS
<1>2. first \in Seq(Notice)
  <2>1. <<>> \in Seq(Notice)
    OBVIOUS
  <2> QED BY <2>1, NoticedType
<1> HIDE DEF t, first
<1>3. PICK f : Notices(f, s, Len(s)) /\ service_notices(s) = f[Len(s)]
  BY NoticesDefined
<1>4. PICK g : Notices(g, t, Len(t)) /\ service_notices(t) = g[Len(t)]
  BY <1>1, NoticesDefined
<1> DEFINE S == {n \in Nat : n <= Len(t) => g[n] \in Seq(Notice) /\ f[n + 1] = first \o g[n]}
<1>5. 0 \in S
  <2>1. g[0] = <<>> /\ f[0] = <<>>
    BY <1>1, <1>3, <1>4 DEF Notices
  <2>2. f[1] = noticed(f[0], s[1])
    <3>1. 1 \in 0 .. Len(s) /\ 1 # 0 /\ 1 - 1 = 0
      BY <1>1
    <3> QED BY <1>3, <3>1 DEF Notices
  <2>3. f[0 + 1] = first \o <<>>
    BY <1>1, <1>2, <2>1, <2>2 DEF first
  <2>4. <<>> \in Seq(Notice)
    OBVIOUS
  <2> QED BY <2>1, <2>3, <2>4
<1>6. ASSUME NEW n \in S PROVE n + 1 \in S
  <2> SUFFICES ASSUME n + 1 <= Len(t)
               PROVE  g[n + 1] \in Seq(Notice) /\ f[(n + 1) + 1] = first \o g[n + 1]
    OBVIOUS
  <2>1. g[n] \in Seq(Notice) /\ f[n + 1] = first \o g[n]
    BY <1>1
  <2> HIDE DEF S
  <2>2. g[n + 1] = noticed(g[n], t[n + 1])
    <3>1. n + 1 \in 0 .. Len(t) /\ n + 1 # 0 /\ (n + 1) - 1 = n
      BY DEF S
    <3> QED BY <1>4, <3>1 DEF Notices
  <2>3. f[(n + 1) + 1] = noticed(f[n + 1], t[n + 1])
    <3>1. (n + 1) + 1 \in 0 .. Len(s) /\ (n + 1) + 1 # 0 /\ ((n + 1) + 1) - 1 = n + 1
      BY <1>1 DEF S
    <3>2. s[(n + 1) + 1] = t[n + 1]
      <4>1. n + 1 \in 1 .. Len(t)
        BY DEF S
      <4> QED BY <1>1, <4>1
    <3> QED BY <1>3, <3>1, <3>2 DEF Notices
  <2>4. noticed(first \o g[n], t[n + 1]) = first \o noticed(g[n], t[n + 1])
    <3> DEFINE h == g[n]
    <3>1. h \in Seq(Notice)
      BY <2>1
    <3> HIDE DEF h
    <3>2. \A x \in Notice : Append(first \o h, x) = first \o Append(h, x)
      BY <1>2, <3>1, SMTT(30)
    <3> QED BY <3>2 DEF noticed, Notice, h
  <2> QED BY <2>1, <2>2, <2>3, <2>4, NoticedType
<1>7. S = Nat
  <2> HIDE DEF S
  <2>1. S \in SUBSET Nat
    BY DEF S
  <2> QED BY <1>5, <1>6, <2>1, Induction
<1>8. Len(t) \in S
  BY <1>1, <1>7
<1>9. f[Len(t) + 1] = first \o g[Len(t)]
  BY <1>8
<1> QED BY <1>1, <1>3, <1>4, <1>9 DEF t, first

(***************************************************************************)
(* The invariant of a link.                                                *)
(***************************************************************************)

\* What MTP3 is told of a link's service.
notices(k) == service_notices(k.events)

\* The thresholds of the error-rate monitors are positive: with a threshold of
\* 0 a monitor has tripped before anything was received.
MonitorsSet(c) ==
    /\ c.aerm_threshold_normal > 0 /\ c.aerm_threshold_emergency > 0
    /\ c.suerm_threshold > 0

\* All but the monitors: what the link's failure may start from.
Steady(k) ==
    /\ k \in Link
    /\ TimersMatch(k) /\ Fresh(k) /\ OutageMatches(k)
    /\ k.suerm.threshold = k.config.suerm_threshold

Sound(k) ==
    /\ Steady(k)
    /\ MonitorsSet(k.config) => WithinErrorRate(k)

(***************************************************************************)
(* What a call may do to the service: n is the link after the call.  These *)
(* are the steps of LinkService, for one link.                             *)
(***************************************************************************)
Silent(k, n) == n.config = k.config /\ notices(n) = notices(k)
Stays(k, n)  == Silent(k, n) /\ service_phase(n) = service_phase(k)
Begins(k, n) == Silent(k, n) /\ service_phase(k) = "Down" /\ service_phase(n) = "Aligning"
Proves(k, n) == Silent(k, n) /\ service_phase(k) = "Aligning" /\ service_phase(n) = "Ready"
Enters(k, n) ==
    /\ n.config = k.config /\ notices(n) = Append(notices(k), "up")
    /\ service_phase(k) = "Ready" /\ service_phase(n) = "Up"
Fails(k, n) ==
    /\ n.config = k.config /\ notices(n) = Append(notices(k), "down")
    /\ service_phase(n) = "Down"

Serves(k, n) == Stays(k, n) \/ Begins(k, n) \/ Proves(k, n) \/ Enters(k, n) \/ Fails(k, n)

(***************************************************************************)
(* Events.                                                                 *)
(***************************************************************************)

\* emit adds an event, and a notice if the event is one of service.
LEMMA Emitted ==
    ASSUME NEW k \in Link, NEW e \in Event
    PROVE  /\ emit(k, e) \in Link
           /\ notices(emit(k, e)) = noticed(notices(k), e)
<1>1. k.events \in Seq(Event)
  BY DEF Link
<1>2. emit(k, e) \in Link
  BY <1>1, SMTT(30) DEF emit, Link
<1>3. emit(k, e).events = Append(k.events, e)
  BY DEF emit, Link
<1> QED BY <1>1, <1>2, <1>3, NoticesAppend DEF notices

\* The events that a call raises, and the notices among them.
LEMMA Events ==
    /\ \A r \in OutOfServiceReason : OutOfService(r) \in Event
    /\ \A f \in AlignmentFailure : AlignmentFailed(f) \in Event
    /\ \A m \in Msu : MsuEvent(m) \in Event
    /\ \A e \in {"InService", "RemoteProcessorOutage", "RemoteProcessorRecovered",
                 "RemoteBusy", "RemoteBusyEnded", "RetransmissionRequested"} :
           Plain(e) \in Event
BY DEF Event

\* What MTP3 is told by each event that a call raises.
LEMMA EventNotices ==
    ASSUME NEW before
    PROVE  /\ \A r : noticed(before, OutOfService(r)) = Append(before, "down")
           /\ \A f : noticed(before, AlignmentFailed(f)) = Append(before, "down")
           /\ \A m : noticed(before, MsuEvent(m)) = before
           /\ noticed(before, Plain("InService")) = Append(before, "up")
           /\ \A e \in {"RemoteProcessorOutage", "RemoteProcessorRecovered",
                        "RemoteBusy", "RemoteBusyEnded", "RetransmissionRequested"} :
                  noticed(before, Plain(e)) = before
BY DEF noticed, OutOfService, AlignmentFailed, MsuEvent, Plain

\* An event that is no notice changes nothing else that the invariant reads.
LEMMA EmitKeeps ==
    ASSUME NEW k, Sound(k), NEW e \in Event, noticed(notices(k), e) = notices(k)
    PROVE  Sound(emit(k, e)) /\ Stays(k, emit(k, e))
<1> DEFINE n == emit(k, e)
<1>1. n \in Link /\ notices(n) = notices(k)
  BY Emitted DEF Sound, Steady
<1>2. /\ n.state = k.state /\ n.timer = k.timer /\ n.config = k.config
      /\ n.suerm = k.suerm /\ n.aerm = k.aerm /\ n.tx = k.tx /\ n.rx = k.rx
      /\ n.remote_busy = k.remote_busy
      /\ n.remote_processor_outage = k.remote_processor_outage
      /\ n.local_processor_outage = k.local_processor_outage
  BY DEF emit, Sound, Steady, Link
<1> HIDE DEF n
<1>3. Sound(n)
  BY <1>1, <1>2 DEF Sound, Steady, TimersMatch, Fresh, OutageMatches, WithinErrorRate
<1>4. Stays(k, n)
  BY <1>1, <1>2 DEF Stays, Silent, service_phase
<1> QED BY <1>3, <1>4 DEF n

(***************************************************************************)
(* The ways down.                                                          *)
(***************************************************************************)

\* A link that is taken down, whatever else it is.
LEMMA Down ==
    ASSUME NEW k, k \in Link, k.suerm.threshold = k.config.suerm_threshold,
           NEW b \in Link, NEW e \in Event,
           b.state = "OutOfService", b.timer = AllStopped, b.config = k.config,
           b.suerm = k.suerm, b.events = k.events,
           noticed(notices(k), e) = Append(notices(k), "down")
    PROVE  Sound(emit(b, e)) /\ Fails(k, emit(b, e))
<1> DEFINE n == emit(b, e)
<1>1. n \in Link /\ notices(n) = Append(notices(k), "down")
  BY Emitted DEF notices
<1>2. /\ n.state = "OutOfService" /\ n.timer = AllStopped /\ n.config = k.config
      /\ n.suerm = k.suerm
  BY DEF emit, Link
<1> HIDE DEF n
<1>3. TimersMatch(n)
  BY <1>2 DEF TimersMatch, AllStopped, guarded, Traffic, Timer
<1>4. Sound(n)
  BY <1>1, <1>2, <1>3 DEF Sound, Steady, Fresh, OutageMatches, WithinErrorRate, Traffic
<1>5. Fails(k, n)
  BY <1>1, <1>2 DEF Fails, service_phase
<1> QED BY <1>4, <1>5 DEF n

\* fail_out_of_service takes the service down and says so.
LEMMA FailOutOfService ==
    ASSUME NEW k, Steady(k), NEW reason \in OutOfServiceReason
    PROVE  /\ Sound(fail_out_of_service(k, reason))
           /\ Fails(k, fail_out_of_service(k, reason))
<1> DEFINE b == [stop_all_timers(k) EXCEPT !.state = "OutOfService",
                     !.remote_processor_outage = FALSE, !.remote_busy = FALSE,
                     !.local_busy = FALSE]
<1>1. /\ b \in Link /\ b.state = "OutOfService" /\ b.timer = AllStopped
      /\ b.config = k.config /\ b.suerm = k.suerm /\ b.events = k.events
  BY DEF Steady, stop_all_timers, Link, AllStopped, Stopped, Mtp2State
<1>2. fail_out_of_service(k, reason) = emit(b, OutOfService(reason))
  BY DEF fail_out_of_service
<1> HIDE DEF b
<1> QED BY <1>1, <1>2, Down, Events, EventNotices DEF Steady

\* fail_alignment ends the alignment out of service and says so.
LEMMA FailAlignment ==
    ASSUME NEW k, Steady(k), NEW failure \in AlignmentFailure
    PROVE  /\ Sound(fail_alignment(k, failure))
           /\ Fails(k, fail_alignment(k, failure))
<1> DEFINE b == [stop_all_timers(k) EXCEPT !.state = "OutOfService"]
<1>1. /\ b \in Link /\ b.state = "OutOfService" /\ b.timer = AllStopped
      /\ b.config = k.config /\ b.suerm = k.suerm /\ b.events = k.events
  BY DEF Steady, stop_all_timers, Link, AllStopped, Stopped, Mtp2State
<1>2. fail_alignment(k, failure) = emit(b, AlignmentFailed(failure))
  BY DEF fail_alignment
<1> HIDE DEF b
<1> QED BY <1>1, <1>2, Down, Events, EventNotices DEF Steady

(***************************************************************************)
(* Alignment and proving.                                                  *)
(***************************************************************************)

\* enter_aligned, with the timer of the state that it leaves.
LEMMA EnterAligned ==
    ASSUME NEW k, Steady(k),
           NEW left, <<k.state, left>> \in {<<"NotAligned", "t2">>, <<"Proving", "t4">>}
    PROVE  Sound(enter_aligned(k, left)) /\ Stays(k, enter_aligned(k, left))
<1> DEFINE n == enter_aligned(k, left)
<1>1. n \in Link
  BY DEF Steady, enter_aligned, Link, Mtp2Config, Mtp2State, Timer, Stopped
<1>2. /\ n.state = "Aligned" /\ n.config = k.config
      /\ n.suerm = k.suerm /\ n.aerm = k.aerm /\ n.tx = k.tx /\ n.rx = k.rx
      /\ n.events = k.events
      /\ n.remote_busy = k.remote_busy
      /\ n.remote_processor_outage = k.remote_processor_outage
      /\ n.local_processor_outage = k.local_processor_outage
      /\ n.timer = [k.timer EXCEPT ![left] = Stopped, !["t3"] = k.config.t3_aligned]
  BY DEF Steady, enter_aligned, Link
<1> HIDE DEF n
<1>3. TimersMatch(n)
  BY <1>2, SMTT(30) DEF Steady, TimersMatch, guarded, Traffic, Timer, Stopped, Link, Mtp2Config
<1>4. Sound(n)
  BY <1>1, <1>2, <1>3
     DEF Sound, Steady, Fresh, OutageMatches, WithinErrorRate, Traffic
<1>5. Stays(k, n)
  BY <1>2 DEF Stays, Silent, service_phase, notices
<1> QED BY <1>4, <1>5 DEF n

\* From Aligned, where T3 is stopped first, and anew from Proving.
LEMMA EnterProving ==
    ASSUME NEW k, Steady(k), NEW b,
           \/ k.state = "Aligned" /\ b = [k EXCEPT !.timer["t3"] = Stopped]
           \/ k.state = "Proving" /\ b = k
    PROVE  Sound(enter_proving(b)) /\ Stays(k, enter_proving(b))
<1> DEFINE n == enter_proving(b)
           period == IF k.emergency THEN k.config.t4_proving_emergency
                     ELSE k.config.t4_proving_normal
           threshold == IF k.emergency THEN k.config.aerm_threshold_emergency
                        ELSE k.config.aerm_threshold_normal
<1>1. /\ period \in Nat /\ threshold \in Nat
      /\ MonitorsSet(k.config) => threshold > 0
  BY DEF Steady, Link, Mtp2Config, MonitorsSet
<1>2. /\ b \in Link /\ b.config = k.config /\ b.emergency = k.emergency
      /\ b.suerm = k.suerm /\ b.tx = k.tx /\ b.rx = k.rx /\ b.events = k.events
      /\ b.remote_busy = k.remote_busy
      /\ b.remote_processor_outage = k.remote_processor_outage
      /\ b.local_processor_outage = k.local_processor_outage
      /\ b.timer["t3"] = Stopped
      /\ \A x \in Timer \ {"t3"} : b.timer[x] = k.timer[x]
  <2>1. k.state = "Proving" => k.timer["t3"] = Stopped
    BY DEF Steady, TimersMatch, guarded
  <2> QED BY <2>1 DEF Steady, Link, Stopped, Timer
<1> HIDE DEF period, threshold
<1>3. /\ n.state = "Proving" /\ n.config = k.config
      /\ n.suerm = k.suerm /\ n.tx = k.tx /\ n.rx = k.rx
      /\ n.events = k.events
      /\ n.remote_busy = k.remote_busy
      /\ n.remote_processor_outage = k.remote_processor_outage
      /\ n.local_processor_outage = k.local_processor_outage
      /\ n.timer = [b.timer EXCEPT !["t4"] = period]
      /\ n.aerm = Aerm_restart(threshold)
  BY <1>2 DEF enter_proving, Link, period, threshold
<1>4. n \in Link
  <2>1. IF b.proving_attempt > b.config.proving_attempts
        THEN b.proving_attempt \in Nat ELSE b.proving_attempt + 1 \in Nat
    BY <1>2 DEF Link
  <2>2. Aerm_restart(threshold) \in Aerm
    BY <1>1 DEF Aerm_restart, Aerm
  <2>3. [b.timer EXCEPT !["t4"] = period] \in [Timer -> Nat \cup {Stopped}]
    BY <1>1, <1>2 DEF Link
  <2> QED BY <1>2, <2>1, <2>2, <2>3 DEF enter_proving, Link, period, threshold, Mtp2State
<1> HIDE DEF n
<1>5. TimersMatch(n)
  BY <1>1, <1>2, <1>3 DEF Steady, TimersMatch, guarded, Traffic, Timer, Stopped, Link
<1>6. MonitorsSet(n.config) => WithinErrorRate(n)
  BY <1>1, <1>3 DEF WithinErrorRate, Aerm_is_tripped, Aerm_restart, Traffic
<1>7. Sound(n)
  BY <1>3, <1>4, <1>5, <1>6 DEF Sound, Steady, Fresh, OutageMatches, Traffic
<1>8. Stays(k, n)
  BY <1>3 DEF Stays, Silent, service_phase, notices
<1> QED BY <1>7, <1>8 DEF n

\* To AlignedReady: from Proving, or when the local processor is back.
LEMMA EnterAlignedReady ==
    ASSUME NEW k, Sound(k), NEW b \in Link,
           k.state \in {"Proving", "AlignedNotReady"},
           ~b.local_processor_outage,
           b.config = k.config, b.suerm = k.suerm, b.aerm = k.aerm,
           b.tx = k.tx, b.rx = k.rx, b.events = k.events,
           b.remote_busy = k.remote_busy,
           b.remote_processor_outage = k.remote_processor_outage,
           b.timer = [k.timer EXCEPT !["t4"] = Stopped]
    PROVE  /\ Sound(enter_aligned_ready(b))
           /\ notices(enter_aligned_ready(b)) = notices(k)
           /\ service_phase(enter_aligned_ready(b)) = "Ready"
           /\ enter_aligned_ready(b).config = k.config
<1> DEFINE n == enter_aligned_ready(b)
<1>1. n \in Link
  BY DEF enter_aligned_ready, Link, Mtp2Config, Mtp2State, Timer
<1>2. /\ n.state = "AlignedReady" /\ n.config = k.config
      /\ n.suerm = k.suerm /\ n.aerm = k.aerm /\ n.tx = k.tx /\ n.rx = k.rx
      /\ n.events = k.events
      /\ n.remote_busy = k.remote_busy
      /\ n.remote_processor_outage = k.remote_processor_outage
      /\ ~n.local_processor_outage
      /\ n.timer = [b.timer EXCEPT !["t1"] = k.config.t1_aligned_ready]
  BY DEF enter_aligned_ready, Link
<1> HIDE DEF n
<1>3. TimersMatch(n)
  <2>1. k.config.t1_aligned_ready \in Nat
    BY DEF Sound, Steady, Link, Mtp2Config
  <2> QED BY <1>2, <2>1 DEF Sound, Steady, TimersMatch, guarded, Traffic, Timer, Stopped, Link
<1>4. Sound(n)
  BY <1>1, <1>2, <1>3
     DEF Sound, Steady, Fresh, OutageMatches, WithinErrorRate, Traffic
<1> QED BY <1>2, <1>4 DEF service_phase, notices, n

\* Nothing runs but T4 while a link is proving.
LEMMA ProvingTimers ==
    ASSUME NEW k, Steady(k), k.state = "Proving"
    PROVE  \A x \in Timer \ {"t4"} : k.timer[x] = Stopped
BY DEF Steady, TimersMatch, guarded, Traffic, Timer

\* T4 expires: the step of T2, T3 and T4 leaves them stopped.
LEMMA ProvingSucceeded ==
    ASSUME NEW k, Sound(k), acts(k, "t4")
    PROVE  LET n == proving_succeeded(step(k, {"t2", "t3", "t4"}))
           IN  Sound(n) /\ Proves(k, n)
<1>1. k.state = "Proving" /\ k.timer["t4"] <= 1 /\ k.timer["t4"] \in Nat
  BY DEF acts, guarded, expires, Sound, Steady, Link, Timer
<1> DEFINE s == step(k, {"t2", "t3", "t4"})
           b == [s EXCEPT !.timer["t4"] = Stopped]
<1>2. s.timer = [k.timer EXCEPT !["t4"] = Stopped]
  <2>1. s.timer = [x \in Timer |-> IF x \in {"t2", "t3", "t4"}
                                   THEN step_timer(k.timer[x]) ELSE k.timer[x]]
    BY DEF step, Sound, Steady, Link
  <2>2. \A x \in Timer : s.timer[x] = IF x = "t4" THEN Stopped ELSE k.timer[x]
    BY <1>1, <2>1, ProvingTimers DEF step_timer, Stopped, Sound
  <2>3. k.timer \in [Timer -> Nat \cup {Stopped}] /\ "t4" \in Timer
    BY DEF Sound, Steady, Link, Timer
  <2> QED BY <2>1, <2>2, <2>3
<1>3. s \in Link
  <2>1. s.timer \in [Timer -> Nat \cup {Stopped}]
    BY <1>2 DEF Sound, Steady, Link
  <2>2. s = [k EXCEPT !.timer = s.timer]
    BY DEF step, Sound, Steady, Link
  <2> HIDE DEF s
  <2> QED BY <2>1, <2>2 DEF Sound, Steady, Link
<1>4. /\ s.config = k.config /\ s.suerm = k.suerm /\ s.aerm = k.aerm
      /\ s.tx = k.tx /\ s.rx = k.rx /\ s.events = k.events
      /\ s.remote_busy = k.remote_busy /\ s.state = k.state
      /\ s.remote_processor_outage = k.remote_processor_outage
      /\ s.local_processor_outage = k.local_processor_outage
  BY DEF step, Sound, Steady, Link
<1> HIDE DEF s
<1>5. /\ b \in Link
      /\ b.timer = [k.timer EXCEPT !["t4"] = Stopped]
      /\ b.config = k.config /\ b.suerm = k.suerm /\ b.aerm = k.aerm
      /\ b.tx = k.tx /\ b.rx = k.rx /\ b.events = k.events
      /\ b.remote_busy = k.remote_busy
      /\ b.remote_processor_outage = k.remote_processor_outage
      /\ b.local_processor_outage = k.local_processor_outage
  BY <1>2, <1>3, <1>4 DEF Link, Stopped, Timer
<1> DEFINE n == IF s.local_processor_outage THEN [b EXCEPT !.state = "AlignedNotReady"]
                ELSE enter_aligned_ready(b)
<1>6. n = proving_succeeded(s)
  BY DEF proving_succeeded
<1>7. Sound(n) /\ Proves(k, n)
  <2> HIDE DEF b
  <2>1. CASE ~k.local_processor_outage
    BY <1>1, <1>4, <1>5, <2>1, EnterAlignedReady DEF Proves, Silent, service_phase
  <2>2. CASE k.local_processor_outage
    <3>1. n = [b EXCEPT !.state = "AlignedNotReady"]
      BY <1>4, <2>2
    <3>2. /\ n \in Link /\ n.state = "AlignedNotReady" /\ n.timer = b.timer
          /\ n.config = k.config /\ n.suerm = k.suerm /\ n.aerm = k.aerm
          /\ n.tx = k.tx /\ n.rx = k.rx /\ n.events = k.events
          /\ n.remote_busy = k.remote_busy
          /\ n.remote_processor_outage = k.remote_processor_outage
          /\ n.local_processor_outage
      <4> HIDE DEF n
      <4>1. n \in Link /\ n.state = "AlignedNotReady"
        BY <1>5, <3>1 DEF Link, Mtp2State
      <4>2. /\ n.timer = b.timer /\ n.config = b.config /\ n.suerm = b.suerm
            /\ n.aerm = b.aerm /\ n.tx = b.tx /\ n.rx = b.rx /\ n.events = b.events
            /\ n.remote_busy = b.remote_busy
            /\ n.remote_processor_outage = b.remote_processor_outage
            /\ n.local_processor_outage = b.local_processor_outage
        BY <1>5, <3>1 DEF Link
      <4> QED BY <1>5, <2>2, <4>1, <4>2
    <3> HIDE DEF n
    <3>3. TimersMatch(n)
      BY <1>1, <1>5, <3>2 DEF Sound, Steady, TimersMatch, guarded, Traffic, Timer, Link
    <3>4. Sound(n)
      BY <1>1, <3>2, <3>3 DEF Sound, Steady, Fresh, OutageMatches, WithinErrorRate, Traffic
    <3> QED BY <1>1, <3>2, <3>4 DEF Proves, Silent, service_phase, notices
  <2> QED BY <2>1, <2>2
<1> QED BY <1>6, <1>7 DEF s

\* A corrupted unit while proving: counted, and the attempt given up when the
\* AERM trips.
LEMMA CorruptedWhileProving ==
    ASSUME NEW k, Sound(k), k.state = "Proving"
    PROVE  LET proved == [k EXCEPT !.aerm = Aerm_record_error(@)]
               n == IF Aerm_is_tripped(proved.aerm) THEN proving_aborted(proved) ELSE proved
           IN  Sound(n) /\ (Stays(k, n) \/ Fails(k, n))
<1> DEFINE proved == [k EXCEPT !.aerm = Aerm_record_error(@)]
<1>1. /\ proved \in Link
      /\ proved.state = k.state /\ proved.timer = k.timer /\ proved.config = k.config
      /\ proved.suerm = k.suerm /\ proved.tx = k.tx /\ proved.rx = k.rx
      /\ proved.events = k.events /\ proved.remote_busy = k.remote_busy
      /\ proved.remote_processor_outage = k.remote_processor_outage
      /\ proved.local_processor_outage = k.local_processor_outage
  <2>1. Aerm_record_error(k.aerm) \in Aerm
    BY DEF Sound, Steady, Link, Aerm_record_error, Aerm
  <2> QED BY <2>1 DEF Sound, Steady, Link
<1> HIDE DEF proved
<1>2. Steady(proved)
  BY <1>1 DEF Sound, Steady, TimersMatch, Fresh, OutageMatches
<1>3. Stays(k, proved)
  BY <1>1 DEF Stays, Silent, service_phase, notices
<1>4. CASE ~Aerm_is_tripped(proved.aerm)
  <2>1. Sound(proved)
    BY <1>1, <1>2, <1>4 DEF Sound, WithinErrorRate, Traffic
  <2> QED BY <1>3, <1>4, <2>1 DEF proved
<1>5. CASE Aerm_is_tripped(proved.aerm)
  <2>1. /\ Sound(enter_aligned(proved, "t4")) /\ Stays(proved, enter_aligned(proved, "t4"))
    BY <1>1, <1>2, EnterAligned
  <2>2. /\ Sound(fail_alignment(proved, "AermTripped"))
        /\ Fails(proved, fail_alignment(proved, "AermTripped"))
    BY <1>2, FailAlignment DEF AlignmentFailure
  <2> DEFINE n == proving_aborted(proved)
  <2>3. Sound(n) /\ (Stays(proved, n) \/ Fails(proved, n))
    BY <2>1, <2>2 DEF proving_aborted
  <2>4. Stays(k, n) \/ Fails(k, n)
    <3> HIDE DEF n
    <3> QED BY <1>3, <2>3 DEF Stays, Silent, Fails
  <2> QED BY <1>5, <2>3, <2>4 DEF proved
<1> QED BY <1>4, <1>5

(***************************************************************************)
(* Service.                                                                *)
(***************************************************************************)

\* A fresh link has nothing buffered, and no T6 or T7.
LEMMA EnterInService ==
    ASSUME NEW k, Sound(k), k.state = "AlignedReady"
    PROVE  /\ Sound(enter_in_service(k)) /\ Enters(k, enter_in_service(k))
           /\ enter_in_service(k).state = "InService"
<1> DEFINE b == [k EXCEPT !.state = "InService", !.timer["t1"] = Stopped,
                          !.suerm = Suerm_reset(@)]
           n == emit(b, Plain("InService"))
<1>1. n = enter_in_service(k)
  BY DEF enter_in_service
<1>2. /\ b \in Link /\ b.state = "InService" /\ b.config = k.config
      /\ b.suerm = Suerm_reset(k.suerm) /\ b.aerm = k.aerm
      /\ b.tx = k.tx /\ b.rx = k.rx /\ b.events = k.events
      /\ b.remote_busy = k.remote_busy
      /\ b.local_processor_outage = k.local_processor_outage
      /\ b.timer = [k.timer EXCEPT !["t1"] = Stopped]
  <2>1. Suerm_reset(k.suerm) \in Suerm
    BY DEF Sound, Steady, Link, Suerm_reset, Suerm
  <2> QED BY <2>1 DEF Sound, Steady, Link, Mtp2State, Traffic, Timer, Stopped
<1> HIDE DEF b
<1>3. n \in Link /\ notices(n) = Append(notices(k), "up")
  <2>1. notices(b) = notices(k)
    BY <1>2 DEF notices
  <2>2. Plain("InService") \in Event
    BY Events
  <2> QED BY <1>2, <2>1, <2>2, Emitted, EventNotices, SMTT(30)
<1>4. /\ n.state = "InService" /\ n.config = k.config
      /\ n.suerm = b.suerm /\ n.aerm = k.aerm /\ n.tx = k.tx
      /\ n.remote_busy = k.remote_busy
      /\ n.local_processor_outage = k.local_processor_outage
      /\ n.timer = b.timer
  BY <1>2 DEF emit, Link
<1> HIDE DEF n
<1>5. k.tx.unacked = <<>> /\ ~k.remote_busy
  BY DEF Sound, Steady, Fresh, Traffic, TxControl_new
<1>6. TimersMatch(n)
  BY <1>2, <1>4, <1>5 DEF Sound, Steady, TimersMatch, guarded, Traffic, Timer, Link
<1>7. /\ n.suerm.threshold = n.config.suerm_threshold
      /\ MonitorsSet(n.config) => WithinErrorRate(n)
  <2>1. /\ b.suerm.threshold = k.suerm.threshold /\ b.suerm.count = 0
        /\ b.suerm.failed = FALSE
    BY <1>2 DEF Sound, Steady, Link, Suerm, Suerm_reset
  <2> QED BY <1>2, <1>4, <2>1 DEF Sound, Steady, WithinErrorRate, MonitorsSet, Traffic
<1>8. Sound(n)
  BY <1>3, <1>4, <1>6, <1>7 DEF Sound, Steady, Fresh, OutageMatches, Traffic
<1>9. Enters(k, n)
  BY <1>3, <1>4 DEF Enters, service_phase
<1> QED BY <1>1, <1>4, <1>8, <1>9

\* In service T7 follows the retransmission buffer.
LEMMA Acknowledge ==
    ASSUME NEW k, Sound(k), k.state \in Traffic, NEW su \in SignalUnit
    PROVE  /\ Sound(acknowledge(k, su)) /\ Stays(k, acknowledge(k, su))
           /\ acknowledge(k, su).state = k.state
<1> DEFINE n == acknowledge(k, su)
           tx == on_ack(k.tx, su.bsn, su.bib)
           t7 == IF tx.unacked = <<>> THEN Stopped ELSE k.config.t7_excessive_delay
<1>1. tx \in TxControl
  BY OnAckCases DEF Sound, Steady, Link, SignalUnit
<1>2. t7 \in Nat \cup {Stopped} /\ (t7 # Stopped <=> tx.unacked # <<>>)
  BY SMTT(30) DEF Sound, Steady, Link, Mtp2Config, Stopped
<1> HIDE DEF tx, t7
<1>3. /\ n \in Link /\ n.state = k.state /\ n.config = k.config
      /\ n.suerm = k.suerm /\ n.aerm = k.aerm
      /\ n.tx = tx /\ n.events = k.events
      /\ n.remote_busy = k.remote_busy
      /\ n.local_processor_outage = k.local_processor_outage
      /\ n.timer = [k.timer EXCEPT !["t7"] = t7]
  BY <1>1, <1>2 DEF acknowledge, Sound, Steady, Link, Timer, tx, t7
<1> HIDE DEF n
<1>4. TimersMatch(n)
  BY <1>2, <1>3 DEF Sound, Steady, TimersMatch, guarded, Traffic, Timer, Link
<1>5. Sound(n)
  BY <1>3, <1>4 DEF Sound, Steady, Fresh, OutageMatches, WithinErrorRate, Traffic
<1>6. Stays(k, n)
  BY <1>3 DEF Stays, Silent, service_phase, notices
<1> QED BY <1>3, <1>5, <1>6 DEF n

\* What a link in traffic notices of its peer's outage and congestion: changes
\* of remote_processor_outage, and of remote_busy with T6.
LEMMA PeerNoticed ==
    ASSUME NEW k, Sound(k), k.state \in Traffic, NEW b \in Link,
           b.state = k.state, b.config = k.config, b.suerm = k.suerm, b.aerm = k.aerm,
           b.tx = k.tx, b.events = k.events,
           b.local_processor_outage = k.local_processor_outage,
           b.timer["t6"] # Stopped <=> b.remote_busy,
           \A x \in Timer \ {"t6"} : b.timer[x] = k.timer[x]
    PROVE  Sound(b) /\ Stays(k, b)
<1>1. TimersMatch(b)
  BY DEF Sound, Steady, TimersMatch, guarded, Traffic, Timer
<1>2. Sound(b)
  BY <1>1 DEF Sound, Steady, Fresh, OutageMatches, WithinErrorRate, Traffic
<1>3. Stays(k, b)
  BY DEF Stays, Silent, service_phase, notices
<1> QED BY <1>2, <1>3

\* The same with the event that tells of it.
LEMMA PeerTold ==
    ASSUME NEW k, Sound(k), k.state \in Traffic,
           NEW b, Sound(b), Stays(k, b), b.state = k.state,
           NEW event \in {"RemoteProcessorOutage", "RemoteProcessorRecovered",
                          "RemoteBusy", "RemoteBusyEnded", "RetransmissionRequested"}
    PROVE  LET n == emit(b, Plain(event))
           IN  Sound(n) /\ Stays(k, n) /\ n.state = k.state
<1> DEFINE n == emit(b, Plain(event))
<1>1. Sound(n) /\ Stays(b, n)
  BY EmitKeeps, Events, EventNotices
<1>2. n.state = b.state
  BY DEF emit, Sound, Steady, Link
<1> QED BY <1>1, <1>2 DEF Stays, Silent

\* A link in traffic and its timer of the peer's congestion.
LEMMA CongestionTimed ==
    ASSUME NEW k, Sound(k), k.state \in Traffic
    PROVE  /\ k.timer["t6"] # Stopped <=> k.remote_busy
           /\ k.config.t6_remote_congestion \in Nat
           /\ k.config.t6_remote_congestion # Stopped
<1>1. k.config.t6_remote_congestion \in Nat
  BY DEF Sound, Steady, Link, Mtp2Config
<1>2. k.timer["t6"] # Stopped <=> k.remote_busy
  BY DEF Sound, Steady, TimersMatch
<1> QED BY <1>1, <1>2 DEF Stopped

\* A FISU or MSU ends an outage of the peer ...
LEMMA RemoteRecovered ==
    ASSUME NEW k, Sound(k), k.state \in Traffic
    PROVE  LET n == remote_recovered(k)
           IN  Sound(n) /\ Stays(k, n) /\ n.state = k.state
<1> DEFINE b == [k EXCEPT !.remote_processor_outage = FALSE]
<1>1. /\ b \in Link
      /\ b.state = k.state /\ b.config = k.config /\ b.suerm = k.suerm
      /\ b.aerm = k.aerm /\ b.tx = k.tx /\ b.events = k.events
      /\ b.local_processor_outage = k.local_processor_outage
      /\ b.timer["t6"] # Stopped <=> b.remote_busy
      /\ \A x \in Timer \ {"t6"} : b.timer[x] = k.timer[x]
  BY CongestionTimed DEF Sound, Steady, Link, Timer, Stopped
<1>2. Sound(b) /\ Stays(k, b)
  <2> HIDE DEF b
  <2> QED BY <1>1, PeerNoticed
<1>3. Stays(k, k)
  BY DEF Stays, Silent
<1> HIDE DEF b
<1>4. LET n == emit(b, Plain("RemoteProcessorRecovered"))
      IN  Sound(n) /\ Stays(k, n) /\ n.state = k.state
  BY <1>1, <1>2, PeerTold
<1> QED BY <1>1, <1>2, <1>3, <1>4 DEF remote_recovered, b

\* ... and its congestion.
LEMMA RemoteBusyEnded ==
    ASSUME NEW k, Sound(k), k.state \in Traffic
    PROVE  LET n == remote_busy_ended(k)
           IN  Sound(n) /\ Stays(k, n) /\ n.state = k.state
<1> DEFINE b == [k EXCEPT !.remote_busy = FALSE, !.timer["t6"] = Stopped]
<1>1. /\ b \in Link
      /\ b.state = k.state /\ b.config = k.config /\ b.suerm = k.suerm
      /\ b.aerm = k.aerm /\ b.tx = k.tx /\ b.events = k.events
      /\ b.local_processor_outage = k.local_processor_outage
      /\ b.timer["t6"] # Stopped <=> b.remote_busy
      /\ \A x \in Timer \ {"t6"} : b.timer[x] = k.timer[x]
  BY CongestionTimed DEF Sound, Steady, Link, Timer, Stopped
<1>2. Sound(b) /\ Stays(k, b)
  <2> HIDE DEF b
  <2> QED BY <1>1, PeerNoticed
<1>3. Stays(k, k)
  BY DEF Stays, Silent
<1> HIDE DEF b
<1>4. LET n == emit(b, Plain("RemoteBusyEnded"))
      IN  Sound(n) /\ Stays(k, n) /\ n.state = k.state
  BY <1>1, <1>2, PeerTold
<1> QED BY <1>1, <1>2, <1>3, <1>4 DEF remote_busy_ended, b

\* SIPO.
LEMMA RemoteOutage ==
    ASSUME NEW k, Sound(k), k.state \in Traffic
    PROVE  LET n == remote_outage(k)
           IN  Sound(n) /\ Stays(k, n) /\ n.state = k.state
<1> DEFINE b == [k EXCEPT !.remote_processor_outage = TRUE]
<1>1. /\ b \in Link
      /\ b.state = k.state /\ b.config = k.config /\ b.suerm = k.suerm
      /\ b.aerm = k.aerm /\ b.tx = k.tx /\ b.events = k.events
      /\ b.local_processor_outage = k.local_processor_outage
      /\ b.timer["t6"] # Stopped <=> b.remote_busy
      /\ \A x \in Timer \ {"t6"} : b.timer[x] = k.timer[x]
  BY CongestionTimed DEF Sound, Steady, Link, Timer, Stopped
<1>2. Sound(b) /\ Stays(k, b)
  <2> HIDE DEF b
  <2> QED BY <1>1, PeerNoticed
<1>3. Stays(k, k)
  BY DEF Stays, Silent
<1> HIDE DEF b
<1>4. LET n == emit(b, Plain("RemoteProcessorOutage"))
      IN  Sound(n) /\ Stays(k, n) /\ n.state = k.state
  BY <1>1, <1>2, PeerTold
<1> QED BY <1>1, <1>2, <1>3, <1>4 DEF remote_outage, b

\* SIB, which starts T6 also when the peer is known to be busy.
LEMMA RemoteCongestion ==
    ASSUME NEW k, Sound(k), k.state \in Traffic
    PROVE  LET n == remote_congestion(k)
           IN  Sound(n) /\ Stays(k, n) /\ n.state = k.state
<1> DEFINE timed == [k EXCEPT !.timer["t6"] = k.config.t6_remote_congestion]
           b == [timed EXCEPT !.remote_busy = TRUE]
<1>1. /\ b \in Link
      /\ b.state = k.state /\ b.config = k.config /\ b.suerm = k.suerm
      /\ b.aerm = k.aerm /\ b.tx = k.tx /\ b.events = k.events
      /\ b.local_processor_outage = k.local_processor_outage
      /\ b.timer["t6"] # Stopped <=> b.remote_busy
      /\ \A x \in Timer \ {"t6"} : b.timer[x] = k.timer[x]
  BY CongestionTimed DEF Sound, Steady, Link, Timer, Stopped
<1>2. Sound(b) /\ Stays(k, b)
  <2> HIDE DEF b
  <2> QED BY <1>1, PeerNoticed
<1>3. k.remote_busy => timed = b
  BY DEF Sound, Steady, Link
<1> HIDE DEF b, timed
<1>4. LET n == emit(b, Plain("RemoteBusy"))
      IN  Sound(n) /\ Stays(k, n) /\ n.state = k.state
  BY <1>1, <1>2, PeerTold
<1> QED BY <1>1, <1>2, <1>3, <1>4 DEF remote_congestion, b, timed

\* The sequence check changes the receive control, and what it raises is no
\* notice of service.
LEMMA ReceiveMsu ==
    ASSUME NEW k, Sound(k), k.state \in Traffic, NEW su \in SignalUnit, su.kind = "MSU"
    PROVE  LET n == receive_msu(k, su)
           IN  Sound(n) /\ Stays(k, n) /\ n.state = k.state
<1> DEFINE b == [k EXCEPT !.rx = on_msu(k.rx, su.fsn).rx]
<1>1. on_msu(k.rx, su.fsn).rx \in RxControl
  BY OnMsuCases DEF Sound, Steady, Link, SignalUnit
<1>2. /\ b \in Link /\ b.state = k.state /\ b.config = k.config
      /\ b.suerm = k.suerm /\ b.aerm = k.aerm
      /\ b.tx = k.tx /\ b.events = k.events
      /\ b.remote_busy = k.remote_busy
      /\ b.local_processor_outage = k.local_processor_outage
      /\ b.timer = k.timer
  BY <1>1 DEF Sound, Steady, Link
<1> HIDE DEF b
<1>3. Sound(b) /\ Stays(k, b)
  BY <1>2 DEF Sound, Steady, TimersMatch, Fresh, OutageMatches, WithinErrorRate, Traffic,
              Stays, Silent, service_phase, notices
<1>4. Stays(k, k)
  BY DEF Stays, Silent
<1>5. LET n == emit(b, MsuEvent(su.msu))
      IN  Sound(n) /\ Stays(k, n) /\ n.state = k.state
  <2>1. MsuEvent(su.msu) \in Event
    BY Events DEF SignalUnit
  <2> DEFINE n == emit(b, MsuEvent(su.msu))
  <2>2. Sound(n) /\ Stays(b, n)
    BY <1>3, <2>1, EmitKeeps, EventNotices
  <2>3. n.state = b.state
    BY <1>2 DEF emit, Link
  <2> QED BY <1>2, <1>3, <2>2, <2>3 DEF Stays, Silent
<1>6. LET n == emit(b, Plain("RetransmissionRequested"))
      IN  Sound(n) /\ Stays(k, n) /\ n.state = k.state
  BY <1>2, <1>3, PeerTold
<1>7. receive_msu(k, su) \in {k, b, emit(b, MsuEvent(su.msu)),
                              emit(b, Plain("RetransmissionRequested"))}
  BY DEF receive_msu, b
<1> QED BY <1>2, <1>3, <1>4, <1>5, <1>6, <1>7

\* process_in_service_su: acknowledgement, recovery, end of busy and MSU.
LEMMA ProcessInServiceSu ==
    ASSUME NEW k, Sound(k), k.state \in Traffic, NEW su \in SignalUnit
    PROVE  LET n == process_in_service_su(k, su)
           IN  Sound(n) /\ Stays(k, n)
<1> DEFINE a == acknowledge(k, su)
           b == remote_recovered(a)
           c == remote_busy_ended(b)
           d == receive_msu(c, su)
<1>1. Sound(a) /\ Stays(k, a) /\ a.state = k.state
  BY Acknowledge
<1> HIDE DEF a
<1>2. Sound(b) /\ Stays(a, b) /\ b.state = k.state
  BY <1>1, RemoteRecovered
<1> HIDE DEF b
<1>3. Sound(c) /\ Stays(b, c) /\ c.state = k.state
  BY <1>1, <1>2, RemoteBusyEnded
<1> HIDE DEF c
<1>4. su.kind = "MSU" => Sound(d) /\ Stays(c, d)
  BY <1>1, <1>2, <1>3, ReceiveMsu
<1> HIDE DEF d
<1>5. process_in_service_su(k, su) = IF su.kind = "MSU" THEN d ELSE c
  BY DEF process_in_service_su, a, b, c, d
<1> QED BY <1>1, <1>2, <1>3, <1>4, <1>5 DEF Stays, Silent

\* The SUERM counts; when it has failed the link fails with it.
LEMMA Counted ==
    ASSUME NEW k, Sound(k), NEW in_error \in BOOLEAN
    PROVE  LET n == counted(k, in_error)
           IN  /\ Steady(n) /\ Stays(k, n) /\ n.state = k.state
               /\ ~suerm_tripped(n) => Sound(n)
<1>1. CASE k.state \notin Traffic
  BY <1>1 DEF counted, Sound, Stays, Silent
<1>2. CASE k.state \in Traffic
  <2> DEFINE n == [k EXCEPT !.suerm = Suerm_record(@, in_error)]
  <2>1. n = counted(k, in_error)
    BY <1>2 DEF counted
  <2>2. /\ Suerm_record(k.suerm, in_error) \in Suerm
        /\ Suerm_record(k.suerm, in_error).threshold = k.suerm.threshold
        /\ ~Suerm_record(k.suerm, in_error).failed =>
             Suerm_record(k.suerm, in_error).count < k.suerm.threshold
    <3>1. k.suerm \in Suerm
      BY DEF Sound, Steady, Link
    <3> DEFINE r == k.suerm
               received == r.received_since_leak + 1
               leaks == received >= r.decrement_interval
               filled == IF in_error THEN r.count + 1 ELSE r.count
               count == IF leaks THEN saturating_sub(filled, 1) ELSE filled
               s == [r EXCEPT !.received_since_leak = IF leaks THEN 0 ELSE received,
                              !.count = count,
                              !.failed = @ \/ count >= r.threshold]
    <3>2. s = Suerm_record(r, in_error)
      BY DEF Suerm_record
    <3>3. /\ count \in Nat /\ received \in Nat /\ r.threshold \in Nat
          /\ r.failed \in BOOLEAN
      BY <3>1 DEF Suerm, saturating_sub
    <3> HIDE DEF count, received, leaks
    <3>4. /\ s.count = count /\ s.threshold = r.threshold
          /\ s.failed = (r.failed \/ count >= r.threshold)
      BY <3>1 DEF Suerm
    <3>5. s \in Suerm
      BY <3>1, <3>3 DEF Suerm
    <3>6. ~s.failed => s.count < r.threshold
      <4> DEFINE full == count >= r.threshold
      <4>1. ~full => count < r.threshold
        BY <3>3
      <4> HIDE DEF full, s
      <4> QED BY <3>4, <4>1 DEF full
    <3> HIDE DEF s, r
    <3> QED BY <3>2, <3>4, <3>5, <3>6 DEF r
  <2>3. /\ n \in Link /\ n.state = k.state /\ n.config = k.config
        /\ n.suerm = Suerm_record(k.suerm, in_error) /\ n.aerm = k.aerm
        /\ n.tx = k.tx /\ n.rx = k.rx /\ n.events = k.events
        /\ n.remote_busy = k.remote_busy
        /\ n.remote_processor_outage = k.remote_processor_outage
        /\ n.local_processor_outage = k.local_processor_outage
        /\ n.timer = k.timer
    BY <2>2 DEF Sound, Steady, Link
  <2> HIDE DEF n
  <2>4. Steady(n)
    BY <2>2, <2>3 DEF Sound, Steady, TimersMatch, Fresh, OutageMatches
  <2>5. Stays(k, n)
    BY <2>3 DEF Stays, Silent, service_phase, notices
  <2>6. ~suerm_tripped(n) => Sound(n)
    BY <1>2, <2>2, <2>3, <2>4 DEF Sound, WithinErrorRate, suerm_tripped
  <2> QED BY <2>1, <2>3, <2>4, <2>5, <2>6
<1> QED BY <1>1, <1>2

(***************************************************************************)
(* The calls.                                                              *)
(***************************************************************************)

\* A call of link l: l is sound after it, and its service made one step.
Called(l) == \E n : Becomes(l, n) /\ Sound(n) /\ Serves(link[l], n)

\* The last of two assignments counts.
LEMMA Overwritten ==
    ASSUME NEW c, NEW p, NEW q
    PROVE  [[c EXCEPT !.pending = q] EXCEPT !.pending = p] = [c EXCEPT !.pending = p]
OBVIOUS

\* A change of nothing but the flags that no property reads, and of the MSUs
\* that wait.
LEMMA Aside ==
    ASSUME NEW k, Sound(k), NEW n \in Link,
           n.state = k.state, n.timer = k.timer, n.config = k.config,
           n.suerm = k.suerm, n.aerm = k.aerm, n.rx = k.rx, n.events = k.events,
           n.tx = [k.tx EXCEPT !.pending = n.tx.pending],
           n.remote_busy = k.remote_busy,
           n.remote_processor_outage = k.remote_processor_outage,
           n.local_processor_outage = k.local_processor_outage
    PROVE  Sound(n) /\ Stays(k, n)
<1>1. k.tx \in TxControl /\ n.tx \in TxControl
  BY DEF Sound, Steady, Link
<1>2. n.tx.unacked = k.tx.unacked
  BY <1>1 DEF TxControl
<1>3. Fresh(n)
  <2>1. ASSUME n.state \notin Traffic \cup {"OutOfService"}
        PROVE  n.tx = [TxControl_new(n.config.method) EXCEPT !.pending = n.tx.pending]
    <3>1. k.tx = [TxControl_new(k.config.method) EXCEPT !.pending = k.tx.pending]
      BY <2>1 DEF Sound, Steady, Fresh
    <3> QED BY <3>1, Overwritten
  <2> QED BY <2>1 DEF Sound, Steady, Fresh
<1>4. Sound(n)
  BY <1>2, <1>3 DEF Sound, Steady, TimersMatch, OutageMatches, WithinErrorRate
<1>5. Stays(k, n)
  BY DEF Stays, Silent, service_phase, notices
<1> QED BY <1>4, <1>5

\* start: the alignment begins, with error correction as new.
LEMMA StartCall ==
    ASSUME NEW l \in Links, Sound(link[l]), Start(l)
    PROVE  Called(l)
<1> DEFINE k == link[l]
           c == k.config
           n == [k EXCEPT
               !.active = TRUE, !.emergency = c.emergency,
               !.remote_processor_outage = FALSE, !.remote_busy = FALSE,
               !.local_busy = FALSE, !.proving_attempt = 0,
               !.tx = TxControl_new(c.method), !.rx = RxControl_new(c.method),
               !.suerm = Suerm_reset(@),
               !.aerm = Aerm_restart(c.aerm_threshold_normal),
               !.timer = [AllStopped EXCEPT !["t2"] = c.t2_not_aligned],
               !.state = "NotAligned"]
<1>1. Becomes(l, n) /\ k.state = "OutOfService"
  BY DEF Start
<1>2. /\ k \in Link /\ c \in Mtp2Config
      /\ k.suerm.threshold = c.suerm_threshold
  BY DEF Sound, Steady, Link
<1> HIDE DEF k
<1>3. /\ TxControl_new(c.method) \in TxControl /\ RxControl_new(c.method) \in RxControl
      /\ Suerm_reset(k.suerm) \in Suerm
      /\ Suerm_reset(k.suerm).threshold = k.suerm.threshold
      /\ Aerm_restart(c.aerm_threshold_normal) \in Aerm
      /\ c.emergency \in BOOLEAN /\ c.t2_not_aligned \in Nat
  BY <1>2, InitialTypes DEF Link, Suerm, Suerm_reset, Aerm, Aerm_restart, Mtp2Config
<1>4. /\ n.state = "NotAligned" /\ n.config = c /\ n.events = k.events
      /\ n.tx = TxControl_new(c.method) /\ n.rx = RxControl_new(c.method)
      /\ n.suerm = Suerm_reset(k.suerm)
      /\ ~n.remote_processor_outage /\ ~n.remote_busy
      /\ n.local_processor_outage = k.local_processor_outage
      /\ n.timer = [AllStopped EXCEPT !["t2"] = c.t2_not_aligned]
      /\ n \in Link
  BY <1>2, <1>3 DEF Link, AllStopped, Stopped, Mtp2State, Timer
<1> HIDE DEF n
<1>5. TimersMatch(n)
  BY <1>3, <1>4 DEF TimersMatch, guarded, AllStopped, Stopped, Traffic, Timer
<1>6. Fresh(n)
  BY <1>4 DEF Fresh, TxControl_new
<1>7. Sound(n)
  BY <1>2, <1>3, <1>4, <1>5, <1>6 DEF Sound, Steady, OutageMatches, WithinErrorRate, Traffic
<1>8. Begins(k, n)
  BY <1>1, <1>4 DEF Begins, Silent, service_phase, notices
<1> QED BY <1>1, <1>7, <1>8 DEF Called, Serves, k

\* stop: out of service from every state.
LEMMA StopCall ==
    ASSUME NEW l \in Links, Sound(link[l]), Stop(l)
    PROVE  Called(l)
<1> DEFINE k == link[l]
           b == [stop_all_timers(k) EXCEPT !.active = FALSE, !.state = "OutOfService"]
           n == emit(b, OutOfService("Stopped"))
<1>1. Becomes(l, n)
  BY DEF Stop
<1>2. /\ k \in Link /\ k.suerm.threshold = k.config.suerm_threshold
  BY DEF Sound, Steady
<1> HIDE DEF k
<1>3. /\ b \in Link /\ b.state = "OutOfService" /\ b.timer = AllStopped
      /\ b.config = k.config /\ b.suerm = k.suerm /\ b.events = k.events
  BY <1>2 DEF stop_all_timers, Link, AllStopped, Stopped, Mtp2State
<1> HIDE DEF b
<1>4. OutOfService("Stopped") \in Event
  BY Events DEF OutOfServiceReason
<1>5. Sound(n) /\ Fails(k, n)
  BY <1>2, <1>3, <1>4, Down, EventNotices
<1> QED BY <1>1, <1>5 DEF Called, Serves, k

\* The flags of emergency alignment and of local congestion.
LEMMA Flags ==
    ASSUME NEW k, Sound(k), NEW on \in BOOLEAN
    PROVE  /\ LET n == [k EXCEPT !.emergency = on]
              IN  Sound(n) /\ Stays(k, n) /\ n.state = k.state
           /\ LET n == [k EXCEPT !.local_busy = on]
              IN  Sound(n) /\ Stays(k, n) /\ n.state = k.state
<1>1. k \in Link
  BY DEF Sound, Steady
<1>2. ASSUME NEW n, n = [k EXCEPT !.emergency = on]
      PROVE  Sound(n) /\ Stays(k, n) /\ n.state = k.state
  <2>1. /\ n \in Link
        /\ n.state = k.state /\ n.timer = k.timer /\ n.config = k.config
        /\ n.suerm = k.suerm /\ n.aerm = k.aerm /\ n.rx = k.rx /\ n.events = k.events
        /\ n.tx = k.tx
        /\ n.remote_busy = k.remote_busy
        /\ n.remote_processor_outage = k.remote_processor_outage
        /\ n.local_processor_outage = k.local_processor_outage
    BY <1>1, <1>2 DEF Link
  <2>2. n.tx = [k.tx EXCEPT !.pending = n.tx.pending]
    BY <1>1, <2>1 DEF Link, TxControl
  <2> QED BY <2>1, <2>2, Aside
<1>3. ASSUME NEW n, n = [k EXCEPT !.local_busy = on]
      PROVE  Sound(n) /\ Stays(k, n) /\ n.state = k.state
  <2>1. /\ n \in Link
        /\ n.state = k.state /\ n.timer = k.timer /\ n.config = k.config
        /\ n.suerm = k.suerm /\ n.aerm = k.aerm /\ n.rx = k.rx /\ n.events = k.events
        /\ n.tx = k.tx
        /\ n.remote_busy = k.remote_busy
        /\ n.remote_processor_outage = k.remote_processor_outage
        /\ n.local_processor_outage = k.local_processor_outage
    BY <1>1, <1>3 DEF Link
  <2>2. n.tx = [k.tx EXCEPT !.pending = n.tx.pending]
    BY <1>1, <2>1 DEF Link, TxControl
  <2> QED BY <2>1, <2>2, Aside
<1> QED BY <1>2, <1>3

\* set_emergency
LEMMA SetEmergencyCall ==
    ASSUME NEW l \in Links, Sound(link[l]), NEW on \in BOOLEAN, SetEmergency(l, on)
    PROVE  Called(l)
BY Flags DEF SetEmergency, Called, Serves

\* local_busy and local_busy_ended
LEMMA LocalBusyCall ==
    ASSUME NEW l \in Links, Sound(link[l]), NEW busy \in BOOLEAN, LocalBusy(l, busy)
    PROVE  Called(l)
BY Flags DEF LocalBusy, Called, Serves

\* submit: the transmitter holds the MSU, the service stays as it is.
LEMMA SubmitCall ==
    ASSUME NEW l \in Links, Sound(link[l]), NEW msu \in Msu, SubmitMsu(l, msu)
    PROVE  Called(l)
<1> DEFINE k == link[l]
           tx == submit(k.tx, msu)
           n == [k EXCEPT !.tx = tx]
<1>1. Becomes(l, n)
  BY DEF SubmitMsu
<1>2. k \in Link /\ Sound(k)
  BY DEF Sound, Steady
<1> HIDE DEF k
<1>3. tx \in TxControl /\ tx = [k.tx EXCEPT !.pending = tx.pending]
  <2>1. k.tx \in TxControl
    BY <1>2 DEF Link
  <2> DEFINE waiting == Append(k.tx.pending, msu)
  <2>2. waiting \in Seq(Msu)
    BY <2>1 DEF TxControl
  <2>3. tx = [k.tx EXCEPT !.pending = waiting]
    BY DEF submit
  <2> HIDE DEF waiting, tx
  <2> QED BY <2>1, <2>2, <2>3 DEF TxControl
<1> HIDE DEF tx
<1>4. Sound(n) /\ Stays(k, n)
  <2>1. /\ n \in Link
        /\ n.state = k.state /\ n.timer = k.timer /\ n.config = k.config
        /\ n.suerm = k.suerm /\ n.aerm = k.aerm /\ n.rx = k.rx /\ n.events = k.events
        /\ n.tx = tx
        /\ n.remote_busy = k.remote_busy
        /\ n.remote_processor_outage = k.remote_processor_outage
        /\ n.local_processor_outage = k.local_processor_outage
    BY <1>2, <1>3 DEF Link
  <2> HIDE DEF n
  <2> QED BY <1>2, <1>3, <2>1, Aside
<1> QED BY <1>1, <1>4 DEF Called, Serves, k

\* local_processor_outage, in every state.
LEMMA OutageCall ==
    ASSUME NEW l \in Links, Sound(link[l]), LocalProcessorOutage(l)
    PROVE  Called(l)
<1> DEFINE k == link[l]
           o == [k EXCEPT !.local_processor_outage = TRUE]
           n == IF o.state = "InService" THEN [o EXCEPT !.state = "ProcessorOutage"]
                ELSE IF o.state = "AlignedReady"
                THEN [o EXCEPT !.state = "AlignedNotReady", !.timer["t1"] = Stopped]
                ELSE o
<1>1. Becomes(l, n)
  BY DEF LocalProcessorOutage
<1>2. k \in Link /\ Sound(k)
  BY DEF Sound, Steady
<1> HIDE DEF k
<1>3. /\ n \in Link
      /\ n.state = IF k.state = "InService" THEN "ProcessorOutage"
                   ELSE IF k.state = "AlignedReady" THEN "AlignedNotReady" ELSE k.state
      /\ n.timer = IF k.state = "AlignedReady" THEN [k.timer EXCEPT !["t1"] = Stopped]
                   ELSE k.timer
      /\ n.config = k.config
      /\ n.suerm = k.suerm /\ n.aerm = k.aerm /\ n.rx = k.rx /\ n.events = k.events
      /\ n.tx = k.tx
      /\ n.remote_busy = k.remote_busy
      /\ n.remote_processor_outage = k.remote_processor_outage
      /\ n.local_processor_outage
  BY <1>2 DEF Link, Mtp2State, Traffic, Timer
<1> HIDE DEF n
<1>4. TimersMatch(n)
  BY <1>2, <1>3 DEF Sound, Steady, Link, TimersMatch, guarded, Traffic, Timer
<1>5. Sound(n)
  BY <1>2, <1>3, <1>4
     DEF Sound, Steady, Fresh, OutageMatches, WithinErrorRate, Traffic
<1>6. Stays(k, n)
  BY <1>3 DEF Stays, Silent, service_phase, notices
<1> QED BY <1>1, <1>5, <1>6 DEF Called, Serves, k

\* local_processor_recovered, in every state.
LEMMA RecoveryCall ==
    ASSUME NEW l \in Links, Sound(link[l]), LocalProcessorRecovered(l)
    PROVE  Called(l)
<1> DEFINE k == link[l]
           r == [k EXCEPT !.local_processor_outage = FALSE]
<1>1. k \in Link /\ Sound(k)
  BY DEF Sound, Steady
<1>2. \/ r.state = "ProcessorOutage" /\ Becomes(l, [r EXCEPT !.state = "InService"])
      \/ r.state = "AlignedNotReady" /\ Becomes(l, enter_aligned_ready(r))
      \/ r.state \notin {"ProcessorOutage", "AlignedNotReady"} /\ Becomes(l, r)
  BY DEF LocalProcessorRecovered
<1> HIDE DEF k
<1>3. /\ r \in Link /\ ~r.local_processor_outage
      /\ r.state = k.state /\ r.timer = k.timer /\ r.config = k.config
      /\ r.suerm = k.suerm /\ r.aerm = k.aerm /\ r.rx = k.rx /\ r.events = k.events
      /\ r.tx = k.tx
      /\ r.remote_busy = k.remote_busy
      /\ r.remote_processor_outage = k.remote_processor_outage
  BY <1>1 DEF Link
<1> HIDE DEF r
<1>4. CASE r.state = "AlignedNotReady" /\ Becomes(l, enter_aligned_ready(r))
  <2>1. r.timer = [k.timer EXCEPT !["t4"] = Stopped]
    BY <1>1, <1>3, <1>4 DEF Sound, Steady, Link, TimersMatch, guarded, Timer
  <2>2. Sound(enter_aligned_ready(r)) /\ Stays(k, enter_aligned_ready(r))
    BY <1>1, <1>3, <1>4, <2>1, EnterAlignedReady DEF Stays, Silent, service_phase
  <2> QED BY <1>4, <2>2 DEF Called, Serves, k
<1>5. ASSUME NEW n, Becomes(l, n),
             \/ r.state = "ProcessorOutage" /\ n = [r EXCEPT !.state = "InService"]
             \/ r.state \notin {"ProcessorOutage", "AlignedNotReady"} /\ n = r
      PROVE  Called(l)
  <2>1. /\ n \in Link /\ ~n.local_processor_outage
        /\ n.state = IF k.state = "ProcessorOutage" THEN "InService" ELSE k.state
        /\ n.state # "AlignedNotReady"
        /\ n.timer = k.timer /\ n.config = k.config
        /\ n.suerm = k.suerm /\ n.aerm = k.aerm /\ n.rx = k.rx /\ n.events = k.events
        /\ n.tx = k.tx
        /\ n.remote_busy = k.remote_busy
        /\ n.remote_processor_outage = k.remote_processor_outage
    BY <1>3, <1>5 DEF Link, Mtp2State, Traffic
  <2>2. TimersMatch(n)
    BY <1>1, <2>1 DEF Sound, Steady, TimersMatch, guarded, Traffic, Timer
  <2>3. Sound(n)
    BY <1>1, <2>1, <2>2
       DEF Sound, Steady, Fresh, OutageMatches, WithinErrorRate, Traffic
  <2>4. Stays(k, n)
    BY <2>1 DEF Stays, Silent, service_phase, notices
  <2> QED BY <1>5, <2>3, <2>4 DEF Called, Serves, k
<1> QED BY <1>2, <1>4, <1>5

\* poll_transmit: T7 starts with the first MSU sent.
LEMMA PollTransmitCall ==
    ASSUME NEW l \in Links, Sound(link[l]), PollTransmit(l)
    PROVE  Called(l)
<1> DEFINE k == link[l]
           n == poll_transmit(k).link
           tx == IF k.state = "InService" /\ ~holding(k) THEN poll(k.tx).tx ELSE k.tx
           starts == k.state = "InService" /\ tx.unacked # <<>> /\ k.timer["t7"] = Stopped
           t7 == IF starts THEN k.config.t7_excessive_delay ELSE k.timer["t7"]
<1>1. Becomes(l, n)
  BY DEF PollTransmit
<1>2. k \in Link /\ Sound(k)
  BY DEF Sound, Steady
<1> HIDE DEF k
<1>3. n = [k EXCEPT !.tx = tx, !.timer["t7"] = t7]
  BY <1>2 DEF poll_transmit, Link
<1>4. /\ tx \in TxControl /\ t7 \in Nat \cup {Stopped}
      /\ k.state # "InService" => tx = k.tx /\ t7 = k.timer["t7"]
      /\ k.state = "InService" => (t7 # Stopped <=> tx.unacked # <<>>)
  <2>1. k.tx \in TxControl /\ k.config.t7_excessive_delay \in Nat
        /\ k.timer["t7"] \in Nat \cup {Stopped}
    BY <1>2 DEF Link, Mtp2Config, Timer
  <2>2. tx \in TxControl
    BY <2>1, PollCases
  <2>3. k.state = "InService" => (k.timer["t7"] # Stopped <=> k.tx.unacked # <<>>)
    BY <1>2 DEF Sound, Steady, TimersMatch, Traffic
  <2>4. k.tx.unacked # <<>> => tx.unacked # <<>>
    <3>1. CASE tx = k.tx
      BY <3>1
    <3>2. CASE tx = poll(k.tx).tx
      <4>1. \/ poll(k.tx).tx.unacked = k.tx.unacked
            \/ \E m : poll(k.tx).tx.unacked = Append(k.tx.unacked, m)
        BY <2>1, PollCases
      <4> QED BY <2>1, <3>2, <4>1 DEF TxControl
    <3> QED BY <3>1, <3>2
  <2> HIDE DEF tx
  <2> QED BY <2>1, <2>2, <2>3, <2>4 DEF Stopped, tx
<1> HIDE DEF tx, t7, starts, n
<1>5. /\ n \in Link
      /\ n.state = k.state /\ n.timer = [k.timer EXCEPT !["t7"] = t7]
      /\ n.config = k.config
      /\ n.suerm = k.suerm /\ n.aerm = k.aerm /\ n.rx = k.rx /\ n.events = k.events
      /\ n.tx = tx
      /\ n.remote_busy = k.remote_busy
      /\ n.remote_processor_outage = k.remote_processor_outage
      /\ n.local_processor_outage = k.local_processor_outage
  BY <1>2, <1>3, <1>4 DEF Link, Timer
<1>6. TimersMatch(n)
  BY <1>2, <1>4, <1>5 DEF Sound, Steady, Link, TimersMatch, guarded, Traffic, Timer
<1>7. Sound(n)
  BY <1>2, <1>4, <1>5, <1>6
     DEF Sound, Steady, Fresh, OutageMatches, WithinErrorRate, Traffic
<1>8. Stays(k, n)
  BY <1>5 DEF Stays, Silent, service_phase, notices
<1> QED BY <1>1, <1>7, <1>8 DEF Called, Serves, k

(***************************************************************************)
(* Inbound.                                                                *)
(***************************************************************************)

\* A received LSSU: k is what the SUERM has left of link l.
LEMMA HandleLssuCall ==
    ASSUME NEW l \in Links, NEW c, Sound(c), Stays(link[l], c),
           NEW status \in StatusIndication, HandleLssu(l, c, status)
    PROVE  Called(l)
<1> DEFINE k == upgraded(c, status)
<1>1. Sound(k) /\ Stays(c, k) /\ k.state = c.state
  <2> DEFINE on == c.emergency \/ (status = "SIE" /\ c.state \in {"NotAligned", "Aligned", "Proving"})
  <2>1. on \in BOOLEAN /\ k = [c EXCEPT !.emergency = on]
    BY DEF upgraded, Sound, Steady, Link
  <2> HIDE DEF on, k
  <2> QED BY <2>1, Flags
<1>2. \/ LssuNotAligned(l, k, status) \/ LssuAligned(l, k, status)
      \/ LssuProving(l, k, status) \/ LssuReady(l, k, status)
      \/ LssuTraffic(l, k, status) \/ Becomes(l, k)
  BY DEF HandleLssu
<1> HIDE DEF k
<1>3. Stays(link[l], k)
  BY <1>1 DEF Stays, Silent
<1>4. ASSUME NEW n, Becomes(l, n), Sound(n),
             Stays(k, n) \/ Begins(k, n) \/ Proves(k, n) \/ Enters(k, n) \/ Fails(k, n)
      PROVE  Called(l)
  <2>1. Serves(link[l], n)
    BY <1>3, <1>4 DEF Serves, Stays, Begins, Proves, Enters, Fails, Silent
  <2> QED BY <1>4, <2>1 DEF Called
<1>5. CASE LssuNotAligned(l, k, status)
  BY <1>1, <1>4, <1>5, EnterAligned DEF LssuNotAligned, Sound
<1>6. CASE LssuAligned(l, k, status)
  BY <1>1, <1>4, <1>6, EnterProving, FailAlignment DEF LssuAligned, Sound, AlignmentFailure
<1>7. CASE LssuProving(l, k, status)
  BY <1>1, <1>4, <1>7, EnterAligned, EnterProving, FailAlignment
     DEF LssuProving, Sound, AlignmentFailure
<1>8. CASE LssuReady(l, k, status)
  <2>1. CASE k.state = "AlignedReady" /\ status = "SIPO"
    <3> DEFINE e == enter_in_service(k)
               b == [e EXCEPT !.remote_processor_outage = TRUE]
               n == emit(b, Plain("RemoteProcessorOutage"))
    <3>1. Becomes(l, n)
      BY <1>8, <2>1 DEF LssuReady
    <3>2. Sound(e) /\ Enters(k, e) /\ e.state = "InService"
      BY <1>1, <2>1, EnterInService
    <3> HIDE DEF e
    <3>3. Sound(b) /\ Stays(e, b) /\ b.state = e.state
      <4>1. /\ b \in Link
            /\ b.state = e.state /\ b.config = e.config /\ b.suerm = e.suerm
            /\ b.aerm = e.aerm /\ b.tx = e.tx /\ b.events = e.events
            /\ b.local_processor_outage = e.local_processor_outage
            /\ b.timer["t6"] # Stopped <=> b.remote_busy
            /\ \A x \in Timer \ {"t6"} : b.timer[x] = e.timer[x]
        BY <3>2, CongestionTimed DEF Sound, Steady, Link, Traffic
      <4> HIDE DEF b
      <4> QED BY <3>2, <4>1, PeerNoticed DEF Traffic
    <3> HIDE DEF b
    <3>4. Sound(n) /\ Stays(e, n)
      BY <3>2, <3>3, PeerTold DEF Traffic
    <3> HIDE DEF n
    <3>5. Enters(k, n)
      BY <3>2, <3>4 DEF Enters, Stays, Silent
    <3> QED BY <1>4, <3>1, <3>4, <3>5
  <2>2. CASE Becomes(l, fail_alignment(k, "ReceivedSios"))
    BY <1>1, <1>4, <2>2, FailAlignment DEF Sound, AlignmentFailure
  <2> QED BY <1>8, <2>1, <2>2 DEF LssuReady
<1>9. CASE LssuTraffic(l, k, status)
  BY <1>1, <1>4, <1>9, RemoteOutage, RemoteCongestion, FailOutOfService
     DEF LssuTraffic, Sound, OutOfServiceReason
<1>10. CASE Becomes(l, k)
  BY <1>1, <1>4, <1>10 DEF Stays, Silent
<1> QED BY <1>2, <1>5, <1>6, <1>7, <1>8, <1>9, <1>10

\* handle_fisu_or_msu, on the link that handle_su hands it.
LEMMA HandleFisuOrMsuCall ==
    ASSUME NEW l \in Links, NEW k, Sound(k), Stays(link[l], k),
           NEW su \in SignalUnit, HandleFisuOrMsu(l, k, su)
    PROVE  Called(l)
<1>1. CASE k.state = "AlignedReady"
  <2> DEFINE e == enter_in_service(k)
             n == process_in_service_su(e, su)
  <2>1. Becomes(l, n)
    BY <1>1 DEF HandleFisuOrMsu, Traffic
  <2>2. Sound(e) /\ Enters(k, e) /\ e.state \in Traffic
    BY <1>1, EnterInService DEF Traffic
  <2> HIDE DEF e
  <2>3. Sound(n) /\ Stays(e, n)
    BY <2>2, ProcessInServiceSu
  <2> HIDE DEF n
  <2>4. Enters(link[l], n)
    BY <2>2, <2>3 DEF Enters, Stays, Silent
  <2> QED BY <2>1, <2>3, <2>4 DEF Called, Serves
<1>2. CASE k.state \in Traffic
  <2> DEFINE n == process_in_service_su(k, su)
  <2>1. Becomes(l, n)
    BY <1>2 DEF HandleFisuOrMsu, Traffic
  <2>2. Sound(n) /\ Stays(k, n)
    BY <1>2, ProcessInServiceSu
  <2> HIDE DEF n
  <2>3. Stays(link[l], n)
    BY <2>2 DEF Stays, Silent
  <2> QED BY <2>1, <2>2, <2>3 DEF Called, Serves
<1>3. CASE k.state \notin Traffic \cup {"AlignedReady"}
  <2>1. Becomes(l, k)
    BY <1>3 DEF HandleFisuOrMsu
  <2> QED BY <2>1 DEF Called, Serves
<1> QED BY <1>1, <1>2, <1>3

\* handle_su
LEMMA HandleSuCall ==
    ASSUME NEW l \in Links, Sound(link[l]), NEW su \in SignalUnit, HandleSu(l, su)
    PROVE  Called(l)
<1> DEFINE k == counted(link[l], FALSE)
<1>1. Steady(k) /\ Stays(link[l], k) /\ (~suerm_tripped(k) => Sound(k))
  BY Counted
<1>2. \/ suerm_tripped(k) /\ Becomes(l, fail_out_of_service(k, "SuermFailure"))
      \/ ~suerm_tripped(k) /\ su.kind \in StatusIndication /\ HandleLssu(l, k, su.kind)
      \/ ~suerm_tripped(k) /\ HandleFisuOrMsu(l, k, su)
  BY DEF HandleSu
<1> HIDE DEF k
<1>3. CASE suerm_tripped(k) /\ Becomes(l, fail_out_of_service(k, "SuermFailure"))
  <2> DEFINE n == fail_out_of_service(k, "SuermFailure")
  <2>1. Sound(n) /\ Fails(k, n)
    BY <1>1, FailOutOfService DEF OutOfServiceReason
  <2> HIDE DEF n
  <2>2. Fails(link[l], n)
    BY <1>1, <2>1 DEF Fails, Stays, Silent
  <2> QED BY <1>3, <2>1, <2>2 DEF Called, Serves, n
<1>4. CASE ~suerm_tripped(k) /\ su.kind \in StatusIndication /\ HandleLssu(l, k, su.kind)
  BY <1>1, <1>4, HandleLssuCall
<1>5. CASE ~suerm_tripped(k) /\ HandleFisuOrMsu(l, k, su)
  BY <1>1, <1>5, HandleFisuOrMsuCall
<1> QED BY <1>2, <1>3, <1>4, <1>5

\* handle_corrupted_su
LEMMA HandleCorruptedSuCall ==
    ASSUME NEW l \in Links, Sound(link[l]), HandleCorruptedSu(l)
    PROVE  Called(l)
<1> DEFINE k == link[l]
           proved == [k EXCEPT !.aerm = Aerm_record_error(@)]
           used == counted(k, TRUE)
           p == IF Aerm_is_tripped(proved.aerm) THEN proving_aborted(proved) ELSE proved
           u == IF suerm_tripped(used) THEN fail_out_of_service(used, "SuermFailure") ELSE used
<1>1. \/ k.state = "Proving" /\ Becomes(l, p)
      \/ Becomes(l, u)
  BY DEF HandleCorruptedSu
<1>2. k.state = "Proving" => Sound(p) /\ (Stays(k, p) \/ Fails(k, p))
  BY CorruptedWhileProving
<1>3. Steady(used) /\ Stays(k, used) /\ (~suerm_tripped(used) => Sound(used))
  BY Counted
<1>4. /\ Sound(fail_out_of_service(used, "SuermFailure"))
      /\ Fails(used, fail_out_of_service(used, "SuermFailure"))
  BY <1>3, FailOutOfService DEF OutOfServiceReason
<1>5. Sound(u) /\ (Stays(k, u) \/ Fails(k, u))
  BY <1>3, <1>4 DEF Fails, Stays, Silent
<1> HIDE DEF p, u
<1> QED BY <1>1, <1>2, <1>5 DEF Called, Serves

(***************************************************************************)
(* Time.                                                                   *)
(***************************************************************************)

\* A tick in which no expiry acts stops no timer that must run: one that
\* reaches its end has a state that it guards.
LEMMA Stepped ==
    ASSUME NEW k, Sound(k), \A x \in Timer : ~acts(k, x)
    PROVE  Sound(step(k, Timer)) /\ Stays(k, step(k, Timer))
<1> DEFINE n == step(k, Timer)
<1>1. k \in Link /\ k.timer \in [Timer -> Nat \cup {Stopped}]
  BY DEF Sound, Steady, Link
<1>2. n.timer = [x \in Timer |-> step_timer(k.timer[x])]
  BY <1>1 DEF step, Link
<1>3. ASSUME NEW x \in Timer
      PROVE  /\ n.timer[x] \in Nat \cup {Stopped}
             /\ n.timer[x] = Stopped <=> k.timer[x] = Stopped
  <2>1. k.timer[x] = Stopped \/ k.timer[x] > 1
    <3>1. k.timer[x] # Stopped => k.state \in guarded(x)
      BY DEF Sound, Steady, TimersMatch, guarded, Timer
    <3>2. k.timer[x] \in Nat \cup {Stopped}
      BY <1>1
    <3> QED BY <3>1, <3>2 DEF acts, expires
  <2>2. k.timer[x] \in Nat \cup {Stopped}
    BY <1>1
  <2> QED BY <1>2, <2>1, <2>2 DEF step_timer, Stopped
<1>4. /\ n \in Link
      /\ n.state = k.state /\ n.config = k.config
      /\ n.suerm = k.suerm /\ n.aerm = k.aerm /\ n.rx = k.rx /\ n.events = k.events
      /\ n.tx = k.tx
      /\ n.remote_busy = k.remote_busy
      /\ n.remote_processor_outage = k.remote_processor_outage
      /\ n.local_processor_outage = k.local_processor_outage
  <2>1. n.timer \in [Timer -> Nat \cup {Stopped}]
    BY <1>2, <1>3
  <2>2. n = [k EXCEPT !.timer = n.timer]
    BY <1>1 DEF step, Link
  <2> HIDE DEF n
  <2> QED BY <1>1, <2>1, <2>2 DEF Link
<1> HIDE DEF n
<1>5. TimersMatch(n)
  BY <1>3, <1>4 DEF Sound, Steady, TimersMatch, Timer
<1>6. Sound(n)
  BY <1>4, <1>5 DEF Sound, Steady, Fresh, OutageMatches, WithinErrorRate
<1>7. Stays(k, n)
  BY <1>4 DEF Stays, Silent, service_phase, notices
<1> QED BY <1>6, <1>7 DEF n

\* tick: the expiry of every timer, in the order of the code.
LEMMA TickCall ==
    ASSUME NEW l \in Links, Sound(link[l]), Tick(l)
    PROVE  Called(l)
<1> DEFINE k == link[l]
<1>1. Steady(k)
  BY DEF Sound
<1>2. ASSUME NEW f \in AlignmentFailure, Becomes(l, fail_alignment(k, f))
      PROVE  Called(l)
  BY <1>1, <1>2, FailAlignment DEF Called, Serves
<1>3. ASSUME NEW r \in OutOfServiceReason, Becomes(l, fail_out_of_service(k, r))
      PROVE  Called(l)
  BY <1>1, <1>3, FailOutOfService DEF Called, Serves
<1>4. CASE acts(k, "t4") /\ Becomes(l, proving_succeeded(step(k, {"t2", "t3", "t4"})))
  BY <1>4, ProvingSucceeded DEF Called, Serves
<1>5. CASE (\A x \in Timer : ~acts(k, x)) /\ Becomes(l, step(k, Timer))
  BY <1>5, Stepped DEF Called, Serves
<1> QED BY <1>2, <1>3, <1>4, <1>5 DEF Tick, AlignmentFailure, OutOfServiceReason

(***************************************************************************)
(* All links together.  Engine is the inductive invariant of every         *)
(* specification whose steps are calls of links and readings of events.    *)
(***************************************************************************)
Knows(believed, k) == told(believed, notices(k)) <=> service_phase(k) = "Up"

Engine ==
    /\ link \in [Links -> Link] /\ mtp3 \in [Links -> BOOLEAN]
    /\ \A l \in Links :
        Sound(link[l]) /\ link[l].config = config[l] /\ Knows(mtp3[l], link[l])

\* A step of the abstract service, or one that it does not see.
ServiceStep == [Service!Next]_(Service!vars)

\* new: every link is Sound, down, and MTP3 believes it to be down.
LEMMA EngineInit == Init => Engine /\ Service!Init
<1> SUFFICES ASSUME Init PROVE Engine /\ Service!Init
  OBVIOUS
<1>1. ASSUME NEW l \in Links
      PROVE  /\ Sound(link[l]) /\ link[l].config = config[l]
             /\ notices(link[l]) = <<>> /\ service_phase(link[l]) = "Down"
             /\ mtp3[l] = FALSE
  <2> DEFINE c == config[l]
             k == Mtp2Link_new(c)
  <2>1. c \in Mtp2Config
    BY LinkBounds
  <2>2. link[l] = k /\ mtp3[l] = FALSE
    BY DEF Init
  <2> HIDE DEF c
  <2>3. /\ TxControl_new(c.method) \in TxControl /\ RxControl_new(c.method) \in RxControl
        /\ Aerm_restart(c.aerm_threshold_normal) \in Aerm
        /\ Suerm_new(c.suerm_threshold, c.suerm_decrement_interval) \in Suerm
    BY <2>1, InitialTypes DEF Mtp2Config, Aerm_restart, Aerm, Suerm_new, Suerm
  <2>4. /\ k \in Link /\ k.config = c /\ k.state = "OutOfService" /\ k.timer = AllStopped
        /\ k.events = <<>> /\ k.suerm.threshold = c.suerm_threshold
    BY <2>1, <2>3 DEF Mtp2Link_new, Link, Mtp2Config, Mtp2State, AllStopped, Stopped, Suerm_new
  <2> HIDE DEF k
  <2>5. Sound(k)
    BY <2>4 DEF Sound, Steady, TimersMatch, Fresh, OutageMatches, WithinErrorRate,
                AllStopped, guarded, Traffic, Timer
  <2>6. notices(k) = <<>>
    BY <2>4, NoticesEmpty DEF notices
  <2> QED BY <2>2, <2>4, <2>5, <2>6 DEF service_phase, c
<1>2. link \in [Links -> Link] /\ mtp3 \in [Links -> BOOLEAN]
  <2>1. link = [l \in Links |-> Mtp2Link_new(config[l])] /\ mtp3 = [l \in Links |-> FALSE]
    BY DEF Init
  <2>2. \A l \in Links : link[l] \in Link
    BY <1>1 DEF Sound, Steady
  <2> QED BY <2>1, <2>2
<1>3. Engine
  BY <1>1, <1>2 DEF Engine, Knows, told
<1>4. Service!Init
  BY <1>1 DEF Service!Init, notices
<1> QED BY <1>3, <1>4

\* What a call does to a link's notices keeps the user informed.
LEMMA CalledKnows ==
    ASSUME NEW k \in Link, NEW n \in Link, Serves(k, n), NEW believed, Knows(believed, k)
    PROVE  Knows(believed, n)
<1>1. notices(k) \in Seq(Notice)
  BY NoticesType DEF Link, notices
<1>2. \A x \in Notice :
        /\ Append(notices(k), x) # <<>>
        /\ Append(notices(k), x)[Len(Append(notices(k), x))] = x
  BY <1>1
<1>3. service_phase(n) \in {"Down", "Aligning", "Ready", "Up"}
  BY DEF service_phase
<1>4. CASE notices(n) = notices(k)
  BY <1>4 DEF Serves, Knows, Stays, Begins, Proves, Enters, Fails, Silent
<1> QED BY <1>2 DEF Serves, Knows, told, Stays, Begins, Proves, Enters, Fails, Silent, Notice

\* A call that keeps its link Sound and serves it is a step of the service.
LEMMA EngineCall ==
    ASSUME Engine, NEW l \in Links, Called(l), UNCHANGED mtp3
    PROVE  Engine' /\ ServiceStep
<1>1. PICK n : Becomes(l, n) /\ Sound(n) /\ Serves(link[l], n)
  BY DEF Called
<1> DEFINE k == link[l]
<1>2. /\ n \in Link /\ n.config = config[l] /\ link' = [link EXCEPT ![l] = n]
      /\ k \in Link
  BY <1>1 DEF Engine, Becomes, Sound, Steady, Serves, Stays, Begins, Proves, Enters, Fails, Silent
<1>3. Knows(mtp3[l], n)
  BY <1>1, <1>2, CalledKnows DEF Engine
<1>4. Engine'
  BY <1>1, <1>2, <1>3 DEF Engine
<1>5. ServiceStep
  <2> DEFINE phase == [x \in Links |-> service_phase(link[x])]
             noted == [x \in Links |-> service_notices(link[x].events)]
  <2>1. /\ phase' = [phase EXCEPT ![l] = service_phase(n)]
        /\ noted' = [noted EXCEPT ![l] = notices(n)]
        /\ phase[l] = service_phase(k) /\ noted[l] = notices(k)
    BY <1>2 DEF Engine, notices
  <2>2. service_phase(k) \in {"Down", "Aligning", "Ready", "Up"}
    BY DEF service_phase
  <2>3. CASE Stays(k, n)
    <3>1. phase' = phase /\ noted' = noted
      BY <2>1, <2>3 DEF Stays, Silent
    <3> QED BY <3>1 DEF ServiceStep, Service!vars
  <2>4. CASE Begins(k, n)
    <3>1. noted' = noted
      BY <2>1, <2>4 DEF Begins, Silent
    <3>2. Service!Begin(l)
      BY <2>1, <2>4, <3>1 DEF Begins, Silent, Service!Begin, Service!Move
    <3> QED BY <3>2 DEF ServiceStep, Service!Next
  <2>5. CASE Proves(k, n)
    <3>1. noted' = noted
      BY <2>1, <2>5 DEF Proves, Silent
    <3>2. Service!Prove(l)
      BY <2>1, <2>5, <3>1 DEF Proves, Silent, Service!Prove, Service!Move
    <3> QED BY <3>2 DEF ServiceStep, Service!Next
  <2>6. CASE Enters(k, n)
    <3>1. Service!Enter(l)
      BY <2>1, <2>6 DEF Enters, Service!Enter, Service!Move, Service!Notify
    <3> QED BY <3>1 DEF ServiceStep, Service!Next
  <2>7. CASE Fails(k, n)
    <3>1. Service!Fail(l)
      BY <2>1, <2>2, <2>7 DEF Fails, Service!Fail, Service!Move, Service!Notify
    <3> QED BY <3>1 DEF ServiceStep, Service!Next
  <2> QED BY <1>1, <2>3, <2>4, <2>5, <2>6, <2>7 DEF Serves
<1> QED BY <1>4, <1>5

\* poll_event: MTP3 learns what it reads.
LEMMA EngineRead ==
    ASSUME Engine, NEW l \in Links, PollEvent(l)
    PROVE  Engine' /\ ServiceStep
<1> DEFINE k == link[l]
           first == Head(k.events)
           n == [k EXCEPT !.events = Tail(@)]
           learnt == IF first.event = "InService" THEN TRUE
                     ELSE IF first.event \in {"OutOfService", "AlignmentFailed"} THEN FALSE
                     ELSE mtp3[l]
<1>1. /\ k.events # <<>> /\ link' = [link EXCEPT ![l] = n]
      /\ mtp3' = [mtp3 EXCEPT ![l] = learnt]
  BY DEF PollEvent, Becomes
<1>2. Sound(k) /\ k \in Link /\ k.config = config[l] /\ mtp3[l] \in BOOLEAN
  BY DEF Engine
<1> HIDE DEF k
<1>3. /\ n \in Link /\ n.state = k.state /\ n.timer = k.timer /\ n.config = k.config
      /\ n.suerm = k.suerm /\ n.aerm = k.aerm /\ n.rx = k.rx /\ n.tx = k.tx
      /\ n.events = Tail(k.events)
      /\ n.remote_busy = k.remote_busy
      /\ n.remote_processor_outage = k.remote_processor_outage
      /\ n.local_processor_outage = k.local_processor_outage
  <2>1. k.events \in Seq(Event)
    BY <1>2 DEF Link
  <2>2. Tail(k.events) \in Seq(Event)
    BY <1>1, <2>1
  <2> QED BY <1>2, <2>2 DEF Link
<1> HIDE DEF n
<1>4. Sound(n)
  BY <1>2, <1>3 DEF Sound, Steady, TimersMatch, Fresh, OutageMatches, WithinErrorRate
<1>5. service_phase(n) = service_phase(k)
  BY <1>3 DEF service_phase
<1>6. /\ notices(k) = noticed(<<>>, first) \o notices(n)
      /\ notices(n) \in Seq(Notice)
  <2>1. k.events \in Seq(Event) /\ n.events \in Seq(Event)
    BY <1>2, <1>3 DEF Link
  <2> QED BY <1>1, <1>3, <2>1, NoticesTail, NoticesType DEF notices
<1>7. \/ /\ first.event = "InService" /\ learnt = TRUE
         /\ notices(k) = <<"up">> \o notices(n)
      \/ /\ first.event \in {"OutOfService", "AlignmentFailed"} /\ learnt = FALSE
         /\ notices(k) = <<"down">> \o notices(n)
      \/ /\ learnt = mtp3[l] /\ notices(k) = notices(n)
  <2>1. /\ first.event = "InService" => noticed(<<>>, first) = <<"up">>
        /\ first.event \in {"OutOfService", "AlignmentFailed"}
             => noticed(<<>>, first) = <<"down">>
        /\ first.event \notin {"InService", "OutOfService", "AlignmentFailed"}
             => noticed(<<>>, first) = <<>>
    <3> HIDE DEF first
    <3> QED BY DEF noticed
  <2>2. <<>> \o notices(n) = notices(n)
    BY <1>6
  <2> HIDE DEF first
  <2> QED BY <1>6, <2>1, <2>2
<1> HIDE DEF first, learnt
<1>8. \A x \in Notice :
        LET s == <<x>> \o notices(n)
        IN  /\ s # <<>> /\ Tail(s) = notices(n)
            /\ s[Len(s)] = IF notices(n) = <<>> THEN x ELSE notices(n)[Len(notices(n))]
  BY <1>6
<1>9. Knows(learnt, n)
  <2>1. Knows(mtp3[l], k)
    BY DEF Engine, k
  <2>2. told(mtp3[l], notices(k)) = told(learnt, notices(n))
    BY <1>7, <1>8 DEF told, Notice
  <2> QED BY <1>5, <2>1, <2>2 DEF Knows
<1>10. learnt \in BOOLEAN
  BY <1>2, <1>7
<1>11. Engine'
  BY <1>1, <1>2, <1>3, <1>4, <1>9, <1>10 DEF Engine
<1>12. ServiceStep
  <2> DEFINE phase == [x \in Links |-> service_phase(link[x])]
             noted == [x \in Links |-> service_notices(link[x].events)]
  <2>1. /\ phase' = [phase EXCEPT ![l] = service_phase(n)]
        /\ noted' = [noted EXCEPT ![l] = notices(n)]
        /\ phase[l] = service_phase(k) /\ noted[l] = notices(k)
    BY <1>1 DEF Engine, notices, k
  <2>2. phase' = phase
    BY <1>5, <2>1
  <2>3. CASE notices(k) = notices(n)
    <3>1. noted' = noted
      BY <2>1, <2>3
    <3> QED BY <2>2, <3>1 DEF ServiceStep, Service!vars
  <2>4. CASE notices(k) # <<>> /\ notices(n) = Tail(notices(k))
    <3>1. Service!Read(l)
      BY <2>1, <2>2, <2>4 DEF Service!Read
    <3> QED BY <3>1 DEF ServiceStep, Service!Next
  <2> QED BY <1>7, <1>8, <2>3, <2>4 DEF Notice
<1> QED BY <1>11, <1>12

\* A step that leaves the links alone.
LEMMA EngineStutter ==
    ASSUME Engine, UNCHANGED vars
    PROVE  Engine' /\ ServiceStep
<1>1. link' = link /\ mtp3' = mtp3
  BY DEF vars
<1>2. Engine'
  BY <1>1 DEF Engine
<1>3. ServiceStep
  BY <1>1 DEF ServiceStep, Service!vars
<1> QED BY <1>2, <1>3

\* What the link's own user and clock do.
LEMMA EngineControl ==
    ASSUME Engine, NEW l \in Links, Control(l)
    PROVE  Engine' /\ ServiceStep
<1>1. Sound(link[l])
  BY DEF Engine
<1>2. CASE PollEvent(l)
  BY <1>2, EngineRead
<1>3. CASE Start(l)
  BY <1>1, <1>3, StartCall, EngineCall DEF Start, Call
<1>4. CASE Stop(l)
  BY <1>1, <1>4, StopCall, EngineCall DEF Stop, Call
<1>5. ASSUME NEW on \in BOOLEAN, SetEmergency(l, on)
      PROVE  Engine' /\ ServiceStep
  BY <1>1, <1>5, SetEmergencyCall, EngineCall DEF SetEmergency, Call
<1>6. ASSUME NEW on \in BOOLEAN, LocalBusy(l, on)
      PROVE  Engine' /\ ServiceStep
  BY <1>1, <1>6, LocalBusyCall, EngineCall DEF LocalBusy, Call
<1>7. CASE LocalProcessorOutage(l)
  BY <1>1, <1>7, OutageCall, EngineCall DEF LocalProcessorOutage, Call
<1>8. CASE LocalProcessorRecovered(l)
  BY <1>1, <1>8, RecoveryCall, EngineCall DEF LocalProcessorRecovered, Call
<1>9. CASE Tick(l)
  BY <1>1, <1>9, TickCall, EngineCall DEF Tick, Call
<1> QED BY <1>2, <1>3, <1>4, <1>5, <1>6, <1>7, <1>8, <1>9 DEF Control

\* What its user submits, what it sends and what arrives.
LEMMA EngineTraffic ==
    ASSUME Engine, NEW l \in Links,
           \/ \E msu \in Msu : SubmitMsu(l, msu)
           \/ PollTransmit(l)
           \/ \E su \in SignalUnit : HandleSu(l, su)
           \/ HandleCorruptedSu(l)
    PROVE  Engine' /\ ServiceStep
<1>1. Sound(link[l])
  BY DEF Engine
<1>2. ASSUME NEW msu \in Msu, SubmitMsu(l, msu)
      PROVE  Engine' /\ ServiceStep
  BY <1>1, <1>2, SubmitCall, EngineCall DEF SubmitMsu, Call
<1>3. CASE PollTransmit(l)
  BY <1>1, <1>3, PollTransmitCall, EngineCall DEF PollTransmit, Call
<1>4. ASSUME NEW su \in SignalUnit, HandleSu(l, su)
      PROVE  Engine' /\ ServiceStep
  BY <1>1, <1>4, HandleSuCall, EngineCall DEF HandleSu, Call
<1>5. CASE HandleCorruptedSu(l)
  BY <1>1, <1>5, HandleCorruptedSuCall, EngineCall DEF HandleCorruptedSu, Call
<1> QED BY <1>2, <1>3, <1>4, <1>5

\* What the invariant says of the links, in the terms of the module Mtp2Link.
LEMMA EngineImplies ==
    ASSUME Engine
    PROVE  /\ TypeOK /\ TimersMatchState /\ FreshBeforeService /\ OutageMatchesState
           /\ (\A l \in Links : MonitorsSet(config[l])) => ErrorRateWatched
           /\ Mtp3Informed
<1>1. \A l \in Links : service_phase(link[l]) = "Up" <=> link[l].state \in Traffic
  <2>1. ASSUME NEW l \in Links PROVE link[l].state \in Mtp2State
    BY DEF Engine, Link
  <2> QED BY <2>1 DEF service_phase, Traffic, Mtp2State
<1> QED BY <1>1 DEF Engine, Sound, Steady, TypeOK, TimersMatchState, FreshBeforeService,
                    OutageMatchesState, ErrorRateWatched, Mtp3Informed, Knows, notices
=============================================================================
