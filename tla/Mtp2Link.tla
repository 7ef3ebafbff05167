------------------------------ MODULE Mtp2Link ------------------------------
(***************************************************************************)
(* The signalling-link engine, src/src/link.rs: link state control, the    *)
(* timers, flow control and the hand-over between the state machine and    *)
(* the error correction.  link[l] is the Mtp2Link of link l.  The engine   *)
(* does no I/O: its driver calls one of the actions below at a time, sends *)
(* what poll_transmit returns and reads the events.                        *)
(*                                                                         *)
(* Operators in the source's names are its functions, from the record of a *)
(* link to the record after the call; actions are the calls a driver makes. *)
(***************************************************************************)
EXTENDS Retransmission, Monitor

CONSTANTS
    Links,          \* the links of the model
    config,         \* config[l]: the Mtp2Config of link l
    MAX_MSU_BODY,   \* the largest SIO + SIF: 273 octets in the program
    MaxBacklog      \* bound: a link with this many unread events is not called

Traffic == {"InService", "ProcessorOutage"}
Mtp2State == {"OutOfService", "NotAligned", "Aligned", "Proving",
              "AlignedReady", "AlignedNotReady"} \cup Traffic

Timer == {"t1", "t2", "t3", "t4", "t6", "t7"}
Stopped == -1    \* a timer that is None; any other value is the ticks left

Mtp2Config ==
    [method : RetransmissionMethod, emergency : BOOLEAN,
     t1_aligned_ready : Nat, t2_not_aligned : Nat, t3_aligned : Nat,
     t4_proving_normal : Nat, t4_proving_emergency : Nat,
     t6_remote_congestion : Nat, t7_excessive_delay : Nat,
     aerm_threshold_normal : Nat, aerm_threshold_emergency : Nat,
     suerm_threshold : Nat, suerm_decrement_interval : Nat,
     proving_attempts : Nat]

ASSUME LinkBounds ==
    /\ config \in [Links -> Mtp2Config]
    /\ MAX_MSU_BODY \in Nat /\ MaxBacklog \in Nat \ {0}

\* A signal unit: the header, and the kind, which for an LSSU is its status.
Aligning == {"SIO", "SIN", "SIE"}
StatusIndication == Aligning \cup {"SIOS", "SIPO", "SIB"}
SignalUnit ==
    {su \in [kind : StatusIndication \cup {"FISU", "MSU"},
             bsn : SequenceNumber, bib : BOOLEAN, fsn : SequenceNumber, fib : BOOLEAN,
             msu : Msu \cup {Fisu}] :
        su.kind = "MSU" <=> su.msu # Fisu}

OutOfServiceReason ==
    {"Stopped", "ReceivedSios", "AlignmentLost", "SuermFailure", "T6Expired", "T7Expired"}
AlignmentFailure ==
    {"AermTripped", "ReceivedSios", "T2Expired", "T3Expired", "T1Expired"}

\* Events are records of one shape; "-" and 0 where the event has no such part.
Plain(event) == [event |-> event, reason |-> "-", msu |-> 0]
OutOfService(reason) == [event |-> "OutOfService", reason |-> reason, msu |-> 0]
AlignmentFailed(failure) == [event |-> "AlignmentFailed", reason |-> failure, msu |-> 0]
MsuEvent(msu) == [event |-> "Msu", reason |-> "-", msu |-> msu]
Event ==
    {Plain(e) : e \in {"InService", "RemoteProcessorOutage", "RemoteProcessorRecovered",
                       "RemoteBusy", "RemoteBusyEnded", "RetransmissionRequested"}}
    \cup {OutOfService(r) : r \in OutOfServiceReason}
    \cup {AlignmentFailed(f) : f \in AlignmentFailure}
    \cup {MsuEvent(m) : m \in Msu}

Link ==
    [config : Mtp2Config, state : Mtp2State, active : BOOLEAN, emergency : BOOLEAN,
     local_processor_outage : BOOLEAN, remote_processor_outage : BOOLEAN,
     local_busy : BOOLEAN, remote_busy : BOOLEAN, proving_attempt : Nat,
     tx : TxControl, rx : RxControl, aerm : Aerm, suerm : Suerm,
     timer : [Timer -> Nat \cup {Stopped}], events : Seq(Event)]

VARIABLES
    link,    \* the links
    mtp3     \* mtp3[l]: whether the events read so far say that l is in service

vars == <<link, mtp3>>

\* As in Retransmission, a definition named ..._bug is a mistake in the one that
\* follows it, which the properties are run against.

-----------------------------------------------------------------------------
(* The helpers of the state machine. *)

AllStopped == [x \in Timer |-> Stopped]

Mtp2Link_new(c) ==
    [config |-> c, state |-> "OutOfService", active |-> FALSE,
     emergency |-> c.emergency,
     local_processor_outage |-> FALSE, remote_processor_outage |-> FALSE,
     local_busy |-> FALSE, remote_busy |-> FALSE, proving_attempt |-> 0,
     tx |-> TxControl_new(c.method), rx |-> RxControl_new(c.method),
     aerm |-> Aerm_restart(c.aerm_threshold_normal),
     suerm |-> Suerm_new(c.suerm_threshold, c.suerm_decrement_interval),
     timer |-> AllStopped, events |-> <<>>]

emit(k, event) == [k EXCEPT !.events = Append(@, event)]

stop_all_timers(k) == [k EXCEPT !.timer = AllStopped]

\* Leaves the timer of the state that is left running.
enter_aligned_bug(k, left) ==
    [k EXCEPT !.state = "Aligned", !.timer["t3"] = k.config.t3_aligned]

\* The three places that move to Aligned do the same: `left` is the guard of
\* the state that is left.
enter_aligned(k, left) ==
    [k EXCEPT !.state = "Aligned", !.timer[left] = Stopped,
              !.timer["t3"] = k.config.t3_aligned]

\* Attempts are counted up to the first one beyond the configured number: the
\* program compares the count with that number and nothing else.
enter_proving(k) ==
    LET c == k.config
    IN  [k EXCEPT !.state = "Proving",
                  !.proving_attempt = IF @ > c.proving_attempts THEN @ ELSE @ + 1,
                  !.aerm = Aerm_restart(IF k.emergency THEN c.aerm_threshold_emergency
                                        ELSE c.aerm_threshold_normal),
                  !.timer["t4"] = IF k.emergency THEN c.t4_proving_emergency
                                  ELSE c.t4_proving_normal]

enter_aligned_ready(k) ==
    [k EXCEPT !.state = "AlignedReady", !.timer["t1"] = k.config.t1_aligned_ready]

\* Forgets a processor outage that began during alignment.
proving_succeeded_bug(k) == enter_aligned_ready([k EXCEPT !.timer["t4"] = Stopped])

proving_succeeded(k) ==
    LET proved == [k EXCEPT !.timer["t4"] = Stopped]
    IN  IF k.local_processor_outage
        THEN [proved EXCEPT !.state = "AlignedNotReady"]
        ELSE enter_aligned_ready(proved)

\* Leaves the failure unsaid.
fail_alignment_bug(k, failure) == [stop_all_timers(k) EXCEPT !.state = "OutOfService"]

fail_alignment(k, failure) ==
    emit([stop_all_timers(k) EXCEPT !.state = "OutOfService"], AlignmentFailed(failure))

proving_aborted(k) ==
    IF k.proving_attempt < k.config.proving_attempts
    THEN enter_aligned(k, "t4")
    ELSE fail_alignment(k, "AermTripped")

enter_in_service(k) ==
    emit([k EXCEPT !.state = "InService", !.timer["t1"] = Stopped,
                   !.suerm = Suerm_reset(@)],
         Plain("InService"))

\* Leaves the failure unsaid.
fail_out_of_service_bug(k, reason) ==
    [stop_all_timers(k) EXCEPT !.state = "OutOfService",
         !.remote_processor_outage = FALSE, !.remote_busy = FALSE, !.local_busy = FALSE]

fail_out_of_service(k, reason) ==
    emit([stop_all_timers(k) EXCEPT !.state = "OutOfService",
              !.remote_processor_outage = FALSE, !.remote_busy = FALSE,
              !.local_busy = FALSE],
         OutOfService(reason))

-----------------------------------------------------------------------------
(* What the driver may call, and when.  A call reads and replaces one link. *)

Becomes(l, k) == link' = [link EXCEPT ![l] = k]

\* The driver calls link l: its unread events are few enough.
Call(l) == Len(link[l].events) < MaxBacklog /\ UNCHANGED mtp3

Init ==
    /\ link = [l \in Links |-> Mtp2Link_new(config[l])]
    /\ mtp3 = [l \in Links |-> FALSE]

\* The driver reads an event and acts on what it says of the link's state.
PollEvent(l) ==
    /\ link[l].events # <<>>
    /\ LET event == Head(link[l].events).event
       IN  mtp3' = [mtp3 EXCEPT ![l] =
                       IF event = "InService" THEN TRUE
                       ELSE IF event \in {"OutOfService", "AlignmentFailed"} THEN FALSE
                       ELSE @]
    /\ Becomes(l, [link[l] EXCEPT !.events = Tail(@)])

\* Keeps the sequence numbers and the retransmission buffer.
Start_bug(l) ==
    /\ Call(l)
    /\ link[l].state = "OutOfService"
    /\ LET k == link[l]
           c == k.config
       IN  Becomes(l, [k EXCEPT
               !.active = TRUE, !.emergency = c.emergency,
               !.remote_processor_outage = FALSE, !.remote_busy = FALSE,
               !.local_busy = FALSE, !.proving_attempt = 0,
               !.suerm = Suerm_reset(@),
               !.aerm = Aerm_restart(c.aerm_threshold_normal),
               !.timer = [AllStopped EXCEPT !["t2"] = c.t2_not_aligned],
               !.state = "NotAligned"])

Start(l) ==
    /\ Call(l)
    /\ link[l].state = "OutOfService"
    /\ LET k == link[l]
           c == k.config
       IN  Becomes(l, [k EXCEPT
               !.active = TRUE, !.emergency = c.emergency,
               !.remote_processor_outage = FALSE, !.remote_busy = FALSE,
               !.local_busy = FALSE, !.proving_attempt = 0,
               !.tx = TxControl_new(c.method), !.rx = RxControl_new(c.method),
               !.suerm = Suerm_reset(@),
               !.aerm = Aerm_restart(c.aerm_threshold_normal),
               !.timer = [AllStopped EXCEPT !["t2"] = c.t2_not_aligned],
               !.state = "NotAligned"])

Stop(l) ==
    /\ Call(l)
    /\ Becomes(l, emit([stop_all_timers(link[l]) EXCEPT !.active = FALSE,
                                                        !.state = "OutOfService"],
                       OutOfService("Stopped")))

SetEmergency(l, emergency) ==
    Call(l) /\ Becomes(l, [link[l] EXCEPT !.emergency = emergency])

LocalProcessorOutage(l) ==
    LET k == [link[l] EXCEPT !.local_processor_outage = TRUE]
    IN  /\ Call(l)
        /\ \/ /\ k.state = "InService"
              /\ Becomes(l, [k EXCEPT !.state = "ProcessorOutage"])
           \/ /\ k.state = "AlignedReady"
              /\ Becomes(l, [k EXCEPT !.state = "AlignedNotReady", !.timer["t1"] = Stopped])
           \/ /\ k.state \notin {"InService", "AlignedReady"}
              /\ Becomes(l, k)

LocalProcessorRecovered(l) ==
    LET k == [link[l] EXCEPT !.local_processor_outage = FALSE]
    IN  /\ Call(l)
        /\ \/ /\ k.state = "ProcessorOutage"
              /\ Becomes(l, [k EXCEPT !.state = "InService"])
           \/ /\ k.state = "AlignedNotReady"
              /\ Becomes(l, enter_aligned_ready(k))
           \/ /\ k.state \notin {"ProcessorOutage", "AlignedNotReady"}
              /\ Becomes(l, k)

LocalBusy(l, busy) ==
    Call(l) /\ Becomes(l, [link[l] EXCEPT !.local_busy = busy])

\* Larger MSUs are refused; there is no other condition, on the state or on how
\* many are waiting.
SubmitMsu(l, msu) ==
    /\ Call(l)
    /\ octets[msu] <= MAX_MSU_BODY
    /\ Becomes(l, [link[l] EXCEPT !.tx = submit(@, msu)])

-----------------------------------------------------------------------------
(* Outbound. *)

\* The error correction is asked for a frame only when traffic is not held.
holding(k) == k.local_busy \/ k.remote_processor_outage \/ k.remote_busy

outgoing_kind(k, msu) ==
    CASE k.state = "OutOfService" -> "SIOS"
      [] k.state = "NotAligned" -> "SIO"
      [] k.state \in {"Aligned", "Proving"} -> IF k.emergency THEN "SIE" ELSE "SIN"
      [] k.state \in {"AlignedNotReady", "ProcessorOutage"} -> "SIPO"
      [] k.state = "InService" /\ k.local_busy -> "SIB"
      [] OTHER -> IF msu = Fisu THEN "FISU" ELSE "MSU"

\* Does not start T7.
poll_transmit_bug(k) ==
    LET polled == IF k.state = "InService" /\ ~holding(k)
                  THEN poll(k.tx)
                  ELSE [tx |-> k.tx, frame |-> send_fisu(k.tx)]
        frame  == polled.frame
    IN  [su   |-> [kind |-> outgoing_kind(k, frame.msu),
                   bsn |-> k.rx.last_received, bib |-> k.rx.bib,
                   fsn |-> frame.fsn, fib |-> frame.fib, msu |-> frame.msu],
         link |-> [k EXCEPT !.tx = polled.tx]]

\* The signal unit to send and the link after sending it.
poll_transmit(k) ==
    LET polled == IF k.state = "InService" /\ ~holding(k)
                  THEN poll(k.tx)
                  ELSE [tx |-> k.tx, frame |-> send_fisu(k.tx)]
        frame  == polled.frame
        guard  == /\ k.state = "InService" /\ polled.tx.unacked # <<>>
                  /\ k.timer["t7"] = Stopped
    IN  [su   |-> [kind |-> outgoing_kind(k, frame.msu),
                   bsn |-> k.rx.last_received, bib |-> k.rx.bib,
                   fsn |-> frame.fsn, fib |-> frame.fib, msu |-> frame.msu],
         link |-> [k EXCEPT !.tx = polled.tx,
                            !.timer["t7"] = IF guard THEN k.config.t7_excessive_delay
                                            ELSE @]]

\* A link that was stopped is dark.
transmitting(k) == k.state # "OutOfService" \/ k.active

PollTransmit(l) ==
    /\ Call(l)
    /\ transmitting(link[l])
    /\ Becomes(l, poll_transmit(link[l]).link)

-----------------------------------------------------------------------------
(* Inbound: LSSUs.  k is the link after the SUERM has counted the unit. *)

\* A received SIE upgrades the alignment to emergency.
upgraded(k, status) ==
    [k EXCEPT !.emergency =
        @ \/ (status = "SIE" /\ k.state \in {"NotAligned", "Aligned", "Proving"})]

\* A peer that is not ready yet starts T2 anew.
LssuNotAligned_bug(l, k, status) ==
    /\ k.state = "NotAligned"
    /\ \/ status \in Aligning /\ Becomes(l, enter_aligned(k, "t2"))
       \/ /\ status = "SIOS"
          /\ Becomes(l, [k EXCEPT !.timer["t2"] = k.config.t2_not_aligned])

LssuNotAligned(l, k, status) ==
    /\ k.state = "NotAligned"
    /\ status \in Aligning
    /\ Becomes(l, enter_aligned(k, "t2"))

LssuAligned(l, k, status) ==
    /\ k.state = "Aligned"
    /\ \/ /\ status \in {"SIN", "SIE"}
          /\ Becomes(l, enter_proving([k EXCEPT !.timer["t3"] = Stopped]))
       \/ /\ status = "SIOS"
          /\ Becomes(l, fail_alignment(k, "ReceivedSios"))

\* Any sign that the peer is proving too starts the proving period anew.
LssuProving_bug(l, k, status) ==
    /\ k.state = "Proving"
    /\ \/ status \in {"SIN", "SIE"} /\ Becomes(l, enter_proving(k))
       \/ status = "SIO" /\ Becomes(l, enter_aligned(k, "t4"))
       \/ status = "SIOS" /\ Becomes(l, fail_alignment(k, "ReceivedSios"))

LssuProving(l, k, status) ==
    /\ k.state = "Proving"
    /\ \/ /\ status = "SIE"
          /\ Becomes(l, enter_proving(k))
       \/ /\ status = "SIO"
          /\ Becomes(l, enter_aligned(k, "t4"))
       \/ /\ status = "SIOS"
          /\ Becomes(l, fail_alignment(k, "ReceivedSios"))

LssuReady(l, k, status) ==
    \/ /\ k.state = "AlignedReady" /\ status = "SIPO"
       /\ Becomes(l, emit([enter_in_service(k) EXCEPT !.remote_processor_outage = TRUE],
                          Plain("RemoteProcessorOutage")))
    \/ /\ k.state \in {"AlignedReady", "AlignedNotReady"} /\ status = "SIOS"
       /\ Becomes(l, fail_alignment(k, "ReceivedSios"))

remote_outage(k) ==
    IF k.remote_processor_outage THEN k
    ELSE emit([k EXCEPT !.remote_processor_outage = TRUE], Plain("RemoteProcessorOutage"))

\* Every SIB starts T6 anew.
remote_congestion(k) ==
    LET timed == [k EXCEPT !.timer["t6"] = k.config.t6_remote_congestion]
    IN  IF k.remote_busy THEN timed
        ELSE emit([timed EXCEPT !.remote_busy = TRUE], Plain("RemoteBusy"))

\* Does not notice that the peer aligns again.
LssuTraffic_bug(l, k, status) ==
    /\ k.state \in Traffic
    /\ \/ status = "SIPO" /\ Becomes(l, remote_outage(k))
       \/ status = "SIB" /\ Becomes(l, remote_congestion(k))
       \/ status = "SIOS" /\ Becomes(l, fail_out_of_service(k, "ReceivedSios"))
       \/ status \in Aligning /\ Becomes(l, k)

LssuTraffic(l, k, status) ==
    /\ k.state \in Traffic
    /\ \/ status = "SIPO" /\ Becomes(l, remote_outage(k))
       \/ status = "SIB" /\ Becomes(l, remote_congestion(k))
       \/ status = "SIOS" /\ Becomes(l, fail_out_of_service(k, "ReceivedSios"))
       \/ status \in Aligning /\ Becomes(l, fail_out_of_service(k, "AlignmentLost"))

\* The status indications each state acts on; the others leave it alone.
heeded(state) ==
    CASE state = "NotAligned" -> Aligning
      [] state = "Aligned" -> {"SIN", "SIE", "SIOS"}
      [] state = "Proving" -> {"SIE", "SIO", "SIOS"}
      [] state = "AlignedReady" -> {"SIPO", "SIOS"}
      [] state = "AlignedNotReady" -> {"SIOS"}
      [] state \in Traffic -> StatusIndication
      [] OTHER -> {}

HandleLssu(l, counted, status) ==
    LET k == upgraded(counted, status)
    IN  \/ LssuNotAligned(l, k, status)
        \/ LssuAligned(l, k, status)
        \/ LssuProving(l, k, status)
        \/ LssuReady(l, k, status)
        \/ LssuTraffic(l, k, status)
        \/ status \notin heeded(k.state) /\ Becomes(l, k)

-----------------------------------------------------------------------------
(* Inbound: FISUs and MSUs. *)

\* Leaves T7 as it is.
acknowledge_bug(k, su) == [k EXCEPT !.tx = on_ack(k.tx, su.bsn, su.bib)]

acknowledge(k, su) ==
    LET tx == on_ack(k.tx, su.bsn, su.bib)
    IN  [k EXCEPT !.tx = tx,
                  !.timer["t7"] = IF tx.unacked = <<>> THEN Stopped
                                  ELSE k.config.t7_excessive_delay]

remote_recovered(k) ==
    IF ~k.remote_processor_outage THEN k
    ELSE emit([k EXCEPT !.remote_processor_outage = FALSE], Plain("RemoteProcessorRecovered"))

remote_busy_ended(k) ==
    IF ~k.remote_busy THEN k
    ELSE emit([k EXCEPT !.remote_busy = FALSE, !.timer["t6"] = Stopped],
              Plain("RemoteBusyEnded"))

\* Counts an MSU dropped in an outage as accepted.
receive_msu_bug(k, su) ==
    LET checked  == on_msu(k.rx, su.fsn)
        received == [k EXCEPT !.rx = checked.rx]
    IN  IF k.state = "ProcessorOutage" THEN received
        ELSE IF checked.outcome = "Accepted" THEN emit(received, MsuEvent(su.msu))
        ELSE IF checked.outcome = "RetransmissionRequested"
             THEN emit(received, Plain("RetransmissionRequested"))
        ELSE received

\* The sequence check of an MSU, skipped while the local processor is out.
receive_msu(k, su) ==
    LET checked  == on_msu(k.rx, su.fsn)
        received == [k EXCEPT !.rx = checked.rx]
    IN  IF k.state = "ProcessorOutage" THEN k
        ELSE IF checked.outcome = "Accepted" THEN emit(received, MsuEvent(su.msu))
        ELSE IF checked.outcome = "RetransmissionRequested"
             THEN emit(received, Plain("RetransmissionRequested"))
        ELSE received

\* Takes only an MSU for a sign that the peer is back.
process_in_service_su_bug(k, su) ==
    IF su.kind = "MSU"
    THEN receive_msu(remote_busy_ended(remote_recovered(acknowledge(k, su))), su)
    ELSE acknowledge(k, su)

process_in_service_su(k, su) ==
    LET recovered == remote_busy_ended(remote_recovered(acknowledge(k, su)))
    IN  IF su.kind = "MSU" THEN receive_msu(recovered, su) ELSE recovered

HandleFisuOrMsu(l, k, su) ==
    \/ /\ k.state = "AlignedReady"
       /\ Becomes(l, process_in_service_su(enter_in_service(k), su))
    \/ /\ k.state \in Traffic
       /\ Becomes(l, process_in_service_su(k, su))
    \/ /\ k.state \notin Traffic \cup {"AlignedReady"}
       /\ Becomes(l, k)

\* In service every signal unit received feeds the SUERM first.
counted(k, in_error) ==
    IF k.state \in Traffic THEN [k EXCEPT !.suerm = Suerm_record(@, in_error)] ELSE k

suerm_tripped(k) == k.state \in Traffic /\ k.suerm.failed

HandleSu(l, su) ==
    LET k == counted(link[l], FALSE)
    IN  /\ Call(l)
        /\ \/ suerm_tripped(k) /\ Becomes(l, fail_out_of_service(k, "SuermFailure"))
           \/ ~suerm_tripped(k) /\ su.kind \in StatusIndication /\ HandleLssu(l, k, su.kind)
           \/ ~suerm_tripped(k) /\ su.kind \in {"FISU", "MSU"} /\ HandleFisuOrMsu(l, k, su)

\* Layer 1 reports a signal unit whose check bits are wrong.
HandleCorruptedSu(l) ==
    LET k      == link[l]
        proved == [k EXCEPT !.aerm = Aerm_record_error(@)]
        used   == counted(k, TRUE)
    IN  /\ Call(l)
        /\ \/ /\ k.state = "Proving"
              /\ Becomes(l, IF Aerm_is_tripped(proved.aerm) THEN proving_aborted(proved)
                            ELSE proved)
           \/ /\ k.state # "Proving"
              /\ Becomes(l, IF suerm_tripped(used)
                            THEN fail_out_of_service(used, "SuermFailure")
                            ELSE used)

-----------------------------------------------------------------------------
(* Time. *)

\* Counts past the expiry.
step_timer_bug(t) == t - 1
step_timer(t) == IF t = Stopped \/ t <= 1 THEN Stopped ELSE t - 1
expires(t) == t # Stopped /\ t <= 1

step(k, timers) ==
    [k EXCEPT !.timer = [x \in Timer |-> IF x \in timers THEN step_timer(@[x]) ELSE @[x]]]

\* The states in which the expiry of a timer has an effect.
guarded(x) ==
    CASE x = "t2" -> {"NotAligned"}
      [] x = "t3" -> {"Aligned"}
      [] x = "t4" -> {"Proving"}
      [] x = "t1" -> {"AlignedReady"}
      [] OTHER -> Traffic

acts(k, x) == expires(k.timer[x]) /\ k.state \in guarded(x)

\* The timers are stepped in the order t2, t3, t4, t1, t6, t7, and the first
\* expiry that acts ends the tick.
Tick(l) ==
    LET k == link[l]
    IN  /\ Call(l)
        /\ \/ acts(k, "t2") /\ Becomes(l, fail_alignment(k, "T2Expired"))
           \/ acts(k, "t3") /\ Becomes(l, fail_alignment(k, "T3Expired"))
           \/ acts(k, "t4") /\ Becomes(l, proving_succeeded(step(k, {"t2", "t3", "t4"})))
           \/ acts(k, "t1") /\ Becomes(l, fail_alignment(k, "T1Expired"))
           \/ acts(k, "t6") /\ Becomes(l, fail_out_of_service(k, "T6Expired"))
           \/ acts(k, "t7") /\ ~acts(k, "t6") /\ Becomes(l, fail_out_of_service(k, "T7Expired"))
           \/ (\A x \in Timer : ~acts(k, x)) /\ Becomes(l, step(k, Timer))

\* What the link's own user and clock may do.
Control(l) ==
    \/ PollEvent(l) \/ Start(l) \/ Stop(l)
    \/ \E on \in BOOLEAN : SetEmergency(l, on) \/ LocalBusy(l, on)
    \/ LocalProcessorOutage(l) \/ LocalProcessorRecovered(l)
    \/ Tick(l)

-----------------------------------------------------------------------------
(* Properties of every link, whatever its peer does. *)

\* The records of the links and what MTP3 believes of them stay in their sets.
TypeOK == link \in [Links -> Link] /\ mtp3 \in [Links -> BOOLEAN]

\* Exactly the timer that guards a state runs in it; T6 runs while the peer is
\* busy and T7 while MSUs are unacknowledged, and neither outside traffic.  A
\* timer left running would fail a later state it does not belong to (tick), a
\* timer not running would leave the link waiting for ever.
TimersMatch(k) ==
    LET running(x) == k.timer[x] # Stopped
    IN  /\ \A x \in {"t1", "t2", "t3", "t4"} : running(x) <=> k.state \in guarded(x)
        /\ running("t6") <=> k.state \in Traffic /\ k.remote_busy
        /\ running("t7") <=> k.state \in Traffic /\ k.tx.unacked # <<>>
TimersMatchState == \A l \in Links : TimersMatch(link[l])

\* While a link aligns, the error correction is as start() made it: nothing of
\* an earlier period of service (sequence numbers, buffered MSUs, what was
\* heard of the peer) reaches the next one.
Fresh(k) ==
    k.state \notin Traffic \cup {"OutOfService"} =>
        /\ k.rx = RxControl_new(k.config.method)
        /\ k.tx = [TxControl_new(k.config.method) EXCEPT !.pending = k.tx.pending]
        /\ ~k.remote_processor_outage /\ ~k.remote_busy
FreshBeforeService == \A l \in Links : Fresh(link[l])

\* The state and the flag of the local processor outage agree wherever both say
\* something, in whatever order outages, expiries and signal units come.
OutageMatches(k) ==
    /\ k.local_processor_outage => k.state \notin {"AlignedReady", "InService"}
    /\ k.state \in {"AlignedNotReady", "ProcessorOutage"} => k.local_processor_outage
OutageMatchesState == \A l \in Links : OutageMatches(link[l])

\* A link gets past proving, and stays in service, only below the thresholds of
\* its error-rate monitors (configured positive).
WithinErrorRate(k) ==
    /\ k.state \in Traffic \cup {"Proving", "AlignedReady", "AlignedNotReady"}
         => ~Aerm_is_tripped(k.aerm)
    /\ k.state \in Traffic => ~k.suerm.failed /\ k.suerm.count < k.suerm.threshold
ErrorRateWatched == \A l \in Links : WithinErrorRate(link[l])

\* The phase of the link's service, and what a sequence of events says of it: an
\* event that takes it up or down, in order (a filter, written as a recursive
\* function so that theorems can speak of it).
service_phase(k) ==
    CASE k.state = "OutOfService" -> "Down"
      [] k.state \in {"NotAligned", "Aligned", "Proving"} -> "Aligning"
      [] k.state \in {"AlignedReady", "AlignedNotReady"} -> "Ready"
      [] OTHER -> "Up"
service_notices(events) ==
    LET notices[n \in 0 .. Len(events)] ==
            IF n = 0 THEN <<>>
            ELSE CASE events[n].event = "InService" -> Append(notices[n - 1], "up")
                   [] events[n].event \in {"OutOfService", "AlignmentFailed"}
                        -> Append(notices[n - 1], "down")
                   [] OTHER -> notices[n - 1]
    IN  notices[Len(events)]

\* Applied to what MTP3 believes, the unread events tell it the truth: every
\* entry into service and every way out of it has raised its event, in order.
told(believed, notices) == IF notices = <<>> THEN believed ELSE notices[Len(notices)] = "up"
Mtp3Informed ==
    \A l \in Links :
        told(mtp3[l], service_notices(link[l].events)) <=> link[l].state \in Traffic

\* A link is a link service: it comes up only by way of alignment and proving,
\* and each change of service raises exactly one event.
Service == INSTANCE LinkService WITH
    phase <- [l \in Links |-> service_phase(link[l])],
    notices <- [l \in Links |-> service_notices(link[l].events)]
ImplementsService == Service!Spec

\* The link waits in no alignment state for ever: what its peer does, short of
\* letting it go on, cannot put off the expiry of T2, T3 or T1 (tick).
WaitsEnd ==
    \A l \in Links : \A s \in {"NotAligned", "Aligned", "AlignedReady"} :
        link[l].state = s ~> link[l].state # s

\* What the comments of link.rs say of the calls that may come before start():
\* an MSU "queued beforehand ... waits", emergency alignment is requested "for
\* the next/ongoing alignment", and "the link sends SIB until local_busy_ended".
\* So start() lets all three stand.  Contradicted by a run.
RequestsStand ==
    [][\A l \in Links : Start(l) =>
        /\ link'[l].tx.pending = link[l].tx.pending
        /\ link[l] = [Mtp2Link_new(config[l]) EXCEPT !.emergency = TRUE] => link'[l].emergency
        /\ link[l].local_busy => link'[l].local_busy]_vars

=============================================================================
