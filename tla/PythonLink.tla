------------------------------ MODULE PythonLink ------------------------------
(***************************************************************************)
(* The two ends of a link as Python programs, src/src/python.rs: each end  *)
(* has a Link object, sends what its poll_transmit returns, encoded, and   *)
(* feeds the octets that arrive to handle_su, which decodes them.  Between *)
(* the ends are octets, and between an engine and its program are Python   *)
(* objects: signal units and events.  The programs go in rounds, as the    *)
(* ends of LinkPair do and as python/tests/test_codec.py does.             *)
(***************************************************************************)
EXTENDS Mtp2Link

CONSTANTS
    LI_MAX,         \* 63: the largest value of the length indicator
    sio, sif,       \* sio[m], sif[m]: the octet and the octets of MSU m
    Undecodable,    \* contents with correct check bits that are no signal unit
    Objects,        \* signal units that programs may build for themselves
    Contents,       \* contents that may reach them
    Senders, Holders, MaxHolds,                     \* as in LinkTraffic
    MaxInFlight, MaxPerRound, MaxDisturbances,      \* as in LinkPair
    MaxUndecodable, \* bound: undecodable contents that arrive, in all
    MaxInputs       \* bound: these and the inputs of LinkTraffic, in all

Codec == INSTANCE SignalUnits

ASSUME Programs ==
    /\ \E a, b \in Links : a # b /\ Links = {a, b}
    /\ Senders \cup Holders \subseteq Links
    /\ {MaxHolds, MaxInFlight, MaxPerRound, MaxDisturbances, MaxUndecodable} \subseteq Nat
ASSUME Bodies ==
    /\ sio \in [Msu -> Codec!Octet] /\ sif \in [Msu -> Seq(Codec!Octet)]
    /\ octets = [m \in Msu |-> 1 + Len(sif[m])]
    /\ \A c \in Undecodable : ~Codec!decode(c).ok
    /\ MaxInputs \in Nat

\* Fisu, Lssu and Msu objects: their header fields are octets, in range or not.
PyFisu == [kind : {"Fisu"}, bsn : Codec!Octet, bib : BOOLEAN, fsn : Codec!Octet, fib : BOOLEAN]
PyLssu == [kind : {"Lssu"}, bsn : Codec!Octet, bib : BOOLEAN, fsn : Codec!Octet, fib : BOOLEAN,
           status : DOMAIN Codec!StatusCode, extended : BOOLEAN]
PyMsu  == [kind : {"Msu"}, bsn : Codec!Octet, bib : BOOLEAN, fsn : Codec!Octet, fib : BOOLEAN,
           sio : Codec!Octet, sif : Seq(Codec!Octet)]
PyObject == PyFisu \cup PyLssu \cup PyMsu

ASSUME CodecBounds ==
    /\ LI_MAX \in Nat /\ LI_MAX > Codec!LI_LSSU_TWO
    /\ Objects \subseteq PyObject /\ Contents \subseteq Seq(Codec!Octet)

VARIABLES
    wire,           \* wire[l]: the contents on their way to l
    spoken, ticked, disturbed, submitted, dropped, holds,    \* as in LinkTraffic
    undecodable,    \* how many undecodable contents there have been
    got,            \* got[l]: the MSUs, SIO and SIF, that l's program has read
    exchanged       \* what a program has just used the codec for, or None

pyVars == <<link, mtp3, wire, spoken, ticked, disturbed, submitted, dropped,
            holds, undecodable, got, exchanged>>
programs == <<submitted, dropped, holds, got>>
rounds == <<spoken, ticked>>

None == [use |-> "None"]
peer(l) == CHOOSE other \in Links : other # l

\* The fields of one record and those of another that it has not.
joined(first, second) ==
    [x \in DOMAIN first \cup DOMAIN second |-> IF x \in DOMAIN first THEN first[x] ELSE second[x]]

-----------------------------------------------------------------------------
(* Building a link. *)

Mtp2Config_default ==
    [method |-> Basic, emergency |-> FALSE,
     t1_aligned_ready |-> 500, t2_not_aligned |-> 250, t3_aligned |-> 20,
     t4_proving_normal |-> 120, t4_proving_emergency |-> 6,
     t6_remote_congestion |-> 60, t7_excessive_delay |-> 20,
     aerm_threshold_normal |-> 4, aerm_threshold_emergency |-> 1,
     suerm_threshold |-> 64, suerm_decrement_interval |-> 256,
     proving_attempts |-> 5]

\* The keyword arguments and the settings they override.
Keyword ==
    [t1 |-> "t1_aligned_ready", t2 |-> "t2_not_aligned", t3 |-> "t3_aligned",
     t4_normal |-> "t4_proving_normal", t4_emergency |-> "t4_proving_emergency",
     t6 |-> "t6_remote_congestion", t7 |-> "t7_excessive_delay",
     aerm_normal |-> "aerm_threshold_normal",
     aerm_emergency |-> "aerm_threshold_emergency",
     suerm_threshold |-> "suerm_threshold",
     suerm_interval |-> "suerm_decrement_interval",
     proving_attempts |-> "proving_attempts", emergency |-> "emergency"]

\* Link(method, **kwargs): the configuration of the link, or an Mtp2Error.
PyLink_new(name, kwargs) ==
    LET arg(k, otherwise) == IF k \in DOMAIN kwargs THEN kwargs[k] ELSE otherwise
        method   == IF name = "pcr" THEN Pcr(arg("pcr_n1", 127), arg("pcr_n2", 8000)) ELSE Basic
        override == [setting \in {Keyword[k] : k \in DOMAIN kwargs \cap DOMAIN Keyword} |->
                        kwargs[CHOOSE k \in DOMAIN Keyword : Keyword[k] = setting]]
    IN  IF name \notin {"basic", "pcr"} THEN Codec!Err("unknown retransmission method")
        ELSE Codec!Ok(joined(override, joined([method |-> method], Mtp2Config_default)))

-----------------------------------------------------------------------------
(* Signal units: the engine's, the objects of Python, and the octets. *)

\* The SignalUnit that the engine's record stands for, and the way back.
concrete(su) ==
    LET header == [bsn |-> su.bsn, bib |-> su.bib, fsn |-> su.fsn, fib |-> su.fib]
    IN  CASE su.kind = "FISU" -> Codec!fisu(header)
          [] su.kind = "MSU" -> Codec!msu(header, sio[su.msu], sif[su.msu])
          [] OTHER -> Codec!lssu(header, su.kind, FALSE)

numbered(first, rest) == CHOOSE m \in Msu : sio[m] = first /\ sif[m] = rest

abstract(su) ==
    [kind |-> CASE su.kind = "Fisu" -> "FISU" [] su.kind = "Msu" -> "MSU"
                [] su.kind = "Lssu" -> su.status,
     msu  |-> IF su.kind = "Msu" THEN numbered(su.sio, su.sif) ELSE Fisu,
     bsn  |-> su.header.bsn, bib |-> su.header.bib,
     fsn  |-> su.header.fsn, fib |-> su.header.fib]

\* A mistake in su_to_py: takes one sequence number for the other.
su_to_py_bug(su) ==
    joined([su.header EXCEPT !.bsn = su.header.fsn, !.fsn = su.header.bsn],
           [x \in DOMAIN su \ {"header"} |-> su[x]])

\* A Fisu, Lssu or Msu object has the fields of the header among its own.
su_to_py(su) == joined(su.header, [x \in DOMAIN su \ {"header"} |-> su[x]])

Headers == {"bsn", "bib", "fsn", "fib"}
header(obj) ==
    IF obj.bsn >= SEQ_MODULUS \/ obj.fsn >= SEQ_MODULUS
    THEN Codec!Err("SequenceNumberOutOfRange")
    ELSE Codec!Ok([x \in Headers |-> obj[x]])

\* obj.encode()
py_encode(obj) ==
    IF ~header(obj).ok THEN header(obj)
    ELSE IF obj.kind = "Msu" /\ 1 + Len(obj.sif) > MAX_MSU_BODY
    THEN Codec!Err("MsuTooLarge")
    ELSE Codec!encode(joined([header |-> header(obj).value],
                             [x \in DOMAIN obj \ Headers |-> obj[x]]))

\* decode(data)
py_decode(data) ==
    LET su == Codec!decode(data) IN IF su.ok THEN Codec!Ok(su_to_py(su.value)) ELSE su

\* Contents that arrive, as signal units of the engine: those that decode.
understood(contents) ==
    LET units[n \in 0 .. Len(contents)] ==
            IF n = 0 THEN <<>>
            ELSE LET su == Codec!decode(contents[n])
                 IN  IF su.ok THEN Append(units[n - 1], abstract(su.value)) ELSE units[n - 1]
    IN  units[Len(contents)]

-----------------------------------------------------------------------------
(* Events. *)

Kind ==
    [InService |-> "in_service", OutOfService |-> "out_of_service",
     AlignmentFailed |-> "alignment_failed", Msu |-> "msu",
     RemoteProcessorOutage |-> "remote_processor_outage",
     RemoteProcessorRecovered |-> "remote_processor_recovered",
     RemoteBusy |-> "remote_busy", RemoteBusyEnded |-> "remote_busy_ended",
     RetransmissionRequested |-> "retransmission_requested"]

\* oos_reason and align_failure
Detail ==
    [Stopped |-> "stopped", ReceivedSios |-> "received_sios",
     AlignmentLost |-> "alignment_lost", SuermFailure |-> "suerm_failure",
     T6Expired |-> "t6_expired", T7Expired |-> "t7_expired",
     AermTripped |-> "aerm_tripped", T2Expired |-> "t2_expired",
     T3Expired |-> "t3_expired", T1Expired |-> "t1_expired"]

\* Passes the SIF without its last octet.
event_to_py_bug(e) ==
    joined([kind   |-> Kind[e.event],
            detail |-> IF e.reason \in DOMAIN Detail THEN Detail[e.reason] ELSE "None"],
           IF e.event = "Msu"
           THEN [sio |-> sio[e.msu], sif |-> SubSeq(sif[e.msu], 1, Len(sif[e.msu]) - 1)]
           ELSE <<>>)

\* What poll_event makes of an event of the engine.
event_to_py(e) ==
    joined([kind   |-> Kind[e.event],
            detail |-> IF e.reason \in DOMAIN Detail THEN Detail[e.reason] ELSE "None"],
           IF e.event = "Msu" THEN [sio |-> sio[e.msu], sif |-> sif[e.msu]] ELSE <<>>)

-----------------------------------------------------------------------------
(* The programs. *)

PyInit ==
    /\ Init
    /\ wire = [l \in Links |-> <<>>]
    /\ spoken = [l \in Links |-> 0] /\ ticked = {} /\ disturbed = 0
    /\ submitted = [l \in Links |-> 0] /\ dropped = [l \in Links |-> {}]
    /\ holds = 0 /\ undecodable = 0
    /\ got = [l \in Links |-> <<>>]
    /\ exchanged = None

\* A method of the Link that does no more than call the engine's.
Forwarded == UNCHANGED <<wire, rounds, disturbed, undecodable>>

poll_event(l) ==
    /\ PollEvent(l)
    /\ LET event == event_to_py(Head(link[l].events))
       IN  got' = IF event.kind = "msu"
                  THEN [got EXCEPT ![l] = Append(@, <<event.sio>> \o event.sif)]
                  ELSE got
    /\ Forwarded /\ UNCHANGED <<submitted, dropped, holds>>

kept(l) == {link[l].tx.unacked[i].msu : i \in DOMAIN link[l].tx.unacked}
           \cup {link[l].tx.pending[i] : i \in DOMAIN link[l].tx.pending}

start(l) ==
    /\ Start(l)
    /\ dropped' = [dropped EXCEPT ![l] = @ \cup kept(l)]
    /\ Forwarded /\ UNCHANGED <<submitted, holds, got>>

Disturb == disturbed < MaxDisturbances /\ disturbed' = disturbed + 1

stop(l) ==
    /\ Disturb
    /\ Stop(l)
    /\ UNCHANGED <<wire, rounds, undecodable, programs>>

submit_msu(l) ==
    LET msu == submitted[l] + 1
    IN  /\ l \in Senders /\ msu \in Msu
        /\ SubmitMsu(l, msu)
        /\ submitted' = [submitted EXCEPT ![l] = msu]
        /\ Forwarded /\ UNCHANGED <<dropped, holds, got>>

\* The processor outages and congestions that a program signals.
signal(l) ==
    LET k == link[l]
        begins == \/ ~k.local_processor_outage /\ LocalProcessorOutage(l)
                  \/ ~k.local_busy /\ LocalBusy(l, TRUE)
        ends   == \/ k.local_processor_outage /\ LocalProcessorRecovered(l)
                  \/ k.local_busy /\ LocalBusy(l, FALSE)
    IN  /\ \/ l \in Holders /\ holds < MaxHolds /\ begins /\ holds' = holds + 1
           \/ ends /\ UNCHANGED holds
        /\ Forwarded /\ UNCHANGED <<submitted, dropped, got>>

\* su = link.poll_transmit(); pipe.send(su.encode()).  The link has moved on
\* before the unit is encoded.
poll_and_send(l) ==
    LET content == py_encode(su_to_py(concrete(poll_transmit(link[l]).su)))
    IN  /\ PollTransmit(l)
        /\ Len(understood(wire[peer(l)])) < MaxInFlight
        /\ spoken[l] < MaxPerRound
        /\ spoken' = [spoken EXCEPT ![l] = @ + 1]
        /\ wire' = [wire EXCEPT ![peer(l)] = IF content.ok THEN Append(@, content.value) ELSE @]
        /\ UNCHANGED <<ticked, disturbed, undecodable, programs>>

arrives(l) == wire[l] # <<>> /\ wire' = [wire EXCEPT ![l] = Tail(@)]

\* Octets that do not decode raise an Mtp2Error and do not reach the engine:
\* neither its state nor its error-rate monitors.
handle_su(l) ==
    LET su == Codec!decode(Head(wire[l]))
    IN  /\ arrives(l)
        /\ IF su.ok THEN HandleSu(l, abstract(su.value)) ELSE UNCHANGED <<link, mtp3>>
        /\ UNCHANGED <<rounds, disturbed, undecodable, programs>>

\* Only signal units are corrupted: for any other content the program does the
\* same.
handle_corrupted_su(l) ==
    /\ Disturb
    /\ arrives(l) /\ Codec!decode(Head(wire[l])).ok
    /\ HandleCorruptedSu(l)
    /\ UNCHANGED <<rounds, undecodable, programs>>

tick(l) ==
    /\ l \notin ticked
    /\ \A end \in Links :
        /\ wire[end] = <<>>
        /\ spoken[end] > 0 \/ ~transmitting(link[end])
        /\ link[end].state = "OutOfService" => ~link[end].active
    /\ Tick(l)
    /\ IF ticked = {} THEN ticked' = {l} /\ UNCHANGED spoken
                     ELSE ticked' = {} /\ spoken' = [end \in Links |-> 0]
    /\ UNCHANGED <<wire, disturbed, undecodable, programs>>

\* The line delivers octets that are no signal unit.
StrayContent(l) ==
    /\ undecodable < MaxUndecodable /\ undecodable' = undecodable + 1
    /\ \E content \in Undecodable : wire' = [wire EXCEPT ![l] = Append(@, content)]
    /\ UNCHANGED <<link, mtp3, rounds, disturbed, programs>>

inputs ==
    LET l == CHOOSE l \in Links : TRUE
    IN  submitted[l] + submitted[peer(l)] + holds + disturbed + undecodable

\* Without any link, a program encodes an object that it has built and another
\* one decodes it, or one decodes contents that no program of this kind made and
\* encodes the object again.  (Bound: only before the links are used, with which
\* this has nothing to do.)
Exchange ==
    /\ exchanged = None
    /\ inputs = 0 /\ \A l \in Links : link[l] = Mtp2Link_new(config[l])
    /\ \/ \E obj \in Objects : LET data == py_encode(obj) IN
            /\ data.ok
            /\ exchanged' = [use |-> "encode", obj |-> obj, result |-> py_decode(data.value)]
       \/ \E data \in Contents :
            exchanged' = [use |-> "decode", result |-> py_decode(data)]
    /\ UNCHANGED <<link, mtp3, wire, rounds, disturbed, undecodable, programs>>

PyNext ==
    \/ Exchange
    \/ /\ \E l \in Links :
            \/ poll_event(l) \/ start(l) \/ stop(l) \/ submit_msu(l) \/ signal(l)
            \/ poll_and_send(l) \/ handle_su(l) \/ handle_corrupted_su(l) \/ tick(l)
            \/ StrayContent(l)
       /\ exchanged' = None
       /\ inputs' <= MaxInputs

PySpec == PyInit /\ [][PyNext]_pyVars

-----------------------------------------------------------------------------
(* Properties. *)

\* What a program builds and encodes another one decodes to the same, at every
\* length an MSU may have and on either side of the length at which the
\* indicator saturates (for MSUs of two octets or more after the SIO, which the
\* indicator tells from an LSSU).
TellableFromLssu(obj) == obj.kind = "Msu" => Codec!body(obj) > Codec!LI_LSSU_TWO
RoundTrip ==
    exchanged.use = "encode" /\ TellableFromLssu(exchanged.obj)
        => exchanged.result = Codec!Ok(exchanged.obj)

\* What decode accepts of anything at all, the program can send on, and the next
\* one understands the same.
AcceptedIsSendable ==
    exchanged.use = "decode" /\ exchanged.result.ok =>
        LET again == py_encode(exchanged.result.value)
        IN  again.ok /\ py_decode(again.value) = exchanged.result

\* The MSU that was passed last to a program, which has events to read and has
\* read MSUs: it is the last one of all these, or 0.
latest(events, read) ==
    LET unread == {i \in DOMAIN events : events[i].msu # Fisu}
        msu    == read[Len(read)]
    IN  IF unread # {} THEN events[CHOOSE i \in unread : \A j \in unread : j <= i].msu
        ELSE IF read # <<>> THEN numbered(Head(msu), Tail(msu))
        ELSE 0

\* Two Python programs are the two ends of a link: the objects, the octets and
\* the codec between the engines change nothing of what the ends do and say to
\* each other, and octets that do not decode are as if they had not come.
Ends == INSTANCE LinkTraffic WITH
    line <- [l \in Links |-> understood(wire[l])],
    delivered <- [l \in Links |-> latest(link[l].events, got[l])]
ImplementsTraffic == Ends!TrafficSpec

\* A program reads the MSUs, octet by octet, that the other one submitted, in
\* that order, none twice.
ReadsWhatWasSubmitted ==
    \A l \in Links :
        \E number \in [DOMAIN got[l] -> 1 .. submitted[peer(l)]] :
            /\ \A i \in DOMAIN got[l] : got[l][i] = <<sio[number[i]]>> \o sif[number[i]]
            /\ \A i, j \in DOMAIN got[l] : i < j => number[i] < number[j]

\* "It flows once the link is in service ... Fails only if the body exceeds the
\* link maximum" (submit_msu): an MSU that was accepted takes no link down.
\* Contradicted by a run: an MSU of one octet arrives as an LSSU.
SubmittedMsusFlow ==
    [][holds = 0 /\ disturbed' = 0 =>
        \A l \in Links : link[l].state \in Traffic => link'[l].state \in Traffic]_pyVars

=============================================================================
