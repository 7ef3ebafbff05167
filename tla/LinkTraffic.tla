----------------------------- MODULE LinkTraffic -----------------------------
(***************************************************************************)
(* The two ends of a link (LinkPair) with users that make them work: MTP3  *)
(* at one end submits MSUs for MTP3 at the other, and either end's user    *)
(* may be out (local processor outage) or congested for a while, while     *)
(* links fail, align again and lose what the line corrupts.                *)
(*                                                                         *)
(* Every end numbers the MSUs its user submits, 1, 2, ...: an MSU is its   *)
(* number.  What has happened to them is history, kept in variables that   *)
(* no link reads.                                                          *)
(***************************************************************************)
EXTENDS LinkPair

CONSTANTS
    Senders,    \* the links whose user submits MSUs
    Holders,    \* the links whose user may be out or congested
    MaxHolds,   \* bound: outages and congestions of the users, in all
    MaxInputs   \* bound: MSUs, outages, congestions and disturbances, in all

ASSUME TrafficBounds ==
    Senders \cup Holders \subseteq Links /\ {MaxHolds, MaxInputs} \subseteq Nat

VARIABLES
    submitted,   \* submitted[l]: how many MSUs l's user has submitted
    dropped,     \* dropped[l]: the MSUs that l held when it was started
    delivered,   \* delivered[l]: the last MSU passed to l's user, 0 if none
    holds        \* how many outages and congestions there have been

history == <<submitted, dropped, delivered>>
trafficVars == <<pairVars, history, holds>>

TrafficInit ==
    /\ PairInit
    /\ submitted = [l \in Links |-> 0] /\ dropped = [l \in Links |-> {}]
    /\ delivered = [l \in Links |-> 0]
    /\ holds = 0

-----------------------------------------------------------------------------
(* The users. *)

Submit(l) ==
    LET msu == submitted[l] + 1
    IN  /\ l \in Senders
        /\ msu \in Msu
        /\ SubmitMsu(l, msu)
        /\ submitted' = [submitted EXCEPT ![l] = msu]
        /\ UNCHANGED <<lineVars, dropped, delivered, holds>>

Hold(l) ==
    /\ l \in Holders
    /\ holds < MaxHolds /\ holds' = holds + 1
    /\ UNCHANGED <<lineVars, history>>
Release == UNCHANGED <<lineVars, history, holds>>

UserGone(l) == ~link[l].local_processor_outage /\ LocalProcessorOutage(l) /\ Hold(l)
UserBack(l) == link[l].local_processor_outage /\ LocalProcessorRecovered(l) /\ Release
UserBusy(l) == ~link[l].local_busy /\ LocalBusy(l, TRUE) /\ Hold(l)
UserFree(l) == link[l].local_busy /\ LocalBusy(l, FALSE) /\ Release

-----------------------------------------------------------------------------
(* The links and the line. *)

\* The MSUs that a link holds, in order: not known to have been accepted yet.
kept(l) == [i \in DOMAIN link[l].tx.unacked |-> link[l].tx.unacked[i].msu]
           \o link[l].tx.pending

StartUp(l) ==
    /\ BringUp(l)
    /\ dropped' = [dropped EXCEPT ![l] = @ \cup {kept(l)[i] : i \in DOMAIN kept(l)}]
    /\ UNCHANGED <<submitted, delivered, holds>>

\* The MSUs that the call has passed to l's user: one, or none.
passed(l) ==
    {link'[l].events[i].msu : i \in Len(link[l].events) + 1 .. Len(link'[l].events)} \ {Fisu}

Hear(l) ==
    /\ Receive(l)
    /\ delivered' = [delivered EXCEPT ![l] = IF passed(l) = {} THEN @
                                             ELSE CHOOSE m \in passed(l) : TRUE]
    /\ UNCHANGED <<submitted, dropped, holds>>

\* What happens otherwise.
Rest(l) ==
    /\ Read(l) \/ TakeDown(l) \/ Send(l) \/ ReceiveCorrupted(l) \/ Clock(l)
    /\ UNCHANGED <<history, holds>>

inputs ==
    LET l == CHOOSE l \in Links : TRUE
    IN  submitted[l] + submitted[peer(l)] + holds + disturbed

TrafficNext ==
    /\ \E l \in Links :
        \/ Submit(l) \/ UserGone(l) \/ UserBack(l) \/ UserBusy(l) \/ UserFree(l)
        \/ StartUp(l) \/ Hear(l) \/ Rest(l)
    /\ inputs' <= MaxInputs

TrafficSpec == TrafficInit /\ [][TrafficNext]_trafficVars

\* What the drivers do of themselves, and MTP3 with a link that failed; one that
\* it stopped may stay dark.
Proceed(l) ==
    \/ (Read(l) \/ Send(l) \/ Clock(l)) /\ UNCHANGED <<history, holds>>
    \/ link[l].active /\ StartUp(l)
    \/ Hear(l)

\* They go on while there is anything to do: the rounds let every end have its
\* turn.  Users that are out or congested come back.
TrafficFairness ==
    /\ WF_trafficVars(\E l \in Links : Proceed(l))
    /\ \A l \in Links : WF_trafficVars(UserBack(l)) /\ WF_trafficVars(UserFree(l))

TrafficFairSpec == TrafficSpec /\ TrafficFairness

-----------------------------------------------------------------------------
(* Properties. *)

dark(l) == ~transmitting(link[l])

\* Nothing is lost on the way: an MSU that was submitted has been delivered, or
\* start() threw it away, or its sender still holds it, in order.  Hence what
\* leaves the retransmission buffer has been delivered, also when the receiver
\* dropped it during an outage, and after any realignment.
arrived(l, msu) == msu <= delivered[peer(l)] \/ msu \in dropped[l]
NothingLost ==
    \A l \in Links :
        \E first \in 1 .. submitted[l] + 1 :
            /\ kept(l) = [i \in 1 .. submitted[l] - first + 1 |-> first + i - 1]
            /\ \A msu \in 1 .. first - 1 : arrived(l, msu)

\* A user gets the MSUs of the other one in the order of their submission, none
\* twice, whatever is lost, held back, dropped in an outage or cut off by a
\* failure, and misses only those that start() threw away.
InOrderForTheUser ==
    [][\A l \in Links : \A msu \in passed(l) : Hear(l) =>
        /\ msu > delivered[l]
        /\ delivered[l] + 1 .. msu - 1 \subseteq dropped[peer(l)]]_trafficVars

\* A link leaves service for a cause: no timer and no signal unit takes it down
\* while the line is clean, both users are there and neither is congested.
ServiceLostForCause ==
    [][disturbed' = 0 /\ holds = 0 =>
        \A l \in Links : link[l].state \in Traffic => link'[l].state \in Traffic]_trafficVars

\* T7 notices a peer that falls silent while it owes acknowledgements: the link
\* does not wait for ever for those of a dark peer.
DarkPeerNoticed ==
    \A l \in Senders :
        link[l].tx.unacked # <<>> /\ link[l].state \in Traffic /\ dark(peer(l))
            ~> \/ link[l].state \notin Traffic \/ link[l].tx.unacked = <<>>
               \/ ~dark(peer(l))

\* The two ends never hold each other up, also when both are out or congested:
\* what an end holds back for the congestion of its peer it holds until that is
\* over or T6 takes the link down, also when the peer has gone dark, and for its
\* peer's outage until that is over, or the peer dark.
serving(l) == link[l].state \in Traffic
HoldsEnd ==
    \A l \in Links :
        /\ serving(l) /\ link[l].remote_busy ~> ~(serving(l) /\ link[l].remote_busy)
        /\ serving(l) /\ link[l].remote_processor_outage
             ~> ~(serving(l) /\ link[l].remote_processor_outage) \/ dark(peer(l))

\* With preventive cyclic retransmission every MSU submitted is delivered, or
\* thrown away by start(), or one end is dark: also the last one, and one that
\* is lost on the line or dropped in an outage.
EveryMsuArrives ==
    \A l \in Senders : \A m \in Msu :
        submitted[l] >= m ~> arrived(l, m) \/ dark(l) \/ dark(peer(l))

=============================================================================
