------------------------------ MODULE LinkPair ------------------------------
(***************************************************************************)
(* The two ends of a signalling link and the line between them: what one   *)
(* link transmits the other receives, in order, or receives corrupted.     *)
(* Each end is an Mtp2Link with its own driver.                            *)
(*                                                                         *)
(* The clocks of the two ends advance together, and slower than the line: a *)
(* period of the program's timers is many signal units long (T4 alone is   *)
(* thousands of FISUs).  In a round each end ticks once and, unless it is  *)
(* dark, sends 1 .. MaxPerRound units, all of which the line carries over  *)
(* before a clock ticks; and MTP3 starts a failed link again before that.  *)
(***************************************************************************)
EXTENDS Mtp2Link

CONSTANTS
    MaxInFlight,    \* bound: signal units on the line, each way
    MaxPerRound,    \* how many signal units an end sends in a round, at most
    MaxDisturbances \* bound: signal units that the line corrupts and times
                    \* that MTP3 takes a link down, in all

ASSUME PairBounds ==
    /\ \E a, b \in Links : a # b /\ Links = {a, b}
    /\ {MaxInFlight, MaxPerRound, MaxDisturbances} \subseteq Nat

VARIABLES
    line,        \* line[l]: the signal units on their way to l
    spoken,      \* spoken[l]: how many signal units l has sent in this round
    ticked,      \* the ends whose clock has ticked in this round
    disturbed    \* how many disturbances there have been

pairVars == <<link, mtp3, line, spoken, ticked, disturbed>>
lineVars == <<line, spoken, ticked, disturbed>>

peer(l) == CHOOSE other \in Links : other # l

PairInit ==
    /\ Init
    /\ line = [l \in Links |-> <<>>]
    /\ spoken = [l \in Links |-> 0] /\ ticked = {}
    /\ disturbed = 0

-----------------------------------------------------------------------------
Read(l) == PollEvent(l) /\ UNCHANGED lineVars

BringUp(l) == Start(l) /\ UNCHANGED lineVars

Disturb == disturbed < MaxDisturbances /\ disturbed' = disturbed + 1

TakeDown(l) ==
    /\ Disturb
    /\ Stop(l)
    /\ UNCHANGED <<line, spoken, ticked>>

Send(l) ==
    /\ PollTransmit(l)
    /\ Len(line[peer(l)]) < MaxInFlight
    /\ line' = [line EXCEPT ![peer(l)] = Append(@, poll_transmit(link[l]).su)]
    /\ spoken[l] < MaxPerRound
    /\ spoken' = [spoken EXCEPT ![l] = @ + 1]
    /\ UNCHANGED <<ticked, disturbed>>

Arrive(l) ==
    /\ line[l] # <<>>
    /\ line' = [line EXCEPT ![l] = Tail(@)]
    /\ UNCHANGED <<spoken, ticked>>

Receive(l) ==
    /\ Arrive(l)
    /\ HandleSu(l, Head(line[l]))
    /\ UNCHANGED disturbed

ReceiveCorrupted(l) ==
    /\ Disturb
    /\ Arrive(l)
    /\ HandleCorruptedSu(l)

Clock(l) ==
    /\ l \notin ticked
    /\ \A end \in Links :
        /\ line[end] = <<>>
        /\ spoken[end] > 0 \/ ~transmitting(link[end])
        /\ link[end].state = "OutOfService" => ~link[end].active
    /\ Tick(l)
    /\ IF ticked = {} THEN ticked' = {l} /\ UNCHANGED spoken
                     ELSE ticked' = {} /\ spoken' = [end \in Links |-> 0]
    /\ UNCHANGED <<line, disturbed>>

PairNext == \E l \in Links :
    \/ Read(l) \/ BringUp(l) \/ TakeDown(l) \/ Send(l)
    \/ Receive(l) \/ ReceiveCorrupted(l) \/ Clock(l)

PairSpec == PairInit /\ [][PairNext]_pairVars

\* Both drivers keep sending, receiving, reading events and ticking, and MTP3
\* starts a link that is out of service.
PairFairness == \A l \in Links :
    /\ WF_pairVars(Read(l)) /\ WF_pairVars(BringUp(l))
    /\ SF_pairVars(Send(l)) /\ SF_pairVars(Receive(l) \/ ReceiveCorrupted(l))
    /\ SF_pairVars(Clock(l))

PairFairSpec == PairSpec /\ PairFairness

-----------------------------------------------------------------------------
(* Properties. *)

BothInService == \A l \in Links : link[l].state = "InService"

\* Two links that MTP3 brings up align, prove and enter service, and stay there,
\* when nothing is corrupted and MTP3 takes neither down: whichever is started
\* first, whoever sends or ticks first, and however often a guard timer makes
\* one of them begin again.
Undisturbed == disturbed = 0
AlignmentCompletes == []Undisturbed => <>[]BothInService

\* Service is never one-sided for good: when one end carries traffic and the
\* other does not, the other follows it into service or the one learns of it
\* (a SIOS or an alignment status on the line) and leaves, whatever was
\* corrupted or taken down in the meantime.
OneSidedServiceEnds ==
    \A l \in Links :
        link[l].state \in Traffic /\ link[peer(l)].state \notin Traffic
            ~> link[l].state \notin Traffic \/ link[peer(l)].state \in Traffic

\* "Request emergency alignment (short proving)" (Mtp2Config): two ends of which
\* one asks for it reach service.  Contradicted by a run: every SIE received
\* while proving restarts T4, and the peer keeps sending them.
EmergencyAlignmentCompletes == []Undisturbed => <>BothInService

=============================================================================
