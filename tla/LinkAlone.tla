------------------------------ MODULE LinkAlone ------------------------------
(***************************************************************************)
(* Links whose peers may do anything: any signal unit of Heard arrives at  *)
(* any time, any unit may arrive corrupted, and the links' users and       *)
(* clocks call whenever they like.                                         *)
(***************************************************************************)
EXTENDS Mtp2Link

CONSTANTS
    Heard,            \* the signal units a peer may send
    MaxOutstanding    \* bound: MSUs a link's user has waiting or unacknowledged

ASSUME PeerBounds == Heard \subseteq SignalUnit /\ MaxOutstanding \in Nat

Submit(l) ==
    /\ Len(link[l].tx.pending) + Len(link[l].tx.unacked) < MaxOutstanding
    /\ \E msu \in Msu : SubmitMsu(l, msu)

Receive(l) == \E su \in Heard : HandleSu(l, su)

Next == \E l \in Links :
    Control(l) \/ Submit(l) \/ PollTransmit(l) \/ Receive(l) \/ HandleCorruptedSu(l)

Spec == Init /\ [][Next]_vars

\* The driver keeps the clock going and reads the events; that is all.  Fairness
\* of the clock is strong: unread events hold up the calls of the model
\* (MaxBacklog), not the clock of the program.
FairSpec == Spec /\ \A l \in Links : SF_vars(Tick(l)) /\ WF_vars(PollEvent(l))
=============================================================================
