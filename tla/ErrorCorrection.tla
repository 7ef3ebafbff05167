--------------------------- MODULE ErrorCorrection ---------------------------
(***************************************************************************)
(* One direction of a link in service: the TxControl of one end (A), the   *)
(* RxControl of the other (B), and the line between them.  A's signal      *)
(* units go over fwd; the BSN and BIB that every signal unit of B carries  *)
(* come back over bwd.  The line keeps the order, and what layer 1 finds   *)
(* corrupted never arrives.  Both directions of a link are this one twice: *)
(* TxControl and RxControl of one end share nothing.                       *)
(*                                                                         *)
(* The MSUs are 1, 2, 3, ... in the order A's user submits them.           *)
(***************************************************************************)
EXTENDS Retransmission

CONSTANTS
    method,         \* the error-correction method, the same at both ends
    MaxMsu,         \* bound: how many MSUs A's user submits
    Window,         \* how many MSUs A's user keeps outstanding at A
    MaxInFlight,    \* bound: signal units on the line, each way
    MaxLoss         \* bound: signal units the line loses

ASSUME LineBounds ==
    /\ method \in RetransmissionMethod
    /\ {MaxMsu, Window, MaxInFlight, MaxLoss} \subseteq Nat
    /\ Msu = 1 .. MaxMsu

VARIABLES
    tx,           \* A's TxControl
    rx,           \* B's RxControl
    fwd,          \* signal units from A to B
    bwd,          \* acknowledgements (BSN and BIB) from B to A
    submitted,    \* how many MSUs A's user has submitted
    delivered,    \* the MSUs given to B's user, oldest first
    lost          \* how many signal units the line has lost

vars == <<tx, rx, fwd, bwd, submitted, delivered, lost>>

\* The MSUs numbered so far, and those of them A no longer keeps.
sent == submitted - Len(tx.pending)
released == sent - Len(tx.unacked)

\* A frame remembers how many MSUs were numbered when it was sent, and an
\* acknowledgement how many were delivered: the program's signal units carry
\* neither, no guard or assignment of the model reads them, and the properties
\* speak of them.
Frame == [fsn : SequenceNumber, fib : BOOLEAN, msu : Msu \cup {Fisu}, top : Nat]
Ack == [bsn : SequenceNumber, bib : BOOLEAN, upto : Nat]

Init ==
    /\ tx = TxControl_new(method)
    /\ rx = RxControl_new(method)
    /\ fwd = <<>> /\ bwd = <<>>
    /\ submitted = 0 /\ delivered = <<>> /\ lost = 0

-----------------------------------------------------------------------------
\* MTP3 at A submits an MSU.  The program does not bound what is outstanding
\* (nor does PCR, beyond N1): Window is the discipline of its user.
Submit ==
    /\ submitted < MaxMsu
    /\ submitted - released < Window
    /\ submitted' = submitted + 1
    /\ tx' = submit(tx, submitted')
    /\ UNCHANGED <<rx, fwd, bwd, delivered, lost>>

\* A's layer 1 asks for the next signal unit and sends it.
Transmit ==
    /\ Len(fwd) < MaxInFlight
    /\ LET sending == poll(tx)
           frame   == sending.frame
       IN  /\ tx' = sending.tx
           /\ fwd' = Append(fwd, [fsn |-> frame.fsn, fib |-> frame.fib,
                                  msu |-> frame.msu,
                                  top |-> submitted - Len(sending.tx.pending)])
    /\ UNCHANGED <<rx, bwd, submitted, delivered, lost>>

\* B receives a FISU: its FSN and FIB are not looked at.
ReceiveFisu ==
    /\ fwd # <<>> /\ Head(fwd).msu = Fisu
    /\ fwd' = Tail(fwd)
    /\ UNCHANGED <<tx, rx, bwd, submitted, delivered, lost>>

\* B receives an MSU, and gives it to its user when it is in sequence.
ReceiveMsu ==
    /\ fwd # <<>> /\ Head(fwd).msu # Fisu
    /\ LET checked == on_msu(rx, Head(fwd).fsn)
       IN  /\ rx' = checked.rx
           /\ delivered' = IF checked.outcome = "Accepted"
                           THEN Append(delivered, Head(fwd).msu)
                           ELSE delivered
    /\ fwd' = Tail(fwd)
    /\ UNCHANGED <<tx, bwd, submitted, lost>>

\* B sends a signal unit of its own.
Reply ==
    /\ Len(bwd) < MaxInFlight
    /\ bwd' = Append(bwd, [bsn |-> rx.last_received, bib |-> rx.bib,
                           upto |-> Len(delivered)])
    /\ UNCHANGED <<tx, rx, fwd, submitted, delivered, lost>>

ReceiveReply ==
    /\ bwd # <<>>
    /\ tx' = on_ack(tx, Head(bwd).bsn, Head(bwd).bib)
    /\ bwd' = Tail(bwd)
    /\ UNCHANGED <<rx, fwd, submitted, delivered, lost>>

LoseFrame ==
    /\ fwd # <<>> /\ lost < MaxLoss
    /\ fwd' = Tail(fwd) /\ lost' = lost + 1
    /\ UNCHANGED <<tx, rx, bwd, submitted, delivered>>

LoseReply ==
    /\ bwd # <<>> /\ lost < MaxLoss
    /\ bwd' = Tail(bwd) /\ lost' = lost + 1
    /\ UNCHANGED <<tx, rx, fwd, submitted, delivered>>

Next ==
    \/ Submit \/ Transmit \/ ReceiveFisu \/ ReceiveMsu
    \/ Reply \/ ReceiveReply \/ LoseFrame \/ LoseReply

Spec == Init /\ [][Next]_vars

\* Both ends keep sending (an active link always transmits) and what arrives is
\* processed.  Nothing obliges the user to submit, nor the line to lose.
Fairness ==
    /\ WF_vars(Transmit) /\ WF_vars(Reply)
    /\ WF_vars(ReceiveFisu \/ ReceiveMsu) /\ WF_vars(ReceiveReply)

FairSpec == Spec /\ Fairness

-----------------------------------------------------------------------------
(* Properties. *)

\* The control records, the line and the counters stay in their sets: FSNs
\* stay in the sequence space, cursors are None or an index.
TypeOK ==
    /\ tx \in TxControl /\ tx.method = method
    /\ rx \in RxControl /\ rx.method = method
    /\ fwd \in Seq(Frame) /\ bwd \in Seq(Ack)
    /\ submitted \in 0 .. MaxMsu /\ delivered \in Seq(Msu) /\ lost \in 0 .. MaxLoss

\* B's user gets every MSU once and in the order A's user submitted them,
\* whatever the line loses and however often A retransmits.
InOrder == \A i \in DOMAIN delivered : delivered[i] = i

\* Every step is a step of the abstract transfer, or one it does not see.
Transfer == INSTANCE ReliableTransfer
ImplementsTransfer == Transfer!Spec

\* An acknowledgement frees everything it acknowledges at once: the loop of
\* on_ack stops short of no MSU the BSN is at or ahead of, as long as the
\* buffer holds at most half of the sequence space.
AckFreesDelivered ==
    [][ReceiveReply /\ Len(tx.unacked) <= SEQ_HALF => released' >= Head(bwd).upto]_vars

\* No matter what the line loses, as long as it loses finitely often, every
\* submitted MSU is delivered and leaves the retransmission buffer.
EventuallyReleased == \A m \in Msu : submitted >= m ~> released >= m

\* A negative acknowledgement is answered: the retransmission it asks for
\* arrives and closes the gap (on_msu clears nack_pending), when the line loses
\* one signal unit only.  (Lost itself, a retransmission is not asked for again.)
NackAnswered == [](lost <= 1) => (rx.nack_pending ~> ~rx.nack_pending)

\* "the transmitter [...] retransmits everything from the buffer"
\* (retransmission.rs): once a negative acknowledgement has started the
\* retransmission, every MSU then in the buffer gets through.
BufferRetransmitted ==
    \A m \in Msu : tx.basic_cursor = 0 /\ sent >= m ~> Len(delivered) >= m

\* B asks for a retransmission only when an MSU is missing: what arrived lies
\* beyond the next one expected.  (An MSU that B already has would do it too
\* when it is the last one accepted, a distance of 0: A never sends it again,
\* because every negative acknowledgement acknowledges it first.)
NackOnlyOnGap ==
    [][rx'.bib # rx.bib => Head(fwd).msu > Len(delivered) + 1]_vars

=============================================================================
