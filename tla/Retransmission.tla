--------------------------- MODULE Retransmission ---------------------------
(***************************************************************************)
(* Error-correction control of one signalling link: src/src/retransmission.rs *)
(* as operators on the records TxControl (assigns FSNs, owns the           *)
(* retransmission buffer) and RxControl (checks sequence, drives BSN/BIB). *)
(* The modules that put a line or a link around them keep the records in   *)
(* their variables.                                                        *)
(*                                                                         *)
(* An MSU's octets are abstract: an MSU is a number that identifies it, and *)
(* octets[m] is the size the PCR threshold N2 counts.  TxControl's         *)
(* last_acked is left out: the program writes it and never reads it.       *)
(***************************************************************************)
EXTENDS Integers, Sequences, FiniteSets

CONSTANTS
    SEQ_MODULUS,    \* size of the sequence space: 128 in the program
    Msu,            \* the MSUs that can be sent, positive numbers
    octets          \* octets[m]: SIO and SIF octets of MSU m

ASSUME SequenceSpace == SEQ_MODULUS \in Nat /\ SEQ_MODULUS >= 2
ASSUME MsuSizes == Msu \subseteq Nat \ {0} /\ octets \in [Msu -> Nat \ {0}]

\* Definitions named ..._bug are mistakes a programmer could make in the
\* definition that follows them.  No specification uses them: the properties
\* are run against them, to see that they would catch the mistake.
SEQ_HALF_bug == SEQ_MODULUS    \* every distance counts as "at or ahead of"
SEQ_HALF == SEQ_MODULUS \div 2
SequenceNumber == 0 .. SEQ_MODULUS - 1

seq_add_bug(a, b) == a + b     \* no wrap at the end of the sequence space
seq_add(a, b) == (a + b) % SEQ_MODULUS

\* The forward distance from b to a.
seq_forward(a, b) == (a + SEQ_MODULUS - b) % SEQ_MODULUS

-----------------------------------------------------------------------------
(* The methods and the records. *)

Basic == [name |-> "Basic"]
Pcr(n1, n2) == [name |-> "Pcr", n1 |-> n1, n2 |-> n2]
RetransmissionMethod == {Basic} \cup [name : {"Pcr"}, n1 : Nat, n2 : Nat]

NoCursor == -1    \* basic_cursor = None
Fisu == 0         \* the body of a frame that carries no MSU

BufferedMsu == [fsn : SequenceNumber, msu : Msu]
TxFrame == [fsn : SequenceNumber, fib : BOOLEAN, msu : Msu \cup {Fisu}]

TxControl ==
    [method : RetransmissionMethod, last_fsn : SequenceNumber, fib : BOOLEAN,
     pending : Seq(Msu), unacked : Seq(BufferedMsu),
     basic_cursor : Nat \cup {NoCursor}, pcr_cursor : Nat]

RxControl ==
    [method : RetransmissionMethod, last_received : SequenceNumber,
     bib : BOOLEAN, nack_pending : BOOLEAN]

TxControl_new(method) ==
    [method |-> method, last_fsn |-> SEQ_MODULUS - 1, fib |-> TRUE,
     pending |-> <<>>, unacked |-> <<>>,
     basic_cursor |-> NoCursor, pcr_cursor |-> 0]

RxControl_new(method) ==
    [method |-> method, last_received |-> SEQ_MODULUS - 1,
     bib |-> TRUE, nack_pending |-> FALSE]

-----------------------------------------------------------------------------
(* The transmit side. *)

submit(tx, msu) == [tx EXCEPT !.pending = Append(@, msu)]

unacked_octets(tx) ==
    LET total[n \in 0 .. Len(tx.unacked)] ==
            IF n = 0 THEN 0 ELSE total[n - 1] + octets[tx.unacked[n].msu]
    IN  total[Len(tx.unacked)]

\* A pending MSU takes the next FSN and enters the retransmission buffer.
send_new(tx) ==
    LET fsn == seq_add(tx.last_fsn, 1)
        msu == Head(tx.pending)
    IN  [tx    |-> [tx EXCEPT !.pending  = Tail(@),
                              !.last_fsn = fsn,
                              !.unacked  = Append(@, [fsn |-> fsn, msu |-> msu])],
         frame |-> [fsn |-> fsn, fib |-> tx.fib, msu |-> msu]]

\* The buffered MSU at a cursor (counted from 0), under its old FSN and the FIB
\* of the moment.
resend(tx, cursor) ==
    LET m == tx.unacked[cursor + 1]
    IN  [fsn |-> m.fsn, fib |-> tx.fib, msu |-> m.msu]

send_fisu(tx) == [fsn |-> tx.last_fsn, fib |-> tx.fib, msu |-> Fisu]

poll_basic(tx) ==
    LET resumed == [tx EXCEPT !.basic_cursor = NoCursor]
    IN  IF tx.basic_cursor \in 0 .. Len(tx.unacked) - 1
        THEN [tx    |-> [tx EXCEPT !.basic_cursor = @ + 1],
              frame |-> resend(tx, tx.basic_cursor)]
        ELSE IF tx.pending # <<>>
             THEN send_new(resumed)
             ELSE [tx |-> resumed, frame |-> send_fisu(tx)]

\* Only when both thresholds are reached.
forced_bug(tx) == /\ Len(tx.unacked) >= tx.method.n1
                  /\ unacked_octets(tx) >= tx.method.n2

\* Forced retransmission: no new MSU while the buffer is at N1 or N2.
forced(tx) == \/ Len(tx.unacked) >= tx.method.n1
              \/ unacked_octets(tx) >= tx.method.n2

\* Forced retransmission stops everything.
poll_pcr_bug(tx) ==
    IF tx.pending # <<>> /\ ~forced(tx)
    THEN send_new([tx EXCEPT !.pcr_cursor = 0])
    ELSE [tx |-> tx, frame |-> send_fisu(tx)]

poll_pcr(tx) ==
    LET cursor == IF tx.pcr_cursor >= Len(tx.unacked) THEN 0 ELSE tx.pcr_cursor
    IN  IF ~forced(tx) /\ tx.pending # <<>>
        THEN send_new([tx EXCEPT !.pcr_cursor = 0])
        ELSE IF tx.unacked # <<>>
             THEN [tx    |-> [tx EXCEPT !.pcr_cursor = cursor + 1],
                   frame |-> resend(tx, cursor)]
             ELSE [tx |-> tx, frame |-> send_fisu(tx)]

\* The next frame to transmit, with the control state after sending it.
poll(tx) == IF tx.method.name = "Basic" THEN poll_basic(tx) ELSE poll_pcr(tx)

\* How many MSUs a BSN acknowledges: the loop starts at the front of the buffer
\* and stops at the first one the BSN is not at or ahead of.
acknowledged(unacked, bsn) ==
    Cardinality({n \in DOMAIN unacked :
        \A i \in 1 .. n : seq_forward(bsn, unacked[i].fsn) < SEQ_HALF})

\* Frees one MSU per acknowledgement.
free_bug(tx, n) == IF n = 0 THEN tx ELSE [tx EXCEPT !.unacked = Tail(@)]

\* Starts a retransmission in progress again at every acknowledgement.
free_restart_bug(tx, n) ==
    IF n = 0 THEN tx
    ELSE [tx EXCEPT !.unacked      = SubSeq(@, n + 1, Len(@)),
                    !.pcr_cursor   = 0,
                    !.basic_cursor = IF @ = NoCursor THEN @ ELSE 0]

\* Only the front n MSUs go.  The resend cursor moves back by one however many
\* were freed, and stays at 0 (saturating_sub).
free(tx, n) ==
    IF n = 0 THEN tx
    ELSE [tx EXCEPT !.unacked      = SubSeq(@, n + 1, Len(@)),
                    !.pcr_cursor   = 0,
                    !.basic_cursor = IF @ \in {NoCursor, 0} THEN @ ELSE @ - 1]

on_ack(tx, bsn, bib) ==
    LET freed == free(tx, acknowledged(tx.unacked, bsn))
    IN  IF tx.method.name = "Basic" /\ bib # tx.fib
        THEN [freed EXCEPT !.fib = bib,
                           !.basic_cursor = IF freed.unacked # <<>> THEN 0 ELSE @]
        ELSE freed

-----------------------------------------------------------------------------
(* The receive side. *)

RxOutcome == {"Accepted", "Discarded", "RetransmissionRequested"}

\* Accepts whatever is ahead of the last MSU accepted.
on_msu_skip_bug(rx, fsn) ==
    [rx      |-> IF seq_forward(fsn, rx.last_received) < SEQ_HALF
                 THEN [rx EXCEPT !.last_received = fsn, !.nack_pending = FALSE] ELSE rx,
     outcome |-> IF seq_forward(fsn, rx.last_received) < SEQ_HALF
                 THEN "Accepted" ELSE "Discarded"]

\* Never considers a gap closed.
on_msu_bug(rx, fsn) ==
    IF seq_forward(fsn, rx.last_received) = 1
    THEN [rx |-> [rx EXCEPT !.last_received = fsn], outcome |-> "Accepted"]
    ELSE [rx |-> [rx EXCEPT !.bib = IF rx.nack_pending THEN @ ELSE ~@,
                            !.nack_pending = TRUE],
          outcome |-> "RetransmissionRequested"]

\* An MSU's FSN against the last one accepted: the outcome, and the control
\* state after it.  A distance of 0 (the last MSU again) counts as a gap.
on_msu(rx, fsn) ==
    LET dist == seq_forward(fsn, rx.last_received)
    IN  IF dist = 1
        THEN [rx      |-> [rx EXCEPT !.last_received = fsn, !.nack_pending = FALSE],
              outcome |-> "Accepted"]
        ELSE IF rx.method.name = "Basic" /\ dist < SEQ_HALF
        THEN [rx      |-> [rx EXCEPT !.bib = IF rx.nack_pending THEN @ ELSE ~@,
                                     !.nack_pending = TRUE],
              outcome |-> "RetransmissionRequested"]
        ELSE [rx |-> rx, outcome |-> "Discarded"]

=============================================================================
