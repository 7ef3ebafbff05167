------------------------ MODULE RetransmissionProofs ------------------------
(***************************************************************************)
(* Facts about the operators of Retransmission, for every sequence modulus *)
(* and every buffer: the arithmetic of sequence numbers, and what poll,    *)
(* on_msu and on_ack do to the records they are given.                     *)
(***************************************************************************)
EXTENDS Retransmission, FiniteSetTheorems, TLAPS

\* The FSN of the p-th MSU sent: TxControl starts at SEQ_MODULUS - 1 and adds 1.
fsn_of(p) == (p + SEQ_MODULUS - 1) % SEQ_MODULUS

\* Division with remainder by the modulus.
LEMMA Euclid ==
    ASSUME NEW a \in Int
    PROVE  /\ a % SEQ_MODULUS \in SequenceNumber
           /\ a \div SEQ_MODULUS \in Int
           /\ a = SEQ_MODULUS * (a \div SEQ_MODULUS) + (a % SEQ_MODULUS)
BY SequenceSpace DEF SequenceNumber

\* ... and its remainder is the only one.
LEMMA Residue ==
    ASSUME NEW q \in Int, NEW r \in SequenceNumber
    PROVE  (SEQ_MODULUS * q + r) % SEQ_MODULUS = r
BY SequenceSpace DEF SequenceNumber

\* An FSN is in the sequence space and differs from its count by a multiple of it.
LEMMA FsnQuotient ==
    ASSUME NEW p \in Nat
    PROVE  /\ fsn_of(p) \in SequenceNumber
           /\ \E x \in Int : p + SEQ_MODULUS - 1 = SEQ_MODULUS * x + fsn_of(p)
<1> DEFINE e == p + SEQ_MODULUS - 1
<1>1. e \in Int
  BY SequenceSpace
<1>2. /\ e % SEQ_MODULUS \in SequenceNumber
      /\ e \div SEQ_MODULUS \in Int
      /\ e = SEQ_MODULUS * (e \div SEQ_MODULUS) + (e % SEQ_MODULUS)
  <2> HIDE DEF e
  <2> QED BY <1>1, Euclid
<1>3. fsn_of(p) = e % SEQ_MODULUS
  BY DEF fsn_of
<1> HIDE DEF e
<1>4. \E x \in Int : e = SEQ_MODULUS * x + fsn_of(p)
  BY <1>2, <1>3
<1> QED BY <1>2, <1>3, <1>4 DEF e

\* The FSN that send_new assigns after the p-th is the (p+1)-th.
LEMMA FsnNext ==
    ASSUME NEW p \in Nat
    PROVE  seq_add(fsn_of(p), 1) = fsn_of(p + 1)
<1>1. PICK x \in Int : p + SEQ_MODULUS - 1 = SEQ_MODULUS * x + fsn_of(p)
  BY FsnQuotient
<1>2. PICK y \in Int : p + 1 + SEQ_MODULUS - 1 = SEQ_MODULUS * y + fsn_of(p + 1)
  BY FsnQuotient
<1>3. fsn_of(p) \in SequenceNumber /\ fsn_of(p + 1) \in SequenceNumber
  BY FsnQuotient
<1>4. fsn_of(p) + 1 = SEQ_MODULUS * (y - x) + fsn_of(p + 1)
  BY <1>1, <1>2, <1>3, SequenceSpace DEF SequenceNumber
<1> QED BY <1>3, <1>4, Residue DEF seq_add

\* seq_forward recovers the distance of two counts from their FSNs, as long as
\* the counts are less than the sequence space apart.
LEMMA FsnDistance ==
    ASSUME NEW p \in Nat, NEW q \in Nat, NEW d \in SequenceNumber,
           p - q \in {d, d - SEQ_MODULUS}
    PROVE  seq_forward(fsn_of(p), fsn_of(q)) = d
<1>1. PICK x \in Int : p + SEQ_MODULUS - 1 = SEQ_MODULUS * x + fsn_of(p)
  BY FsnQuotient
<1>2. PICK y \in Int : q + SEQ_MODULUS - 1 = SEQ_MODULUS * y + fsn_of(q)
  BY FsnQuotient
<1>3. fsn_of(p) \in SequenceNumber /\ fsn_of(q) \in SequenceNumber
  BY FsnQuotient
<1>4. \E c \in Int :
        fsn_of(p) + SEQ_MODULUS - fsn_of(q) = SEQ_MODULUS * c + d
  <2>1. CASE p - q = d
    <3>1. fsn_of(p) + SEQ_MODULUS - fsn_of(q) = SEQ_MODULUS * (y - x + 1) + d
      BY <1>1, <1>2, <1>3, <2>1, SequenceSpace DEF SequenceNumber
    <3> QED BY <3>1
  <2>2. CASE p - q = d - SEQ_MODULUS
    <3>1. fsn_of(p) + SEQ_MODULUS - fsn_of(q) = SEQ_MODULUS * (y - x) + d
      BY <1>1, <1>2, <1>3, <2>2, SequenceSpace DEF SequenceNumber
    <3> QED BY <3>1
  <2> QED BY <2>1, <2>2
<1> QED BY <1>4, Residue DEF seq_forward

-----------------------------------------------------------------------------
\* Both controls start in their sets.
LEMMA InitialTypes ==
    ASSUME NEW method \in RetransmissionMethod
    PROVE  /\ TxControl_new(method) \in TxControl
           /\ RxControl_new(method) \in RxControl
BY SequenceSpace
   DEF TxControl_new, RxControl_new, TxControl, RxControl, SequenceNumber, NoCursor,
       BufferedMsu

\* poll (transmit path of either method) sends a pending MSU under the next FSN
\* and buffers it, or leaves buffer and FSN alone and sends a FISU or a
\* buffered MSU under the FSN it had.  PCR sends nothing new at N1.
LEMMA PollCases ==
    ASSUME NEW c \in TxControl
    PROVE  /\ poll(c).tx \in TxControl /\ poll(c).tx.method = c.method
           /\ poll(c).frame \in TxFrame
           /\ \/ /\ c.pending # <<>>
                 /\ c.method.name = "Pcr" => Len(c.unacked) < c.method.n1
                 /\ poll(c).frame.fsn = seq_add(c.last_fsn, 1)
                 /\ poll(c).frame.msu = Head(c.pending)
                 /\ poll(c).tx.pending = Tail(c.pending)
                 /\ poll(c).tx.last_fsn = seq_add(c.last_fsn, 1)
                 /\ poll(c).tx.unacked =
                      Append(c.unacked, [fsn |-> seq_add(c.last_fsn, 1),
                                         msu |-> Head(c.pending)])
              \/ /\ poll(c).tx.pending = c.pending
                 /\ poll(c).tx.last_fsn = c.last_fsn
                 /\ poll(c).tx.unacked = c.unacked
                 /\ \/ poll(c).frame.msu = Fisu
                    \/ \E i \in DOMAIN c.unacked :
                          /\ poll(c).frame.fsn = c.unacked[i].fsn
                          /\ poll(c).frame.msu = c.unacked[i].msu
<1>1. c.pending # <<>> =>
        /\ Head(c.pending) \in Msu /\ Tail(c.pending) \in Seq(Msu)
  BY DEF TxControl
<1>2. seq_add(c.last_fsn, 1) \in SequenceNumber
  <2>1. c.last_fsn + 1 \in Int
    BY SequenceSpace DEF TxControl, SequenceNumber
  <2> QED BY <2>1, Euclid DEF seq_add
<1> DEFINE b == [fsn |-> seq_add(c.last_fsn, 1), msu |-> Head(c.pending)]
<1>3. c.pending # <<>> => Append(c.unacked, b) \in Seq(BufferedMsu)
  BY <1>1, <1>2 DEF TxControl, BufferedMsu
<1>4. ASSUME NEW d \in TxControl, d.pending = c.pending, d.last_fsn = c.last_fsn,
             d.unacked = c.unacked, d.method = c.method, c.pending # <<>>
      PROVE  /\ send_new(d).tx \in TxControl /\ send_new(d).tx.method = c.method
             /\ send_new(d).frame \in TxFrame
             /\ send_new(d).frame.fsn = seq_add(c.last_fsn, 1)
             /\ send_new(d).frame.msu = Head(c.pending)
             /\ send_new(d).tx.pending = Tail(c.pending)
             /\ send_new(d).tx.last_fsn = seq_add(c.last_fsn, 1)
             /\ send_new(d).tx.unacked = Append(c.unacked, b)
  BY <1>1, <1>2, <1>3, <1>4 DEF send_new, TxControl, TxFrame
<1>5. ASSUME NEW i \in Nat, i < Len(c.unacked)
      PROVE  /\ resend(c, i) \in TxFrame
             /\ i + 1 \in DOMAIN c.unacked
             /\ resend(c, i).fsn = c.unacked[i + 1].fsn
             /\ resend(c, i).msu = c.unacked[i + 1].msu
  <2>1. i + 1 \in DOMAIN c.unacked /\ c.unacked[i + 1] \in BufferedMsu
    BY <1>5 DEF TxControl
  <2> DEFINE m == c.unacked[i + 1]
  <2>2. resend(c, i) = [fsn |-> m.fsn, fib |-> c.fib, msu |-> m.msu]
    BY DEF resend
  <2>3. m \in BufferedMsu
    BY <2>1
  <2> HIDE DEF m
  <2>4. /\ resend(c, i) \in TxFrame
        /\ resend(c, i).fsn = m.fsn /\ resend(c, i).msu = m.msu
    BY <2>2, <2>3 DEF TxControl, TxFrame, BufferedMsu
  <2> QED BY <2>1, <2>4 DEF m
<1>6. send_fisu(c) \in TxFrame /\ send_fisu(c).msu = Fisu
  BY DEF send_fisu, TxFrame, TxControl
<1>7. CASE c.method.name = "Basic"
  <2> DEFINE r == [c EXCEPT !.basic_cursor = NoCursor]
  <2>1. CASE c.basic_cursor \in 0 .. Len(c.unacked) - 1
    <3>1. c.basic_cursor \in Nat /\ c.basic_cursor < Len(c.unacked)
      BY <2>1 DEF TxControl
    <3>2. poll(c) = [tx |-> [c EXCEPT !.basic_cursor = c.basic_cursor + 1],
                     frame |-> resend(c, c.basic_cursor)]
      BY <1>7, <2>1 DEF poll, poll_basic
    <3> DEFINE e == [c EXCEPT !.basic_cursor = c.basic_cursor + 1]
    <3>3. /\ e \in TxControl
          /\ e.pending = c.pending /\ e.last_fsn = c.last_fsn
          /\ e.unacked = c.unacked /\ e.method = c.method
      BY <3>1 DEF TxControl
    <3>4. poll(c).tx = e /\ poll(c).frame = resend(c, c.basic_cursor)
      BY <3>2
    <3> HIDE DEF e
    <3> QED BY <1>5, <3>1, <3>3, <3>4
  <2>2. r \in TxControl
    BY DEF TxControl
  <2>3. CASE c.basic_cursor \notin 0 .. Len(c.unacked) - 1 /\ c.pending # <<>>
    <3>1. poll(c) = send_new(r)
      BY <1>7, <2>3 DEF poll, poll_basic
    <3>2. /\ r.pending = c.pending /\ r.last_fsn = c.last_fsn
          /\ r.unacked = c.unacked /\ r.method = c.method
      BY DEF TxControl
    <3> HIDE DEF r
    <3> QED BY <1>4, <1>7, <2>2, <2>3, <3>1, <3>2
  <2>4. CASE c.basic_cursor \notin 0 .. Len(c.unacked) - 1 /\ c.pending = <<>>
    <3>1. poll(c).tx = r /\ poll(c).frame = send_fisu(c)
      BY <1>7, <2>4 DEF poll, poll_basic
    <3>2. /\ r.pending = c.pending /\ r.last_fsn = c.last_fsn
          /\ r.unacked = c.unacked /\ r.method = c.method
      BY DEF TxControl
    <3> HIDE DEF r
    <3> QED BY <1>6, <2>2, <3>1, <3>2
  <2> QED BY <2>1, <2>3, <2>4
<1>8. CASE c.method.name = "Pcr"
  <2> DEFINE r == [c EXCEPT !.pcr_cursor = 0]
             i == IF c.pcr_cursor >= Len(c.unacked) THEN 0 ELSE c.pcr_cursor
  <2>1. r \in TxControl
    BY DEF TxControl
  <2>2. CASE ~forced(c) /\ c.pending # <<>>
    <3>1. poll(c) = send_new(r)
      BY <1>8, <2>2 DEF poll, poll_pcr
    <3>2. /\ r.pending = c.pending /\ r.last_fsn = c.last_fsn
          /\ r.unacked = c.unacked /\ r.method = c.method
      BY DEF TxControl
    <3>3. Len(c.unacked) < c.method.n1
      BY <1>8, <2>2 DEF forced, TxControl, RetransmissionMethod, Basic
    <3> HIDE DEF r, i
    <3> QED BY <1>4, <2>1, <2>2, <3>1, <3>2, <3>3
  <2>3. CASE ~(~forced(c) /\ c.pending # <<>>) /\ c.unacked # <<>>
    <3>1. poll(c) = [tx |-> [c EXCEPT !.pcr_cursor = i + 1], frame |-> resend(c, i)]
      BY <1>8, <2>3 DEF poll, poll_pcr
    <3>2. i \in Nat /\ i < Len(c.unacked)
      BY <2>3 DEF TxControl
    <3> DEFINE e == [c EXCEPT !.pcr_cursor = i + 1]
    <3>3. /\ e \in TxControl
          /\ e.pending = c.pending /\ e.last_fsn = c.last_fsn
          /\ e.unacked = c.unacked /\ e.method = c.method
      BY <3>2 DEF TxControl
    <3>4. poll(c).tx = e /\ poll(c).frame = resend(c, i)
      BY <3>1
    <3> HIDE DEF i, e
    <3> QED BY <1>5, <3>2, <3>3, <3>4
  <2>4. CASE ~(~forced(c) /\ c.pending # <<>>) /\ c.unacked = <<>>
    <3>1. poll(c) = [tx |-> c, frame |-> send_fisu(c)]
      BY <1>8, <2>4 DEF poll, poll_pcr
    <3> QED BY <1>6, <3>1
  <2> QED BY <2>2, <2>3, <2>4
<1>9. c.method.name \in {"Basic", "Pcr"}
  BY DEF TxControl, RetransmissionMethod, Basic
<1> QED BY <1>7, <1>8, <1>9

\* on_msu accepts the MSU at distance 1 and no other, and moves last_received
\* only then.
LEMMA OnMsuCases ==
    ASSUME NEW r \in RxControl, NEW fsn \in SequenceNumber
    PROVE  /\ on_msu(r, fsn).rx \in RxControl /\ on_msu(r, fsn).rx.method = r.method
           /\ \/ /\ on_msu(r, fsn).outcome = "Accepted"
                 /\ seq_forward(fsn, r.last_received) = 1
                 /\ on_msu(r, fsn).rx.last_received = fsn
              \/ /\ on_msu(r, fsn).outcome # "Accepted"
                 /\ on_msu(r, fsn).rx.last_received = r.last_received
<1> DEFINE accepted == [r EXCEPT !.last_received = fsn, !.nack_pending = FALSE]
           asked    == [r EXCEPT !.bib = IF r.nack_pending THEN r.bib ELSE ~r.bib,
                                 !.nack_pending = TRUE]
<1>1. accepted \in RxControl /\ accepted.method = r.method /\ accepted.last_received = fsn
  BY DEF RxControl
<1>2. /\ asked \in RxControl /\ asked.method = r.method
      /\ asked.last_received = r.last_received
  BY DEF RxControl
<1>3. \/ /\ seq_forward(fsn, r.last_received) = 1
         /\ on_msu(r, fsn) = [rx |-> accepted, outcome |-> "Accepted"]
      \/ on_msu(r, fsn) = [rx |-> asked, outcome |-> "RetransmissionRequested"]
      \/ on_msu(r, fsn) = [rx |-> r, outcome |-> "Discarded"]
  BY DEF on_msu
<1> HIDE DEF accepted, asked
<1> QED BY <1>1, <1>2, <1>3

\* The loop of on_ack counts no more than the buffer holds, and never gets past
\* an MSU at half of the sequence space or more behind the BSN.
LEMMA AcknowledgedRange ==
    ASSUME NEW u \in Seq(BufferedMsu), NEW bsn \in SequenceNumber
    PROVE  /\ acknowledged(u, bsn) \in 0 .. Len(u)
           /\ \A m \in 0 .. Len(u) :
                m < Len(u) /\ seq_forward(bsn, u[m + 1].fsn) >= SEQ_HALF
                  => acknowledged(u, bsn) <= m
<1> DEFINE A == {n \in DOMAIN u : \A i \in 1 .. n : seq_forward(bsn, u[i].fsn) < SEQ_HALF}
<1>1. ASSUME NEW m \in Nat, A \subseteq 1 .. m
      PROVE  acknowledged(u, bsn) \in 0 .. m
  <2>1. IsFiniteSet(1 .. m) /\ Cardinality(1 .. m) = m
    BY FS_Interval
  <2>2. IsFiniteSet(A) /\ Cardinality(A) <= m
    BY <1>1, <2>1, FS_Subset
  <2>3. Cardinality(A) \in Nat
    BY <2>2, FS_CardinalityType
  <2> QED BY <2>2, <2>3 DEF acknowledged
<1>2. acknowledged(u, bsn) \in 0 .. Len(u)
  <2>1. A \subseteq 1 .. Len(u) /\ Len(u) \in Nat
    OBVIOUS
  <2> HIDE DEF A
  <2> QED BY <1>1, <2>1
<1>3. ASSUME NEW m \in 0 .. Len(u), m < Len(u), seq_forward(bsn, u[m + 1].fsn) >= SEQ_HALF
      PROVE  acknowledged(u, bsn) <= m
  <2>1. seq_forward(bsn, u[m + 1].fsn) \in Int /\ SEQ_HALF \in Int
    <3> HIDE DEF A
    <3>1. u[m + 1] \in BufferedMsu
      BY <1>3
    <3>2. u[m + 1].fsn \in SequenceNumber
      BY <3>1 DEF BufferedMsu
    <3> DEFINE e == bsn + SEQ_MODULUS - u[m + 1].fsn
    <3>3. e \in Int
      BY <3>2, SequenceSpace DEF SequenceNumber
    <3>4. SEQ_HALF \in Int
      BY SequenceSpace DEF SEQ_HALF
    <3>5. seq_forward(bsn, u[m + 1].fsn) = e % SEQ_MODULUS
      BY DEF seq_forward
    <3> HIDE DEF e
    <3>6. e % SEQ_MODULUS \in Int
      BY <3>3, Euclid, SequenceSpace DEF SequenceNumber
    <3> QED BY <3>4, <3>5, <3>6
  <2>2. ~(seq_forward(bsn, u[m + 1].fsn) < SEQ_HALF)
    BY <1>3, <2>1
  <2>3. \A n \in A : n <= m
    BY <1>3, <2>2
  <2>4. A \subseteq 1 .. m
    BY <2>3
  <2> HIDE DEF A
  <2> QED BY <1>1, <1>3, <2>4
<1> QED BY <1>2, <1>3

\* ... and gets past every MSU that is less than half of the sequence space
\* behind the BSN, when those before it are too.
LEMMA AcknowledgedReaches ==
    ASSUME NEW u \in Seq(BufferedMsu), NEW bsn \in SequenceNumber, NEW m \in 0 .. Len(u),
           \A i \in 1 .. m : seq_forward(bsn, u[i].fsn) < SEQ_HALF
    PROVE  m <= acknowledged(u, bsn)
<1> DEFINE A == {n \in DOMAIN u : \A i \in 1 .. n : seq_forward(bsn, u[i].fsn) < SEQ_HALF}
<1>1. 1 .. m \subseteq A /\ A \subseteq 1 .. Len(u) /\ Len(u) \in Nat
  OBVIOUS
<1>2. acknowledged(u, bsn) = Cardinality(A)
  BY DEF acknowledged
<1> HIDE DEF A
<1>3. IsFiniteSet(1 .. Len(u)) /\ IsFiniteSet(1 .. m) /\ Cardinality(1 .. m) = m
  BY <1>1, FS_Interval
<1>4. IsFiniteSet(A)
  BY <1>1, <1>3, FS_Subset
<1>5. Cardinality(1 .. m) <= Cardinality(A)
  BY <1>1, <1>4, FS_Subset
<1> QED BY <1>2, <1>3, <1>5

\* on_ack takes the acknowledged MSUs off the front of the buffer, and changes
\* neither the rest of the buffer, nor what is pending, nor the last FSN.
LEMMA OnAckCases ==
    ASSUME NEW c \in TxControl, NEW bsn \in SequenceNumber, NEW bib \in BOOLEAN
    PROVE  LET n == acknowledged(c.unacked, bsn)
               d == on_ack(c, bsn, bib)
           IN  /\ d \in TxControl /\ d.method = c.method
               /\ d.pending = c.pending /\ d.last_fsn = c.last_fsn
               /\ Len(d.unacked) = Len(c.unacked) - n
               /\ \A i \in DOMAIN d.unacked :
                    i + n \in DOMAIN c.unacked /\ d.unacked[i] = c.unacked[i + n]
<1> DEFINE n == acknowledged(c.unacked, bsn)
           f == free(c, n)
           d == on_ack(c, bsn, bib)
           u == SubSeq(c.unacked, n + 1, Len(c.unacked))
<1>1. n \in 0 .. Len(c.unacked)
  BY AcknowledgedRange DEF TxControl
<1>2. /\ f \in TxControl /\ f.method = c.method
      /\ f.pending = c.pending /\ f.last_fsn = c.last_fsn
      /\ Len(f.unacked) = Len(c.unacked) - n
      /\ \A i \in DOMAIN f.unacked :
           i + n \in DOMAIN c.unacked /\ f.unacked[i] = c.unacked[i + n]
  <2> HIDE DEF n
  <2>1. CASE n = 0
    <3>1. f = c
      BY <2>1 DEF free
    <3>2. c.unacked \in Seq(BufferedMsu)
      BY DEF TxControl
    <3> QED BY <2>1, <3>1, <3>2
  <2>2. CASE n # 0
    <3> DEFINE v == IF c.basic_cursor \in {NoCursor, 0}
                    THEN c.basic_cursor ELSE c.basic_cursor - 1
    <3>1. f = [c EXCEPT !.unacked = u, !.pcr_cursor = 0, !.basic_cursor = v]
      BY <2>2 DEF free
    <3>2. /\ u \in Seq(BufferedMsu) /\ Len(u) = Len(c.unacked) - n
          /\ \A i \in DOMAIN u : i + n \in DOMAIN c.unacked /\ u[i] = c.unacked[i + n]
      BY <1>1 DEF TxControl
    <3>3. v \in Nat \cup {NoCursor}
      BY DEF TxControl, NoCursor
    <3> HIDE DEF u, v, f
    <3>4. /\ f \in TxControl /\ f.method = c.method /\ f.unacked = u
          /\ f.pending = c.pending /\ f.last_fsn = c.last_fsn
      BY <3>1, <3>2, <3>3 DEF TxControl
    <3> QED BY <3>2, <3>4
  <2> QED BY <2>1, <2>2
<1>3. /\ d \in TxControl /\ d.method = f.method /\ d.pending = f.pending
      /\ d.last_fsn = f.last_fsn /\ d.unacked = f.unacked
  <2> DEFINE g == [f EXCEPT !.fib = bib,
                            !.basic_cursor = IF f.unacked # <<>> THEN 0 ELSE f.basic_cursor]
  <2>1. d = g \/ d = f
    BY DEF on_ack
  <2> HIDE DEF f, d
  <2>2. /\ g \in TxControl /\ g.method = f.method /\ g.pending = f.pending
        /\ g.last_fsn = f.last_fsn /\ g.unacked = f.unacked
    BY <1>2 DEF TxControl
  <2> QED BY <1>2, <2>1, <2>2
<1> HIDE DEF n, f, d, u
<1>4. /\ d \in TxControl /\ d.method = c.method
      /\ d.pending = c.pending /\ d.last_fsn = c.last_fsn
      /\ Len(d.unacked) = Len(c.unacked) - n
      /\ \A i \in DOMAIN d.unacked :
           i + n \in DOMAIN c.unacked /\ d.unacked[i] = c.unacked[i + n]
  BY <1>2, <1>3
<1> QED BY <1>4 DEF n, d
=============================================================================
