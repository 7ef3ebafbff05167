---------------------------- MODULE DirectionProofs ----------------------------
(***************************************************************************)
(* One direction of a link whose ends fail and start again: a sender, with *)
(* its TxControl, its state and the units on their way to it, and a        *)
(* receiver, with its RxControl, its state and the units on their way to   *)
(* it.  Whenever an end starts, its sequence numbers begin anew.           *)
(*                                                                         *)
(* MSUs are the numbers in which the sender's user has submitted them, as  *)
(* in LinkTraffic.  The lemmas are about records and sequences before and  *)
(* after a call, for every modulus, method and configuration.              *)
(***************************************************************************)
EXTENDS Mtp2LinkProofs

\* The states of a link by what it knows of its peer: nothing; that it aligns
\* too; that it may carry traffic, so that FISUs and MSUs are heeded.
Apart == {"OutOfService", "NotAligned"}
Open == {"AlignedReady", "AlignedNotReady"} \cup Traffic

\* Signal units that acknowledge.
Carrying == {"FISU", "MSU"}

\* Of n MSUs submitted, the last one that has got an FSN, and the last one that
\* has left the buffer (acknowledged, or thrown away by a start).
sent(tx, n) == n - Len(tx.pending)
acked(tx, n) == sent(tx, n) - Len(tx.unacked)

\* What a sender holds is the last of what was submitted, in order, and MSU i
\* has the FSN of i + c: c is the offset of the current period of service.
Numbered(tx, n, c) ==
    /\ acked(tx, n) >= 0
    /\ tx.last_fsn = fsn_of(sent(tx, n) + c)
    /\ \A i \in DOMAIN tx.unacked :
        /\ tx.unacked[i].fsn = fsn_of(acked(tx, n) + i + c)
        /\ tx.unacked[i].msu = acked(tx, n) + i
    /\ \A i \in DOMAIN tx.pending : tx.pending[i] = sent(tx, n) + i

\* Acknowledgements on the way to the sender: each is for an MSU between low and
\* high, and none is for less than the one before it.
Acks(in, c, low, high) ==
    \E upto \in [DOMAIN in -> Nat] :
        \A i \in DOMAIN in :
            /\ low <= upto[i] /\ upto[i] <= high
            /\ in[i].kind \in Carrying => in[i].bsn = fsn_of(upto[i] + c)
            /\ \A j \in DOMAIN in : i <= j => upto[i] <= upto[j]

\* MSUs on the way to a receiver that has got as far as h: each is near enough
\* to h, and to those before it, for its FSN to tell which one it is.
Frames(out, c, h) ==
    \A i \in DOMAIN out : out[i].kind = "MSU" =>
        /\ out[i].fsn = fsn_of(out[i].msu + c)
        /\ h + 2 <= out[i].msu + SEQ_MODULUS /\ out[i].msu < h + SEQ_MODULUS
        /\ \A j \in DOMAIN out : j < i /\ out[j].kind = "MSU" =>
               out[j].msu + 2 <= out[i].msu + SEQ_MODULUS

\* A receiver has got as far as h, of which its user has seen all up to d; the
\* others are gone with a start of the sender.
Heard(rx, d, gone, c, h) ==
    /\ rx.last_received = fsn_of(h + c)
    /\ d <= h /\ d + 1 .. h \subseteq gone

\* The invariant of one direction.  Everything up to g has arrived (or is gone),
\* and acknowledgements are for no more.  A receiver may be Open with units of
\* an earlier period of the sender, then under other numbers than the sender's.
WayAt(c, g, tx, rx, snd, rcv, in, out, n, d, gone) ==
    /\ Numbered(tx, n, c)
    /\ acked(tx, n) <= g /\ g <= sent(tx, n) /\ d <= g
    /\ \A m \in 1 .. g : m <= d \/ m \in gone
    /\ \A i \in DOMAIN out : out[i].kind = "MSU" => out[i].msu <= sent(tx, n)
    /\ snd \in Open => Acks(in, c, acked(tx, n), g)
    /\ snd \notin Apart /\ rcv \notin Apart => rx.last_received = fsn_of(g + c)
    /\ rcv \in Open =>
        \E k \in Nat, h \in Nat :
            /\ Heard(rx, d, gone, k, h) /\ Frames(out, k, h)
            /\ snd \notin Apart => k = c /\ h = g
Way(tx, rx, snd, rcv, in, out, n, d, gone) ==
    \E c \in Nat, g \in Nat : WayAt(c, g, tx, rx, snd, rcv, in, out, n, d, gone)

(***************************************************************************)
(* The sender's numbers.                                                   *)
(***************************************************************************)

\* Any number can be the first of a period: some offset gives it the FSN that
\* comes before all.
LEMMA FreshOffset ==
    ASSUME NEW n \in Nat
    PROVE  \E c \in Nat : fsn_of(n + c) = SEQ_MODULUS - 1
<1> DEFINE c == SEQ_MODULUS * (n + 1) - n
<1>1. SEQ_MODULUS * (n + 1) \in Nat /\ SEQ_MODULUS * (n + 1) >= n + 1
  BY SequenceSpace
<1>2. c \in Nat
  BY <1>1
<1>3. n + c + SEQ_MODULUS - 1 = SEQ_MODULUS * (n + 1) + (SEQ_MODULUS - 1)
  BY <1>1, SequenceSpace
<1>4. (SEQ_MODULUS * (n + 1) + (SEQ_MODULUS - 1)) % SEQ_MODULUS = SEQ_MODULUS - 1
  BY Residue, SequenceSpace DEF SequenceNumber
<1>5. fsn_of(n + c) = SEQ_MODULUS - 1
  <2> HIDE DEF c
  <2> QED BY <1>3, <1>4 DEF fsn_of
<1> QED BY <1>2, <1>5

\* The counts behind the numbers.
LEMMA NumberedCounts ==
    ASSUME NEW tx \in TxControl, NEW n \in Nat, NEW c, Numbered(tx, n, c)
    PROVE  /\ acked(tx, n) \in Nat /\ sent(tx, n) \in Nat /\ sent(tx, n) <= n
           /\ Len(tx.unacked) \in Nat /\ Len(tx.pending) \in Nat
           /\ sent(tx, n) = n - Len(tx.pending)
           /\ sent(tx, n) = acked(tx, n) + Len(tx.unacked)
           /\ acked(tx, n) <= sent(tx, n)
           /\ DOMAIN tx.unacked = 1 .. Len(tx.unacked)
           /\ DOMAIN tx.pending = 1 .. Len(tx.pending)
<1>1. tx.unacked \in Seq(BufferedMsu) /\ tx.pending \in Seq(Msu)
  BY DEF TxControl
<1> DEFINE u == Len(tx.unacked)
           p == Len(tx.pending)
<1>2. u \in Nat /\ p \in Nat /\ DOMAIN tx.unacked = 1 .. u /\ DOMAIN tx.pending = 1 .. p
  BY <1>1
<1>3. acked(tx, n) >= 0 /\ sent(tx, n) = n - p /\ acked(tx, n) = n - p - u
  BY DEF Numbered, acked, sent
<1> HIDE DEF u, p
<1>4. n - p - u \in Nat /\ n - p \in Nat /\ n - p <= n /\ n - p = n - p - u + u /\ n - p - u <= n - p
  BY <1>2, <1>3
<1> QED BY <1>2, <1>3, <1>4 DEF u, p

\* start: a new TxControl, with nothing to send.
LEMMA NumberedNew ==
    ASSUME NEW tx \in TxControl, NEW n \in Nat, NEW c \in Nat,
           tx.pending = <<>>, tx.unacked = <<>>,
           tx.last_fsn = SEQ_MODULUS - 1, fsn_of(n + c) = SEQ_MODULUS - 1
    PROVE  Numbered(tx, n, c) /\ sent(tx, n) = n /\ acked(tx, n) = n
BY DEF Numbered, sent, acked

\* submit: the next MSU joins those that wait.
LEMMA NumberedSubmit ==
    ASSUME NEW tx \in TxControl, NEW n \in Nat, NEW c \in Nat, Numbered(tx, n, c),
           n + 1 \in Msu
    PROVE  LET t == submit(tx, n + 1)
           IN  /\ t \in TxControl /\ Numbered(t, n + 1, c)
               /\ sent(t, n + 1) = sent(tx, n) /\ acked(t, n + 1) = acked(tx, n)
<1> DEFINE p == Append(tx.pending, n + 1)
           t == submit(tx, n + 1)
<1>1. tx.pending \in Seq(Msu)
  BY DEF TxControl
<1>2. /\ p \in Seq(Msu) /\ Len(p) = Len(tx.pending) + 1
      /\ \A i \in DOMAIN p : \/ i \in DOMAIN tx.pending /\ p[i] = tx.pending[i]
                             \/ i = Len(tx.pending) + 1 /\ p[i] = n + 1
  BY <1>1
<1> HIDE DEF p
<1>3. /\ t \in TxControl /\ t.pending = p /\ t.unacked = tx.unacked
      /\ t.last_fsn = tx.last_fsn
  BY <1>2 DEF submit, TxControl, p
<1> HIDE DEF t
<1>4. sent(t, n + 1) = sent(tx, n) /\ acked(t, n + 1) = acked(tx, n)
  <2>1. Len(tx.pending) \in Nat
    BY NumberedCounts
  <2> DEFINE q == Len(tx.pending)
  <2>2. sent(t, n + 1) = (n + 1) - (q + 1) /\ sent(tx, n) = n - q
    BY <1>2, <1>3 DEF sent
  <2> HIDE DEF q
  <2>3. (n + 1) - (q + 1) = n - q
    BY <2>1 DEF q
  <2> QED BY <1>3, <2>2, <2>3 DEF acked
<1>5. \A i \in DOMAIN t.pending : t.pending[i] = sent(tx, n) + i
  <2> DEFINE q == Len(tx.pending)
             s == sent(tx, n)
  <2>1. q \in Nat /\ s = n - q /\ \A i \in DOMAIN tx.pending : tx.pending[i] = s + i
    BY NumberedCounts DEF Numbered
  <2> HIDE DEF q, s
  <2>2. s + (q + 1) = n + 1
    BY <2>1
  <2> QED BY <1>2, <1>3, <2>1, <2>2 DEF q, s
<1>6. Numbered(t, n + 1, c)
  BY <1>3, <1>4, <1>5 DEF Numbered
<1> QED BY <1>3, <1>4, <1>6 DEF t

\* poll: what is sent is what waited first, or is in the buffer already.
LEMMA NumberedPoll ==
    ASSUME NEW tx \in TxControl, NEW n \in Nat, NEW c \in Nat, Numbered(tx, n, c)
    PROVE  LET t == poll(tx).tx
               f == poll(tx).frame
           IN  /\ t \in TxControl /\ Numbered(t, n, c)
               /\ acked(t, n) = acked(tx, n)
               /\ sent(tx, n) <= sent(t, n)
               /\ f.msu # Fisu => /\ f.fsn = fsn_of(f.msu + c)
                                  /\ acked(t, n) < f.msu /\ f.msu <= sent(t, n)
<1> DEFINE t == poll(tx).tx
           f == poll(tx).frame
           s == sent(tx, n)
           a == acked(tx, n)
<1>1. /\ a \in Nat /\ s \in Nat /\ s <= n /\ Len(tx.unacked) \in Nat /\ Len(tx.pending) \in Nat
      /\ s = n - Len(tx.pending) /\ s = a + Len(tx.unacked)
      /\ DOMAIN tx.unacked = 1 .. Len(tx.unacked) /\ DOMAIN tx.pending = 1 .. Len(tx.pending)
  BY NumberedCounts
<1>2. t \in TxControl
  BY PollCases
<1>3. CASE /\ tx.pending # <<>>
           /\ f.fsn = seq_add(tx.last_fsn, 1) /\ f.msu = Head(tx.pending)
           /\ t.pending = Tail(tx.pending) /\ t.last_fsn = seq_add(tx.last_fsn, 1)
           /\ t.unacked = Append(tx.unacked, [fsn |-> seq_add(tx.last_fsn, 1),
                                              msu |-> Head(tx.pending)])
  <2>1. tx.pending \in Seq(Msu) /\ tx.unacked \in Seq(BufferedMsu)
    BY DEF TxControl
  <2>2. /\ Len(tx.pending) >= 1 /\ Head(tx.pending) = tx.pending[1]
        /\ Len(t.pending) = Len(tx.pending) - 1
        /\ \A i \in DOMAIN t.pending : i + 1 \in DOMAIN tx.pending /\ t.pending[i] = tx.pending[i + 1]
    BY <1>3, <2>1
  <2>3. /\ Len(t.unacked) = Len(tx.unacked) + 1
        /\ \A i \in DOMAIN t.unacked :
              \/ i \in DOMAIN tx.unacked /\ t.unacked[i] = tx.unacked[i]
              \/ /\ i = Len(tx.unacked) + 1
                 /\ t.unacked[i] = [fsn |-> f.fsn, msu |-> f.msu]
    BY <1>3, <2>1
  <2>4. sent(t, n) = s + 1 /\ acked(t, n) = a
    BY <1>1, <2>2, <2>3 DEF sent, acked
  <2>5. f.msu = s + 1
    <3>1. 1 \in DOMAIN tx.pending
      BY <1>1, <2>2
    <3> QED BY <1>3, <2>2, <3>1 DEF Numbered
  <2>6. f.fsn = fsn_of(s + 1 + c) /\ t.last_fsn = fsn_of(s + 1 + c)
    <3>1. tx.last_fsn = fsn_of(s + c)
      BY DEF Numbered
    <3>2. \A x \in Nat : x + c \in Nat /\ x + c + 1 = x + 1 + c
      OBVIOUS
    <3>3. s \in Nat
      BY <1>1
    <3> HIDE DEF s, f, t
    <3>4. seq_add(fsn_of(s + c), 1) = fsn_of(s + c + 1)
      BY <3>2, <3>3, FsnNext
    <3> QED BY <1>3, <3>1, <3>2, <3>3, <3>4
  <2>7. \A i \in DOMAIN t.unacked :
          t.unacked[i].fsn = fsn_of(a + i + c) /\ t.unacked[i].msu = a + i
    <3> SUFFICES ASSUME NEW i \in DOMAIN t.unacked
                 PROVE  t.unacked[i].fsn = fsn_of(a + i + c) /\ t.unacked[i].msu = a + i
      OBVIOUS
    <3>1. CASE i \in DOMAIN tx.unacked /\ t.unacked[i] = tx.unacked[i]
      BY <3>1 DEF Numbered
    <3>2. CASE i = Len(tx.unacked) + 1 /\ t.unacked[i] = [fsn |-> f.fsn, msu |-> f.msu]
      <4> DEFINE u == Len(tx.unacked)
      <4>0. u \in Nat /\ a \in Nat /\ s = a + u /\ i = u + 1
        BY <1>1, <3>2
      <4> HIDE DEF u, a, s
      <4>1. a + i = s + 1
        BY <4>0
      <4> QED BY <2>5, <2>6, <3>2, <4>1
    <3> QED BY <2>3, <3>1, <3>2
  <2>8. \A i \in DOMAIN t.pending : t.pending[i] = s + 1 + i
    <3> SUFFICES ASSUME NEW i \in DOMAIN t.pending PROVE t.pending[i] = s + 1 + i
      OBVIOUS
    <3>1. i + 1 \in DOMAIN tx.pending /\ t.pending[i] = tx.pending[i + 1]
      BY <2>2
    <3>2. t.pending[i] = s + (i + 1)
      BY <3>1 DEF Numbered
    <3>3. i \in Nat
      <4>1. t.pending \in Seq(Msu)
        BY <1>2 DEF TxControl
      <4> QED BY <4>1
    <3> HIDE DEF s
    <3>4. s + (i + 1) = s + 1 + i
      BY <1>1, <3>3
    <3> QED BY <3>2, <3>4
  <2>9. Numbered(t, n, c)
    BY <1>1, <2>4, <2>6, <2>7, <2>8 DEF Numbered
  <2> QED BY <1>1, <1>2, <2>4, <2>5, <2>6, <2>9
<1>4. CASE /\ t.pending = tx.pending /\ t.last_fsn = tx.last_fsn /\ t.unacked = tx.unacked
           /\ \/ f.msu = Fisu
              \/ \E i \in DOMAIN tx.unacked :
                    f.fsn = tx.unacked[i].fsn /\ f.msu = tx.unacked[i].msu
  <2>1. sent(t, n) = s /\ acked(t, n) = a /\ Numbered(t, n, c)
    BY <1>4 DEF Numbered, sent, acked
  <2>2. ASSUME f.msu # Fisu
        PROVE  f.fsn = fsn_of(f.msu + c) /\ a < f.msu /\ f.msu <= s
    <3>1. PICK i \in DOMAIN tx.unacked :
                    f.fsn = tx.unacked[i].fsn /\ f.msu = tx.unacked[i].msu
      BY <1>4, <2>2
    <3>2. f.fsn = fsn_of(a + i + c) /\ f.msu = a + i
      BY <3>1 DEF Numbered
    <3> QED BY <1>1, <3>2
  <2> QED BY <1>1, <1>2, <2>1, <2>2
<1>5. \/ /\ tx.pending # <<>>
         /\ f.fsn = seq_add(tx.last_fsn, 1) /\ f.msu = Head(tx.pending)
         /\ t.pending = Tail(tx.pending) /\ t.last_fsn = seq_add(tx.last_fsn, 1)
         /\ t.unacked = Append(tx.unacked, [fsn |-> seq_add(tx.last_fsn, 1),
                                            msu |-> Head(tx.pending)])
      \/ /\ t.pending = tx.pending /\ t.last_fsn = tx.last_fsn /\ t.unacked = tx.unacked
         /\ \/ f.msu = Fisu
            \/ \E i \in DOMAIN tx.unacked :
                  f.fsn = tx.unacked[i].fsn /\ f.msu = tx.unacked[i].msu
  BY PollCases
<1> QED BY <1>3, <1>4, <1>5

\* on_ack of an acknowledgement up to u: the front of the buffer goes, and
\* nothing beyond u, whose FSN is a whole sequence space less one behind.
LEMMA NumberedAck ==
    ASSUME NEW tx \in TxControl, NEW n \in Nat, NEW c \in Nat, Numbered(tx, n, c),
           NEW u \in Nat, acked(tx, n) <= u, u <= sent(tx, n),
           NEW bsn \in SequenceNumber, bsn = fsn_of(u + c), NEW bib \in BOOLEAN
    PROVE  LET t == on_ack(tx, bsn, bib)
           IN  /\ t \in TxControl /\ Numbered(t, n, c)
               /\ sent(t, n) = sent(tx, n)
               /\ acked(tx, n) <= acked(t, n) /\ acked(t, n) <= u
<1> DEFINE t == on_ack(tx, bsn, bib)
           s == sent(tx, n)
           a == acked(tx, n)
           b == Len(tx.unacked)
           x == acknowledged(tx.unacked, bsn)
<1>1. /\ a \in Nat /\ s \in Nat /\ b \in Nat /\ s = a + b
      /\ DOMAIN tx.unacked = 1 .. b
  BY NumberedCounts
<1>2. /\ t \in TxControl /\ t.pending = tx.pending /\ t.last_fsn = tx.last_fsn
      /\ Len(t.unacked) = b - x
      /\ \A i \in DOMAIN t.unacked :
           i + x \in DOMAIN tx.unacked /\ t.unacked[i] = tx.unacked[i + x]
  BY OnAckCases
<1>3. /\ x \in 0 .. b
      /\ \A m \in 0 .. b :
           m < b /\ seq_forward(bsn, tx.unacked[m + 1].fsn) >= SEQ_HALF => x <= m
  <2>1. tx.unacked \in Seq(BufferedMsu)
    BY DEF TxControl
  <2> QED BY <2>1, AcknowledgedRange
<1>4. \A i \in 1 .. b : /\ tx.unacked[i].fsn = fsn_of(a + i + c)
                        /\ tx.unacked[i].msu = a + i
  BY <1>1 DEF Numbered
<1>5. sent(t, n) = s /\ acked(t, n) = s - (b - x)
  BY <1>2 DEF sent, acked
<1>6. \A i \in DOMAIN t.unacked : i \in Nat
  <2>1. t.unacked \in Seq(BufferedMsu)
    BY <1>2 DEF TxControl
  <2> QED BY <2>1
<1>7. t.last_fsn = fsn_of(s + c) /\ \A i \in DOMAIN t.pending : t.pending[i] = s + i
  BY <1>2 DEF Numbered
<1> HIDE DEF t, s, a, b, x
<1>8. acked(t, n) = a + x
  BY <1>1, <1>3, <1>5
<1>9. a + x <= u
  <2> SUFFICES ASSUME ~(a + x <= u) PROVE FALSE
    OBVIOUS
  <2> DEFINE m == u - a
  <2>1. m \in 0 .. b /\ m < b /\ ~(x <= m)
    BY <1>1, <1>3 DEF a, s
  <2>2. m + 1 \in 1 .. b /\ a + (m + 1) + c = u + c + 1 /\ u + c + 1 \in Nat /\ u + c \in Nat
    BY <1>1, <2>1
  <2>3. seq_forward(fsn_of(u + c), fsn_of(u + c + 1)) = SEQ_MODULUS - 1
    <3>1. SEQ_MODULUS - 1 \in SequenceNumber
      BY SequenceSpace DEF SequenceNumber
    <3>2. (u + c) - (u + c + 1) = SEQ_MODULUS - 1 - SEQ_MODULUS
      BY <2>2, SequenceSpace
    <3> QED BY <2>2, <3>1, <3>2, FsnDistance
  <2>4. SEQ_MODULUS - 1 >= SEQ_HALF
    BY SequenceSpace DEF SEQ_HALF
  <2>5. seq_forward(bsn, tx.unacked[m + 1].fsn) = SEQ_MODULUS - 1
    BY <1>4, <2>2, <2>3
  <2> HIDE DEF m
  <2> QED BY <1>3, <2>1, <2>4, <2>5
<1>10. \A i \in DOMAIN t.unacked : t.unacked[i].fsn = fsn_of(a + x + i + c)
                                  /\ t.unacked[i].msu = a + x + i
  <2> SUFFICES ASSUME NEW i \in DOMAIN t.unacked
               PROVE  t.unacked[i].fsn = fsn_of(a + x + i + c) /\ t.unacked[i].msu = a + x + i
    OBVIOUS
  <2>1. i + x \in 1 .. b /\ t.unacked[i] = tx.unacked[i + x]
    BY <1>1, <1>2
  <2>2. a + (i + x) = a + x + i
    BY <1>1, <1>3, <1>6
  <2> QED BY <1>4, <2>1, <2>2
<1>11. Numbered(t, n, c)
  <2>1. acked(t, n) >= 0
    BY <1>1, <1>3, <1>8
  <2> QED BY <1>5, <1>7, <1>8, <1>10, <2>1 DEF Numbered
<1>12. a <= a + x
  BY <1>1, <1>3
<1> QED BY <1>2, <1>5, <1>8, <1>9, <1>11, <1>12 DEF t, s, a

(***************************************************************************)
(* The units on their way.                                                 *)
(***************************************************************************)

\* Signal units on a line, one at a time.
LEMMA LineFacts ==
    ASSUME NEW q \in Seq(SignalUnit)
    PROVE  /\ \A i \in DOMAIN q : i \in Nat /\ q[i] \in SignalUnit
           /\ q # <<>> => /\ 1 \in DOMAIN q /\ Head(q) = q[1] /\ Tail(q) \in Seq(SignalUnit)
                          /\ \A i \in DOMAIN Tail(q) :
                               i + 1 \in DOMAIN q /\ Tail(q)[i] = q[i + 1]
           /\ \A i \in DOMAIN q : i >= 1
OBVIOUS

\* ... and one more.
LEMMA LineAppend ==
    ASSUME NEW q \in Seq(SignalUnit), NEW su \in SignalUnit
    PROVE  /\ Append(q, su) \in Seq(SignalUnit)
           /\ DOMAIN Append(q, su) = DOMAIN q \cup {Len(q) + 1} /\ Len(q) + 1 \in Nat
           /\ \A i \in DOMAIN q : Append(q, su)[i] = q[i] /\ i < Len(q) + 1 /\ i \in Nat
           /\ Append(q, su)[Len(q) + 1] = su
OBVIOUS

\* A unit that acknowledges all there is to acknowledge, or an LSSU, goes last.
LEMMA AcksAppend ==
    ASSUME NEW q \in Seq(SignalUnit), NEW su \in SignalUnit,
           NEW c \in Nat, NEW low \in Nat, NEW high \in Nat, low <= high,
           Acks(q, c, low, high), su.kind \in Carrying => su.bsn = fsn_of(high + c)
    PROVE  Acks(Append(q, su), c, low, high)
<1> DEFINE r == Append(q, su)
           last == Len(q) + 1
<1>1. PICK upto \in [DOMAIN q -> Nat] :
        \A i \in DOMAIN q :
            /\ low <= upto[i] /\ upto[i] <= high
            /\ q[i].kind \in Carrying => q[i].bsn = fsn_of(upto[i] + c)
            /\ \A j \in DOMAIN q : i <= j => upto[i] <= upto[j]
  BY DEF Acks
<1> DEFINE v == [i \in DOMAIN r |-> IF i = last THEN high ELSE upto[i]]
<1>2. /\ DOMAIN r = DOMAIN q \cup {last} /\ r[last] = su /\ last \in Nat
      /\ \A i \in DOMAIN q : r[i] = q[i] /\ i < last /\ i \in Nat
  BY LineAppend
<1> HIDE DEF r, last
<1>3. \A i \in DOMAIN q : v[i] = upto[i] /\ upto[i] \in Nat
  BY <1>2
<1>4. v[last] = high /\ last \in DOMAIN r
  BY <1>2
<1>5. v \in [DOMAIN r -> Nat]
  BY <1>1, <1>2
<1> HIDE DEF v
<1>6. ASSUME NEW i \in DOMAIN r
      PROVE  /\ low <= v[i] /\ v[i] <= high
             /\ r[i].kind \in Carrying => r[i].bsn = fsn_of(v[i] + c)
  BY <1>1, <1>2, <1>3, <1>4
<1>7. ASSUME NEW i \in DOMAIN r, NEW j \in DOMAIN r, i <= j
      PROVE  v[i] <= v[j]
  <2>1. CASE j = last
    BY <1>4, <1>6, <2>1
  <2>2. CASE j \in DOMAIN q /\ i \in DOMAIN q
    BY <1>1, <1>3, <1>7, <2>2
  <2>3. CASE j \in DOMAIN q /\ i = last
    BY <1>2, <1>7, <2>3
  <2> QED BY <1>2, <2>1, <2>2, <2>3
<1>8. Acks(r, c, low, high)
  BY <1>5, <1>6, <1>7 DEF Acks
<1> QED BY <1>8 DEF r

\* More has arrived than when the acknowledgements were sent.
LEMMA AcksWiden ==
    ASSUME NEW q, NEW c \in Nat, NEW low \in Nat, NEW high \in Nat, NEW more \in Nat,
           Acks(q, c, low, high), high <= more
    PROVE  Acks(q, c, low, more)
<1>1. PICK upto \in [DOMAIN q -> Nat] :
        \A i \in DOMAIN q :
            /\ low <= upto[i] /\ upto[i] <= high
            /\ q[i].kind \in Carrying => q[i].bsn = fsn_of(upto[i] + c)
            /\ \A j \in DOMAIN q : i <= j => upto[i] <= upto[j]
  BY DEF Acks
<1>2. \A i \in DOMAIN q : upto[i] \in Nat /\ upto[i] <= more
  BY <1>1
<1> QED BY <1>1, <1>2 DEF Acks

\* The first unit leaves the line.  If it acknowledges, it does so up to some u
\* that all the others reach.
LEMMA AcksTail ==
    ASSUME NEW q \in Seq(SignalUnit), q # <<>>,
           NEW c \in Nat, NEW low \in Nat, NEW high \in Nat, Acks(q, c, low, high)
    PROVE  \E u \in low .. high :
             /\ Head(q).kind \in Carrying => Head(q).bsn = fsn_of(u + c)
             /\ \A new \in Nat : new <= u => Acks(Tail(q), c, new, high)
<1> DEFINE r == Tail(q)
<1>1. PICK upto \in [DOMAIN q -> Nat] :
        \A i \in DOMAIN q :
            /\ low <= upto[i] /\ upto[i] <= high
            /\ q[i].kind \in Carrying => q[i].bsn = fsn_of(upto[i] + c)
            /\ \A j \in DOMAIN q : i <= j => upto[i] <= upto[j]
  BY DEF Acks
<1>2. /\ 1 \in DOMAIN q /\ Head(q) = q[1]
      /\ \A i \in DOMAIN r : i + 1 \in DOMAIN q /\ r[i] = q[i + 1] /\ i \in Nat
      /\ \A i \in DOMAIN q : i >= 1 /\ i \in Nat
  <2>1. r \in Seq(SignalUnit)
    BY LineFacts
  <2> QED BY <2>1, LineFacts
<1> DEFINE u == upto[1]
<1>3. u \in low .. high /\ (Head(q).kind \in Carrying => Head(q).bsn = fsn_of(u + c))
  BY <1>1, <1>2
<1>4. ASSUME NEW new \in Nat, new <= u
      PROVE  Acks(r, c, new, high)
  <2> DEFINE v == [i \in DOMAIN r |-> upto[i + 1]]
  <2> HIDE DEF r
  <2>1. v \in [DOMAIN r -> Nat] /\ \A i \in DOMAIN r : v[i] = upto[i + 1]
    BY <1>1, <1>2
  <2> HIDE DEF v
  <2>2. ASSUME NEW i \in DOMAIN r
        PROVE  /\ new <= v[i] /\ v[i] <= high
               /\ r[i].kind \in Carrying => r[i].bsn = fsn_of(v[i] + c)
    <3>1. i + 1 \in DOMAIN q /\ r[i] = q[i + 1] /\ v[i] = upto[i + 1] /\ upto[i + 1] \in Nat
      BY <1>1, <1>2, <2>1
    <3>2. u <= upto[i + 1]
      BY <1>1, <1>2, <3>1
    <3>3. u \in Nat
      BY <1>1, <1>2
    <3> HIDE DEF u
    <3> QED BY <1>1, <1>4, <3>1, <3>2, <3>3
  <2>3. ASSUME NEW i \in DOMAIN r, NEW j \in DOMAIN r, i <= j
        PROVE  v[i] <= v[j]
    <3>1. i + 1 \in DOMAIN q /\ j + 1 \in DOMAIN q /\ i + 1 <= j + 1
      BY <1>2, <2>3
    <3> QED BY <1>1, <2>1, <3>1
  <2> QED BY <2>1, <2>2, <2>3 DEF Acks
<1> QED BY <1>3, <1>4

\* An empty line acknowledges nothing.
LEMMA AcksNone ==
    ASSUME NEW c, NEW low, NEW high
    PROVE  Acks(<<>>, c, low, high)
<1>1. DOMAIN <<>> = {}
  OBVIOUS
<1> DEFINE v == [i \in {} |-> 0]
<1>2. v \in [{} -> Nat]
  OBVIOUS
<1> QED BY <1>1, <1>2 DEF Acks

\* An MSU is a positive number.
LEMMA MsuOf ==
    ASSUME NEW su \in SignalUnit
    PROVE  /\ su.kind = "MSU" => su.msu \in Nat \ {0} /\ su.msu \in Msu
           /\ su.bsn \in SequenceNumber /\ su.fsn \in SequenceNumber
           /\ su.bib \in BOOLEAN /\ su.fib \in BOOLEAN
BY MsuSizes DEF SignalUnit, Fisu

\* A unit goes last.  If it is an MSU, it is near enough to the receiver (h) and to
\* all that was sent before it (s).
LEMMA FramesAppend ==
    ASSUME NEW q \in Seq(SignalUnit), NEW su \in SignalUnit,
           NEW c \in Nat, NEW h \in Nat, NEW s \in Nat, Frames(q, c, h),
           \A i \in DOMAIN q : q[i].kind = "MSU" => q[i].msu <= s,
           su.kind = "MSU" => /\ su.fsn = fsn_of(su.msu + c)
                              /\ h + 2 <= su.msu + SEQ_MODULUS /\ su.msu < h + SEQ_MODULUS
                              /\ s + 2 <= su.msu + SEQ_MODULUS
    PROVE  Frames(Append(q, su), c, h)
<1> DEFINE r == Append(q, su)
           last == Len(q) + 1
<1>1. /\ DOMAIN r = DOMAIN q \cup {last} /\ r[last] = su /\ last \in Nat
      /\ \A i \in DOMAIN q : r[i] = q[i] /\ i < last /\ i \in Nat
  BY LineAppend
<1>2. \A i \in DOMAIN q : q[i] \in SignalUnit
  BY LineFacts
<1> HIDE DEF r, last
<1>3. ASSUME NEW i \in DOMAIN r, r[i].kind = "MSU"
      PROVE  /\ r[i].fsn = fsn_of(r[i].msu + c)
             /\ h + 2 <= r[i].msu + SEQ_MODULUS /\ r[i].msu < h + SEQ_MODULUS
  BY <1>1, <1>3 DEF Frames
<1>4. ASSUME NEW i \in DOMAIN r, NEW j \in DOMAIN r, r[i].kind = "MSU", r[j].kind = "MSU", j < i
      PROVE  r[j].msu + 2 <= r[i].msu + SEQ_MODULUS
  <2>1. CASE i \in DOMAIN q
    <3>1. j \in DOMAIN q
      BY <1>1, <1>4, <2>1
    <3> QED BY <1>1, <1>4, <2>1, <3>1 DEF Frames
  <2>2. CASE i = last
    <3>1. j \in DOMAIN q /\ r[j] = q[j]
      BY <1>1, <1>4, <2>2
    <3> DEFINE x == q[j].msu
               y == su.msu
    <3>2. x \in Nat /\ y \in Nat /\ x <= s /\ s + 2 <= y + SEQ_MODULUS
      BY <1>1, <1>2, <1>4, <2>2, <3>1, MsuOf
    <3>3. r[j].msu = x /\ r[i].msu = y
      BY <1>1, <2>2, <3>1
    <3> HIDE DEF x, y
    <3>4. x + 2 <= y + SEQ_MODULUS
      BY <3>2, SequenceSpace
    <3> QED BY <3>3, <3>4
  <2> QED BY <1>1, <2>1, <2>2
<1>5. Frames(r, c, h)
  BY <1>3, <1>4 DEF Frames
<1> QED BY <1>5 DEF r

\* The first unit leaves the line, accepted as the next MSU or not.
LEMMA FramesTail ==
    ASSUME NEW q \in Seq(SignalUnit), q # <<>>, NEW c \in Nat, NEW h \in Nat, NEW new \in Nat,
           Frames(q, c, h),
           new = h \/ (Head(q).kind = "MSU" /\ Head(q).msu = h + 1 /\ new = h + 1)
    PROVE  Frames(Tail(q), c, new)
<1> DEFINE r == Tail(q)
<1>1. /\ 1 \in DOMAIN q /\ Head(q) = q[1] /\ r \in Seq(SignalUnit)
      /\ \A i \in DOMAIN r : i + 1 \in DOMAIN q /\ r[i] = q[i + 1]
      /\ \A i \in DOMAIN q : q[i] \in SignalUnit
  BY LineFacts
<1>2. \A i \in DOMAIN r : i \in Nat /\ i >= 1
  BY <1>1, LineFacts
<1> HIDE DEF r
<1>3. ASSUME NEW i \in DOMAIN r, r[i].kind = "MSU"
      PROVE  /\ r[i].fsn = fsn_of(r[i].msu + c)
             /\ new + 2 <= r[i].msu + SEQ_MODULUS /\ r[i].msu < new + SEQ_MODULUS
  <2> DEFINE x == r[i].msu
  <2>1. i + 1 \in DOMAIN q /\ r[i] = q[i + 1] /\ 1 < i + 1
    BY <1>1, <1>2
  <2>2. x \in Nat
    BY <1>1, <1>3, <2>1, MsuOf
  <2>3. r[i].fsn = fsn_of(x + c) /\ h + 2 <= x + SEQ_MODULUS /\ x < h + SEQ_MODULUS
    BY <1>3, <2>1 DEF Frames
  <2>4. Head(q).kind = "MSU" => Head(q).msu + 2 <= x + SEQ_MODULUS
    BY <1>1, <1>3, <2>1 DEF Frames
  <2> HIDE DEF x
  <2>5. new + 2 <= x + SEQ_MODULUS /\ x < new + SEQ_MODULUS
    <3>1. CASE new = h
      BY <2>3, <3>1
    <3>2. CASE new = h + 1 /\ new + 2 <= x + SEQ_MODULUS
      BY <2>2, <2>3, <3>2, SequenceSpace
    <3> QED BY <2>4, <3>1, <3>2
  <2> QED BY <2>3, <2>5 DEF x
<1>4. ASSUME NEW i \in DOMAIN r, NEW j \in DOMAIN r, r[i].kind = "MSU", r[j].kind = "MSU", j < i
      PROVE  r[j].msu + 2 <= r[i].msu + SEQ_MODULUS
  <2>1. /\ i + 1 \in DOMAIN q /\ r[i] = q[i + 1]
        /\ j + 1 \in DOMAIN q /\ r[j] = q[j + 1] /\ j + 1 < i + 1
    BY <1>1, <1>2, <1>4
  <2> QED BY <1>4, <2>1 DEF Frames
<1>5. Frames(r, c, new)
  BY <1>3, <1>4 DEF Frames
<1> QED BY <1>5 DEF r

\* A receiver has got as far as h.  Of the MSUs near enough to h, on_msu accepts
\* the next one and no other.
LEMMA AcceptedIsNext ==
    ASSUME NEW x \in Nat, NEW h \in Nat, NEW c \in Nat,
           h + 2 <= x + SEQ_MODULUS, x < h + SEQ_MODULUS,
           seq_forward(fsn_of(x + c), fsn_of(h + c)) = 1
    PROVE  x = h + 1
<1>1. x + c \in Nat /\ h + c \in Nat /\ (x + c) - (h + c) = x - h
  OBVIOUS
<1>2. CASE x >= h
  <2> DEFINE d == x - h
  <2>1. d \in SequenceNumber /\ d \in Nat /\ x = h + d
    BY <1>2, SequenceSpace DEF SequenceNumber
  <2>2. (x + c) - (h + c) = d
    BY <1>1
  <2> HIDE DEF d
  <2>3. seq_forward(fsn_of(x + c), fsn_of(h + c)) = d
    BY <1>1, <2>1, <2>2, FsnDistance
  <2> QED BY <2>1, <2>3
<1>3. CASE x < h
  <2> DEFINE d == x - h + SEQ_MODULUS
  <2>1. d \in SequenceNumber /\ d >= 2
    BY <1>3, SequenceSpace DEF SequenceNumber
  <2>2. (x + c) - (h + c) = d - SEQ_MODULUS
    BY <1>1, SequenceSpace
  <2> HIDE DEF d
  <2>3. seq_forward(fsn_of(x + c), fsn_of(h + c)) = d
    BY <1>1, <2>1, <2>2, FsnDistance
  <2> QED BY <2>1, <2>3, SequenceSpace
<1> QED BY <1>2, <1>3

(***************************************************************************)
(* The calls of the sender.                                                *)
(***************************************************************************)

\* submit_msu.
LEMMA WaySubmit ==
    ASSUME NEW tx \in TxControl, NEW n \in Nat, n + 1 \in Msu,
           NEW rx, NEW snd, NEW rcv, NEW in, NEW out, NEW d, NEW gone,
           Way(tx, rx, snd, rcv, in, out, n, d, gone)
    PROVE  Way(submit(tx, n + 1), rx, snd, rcv, in, out, n + 1, d, gone)
<1>1. PICK c \in Nat, g \in Nat : WayAt(c, g, tx, rx, snd, rcv, in, out, n, d, gone)
  BY DEF Way
<1> DEFINE t == submit(tx, n + 1)
<1>2. /\ Numbered(t, n + 1, c)
      /\ sent(t, n + 1) = sent(tx, n) /\ acked(t, n + 1) = acked(tx, n)
  BY <1>1, NumberedSubmit DEF WayAt
<1> HIDE DEF t
<1>3. WayAt(c, g, t, rx, snd, rcv, in, out, n + 1, d, gone)
  BY <1>1, <1>2 DEF WayAt
<1> QED BY <1>3 DEF Way, t

\* start: a TxControl as new, and what the old one held is gone.
LEMMA WayStart ==
    ASSUME NEW tx \in TxControl, NEW n \in Nat, NEW d \in Nat,
           NEW rx, NEW snd, NEW rcv, NEW in, NEW out \in Seq(SignalUnit), NEW gone,
           Way(tx, rx, snd, rcv, in, out, n, d, gone),
           NEW new \in TxControl, new.pending = <<>>, new.unacked = <<>>,
           new.last_fsn = SEQ_MODULUS - 1,
           NEW more, gone \subseteq more, acked(tx, n) + 1 .. n \subseteq more
    PROVE  Way(new, rx, "NotAligned", rcv, in, out, n, d, more)
<1>1. PICK c \in Nat, g \in Nat : WayAt(c, g, tx, rx, snd, rcv, in, out, n, d, gone)
  BY DEF Way
<1>2. PICK k \in Nat : fsn_of(n + k) = SEQ_MODULUS - 1
  BY FreshOffset
<1>3. Numbered(new, n, k) /\ sent(new, n) = n /\ acked(new, n) = n
  BY <1>2, NumberedNew
<1>4. /\ acked(tx, n) \in Nat /\ sent(tx, n) \in Nat /\ sent(tx, n) <= n
      /\ acked(tx, n) <= g /\ g <= sent(tx, n) /\ d <= g
  BY <1>1, NumberedCounts DEF WayAt
<1> DEFINE a == acked(tx, n)
           s == sent(tx, n)
<1> HIDE DEF a, s
<1>5. d <= n /\ \A m \in 1 .. n : m <= a => m <= g /\ m \in 1 .. g
  BY <1>4 DEF a, s
<1>6. \A m \in 1 .. n : m <= d \/ m \in more
  <2> SUFFICES ASSUME NEW m \in 1 .. n PROVE m <= d \/ m \in more
    OBVIOUS
  <2>1. CASE m <= a
    BY <1>1, <1>5, <2>1 DEF WayAt
  <2>2. CASE m > a
    <3>1. m \in a + 1 .. n
      BY <1>4, <2>2 DEF a
    <3> QED BY <3>1 DEF a
  <2> QED BY <1>4, <2>1, <2>2 DEF a
<1>7. \A i \in DOMAIN out : out[i].kind = "MSU" => out[i].msu <= n
  <2> SUFFICES ASSUME NEW i \in DOMAIN out, out[i].kind = "MSU" PROVE out[i].msu <= n
    OBVIOUS
  <2> DEFINE x == out[i].msu
  <2>1. x \in Nat /\ x <= s
    BY <1>1, LineFacts, MsuOf DEF WayAt, s
  <2> HIDE DEF x
  <2>2. x <= n
    BY <1>4, <2>1 DEF s
  <2> QED BY <2>2 DEF x
<1>8. rcv \in Open => \E j \in Nat, h \in Nat : Heard(rx, d, more, j, h) /\ Frames(out, j, h)
  BY <1>1 DEF WayAt, Heard
<1>9. WayAt(k, n, new, rx, "NotAligned", rcv, in, out, n, d, more)
  <2>1. "NotAligned" \in Apart /\ "NotAligned" \notin Open
    BY DEF Apart, Open, Traffic
  <2> QED BY <1>3, <1>5, <1>6, <1>7, <1>8, <2>1 DEF WayAt
<1> QED BY <1>2, <1>9 DEF Way

\* poll_transmit in service: the sender sends what poll gives it.
LEMMA WayPoll ==
    ASSUME NEW tx \in TxControl, NEW n \in Nat, NEW d \in Nat,
           NEW rx, NEW snd, NEW rcv, NEW in, NEW out \in Seq(SignalUnit), NEW gone,
           Way(tx, rx, snd, rcv, in, out, n, d, gone), snd \notin Apart,
           Len(poll(tx).tx.unacked) < SEQ_MODULUS,
           NEW su \in SignalUnit,
           su.kind = "MSU" => su.fsn = poll(tx).frame.fsn /\ su.msu = poll(tx).frame.msu
    PROVE  Way(poll(tx).tx, rx, snd, rcv, in, Append(out, su), n, d, gone)
<1>1. PICK c \in Nat, g \in Nat : WayAt(c, g, tx, rx, snd, rcv, in, out, n, d, gone)
  BY DEF Way
<1> DEFINE t == poll(tx).tx
           s == sent(tx, n)
           s2 == sent(t, n)
           a == acked(tx, n)
<1>2. /\ t \in TxControl /\ Numbered(t, n, c) /\ acked(t, n) = a /\ s <= s2
      /\ su.kind = "MSU" => su.fsn = fsn_of(su.msu + c) /\ a < su.msu /\ su.msu <= s2
  <2>1. /\ t \in TxControl /\ Numbered(t, n, c) /\ acked(t, n) = a /\ s <= s2
        /\ poll(tx).frame.msu # Fisu =>
             /\ poll(tx).frame.fsn = fsn_of(poll(tx).frame.msu + c)
             /\ acked(t, n) < poll(tx).frame.msu /\ poll(tx).frame.msu <= s2
    BY <1>1, NumberedPoll DEF WayAt
  <2>2. su.kind = "MSU" => su.msu # Fisu
    BY MsuOf DEF Fisu
  <2> QED BY <2>1, <2>2
<1>3. a \in Nat /\ s \in Nat /\ s2 \in Nat /\ s2 < a + SEQ_MODULUS
  <2>1. a \in Nat /\ s \in Nat
    BY <1>1, NumberedCounts DEF WayAt
  <2>2. s2 \in Nat /\ Len(t.unacked) \in Nat /\ s2 = acked(t, n) + Len(t.unacked)
    BY <1>2, NumberedCounts
  <2> DEFINE b == Len(t.unacked)
  <2>3. b \in Nat /\ b < SEQ_MODULUS /\ s2 = a + b
    BY <1>2, <2>2
  <2> HIDE DEF a, b, s2
  <2> QED BY <2>1, <2>2, <2>3, SequenceSpace
<1>4. a <= g /\ g <= s /\ d <= g
  BY <1>1 DEF WayAt
<1> HIDE DEF t, s, s2, a
<1>5. g <= s2
  BY <1>2, <1>3, <1>4
<1> DEFINE r == Append(out, su)
<1>6. \A i \in DOMAIN out : out[i].kind = "MSU" => out[i].msu <= s2
  <2> SUFFICES ASSUME NEW i \in DOMAIN out, out[i].kind = "MSU" PROVE out[i].msu <= s2
    OBVIOUS
  <2> DEFINE x == out[i].msu
  <2>1. x \in Nat /\ x <= s
    BY <1>1, LineFacts, MsuOf DEF WayAt, s
  <2> HIDE DEF x
  <2>2. x <= s2
    BY <1>2, <1>3, <2>1
  <2> QED BY <2>2 DEF x
<1>7. \A i \in DOMAIN r : r[i].kind = "MSU" => r[i].msu <= s2
  <2> DEFINE last == Len(out) + 1
  <2>1. DOMAIN r = DOMAIN out \cup {last} /\ r[last] = su /\ \A i \in DOMAIN out : r[i] = out[i]
    BY LineAppend
  <2> HIDE DEF r, last
  <2> QED BY <1>2, <1>6, <2>1
<1>8. ASSUME rcv \in Open
      PROVE  Heard(rx, d, gone, c, g) /\ Frames(r, c, g)
  <2>1. Heard(rx, d, gone, c, g) /\ Frames(out, c, g)
    BY <1>1, <1>8 DEF WayAt
  <2>2. ASSUME su.kind = "MSU"
        PROVE  /\ g + 2 <= su.msu + SEQ_MODULUS /\ su.msu < g + SEQ_MODULUS
               /\ s2 + 2 <= su.msu + SEQ_MODULUS
    <3> DEFINE x == su.msu
    <3>1. x \in Nat /\ a < x /\ x <= s2
      BY <1>2, <2>2, MsuOf
    <3> HIDE DEF x
    <3>2. SEQ_MODULUS \in Nat
      BY SequenceSpace
    <3>3. s2 + 2 <= x + SEQ_MODULUS
      BY <1>3, <3>1, <3>2
    <3>4. g + 2 <= x + SEQ_MODULUS
      BY <1>3, <1>5, <3>1, <3>2, <3>3
    <3>5. x < g + SEQ_MODULUS
      BY <1>3, <1>4, <3>1, <3>2
    <3> QED BY <3>3, <3>4, <3>5 DEF x
  <2> QED BY <1>2, <1>3, <1>6, <2>1, <2>2, FramesAppend
<1> HIDE DEF r
<1>9. WayAt(c, g, t, rx, snd, rcv, in, r, n, d, gone)
  BY <1>1, <1>2, <1>4, <1>5, <1>7, <1>8 DEF WayAt, s2, a
<1> QED BY <1>9 DEF Way, t, r

\* poll_transmit of a unit that is no MSU.
LEMMA WaySignals ==
    ASSUME NEW tx \in TxControl, NEW n \in Nat, NEW d \in Nat,
           NEW rx, NEW snd, NEW rcv, NEW in, NEW out \in Seq(SignalUnit), NEW gone,
           Way(tx, rx, snd, rcv, in, out, n, d, gone),
           NEW su \in SignalUnit, su.kind # "MSU"
    PROVE  Way(tx, rx, snd, rcv, in, Append(out, su), n, d, gone)
<1>1. PICK c \in Nat, g \in Nat : WayAt(c, g, tx, rx, snd, rcv, in, out, n, d, gone)
  BY DEF Way
<1> DEFINE r == Append(out, su)
           last == Len(out) + 1
           s == sent(tx, n)
<1>2. DOMAIN r = DOMAIN out \cup {last} /\ r[last] = su /\ \A i \in DOMAIN out : r[i] = out[i]
  BY LineAppend
<1>3. s \in Nat /\ \A i \in DOMAIN out : out[i].kind = "MSU" => out[i].msu <= s
  BY <1>1, NumberedCounts DEF WayAt
<1>4. ASSUME NEW k \in Nat, NEW h \in Nat, Frames(out, k, h)
      PROVE  Frames(r, k, h)
  BY <1>3, <1>4, FramesAppend
<1> HIDE DEF r, last
<1>5. \A i \in DOMAIN r : r[i].kind = "MSU" => r[i].msu <= s
  BY <1>2, <1>3
<1>6. rcv \in Open =>
        \E k \in Nat, h \in Nat :
            /\ Heard(rx, d, gone, k, h) /\ Frames(r, k, h)
            /\ snd \notin Apart => k = c /\ h = g
  BY <1>1, <1>4 DEF WayAt
<1>7. WayAt(c, g, tx, rx, snd, rcv, in, r, n, d, gone)
  BY <1>1, <1>5, <1>6 DEF WayAt, s
<1> QED BY <1>7 DEF Way, r

\* handle_su of a FISU or an MSU: what it acknowledges leaves the buffer.
LEMMA WayAcknowledged ==
    ASSUME NEW tx \in TxControl, NEW n \in Nat, NEW d \in Nat,
           NEW rx, NEW snd, NEW rcv, NEW in \in Seq(SignalUnit), NEW out, NEW gone,
           Way(tx, rx, snd, rcv, in, out, n, d, gone), snd \in Open,
           in # <<>>, Head(in).kind \in Carrying
    PROVE  Way(on_ack(tx, Head(in).bsn, Head(in).bib), rx, snd, rcv, Tail(in), out, n, d, gone)
<1>1. PICK c \in Nat, g \in Nat : WayAt(c, g, tx, rx, snd, rcv, in, out, n, d, gone)
  BY DEF Way
<1> DEFINE t == on_ack(tx, Head(in).bsn, Head(in).bib)
           a == acked(tx, n)
           a2 == acked(t, n)
           s == sent(tx, n)
<1>2. Numbered(tx, n, c) /\ Acks(in, c, a, g) /\ a <= g /\ g <= s
  BY <1>1 DEF WayAt
<1>3. a \in Nat /\ s \in Nat
  BY <1>2, NumberedCounts
<1>4. PICK u \in a .. g :
        /\ Head(in).bsn = fsn_of(u + c)
        /\ \A new \in Nat : new <= u => Acks(Tail(in), c, new, g)
  BY <1>2, <1>3, AcksTail
<1>5. u \in Nat /\ a <= u /\ u <= g /\ u <= s
  <2> HIDE DEF a, s
  <2> QED BY <1>2, <1>3
<1>6. Head(in).bsn \in SequenceNumber /\ Head(in).bib \in BOOLEAN
  BY LineFacts, MsuOf
<1>7. /\ t \in TxControl /\ Numbered(t, n, c) /\ sent(t, n) = s
      /\ a <= a2 /\ a2 <= u
  BY <1>2, <1>4, <1>5, <1>6, NumberedAck
<1>8. a2 \in Nat
  BY <1>7, NumberedCounts
<1> HIDE DEF t, a, a2, s
<1>9. a2 <= g /\ Acks(Tail(in), c, a2, g)
  BY <1>4, <1>5, <1>7, <1>8
<1>10. WayAt(c, g, t, rx, snd, rcv, Tail(in), out, n, d, gone)
  BY <1>1, <1>7, <1>9 DEF WayAt, a2, s
<1> QED BY <1>10 DEF Way, t

\* handle_su of a unit that changes nothing of the error correction.
LEMMA WayIgnored ==
    ASSUME NEW tx \in TxControl, NEW n \in Nat, NEW d \in Nat,
           NEW rx, NEW snd, NEW rcv, NEW in \in Seq(SignalUnit), NEW out, NEW gone,
           Way(tx, rx, snd, rcv, in, out, n, d, gone), in # <<>>
    PROVE  Way(tx, rx, snd, rcv, Tail(in), out, n, d, gone)
<1>1. PICK c \in Nat, g \in Nat : WayAt(c, g, tx, rx, snd, rcv, in, out, n, d, gone)
  BY DEF Way
<1> DEFINE a == acked(tx, n)
<1>2. a \in Nat
  BY <1>1, NumberedCounts DEF WayAt
<1>3. ASSUME Acks(in, c, a, g) PROVE Acks(Tail(in), c, a, g)
  <2>1. PICK u \in a .. g : \A new \in Nat : new <= u => Acks(Tail(in), c, new, g)
    BY <1>2, <1>3, AcksTail
  <2> HIDE DEF a
  <2>2. a <= u
    BY <1>2
  <2> QED BY <1>2, <2>1, <2>2
<1>4. WayAt(c, g, tx, rx, snd, rcv, Tail(in), out, n, d, gone)
  BY <1>1, <1>3 DEF WayAt
<1> QED BY <1>4 DEF Way

(***************************************************************************)
(* The calls of the receiver.                                              *)
(***************************************************************************)

\* poll_transmit: a FISU or an MSU says how far the receiver has got.
LEMMA WayReplies ==
    ASSUME NEW tx \in TxControl, NEW n \in Nat, NEW d \in Nat,
           NEW rx, NEW snd, NEW rcv, NEW in \in Seq(SignalUnit), NEW out, NEW gone,
           Way(tx, rx, snd, rcv, in, out, n, d, gone),
           NEW su \in SignalUnit,
           su.kind \in Carrying => rcv \notin Apart /\ su.bsn = rx.last_received
    PROVE  Way(tx, rx, snd, rcv, Append(in, su), out, n, d, gone)
<1>1. PICK c \in Nat, g \in Nat : WayAt(c, g, tx, rx, snd, rcv, in, out, n, d, gone)
  BY DEF Way
<1> DEFINE a == acked(tx, n)
<1>2. a \in Nat /\ a <= g
  BY <1>1, NumberedCounts DEF WayAt
<1>3. ASSUME snd \in Open PROVE Acks(Append(in, su), c, a, g)
  <2>1. snd \notin Apart /\ Acks(in, c, a, g)
    BY <1>1, <1>3 DEF WayAt, Open, Apart, Traffic
  <2>2. su.kind \in Carrying => su.bsn = fsn_of(g + c)
    BY <1>1, <2>1 DEF WayAt
  <2> HIDE DEF a
  <2> QED BY <1>2, <2>1, <2>2, AcksAppend
<1>4. WayAt(c, g, tx, rx, snd, rcv, Append(in, su), out, n, d, gone)
  BY <1>1, <1>3 DEF WayAt
<1> QED BY <1>4 DEF Way

\* handle_su of a unit that is not accepted.
LEMMA WayRefuses ==
    ASSUME NEW tx \in TxControl, NEW n \in Nat, NEW d \in Nat,
           NEW rx, NEW snd, NEW rcv, NEW in, NEW out \in Seq(SignalUnit), NEW gone,
           Way(tx, rx, snd, rcv, in, out, n, d, gone), out # <<>>,
           NEW new, new.last_received = rx.last_received
    PROVE  Way(tx, new, snd, rcv, in, Tail(out), n, d, gone)
<1>1. PICK c \in Nat, g \in Nat : WayAt(c, g, tx, rx, snd, rcv, in, out, n, d, gone)
  BY DEF Way
<1> DEFINE r == Tail(out)
<1>2. \A i \in DOMAIN r : i + 1 \in DOMAIN out /\ r[i] = out[i + 1]
  BY LineFacts
<1>3. \A k \in Nat, h \in Nat : Frames(out, k, h) => Frames(r, k, h)
  BY FramesTail
<1> HIDE DEF r
<1>4. WayAt(c, g, tx, new, snd, rcv, in, r, n, d, gone)
  <2>1. rcv \in Open =>
          \E k \in Nat, h \in Nat :
              /\ Heard(new, d, gone, k, h) /\ Frames(r, k, h)
              /\ snd \notin Apart => k = c /\ h = g
    BY <1>1, <1>3 DEF WayAt, Heard
  <2> QED BY <1>1, <1>2, <2>1 DEF WayAt
<1> QED BY <1>4 DEF Way, r

\* What on_msu of the MSU in su makes of the receiver, and the MSU.
Accepts(rx, su, new, msu) ==
    /\ su.kind = "MSU" /\ on_msu(rx, su.fsn).outcome = "Accepted"
    /\ new = on_msu(rx, su.fsn).rx /\ msu = su.msu

\* handle_su of an MSU that is accepted: it is one that its user has not seen, and
\* what it has not seen before is gone with a start of the sender.
LEMMA WayAccepts ==
    ASSUME NEW tx \in TxControl, NEW n \in Nat, NEW d \in Nat, NEW rx \in RxControl,
           NEW snd, NEW rcv, NEW in, NEW out \in Seq(SignalUnit), NEW gone,
           Way(tx, rx, snd, rcv, in, out, n, d, gone), rcv \in Open, out # <<>>,
           NEW new, NEW x \in Nat, Accepts(rx, Head(out), new, x)
    PROVE  /\ Way(tx, new, snd, rcv, in, Tail(out), n, x, gone)
           /\ x > d /\ d + 1 .. x - 1 \subseteq gone
<1>1. PICK c \in Nat, g \in Nat : WayAt(c, g, tx, rx, snd, rcv, in, out, n, d, gone)
  BY DEF Way
<1>2. PICK k \in Nat, h \in Nat :
        /\ Heard(rx, d, gone, k, h) /\ Frames(out, k, h)
        /\ snd \notin Apart => k = c /\ h = g
  BY <1>1 DEF WayAt
<1> DEFINE su == Head(out)
           r == Tail(out)
           a == acked(tx, n)
           s == sent(tx, n)
<1>0. /\ su.kind = "MSU" /\ on_msu(rx, su.fsn).outcome = "Accepted"
      /\ new = on_msu(rx, su.fsn).rx /\ x = su.msu
  BY DEF Accepts
<1> HIDE DEF su
<1>3. /\ 1 \in DOMAIN out /\ su = out[1] /\ su \in SignalUnit
      /\ \A i \in DOMAIN r : i + 1 \in DOMAIN out /\ r[i] = out[i + 1]
  BY LineFacts DEF su
<1>4. x \in Nat /\ su.fsn \in SequenceNumber
  BY <1>0, <1>3, MsuOf
<1>5. /\ seq_forward(su.fsn, rx.last_received) = 1
      /\ new.last_received = su.fsn
  BY <1>0, <1>4, OnMsuCases
<1>6. x = h + 1 /\ su.fsn = fsn_of(x + k)
  <2>1. su.fsn = fsn_of(x + k) /\ h + 2 <= x + SEQ_MODULUS /\ x < h + SEQ_MODULUS
    BY <1>0, <1>2, <1>3 DEF Frames
  <2>2. rx.last_received = fsn_of(h + k)
    BY <1>2 DEF Heard
  <2>3. seq_forward(fsn_of(x + k), fsn_of(h + k)) = 1
    BY <1>5, <2>1, <2>2
  <2> QED BY <1>4, <2>1, <2>3, AcceptedIsNext
<1>7. Frames(r, k, x)
  BY <1>0, <1>2, <1>4, <1>6, FramesTail DEF su
<1>8. /\ a <= g /\ g <= s /\ d <= g /\ d <= h /\ x <= s
      /\ d + 1 .. h \subseteq gone /\ \A m \in 1 .. g : m <= d \/ m \in gone
  BY <1>0, <1>1, <1>2, <1>3 DEF WayAt, Heard
<1>9. a \in Nat /\ s \in Nat
  BY <1>1, NumberedCounts DEF WayAt
<1> HIDE DEF r, a, s
<1>10. x > d /\ x - 1 = h /\ d <= x
  BY <1>4, <1>6, <1>8
<1> DEFINE top == IF x >= g THEN x ELSE g
<1>11. /\ top \in Nat /\ a <= top /\ top <= s /\ g <= top /\ x <= top
       /\ (snd \notin Apart => top = x)
  <2>1. snd \notin Apart => g = h
    BY <1>2
  <2> QED BY <1>4, <1>6, <1>8, <1>9, <2>1
<1>12. \A m \in 1 .. top : m <= x \/ m \in gone
  BY <1>4, <1>8, <1>10
<1>13. snd \in Open => Acks(in, c, a, top)
  BY <1>1, <1>9, <1>11, AcksWiden DEF WayAt, a
<1> HIDE DEF top
<1>14. Heard(new, x, gone, k, x)
  BY <1>4, <1>5, <1>6 DEF Heard
<1>15. \A i \in DOMAIN r : r[i].kind = "MSU" => r[i].msu <= s
  BY <1>1, <1>3 DEF WayAt, s
<1>16. snd \notin Apart => new.last_received = fsn_of(top + c) /\ k = c
  BY <1>2, <1>5, <1>6, <1>11
<1>17. WayAt(c, top, tx, new, snd, rcv, in, r, n, x, gone)
  BY <1>1, <1>4, <1>7, <1>11, <1>12, <1>13, <1>14, <1>15, <1>16 DEF WayAt, a, s
<1>18. Way(tx, new, snd, rcv, in, r, n, x, gone)
  BY <1>11, <1>17 DEF Way
<1> QED BY <1>8, <1>10, <1>18 DEF r

(***************************************************************************)
(* The states of the two ends.                                             *)
(***************************************************************************)

\* An end that goes nearer to its peer does so by the two lemmas that follow;
\* otherwise less is asked of the direction than before.
LEMMA WayKeeps ==
    ASSUME NEW tx, NEW n, NEW d, NEW rx, NEW snd, NEW rcv, NEW in, NEW out, NEW gone,
           Way(tx, rx, snd, rcv, in, out, n, d, gone),
           NEW snd2, NEW rcv2, NEW rx2,
           snd2 \in Open => snd \in Open, snd2 \notin Apart => snd \notin Apart,
           rcv2 \in Open => rcv \in Open, rcv2 \notin Apart => rcv \notin Apart /\ rx2 = rx
    PROVE  Way(tx, rx2, snd2, rcv2, in, out, n, d, gone)
<1>1. PICK c \in Nat, g \in Nat : WayAt(c, g, tx, rx, snd, rcv, in, out, n, d, gone)
  BY DEF Way
<1>2. rcv2 \in Open => rcv2 \notin Apart
  BY DEF Open, Apart, Traffic
<1>3. WayAt(c, g, tx, rx2, snd2, rcv2, in, out, n, d, gone)
  <2>1. rcv2 \in Open =>
          \E k \in Nat, h \in Nat :
              /\ Heard(rx2, d, gone, k, h) /\ Frames(out, k, h)
              /\ snd2 \notin Apart => k = c /\ h = g
    BY <1>1, <1>2 DEF WayAt
  <2> QED BY <1>1, <2>1 DEF WayAt
<1> QED BY <1>3 DEF Way

\* Two ends that are both before service have nothing to disagree about: the
\* error correction of each is as new.
LEMMA WayAligns ==
    ASSUME NEW tx \in TxControl, NEW n \in Nat, NEW d \in Nat,
           NEW rx, NEW snd, NEW rcv, NEW in, NEW out, NEW gone,
           Way(tx, rx, snd, rcv, in, out, n, d, gone),
           NEW snd2, NEW rcv2, snd2 \notin Open, rcv2 \notin Open,
           snd2 \notin Apart => tx.unacked = <<>> /\ tx.last_fsn = SEQ_MODULUS - 1,
           rcv2 \notin Apart => rx.last_received = SEQ_MODULUS - 1
    PROVE  Way(tx, rx, snd2, rcv2, in, out, n, d, gone)
<1>1. PICK c \in Nat, g \in Nat : WayAt(c, g, tx, rx, snd, rcv, in, out, n, d, gone)
  BY DEF Way
<1>2. snd2 \notin Apart /\ rcv2 \notin Apart => rx.last_received = fsn_of(g + c)
  <2> SUFFICES ASSUME snd2 \notin Apart, rcv2 \notin Apart
               PROVE  rx.last_received = fsn_of(g + c)
    OBVIOUS
  <2>1. /\ acked(tx, n) \in Nat /\ sent(tx, n) = acked(tx, n) + Len(tx.unacked)
        /\ Len(tx.unacked) = 0
    BY <1>1, NumberedCounts DEF WayAt
  <2>2. acked(tx, n) <= g /\ g <= sent(tx, n) /\ tx.last_fsn = fsn_of(sent(tx, n) + c)
    BY <1>1 DEF WayAt, Numbered
  <2> DEFINE a == acked(tx, n)
             s == sent(tx, n)
  <2>3. a \in Nat /\ s = a /\ a <= g /\ g <= s
    BY <2>1, <2>2
  <2> HIDE DEF a, s
  <2>4. g = s
    BY <2>3
  <2> QED BY <2>2, <2>4 DEF s
<1>3. WayAt(c, g, tx, rx, snd2, rcv2, in, out, n, d, gone)
  BY <1>1, <1>2 DEF WayAt
<1> QED BY <1>3 DEF Way

\* T4 takes an end out of proving, with nothing on the line.
LEMMA WayOpens ==
    ASSUME NEW tx \in TxControl, NEW n \in Nat, NEW d \in Nat,
           NEW rx, NEW snd, NEW rcv, NEW gone,
           Way(tx, rx, snd, rcv, <<>>, <<>>, n, d, gone),
           rcv \notin Apart /\ rcv \notin Open => rx.last_received = SEQ_MODULUS - 1,
           NEW snd2, NEW rcv2,
           snd2 \notin Apart => snd \notin Apart, rcv2 \notin Apart => rcv \notin Apart
    PROVE  Way(tx, rx, snd2, rcv2, <<>>, <<>>, n, d, gone)
<1>1. PICK c \in Nat, g \in Nat : WayAt(c, g, tx, rx, snd, rcv, <<>>, <<>>, n, d, gone)
  BY DEF Way
<1>2. \A k, h : Frames(<<>>, k, h)
  BY DEF Frames
<1>3. \A m \in 1 .. g : m <= d \/ m \in gone
  BY <1>1 DEF WayAt
<1>4. d <= g /\ d + 1 .. g \subseteq gone
  <2>1. d <= g
    BY <1>1 DEF WayAt
  <2>2. ASSUME NEW m \in d + 1 .. g PROVE m \in gone
    <3>1. m \in 1 .. g /\ ~(m <= d)
      BY <2>1
    <3> QED BY <1>3, <3>1
  <2> QED BY <2>1, <2>2
<1>5. ASSUME rcv2 \in Open
      PROVE  \E k \in Nat, h \in Nat :
                /\ Heard(rx, d, gone, k, h) /\ Frames(<<>>, k, h)
                /\ snd2 \notin Apart => k = c /\ h = g
  <2>1. rcv \notin Apart
    BY <1>5 DEF Open, Apart, Traffic
  <2>2. CASE snd \notin Apart
    <3>1. Heard(rx, d, gone, c, g)
      BY <1>1, <1>4, <2>1, <2>2 DEF WayAt, Heard
    <3> QED BY <1>2, <3>1
  <2>3. CASE snd \in Apart /\ rcv \in Open
    <3>1. snd2 \in Apart
      BY <2>3
    <3> QED BY <1>1, <2>3, <3>1 DEF WayAt
  <2>4. CASE snd \in Apart /\ rcv \notin Open
    <3>1. PICK k \in Nat : fsn_of(d + k) = SEQ_MODULUS - 1
      BY FreshOffset
    <3>2. Heard(rx, d, gone, k, d)
      BY <2>1, <2>4, <3>1 DEF Heard
    <3> QED BY <1>2, <2>4, <3>2
  <2> QED BY <2>2, <2>3, <2>4
<1>6. \A low, high : Acks(<<>>, c, low, high)
  BY AcksNone
<1>7. WayAt(c, g, tx, rx, snd2, rcv2, <<>>, <<>>, n, d, gone)
  BY <1>1, <1>5, <1>6 DEF WayAt
<1> QED BY <1>7 DEF Way

(***************************************************************************)
(* What a call does to the two directions that end at its link: to its     *)
(* error correction, its state and the MSUs that its user is passed.       *)
(***************************************************************************)

\* A call raises its events after those that are there.
Extends(s, t) ==
    /\ s \in Seq(Event) /\ t \in Seq(Event) /\ Len(s) <= Len(t)
    /\ \A i \in 1 .. Len(s) : t[i] = s[i]

\* The MSUs among the events raised between s and t.
news(s, t) == {t[i].msu : i \in Len(s) + 1 .. Len(t)} \ {Fisu}

\* At most one of these events passes an MSU.
Once(s, t) ==
    \A i, j \in Len(s) + 1 .. Len(t) : t[i].msu # Fisu /\ t[j].msu # Fisu => i = j

\* A call that raises no event passes no MSU.
LEMMA NewsSame ==
    ASSUME NEW s \in Seq(Event)
    PROVE  Extends(s, s) /\ news(s, s) = {}
<1>1. \A n \in Nat : n + 1 .. n = {}
  OBVIOUS
<1> QED BY <1>1 DEF Extends, news

\* emit: the MSU of the event, if it has one, is new.
LEMMA NewsAppend ==
    ASSUME NEW s \in Seq(Event), NEW e \in Event
    PROVE  /\ Extends(s, Append(s, e)) /\ news(s, Append(s, e)) = {e.msu} \ {Fisu}
           /\ Once(s, Append(s, e))
<1> DEFINE t == Append(s, e)
<1>1. /\ t \in Seq(Event) /\ Len(s) \in Nat /\ Len(t) = Len(s) + 1
      /\ t[Len(s) + 1] = e /\ \A i \in 1 .. Len(s) : t[i] = s[i]
  OBVIOUS
<1> HIDE DEF t
<1>2. Len(s) + 1 .. Len(t) = {Len(s) + 1}
  BY <1>1
<1> QED BY <1>1, <1>2 DEF Extends, news, Once, t

\* Two calls pass what each of them passes.
LEMMA NewsChain ==
    ASSUME NEW r, NEW s, NEW t, Extends(r, s), Extends(s, t)
    PROVE  Extends(r, t) /\ news(r, t) = news(r, s) \cup news(s, t)
<1>1. Len(r) \in Nat /\ Len(s) \in Nat /\ Len(t) \in Nat /\ Len(r) <= Len(s) /\ Len(s) <= Len(t)
  BY DEF Extends
<1>2. Len(r) + 1 .. Len(t) = (Len(r) + 1 .. Len(s)) \cup (Len(s) + 1 .. Len(t))
  BY <1>1
<1>3. \A i \in Len(r) + 1 .. Len(s) : t[i] = s[i]
  BY <1>1 DEF Extends
<1>4. \A i \in 1 .. Len(r) : t[i] = r[i]
  BY <1>1 DEF Extends
<1>5. Extends(r, t)
  BY <1>1, <1>4 DEF Extends
<1>6. {t[i].msu : i \in Len(r) + 1 .. Len(t)}
        = {s[i].msu : i \in Len(r) + 1 .. Len(s)} \cup {t[i].msu : i \in Len(s) + 1 .. Len(t)}
  BY <1>2, <1>3
<1> QED BY <1>5, <1>6 DEF news

\* After a call that passes none, one is still one.
LEMMA OnceChain ==
    ASSUME NEW r, NEW s, NEW t, Extends(r, s), Extends(s, t), news(r, s) = {}, Once(s, t)
    PROVE  Once(r, t)
<1>1. Len(r) \in Nat /\ Len(s) \in Nat /\ Len(t) \in Nat /\ Len(r) <= Len(s) /\ Len(s) <= Len(t)
  BY DEF Extends
<1>2. \A i \in Len(r) + 1 .. Len(t) : t[i].msu # Fisu => i \in Len(s) + 1 .. Len(t)
  <2> SUFFICES ASSUME NEW i \in Len(r) + 1 .. Len(t), i \notin Len(s) + 1 .. Len(t)
               PROVE  t[i].msu = Fisu
    OBVIOUS
  <2>1. i \in Len(r) + 1 .. Len(s) /\ i \in 1 .. Len(s)
    BY <1>1
  <2>2. t[i] = s[i]
    BY <2>1 DEF Extends
  <2> QED BY <2>1, <2>2 DEF news
<1> QED BY <1>2 DEF Once

\* A call that leaves the error correction alone and passes no MSU.
Quiet(k, n) ==
    /\ n.tx = k.tx /\ n.rx = k.rx
    /\ Extends(k.events, n.events) /\ news(k.events, n.events) = {}

\* One quiet call after another is quiet.
LEMMA QuietChain ==
    ASSUME NEW k, NEW m, NEW n, Quiet(k, m), Quiet(m, n)
    PROVE  Quiet(k, n)
BY NewsChain DEF Quiet

\* Such a call raises no event, or one that carries no MSU.
LEMMA QuietEvents ==
    ASSUME NEW k \in Link, NEW n, n.tx = k.tx, n.rx = k.rx,
           \/ n.events = k.events
           \/ \E e \in Event : e.msu = Fisu /\ n.events = Append(k.events, e)
    PROVE  Quiet(k, n)
<1>1. k.events \in Seq(Event)
  BY DEF Link
<1>2. ASSUME NEW e \in Event, e.msu = Fisu, n.events = Append(k.events, e)
      PROVE  Extends(k.events, n.events) /\ news(k.events, n.events) = {}
  <2>1. /\ Extends(k.events, Append(k.events, e))
        /\ news(k.events, Append(k.events, e)) = {e.msu} \ {Fisu}
    BY <1>1, NewsAppend
  <2> QED BY <1>2, <2>1
<1>3. CASE n.events = k.events
  BY <1>1, <1>3, NewsSame DEF Quiet
<1> QED BY <1>2, <1>3 DEF Quiet

\* Only an accepted MSU comes with an event that carries one.
LEMMA EventMsus ==
    /\ \A r : OutOfService(r).msu = Fisu
    /\ \A f : AlignmentFailed(f).msu = Fisu
    /\ \A e : Plain(e).msu = Fisu
    /\ \A m : MsuEvent(m).msu = m
BY DEF OutOfService, AlignmentFailed, Plain, MsuEvent, Fisu

\* fail_out_of_service and fail_alignment
LEMMA QuietFails ==
    ASSUME NEW k \in Link
    PROVE  /\ \A r \in OutOfServiceReason :
                /\ Quiet(k, fail_out_of_service(k, r))
                /\ fail_out_of_service(k, r).state = "OutOfService"
           /\ \A f \in AlignmentFailure :
                /\ Quiet(k, fail_alignment(k, f))
                /\ fail_alignment(k, f).state = "OutOfService"
<1>1. ASSUME NEW r \in OutOfServiceReason
      PROVE  /\ Quiet(k, fail_out_of_service(k, r))
             /\ fail_out_of_service(k, r).state = "OutOfService"
  <2> DEFINE n == fail_out_of_service(k, r)
  <2>1. /\ n.tx = k.tx /\ n.rx = k.rx /\ n.state = "OutOfService"
        /\ n.events = Append(k.events, OutOfService(r))
    BY DEF fail_out_of_service, emit, stop_all_timers, Link
  <2> HIDE DEF n
  <2> QED BY <2>1, QuietEvents, EventMsus, Events DEF n
<1>2. ASSUME NEW f \in AlignmentFailure
      PROVE  /\ Quiet(k, fail_alignment(k, f))
             /\ fail_alignment(k, f).state = "OutOfService"
  <2> DEFINE n == fail_alignment(k, f)
  <2>1. /\ n.tx = k.tx /\ n.rx = k.rx /\ n.state = "OutOfService"
        /\ n.events = Append(k.events, AlignmentFailed(f))
    BY DEF fail_alignment, emit, stop_all_timers, Link
  <2> HIDE DEF n
  <2> QED BY <2>1, QuietEvents, EventMsus, Events DEF n
<1> QED BY <1>1, <1>2

\* enter_aligned, enter_proving, enter_aligned_ready and enter_in_service
LEMMA QuietMoves ==
    ASSUME NEW k \in Link
    PROVE  /\ \A left \in Timer : LET n == enter_aligned(k, left)
                                  IN  Quiet(k, n) /\ n.state = "Aligned"
           /\ LET n == enter_proving(k) IN Quiet(k, n) /\ n.state = "Proving"
           /\ LET n == enter_aligned_ready(k) IN Quiet(k, n) /\ n.state = "AlignedReady"
           /\ LET n == enter_in_service(k) IN Quiet(k, n) /\ n.state = "InService"
<1>1. ASSUME NEW left \in Timer
      PROVE  LET n == enter_aligned(k, left) IN Quiet(k, n) /\ n.state = "Aligned"
  <2> DEFINE n == enter_aligned(k, left)
  <2>1. n.tx = k.tx /\ n.rx = k.rx /\ n.state = "Aligned" /\ n.events = k.events
    BY DEF enter_aligned, Link
  <2> HIDE DEF n
  <2> QED BY <2>1, QuietEvents DEF n
<1>2. LET n == enter_proving(k) IN Quiet(k, n) /\ n.state = "Proving"
  <2> DEFINE n == enter_proving(k)
  <2>1. n.tx = k.tx /\ n.rx = k.rx /\ n.state = "Proving" /\ n.events = k.events
    BY DEF enter_proving, Link
  <2> HIDE DEF n
  <2> QED BY <2>1, QuietEvents DEF n
<1>3. LET n == enter_aligned_ready(k) IN Quiet(k, n) /\ n.state = "AlignedReady"
  <2> DEFINE n == enter_aligned_ready(k)
  <2>1. n.tx = k.tx /\ n.rx = k.rx /\ n.state = "AlignedReady" /\ n.events = k.events
    BY DEF enter_aligned_ready, Link
  <2> HIDE DEF n
  <2> QED BY <2>1, QuietEvents DEF n
<1>4. LET n == enter_in_service(k) IN Quiet(k, n) /\ n.state = "InService"
  <2> DEFINE n == enter_in_service(k)
  <2>1. /\ n.tx = k.tx /\ n.rx = k.rx /\ n.state = "InService"
        /\ n.events = Append(k.events, Plain("InService"))
    BY DEF enter_in_service, emit, Link
  <2> HIDE DEF n
  <2> QED BY <2>1, QuietEvents, EventMsus, Events DEF n
<1> QED BY <1>1, <1>2, <1>3, <1>4

\* What a link notices of its peer's outage and congestion.
LEMMA QuietPeer ==
    ASSUME NEW k \in Link
    PROVE  /\ Quiet(k, remote_outage(k)) /\ remote_outage(k).state = k.state
           /\ Quiet(k, remote_congestion(k)) /\ remote_congestion(k).state = k.state
           /\ Quiet(k, remote_recovered(k)) /\ remote_recovered(k).state = k.state
           /\ Quiet(k, remote_busy_ended(k)) /\ remote_busy_ended(k).state = k.state
<1>1. ASSUME NEW n \in {remote_outage(k), remote_congestion(k), remote_recovered(k),
                        remote_busy_ended(k)}
      PROVE  /\ n.tx = k.tx /\ n.rx = k.rx /\ n.state = k.state
             /\ \/ n.events = k.events
                \/ \E e \in {"RemoteProcessorOutage", "RemoteProcessorRecovered",
                             "RemoteBusy", "RemoteBusyEnded"} :
                     n.events = Append(k.events, Plain(e))
  <2>1. CASE n = remote_outage(k)
    BY <2>1 DEF remote_outage, emit, Link
  <2>2. CASE n = remote_congestion(k)
    BY <2>2, SMTT(30) DEF remote_congestion, emit, Link
  <2>3. CASE n = remote_recovered(k)
    BY <2>3 DEF remote_recovered, emit, Link
  <2>4. CASE n = remote_busy_ended(k)
    BY <2>4 DEF remote_busy_ended, emit, Link
  <2> QED BY <2>1, <2>2, <2>3, <2>4
<1>2. ASSUME NEW n \in {remote_outage(k), remote_congestion(k), remote_recovered(k),
                        remote_busy_ended(k)}
      PROVE  Quiet(k, n)
  BY <1>1, QuietEvents, EventMsus, Events
<1> QED BY <1>1, <1>2

\* The SUERM's count and the upgrade to emergency alignment.
LEMMA QuietCounts ==
    ASSUME NEW k \in Link
    PROVE  /\ \A in_error \in BOOLEAN :
                Quiet(k, counted(k, in_error)) /\ counted(k, in_error).state = k.state
           /\ \A status :
                Quiet(k, upgraded(k, status)) /\ upgraded(k, status).state = k.state
<1>1. ASSUME NEW in_error \in BOOLEAN
      PROVE  Quiet(k, counted(k, in_error)) /\ counted(k, in_error).state = k.state
  <2> DEFINE n == counted(k, in_error)
  <2>1. n.tx = k.tx /\ n.rx = k.rx /\ n.events = k.events /\ n.state = k.state
    BY DEF counted, Link
  <2> HIDE DEF n
  <2> QED BY <2>1, QuietEvents DEF n
<1>2. ASSUME NEW status
      PROVE  Quiet(k, upgraded(k, status)) /\ upgraded(k, status).state = k.state
  <2> DEFINE n == upgraded(k, status)
  <2>1. n.tx = k.tx /\ n.rx = k.rx /\ n.events = k.events /\ n.state = k.state
    BY DEF upgraded, Link
  <2> HIDE DEF n
  <2> QED BY <2>1, QuietEvents DEF n
<1> QED BY <1>1, <1>2

\* Nothing nearer to the peer than before.
Keeps(k, n) ==
    (n.state \in Open => k.state \in Open) /\ (n.state \notin Apart => k.state \notin Apart)

\* handle_su of an LSSU, and of any unit while the SUERM trips: the error
\* correction stays, and the only way nearer is from NotAligned to Aligned.
Signalled(k, n, kind) ==
    /\ Quiet(k, n)
    /\ \/ Keeps(k, n)
       \/ k.state = "NotAligned" /\ n.state = "Aligned" /\ kind \in Aligning

\* handle_su of a FISU or an MSU, from AlignedReady on.
Informed(k, n, su) ==
    /\ su.kind \in Carrying
    /\ k.state \in Open /\ n.state \in Traffic
    /\ n.tx = on_ack(k.tx, su.bsn, su.bib)
    /\ Extends(k.events, n.events)
    /\ \/ n.rx.last_received = k.rx.last_received /\ news(k.events, n.events) = {}
       \/ /\ su.kind = "MSU" /\ on_msu(k.rx, su.fsn).outcome = "Accepted"
          /\ n.rx = on_msu(k.rx, su.fsn).rx
          /\ news(k.events, n.events) = {su.msu} /\ Once(k.events, n.events)

\* handle_lssu, in every state of alignment and of service.
LEMMA SignalledByLssu ==
    ASSUME NEW l \in Links, NEW c, Sound(c), NEW status \in StatusIndication,
           HandleLssu(l, c, status)
    PROVE  \E n : Becomes(l, n) /\ Signalled(c, n, status)
<1> DEFINE k == upgraded(c, status)
<1>1. c \in Link
  BY DEF Sound, Steady
<1>2. Quiet(c, k) /\ k.state = c.state
  BY <1>1, QuietCounts
<1>3. k \in Link /\ Sound(k)
  <2> DEFINE on == c.emergency \/ (status = "SIE" /\ c.state \in {"NotAligned", "Aligned", "Proving"})
  <2>1. on \in BOOLEAN /\ k = [c EXCEPT !.emergency = on]
    BY <1>1 DEF upgraded, Link
  <2> HIDE DEF on, k
  <2>2. Sound(k)
    BY <2>1, Flags
  <2> QED BY <2>2 DEF Sound, Steady
<1>4. \/ LssuNotAligned(l, k, status) \/ LssuAligned(l, k, status)
      \/ LssuProving(l, k, status) \/ LssuReady(l, k, status)
      \/ LssuTraffic(l, k, status) \/ Becomes(l, k)
  BY DEF HandleLssu
<1> HIDE DEF k
<1>5. ASSUME NEW n, Becomes(l, n), Quiet(k, n),
             \/ Keeps(k, n)
             \/ k.state = "NotAligned" /\ n.state = "Aligned" /\ status \in Aligning
      PROVE  \E m : Becomes(l, m) /\ Signalled(c, m, status)
  <2>1. Quiet(c, n)
    BY <1>2, <1>5, QuietChain
  <2> QED BY <1>2, <1>5, <2>1 DEF Signalled, Keeps
<1>6. CASE LssuNotAligned(l, k, status)
  BY <1>3, <1>5, <1>6, QuietMoves DEF LssuNotAligned, Timer
<1>7. CASE LssuAligned(l, k, status)
  <2> DEFINE m == [k EXCEPT !.timer["t3"] = Stopped]
  <2>1. /\ m \in Link /\ Quiet(k, m)
    <3>1. m \in Link /\ m.tx = k.tx /\ m.rx = k.rx /\ m.events = k.events
      BY <1>3 DEF Link, Timer, Stopped
    <3> HIDE DEF m
    <3> QED BY <1>3, <3>1, QuietEvents
  <2>2. LET n == enter_proving(m) IN Quiet(k, n) /\ n.state = "Proving"
    <3> HIDE DEF m
    <3> QED BY <2>1, QuietMoves, QuietChain
  <2>3. k.state = "Aligned"
    BY <1>7 DEF LssuAligned
  <2>4. CASE Becomes(l, enter_proving(m))
    <3> HIDE DEF m
    <3> QED BY <1>5, <2>2, <2>3, <2>4 DEF Keeps, Open, Apart, Traffic
  <2>5. CASE Becomes(l, fail_alignment(k, "ReceivedSios"))
    BY <1>3, <1>5, <2>5, QuietFails DEF Keeps, Open, Apart, Traffic, AlignmentFailure
  <2> QED BY <1>7, <2>4, <2>5 DEF LssuAligned
<1>8. CASE LssuProving(l, k, status)
  <2>1. k.state = "Proving"
    BY <1>8 DEF LssuProving
  <2>2. CASE Becomes(l, enter_proving(k)) \/ Becomes(l, enter_aligned(k, "t4"))
    BY <1>3, <1>5, <2>1, <2>2, QuietMoves DEF Keeps, Open, Apart, Traffic, Timer
  <2>3. CASE Becomes(l, fail_alignment(k, "ReceivedSios"))
    BY <1>3, <1>5, <2>3, QuietFails DEF Keeps, Open, Apart, Traffic, AlignmentFailure
  <2> QED BY <1>8, <2>2, <2>3 DEF LssuProving
<1>9. CASE LssuReady(l, k, status)
  <2>1. CASE k.state = "AlignedReady" /\ status = "SIPO"
    <3> DEFINE e == enter_in_service(k)
               b == [e EXCEPT !.remote_processor_outage = TRUE]
               n == emit(b, Plain("RemoteProcessorOutage"))
    <3>1. Becomes(l, n)
      BY <1>9, <2>1 DEF LssuReady
    <3>2. Sound(e) /\ Quiet(k, e) /\ e.state = "InService" /\ e \in Link
      BY <1>3, <2>1, EnterInService, QuietMoves DEF Sound, Steady
    <3> HIDE DEF e
    <3>3. /\ n.tx = e.tx /\ n.rx = e.rx /\ n.state = e.state
          /\ n.events = Append(e.events, Plain("RemoteProcessorOutage"))
      BY <3>2 DEF emit, Link
    <3> HIDE DEF n
    <3>4. Quiet(e, n)
      BY <3>2, <3>3, QuietEvents, EventMsus, Events
    <3>5. Quiet(k, n)
      BY <3>2, <3>4, QuietChain
    <3> QED BY <1>5, <2>1, <3>1, <3>2, <3>3, <3>5 DEF Keeps, Open, Apart, Traffic
  <2>2. CASE Becomes(l, fail_alignment(k, "ReceivedSios"))
    BY <1>3, <1>5, <2>2, QuietFails DEF Keeps, Open, Apart, Traffic, AlignmentFailure
  <2> QED BY <1>9, <2>1, <2>2 DEF LssuReady
<1>10. CASE LssuTraffic(l, k, status)
  <2>1. CASE Becomes(l, remote_outage(k)) \/ Becomes(l, remote_congestion(k))
    BY <1>3, <1>5, <2>1, QuietPeer DEF Keeps
  <2>2. ASSUME NEW r \in OutOfServiceReason, Becomes(l, fail_out_of_service(k, r))
        PROVE  \E n : Becomes(l, n) /\ Signalled(c, n, status)
    BY <1>3, <1>5, <2>2, QuietFails DEF Keeps, Open, Apart, Traffic
  <2> QED BY <1>10, <2>1, <2>2 DEF LssuTraffic, OutOfServiceReason
<1>11. CASE Becomes(l, k)
  BY <1>3, <1>5, <1>11, QuietEvents DEF Keeps
<1> QED BY <1>4, <1>6, <1>7, <1>8, <1>9, <1>10, <1>11

\* The first things process_in_service_su does.
LEMMA AcknowledgedFirst ==
    ASSUME NEW k, Sound(k), k.state \in Traffic, NEW su \in SignalUnit
    PROVE  LET n == remote_busy_ended(remote_recovered(acknowledge(k, su)))
           IN  /\ Sound(n) /\ n.state = k.state
               /\ n.tx = on_ack(k.tx, su.bsn, su.bib) /\ n.rx = k.rx
               /\ Extends(k.events, n.events) /\ news(k.events, n.events) = {}
<1> DEFINE a == acknowledge(k, su)
           b == remote_recovered(a)
           n == remote_busy_ended(b)
<1>1. Sound(a) /\ a.state = k.state
  BY Acknowledge
<1>2. a.tx = on_ack(k.tx, su.bsn, su.bib) /\ a.rx = k.rx /\ a.events = k.events
  BY DEF acknowledge, Sound, Steady, Link
<1>3. k.events \in Seq(Event)
  BY DEF Sound, Steady, Link
<1> HIDE DEF a
<1>4. Sound(b) /\ b.state = k.state /\ Quiet(a, b)
  BY <1>1, RemoteRecovered, QuietPeer DEF Sound, Steady
<1> HIDE DEF b
<1>5. Sound(n) /\ n.state = k.state /\ Quiet(b, n)
  BY <1>1, <1>4, RemoteBusyEnded, QuietPeer DEF Sound, Steady
<1> HIDE DEF n
<1>6. Quiet(a, n)
  BY <1>4, <1>5, QuietChain
<1>7. n.tx = on_ack(k.tx, su.bsn, su.bib) /\ n.rx = k.rx /\ n.state = k.state /\ Sound(n)
  BY <1>2, <1>5, <1>6 DEF Quiet
<1>8. Extends(k.events, n.events) /\ news(k.events, n.events) = {}
  BY <1>2, <1>6 DEF Quiet
<1> QED BY <1>7, <1>8 DEF a, b, n

\* receive_msu passes an MSU to the user exactly if the sequence check accepts it.
LEMMA ReceivedMsu ==
    ASSUME NEW k, Sound(k), NEW su \in SignalUnit, su.kind = "MSU"
    PROVE  LET n == receive_msu(k, su)
           IN  /\ n.tx = k.tx /\ n.state = k.state /\ Extends(k.events, n.events)
               /\ \/ /\ n.rx.last_received = k.rx.last_received
                     /\ news(k.events, n.events) = {}
                  \/ /\ on_msu(k.rx, su.fsn).outcome = "Accepted"
                     /\ n.rx = on_msu(k.rx, su.fsn).rx
                     /\ news(k.events, n.events) = {su.msu} /\ Once(k.events, n.events)
<1> DEFINE checked == on_msu(k.rx, su.fsn)
           r == [k EXCEPT !.rx = checked.rx]
           n == receive_msu(k, su)
<1>1. /\ k \in Link /\ k.rx \in RxControl /\ k.events \in Seq(Event)
      /\ su.fsn \in SequenceNumber /\ su.msu \in Msu /\ su.msu # Fisu
  BY DEF Sound, Steady, Link, SignalUnit
<1>2. checked.outcome # "Accepted" => checked.rx.last_received = k.rx.last_received
  BY <1>1, OnMsuCases
<1>3. r.tx = k.tx /\ r.state = k.state /\ r.events = k.events /\ r.rx = checked.rx
  BY <1>1 DEF Link
<1>4. ASSUME NEW e \in Event
      PROVE  /\ emit(r, e).tx = k.tx /\ emit(r, e).state = k.state
             /\ emit(r, e).rx = checked.rx /\ emit(r, e).events = Append(k.events, e)
  BY <1>1 DEF emit, Link
<1> HIDE DEF r, checked
<1>5. CASE n = k
  BY <1>1, <1>5, NewsSame DEF n
<1>6. CASE checked.outcome = "Accepted" /\ n = emit(r, MsuEvent(su.msu))
  <2>1. MsuEvent(su.msu) \in Event /\ MsuEvent(su.msu).msu = su.msu
    BY <1>1, Events, EventMsus
  <2>2. /\ news(k.events, n.events) = {su.msu} /\ Extends(k.events, n.events)
        /\ Once(k.events, n.events)
    BY <1>1, <1>4, <1>6, <2>1, NewsAppend
  <2> QED BY <1>4, <1>6, <2>1, <2>2 DEF checked, n
<1>7. CASE /\ checked.outcome # "Accepted"
           /\ n = emit(r, Plain("RetransmissionRequested"))
  <2>1. /\ Plain("RetransmissionRequested") \in Event
        /\ Plain("RetransmissionRequested").msu = Fisu
    BY Events, EventMsus
  <2>2. news(k.events, n.events) = {} /\ Extends(k.events, n.events)
    BY <1>1, <1>4, <1>7, <2>1, NewsAppend
  <2> QED BY <1>2, <1>4, <1>7, <2>1, <2>2 DEF n
<1>8. CASE checked.outcome # "Accepted" /\ n = r
  BY <1>1, <1>2, <1>3, <1>8, NewsSame DEF n
<1>9. \/ n = k
      \/ checked.outcome = "Accepted" /\ n = emit(r, MsuEvent(su.msu))
      \/ checked.outcome # "Accepted" /\ n = emit(r, Plain("RetransmissionRequested"))
      \/ checked.outcome # "Accepted" /\ n = r
  BY DEF receive_msu, checked, r
<1> QED BY <1>5, <1>6, <1>7, <1>8, <1>9

\* process_in_service_su
LEMMA InformedInService ==
    ASSUME NEW k, Sound(k), k.state \in Traffic, NEW su \in SignalUnit, su.kind \in Carrying
    PROVE  Informed(k, process_in_service_su(k, su), su)
<1> DEFINE m == remote_busy_ended(remote_recovered(acknowledge(k, su)))
           n == receive_msu(m, su)
           p == process_in_service_su(k, su)
<1>1. /\ Sound(m) /\ m.state = k.state
      /\ m.tx = on_ack(k.tx, su.bsn, su.bib) /\ m.rx = k.rx
      /\ Extends(k.events, m.events) /\ news(k.events, m.events) = {}
  BY AcknowledgedFirst
<1>2. p = IF su.kind = "MSU" THEN n ELSE m
  BY DEF process_in_service_su
<1>3. k.state \in Open
  BY DEF Open
<1> HIDE DEF m
<1>4. CASE su.kind = "MSU"
  <2>1. /\ n.tx = m.tx /\ n.state = m.state /\ Extends(m.events, n.events)
        /\ \/ /\ n.rx.last_received = m.rx.last_received
              /\ news(m.events, n.events) = {}
           \/ /\ on_msu(m.rx, su.fsn).outcome = "Accepted"
              /\ n.rx = on_msu(m.rx, su.fsn).rx
              /\ news(m.events, n.events) = {su.msu} /\ Once(m.events, n.events)
    BY <1>1, <1>4, ReceivedMsu
  <2> HIDE DEF n, p
  <2>2. /\ Extends(k.events, n.events) /\ news(k.events, n.events) = news(m.events, n.events)
        /\ Once(m.events, n.events) => Once(k.events, n.events)
    BY <1>1, <2>1, NewsChain, OnceChain
  <2>3. Informed(k, p, su)
    BY <1>1, <1>2, <1>3, <1>4, <2>1, <2>2 DEF Informed
  <2> QED BY <2>3 DEF p
<1>5. CASE su.kind # "MSU"
  BY <1>1, <1>2, <1>3, <1>5 DEF Informed
<1> QED BY <1>4, <1>5

\* handle_su
LEMMA SuHandled ==
    ASSUME NEW l \in Links, Sound(link[l]), NEW su \in SignalUnit, HandleSu(l, su)
    PROVE  \E n : /\ Becomes(l, n)
                  /\ Signalled(link[l], n, su.kind) \/ Informed(link[l], n, su)
<1> DEFINE k == link[l]
           c == counted(k, FALSE)
<1>1. Steady(c) /\ c.state = k.state /\ (~suerm_tripped(c) => Sound(c)) /\ Quiet(k, c)
  BY Counted, QuietCounts DEF Sound, Steady
<1>2. \/ suerm_tripped(c) /\ Becomes(l, fail_out_of_service(c, "SuermFailure"))
      \/ ~suerm_tripped(c) /\ su.kind \in StatusIndication /\ HandleLssu(l, c, su.kind)
      \/ ~suerm_tripped(c) /\ su.kind \in Carrying /\ HandleFisuOrMsu(l, c, su)
  BY DEF HandleSu, Carrying
<1> HIDE DEF k, c
<1>3. CASE suerm_tripped(c) /\ Becomes(l, fail_out_of_service(c, "SuermFailure"))
  <2> DEFINE n == fail_out_of_service(c, "SuermFailure")
  <2>1. Quiet(c, n) /\ n.state = "OutOfService"
    BY <1>1, QuietFails DEF Steady, OutOfServiceReason
  <2> HIDE DEF n
  <2>2. Signalled(k, n, su.kind)
    BY <1>1, <2>1, QuietChain DEF Signalled, Keeps, Open, Apart, Traffic
  <2> QED BY <1>3, <2>2 DEF n, k
<1>4. CASE ~suerm_tripped(c) /\ su.kind \in StatusIndication /\ HandleLssu(l, c, su.kind)
  <2>1. PICK n : Becomes(l, n) /\ Signalled(c, n, su.kind)
    BY <1>1, <1>4, SignalledByLssu
  <2>2. Signalled(k, n, su.kind)
    BY <1>1, <2>1, QuietChain DEF Signalled, Keeps
  <2> QED BY <2>1, <2>2 DEF k
<1>5. ASSUME ~suerm_tripped(c), su.kind \in Carrying,
             NEW b, Sound(b), b.state \in Traffic, Quiet(c, b), c.state \in Open,
             Becomes(l, process_in_service_su(b, su))
      PROVE  \E n : Becomes(l, n) /\ Informed(k, n, su)
  <2> DEFINE n == process_in_service_su(b, su)
  <2>1. Informed(b, n, su)
    BY <1>5, InformedInService
  <2>2. Quiet(k, b)
    BY <1>1, <1>5, QuietChain
  <2> HIDE DEF n
  <2>3. /\ Extends(k.events, n.events) /\ news(k.events, n.events) = news(b.events, n.events)
        /\ Once(b.events, n.events) => Once(k.events, n.events)
    BY <2>1, <2>2, NewsChain, OnceChain DEF Informed, Quiet
  <2>4. Informed(k, n, su)
    BY <1>1, <1>5, <2>1, <2>2, <2>3 DEF Informed, Quiet
  <2> QED BY <1>5, <2>4 DEF n
<1>6. CASE ~suerm_tripped(c) /\ su.kind \in Carrying /\ HandleFisuOrMsu(l, c, su)
  <2>1. CASE c.state = "AlignedReady"
    <3> DEFINE b == enter_in_service(c)
    <3>1. Sound(b) /\ b.state \in Traffic /\ Quiet(c, b)
      BY <1>1, <1>6, <2>1, EnterInService, QuietMoves DEF Sound, Steady, Traffic
    <3>2. Becomes(l, process_in_service_su(b, su))
      BY <1>6, <2>1 DEF HandleFisuOrMsu, Traffic
    <3> HIDE DEF b
    <3> QED BY <1>5, <1>6, <2>1, <3>1, <3>2 DEF Open, k
  <2>2. CASE c.state \in Traffic
    <3>1. Becomes(l, process_in_service_su(c, su))
      BY <1>6, <2>2 DEF HandleFisuOrMsu, Traffic
    <3>2. Quiet(c, c)
      BY <1>1, QuietEvents DEF Steady
    <3> QED BY <1>1, <1>5, <1>6, <2>2, <3>1, <3>2 DEF Open, k
  <2>3. CASE c.state \notin Traffic \cup {"AlignedReady"}
    <3>1. Becomes(l, c)
      BY <1>6, <2>3 DEF HandleFisuOrMsu
    <3>2. Signalled(k, c, su.kind)
      BY <1>1 DEF Signalled, Keeps
    <3> QED BY <3>1, <3>2 DEF k
  <2> QED BY <2>1, <2>2, <2>3
<1> QED BY <1>2, <1>3, <1>4, <1>6 DEF k

\* The calls that leave the error correction alone and bring the link no nearer
\* to its peer.
Unmoved(k, n) == n.tx = k.tx /\ n.rx = k.rx /\ Keeps(k, n)

\* stop, poll_event, handle_corrupted_su and the calls of the user are such calls.
LEMMA UnmovedCalls ==
    ASSUME NEW l \in Links, Sound(link[l]),
           \/ Stop(l) \/ PollEvent(l) \/ HandleCorruptedSu(l)
           \/ \E busy \in BOOLEAN : LocalBusy(l, busy)
           \/ LocalProcessorOutage(l) \/ LocalProcessorRecovered(l)
    PROVE  \E n : Becomes(l, n) /\ Unmoved(link[l], n)
<1> DEFINE k == link[l]
<1>1. k \in Link
  BY DEF Sound, Steady
<1>2. CASE Stop(l)
  <2> DEFINE n == emit([stop_all_timers(k) EXCEPT !.active = FALSE, !.state = "OutOfService"],
                       OutOfService("Stopped"))
  <2>1. Becomes(l, n)
    BY <1>2 DEF Stop
  <2>2. n.tx = k.tx /\ n.rx = k.rx /\ n.state = "OutOfService"
    <3> HIDE DEF k
    <3> QED BY <1>1 DEF emit, stop_all_timers, Link
  <2> HIDE DEF n
  <2> QED BY <2>1, <2>2 DEF Unmoved, Keeps, Open, Apart, Traffic
<1>3. CASE PollEvent(l)
  <2> DEFINE n == [k EXCEPT !.events = Tail(@)]
  <2>1. Becomes(l, n)
    BY <1>3 DEF PollEvent
  <2>2. n.tx = k.tx /\ n.rx = k.rx /\ n.state = k.state
    BY <1>1 DEF Link
  <2> HIDE DEF n
  <2> QED BY <2>1, <2>2 DEF Unmoved, Keeps
<1>4. CASE \E busy \in BOOLEAN : LocalBusy(l, busy)
  <2>1. PICK busy \in BOOLEAN : Becomes(l, [k EXCEPT !.local_busy = busy])
    BY <1>4 DEF LocalBusy
  <2> DEFINE n == [k EXCEPT !.local_busy = busy]
  <2>2. n.tx = k.tx /\ n.rx = k.rx /\ n.state = k.state
    BY <1>1 DEF Link
  <2> HIDE DEF n
  <2> QED BY <2>1, <2>2 DEF Unmoved, Keeps, n
<1>5. CASE LocalProcessorOutage(l)
  <2> DEFINE o == [k EXCEPT !.local_processor_outage = TRUE]
  <2>1. o \in Link /\ o.tx = k.tx /\ o.rx = k.rx /\ o.state = k.state
    BY <1>1 DEF Link
  <2>2. \/ o.state = "InService" /\ Becomes(l, [o EXCEPT !.state = "ProcessorOutage"])
        \/ /\ o.state = "AlignedReady"
           /\ Becomes(l, [o EXCEPT !.state = "AlignedNotReady", !.timer["t1"] = Stopped])
        \/ Becomes(l, o)
    BY <1>5 DEF LocalProcessorOutage
  <2> HIDE DEF o, k
  <2>3. LET n == [o EXCEPT !.state = "ProcessorOutage"]
        IN  n.tx = k.tx /\ n.rx = k.rx /\ n.state = "ProcessorOutage"
    BY <2>1 DEF Link
  <2>4. LET n == [o EXCEPT !.state = "AlignedNotReady", !.timer["t1"] = Stopped]
        IN  n.tx = k.tx /\ n.rx = k.rx /\ n.state = "AlignedNotReady"
    BY <2>1 DEF Link
  <2> QED BY <2>1, <2>2, <2>3, <2>4 DEF Unmoved, Keeps, Open, Apart, Traffic, k
<1>6. CASE LocalProcessorRecovered(l)
  <2> DEFINE o == [k EXCEPT !.local_processor_outage = FALSE]
  <2>1. o \in Link /\ o.tx = k.tx /\ o.rx = k.rx /\ o.state = k.state
    BY <1>1 DEF Link
  <2>2. \/ o.state = "ProcessorOutage" /\ Becomes(l, [o EXCEPT !.state = "InService"])
        \/ o.state = "AlignedNotReady" /\ Becomes(l, enter_aligned_ready(o))
        \/ Becomes(l, o)
    BY <1>6 DEF LocalProcessorRecovered
  <2> HIDE DEF o, k
  <2>3. LET n == [o EXCEPT !.state = "InService"]
        IN  n.tx = k.tx /\ n.rx = k.rx /\ n.state = "InService"
    BY <2>1 DEF Link
  <2>4. LET n == enter_aligned_ready(o)
        IN  n.tx = k.tx /\ n.rx = k.rx /\ n.state = "AlignedReady"
    BY <2>1, QuietMoves DEF Quiet
  <2> QED BY <2>1, <2>2, <2>3, <2>4 DEF Unmoved, Keeps, Open, Apart, Traffic, k
<1>7. CASE HandleCorruptedSu(l)
  <2> DEFINE p == [k EXCEPT !.aerm = Aerm_record_error(@)]
             u == counted(k, TRUE)
  <2>1. p \in Link /\ p.tx = k.tx /\ p.rx = k.rx /\ p.state = k.state
    <3>1. Aerm_record_error(k.aerm) \in Aerm
      BY <1>1 DEF Link, Aerm_record_error, Aerm
    <3> QED BY <1>1, <3>1 DEF Link
  <2>2. u \in Link /\ u.tx = k.tx /\ u.rx = k.rx /\ u.state = k.state
    BY <1>1, Counted, QuietCounts DEF Steady, Quiet
  <2>3. \/ k.state = "Proving" /\ Becomes(l, proving_aborted(p))
        \/ Becomes(l, p)
        \/ Becomes(l, fail_out_of_service(u, "SuermFailure"))
        \/ Becomes(l, u)
    BY <1>7 DEF HandleCorruptedSu
  <2> HIDE DEF p, u, k
  <2>4. LET n == fail_out_of_service(u, "SuermFailure")
        IN  n.tx = k.tx /\ n.rx = k.rx /\ n.state = "OutOfService"
    BY <2>2, QuietFails DEF OutOfServiceReason, Quiet
  <2>5. LET n == proving_aborted(p)
        IN  n.tx = k.tx /\ n.rx = k.rx /\ n.state \in {"Aligned", "OutOfService"}
    <3>1. LET n == enter_aligned(p, "t4")
          IN  n.tx = k.tx /\ n.rx = k.rx /\ n.state = "Aligned"
      BY <2>1, QuietMoves DEF Quiet, Timer
    <3>2. LET n == fail_alignment(p, "AermTripped")
          IN  n.tx = k.tx /\ n.rx = k.rx /\ n.state = "OutOfService"
      BY <2>1, QuietFails DEF AlignmentFailure, Quiet
    <3> QED BY <3>1, <3>2 DEF proving_aborted
  <2> QED BY <2>1, <2>2, <2>3, <2>4, <2>5 DEF Unmoved, Keeps, Open, Apart, Traffic, k
<1> QED BY <1>2, <1>3, <1>4, <1>5, <1>6, <1>7

\* tick: T4 takes the link out of proving, and nothing else brings it nearer.
LEMMA TickMoves ==
    ASSUME NEW l \in Links, Sound(link[l]), Tick(l)
    PROVE  \E n : /\ Becomes(l, n) /\ n.tx = link[l].tx /\ n.rx = link[l].rx
                  /\ \/ Keeps(link[l], n)
                     \/ link[l].state = "Proving" /\ n.state \in Open
<1> DEFINE k == link[l]
<1>1. k \in Link
  BY DEF Sound, Steady
<1>2. ASSUME NEW f \in AlignmentFailure, Becomes(l, fail_alignment(k, f))
      PROVE  \E n : Becomes(l, n) /\ Unmoved(k, n)
  BY <1>1, <1>2, QuietFails DEF Unmoved, Keeps, Open, Apart, Traffic, Quiet
<1>3. ASSUME NEW r \in OutOfServiceReason, Becomes(l, fail_out_of_service(k, r))
      PROVE  \E n : Becomes(l, n) /\ Unmoved(k, n)
  BY <1>1, <1>3, QuietFails DEF Unmoved, Keeps, Open, Apart, Traffic, Quiet
<1>4. ASSUME NEW timers
      PROVE  LET s == step(k, timers)
             IN  s.tx = k.tx /\ s.rx = k.rx /\ s.state = k.state
  BY <1>1 DEF step, Link
<1>5. CASE acts(k, "t4") /\ Becomes(l, proving_succeeded(step(k, {"t2", "t3", "t4"})))
  <2> DEFINE s == step(k, {"t2", "t3", "t4"})
             b == [s EXCEPT !.timer["t4"] = Stopped]
             n == proving_succeeded(s)
  <2>1. k.state = "Proving"
    BY <1>5 DEF acts, guarded
  <2>2. s \in [DOMAIN s -> {s[x] : x \in DOMAIN s}] /\ DOMAIN s = DOMAIN k
        /\ DOMAIN k = {"config", "state", "active", "emergency", "local_processor_outage",
                       "remote_processor_outage", "local_busy", "remote_busy",
                       "proving_attempt", "tx", "rx", "aerm", "suerm", "timer", "events"}
    BY <1>1 DEF step, Link
  <2>3. n.tx = k.tx /\ n.rx = k.rx /\ n.state \in {"AlignedReady", "AlignedNotReady"}
    <3>1. n = IF s.local_processor_outage
              THEN [b EXCEPT !.state = "AlignedNotReady"]
              ELSE [b EXCEPT !.state = "AlignedReady",
                             !.timer["t1"] = b.config.t1_aligned_ready]
      BY DEF proving_succeeded, enter_aligned_ready
    <3>2. s.tx = k.tx /\ s.rx = k.rx
      BY <1>4
    <3> HIDE DEF n, s
    <3> QED BY <2>2, <3>1, <3>2
  <2> HIDE DEF n
  <2> QED BY <1>5, <2>1, <2>3 DEF Open, n
<1>6. CASE Becomes(l, step(k, Timer))
  BY <1>4, <1>6 DEF Keeps
<1> QED BY <1>2, <1>3, <1>5, <1>6 DEF Tick, AlignmentFailure, OutOfServiceReason, Unmoved

\* start
LEMMA StartMoves ==
    ASSUME NEW l \in Links, Sound(link[l]), Start(l)
    PROVE  \E n : /\ Becomes(l, n)
                  /\ link[l].state = "OutOfService" /\ n.state = "NotAligned"
                  /\ n.tx = TxControl_new(link[l].config.method) /\ n.tx \in TxControl
                  /\ n.rx = RxControl_new(link[l].config.method)
<1> DEFINE k == link[l]
           c == k.config
           n == [k EXCEPT
               !.active = TRUE, !.emergency = c.emergency,
               !.remote_processor_outage = FALSE, !.remote_busy = FALSE,
               !.local_busy = FALSE, !.proving_attempt = 0,
               !.tx = TxControl_new(c.method), !.rx = RxControl_new(c.method),
               !.suerm = Suerm_reset(@),
               !.aerm = Aerm_restart(c.aerm_threshold_normal),
               !.timer = [AllStopped EXCEPT !["t2"] = c.t2_not_aligned],
               !.state = "NotAligned"]
<1>1. Becomes(l, n) /\ k.state = "OutOfService"
  BY DEF Start
<1>2. k \in Link /\ c.method \in RetransmissionMethod
  BY DEF Sound, Steady, Link, Mtp2Config
<1>3. TxControl_new(c.method) \in TxControl
  BY <1>2, InitialTypes
<1> HIDE DEF k
<1>4. /\ n.state = "NotAligned" /\ n.tx = TxControl_new(c.method)
      /\ n.rx = RxControl_new(c.method)
  BY <1>2 DEF Link
<1> HIDE DEF n
<1> QED BY <1>1, <1>3, <1>4 DEF k

\* submit_msu
LEMMA SubmitMoves ==
    ASSUME NEW l \in Links, Sound(link[l]), NEW msu \in Msu, SubmitMsu(l, msu)
    PROVE  \E n : /\ Becomes(l, n)
                  /\ n.state = link[l].state /\ n.rx = link[l].rx
                  /\ n.tx = submit(link[l].tx, msu)
<1> DEFINE k == link[l]
           n == [k EXCEPT !.tx = submit(@, msu)]
<1>1. Becomes(l, n)
  BY DEF SubmitMsu
<1>2. n.state = k.state /\ n.rx = k.rx /\ n.tx = submit(k.tx, msu)
  BY DEF Sound, Steady, Link
<1> HIDE DEF n
<1> QED BY <1>1, <1>2

\* poll_transmit: only in service the error correction is asked, and only then
\* there are MSUs.  FISUs and MSUs are for a peer that may carry traffic, SIO, SIN
\* and SIE for one that aligns.
LEMMA PollTransmitMoves ==
    ASSUME NEW k, Sound(k)
    PROVE  LET n == poll_transmit(k).link
               su == poll_transmit(k).su
           IN  /\ n.state = k.state /\ n.rx = k.rx
               /\ su \in SignalUnit /\ su.bsn = k.rx.last_received
               /\ su.kind \in Aligning => k.state \notin Open
               /\ su.kind \in Carrying => k.state \in Open
               /\ \/ n.tx = k.tx /\ su.kind # "MSU"
                  \/ /\ k.state = "InService" /\ n.tx = poll(k.tx).tx
                     /\ su.kind = "MSU" => /\ su.fsn = poll(k.tx).frame.fsn
                                           /\ su.msu = poll(k.tx).frame.msu
<1> DEFINE asks == k.state = "InService" /\ ~holding(k)
           polled == IF asks THEN poll(k.tx) ELSE [tx |-> k.tx, frame |-> send_fisu(k.tx)]
           frame == polled.frame
           su == poll_transmit(k).su
           n == poll_transmit(k).link
<1>1. k \in Link /\ k.tx \in TxControl /\ k.rx \in RxControl
  BY DEF Sound, Steady, Link
<1>2. frame \in TxFrame /\ (~asks => frame.msu = Fisu)
  BY <1>1, PollCases DEF send_fisu, TxFrame, TxControl
<1>3. n.state = k.state /\ n.rx = k.rx /\ n.tx = polled.tx
  BY <1>1 DEF poll_transmit, Link
<1>4. /\ su.kind = outgoing_kind(k, frame.msu) /\ su.bsn = k.rx.last_received
      /\ su.fsn = frame.fsn /\ su.msu = frame.msu
      /\ su = [kind |-> outgoing_kind(k, frame.msu),
               bsn |-> k.rx.last_received, bib |-> k.rx.bib,
               fsn |-> frame.fsn, fib |-> frame.fib, msu |-> frame.msu]
  BY DEF poll_transmit
<1> HIDE DEF su, n
<1>5. /\ su.kind \in Aligning => k.state \notin Open
      /\ su.kind \in Carrying => k.state \in Open
      /\ su.kind \in StatusIndication \cup Carrying
      /\ su.kind = "MSU" <=> frame.msu # Fisu
  <2>1. k.state \in Mtp2State
    BY <1>1 DEF Link
  <2>2. k.state = "InService" /\ k.local_busy => ~asks
    BY DEF holding
  <2> HIDE DEF asks, polled, frame
  <2> QED BY <1>2, <1>4, <2>1, <2>2
          DEF outgoing_kind, Aligning, StatusIndication, Carrying, Open, Traffic, Mtp2State, asks
<1>6. su \in SignalUnit
  BY <1>1, <1>2, <1>4, <1>5 DEF SignalUnit, TxFrame, RxControl, Carrying
<1>7. CASE asks
  BY <1>3, <1>4, <1>5, <1>6, <1>7 DEF su, n
<1>8. CASE ~asks
  <2>1. n.tx = k.tx
    BY <1>3, <1>8
  <2>2. su.kind # "MSU"
    BY <1>2, <1>5, <1>8
  <2> QED BY <1>3, <1>4, <1>5, <1>6, <2>1, <2>2 DEF su, n
<1> QED BY <1>7, <1>8

\* One after the other.
LEMMA Concatenation ==
    ASSUME NEW s \in Seq(Msu), NEW t \in Seq(Msu)
    PROVE  /\ s \o t \in Seq(Msu) /\ Len(s \o t) = Len(s) + Len(t)
           /\ \A i \in 1 .. Len(s) : (s \o t)[i] = s[i]
           /\ \A i \in Len(s) + 1 .. Len(s) + Len(t) : (s \o t)[i] = t[i - Len(s)]
OBVIOUS

\* What a sender holds, sent or not, is what is not acknowledged, in order.
LEMMA NumberedHolds ==
    ASSUME NEW tx \in TxControl, NEW n \in Nat, NEW c \in Nat, Numbered(tx, n, c)
    PROVE  [i \in DOMAIN tx.unacked |-> tx.unacked[i].msu] \o tx.pending
             = [i \in 1 .. n - acked(tx, n) |-> acked(tx, n) + i]
<1> DEFINE a == acked(tx, n)
           buffered == [i \in DOMAIN tx.unacked |-> tx.unacked[i].msu]
           u == Len(tx.unacked)
           q == Len(tx.pending)
           all == buffered \o tx.pending
<1>1. /\ a \in Nat /\ u \in Nat /\ q \in Nat /\ sent(tx, n) = n - q /\ sent(tx, n) = a + u
      /\ DOMAIN tx.unacked = 1 .. u /\ DOMAIN tx.pending = 1 .. q
  BY NumberedCounts
<1>2. tx.unacked \in Seq(BufferedMsu) /\ tx.pending \in Seq(Msu)
  BY DEF TxControl
<1>3. /\ \A i \in 1 .. u : tx.unacked[i].msu = a + i
      /\ \A i \in 1 .. q : tx.pending[i] = sent(tx, n) + i
  BY <1>1 DEF Numbered
<1>4. buffered \in Seq(Msu) /\ Len(buffered) = u /\ \A i \in 1 .. u : buffered[i] = a + i
  <2>1. \A i \in 1 .. u : tx.unacked[i] \in BufferedMsu
    BY <1>1, <1>2
  <2>2. \A i \in 1 .. u : tx.unacked[i].msu \in Msu
    BY <2>1 DEF BufferedMsu
  <2>3. buffered \in [1 .. u -> Msu]
    BY <1>1, <2>2
  <2>4. \A i \in 1 .. u : buffered[i] = a + i
    BY <1>1, <1>3
  <2> HIDE DEF buffered, u
  <2> QED BY <1>1, <2>3, <2>4
<1> HIDE DEF buffered
<1>5. /\ all \in Seq(Msu) /\ Len(all) = u + q
      /\ \A i \in 1 .. u : all[i] = a + i
      /\ \A i \in u + 1 .. u + q : all[i] = tx.pending[i - u]
  <2>1. /\ all \in Seq(Msu) /\ Len(all) = Len(buffered) + q
        /\ \A i \in 1 .. Len(buffered) : all[i] = buffered[i]
        /\ \A i \in Len(buffered) + 1 .. Len(buffered) + q :
             all[i] = tx.pending[i - Len(buffered)]
    BY <1>2, <1>4, Concatenation
  <2> HIDE DEF all, u, q, a
  <2> QED BY <1>4, <2>1
<1> HIDE DEF all, u, q, a
<1>6. all = [i \in 1 .. u + q |-> all[i]]
  BY <1>1, <1>5
<1>7. \A i \in u + 1 .. u + q : all[i] = a + i
  <2> SUFFICES ASSUME NEW i \in u + 1 .. u + q PROVE all[i] = a + i
    OBVIOUS
  <2>1. i - u \in 1 .. q /\ a + u + (i - u) = a + i
    BY <1>1
  <2> QED BY <1>1, <1>3, <1>5, <2>1
<1>8. \A i \in 1 .. u + q : all[i] = a + i
  <2> SUFFICES ASSUME NEW i \in 1 .. u + q PROVE all[i] = a + i
    OBVIOUS
  <2>1. i \in 1 .. u \/ i \in u + 1 .. u + q
    BY <1>1
  <2> QED BY <1>5, <1>7, <2>1
<1>9. n - a = u + q
  BY <1>1
<1>10. all = [i \in 1 .. n - a |-> a + i]
  BY <1>6, <1>8, <1>9
<1> QED BY <1>10 DEF all, buffered, a

=============================================================================
