------------------------ MODULE ErrorCorrectionProofs ------------------------
(***************************************************************************)
(* Theorems about one direction of a link, for every sequence modulus, any *)
(* number of MSUs and a line of any length that loses anything.            *)
(***************************************************************************)
EXTENDS ErrorCorrection, RetransmissionProofs

(***************************************************************************)
(* Types.  A frame carries a count of MSUs, so that TypeOK needs the counts *)
(* to be natural numbers to be inductive.                                  *)
(***************************************************************************)
Counted == released \in Nat

\* A's queues by name: MSUs not yet numbered, MSUs kept for retransmission.
Pending == tx.pending
Buffer == tx.unacked
TypeInv == TypeOK /\ Counted

\* The initial controls and the empty line have their types.
LEMMA TypeInit == Init => TypeInv
<1> SUFFICES ASSUME Init PROVE TypeInv
  OBVIOUS
<1>1. tx \in TxControl /\ rx \in RxControl
  BY LineBounds, InitialTypes DEF Init
<1>2. /\ tx.method = method /\ rx.method = method
      /\ tx.pending = <<>> /\ tx.unacked = <<>>
  BY DEF Init, TxControl_new, RxControl_new
<1>3. /\ fwd \in Seq(Frame) /\ bwd \in Seq(Ack) /\ submitted \in 0 .. MaxMsu
      /\ delivered \in Seq(Msu) /\ lost \in 0 .. MaxLoss
  BY LineBounds DEF Init
<1>4. released \in Nat
  BY <1>2 DEF Init, released, sent
<1> QED BY <1>1, <1>2, <1>3, <1>4 DEF TypeInv, TypeOK, Counted

\* The head of the line is a signal unit and the rest of it still a line.
LEMMA LineTypes ==
    ASSUME TypeInv
    PROVE  /\ fwd # <<>> => Head(fwd) \in Frame /\ Tail(fwd) \in Seq(Frame)
           /\ bwd # <<>> => Head(bwd) \in Ack /\ Tail(bwd) \in Seq(Ack)
BY DEF TypeInv, TypeOK

\* The counts behind Counted.
LEMMA Counts ==
    ASSUME TypeInv
    PROVE  /\ Pending \in Seq(Msu) /\ Buffer \in Seq(BufferedMsu)
           /\ submitted \in Nat /\ Len(Pending) \in Nat /\ Len(Buffer) \in Nat
           /\ sent = submitted - Len(Pending) /\ sent \in Nat
           /\ released = sent - Len(Buffer) /\ released \in Nat
<1>1. Pending \in Seq(Msu) /\ Buffer \in Seq(BufferedMsu) /\ submitted \in Nat
  BY LineBounds DEF TypeInv, TypeOK, TxControl, Pending, Buffer
<1>2. sent = submitted - Len(Pending) /\ released = sent - Len(Buffer) /\ released \in Nat
  BY DEF TypeInv, Counted, released, sent, Pending, Buffer
<1>3. Len(Pending) \in Nat /\ Len(Buffer) \in Nat
  BY <1>1
<1> QED BY <1>1, <1>2, <1>3

\* ... and after a step.
LEMMA CountsAfter ==
    /\ sent' = submitted' - Len(Pending')
    /\ released' = sent' - Len(Buffer')
    /\ TypeInv' => sent' \in Nat /\ released' \in Nat
<1>1. /\ sent' = submitted' - Len(Pending')
      /\ released' = sent' - Len(Buffer')
  BY DEF released, sent, Pending, Buffer
<1>2. ASSUME TypeInv' PROVE sent' \in Nat /\ released' \in Nat
  <2>1. /\ Pending' \in Seq(Msu) /\ Buffer' \in Seq(BufferedMsu)
        /\ submitted' \in Nat /\ released' \in Nat
    BY <1>2, LineBounds DEF TypeInv, TypeOK, Counted, TxControl, Pending, Buffer
  <2>2. Len(Pending') \in Nat /\ Len(Buffer') \in Nat
    BY <2>1
  <2> QED BY <1>1, <2>1, <2>2
<1> QED BY <1>1, <1>2

\* A submitted MSU is neither sent nor released (submit appends to pending).
LEMMA CountsSubmit ==
    ASSUME TypeInv, submitted' = submitted + 1, Len(Pending') = Len(Pending) + 1,
           Buffer' = Buffer
    PROVE  sent' = sent /\ released' = released
<1>1. submitted \in Nat /\ Len(Pending) \in Nat
  BY Counts
<1>2. /\ sent = submitted - Len(Pending) /\ released = sent - Len(Buffer)
      /\ sent' = submitted' - Len(Pending') /\ released' = sent' - Len(Buffer')
  BY Counts, CountsAfter
<1>3. sent' = sent
  BY <1>1, <1>2
<1> QED BY <1>2, <1>3

\* An MSU that gets its FSN is sent and kept in the buffer.
LEMMA CountsNumber ==
    ASSUME TypeInv, UNCHANGED submitted, Len(Pending') = Len(Pending) - 1,
           Len(Buffer') = Len(Buffer) + 1
    PROVE  sent' = sent + 1 /\ released' = released
<1>1. submitted \in Nat /\ Len(Pending) \in Nat /\ Len(Buffer) \in Nat /\ sent \in Nat
  BY Counts
<1>2. /\ sent = submitted - Len(Pending) /\ released = sent - Len(Buffer)
      /\ sent' = submitted' - Len(Pending') /\ released' = sent' - Len(Buffer')
  BY Counts, CountsAfter
<1>3. sent' = sent + 1
  BY <1>1, <1>2
<1> QED BY <1>1, <1>2, <1>3

\* n MSUs dropped from the buffer are released.
LEMMA CountsFree ==
    ASSUME TypeInv, NEW n \in Nat, UNCHANGED <<submitted, Pending>>,
           Len(Buffer') = Len(Buffer) - n
    PROVE  sent' = sent /\ released' = released + n
<1>1. Len(Buffer) \in Nat /\ sent \in Nat
  BY Counts
<1>2. /\ sent = submitted - Len(Pending) /\ released = sent - Len(Buffer)
      /\ sent' = submitted' - Len(Pending') /\ released' = sent' - Len(Buffer')
  BY Counts, CountsAfter
<1>3. sent' = sent
  BY <1>2
<1> QED BY <1>1, <1>2, <1>3

\* ... and one that moves none of them.
LEMMA CountsSame ==
    ASSUME TypeInv, UNCHANGED <<submitted, Pending, Buffer>>
    PROVE  sent' = sent /\ released' = released
BY CountsAfter DEF sent, released, Pending, Buffer

\* Every step of the link keeps the types (all handlers of retransmission.rs,
\* with either method).
LEMMA TypeStep == TypeInv /\ [Next]_vars => TypeInv'
<1> SUFFICES ASSUME TypeInv, [Next]_vars PROVE TypeInv'
  OBVIOUS
<1>0. /\ tx \in TxControl /\ tx.method = method /\ rx \in RxControl /\ rx.method = method
      /\ fwd \in Seq(Frame) /\ bwd \in Seq(Ack)
      /\ submitted \in 0 .. MaxMsu /\ delivered \in Seq(Msu) /\ lost \in 0 .. MaxLoss
      /\ released \in Nat
  BY DEF TypeInv, TypeOK, Counted
<1>p. ASSUME /\ tx' \in TxControl /\ tx'.method = method
             /\ rx' \in RxControl /\ rx'.method = method
             /\ fwd' \in Seq(Frame) /\ bwd' \in Seq(Ack)
             /\ submitted' \in 0 .. MaxMsu /\ delivered' \in Seq(Msu)
             /\ lost' \in 0 .. MaxLoss /\ released' \in Nat
      PROVE  TypeInv'
  BY <1>p DEF TypeInv, TypeOK, Counted
<1>1. CASE Submit
  <2>1. submitted' = submitted + 1 /\ submitted' \in Msu /\ submitted' \in 0 .. MaxMsu
    BY <1>0, <1>1, LineBounds DEF Submit
  <2>2. tx' = [tx EXCEPT !.pending = Append(tx.pending, submitted')]
    BY <1>1 DEF Submit, submit
  <2>3. Append(Pending, submitted') \in Seq(Msu)
    BY <2>1, Counts
  <2>4. tx' \in TxControl /\ tx'.method = method
    BY <1>0, <2>2, <2>3 DEF TxControl, Pending
  <2>5. Pending' = Append(Pending, submitted') /\ Buffer' = Buffer
    BY <1>0, <2>2 DEF TxControl, Pending, Buffer
  <2>6. released' \in Nat
    <3>1. Len(Pending') = Len(Pending) + 1
      BY <2>1, <2>5, Counts
    <3> QED BY <1>0, <2>1, <2>5, <3>1, CountsSubmit
  <2>7. UNCHANGED <<rx, fwd, bwd, delivered, lost>>
    BY <1>1 DEF Submit
  <2> QED BY <1>0, <1>p, <2>1, <2>4, <2>6, <2>7
<1>2. CASE Transmit
  <2> DEFINE p == poll(tx)
             f == [fsn |-> p.frame.fsn, fib |-> p.frame.fib, msu |-> p.frame.msu,
                   top |-> submitted - Len(p.tx.pending)]
  <2>1. tx' = p.tx /\ fwd' = Append(fwd, f) /\ UNCHANGED <<rx, bwd, submitted, delivered, lost>>
    BY <1>2 DEF Transmit
  <2>2. tx' \in TxControl /\ tx'.method = tx.method /\ p.frame \in TxFrame
    BY <1>0, <2>1, PollCases
  <2>3. \/ /\ Pending # <<>> /\ Pending' = Tail(Pending)
           /\ \E b : Buffer' = Append(Buffer, b)
        \/ Pending' = Pending /\ Buffer' = Buffer
    BY <1>0, <2>1, PollCases DEF Pending, Buffer
  <2>4. released' = released /\ sent' \in Nat
    <3>1. CASE Pending' = Pending /\ Buffer' = Buffer
      BY <2>1, <3>1, CountsSame, CountsAfter, Counts
    <3>2. CASE Pending # <<>> /\ Pending' = Tail(Pending) /\ \E b : Buffer' = Append(Buffer, b)
      <4>1. Len(Pending') = Len(Pending) - 1 /\ Len(Pending) # 0
        BY <3>2, Counts
      <4>2. Len(Buffer') = Len(Buffer) + 1
        BY <3>2, Counts
      <4>3. submitted' = submitted
        BY <2>1
      <4>4. sent \in Nat /\ sent' = sent + 1 /\ released' = released
        BY <4>1, <4>2, <4>3, Counts, CountsNumber
      <4> QED BY <4>4
    <3> QED BY <2>3, <3>1, <3>2
  <2>5. submitted - Len(p.tx.pending) = sent'
    BY <2>1 DEF sent
  <2> HIDE DEF p
  <2>6. f \in Frame
    BY <2>2, <2>4, <2>5 DEF TxFrame, Frame
  <2> HIDE DEF f
  <2>7. fwd' \in Seq(Frame)
    BY <1>0, <2>1, <2>6
  <2> QED BY <1>0, <1>p, <2>1, <2>2, <2>4, <2>7
<1>3. CASE ReceiveFisu
  <2>1. fwd' \in Seq(Frame) /\ UNCHANGED <<tx, rx, bwd, submitted, delivered, lost>>
    BY <1>3, LineTypes DEF ReceiveFisu
  <2> QED BY <1>0, <1>p, <2>1 DEF released, sent
<1>4. CASE ReceiveMsu
  <2>1. fwd' \in Seq(Frame) /\ Head(fwd) \in Frame /\ Head(fwd).msu # Fisu
    BY <1>4, LineTypes DEF ReceiveMsu
  <2>2. Head(fwd).fsn \in SequenceNumber /\ Head(fwd).msu \in Msu
    BY <2>1 DEF Frame
  <2>3. rx' \in RxControl /\ rx'.method = rx.method
    BY <1>0, <1>4, <2>2, OnMsuCases DEF ReceiveMsu
  <2>4. delivered' \in Seq(Msu)
    BY <1>0, <1>4, <2>2 DEF ReceiveMsu
  <2>5. UNCHANGED <<tx, bwd, submitted, lost>>
    BY <1>4 DEF ReceiveMsu
  <2> QED BY <1>0, <1>p, <2>1, <2>3, <2>4, <2>5 DEF released, sent
<1>5. CASE Reply
  <2> DEFINE a == [bsn |-> rx.last_received, bib |-> rx.bib, upto |-> Len(delivered)]
  <2>1. a \in Ack
    BY <1>0 DEF Ack, RxControl
  <2>2. bwd' = Append(bwd, a) /\ UNCHANGED <<tx, rx, fwd, submitted, delivered, lost>>
    BY <1>5 DEF Reply
  <2> HIDE DEF a
  <2> QED BY <1>0, <1>p, <2>1, <2>2 DEF released, sent
<1>6. CASE ReceiveReply
  <2> DEFINE n == acknowledged(tx.unacked, Head(bwd).bsn)
  <2>1. Head(bwd).bsn \in SequenceNumber /\ Head(bwd).bib \in BOOLEAN /\ bwd' \in Seq(Ack)
    BY <1>6, LineTypes DEF ReceiveReply, Ack
  <2>2. tx' = on_ack(tx, Head(bwd).bsn, Head(bwd).bib)
    BY <1>6 DEF ReceiveReply
  <2>3. /\ tx' \in TxControl /\ tx'.method = tx.method /\ Pending' = Pending
        /\ Len(Buffer') = Len(Buffer) - n
    BY <1>0, <2>1, <2>2, OnAckCases DEF Pending, Buffer
  <2>4. n \in Nat
    BY <2>1, Counts, AcknowledgedRange DEF Buffer
  <2>5. UNCHANGED <<rx, fwd, submitted, delivered, lost>>
    BY <1>6 DEF ReceiveReply
  <2> HIDE DEF n
  <2>6. released' \in Nat
    BY <2>3, <2>4, <2>5, Counts, CountsAfter, SMTT(30)
  <2> QED BY <1>0, <1>p, <2>1, <2>3, <2>5, <2>6
<1>7. CASE LoseFrame
  <2>1. fwd' \in Seq(Frame) /\ UNCHANGED <<tx, rx, bwd, submitted, delivered>>
    BY <1>7, LineTypes DEF LoseFrame
  <2>2. lost' \in 0 .. MaxLoss
    BY <1>0, <1>7, LineBounds DEF LoseFrame
  <2> QED BY <1>0, <1>p, <2>1, <2>2 DEF released, sent
<1>8. CASE LoseReply
  <2>1. bwd' \in Seq(Ack) /\ UNCHANGED <<tx, rx, fwd, submitted, delivered>>
    BY <1>8, LineTypes DEF LoseReply
  <2>2. lost' \in 0 .. MaxLoss
    BY <1>0, <1>8, LineBounds DEF LoseReply
  <2> QED BY <1>0, <1>p, <2>1, <2>2 DEF released, sent
<1>9. CASE UNCHANGED vars
  BY <1>0, <1>p, <1>9 DEF vars, released, sent
<1> QED BY <1>1, <1>2, <1>3, <1>4, <1>5, <1>6, <1>7, <1>8, <1>9 DEF Next

\* Sequence numbers stay in the sequence space, cursors and counts stay natural
\* numbers, every signal unit on the line is well formed: with any modulus, any
\* method and thresholds, any loss.
THEOREM TypeCorrect == Spec => []TypeOK
<1>1. Spec => []TypeInv
  BY TypeInit, TypeStep, PTL DEF Spec
<1>2. TypeInv => TypeOK
  BY DEF TypeInv
<1> QED BY <1>1, <1>2, PTL

-----------------------------------------------------------------------------
(***************************************************************************)
(* Order.  The sequence space identifies MSUs only while less than the     *)
(* whole of it is in A's buffer.  on_msu and poll see to that themselves   *)
(* under PCR with N1 below the modulus, and leave it to the user otherwise. *)
(***************************************************************************)
SafeWindow == \/ Window < SEQ_MODULUS
              \/ method.name = "Pcr" /\ method.n1 < SEQ_MODULUS

\* A numbers the MSUs consecutively, in the order of submission, and keeps the
\* latest ones of those it has sent.
Numbered ==
    /\ tx.last_fsn = fsn_of(sent)
    /\ \A i \in DOMAIN Pending : Pending[i] = sent + i
    /\ \A i \in DOMAIN Buffer :
          Buffer[i].fsn = fsn_of(released + i) /\ Buffer[i].msu = released + i

\* The buffer is bounded by the user's window and by N1.
Bounded ==
    /\ submitted - released <= Window
    /\ method.name = "Pcr" => Len(Buffer) <= method.n1

\* B has the first so many MSUs, in order, and knows the FSN of the last.
Received == rx.last_received = fsn_of(Len(delivered)) /\ InOrder

\* A keeps what B does not have, and B has only what A sent.
Kept == released <= Len(delivered) /\ Len(delivered) <= sent

\* A frame was sent when B had no more than it has now (low), by an A that had
\* numbered no more than it has now (high).  Its MSU was then in the buffer.
Recent(f, low, high) ==
    /\ low <= f.top /\ f.top <= high
    /\ f.msu # Fisu => /\ f.fsn = fsn_of(f.msu)
                       /\ f.msu <= f.top /\ f.top + 2 <= f.msu + SEQ_MODULUS

RecentFrames(line, low, high) ==
    /\ \A i \in DOMAIN line : Recent(line[i], low, high)
    /\ \A i, j \in DOMAIN line : i <= j => line[i].top <= line[j].top

\* A reply names the last MSU B had then, and A has not freed beyond it (low).
RecentReplies(line, low, high) ==
    /\ \A i \in DOMAIN line : /\ line[i].bsn = fsn_of(line[i].upto)
                              /\ low <= line[i].upto /\ line[i].upto <= high
    /\ \A i, j \in DOMAIN line : i <= j => line[i].upto <= line[j].upto

OrderInv ==
    /\ TypeInv /\ Numbered /\ Bounded /\ Received /\ Kept
    /\ RecentFrames(fwd, Len(delivered), sent)
    /\ RecentReplies(bwd, released, Len(delivered))

\* A signal unit joins the line behind all the others.
LEMMA FramesAppend ==
    ASSUME NEW line \in Seq(Frame), NEW f \in Frame,
           NEW low \in Nat, NEW high \in Nat, NEW top \in Nat, high <= top,
           RecentFrames(line, low, high), Recent(f, low, top), f.top = top
    PROVE  RecentFrames(Append(line, f), low, top)
<1> DEFINE new == Append(line, f)
<1>1. /\ \A i \in DOMAIN new :
            \/ i \in DOMAIN line /\ new[i] = line[i]
            \/ i = Len(line) + 1 /\ new[i] = f
      /\ DOMAIN new = 1 .. Len(line) + 1 /\ DOMAIN line = 1 .. Len(line) /\ Len(line) \in Nat
  OBVIOUS
<1>2. \A i \in DOMAIN line : line[i].top \in Nat /\ line[i].top <= high /\ Recent(line[i], low, top)
  <2> SUFFICES ASSUME NEW i \in DOMAIN line
               PROVE  line[i].top \in Nat /\ line[i].top <= high /\ Recent(line[i], low, top)
    OBVIOUS
  <2>1. line[i] \in Frame /\ Recent(line[i], low, high)
    BY DEF RecentFrames
  <2> DEFINE g == line[i]
  <2> HIDE DEF g
  <2>2. g \in Frame /\ Recent(g, low, high) => g.top \in Nat /\ g.top <= high /\ Recent(g, low, top)
    BY DEF Recent, Frame
  <2> QED BY <2>1, <2>2 DEF g
<1> HIDE DEF new
<1>3. \A i \in DOMAIN new : Recent(new[i], low, top) /\ new[i].top \in Nat /\ new[i].top <= top
  <2> SUFFICES ASSUME NEW i \in DOMAIN new
               PROVE  Recent(new[i], low, top) /\ new[i].top \in Nat /\ new[i].top <= top
    OBVIOUS
  <2>1. CASE new[i] = f
    BY <2>1
  <2>2. CASE i \in DOMAIN line /\ new[i] = line[i]
    <3> DEFINE t == line[i].top
    <3>1. t \in Nat /\ t <= high /\ new[i].top = t /\ Recent(new[i], low, top)
      BY <1>2, <2>2
    <3> HIDE DEF t
    <3> QED BY <3>1
  <2> QED BY <1>1, <2>1, <2>2
<1>4. ASSUME NEW i \in DOMAIN new, NEW j \in DOMAIN new, i <= j
      PROVE  new[i].top <= new[j].top
  <2>1. CASE j = Len(line) + 1
    BY <1>1, <1>3, <2>1
  <2>2. CASE j # Len(line) + 1
    BY <1>1, <1>4, <2>2 DEF RecentFrames
  <2> QED BY <2>1, <2>2
<1> QED BY <1>3, <1>4 DEF RecentFrames, new

\* The head of the line leaves it, and B has come no further than its count.
LEMMA FramesTail ==
    ASSUME NEW line \in Seq(Frame), line # <<>>,
           NEW low \in Nat, NEW new \in Nat, NEW high \in Nat,
           RecentFrames(line, low, high), new <= Head(line).top
    PROVE  RecentFrames(Tail(line), new, high)
<1> DEFINE rest == Tail(line)
<1>1. \A i \in DOMAIN rest : i + 1 \in DOMAIN line /\ rest[i] = line[i + 1] /\ i \in Nat
  OBVIOUS
<1>2. 1 \in DOMAIN line /\ Head(line) = line[1] /\ \A i \in DOMAIN line : i >= 1 /\ line[i] \in Frame
  OBVIOUS
<1> HIDE DEF rest
<1>3. ASSUME NEW i \in DOMAIN rest PROVE Recent(rest[i], new, high)
  <2> DEFINE g == rest[i]
             h == line[1]
  <2>1. g \in Frame /\ h \in Frame /\ Recent(g, low, high)
    BY <1>1, <1>2, <1>3 DEF RecentFrames
  <2>2. h.top <= g.top /\ new <= h.top
    BY <1>1, <1>2, <1>3 DEF RecentFrames
  <2> HIDE DEF g, h
  <2>3. Recent(g, new, high)
    BY <2>1, <2>2 DEF Recent, Frame
  <2> QED BY <2>3 DEF g
<1>4. ASSUME NEW i \in DOMAIN rest, NEW j \in DOMAIN rest, i <= j
      PROVE  rest[i].top <= rest[j].top
  BY <1>1, <1>4 DEF RecentFrames
<1> QED BY <1>3, <1>4 DEF RecentFrames, rest

\* A reply joins the line behind all the others.
LEMMA RepliesAppend ==
    ASSUME NEW line \in Seq(Ack), NEW a \in Ack, NEW low \in Nat, NEW high \in Nat,
           RecentReplies(line, low, high), low <= high,
           a.upto = high, a.bsn = fsn_of(high)
    PROVE  RecentReplies(Append(line, a), low, high)
<1> DEFINE new == Append(line, a)
<1>1. /\ \A i \in DOMAIN new :
            \/ i \in DOMAIN line /\ new[i] = line[i]
            \/ i = Len(line) + 1 /\ new[i] = a
      /\ DOMAIN new = 1 .. Len(line) + 1 /\ DOMAIN line = 1 .. Len(line) /\ Len(line) \in Nat
  OBVIOUS
<1> HIDE DEF new
<1>2. \A i \in DOMAIN new : /\ new[i].bsn = fsn_of(new[i].upto)
                            /\ low <= new[i].upto /\ new[i].upto <= high
  BY <1>1 DEF RecentReplies
<1>3. ASSUME NEW i \in DOMAIN new, NEW j \in DOMAIN new, i <= j
      PROVE  new[i].upto <= new[j].upto
  <2>1. CASE j = Len(line) + 1
    BY <1>1, <1>2, <2>1
  <2>2. CASE j # Len(line) + 1
    BY <1>1, <1>3, <2>2 DEF RecentReplies
  <2> QED BY <2>1, <2>2
<1> QED BY <1>2, <1>3 DEF RecentReplies, new

\* The head of the replies leaves the line, and A has freed nothing beyond it.
LEMMA RepliesTail ==
    ASSUME NEW line \in Seq(Ack), line # <<>>,
           NEW low \in Nat, NEW new \in Nat, NEW high \in Nat,
           RecentReplies(line, low, high), new <= Head(line).upto
    PROVE  RecentReplies(Tail(line), new, high)
<1> DEFINE rest == Tail(line)
<1>1. \A i \in DOMAIN rest : i + 1 \in DOMAIN line /\ rest[i] = line[i + 1] /\ i \in Nat
  OBVIOUS
<1>2. 1 \in DOMAIN line /\ Head(line) = line[1] /\ \A i \in DOMAIN line : i >= 1 /\ line[i] \in Ack
  OBVIOUS
<1> HIDE DEF rest
<1>3. ASSUME NEW i \in DOMAIN rest
      PROVE  /\ rest[i].bsn = fsn_of(rest[i].upto)
             /\ new <= rest[i].upto /\ rest[i].upto <= high
  <2> DEFINE g == rest[i]
             h == line[1]
  <2>1. g \in Ack /\ h \in Ack /\ g.bsn = fsn_of(g.upto) /\ g.upto <= high
    BY <1>1, <1>2, <1>3 DEF RecentReplies
  <2>2. h.upto <= g.upto /\ new <= h.upto
    BY <1>1, <1>2, <1>3 DEF RecentReplies
  <2> HIDE DEF g, h
  <2>3. new <= g.upto
    BY <2>1, <2>2 DEF Ack
  <2> QED BY <2>1, <2>3 DEF g
<1>4. ASSUME NEW i \in DOMAIN rest, NEW j \in DOMAIN rest, i <= j
      PROVE  rest[i].upto <= rest[j].upto
  BY <1>1, <1>4 DEF RecentReplies
<1> QED BY <1>3, <1>4 DEF RecentReplies, rest

\* More is delivered than when the replies were sent.
LEMMA RepliesWiden ==
    ASSUME NEW line \in Seq(Ack), NEW low \in Nat, NEW high \in Nat, NEW more \in Nat,
           RecentReplies(line, low, high), high <= more
    PROVE  RecentReplies(line, low, more)
<1> SUFFICES ASSUME NEW i \in DOMAIN line PROVE line[i].upto <= more
  BY DEF RecentReplies
<1> DEFINE u == line[i].upto
<1>1. u <= high /\ u \in Nat
  <2>1. line[i] \in Ack
    OBVIOUS
  <2> QED BY <2>1 DEF RecentReplies, Ack
<1> HIDE DEF u
<1>2. u <= more
  BY <1>1
<1> QED BY <1>2 DEF u

\* The types and counts behind the invariant.
LEMMA OrderFacts ==
    ASSUME OrderInv
    PROVE  /\ tx \in TxControl /\ tx.method = method /\ rx \in RxControl
           /\ fwd \in Seq(Frame) /\ bwd \in Seq(Ack) /\ delivered \in Seq(Msu)
           /\ Len(delivered) \in Nat /\ released <= Len(delivered) /\ Len(delivered) <= sent
           /\ sent \in Nat /\ released \in Nat
BY Counts DEF OrderInv, TypeInv, TypeOK, Kept

\* Less than the sequence space is in the buffer.
LEMMA BufferSmall ==
    ASSUME SafeWindow, OrderInv
    PROVE  Len(Buffer) < SEQ_MODULUS
<1>1. CASE Window < SEQ_MODULUS
  <2>1. /\ Len(Buffer) \in Nat /\ Len(Pending) \in Nat /\ submitted \in Nat /\ sent \in Nat
        /\ sent = submitted - Len(Pending) /\ released = sent - Len(Buffer)
    BY Counts DEF OrderInv
  <2>2. submitted - released <= Window /\ Window \in Nat /\ SEQ_MODULUS \in Nat
    BY LineBounds, SequenceSpace DEF OrderInv, Bounded
  <2> QED BY <1>1, <2>1, <2>2
<1>2. CASE method.name = "Pcr" /\ method.n1 < SEQ_MODULUS
  <2>1. Len(Buffer) <= method.n1 /\ method.n1 \in Nat
    BY <1>2, LineBounds DEF OrderInv, Bounded, RetransmissionMethod, Basic
  <2> DEFINE n1 == method.n1
  <2> HIDE DEF n1
  <2>2. Len(Buffer) <= n1 /\ n1 \in Nat /\ n1 < SEQ_MODULUS
    BY <1>2, <2>1 DEF n1
  <2> QED BY <2>2, Counts, SequenceSpace DEF OrderInv
<1> QED BY <1>1, <1>2 DEF SafeWindow

\* The order holds of the empty link.
LEMMA OrderInit == Init => OrderInv
<1> SUFFICES ASSUME Init PROVE OrderInv
  OBVIOUS
<1>1. TypeInv
  BY TypeInit
<1>2. /\ Pending = <<>> /\ Buffer = <<>> /\ tx.last_fsn = SEQ_MODULUS - 1
      /\ rx.last_received = SEQ_MODULUS - 1
  BY DEF Init, TxControl_new, RxControl_new, Pending, Buffer
<1>3. submitted = 0 /\ delivered = <<>> /\ fwd = <<>> /\ bwd = <<>>
  BY DEF Init
<1>4. sent = 0 /\ released = 0 /\ Len(delivered) = 0
  <2>1. Len(Pending) = 0 /\ Len(Buffer) = 0 /\ Len(delivered) = 0
    BY <1>2, <1>3
  <2> QED BY <1>1, <1>3, <2>1, Counts
<1>5. fsn_of(0) = SEQ_MODULUS - 1
  <2>1. fsn_of(0) = (SEQ_MODULUS * 0 + (SEQ_MODULUS - 1)) % SEQ_MODULUS
    BY SequenceSpace DEF fsn_of
  <2>2. SEQ_MODULUS - 1 \in SequenceNumber
    BY SequenceSpace DEF SequenceNumber
  <2> QED BY <2>1, <2>2, Residue
<1>6. Numbered
  BY <1>2, <1>4, <1>5 DEF Numbered
<1>7. Bounded
  <2>1. method.name = "Pcr" => method.n1 \in Nat
    BY LineBounds DEF RetransmissionMethod, Basic
  <2>2. Len(Buffer) = 0
    BY <1>2
  <2> DEFINE n1 == method.n1
  <2> HIDE DEF n1
  <2>3. method.name = "Pcr" => Len(Buffer) <= n1
    BY <2>1, <2>2 DEF n1
  <2> QED BY <1>3, <1>4, <2>3, LineBounds DEF Bounded, n1
<1>8. Received /\ Kept
  BY <1>2, <1>3, <1>4, <1>5 DEF Received, InOrder, Kept
<1>9. RecentFrames(fwd, Len(delivered), sent) /\ RecentReplies(bwd, released, Len(delivered))
  BY <1>3 DEF RecentFrames, RecentReplies
<1> QED BY <1>1, <1>6, <1>7, <1>8, <1>9 DEF OrderInv

\* A new MSU goes to the end of the queue.
LEMMA OrderSubmit ==
    ASSUME OrderInv, TypeInv', Submit
    PROVE  OrderInv'
<1>1. /\ submitted' = submitted + 1 /\ submitted - released < Window
      /\ tx' = [tx EXCEPT !.pending = Append(tx.pending, submitted')]
      /\ UNCHANGED <<rx, fwd, bwd, delivered, lost>>
  BY DEF Submit, submit
<1>2. TypeInv
  BY DEF OrderInv
<1>3. /\ Pending' = Append(Pending, submitted') /\ Buffer' = Buffer
      /\ tx'.last_fsn = tx.last_fsn
  BY <1>1, OrderFacts DEF TxControl, Pending, Buffer
<1>4. sent' = sent /\ released' = released
  BY <1>1, <1>2, <1>3, Counts, CountsAfter
<1>5. \A i \in DOMAIN Pending' : Pending'[i] = sent' + i
  <2>1. submitted' = sent + (Len(Pending) + 1)
    BY <1>1, <1>2, Counts
  <2>2. \A i \in DOMAIN Pending : Pending[i] = sent + i
    BY DEF OrderInv, Numbered
  <2>3. Pending \in Seq(Msu)
    BY <1>2, Counts
  <2>4. ASSUME NEW i \in DOMAIN Pending'
        PROVE  \/ i \in DOMAIN Pending /\ Pending'[i] = Pending[i]
               \/ i = Len(Pending) + 1 /\ Pending'[i] = submitted'
    BY <1>3, <2>3
  <2> QED BY <1>4, <2>1, <2>2, <2>4
<1>6. Numbered'
  BY <1>3, <1>4, <1>5 DEF OrderInv, Numbered
<1>7. Bounded'
  <2>1. submitted' - released' <= Window
    <3>1. submitted \in Nat /\ released \in Nat /\ Window \in Nat
      BY <1>2, Counts, LineBounds
    <3>2. submitted' = submitted + 1 /\ released' = released /\ submitted - released < Window
      BY <1>1, <1>4
    <3> QED BY <3>1, <3>2
  <2>2. method.name = "Pcr" => Len(Buffer') <= method.n1
    BY <1>3 DEF OrderInv, Bounded
  <2> QED BY <2>1, <2>2 DEF Bounded
<1>8. Received' /\ Kept'
  BY <1>1, <1>4 DEF OrderInv, Received, InOrder, Kept
<1>9. /\ RecentFrames(fwd, Len(delivered), sent)'
      /\ RecentReplies(bwd, released, Len(delivered))'
  BY <1>1, <1>4 DEF OrderInv
<1> QED BY <1>6, <1>7, <1>8, <1>9 DEF OrderInv


\* A sends: a new MSU, or one from the buffer again, or a FISU.
LEMMA OrderTransmit ==
    ASSUME SafeWindow, OrderInv, TypeInv', Transmit
    PROVE  OrderInv'
<1> DEFINE p == poll(tx)
           f == [fsn |-> p.frame.fsn, fib |-> p.frame.fib, msu |-> p.frame.msu,
                 top |-> submitted - Len(p.tx.pending)]
           b == [fsn |-> seq_add(tx.last_fsn, 1), msu |-> Head(tx.pending)]
<1>1. /\ tx' = p.tx /\ fwd' = Append(fwd, f)
      /\ UNCHANGED <<rx, bwd, submitted, delivered, lost>>
  BY DEF Transmit
<1>2. TypeInv
  BY DEF OrderInv
<1>3. \/ /\ Pending # <<>>
         /\ method.name = "Pcr" => Len(Buffer) < method.n1
         /\ p.frame.fsn = seq_add(tx.last_fsn, 1) /\ p.frame.msu = Head(Pending)
         /\ Pending' = Tail(Pending)
         /\ tx'.last_fsn = seq_add(tx.last_fsn, 1)
         /\ Buffer' = Append(Buffer, b)
      \/ /\ Pending' = Pending /\ tx'.last_fsn = tx.last_fsn /\ Buffer' = Buffer
         /\ \/ p.frame.msu = Fisu
            \/ \E i \in DOMAIN Buffer :
                  p.frame.fsn = Buffer[i].fsn /\ p.frame.msu = Buffer[i].msu
  BY <1>1, OrderFacts, PollCases DEF Pending, Buffer
<1>4. f.fsn = p.frame.fsn /\ f.msu = p.frame.msu /\ f.top = sent'
  BY <1>1 DEF sent
<1>5. p.frame \in TxFrame
  BY OrderFacts, PollCases
<1>6. sent' \in Nat /\ released' \in Nat
  BY CountsAfter
<1>7. f \in Frame
  BY <1>4, <1>5, <1>6 DEF TxFrame, Frame
<1> HIDE DEF p, f
<1>8. ASSUME released' = released, sent <= sent', Numbered', Bounded',
             Recent(f, Len(delivered), sent')
      PROVE  OrderInv'
  <2>1. RecentFrames(fwd', Len(delivered), sent')
    BY <1>1, <1>4, <1>6, <1>7, <1>8, OrderFacts, FramesAppend DEF OrderInv
  <2>2. Received'
    BY <1>1 DEF OrderInv, Received, InOrder
  <2>3. Kept'
    BY <1>1, <1>6, <1>8, OrderFacts DEF Kept
  <2>4. RecentReplies(bwd', released', Len(delivered'))
    BY <1>1, <1>8 DEF OrderInv
  <2> QED BY <1>1, <1>8, <2>1, <2>2, <2>3, <2>4 DEF OrderInv
<1>9. CASE /\ Pending # <<>>
           /\ method.name = "Pcr" => Len(Buffer) < method.n1
           /\ p.frame.fsn = seq_add(tx.last_fsn, 1) /\ p.frame.msu = Head(Pending)
           /\ Pending' = Tail(Pending)
           /\ tx'.last_fsn = seq_add(tx.last_fsn, 1)
           /\ Buffer' = Append(Buffer, b)
  <2>1. /\ Len(Pending') = Len(Pending) - 1 /\ Len(Pending) # 0
        /\ Len(Buffer') = Len(Buffer) + 1
    BY <1>2, <1>9, Counts
  <2>2. sent' = sent + 1 /\ released' = released
    BY <1>1, <1>2, <2>1, CountsNumber
  <2>3. seq_add(tx.last_fsn, 1) = fsn_of(sent + 1)
    BY OrderFacts, FsnNext DEF OrderInv, Numbered
  <2>4. Head(Pending) = sent + 1
    BY <1>2, <1>9, Counts DEF OrderInv, Numbered
  <2>5. \A i \in DOMAIN Pending' : Pending'[i] = sent' + i
    <3>1. \A i \in DOMAIN Pending' : i + 1 \in DOMAIN Pending /\ Pending'[i] = Pending[i + 1] /\ i \in Nat
      BY <1>2, <1>9, Counts
    <3>2. \A i \in DOMAIN Pending : Pending[i] = sent + i
      BY DEF OrderInv, Numbered
    <3> QED BY <1>2, <2>2, <3>1, <3>2, Counts
  <2>6. \A i \in DOMAIN Buffer' :
          Buffer'[i].fsn = fsn_of(released' + i) /\ Buffer'[i].msu = released' + i
    <3>1. \A i \in DOMAIN Buffer' : \/ i \in DOMAIN Buffer /\ Buffer'[i] = Buffer[i]
                                    \/ i = Len(Buffer) + 1 /\ Buffer'[i] = b
      BY <1>2, <1>9, Counts
    <3>2. \A i \in DOMAIN Buffer :
            Buffer[i].fsn = fsn_of(released + i) /\ Buffer[i].msu = released + i
      BY DEF OrderInv, Numbered
    <3>3. released + (Len(Buffer) + 1) = sent + 1
      BY <1>2, Counts
    <3>4. b.fsn = fsn_of(sent + 1) /\ b.msu = sent + 1
      BY <2>3, <2>4 DEF Pending
    <3> HIDE DEF b
    <3> SUFFICES ASSUME NEW i \in DOMAIN Buffer'
                 PROVE  Buffer'[i].fsn = fsn_of(released + i) /\ Buffer'[i].msu = released + i
      BY <2>2
    <3>5. CASE i \in DOMAIN Buffer /\ Buffer'[i] = Buffer[i]
      BY <3>2, <3>5
    <3>6. CASE i = Len(Buffer) + 1 /\ Buffer'[i] = b
      BY <3>3, <3>4, <3>6
    <3> QED BY <3>1, <3>5, <3>6
  <2>7. Numbered'
    BY <1>9, <2>2, <2>3, <2>5, <2>6 DEF Numbered
  <2>8. Bounded'
    <3>1. submitted' - released' <= Window
      BY <1>1, <2>2 DEF OrderInv, Bounded
    <3>2. ASSUME method.name = "Pcr" PROVE Len(Buffer') <= method.n1
      <4>1. method.n1 \in Nat /\ Len(Buffer) < method.n1
        BY <1>9, <3>2, LineBounds DEF RetransmissionMethod, Basic
      <4> DEFINE n1 == method.n1
      <4>2. n1 \in Nat /\ Len(Buffer) < n1
        BY <4>1
      <4> HIDE DEF n1
      <4>3. Len(Buffer') <= n1
        BY <1>2, <2>1, <4>2, Counts
      <4> QED BY <4>3 DEF n1
    <3> QED BY <3>1, <3>2 DEF Bounded
  <2>9. Recent(f, Len(delivered), sent')
    BY <1>4, <1>9, <2>2, <2>3, <2>4, OrderFacts, SequenceSpace DEF Recent
  <2> QED BY <1>8, <2>2, <2>7, <2>8, <2>9, OrderFacts
<1>10. CASE /\ Pending' = Pending /\ tx'.last_fsn = tx.last_fsn /\ Buffer' = Buffer
            /\ \/ p.frame.msu = Fisu
               \/ \E i \in DOMAIN Buffer :
                     p.frame.fsn = Buffer[i].fsn /\ p.frame.msu = Buffer[i].msu
  <2>1. sent' = sent /\ released' = released
    BY <1>1, <1>2, <1>10, CountsSame
  <2>2. Numbered' /\ Bounded'
    BY <1>1, <1>10, <2>1 DEF OrderInv, Numbered, Bounded
  <2>3. Recent(f, Len(delivered), sent)
    <3>1. CASE p.frame.msu = Fisu
      BY <1>4, <2>1, <3>1, OrderFacts DEF Recent
    <3>2. ASSUME NEW i \in DOMAIN Buffer,
                 p.frame.fsn = Buffer[i].fsn, p.frame.msu = Buffer[i].msu
          PROVE  Recent(f, Len(delivered), sent)
      <4>1. f.fsn = fsn_of(released + i) /\ f.msu = released + i /\ f.top = sent
        BY <1>4, <2>1, <3>2 DEF OrderInv, Numbered
      <4>2. i \in 1 .. Len(Buffer)
        BY <1>2, Counts
      <4>3. released + i <= sent /\ sent + 2 <= released + i + SEQ_MODULUS
        <5>1. /\ i \in Nat /\ Len(Buffer) \in Nat /\ released \in Nat /\ sent \in Nat
              /\ released = sent - Len(Buffer)
          BY <1>2, <4>2, Counts
        <5>2. 1 <= i /\ i <= Len(Buffer) /\ Len(Buffer) < SEQ_MODULUS /\ SEQ_MODULUS \in Nat
          BY <4>2, BufferSmall, SequenceSpace
        <5> QED BY <5>1, <5>2
      <4> QED BY <4>1, <4>3, OrderFacts DEF Recent
    <3> QED BY <1>10, <3>1, <3>2
  <2> QED BY <1>8, <2>1, <2>2, <2>3, OrderFacts
<1> QED BY <1>3, <1>9, <1>10


\* B accepts exactly the MSU after the last one it has: the FSNs of the MSUs
\* that can be on the line tell it from all the others.
LEMMA AcceptedIsNext ==
    ASSUME SafeWindow, OrderInv, fwd # <<>>, Head(fwd).msu # Fisu,
           seq_forward(Head(fwd).fsn, rx.last_received) = 1
    PROVE  Head(fwd).msu = Len(delivered) + 1 /\ Len(delivered) + 1 <= Head(fwd).top
<1> DEFINE h == Head(fwd)
<1>1. h \in Frame /\ Recent(h, Len(delivered), sent)
  BY OrderFacts DEF OrderInv, RecentFrames
<1>2. h.msu \in Nat /\ h.top \in Nat /\ h.msu # Fisu
  BY <1>1, MsuSizes DEF Frame, Fisu
<1>3. /\ Len(delivered) <= h.top /\ h.top <= sent /\ h.fsn = fsn_of(h.msu)
      /\ h.msu <= h.top /\ h.top + 2 <= h.msu + SEQ_MODULUS
  BY <1>1, <1>2 DEF Recent
<1>4. rx.last_received = fsn_of(Len(delivered))
  BY DEF OrderInv, Received
<1> DEFINE n == Len(delivered)
           m == h.msu
           t == h.top
<1>5. n \in Nat /\ m \in Nat /\ t \in Nat
  BY <1>2, OrderFacts
<1>6. n <= t /\ t <= sent /\ m <= t /\ t + 2 <= m + SEQ_MODULUS /\ released <= n
  BY <1>3, OrderFacts
<1>7. seq_forward(fsn_of(m), fsn_of(n)) = 1
  BY <1>3, <1>4
<1> HIDE DEF n, m, t
<1>8. sent < n + SEQ_MODULUS
  <2>1. TypeInv
    BY DEF OrderInv
  <2> QED BY <1>5, <1>6, <2>1, BufferSmall, Counts, SequenceSpace
<1>9. m = n + 1
  <2>1. CASE m >= n
    <3>1. m - n \in SequenceNumber
      BY <1>5, <1>6, <1>8, <2>1, OrderFacts, SequenceSpace DEF SequenceNumber
    <3>2. seq_forward(fsn_of(m), fsn_of(n)) = m - n
      BY <1>5, <3>1, FsnDistance
    <3> QED BY <1>5, <1>7, <3>2
  <2>2. CASE m < n
    <3>1. m - n + SEQ_MODULUS \in 2 .. SEQ_MODULUS - 1
      BY <1>5, <1>6, <2>2, SequenceSpace
    <3>2. seq_forward(fsn_of(m), fsn_of(n)) = m - n + SEQ_MODULUS
      <4> DEFINE d == m - n + SEQ_MODULUS
      <4>1. d \in SequenceNumber
        BY <3>1, SequenceSpace DEF SequenceNumber
      <4>2. m - n = d - SEQ_MODULUS
        BY <1>5, SequenceSpace
      <4> HIDE DEF d
      <4>3. seq_forward(fsn_of(m), fsn_of(n)) = d
        BY <1>5, <4>1, <4>2, FsnDistance
      <4> QED BY <4>3 DEF d
    <3> QED BY <1>7, <3>1, <3>2, SequenceSpace
  <2> QED BY <1>5, <2>1, <2>2
<1> QED BY <1>5, <1>6, <1>9 DEF n, m, t

\* B receives an MSU, accepts it or not.
LEMMA OrderReceiveMsu ==
    ASSUME SafeWindow, OrderInv, TypeInv', ReceiveMsu
    PROVE  OrderInv'
<1> DEFINE h == Head(fwd)
<1>1. /\ fwd # <<>> /\ h.msu # Fisu /\ fwd' = Tail(fwd)
      /\ UNCHANGED <<tx, bwd, submitted, lost>>
  BY DEF ReceiveMsu
<1>2. sent' = sent /\ released' = released /\ Pending' = Pending /\ Buffer' = Buffer
  BY <1>1 DEF sent, released, Pending, Buffer
<1>3. Numbered' /\ Bounded'
  BY <1>1, <1>2 DEF OrderInv, Numbered, Bounded
<1>4. h \in Frame /\ Recent(h, Len(delivered), sent)
  BY <1>1, OrderFacts DEF OrderInv, RecentFrames
<1>5. h.top \in Nat /\ Len(delivered) <= h.top /\ h.top <= sent /\ h.fsn \in SequenceNumber
  BY <1>4 DEF Recent, Frame
<1>6. ASSUME Len(delivered') \in Nat, Len(delivered) <= Len(delivered'),
             Len(delivered') <= h.top, Received'
      PROVE  OrderInv'
  <2> DEFINE t == h.top
             n == Len(delivered')
  <2>1. n \in Nat /\ t \in Nat /\ n <= t /\ t <= sent /\ Len(delivered) <= n
    BY <1>5, <1>6
  <2>2. RecentFrames(Tail(fwd), n, sent)
    BY <1>1, <2>1, OrderFacts, FramesTail DEF OrderInv
  <2>3. RecentReplies(bwd, released, n)
    BY <2>1, OrderFacts, RepliesWiden DEF OrderInv
  <2>4. released <= n /\ n <= sent
    <3> HIDE DEF t, n
    <3> QED BY <2>1, OrderFacts
  <2>5. Kept'
    BY <1>2, <2>4 DEF Kept
  <2> QED BY <1>1, <1>2, <1>3, <1>6, <2>2, <2>3, <2>5 DEF OrderInv
<1>7. CASE on_msu(rx, h.fsn).outcome = "Accepted"
  <2>1. delivered' = Append(delivered, h.msu) /\ rx'.last_received = h.fsn
    BY <1>5, <1>7, OrderFacts, OnMsuCases DEF ReceiveMsu
  <2>2. seq_forward(h.fsn, rx.last_received) = 1
    BY <1>5, <1>7, OrderFacts, OnMsuCases
  <2>3. h.msu = Len(delivered) + 1 /\ Len(delivered) + 1 <= h.top
    BY <1>1, <2>2, AcceptedIsNext
  <2>4. Len(delivered') = Len(delivered) + 1
    BY <2>1, OrderFacts
  <2>5. h.fsn = fsn_of(Len(delivered) + 1)
    BY <1>1, <1>4, <2>3 DEF Recent
  <2>6. InOrder'
    <3>1. \A i \in DOMAIN delivered' :
            \/ i \in DOMAIN delivered /\ delivered'[i] = delivered[i]
            \/ i = Len(delivered) + 1 /\ delivered'[i] = h.msu
      BY <2>1, OrderFacts
    <3> QED BY <2>3, <3>1 DEF OrderInv, Received, InOrder
  <2>7. Received'
    BY <2>1, <2>4, <2>5, <2>6 DEF Received
  <2> QED BY <1>6, <2>3, <2>4, <2>7, OrderFacts
<1>8. CASE on_msu(rx, h.fsn).outcome # "Accepted"
  <2>1. delivered' = delivered /\ rx'.last_received = rx.last_received
    BY <1>5, <1>8, OrderFacts, OnMsuCases DEF ReceiveMsu
  <2>2. Received'
    BY <2>1 DEF OrderInv, Received, InOrder
  <2> QED BY <1>5, <1>6, <2>1, <2>2, OrderFacts
<1> QED BY <1>7, <1>8


\* A frees nothing that B had not yet got when it sent the reply: the MSU after
\* that one is a whole sequence space less one behind the BSN.
LEMMA FreedIsDelivered ==
    ASSUME SafeWindow, OrderInv, bwd # <<>>
    PROVE  /\ acknowledged(Buffer, Head(bwd).bsn) \in 0 .. Len(Buffer)
           /\ released + acknowledged(Buffer, Head(bwd).bsn) <= Head(bwd).upto
           /\ Head(bwd).upto \in Nat /\ Head(bwd).upto <= Len(delivered)
<1> DEFINE h == Head(bwd)
<1>1. TypeInv
  BY DEF OrderInv
<1>2. h \in Ack /\ h.bsn = fsn_of(h.upto) /\ released <= h.upto /\ h.upto <= Len(delivered)
  BY OrderFacts DEF OrderInv, RecentReplies
<1> DEFINE u == h.upto
           a == acknowledged(Buffer, h.bsn)
<1>3. h.bsn \in SequenceNumber /\ u \in Nat
  BY <1>2 DEF Ack
<1>4. /\ a \in 0 .. Len(Buffer)
      /\ \A m \in 0 .. Len(Buffer) :
           m < Len(Buffer) /\ seq_forward(h.bsn, Buffer[m + 1].fsn) >= SEQ_HALF => a <= m
  BY <1>1, <1>3, Counts, AcknowledgedRange
<1>5. h.bsn = fsn_of(u) /\ released <= u /\ u <= Len(delivered)
  BY <1>2
<1> HIDE DEF u, a
<1>6. released + a <= u
  <2>1. u - released \in 0 .. Len(Buffer)
    <3>1. u \in Nat /\ released \in Nat /\ Len(Buffer) \in Nat /\ released = sent - Len(Buffer)
      BY <1>1, <1>3, Counts
    <3>2. released <= u /\ u <= sent /\ sent \in Nat
      BY <1>3, <1>5, OrderFacts
    <3> QED BY <3>1, <3>2
  <2>2. CASE u - released = Len(Buffer)
    <3>1. released \in Nat /\ Len(Buffer) \in Nat
      BY <1>1, Counts
    <3> QED BY <1>3, <1>4, <2>2, <3>1
  <2>3. CASE u - released < Len(Buffer)
    <3>1. u - released + 1 \in DOMAIN Buffer
      BY <1>1, <2>1, <2>3, Counts
    <3>2. Buffer[u - released + 1].fsn = fsn_of(released + (u - released + 1))
      BY <3>1 DEF OrderInv, Numbered
    <3>3. released + (u - released + 1) = u + 1
      BY <1>1, <1>3, Counts
    <3>4. seq_forward(fsn_of(u), fsn_of(u + 1)) = SEQ_MODULUS - 1
      <4>1. SEQ_MODULUS - 1 \in SequenceNumber /\ u - (u + 1) = SEQ_MODULUS - 1 - SEQ_MODULUS
        BY <1>3, SequenceSpace DEF SequenceNumber
      <4>2. u + 1 \in Nat
        BY <1>3
      <4> QED BY <1>3, <4>1, <4>2, FsnDistance
    <3>5. SEQ_MODULUS - 1 >= SEQ_HALF
      BY SequenceSpace DEF SEQ_HALF
    <3>6. a <= u - released
      <4>1. seq_forward(h.bsn, Buffer[u - released + 1].fsn) = SEQ_MODULUS - 1
        BY <1>5, <3>2, <3>3, <3>4
      <4> DEFINE m == u - released
      <4>2. m \in 0 .. Len(Buffer) /\ m < Len(Buffer)
        BY <2>1, <2>3
      <4>3. seq_forward(h.bsn, Buffer[m + 1].fsn) >= SEQ_HALF
        BY <3>5, <4>1
      <4> HIDE DEF h, m
      <4>4. a <= m
        BY <1>4, <4>2, <4>3
      <4> QED BY <4>4 DEF m
    <3>7. released \in Nat /\ Len(Buffer) \in Nat
      BY <1>1, Counts
    <3> QED BY <1>3, <1>4, <3>6, <3>7
  <2>4. Len(Buffer) \in Nat
    BY <1>1, Counts
  <2> QED BY <2>1, <2>2, <2>3, <2>4
<1> QED BY <1>3, <1>4, <1>5, <1>6 DEF u, a

\* A receives a reply, and frees what it acknowledges.
LEMMA OrderReceiveReply ==
    ASSUME SafeWindow, OrderInv, TypeInv', ReceiveReply
    PROVE  /\ OrderInv'
           /\ released <= released' /\ released' <= Len(delivered)
<1> DEFINE h == Head(bwd)
           n == acknowledged(Buffer, h.bsn)
<1>1. /\ bwd # <<>> /\ tx' = on_ack(tx, h.bsn, h.bib) /\ bwd' = Tail(bwd)
      /\ UNCHANGED <<rx, fwd, submitted, delivered, lost>>
  BY DEF ReceiveReply
<1>2. TypeInv
  BY DEF OrderInv
<1>3. h.bsn \in SequenceNumber /\ h.bib \in BOOLEAN
  BY <1>1, <1>2, LineTypes DEF Ack
<1>4. /\ n \in 0 .. Len(Buffer) /\ released + n <= h.upto
      /\ h.upto \in Nat /\ h.upto <= Len(delivered)
  BY <1>1, FreedIsDelivered
<1>5. /\ Pending' = Pending /\ tx'.last_fsn = tx.last_fsn
      /\ Len(Buffer') = Len(Buffer) - n
      /\ \A i \in DOMAIN Buffer' : i + n \in DOMAIN Buffer /\ Buffer'[i] = Buffer[i + n]
  BY <1>1, <1>3, OrderFacts, OnAckCases DEF Pending, Buffer
<1> DEFINE u == h.upto
<1>6. n \in 0 .. Len(Buffer) /\ released + n <= u /\ u \in Nat /\ u <= Len(delivered)
  BY <1>4
<1> HIDE DEF n
<1>7. sent' = sent /\ released' = released + n
  <2>1. n \in Nat
    BY <1>2, <1>6, Counts
  <2> QED BY <1>1, <1>2, <1>5, <2>1, CountsFree
<1>8. Numbered'
  <2>1. \A i \in DOMAIN Pending' : Pending'[i] = sent' + i
    BY <1>5, <1>7 DEF OrderInv, Numbered
  <2>2. ASSUME NEW i \in DOMAIN Buffer'
        PROVE  Buffer'[i].fsn = fsn_of(released' + i) /\ Buffer'[i].msu = released' + i
    <3>1. /\ Buffer'[i].fsn = fsn_of(released + (i + n))
          /\ Buffer'[i].msu = released + (i + n)
      BY <1>5 DEF OrderInv, Numbered
    <3>2. i \in Nat
      <4>1. Buffer' \in Seq(BufferedMsu)
        BY DEF TypeInv, TypeOK, TxControl, Buffer
      <4> QED BY <4>1
    <3>3. released + (i + n) = released' + i
      BY <1>2, <1>6, <1>7, <3>2, Counts
    <3> QED BY <3>1, <3>3
  <2> QED BY <1>5, <1>7, <2>1, <2>2 DEF OrderInv, Numbered
<1>9. Bounded'
  <2>1. submitted' - released' <= Window
    <3>1. submitted' = submitted /\ submitted - released <= Window
      BY <1>1 DEF OrderInv, Bounded
    <3>2. submitted \in Nat /\ released \in Nat /\ Window \in Nat
      BY <1>2, Counts, LineBounds
    <3> QED BY <1>6, <1>7, <3>1, <3>2
  <2>2. ASSUME method.name = "Pcr" PROVE Len(Buffer') <= method.n1
    <3>1. method.n1 \in Nat /\ Len(Buffer) <= method.n1
      BY <2>2, LineBounds DEF OrderInv, Bounded, RetransmissionMethod, Basic
    <3> DEFINE n1 == method.n1
    <3>2. n1 \in Nat /\ Len(Buffer) <= n1
      BY <3>1
    <3> HIDE DEF n1
    <3>3. Len(Buffer') <= n1
      BY <1>2, <1>5, <1>6, <3>2, Counts
    <3> QED BY <3>3 DEF n1
  <2> QED BY <2>1, <2>2 DEF Bounded
<1>10. released' \in Nat /\ released <= released' /\ released' <= u
  <2>1. released \in Nat /\ n \in Nat
    BY <1>2, <1>6, Counts
  <2> QED BY <1>6, <1>7, <2>1
<1>11. RecentReplies(bwd, released, Len(delivered))'
  <2>1. RecentReplies(Tail(bwd), released', Len(delivered))
    BY <1>1, <1>10, OrderFacts, RepliesTail DEF OrderInv
  <2> QED BY <1>1, <2>1
<1> HIDE DEF u
<1>12. released' <= Len(delivered)
  BY <1>6, <1>10, OrderFacts
<1>13. Received' /\ Kept' /\ RecentFrames(fwd, Len(delivered), sent)'
  BY <1>1, <1>7, <1>12 DEF OrderInv, Received, InOrder, Kept
<1> QED BY <1>8, <1>9, <1>10, <1>11, <1>12, <1>13 DEF OrderInv

\* The steps that only shorten a line, and B's replies.
LEMMA OrderLine ==
    ASSUME OrderInv, TypeInv', ReceiveFisu \/ Reply \/ LoseFrame \/ LoseReply
    PROVE  OrderInv'
<1>1. UNCHANGED <<tx, rx, submitted, delivered>>
  BY DEF ReceiveFisu, Reply, LoseFrame, LoseReply
<1>2. sent' = sent /\ released' = released /\ Pending' = Pending /\ Buffer' = Buffer
  BY <1>1 DEF sent, released, Pending, Buffer
<1>3. Numbered' /\ Bounded' /\ Received' /\ Kept'
  BY <1>1, <1>2 DEF OrderInv, Numbered, Bounded, Received, InOrder, Kept
<1>4. CASE ReceiveFisu \/ LoseFrame
  <2>1. fwd # <<>> /\ fwd' = Tail(fwd) /\ bwd' = bwd
    BY <1>4 DEF ReceiveFisu, LoseFrame
  <2>2. Len(delivered) <= Head(fwd).top
    BY <2>1, OrderFacts DEF OrderInv, RecentFrames, Recent
  <2>3. RecentFrames(Tail(fwd), Len(delivered), sent)
    BY <2>1, <2>2, OrderFacts, FramesTail DEF OrderInv
  <2> QED BY <1>1, <1>2, <1>3, <2>1, <2>3 DEF OrderInv
<1>5. CASE LoseReply
  <2>1. bwd # <<>> /\ bwd' = Tail(bwd) /\ fwd' = fwd
    BY <1>5 DEF LoseReply
  <2>2. released <= Head(bwd).upto
    BY <2>1, OrderFacts DEF OrderInv, RecentReplies
  <2>3. RecentReplies(Tail(bwd), released, Len(delivered))
    BY <2>1, <2>2, OrderFacts, RepliesTail DEF OrderInv
  <2> QED BY <1>1, <1>2, <1>3, <2>1, <2>3 DEF OrderInv
<1>6. CASE Reply
  <2> DEFINE a == [bsn |-> rx.last_received, bib |-> rx.bib, upto |-> Len(delivered)]
  <2>1. bwd' = Append(bwd, a) /\ fwd' = fwd
    BY <1>6 DEF Reply
  <2>2. a \in Ack /\ a.upto = Len(delivered) /\ a.bsn = fsn_of(Len(delivered))
    BY OrderFacts DEF OrderInv, Received, Ack, RxControl
  <2> HIDE DEF a
  <2>3. RecentReplies(Append(bwd, a), released, Len(delivered))
    BY <2>2, OrderFacts, RepliesAppend DEF OrderInv
  <2> QED BY <1>1, <1>2, <1>3, <2>1, <2>3 DEF OrderInv
<1> QED BY <1>4, <1>5, <1>6


\* Every step of the link keeps the order.
LEMMA OrderStep == SafeWindow /\ OrderInv /\ [Next]_vars => OrderInv'
<1> SUFFICES ASSUME SafeWindow, OrderInv, [Next]_vars PROVE OrderInv'
  OBVIOUS
<1>1. TypeInv'
  BY TypeStep DEF OrderInv
<1>2. CASE Next
  BY <1>1, <1>2, OrderSubmit, OrderTransmit, OrderReceiveMsu, OrderReceiveReply, OrderLine
     DEF Next
<1>3. CASE UNCHANGED vars
  BY <1>1, <1>3
     DEF vars, OrderInv, Numbered, Bounded, Received, InOrder, Kept, sent, released,
         Pending, Buffer
<1> QED BY <1>2, <1>3

\* The invariant holds throughout.
LEMMA OrderCorrect == ASSUME SafeWindow PROVE Spec => []OrderInv
<1>1. OrderInv /\ [Next]_vars => OrderInv'
  BY OrderStep
<1> QED BY <1>1, OrderInit, PTL DEF Spec

\* B's user gets every MSU exactly once and in order, whatever the line loses:
\* on_msu's comparison with the last FSN is enough, for any modulus, while less
\* than the sequence space is outstanding.
THEOREM InOrderCorrect == ASSUME SafeWindow PROVE Spec => []InOrder
<1>1. OrderInv => InOrder
  BY DEF OrderInv, Received
<1> QED BY <1>1, OrderCorrect, PTL

-----------------------------------------------------------------------------
(***************************************************************************)
(* The reliable transfer.                                                  *)
(***************************************************************************)

\* A step of the link is a step of the transfer or leaves it alone.
LEMMA TransferStep ==
    SafeWindow /\ OrderInv /\ [Next]_vars => [Transfer!Next]_(Transfer!vars)
<1> SUFFICES ASSUME SafeWindow, OrderInv, [Next]_vars PROVE [Transfer!Next]_(Transfer!vars)
  OBVIOUS
<1>1. TypeInv /\ TypeInv' /\ OrderInv'
  BY TypeStep, OrderStep DEF OrderInv
<1>2. CASE Submit
  <2>1. submitted' = submitted + 1 /\ delivered' = delivered
    BY <1>2 DEF Submit
  <2>2. Pending' = Append(Pending, submitted') /\ Buffer' = Buffer
    BY <1>2, OrderFacts DEF Submit, submit, TxControl, Pending, Buffer
  <2>3. released' = released
    <3>1. Pending \in Seq(Msu) /\ Pending' \in Seq(Msu)
      BY <1>1, Counts DEF TypeInv, TypeOK, TxControl, Pending
    <3>2. Len(Pending') = Len(Pending) + 1
      BY <2>2, <3>1
    <3> QED BY <1>1, <2>1, <2>2, <3>2, CountsSubmit
  <2> QED BY <2>1, <2>3 DEF Transfer!Next, Transfer!Submit
<1>3. CASE Transmit
  <2>1. submitted' = submitted /\ delivered' = delivered /\ tx' = poll(tx).tx
    BY <1>3 DEF Transmit
  <2>2. \/ /\ Pending # <<>> /\ Pending' = Tail(Pending)
           /\ \E b : Buffer' = Append(Buffer, b)
        \/ Pending' = Pending /\ Buffer' = Buffer
    BY <2>1, OrderFacts, PollCases DEF Pending, Buffer
  <2>3. CASE Pending # <<>> /\ Pending' = Tail(Pending) /\ \E b : Buffer' = Append(Buffer, b)
    <3>1. Len(Pending') = Len(Pending) - 1
      BY <1>1, <2>3, Counts
    <3>2. Len(Buffer') = Len(Buffer) + 1
      BY <1>1, <2>3, Counts
    <3>3. released' = released
      BY <1>1, <2>1, <3>1, <3>2, CountsNumber
    <3> QED BY <2>1, <3>3 DEF Transfer!vars
  <2>4. CASE Pending' = Pending /\ Buffer' = Buffer
    <3>1. released' = released
      BY <1>1, <2>1, <2>4, CountsSame
    <3> QED BY <2>1, <3>1 DEF Transfer!vars
  <2> QED BY <2>2, <2>3, <2>4
<1>4. CASE ReceiveMsu
  <2> DEFINE h == Head(fwd)
  <2>1. /\ fwd # <<>> /\ h.msu # Fisu
        /\ submitted' = submitted /\ tx' = tx
    BY <1>4 DEF ReceiveMsu
  <2>2. released' = released
    BY <2>1 DEF released, sent
  <2>3. h \in Frame /\ Recent(h, Len(delivered), sent) /\ h.fsn \in SequenceNumber
    <3>1. h \in Frame /\ Recent(h, Len(delivered), sent)
      BY <2>1, OrderFacts DEF OrderInv, RecentFrames
    <3> QED BY <3>1 DEF Frame
  <2>4. CASE on_msu(rx, h.fsn).outcome = "Accepted"
    <3>1. delivered' = Append(delivered, h.msu)
      BY <1>4, <2>4 DEF ReceiveMsu
    <3>2. h.msu = Len(delivered) + 1 /\ Len(delivered) + 1 <= h.top
      BY <2>1, <2>3, <2>4, AcceptedIsNext, OrderFacts, OnMsuCases
    <3>3. h.top \in Nat /\ h.top <= sent
      BY <2>3 DEF Recent, Frame
    <3>4. Len(delivered) < submitted
      <4> DEFINE t == h.top
      <4>1. t \in Nat /\ t <= sent /\ Len(delivered) + 1 <= t
        BY <3>2, <3>3
      <4> HIDE DEF t
      <4> QED BY <1>1, <4>1, Counts, OrderFacts
    <3> QED BY <2>1, <2>2, <3>1, <3>2, <3>4 DEF Transfer!Next, Transfer!Deliver
  <2>5. CASE on_msu(rx, h.fsn).outcome # "Accepted"
    <3>1. delivered' = delivered
      BY <1>4, <2>5 DEF ReceiveMsu
    <3> QED BY <2>1, <2>2, <3>1 DEF Transfer!vars
  <2> QED BY <2>4, <2>5
<1>5. CASE ReceiveReply
  <2>1. submitted' = submitted /\ delivered' = delivered
    BY <1>5 DEF ReceiveReply
  <2>2. released <= released' /\ released' <= Len(delivered)
    BY <1>1, <1>5, OrderReceiveReply
  <2>3. released' \in Nat
    BY <1>1, CountsAfter
  <2>4. released' = released \/ released' \in released + 1 .. Len(delivered)
    BY <2>2, <2>3, OrderFacts
  <2> QED BY <2>1, <2>4 DEF Transfer!Next, Transfer!Release, Transfer!vars
<1>6. CASE ReceiveFisu \/ Reply \/ LoseFrame \/ LoseReply \/ UNCHANGED vars
  BY <1>6 DEF ReceiveFisu, Reply, LoseFrame, LoseReply, vars, Transfer!vars, released, sent
<1> QED BY <1>2, <1>3, <1>4, <1>5, <1>6 DEF Next

\* One direction of a link implements the reliable transfer: MSUs are delivered
\* in order, none of them before it is submitted, and A lets go of none that B
\* has not delivered.
THEOREM TransferImplemented == ASSUME SafeWindow PROVE Spec => ImplementsTransfer
<1>1. Init => Transfer!Init
  <2> SUFFICES ASSUME Init PROVE Transfer!Init
    OBVIOUS
  <2>1. Pending = <<>> /\ Buffer = <<>> /\ submitted = 0 /\ delivered = <<>>
    BY DEF Init, TxControl_new, Pending, Buffer
  <2>2. Len(Pending) = 0 /\ Len(Buffer) = 0
    BY <2>1
  <2> QED BY <2>1, <2>2, TypeInit, Counts DEF Transfer!Init
<1>2. OrderInv /\ [Next]_vars => [Transfer!Next]_(Transfer!vars)
  BY TransferStep
<1> QED BY <1>1, <1>2, OrderCorrect, PTL DEF Spec, ImplementsTransfer, Transfer!Spec

\* What on_ack frees reaches as far as the reply says, while no more than half
\* of the sequence space is in the buffer.
LEMMA AckFreesStep ==
    ASSUME SafeWindow, OrderInv, ReceiveReply, Len(tx.unacked) <= SEQ_HALF
    PROVE  released' >= Head(bwd).upto
<1> DEFINE h == Head(bwd)
           n == acknowledged(Buffer, h.bsn)
           u == h.upto
<1>1. TypeInv /\ bwd # <<>> /\ submitted' = submitted /\ tx' = on_ack(tx, h.bsn, h.bib)
  BY DEF OrderInv, ReceiveReply
<1>2. /\ h \in Ack /\ h.bsn = fsn_of(u) /\ released <= u
      /\ u \in Nat /\ u <= Len(delivered) /\ n \in 0 .. Len(Buffer)
  BY <1>1, OrderFacts, FreedIsDelivered DEF OrderInv, RecentReplies
<1>3. h.bsn \in SequenceNumber /\ h.bib \in BOOLEAN
  BY <1>2 DEF Ack
<1>4. Pending' = Pending /\ Len(Buffer') = Len(Buffer) - n
  BY <1>1, <1>3, OrderFacts, OnAckCases DEF Pending, Buffer
<1>5. u - released <= n
  <2> DEFINE m == u - released
  <2> HIDE DEF u
  <2>1. m \in 0 .. Len(Buffer)
    <3>1. /\ released \in Nat /\ Len(Buffer) \in Nat /\ sent \in Nat
          /\ released = sent - Len(Buffer)
      BY <1>1, Counts
    <3>2. u \in Nat /\ released <= u /\ u <= sent
      BY <1>2, <3>1, OrderFacts
    <3> QED BY <3>1, <3>2
  <2>2. ASSUME NEW i \in 1 .. m
        PROVE  seq_forward(h.bsn, Buffer[i].fsn) < SEQ_HALF
    <3>1. i \in DOMAIN Buffer /\ Buffer[i].fsn = fsn_of(released + i)
      BY <1>1, <2>1, Counts DEF OrderInv, Numbered
    <3>2. Len(Buffer) <= SEQ_HALF
      BY DEF Buffer
    <3>3. SEQ_HALF \in Nat /\ SEQ_HALF < SEQ_MODULUS
      BY SequenceSpace DEF SEQ_HALF
    <3>4. m - i \in SequenceNumber /\ m - i < SEQ_HALF
      <4> HIDE DEF m
      <4> QED BY <1>1, <2>1, <2>2, <3>2, <3>3, Counts, SequenceSpace DEF SequenceNumber
    <3>5. u - (released + i) = m - i /\ released + i \in Nat
      <4>1. i \in Nat
        <5> HIDE DEF m
        <5> QED BY <2>1, <2>2
      <4>2. u \in Nat /\ released \in Nat
        BY <1>1, <1>2, Counts
      <4> QED BY <4>1, <4>2
    <3>6. seq_forward(fsn_of(u), fsn_of(released + i)) = m - i
      <4> HIDE DEF m
      <4> QED BY <1>2, <3>4, <3>5, FsnDistance
    <3> QED BY <1>2, <3>1, <3>4, <3>6
  <2> HIDE DEF m
  <2>3. m <= n
    BY <1>1, <1>3, <2>1, <2>2, Counts, AcknowledgedReaches
  <2> QED BY <2>3 DEF m
<1> HIDE DEF n, u
<1>6. released' = released + n
  <2>1. n \in Nat
    BY <1>1, <1>2, Counts
  <2> QED BY <1>1, <1>4, <2>1, CountsFree
<1>7. released' >= u
  <2>1. released \in Nat
    BY <1>1, Counts
  <2> QED BY <1>2, <1>5, <1>6, <2>1
<1> QED BY <1>7 DEF u

\* A reply frees everything it acknowledges at once.
THEOREM AckFrees == ASSUME SafeWindow PROVE Spec => AckFreesDelivered
<1>1. OrderInv /\ [Next]_vars =>
        [ReceiveReply /\ Len(tx.unacked) <= SEQ_HALF => released' >= Head(bwd).upto]_vars
  BY AckFreesStep
<1> QED BY <1>1, OrderCorrect, PTL DEF Spec, AckFreesDelivered

-----------------------------------------------------------------------------
(***************************************************************************)
(* Negative acknowledgements.  B toggles its BIB, A follows with its FIB   *)
(* and starts again from the front of its buffer: the frames between two   *)
(* toggles rise.  While B waits for a retransmission, those sent before it *)
(* have nothing for B, and those after it start where they must.           *)
(***************************************************************************)

\* Where the next MSU that a TxControl sends comes from: the place in the buffer
\* of its cursor (poll_basic), or the place behind the last.
position(c) == IF c.basic_cursor \in 0 .. Len(c.unacked) - 1 THEN c.basic_cursor
               ELSE Len(c.unacked)

\* The number of the MSU that A sends next.
upcoming == released + position(tx) + 1

\* An MSU arrives under the FIB that A had when it sent it, and is no MSU before
\* `least`.
NotBefore(f, least) == f.msu # Fisu => f.msu >= least

\* Frames under one FIB rise, and those under A's present one come last.
Rising(line, fib) ==
    \A i, j \in DOMAIN line :
        /\ i < j /\ line[i].fib = line[j].fib /\ line[i].msu # Fisu
             => NotBefore(line[j], line[i].msu + 1)
        /\ i <= j /\ line[i].fib = fib => line[j].fib = fib

\* A has sent only MSUs before the next one since it last began again.
SentBefore(line, fib, least) ==
    \A i \in DOMAIN line : line[i].fib = fib => line[i].msu < least

\* What is under another FIB than B asks for lies beyond the gap.
BeyondGap(line, bib, least) ==
    \A i \in DOMAIN line : line[i].fib # bib => NotBefore(line[i], least)

\* B has asked for a retransmission, and A has not heard of it yet.
Asked ==
    /\ rx.nack_pending
    /\ \A i \in DOMAIN fwd : fwd[i].fib = tx.fib
    /\ upcoming > Len(delivered) + 1
    /\ \A i, j \in DOMAIN bwd : i <= j /\ bwd[i].bib = rx.bib => bwd[j].bib = rx.bib

\* A knows what B asks for; without a gap, all that A has sent and will send is
\* new to B.
Answered ==
    /\ \A i \in DOMAIN bwd : bwd[i].bib = rx.bib
    /\ ~rx.nack_pending =>
        /\ upcoming > Len(delivered)
        /\ \A i \in DOMAIN fwd :
            fwd[i].fib = rx.bib /\ NotBefore(fwd[i], Len(delivered) + 1)

NackInv ==
    /\ Rising(fwd, tx.fib)
    /\ SentBefore(fwd, tx.fib, upcoming)
    /\ BeyondGap(fwd, rx.bib, Len(delivered) + 2)
    /\ IF tx.fib = rx.bib THEN Answered ELSE Asked

\* poll_basic sends under the FIB of the moment, and the MSU of the cursor: from
\* the buffer, or a new one behind it; the cursor moves on by one.
LEMMA PollPosition ==
    ASSUME NEW c \in TxControl, c.method.name = "Basic"
    PROVE  /\ poll(c).tx.fib = c.fib /\ poll(c).frame.fib = c.fib
           /\ \/ /\ poll(c).frame.msu = Fisu
                 /\ Len(poll(c).tx.unacked) = Len(c.unacked)
                 /\ poll(c).tx.pending = c.pending
                 /\ position(poll(c).tx) = position(c)
              \/ /\ position(c) < Len(c.unacked)
                 /\ poll(c).frame.msu = c.unacked[position(c) + 1].msu
                 /\ Len(poll(c).tx.unacked) = Len(c.unacked)
                 /\ poll(c).tx.pending = c.pending
                 /\ position(poll(c).tx) = position(c) + 1
              \/ /\ position(c) = Len(c.unacked)
                 /\ c.pending # <<>>
                 /\ poll(c).frame.msu = Head(c.pending)
                 /\ Len(poll(c).tx.unacked) = Len(c.unacked) + 1
                 /\ poll(c).tx.pending = Tail(c.pending)
                 /\ position(poll(c).tx) = position(c) + 1
<1> DEFINE r == [c EXCEPT !.basic_cursor = NoCursor]
           m == Len(c.unacked)
<1>1. m \in Nat /\ c.unacked \in Seq(BufferedMsu) /\ c.basic_cursor \in Nat \cup {NoCursor}
  BY DEF TxControl
<1>2. CASE c.basic_cursor \in 0 .. m - 1
  <2> DEFINE d == [c EXCEPT !.basic_cursor = @ + 1]
  <2>1. poll(c) = [tx |-> d, frame |-> resend(c, c.basic_cursor)]
    BY <1>2 DEF poll, poll_basic
  <2>2. /\ d.fib = c.fib /\ d.unacked = c.unacked /\ d.pending = c.pending
        /\ d.basic_cursor = c.basic_cursor + 1
    BY DEF TxControl
  <2>3. /\ resend(c, c.basic_cursor).fib = c.fib
        /\ resend(c, c.basic_cursor).msu = c.unacked[c.basic_cursor + 1].msu
    BY DEF resend
  <2>4. position(c) = c.basic_cursor
    BY <1>2 DEF position
  <2>5. position(d) = c.basic_cursor + 1
    BY <1>1, <1>2, <2>2 DEF position
  <2> HIDE DEF d
  <2> QED BY <1>1, <1>2, <2>1, <2>2, <2>3, <2>4, <2>5
<1>3. CASE c.basic_cursor \notin 0 .. m - 1 /\ c.pending # <<>>
  <2>1. poll(c) = send_new(r)
    BY <1>3 DEF poll, poll_basic
  <2>2. r \in TxControl /\ r.fib = c.fib /\ r.unacked = c.unacked /\ r.pending = c.pending
        /\ r.basic_cursor = NoCursor
    BY DEF TxControl
  <2> HIDE DEF r
  <2>3. /\ send_new(r).tx.fib = c.fib /\ send_new(r).frame.fib = c.fib
        /\ send_new(r).frame.msu = Head(c.pending)
        /\ send_new(r).tx.pending = Tail(c.pending)
        /\ send_new(r).tx.basic_cursor = NoCursor
        /\ Len(send_new(r).tx.unacked) = m + 1
    <3> DEFINE fsn == seq_add(r.last_fsn, 1)
               b == [fsn |-> fsn, msu |-> Head(r.pending)]
               e == [r EXCEPT !.pending = Tail(@), !.last_fsn = fsn,
                              !.unacked = Append(@, b)]
    <3>1. /\ send_new(r).tx = e
          /\ send_new(r).frame = [fsn |-> fsn, fib |-> r.fib, msu |-> Head(r.pending)]
      BY DEF send_new
    <3> HIDE DEF fsn, b
    <3>2. /\ e.fib = r.fib /\ e.pending = Tail(r.pending) /\ e.unacked = Append(r.unacked, b)
          /\ e.basic_cursor = r.basic_cursor
      BY <2>2 DEF TxControl
    <3>3. Len(Append(r.unacked, b)) = m + 1
      BY <1>1, <2>2
    <3> HIDE DEF e
    <3> QED BY <2>2, <3>1, <3>2, <3>3
  <2>4. position(send_new(r).tx) = m + 1
    BY <1>1, <2>3 DEF position, NoCursor
  <2>5. position(c) = m
    BY <1>3 DEF position
  <2> QED BY <1>3, <2>1, <2>3, <2>4, <2>5
<1>4. CASE c.basic_cursor \notin 0 .. m - 1 /\ c.pending = <<>>
  <2>1. poll(c) = [tx |-> r, frame |-> send_fisu(c)]
    BY <1>4 DEF poll, poll_basic
  <2>2. r.fib = c.fib /\ r.unacked = c.unacked /\ r.pending = c.pending
        /\ r.basic_cursor = NoCursor
    BY DEF TxControl
  <2> HIDE DEF r
  <2>3. position(r) = m /\ position(c) = m
    BY <1>1, <1>4, <2>2 DEF position, NoCursor
  <2> QED BY <2>1, <2>2, <2>3 DEF send_fisu
<1> QED BY <1>2, <1>3, <1>4

\* on_ack follows B's BIB; otherwise what it frees moves the cursor on, never
\* back: a step back of one place in a buffer that is shorter by one or more.
LEMMA AckPosition ==
    ASSUME NEW c \in TxControl, NEW bsn \in SequenceNumber, NEW bib \in BOOLEAN,
           c.method.name = "Basic"
    PROVE  LET n == acknowledged(c.unacked, bsn)
               d == on_ack(c, bsn, bib)
           IN  /\ d.fib = bib
               /\ bib = c.fib => position(d) + n >= position(c)
<1> DEFINE n == acknowledged(c.unacked, bsn)
           f == free(c, n)
           d == on_ack(c, bsn, bib)
           u == SubSeq(c.unacked, n + 1, Len(c.unacked))
           v == IF c.basic_cursor \in {NoCursor, 0} THEN c.basic_cursor
                ELSE c.basic_cursor - 1
<1>1. /\ n \in 0 .. Len(c.unacked) /\ Len(c.unacked) \in Nat
      /\ c.basic_cursor \in Nat \cup {NoCursor}
      /\ u \in Seq(BufferedMsu) /\ Len(u) = Len(c.unacked) - n
  <2>1. n \in 0 .. Len(c.unacked)
    BY AcknowledgedRange DEF TxControl
  <2>2. c.unacked \in Seq(BufferedMsu) /\ c.basic_cursor \in Nat \cup {NoCursor}
    BY DEF TxControl
  <2> HIDE DEF n
  <2> QED BY <2>1, <2>2
<1>2. \/ n = 0 /\ f = c
      \/ n # 0 /\ f = [c EXCEPT !.unacked = u, !.pcr_cursor = 0, !.basic_cursor = v]
  BY DEF free
<1> HIDE DEF n
<1>3. v \in Nat \cup {NoCursor}
  BY <1>1 DEF NoCursor
<1>4. f \in TxControl /\ f.fib = c.fib /\ position(f) + n >= position(c)
  <2>1. CASE n = 0
    <3>1. position(c) \in Nat
      BY <1>1 DEF position
    <3> QED BY <1>2, <2>1, <3>1
  <2>2. CASE n # 0
    <3>1. f = [c EXCEPT !.unacked = u, !.pcr_cursor = 0, !.basic_cursor = v]
      BY <1>2, <2>2
    <3> HIDE DEF f, u, v
    <3>2. f \in TxControl /\ f.fib = c.fib /\ f.unacked = u /\ f.basic_cursor = v
      BY <1>1, <1>3, <3>1 DEF TxControl
    <3>3. position(f) + n >= position(c)
      BY <1>1, <2>2, <3>2, SMTT(30) DEF position, NoCursor, v
    <3> QED BY <3>2, <3>3
  <2> QED BY <2>1, <2>2
<1>5. \/ bib # c.fib /\ d = [f EXCEPT !.fib = bib,
                                      !.basic_cursor = IF f.unacked # <<>> THEN 0 ELSE @]
      \/ bib = c.fib /\ d = f
  BY DEF on_ack, n
<1> HIDE DEF f, d
<1>6. d.fib = bib /\ (bib = c.fib => d = f)
  BY <1>4, <1>5 DEF TxControl
<1> QED BY <1>4, <1>6 DEF n, d

\* The BIB and nack_pending after an MSU has arrived.
LEMMA OnMsuNack ==
    ASSUME NEW r \in RxControl, NEW fsn \in SequenceNumber
    PROVE  LET d == on_msu(r, fsn).rx
           IN  \/ /\ seq_forward(fsn, r.last_received) = 1
                  /\ on_msu(r, fsn).outcome = "Accepted"
                  /\ d.bib = r.bib /\ ~d.nack_pending
               \/ /\ seq_forward(fsn, r.last_received) # 1
                  /\ on_msu(r, fsn).outcome # "Accepted"
                  /\ d.bib = r.bib /\ d.nack_pending = r.nack_pending
               \/ /\ seq_forward(fsn, r.last_received) # 1
                  /\ on_msu(r, fsn).outcome # "Accepted"
                  /\ r.method.name = "Basic"
                  /\ ~r.nack_pending /\ d.nack_pending /\ d.bib # r.bib
BY DEF on_msu, RxControl

-----------------------------------------------------------------------------
\* The invariant of the basic method, on the numbering that OrderInv gives.
BasicInv == method.name = "Basic" /\ SafeWindow /\ OrderInv

\* What the types say of the fields and the lines.
LEMMA NackFacts ==
    ASSUME BasicInv
    PROVE  /\ tx \in TxControl /\ rx \in RxControl
           /\ tx.method.name = "Basic" /\ rx.method.name = "Basic"
           /\ tx.fib \in BOOLEAN /\ rx.bib \in BOOLEAN /\ rx.nack_pending \in BOOLEAN
           /\ fwd \in Seq(Frame) /\ bwd \in Seq(Ack)
           /\ \A i \in DOMAIN fwd : fwd[i].msu \in Nat /\ fwd[i].fib \in BOOLEAN
           /\ \A i \in DOMAIN bwd : bwd[i].bib \in BOOLEAN
           /\ position(tx) \in Nat /\ position(tx) <= Len(Buffer) /\ Len(Buffer) \in Nat
           /\ released \in Nat /\ sent \in Nat /\ sent = released + Len(Buffer)
           /\ upcoming \in Nat /\ upcoming = released + position(tx) + 1
           /\ Len(delivered) \in Nat
<1>1. /\ tx \in TxControl /\ tx.method = method /\ rx \in RxControl /\ rx.method = method
      /\ fwd \in Seq(Frame) /\ bwd \in Seq(Ack) /\ Len(delivered) \in Nat /\ TypeInv
  BY OrderFacts DEF BasicInv, OrderInv, TypeInv, TypeOK
<1>2. tx.fib \in BOOLEAN /\ rx.bib \in BOOLEAN /\ rx.nack_pending \in BOOLEAN
  BY <1>1 DEF TxControl, RxControl
<1>3. \A i \in DOMAIN fwd : fwd[i].msu \in Nat /\ fwd[i].fib \in BOOLEAN
  <2>1. ASSUME NEW f \in Frame PROVE f.msu \in Nat /\ f.fib \in BOOLEAN
    <3>1. f.msu \in Msu \cup {Fisu}
      BY DEF Frame
    <3>2. Msu \cup {Fisu} \subseteq Nat
      BY MsuSizes DEF Fisu
    <3>3. f.fib \in BOOLEAN
      BY DEF Frame
    <3> QED BY <3>1, <3>2, <3>3
  <2> QED BY <1>1, <2>1
<1>4. \A i \in DOMAIN bwd : bwd[i].bib \in BOOLEAN
  <2>1. \A a \in Ack : a.bib \in BOOLEAN
    BY DEF Ack
  <2> QED BY <1>1, <2>1
<1>5. /\ Len(Buffer) \in Nat /\ released \in Nat /\ sent \in Nat
      /\ released = sent - Len(Buffer)
  BY <1>1, Counts
<1>6. position(tx) \in Nat /\ position(tx) <= Len(Buffer)
  BY <1>5 DEF position, Buffer
<1>7. sent = released + Len(Buffer) /\ upcoming \in Nat
  BY <1>5, <1>6 DEF upcoming
<1> QED BY <1>1, <1>2, <1>3, <1>4, <1>5, <1>6, <1>7 DEF BasicInv, upcoming

\* B accepts the MSU it waits for: the converse of AcceptedIsNext.
LEMMA NextIsAccepted ==
    ASSUME OrderInv, fwd # <<>>, Head(fwd).msu = Len(delivered) + 1
    PROVE  seq_forward(Head(fwd).fsn, rx.last_received) = 1
<1> DEFINE n == Len(delivered)
           h == Head(fwd)
<1>1. n \in Nat /\ rx.last_received = fsn_of(n)
  BY OrderFacts DEF OrderInv, Received
<1>2. h.msu # Fisu /\ Recent(h, n, sent)
  BY <1>1, OrderFacts DEF OrderInv, RecentFrames, Fisu
<1>3. h.fsn = fsn_of(n + 1)
  BY <1>2 DEF Recent
<1> HIDE DEF n
<1>4. 1 \in SequenceNumber /\ (n + 1) - n = 1 /\ n + 1 \in Nat
  BY <1>1, SequenceSpace DEF SequenceNumber
<1>5. seq_forward(fsn_of(n + 1), fsn_of(n)) = 1
  BY <1>1, <1>4, FsnDistance
<1> QED BY <1>1, <1>3, <1>5

\* The start: nothing asked for, nothing sent.
LEMMA NackInit == Init => NackInv
<1> SUFFICES ASSUME Init PROVE NackInv
  OBVIOUS
<1>1. /\ tx.fib = TRUE /\ tx.unacked = <<>> /\ rx.bib = TRUE /\ rx.nack_pending = FALSE
      /\ tx.pending = <<>> /\ tx.basic_cursor = NoCursor
  BY DEF Init, TxControl_new, RxControl_new
<1>2. fwd = <<>> /\ bwd = <<>> /\ submitted = 0 /\ delivered = <<>>
  BY DEF Init
<1>3. upcoming = 1 /\ Len(delivered) = 0
  BY <1>1, <1>2 DEF upcoming, position, released, sent, NoCursor
<1>4. Answered
  BY <1>1, <1>2, <1>3 DEF Answered
<1>5. DOMAIN fwd = {}
  BY <1>2
<1>6. /\ Rising(fwd, tx.fib) /\ SentBefore(fwd, tx.fib, upcoming)
      /\ BeyondGap(fwd, rx.bib, Len(delivered) + 2)
  BY <1>5 DEF Rising, SentBefore, BeyondGap
<1> QED BY <1>1, <1>4, <1>6 DEF NackInv

\* A step that moves neither control, and only shortens the lines.
LEMMA NackShorter ==
    ASSUME BasicInv, NackInv,
           rx' = rx, tx'.fib = tx.fib, Len(delivered') = Len(delivered),
           upcoming' \in Nat, upcoming <= upcoming',
           \/ fwd' = fwd
           \/ fwd # <<>> /\ fwd' = Tail(fwd),
           \/ bwd' = bwd
           \/ bwd # <<>> /\ bwd' = Tail(bwd)
    PROVE  NackInv'
<1>1. fwd \in Seq(Frame) /\ bwd \in Seq(Ack) /\ upcoming \in Nat /\ Len(delivered) \in Nat
      /\ \A i \in DOMAIN fwd : fwd[i].msu \in Nat
  BY NackFacts
<1>2. PICK a \in {0, 1} :
        /\ \A i \in DOMAIN fwd' : i \in Nat /\ i + a \in DOMAIN fwd /\ fwd'[i] = fwd[i + a]
  <2>1. CASE fwd' = fwd
    BY <1>1, <2>1
  <2>2. CASE fwd # <<>> /\ fwd' = Tail(fwd)
    BY <1>1, <2>2
  <2> QED BY <2>1, <2>2
<1>3. PICK b \in {0, 1} :
        /\ \A i \in DOMAIN bwd' : i \in Nat /\ i + b \in DOMAIN bwd /\ bwd'[i] = bwd[i + b]
  <2>1. CASE bwd' = bwd
    BY <1>1, <2>1
  <2>2. CASE bwd # <<>> /\ bwd' = Tail(bwd)
    BY <1>1, <2>2
  <2> QED BY <2>1, <2>2
<1>4. Rising(fwd', tx'.fib)
  <2>1. \A i, j \in DOMAIN fwd' : (i < j => i + a < j + a) /\ (i <= j => i + a <= j + a)
    BY <1>2
  <2> QED BY <1>2, <2>1 DEF NackInv, Rising
<1>5. SentBefore(fwd', tx'.fib, upcoming')
  BY <1>1, <1>2 DEF NackInv, SentBefore
<1>6. BeyondGap(fwd', rx'.bib, Len(delivered') + 2)
  BY <1>2 DEF NackInv, BeyondGap
<1>7. ASSUME Asked PROVE Asked'
  <2>1. \A i, j \in DOMAIN bwd' : (i <= j => i + b <= j + b)
    BY <1>3
  <2>2. \A i, j \in DOMAIN bwd' : i <= j /\ bwd'[i].bib = rx.bib => bwd'[j].bib = rx.bib
    <3>1. TAKE i, j \in DOMAIN bwd'
    <3>2. /\ i + b \in DOMAIN bwd /\ j + b \in DOMAIN bwd
          /\ bwd'[i] = bwd[i + b] /\ bwd'[j] = bwd[j + b]
      BY <1>3
    <3>3. i <= j => i + b <= j + b
      BY <2>1
    <3>4. \A p, q \in DOMAIN bwd : p <= q /\ bwd[p].bib = rx.bib => bwd[q].bib = rx.bib
      BY <1>7 DEF Asked
    <3> QED BY <3>2, <3>3, <3>4
  <2>3. \A i \in DOMAIN fwd' : fwd'[i].fib = tx.fib
    BY <1>2, <1>7 DEF Asked
  <2>4. upcoming' > Len(delivered) + 1
    BY <1>1, <1>7 DEF Asked
  <2> QED BY <1>7, <2>2, <2>3, <2>4 DEF Asked
<1>8. Answered => Answered'
  BY <1>1, <1>2, <1>3 DEF Answered
<1> QED BY <1>4, <1>5, <1>6, <1>7, <1>8 DEF NackInv

\* A sends a frame: the next MSU, or a FISU.
LEMMA NackTransmit ==
    ASSUME BasicInv, NackInv, Transmit
    PROVE  NackInv'
<1> DEFINE c == tx
           f == [fsn |-> poll(tx).frame.fsn, fib |-> poll(tx).frame.fib,
                 msu |-> poll(tx).frame.msu,
                 top |-> submitted - Len(poll(tx).tx.pending)]
<1>1. /\ tx' = poll(tx).tx /\ fwd' = Append(fwd, f)
      /\ rx' = rx /\ bwd' = bwd /\ submitted' = submitted /\ delivered' = delivered
  BY DEF Transmit
<1>2. /\ f.fib = tx.fib /\ f.msu = poll(tx).frame.msu /\ tx'.fib = tx.fib
  BY <1>1, NackFacts, PollPosition
<1> HIDE DEF f
<1>3. \/ f.msu = Fisu /\ upcoming' = upcoming
      \/ f.msu = upcoming /\ upcoming' = upcoming + 1
  <2>1. TypeInv /\ Numbered
    BY DEF BasicInv, OrderInv
  <2>2. /\ Pending \in Seq(Msu) /\ Len(Pending) \in Nat /\ Len(Buffer) \in Nat
        /\ submitted \in Nat /\ released \in Nat /\ sent \in Nat
    BY <2>1, Counts
  <2>3. position(tx) \in Nat /\ position(tx) <= Len(Buffer) /\ sent = released + Len(Buffer)
    BY NackFacts
  <2>4. upcoming = released + position(tx) + 1 /\ upcoming' = released' + position(tx') + 1
    BY DEF upcoming
  <2>5. CASE /\ f.msu = Fisu /\ Len(Buffer') = Len(Buffer) /\ Pending' = Pending
             /\ position(tx') = position(tx)
    <3>1. released' = released
      BY <1>1, <2>5 DEF released, sent, Buffer, Pending
    <3> QED BY <2>4, <2>5, <3>1
  <2>6. CASE /\ position(tx) < Len(Buffer) /\ f.msu = Buffer[position(tx) + 1].msu
             /\ Len(Buffer') = Len(Buffer) /\ Pending' = Pending
             /\ position(tx') = position(tx) + 1
    <3>1. released' = released
      BY <1>1, <2>6 DEF released, sent, Buffer, Pending
    <3>2. position(tx) + 1 \in DOMAIN Buffer
      <4>1. Buffer \in Seq(BufferedMsu)
        BY <2>1, Counts
      <4> QED BY <2>2, <2>3, <2>6, <4>1
    <3>3. f.msu = released + (position(tx) + 1)
      BY <2>1, <2>6, <3>2 DEF Numbered
    <3> QED BY <2>2, <2>3, <2>4, <2>6, <3>1, <3>3
  <2>7. CASE /\ position(tx) = Len(Buffer) /\ Pending # <<>> /\ f.msu = Head(Pending)
             /\ Len(Buffer') = Len(Buffer) + 1 /\ Pending' = Tail(Pending)
             /\ position(tx') = position(tx) + 1
    <3>1. /\ Len(Pending') = Len(Pending) - 1 /\ 1 \in DOMAIN Pending
          /\ Head(Pending) = Pending[1]
      BY <2>2, <2>7
    <3>2. released' = released
      BY <1>1, <2>1, <2>7, <3>1, CountsNumber
    <3>3. f.msu = sent + 1
      BY <2>1, <2>7, <3>1 DEF Numbered
    <3> QED BY <2>2, <2>3, <2>4, <2>7, <3>2, <3>3
  <2> QED BY <1>1, <1>2, <2>5, <2>6, <2>7, NackFacts, PollPosition DEF Buffer, Pending
<1>4. /\ fwd \in Seq(Frame) /\ upcoming \in Nat /\ Len(delivered) \in Nat
      /\ \A i \in DOMAIN fwd : fwd[i].msu \in Nat
  BY NackFacts
<1>5. f.msu \in Nat
  BY <1>3, <1>4 DEF Fisu
<1>6. \A i \in DOMAIN fwd' :
        \/ i \in DOMAIN fwd /\ fwd'[i] = fwd[i]
        \/ i = Len(fwd) + 1 /\ fwd'[i] = f
  BY <1>1, <1>4
<1>7. \A i \in DOMAIN fwd : i \in Nat /\ i < Len(fwd) + 1
  BY <1>4
<1>8. Len(fwd) + 1 \in Nat
  BY <1>4
<1>9. Rising(fwd', tx'.fib)
  <2> SUFFICES ASSUME NEW i \in DOMAIN fwd', NEW j \in DOMAIN fwd'
               PROVE  /\ /\ i < j /\ fwd'[i].fib = fwd'[j].fib /\ fwd'[i].msu # Fisu
                         => NotBefore(fwd'[j], fwd'[i].msu + 1)
                      /\ i <= j /\ fwd'[i].fib = tx'.fib => fwd'[j].fib = tx'.fib
    BY DEF Rising
  <2>1. CASE i \in DOMAIN fwd /\ j \in DOMAIN fwd
    <3>1. fwd'[i] = fwd[i] /\ fwd'[j] = fwd[j]
      BY <1>6, <1>7, <2>1
    <3> QED BY <1>2, <2>1, <3>1 DEF NackInv, Rising
  <2>2. CASE j = Len(fwd) + 1
    <3>1. fwd'[j] = f
      BY <1>6, <1>7, <2>2
    <3>2. ASSUME i < j, fwd'[i].fib = fwd'[j].fib
          PROVE  NotBefore(fwd'[j], fwd'[i].msu + 1)
      <4>1. i \in DOMAIN fwd /\ fwd'[i] = fwd[i]
        BY <1>6, <1>8, <2>2, <3>2
      <4>2. fwd[i].fib = tx.fib
        BY <1>2, <3>1, <3>2, <4>1
      <4>3. fwd[i].msu < upcoming
        BY <4>1, <4>2 DEF NackInv, SentBefore
      <4>4. fwd[i].msu \in Nat
        BY <1>4, <4>1
      <4> QED BY <1>3, <1>4, <3>1, <4>1, <4>3, <4>4 DEF NotBefore
    <3> QED BY <1>2, <3>1, <3>2
  <2>3. CASE j \in DOMAIN fwd /\ i = Len(fwd) + 1
    <3>1. j < i /\ i \in Nat /\ j \in Nat
      BY <1>7, <1>8, <2>3
    <3> QED BY <3>1
  <2> QED BY <1>6, <2>1, <2>2, <2>3
<1>10. upcoming' \in Nat /\ upcoming <= upcoming' /\ f.msu < upcoming'
  <2>1. f.msu = Fisu => f.msu < upcoming
    BY NackFacts DEF Fisu
  <2> QED BY <1>3, <1>4, <2>1
<1>11. SentBefore(fwd', tx'.fib, upcoming')
  <2> SUFFICES ASSUME NEW i \in DOMAIN fwd', fwd'[i].fib = tx'.fib
               PROVE  fwd'[i].msu < upcoming'
    BY DEF SentBefore
  <2>1. CASE i \in DOMAIN fwd /\ fwd'[i] = fwd[i]
    <3>1. fwd[i].msu < upcoming /\ fwd[i].msu \in Nat
      BY <1>2, <1>4, <2>1 DEF NackInv, SentBefore
    <3> QED BY <1>4, <1>10, <2>1, <3>1
  <2> QED BY <1>6, <1>10, <2>1
<1>12. BeyondGap(fwd', rx'.bib, Len(delivered') + 2)
  <2> SUFFICES ASSUME NEW i \in DOMAIN fwd', fwd'[i].fib # rx.bib
               PROVE  NotBefore(fwd'[i], Len(delivered) + 2)
    BY <1>1 DEF BeyondGap
  <2>1. CASE i \in DOMAIN fwd /\ fwd'[i] = fwd[i]
    BY <2>1 DEF NackInv, BeyondGap
  <2>2. CASE fwd'[i] = f
    <3>1. upcoming > Len(delivered) + 1
      BY <1>2, <2>2 DEF NackInv, Asked
    <3> QED BY <1>3, <1>4, <2>2, <3>1 DEF NotBefore
  <2> QED BY <1>6, <2>1, <2>2
<1>13. ASSUME Asked PROVE Asked'
  <2>1. \A i \in DOMAIN fwd' : fwd'[i].fib = tx.fib
    BY <1>2, <1>6, <1>13 DEF Asked
  <2>2. upcoming' > Len(delivered) + 1
    BY <1>4, <1>10, <1>13 DEF Asked
  <2> QED BY <1>1, <1>2, <1>13, <2>1, <2>2 DEF Asked
<1>14. ASSUME Answered, tx.fib = rx.bib PROVE Answered'
  <2>1. ASSUME ~rx.nack_pending
        PROVE  /\ upcoming' > Len(delivered)
               /\ \A i \in DOMAIN fwd' :
                    fwd'[i].fib = rx.bib /\ NotBefore(fwd'[i], Len(delivered) + 1)
    <3>1. upcoming > Len(delivered)
      BY <1>14, <2>1 DEF Answered
    <3>2. NotBefore(f, Len(delivered) + 1)
      BY <1>3, <1>4, <3>1 DEF NotBefore
    <3>3. upcoming' > Len(delivered)
      BY <1>4, <1>10, <3>1
    <3> QED BY <1>2, <1>6, <1>14, <2>1, <3>2, <3>3 DEF Answered
  <2> QED BY <1>1, <1>14, <2>1 DEF Answered
<1> QED BY <1>1, <1>2, <1>9, <1>11, <1>12, <1>13, <1>14 DEF NackInv

\* B receives an MSU.  When it asks for a retransmission, one is missing.
LEMMA NackReceiveMsu ==
    ASSUME BasicInv, NackInv, ReceiveMsu
    PROVE  NackInv' /\ (rx'.bib # rx.bib => Head(fwd).msu > Len(delivered) + 1)
<1> DEFINE h == Head(fwd)
           n == Len(delivered)
<1>1. /\ fwd # <<>> /\ h.msu # Fisu /\ fwd' = Tail(fwd)
      /\ rx' = on_msu(rx, h.fsn).rx
      /\ delivered' = IF on_msu(rx, h.fsn).outcome = "Accepted"
                      THEN Append(delivered, h.msu) ELSE delivered
      /\ UNCHANGED <<tx, bwd, submitted>>
  BY DEF ReceiveMsu
<1>2. /\ fwd \in Seq(Frame) /\ n \in Nat /\ upcoming \in Nat /\ rx \in RxControl
      /\ tx.fib \in BOOLEAN /\ rx.bib \in BOOLEAN /\ delivered \in Seq(Msu)
      /\ \A i \in DOMAIN fwd : fwd[i].msu \in Nat /\ fwd[i].fib \in BOOLEAN
  BY NackFacts, OrderFacts DEF BasicInv
<1>3. h = fwd[1] /\ 1 \in DOMAIN fwd /\ h \in Frame
  BY <1>1, <1>2
<1>4. h.fsn \in SequenceNumber
  BY <1>3 DEF Frame
<1>5. \A i \in DOMAIN fwd' :
        i \in Nat /\ i + 1 \in DOMAIN fwd /\ 1 < i + 1 /\ fwd'[i] = fwd[i + 1]
  BY <1>1, <1>2
<1>6. upcoming' = upcoming
  BY <1>1 DEF upcoming, released, sent
<1>7. seq_forward(h.fsn, rx.last_received) = 1 <=> h.msu = n + 1
  BY <1>1, AcceptedIsNext, NextIsAccepted DEF BasicInv
<1>8. CASE rx' = rx /\ Len(delivered') = n
  BY <1>1, <1>2, <1>6, <1>8, NackShorter
<1> HIDE DEF h
<1>9. CASE h.msu = n + 1
  <2>1. rx'.bib = rx.bib /\ ~rx'.nack_pending /\ Len(delivered') = n + 1
    BY <1>1, <1>2, <1>4, <1>7, <1>9, OnMsuNack
  <2>2. h.fib = rx.bib
    BY <1>1, <1>2, <1>3, <1>9 DEF NackInv, BeyondGap, NotBefore
  <2>3. tx.fib = rx.bib
    BY <1>3, <2>2 DEF NackInv, Asked
  <2>4. ASSUME NEW i \in DOMAIN fwd'
        PROVE  /\ fwd'[i].fib = rx.bib /\ NotBefore(fwd'[i], n + 2)
    <3>1. fwd[i + 1].fib = rx.bib
      BY <1>3, <1>5, <2>2, <2>3 DEF NackInv, Rising
    <3>2. NotBefore(fwd[i + 1], h.msu + 1)
      BY <1>1, <1>3, <1>5, <2>2, <3>1 DEF NackInv, Rising
    <3>3. h.msu + 1 = n + 2
      BY <1>2, <1>9
    <3> QED BY <1>5, <3>1, <3>2, <3>3
  <2>5. upcoming > n + 1
    <3>1. h.msu < upcoming
      BY <1>3, <2>2, <2>3 DEF NackInv, SentBefore
    <3> QED BY <1>9, <3>1
  <2>6. Rising(fwd', tx'.fib) /\ SentBefore(fwd', tx'.fib, upcoming')
    <3>1. \A i, j \in DOMAIN fwd' : (i < j => i + 1 < j + 1) /\ (i <= j => i + 1 <= j + 1)
      BY <1>5
    <3>2. Rising(fwd', tx'.fib)
      BY <1>1, <1>5, <3>1 DEF NackInv, Rising
    <3>3. SentBefore(fwd', tx'.fib, upcoming')
      BY <1>1, <1>5, <1>6 DEF NackInv, SentBefore
    <3> QED BY <3>2, <3>3
  <2>7. BeyondGap(fwd', rx'.bib, Len(delivered') + 2)
    BY <2>1, <2>4 DEF BeyondGap
  <2>8. Answered'
    <3>1. \A i \in DOMAIN bwd' : bwd'[i].bib = rx'.bib
      BY <1>1, <2>1, <2>3 DEF NackInv, Answered
    <3>2. (n + 1) + 1 = n + 2
      BY <1>2
    <3> QED BY <1>6, <2>1, <2>4, <2>5, <3>1, <3>2 DEF Answered
  <2> QED BY <1>1, <2>1, <2>3, <2>6, <2>7, <2>8 DEF NackInv
<1>10. CASE h.msu # n + 1 /\ rx'.bib = rx.bib
  <2>1. Len(delivered') = n /\ rx'.nack_pending = rx.nack_pending
    BY <1>1, <1>2, <1>4, <1>7, <1>10, OnMsuNack
  <2>2. rx' = rx
    BY <1>1, <1>2, <1>4, <1>7, <1>10 DEF on_msu, RxControl
  <2> QED BY <1>8, <1>10, <2>1, <2>2
<1>11. CASE h.msu # n + 1 /\ rx'.bib # rx.bib
  <2>1. ~rx.nack_pending /\ rx'.nack_pending /\ Len(delivered') = n
    BY <1>1, <1>2, <1>4, <1>7, <1>11, OnMsuNack
  <2>2. tx.fib = rx.bib /\ Answered
    BY <2>1 DEF NackInv, Asked
  <2>3. h.fib = rx.bib /\ NotBefore(h, n + 1)
    BY <1>3, <2>1, <2>2 DEF Answered
  <2>4. h.msu > n + 1 /\ h.msu \in Nat
    BY <1>1, <1>2, <1>3, <1>11, <2>3 DEF NotBefore
  <2>5. ASSUME NEW i \in DOMAIN fwd'
        PROVE  fwd'[i].fib = tx.fib /\ NotBefore(fwd'[i], n + 2)
    <3>1. fwd[i + 1].fib = rx.bib
      BY <1>5, <2>1, <2>2 DEF Answered
    <3>2. NotBefore(fwd[i + 1], h.msu + 1)
      BY <1>1, <1>3, <1>5, <2>3, <3>1 DEF NackInv, Rising
    <3>3. fwd[i + 1].msu \in Nat
      BY <1>2, <1>5
    <3> QED BY <1>2, <1>5, <2>2, <2>4, <3>1, <3>2, <3>3 DEF NotBefore
  <2>6. upcoming > n + 1
    <3>1. h.msu < upcoming
      BY <1>3, <2>2, <2>3 DEF NackInv, SentBefore
    <3> QED BY <1>2, <2>4, <3>1
  <2>7. Rising(fwd', tx'.fib) /\ SentBefore(fwd', tx'.fib, upcoming')
    <3>1. \A i, j \in DOMAIN fwd' : (i < j => i + 1 < j + 1) /\ (i <= j => i + 1 <= j + 1)
      BY <1>5
    <3>2. Rising(fwd', tx'.fib)
      BY <1>1, <1>5, <3>1 DEF NackInv, Rising
    <3>3. SentBefore(fwd', tx'.fib, upcoming')
      BY <1>1, <1>5, <1>6 DEF NackInv, SentBefore
    <3> QED BY <3>2, <3>3
  <2>8. BeyondGap(fwd', rx'.bib, Len(delivered') + 2)
    BY <2>1, <2>5 DEF BeyondGap
  <2>9. Asked'
    <3>1. \A i \in DOMAIN bwd' : bwd'[i].bib # rx'.bib
      BY <1>1, <1>11, <2>2 DEF Answered
    <3> QED BY <1>1, <1>6, <2>1, <2>5, <2>6, <3>1 DEF Asked
  <2> QED BY <1>1, <1>11, <2>2, <2>4, <2>7, <2>8, <2>9 DEF NackInv, h
<1> QED BY <1>9, <1>10, <1>11

\* A receives a reply: it goes on behind what it frees, or begins again.
LEMMA NackReceiveReply ==
    ASSUME BasicInv, NackInv, OrderInv', ReceiveReply
    PROVE  NackInv'
<1> DEFINE h == Head(bwd)
           n == acknowledged(Buffer, h.bsn)
<1>1. /\ bwd # <<>> /\ tx' = on_ack(tx, h.bsn, h.bib) /\ bwd' = Tail(bwd)
      /\ UNCHANGED <<rx, fwd, submitted, delivered>>
  BY DEF ReceiveReply
<1>2. /\ tx \in TxControl /\ tx.method.name = "Basic" /\ bwd \in Seq(Ack)
      /\ fwd \in Seq(Frame) /\ tx.fib \in BOOLEAN /\ rx.bib \in BOOLEAN
      /\ Len(delivered) \in Nat /\ upcoming \in Nat
      /\ \A i \in DOMAIN fwd : fwd[i].fib \in BOOLEAN
      /\ \A i \in DOMAIN bwd : bwd[i].bib \in BOOLEAN
  BY NackFacts
<1>3. 1 \in DOMAIN bwd /\ h = bwd[1] /\ h \in Ack
  BY <1>1, <1>2
<1>4. h.bsn \in SequenceNumber /\ h.bib \in BOOLEAN
  BY <1>3 DEF Ack
<1>5. tx'.fib = h.bib /\ (h.bib = tx.fib => position(tx') + n >= position(tx))
  BY <1>1, <1>2, <1>4, AckPosition DEF Buffer
<1>6. released' = released + n /\ n \in Nat
  <2>1. TypeInv
    BY DEF BasicInv, OrderInv
  <2>2. n \in 0 .. Len(Buffer)
    BY <1>1, FreedIsDelivered DEF BasicInv
  <2>3. Pending' = Pending /\ Len(Buffer') = Len(Buffer) - n
    BY <1>1, <1>2, <1>4, OnAckCases DEF Pending, Buffer
  <2> HIDE DEF n
  <2>4. n \in Nat
    BY <2>1, <2>2, Counts
  <2> QED BY <1>1, <2>1, <2>3, <2>4, CountsFree
<1> HIDE DEF n
<1>7. upcoming' \in Nat /\ upcoming' = released' + position(tx') + 1
  <2>1. position(tx') \in Nat
    <3>1. tx' \in TxControl
      BY DEF OrderInv, TypeInv, TypeOK
    <3>2. tx'.unacked \in Seq(BufferedMsu)
      BY <3>1 DEF TxControl
    <3> QED BY <3>2 DEF position
  <2>2. released' \in Nat
    BY <1>6, NackFacts
  <2>3. upcoming' = released' + position(tx') + 1
    BY DEF upcoming
  <2> QED BY <2>1, <2>2, <2>3
<1>8. CASE h.bib = tx.fib
  <2>1. upcoming <= upcoming'
    <3>1. position(tx) \in Nat /\ released \in Nat /\ upcoming = released + position(tx) + 1
      BY NackFacts
    <3>2. position(tx') \in Nat
      <4>1. tx' \in TxControl
        BY DEF OrderInv, TypeInv, TypeOK
      <4>2. tx'.unacked \in Seq(BufferedMsu)
        BY <4>1 DEF TxControl
      <4> QED BY <4>2 DEF position
    <3> QED BY <1>5, <1>6, <1>7, <1>8, <3>1, <3>2
  <2> QED BY <1>1, <1>5, <1>7, <1>8, <2>1, NackShorter
<1>9. CASE h.bib # tx.fib
  <2>1. tx.fib # rx.bib /\ Asked
    BY <1>3, <1>9 DEF NackInv, Answered
  <2>2. tx'.fib = rx.bib
    BY <1>2, <1>4, <1>5, <1>9, <2>1
  <2>3. \A i \in DOMAIN fwd : fwd[i].fib # rx.bib
    BY <2>1 DEF Asked
  <2>4. \A i \in DOMAIN bwd' : bwd'[i].bib = rx.bib
    <3>1. \A i \in DOMAIN bwd' : i + 1 \in DOMAIN bwd /\ 1 <= i + 1 /\ bwd'[i] = bwd[i + 1]
      BY <1>1, <1>2
    <3>2. bwd[1].bib = rx.bib
      BY <1>3, <1>5, <2>2
    <3>3. \A j \in DOMAIN bwd : 1 <= j => bwd[j].bib = rx.bib
      BY <1>3, <2>1, <3>2 DEF Asked
    <3> QED BY <3>1, <3>3
  <2>5. Rising(fwd', tx'.fib) /\ SentBefore(fwd', tx'.fib, upcoming')
        /\ BeyondGap(fwd', rx'.bib, Len(delivered') + 2)
    BY <1>1, <2>2, <2>3 DEF NackInv, Rising, SentBefore, BeyondGap
  <2>6. Answered'
    BY <1>1, <2>1, <2>4 DEF Answered, Asked
  <2> QED BY <1>1, <2>2, <2>5, <2>6 DEF NackInv
<1> QED BY <1>8, <1>9

\* B sends a reply.
LEMMA NackReply ==
    ASSUME BasicInv, NackInv, Reply
    PROVE  NackInv'
<1> DEFINE a == [bsn |-> rx.last_received, bib |-> rx.bib, upto |-> Len(delivered)]
<1>1. bwd' = Append(bwd, a) /\ UNCHANGED <<tx, rx, fwd, submitted, delivered>>
  BY DEF Reply
<1>2. a.bib = rx.bib
  OBVIOUS
<1> HIDE DEF a
<1>3. /\ bwd \in Seq(Ack)
      /\ \A i \in DOMAIN bwd' :
            \/ i \in DOMAIN bwd /\ bwd'[i] = bwd[i]
            \/ i = Len(bwd) + 1 /\ bwd'[i] = a
  BY <1>1, NackFacts
<1>4. upcoming' = upcoming
  BY <1>1 DEF upcoming, released, sent
<1>5. ASSUME Asked PROVE Asked'
  <2>1. \A i, j \in DOMAIN bwd' : i <= j /\ bwd'[i].bib = rx.bib => bwd'[j].bib = rx.bib
    <3> SUFFICES ASSUME NEW i \in DOMAIN bwd', NEW j \in DOMAIN bwd',
                        i <= j, bwd'[i].bib = rx.bib
                 PROVE  bwd'[j].bib = rx.bib
      OBVIOUS
    <3>1. CASE j \in DOMAIN bwd /\ bwd'[j] = bwd[j]
      <4>1. i \in DOMAIN bwd /\ bwd'[i] = bwd[i]
        BY <1>3, <3>1
      <4> QED BY <1>5, <3>1, <4>1 DEF Asked
    <3> QED BY <1>2, <1>3, <3>1
  <2> QED BY <1>1, <1>4, <1>5, <2>1 DEF Asked
<1>6. ASSUME Answered PROVE Answered'
  <2>1. \A i \in DOMAIN bwd' : bwd'[i].bib = rx.bib
    BY <1>2, <1>3, <1>6 DEF Answered
  <2> QED BY <1>1, <1>4, <1>6, <2>1 DEF Answered
<1> QED BY <1>1, <1>4, <1>5, <1>6 DEF NackInv

\* Every step keeps the invariant, and B toggles its BIB only when an MSU is
\* missing.
LEMMA NackStep ==
    ASSUME BasicInv, NackInv, OrderInv', [Next]_vars
    PROVE  NackInv' /\ (rx'.bib # rx.bib => Head(fwd).msu > Len(delivered) + 1)
<1>1. upcoming \in Nat /\ upcoming <= upcoming
  BY NackFacts
<1>2. CASE Submit
  <2>1. /\ tx' = submit(tx, submitted') /\ submitted' = submitted + 1
        /\ UNCHANGED <<rx, fwd, bwd, delivered>>
    BY <1>2 DEF Submit
  <2>2. /\ tx'.fib = tx.fib /\ tx'.unacked = tx.unacked
        /\ tx'.pending = Append(tx.pending, submitted')
        /\ tx'.basic_cursor = tx.basic_cursor
    BY <2>1, NackFacts DEF submit, TxControl
  <2>3. Len(Pending') = Len(Pending) + 1
    <3>1. Pending \in Seq(Msu)
      BY Counts DEF BasicInv, OrderInv
    <3> QED BY <2>2, <3>1 DEF Pending
  <2>4. released' = released
    BY <2>1, <2>2, <2>3, CountsSubmit DEF BasicInv, OrderInv, Buffer
  <2>5. upcoming' = upcoming
    BY <2>2, <2>4 DEF upcoming, position
  <2> QED BY <1>1, <2>1, <2>2, <2>5, NackShorter
<1>3. CASE ReceiveFisu \/ LoseFrame \/ LoseReply \/ UNCHANGED vars
  <2>1. /\ UNCHANGED <<tx, rx, submitted, delivered>>
        /\ fwd' = fwd \/ (fwd # <<>> /\ fwd' = Tail(fwd))
        /\ bwd' = bwd \/ (bwd # <<>> /\ bwd' = Tail(bwd))
    BY <1>3 DEF ReceiveFisu, LoseFrame, LoseReply, vars
  <2>2. upcoming' = upcoming
    BY <2>1 DEF upcoming, released, sent
  <2> QED BY <1>1, <2>1, <2>2, NackShorter
<1>4. CASE Transmit
  BY <1>4, NackTransmit DEF Transmit
<1>5. CASE ReceiveReply
  BY <1>5, NackReceiveReply DEF ReceiveReply
<1>6. CASE Reply
  BY <1>6, NackReply DEF Reply
<1>7. CASE ReceiveMsu
  BY <1>7, NackReceiveMsu
<1> QED BY <1>2, <1>3, <1>4, <1>5, <1>6, <1>7 DEF Next

\* Under PCR B toggles nothing.
LEMMA PcrNeverAsks ==
    ASSUME OrderInv, method.name # "Basic", [Next]_vars
    PROVE  rx'.bib = rx.bib
<1>1. CASE ReceiveMsu
  <2>1. fwd # <<>> /\ rx' = on_msu(rx, Head(fwd).fsn).rx
    BY <1>1 DEF ReceiveMsu
  <2>2. rx \in RxControl /\ rx.method.name # "Basic" /\ Head(fwd) \in Frame
    BY <2>1, OrderFacts DEF OrderInv, TypeInv, TypeOK
  <2>3. Head(fwd).fsn \in SequenceNumber
    BY <2>2 DEF Frame
  <2> QED BY <2>1, <2>2, <2>3, OnMsuNack
<1>2. CASE UNCHANGED rx
  BY <1>2
<1> QED BY <1>1, <1>2
      DEF Next, vars, Submit, Transmit, ReceiveFisu, Reply, ReceiveReply, LoseFrame, LoseReply

\* B asks for a retransmission only when an MSU is missing: on_msu would ask for
\* one also at the MSU that it accepted last, and that one never comes again,
\* since a negative acknowledgement acknowledges it first.
THEOREM NackCorrect == ASSUME SafeWindow PROVE Spec => NackOnlyOnGap
<1>1. CASE method.name = "Basic"
  <2>1. Init => NackInv
    BY NackInit
  <2>2. /\ OrderInv /\ OrderInv' /\ NackInv /\ [Next]_vars
        => NackInv' /\ [rx'.bib # rx.bib => Head(fwd).msu > Len(delivered) + 1]_vars
    BY <1>1, NackStep DEF BasicInv
  <2> QED BY <2>1, <2>2, OrderCorrect, PTL DEF Spec, NackOnlyOnGap
<1>2. CASE method.name # "Basic"
  <2>1. OrderInv /\ [Next]_vars
        => [rx'.bib # rx.bib => Head(fwd).msu > Len(delivered) + 1]_vars
    BY <1>2, PcrNeverAsks
  <2> QED BY <2>1, OrderCorrect, PTL DEF Spec, NackOnlyOnGap
<1> QED BY <1>1, <1>2

=============================================================================
