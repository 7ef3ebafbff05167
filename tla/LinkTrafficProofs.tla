--------------------------- MODULE LinkTrafficProofs ---------------------------
(***************************************************************************)
(* Theorems about the two ends of a link and their users (LinkTraffic): no *)
(* MSU that is acknowledged is lost, and a user gets them in order and     *)
(* once, through corruption, congestion, outages, failures and starts of   *)
(* either end, for every modulus, method, configuration and bound.         *)
(*                                                                         *)
(* The sequence numbers begin anew at every start, so the argument is one  *)
(* of periods: DirectionProofs gives each its offset c between the MSUs    *)
(* and their FSNs, and says how far the receiver has got under it.  The    *)
(* lemmas below are the steps of LinkTraffic, one each.                    *)
(*                                                                         *)
(* The last part is about time: a link that nothing disturbs stays in      *)
(* service.                                                                *)
(***************************************************************************)
EXTENDS LinkTraffic, DirectionProofs

(***************************************************************************)
(* The invariant.                                                          *)
(***************************************************************************)

\* No end may carry traffic while its peer has yet to read that it aligns: T4 is
\* many units long.
AlignsFirst ==
    \A l \in Links : \A i \in DOMAIN line[l] :
        line[l][i].kind \in Aligning => link[peer(l)].state \notin Open

\* What l sends and its peer receives.
Direction(l) ==
    Way(link[l].tx, link[peer(l)].rx, link[l].state, link[peer(l)].state,
        line[l], line[peer(l)], submitted[l], delivered[peer(l)], dropped[l])

Recorded ==
    /\ line \in [Links -> Seq(SignalUnit)]
    /\ submitted \in [Links -> Nat] /\ delivered \in [Links -> Nat]
    /\ dropped \in [Links -> SUBSET Nat]

TrafficInv == Engine /\ Recorded /\ AlignsFirst /\ \A l \in Links : Direction(l)

\* The MSUs that are numbered and not yet acknowledged are fewer than the sequence
\* numbers.  With PCR the configured n1 sees to it; the basic method has no bound.
WithinWindow == \A l \in Links : Len(link[l].tx.unacked) < SEQ_MODULUS

\* There are two ends.
LEMMA Peers ==
    ASSUME NEW l \in Links
    PROVE  /\ peer(l) \in Links /\ peer(l) # l /\ peer(peer(l)) = l
           /\ Links = {l, peer(l)}
<1>1. PICK a \in Links, b \in Links : a # b /\ Links = {a, b}
  BY PairBounds
<1>2. \A k \in Links : peer(k) \in Links /\ peer(k) # k
  BY <1>1 DEF peer
<1> QED BY <1>1, <1>2

\* The invariant after a step of l, in its parts.
LEMMA Together ==
    ASSUME NEW l \in Links, Engine', Recorded',
           \A i \in DOMAIN line'[l] :
               line'[l][i].kind \in Aligning => link'[peer(l)].state \notin Open,
           \A i \in DOMAIN line'[peer(l)] :
               line'[peer(l)][i].kind \in Aligning => link'[l].state \notin Open,
           Way(link'[l].tx, link'[peer(l)].rx, link'[l].state, link'[peer(l)].state,
               line'[l], line'[peer(l)], submitted'[l], delivered'[peer(l)], dropped'[l]),
           Way(link'[peer(l)].tx, link'[l].rx, link'[peer(l)].state, link'[l].state,
               line'[peer(l)], line'[l], submitted'[peer(l)], delivered'[l],
               dropped'[peer(l)])
    PROVE  TrafficInv'
<1>1. /\ Links = {l, peer(l)} /\ peer(peer(l)) = l
  BY Peers
<1>2. AlignsFirst'
  BY <1>1 DEF AlignsFirst
<1>3. \A k \in Links : Direction(k)'
  BY <1>1 DEF Direction
<1> QED BY <1>2, <1>3 DEF TrafficInv

\* ... and before it.
LEMMA Apiece ==
    ASSUME TrafficInv, NEW l \in Links
    PROVE  /\ Engine /\ Recorded
           /\ peer(l) \in Links /\ peer(l) # l /\ peer(peer(l)) = l
           /\ Links = {l, peer(l)}
           /\ \A i \in DOMAIN line[l] :
                line[l][i].kind \in Aligning => link[peer(l)].state \notin Open
           /\ \A i \in DOMAIN line[peer(l)] :
                line[peer(l)][i].kind \in Aligning => link[l].state \notin Open
           /\ Way(link[l].tx, link[peer(l)].rx, link[l].state, link[peer(l)].state,
                  line[l], line[peer(l)], submitted[l], delivered[peer(l)], dropped[l])
           /\ Way(link[peer(l)].tx, link[l].rx, link[peer(l)].state, link[l].state,
                  line[peer(l)], line[l], submitted[peer(l)], delivered[l],
                  dropped[peer(l)])
           /\ \A k \in {l, peer(l)} :
                /\ Sound(link[k]) /\ link[k] \in Link
                /\ link[k].tx \in TxControl /\ link[k].rx \in RxControl
                /\ line[k] \in Seq(SignalUnit)
                /\ submitted[k] \in Nat /\ delivered[k] \in Nat
                /\ dropped[k] \in SUBSET Nat
<1>1. peer(l) \in Links /\ peer(l) # l /\ peer(peer(l)) = l /\ Links = {l, peer(l)}
  BY Peers
<1>2. ASSUME NEW k \in Links
      PROVE  /\ Sound(link[k]) /\ link[k] \in Link
             /\ link[k].tx \in TxControl /\ link[k].rx \in RxControl
             /\ line[k] \in Seq(SignalUnit)
             /\ submitted[k] \in Nat /\ delivered[k] \in Nat
             /\ dropped[k] \in SUBSET Nat
  BY DEF TrafficInv, Engine, Recorded, Link
<1>3. Direction(l) /\ Direction(peer(l))
  BY <1>1 DEF TrafficInv
<1> QED BY <1>1, <1>2, <1>3 DEF TrafficInv, Direction, AlignsFirst

\* The history and the lines, as functions.
LEMMA TrafficType ==
    ASSUME TrafficInv
    PROVE  /\ line \in [Links -> Seq(SignalUnit)]
           /\ submitted \in [Links -> Nat] /\ delivered \in [Links -> Nat]
           /\ dropped \in [Links -> SUBSET Nat]
BY DEF TrafficInv, Recorded

\* A call replaces one link.
LEMMA Replaced ==
    ASSUME TrafficInv, NEW l \in Links, NEW n, Becomes(l, n)
    PROVE  link'[l] = n /\ link'[peer(l)] = link[peer(l)]
<1>1. link \in [Links -> Link]
  BY DEF TrafficInv, Engine
<1> QED BY <1>1, Peers DEF Becomes

\* An end before service that has begun to align is as new.
LEMMA FreshEnd ==
    ASSUME NEW k, Sound(k), k.state \notin Open, k.state # "OutOfService"
    PROVE  /\ k.tx.unacked = <<>> /\ k.tx.last_fsn = SEQ_MODULUS - 1
           /\ k.rx.last_received = SEQ_MODULUS - 1
<1>1. Fresh(k) /\ k.state \notin Traffic \cup {"OutOfService"}
  BY DEF Sound, Steady, Open
<1>2. /\ k.rx = RxControl_new(k.config.method)
      /\ k.tx = [TxControl_new(k.config.method) EXCEPT !.pending = k.tx.pending]
  BY <1>1 DEF Fresh
<1> QED BY <1>2 DEF RxControl_new, TxControl_new

(***************************************************************************)
(* The steps.                                                              *)
(***************************************************************************)

\* A call that leaves the error correction alone and brings its link no nearer
\* to its peer, with what is on the line and what has been said unchanged.
LEMMA UnmovedStep ==
    ASSUME TrafficInv, Engine', NEW l \in Links, NEW n, Becomes(l, n), Unmoved(link[l], n),
           UNCHANGED <<line, submitted, delivered, dropped>>
    PROVE  TrafficInv'
<1> DEFINE p == peer(l)
<1>1. link'[l] = n /\ link'[p] = link[p]
  BY Replaced
<1>2. n.tx = link[l].tx /\ n.rx = link[l].rx /\ Keeps(link[l], n)
  BY DEF Unmoved
<1>3. Recorded'
  BY Apiece DEF Recorded
<1>4. /\ \A i \in DOMAIN line'[l] :
            line'[l][i].kind \in Aligning => link'[p].state \notin Open
      /\ \A i \in DOMAIN line'[p] :
            line'[p][i].kind \in Aligning => link'[l].state \notin Open
  BY <1>1, <1>2, Apiece DEF Keeps
<1>5. Way(link'[l].tx, link'[p].rx, link'[l].state, link'[p].state,
          line'[l], line'[p], submitted'[l], delivered'[p], dropped'[l])
  <2>1. Way(link[l].tx, link[p].rx, n.state, link[p].state,
            line[l], line[p], submitted[l], delivered[p], dropped[l])
    BY <1>2, Apiece, WayKeeps DEF Keeps
  <2> QED BY <1>1, <1>2, <2>1
<1>6. Way(link'[p].tx, link'[l].rx, link'[p].state, link'[l].state,
          line'[p], line'[l], submitted'[p], delivered'[l], dropped'[p])
  <2>1. Way(link[p].tx, link[l].rx, link[p].state, n.state,
            line[p], line[l], submitted[p], delivered[l], dropped[p])
    BY <1>2, Apiece, WayKeeps DEF Keeps
  <2> QED BY <1>1, <1>2, <2>1
<1> QED BY <1>3, <1>4, <1>5, <1>6, Together

\* Submit
LEMMA SubmitStep ==
    ASSUME TrafficInv, NEW l \in Links, Submit(l)
    PROVE  TrafficInv'
<1> DEFINE p == peer(l)
           msu == submitted[l] + 1
<1>1. /\ msu \in Msu /\ SubmitMsu(l, msu) /\ submitted' = [submitted EXCEPT ![l] = msu]
      /\ UNCHANGED <<line, dropped, delivered>>
  BY DEF Submit, lineVars
<1>2. PICK n : /\ Becomes(l, n) /\ n.state = link[l].state /\ n.rx = link[l].rx
               /\ n.tx = submit(link[l].tx, msu)
  BY <1>1, Apiece, SubmitMoves
<1>3. link'[l] = n /\ link'[p] = link[p]
  BY <1>2, Replaced
<1>4. Engine'
  BY <1>1, Apiece, EngineTraffic
<1>5. submitted'[l] = msu /\ submitted'[p] = submitted[p]
  BY <1>1, Apiece DEF Recorded
<1>6. Recorded'
  BY <1>1, TrafficType DEF Recorded
<1>7. Way(link'[l].tx, link'[p].rx, link'[l].state, link'[p].state,
          line'[l], line'[p], submitted'[l], delivered'[p], dropped'[l])
  <2>1. Way(submit(link[l].tx, msu), link[p].rx, link[l].state, link[p].state,
            line[l], line[p], msu, delivered[p], dropped[l])
    BY <1>1, Apiece, WaySubmit
  <2> QED BY <1>1, <1>2, <1>3, <1>5, <2>1
<1>8. Way(link'[p].tx, link'[l].rx, link'[p].state, link'[l].state,
          line'[p], line'[l], submitted'[p], delivered'[l], dropped'[p])
  BY <1>1, <1>2, <1>3, <1>5, Apiece
<1> QED BY <1>1, <1>2, <1>3, <1>4, <1>6, <1>7, <1>8, Apiece, Together

\* What a link holds is numbered from the first that is not acknowledged.
LEMMA Kept ==
    ASSUME TrafficInv, NEW l \in Links
    PROVE  /\ acked(link[l].tx, submitted[l]) \in 0 .. submitted[l]
           /\ kept(l) = [i \in 1 .. submitted[l] - acked(link[l].tx, submitted[l])
                            |-> acked(link[l].tx, submitted[l]) + i]
           /\ \A m \in 1 .. acked(link[l].tx, submitted[l]) : arrived(l, m)
<1> DEFINE tx == link[l].tx
           s == submitted[l]
           a == acked(tx, s)
           d == delivered[peer(l)]
           buffered == [i \in DOMAIN tx.unacked |-> tx.unacked[i].msu]
<1>1. PICK c \in Nat, g \in Nat :
        WayAt(c, g, tx, link[peer(l)].rx, link[l].state, link[peer(l)].state,
              line[l], line[peer(l)], s, d, dropped[l])
  BY Apiece DEF Way
<1>2. /\ Numbered(tx, s, c) /\ a <= g /\ \A m \in 1 .. g : m <= d \/ m \in dropped[l]
  BY <1>1 DEF WayAt
<1>3. tx \in TxControl /\ s \in Nat
  BY Apiece
<1>4. a \in Nat /\ a <= s
  BY <1>2, <1>3, NumberedCounts
<1>5. kept(l) = [i \in 1 .. s - a |-> a + i]
  BY <1>2, <1>3, NumberedHolds DEF kept
<1>6. \A m \in 1 .. a : arrived(l, m)
  BY <1>2, <1>4 DEF arrived
<1> QED BY <1>3, <1>4, <1>5, <1>6

\* A user gets no MSU that the other has not submitted.
LEMMA DeliveredSubmitted ==
    ASSUME TrafficInv, NEW l \in Links
    PROVE  delivered[l] <= submitted[peer(l)]
<1> DEFINE s == peer(l)
<1>1. /\ link[s].tx \in TxControl /\ submitted[s] \in Nat /\ delivered[l] \in Nat
      /\ Way(link[s].tx, link[l].rx, link[s].state, link[l].state,
             line[s], line[l], submitted[s], delivered[l], dropped[s])
  BY Apiece
<1> HIDE DEF s
<1>2. PICK c \in Nat, g \in Nat :
        /\ Numbered(link[s].tx, submitted[s], c)
        /\ g <= sent(link[s].tx, submitted[s]) /\ delivered[l] <= g
  BY <1>1 DEF Way, WayAt
<1>3. sent(link[s].tx, submitted[s]) \in Nat /\ sent(link[s].tx, submitted[s]) <= submitted[s]
  BY <1>1, <1>2, NumberedCounts
<1>4. delivered[l] <= submitted[s]
  BY <1>1, <1>2, <1>3
<1> QED BY <1>4 DEF s

\* StartUp: what the link held is gone, and its peer's direction asks nothing of
\* a link that is not aligned.
LEMMA StartStep ==
    ASSUME TrafficInv, NEW l \in Links, StartUp(l)
    PROVE  TrafficInv'
<1> DEFINE p == peer(l)
           k == link[l]
           a == acked(k.tx, submitted[l])
           held == {kept(l)[i] : i \in DOMAIN kept(l)}
           more == dropped[l] \cup held
<1>1. /\ Start(l) /\ dropped' = [dropped EXCEPT ![l] = more]
      /\ UNCHANGED <<line, submitted, delivered>>
  BY DEF StartUp, BringUp, lineVars
<1>2. PICK n : /\ Becomes(l, n) /\ k.state = "OutOfService" /\ n.state = "NotAligned"
               /\ n.tx = TxControl_new(k.config.method) /\ n.tx \in TxControl
               /\ n.rx = RxControl_new(k.config.method)
  BY <1>1, Apiece, StartMoves
<1>3. link'[l] = n /\ link'[p] = link[p]
  BY <1>2, Replaced
<1>4. Engine'
  BY <1>1, Apiece, EngineControl DEF Control
<1>5. a + 1 .. submitted[l] = held /\ held \subseteq Nat
  <2> DEFINE s == submitted[l]
  <2>0. s \in Nat /\ a \in 0 .. s /\ kept(l) = [i \in 1 .. s - a |-> a + i]
    BY Apiece, Kept
  <2> HIDE DEF a, s
  <2>1. a \in Nat /\ a <= s /\ s \in Nat /\ kept(l) = [i \in 1 .. s - a |-> a + i]
    BY <2>0
  <2>2. held = {a + i : i \in 1 .. s - a}
    BY <2>1
  <2>3. \A m \in a + 1 .. s : m - a \in 1 .. s - a /\ a + (m - a) = m
    BY <2>1
  <2>4. \A i \in 1 .. s - a : a + i \in a + 1 .. s /\ a + i \in Nat
    BY <2>1
  <2> HIDE DEF held
  <2> QED BY <2>2, <2>3, <2>4 DEF s
<1>6. Recorded'
  <2>1. more \in SUBSET Nat
    BY <1>5, Apiece
  <2> HIDE DEF more
  <2> QED BY <1>1, <2>1, TrafficType DEF Recorded
<1>7. dropped'[l] = more /\ dropped'[p] = dropped[p]
  BY <1>1, TrafficType, Apiece
<1> HIDE DEF held
<1>8. Way(link'[l].tx, link'[p].rx, link'[l].state, link'[p].state,
          line'[l], line'[p], submitted'[l], delivered'[p], dropped'[l])
  <2>1. /\ n.tx.pending = <<>> /\ n.tx.unacked = <<>> /\ n.tx.last_fsn = SEQ_MODULUS - 1
    BY <1>2 DEF TxControl_new
  <2>2. Way(n.tx, link[p].rx, "NotAligned", link[p].state,
            line[l], line[p], submitted[l], delivered[p], more)
    <3>1. /\ k.tx \in TxControl /\ line[p] \in Seq(SignalUnit)
          /\ submitted[l] \in Nat /\ delivered[p] \in Nat
          /\ Way(k.tx, link[p].rx, k.state, link[p].state,
                 line[l], line[p], submitted[l], delivered[p], dropped[l])
      BY Apiece
    <3>2. dropped[l] \subseteq more /\ a + 1 .. submitted[l] \subseteq more
      BY <1>5
    <3> HIDE DEF more, k
    <3> QED BY <1>2, <2>1, <3>1, <3>2, WayStart
  <2> QED BY <1>1, <1>2, <1>3, <1>7, <2>2
<1>9. Way(link'[p].tx, link'[l].rx, link'[p].state, link'[l].state,
          line'[p], line'[l], submitted'[p], delivered'[l], dropped'[p])
  <2>1. Way(link[p].tx, n.rx, link[p].state, "NotAligned",
            line[p], line[l], submitted[p], delivered[l], dropped[p])
    <3>1. "NotAligned" \notin Open /\ "NotAligned" \in Apart
      BY DEF Open, Apart, Traffic
    <3> QED BY <3>1, Apiece, WayKeeps
  <2> QED BY <1>1, <1>2, <1>3, <1>7, <2>1
<1>10. /\ \A i \in DOMAIN line'[l] :
            line'[l][i].kind \in Aligning => link'[p].state \notin Open
       /\ \A i \in DOMAIN line'[p] :
            line'[p][i].kind \in Aligning => link'[l].state \notin Open
  BY <1>1, <1>2, <1>3, Apiece DEF Open, Traffic
<1> QED BY <1>4, <1>6, <1>8, <1>9, <1>10, Together

\* Send: a FISU or an MSU says how far the link has got as a receiver.
LEMMA SendStep ==
    ASSUME TrafficInv, NEW l \in Links, Send(l), UNCHANGED <<history, holds>>, WithinWindow'
    PROVE  TrafficInv'
<1> DEFINE p == peer(l)
           k == link[l]
           n == poll_transmit(k).link
           su == poll_transmit(k).su
           longer == Append(line[p], su)
<1>1. /\ PollTransmit(l) /\ Becomes(l, n) /\ line' = [line EXCEPT ![p] = longer]
      /\ UNCHANGED <<submitted, delivered, dropped>>
  BY DEF Send, PollTransmit, history
<1>2. /\ n.state = k.state /\ n.rx = k.rx
      /\ su \in SignalUnit /\ su.bsn = k.rx.last_received
      /\ su.kind \in Aligning => k.state \notin Open
      /\ su.kind \in Carrying => k.state \in Open
      /\ \/ n.tx = k.tx /\ su.kind # "MSU"
         \/ /\ k.state = "InService" /\ n.tx = poll(k.tx).tx
            /\ su.kind = "MSU" => /\ su.fsn = poll(k.tx).frame.fsn
                                  /\ su.msu = poll(k.tx).frame.msu
  BY Apiece, PollTransmitMoves
<1>3. link'[l] = n /\ link'[p] = link[p]
  BY <1>1, Replaced
<1>4. Engine'
  BY <1>1, Apiece, EngineTraffic
<1> HIDE DEF n, su, k
<1>5. longer \in Seq(SignalUnit)
  BY <1>2, Apiece
<1>6. /\ line'[l] = line[l] /\ line'[p] = longer
      /\ line' \in [Links -> Seq(SignalUnit)]
  BY <1>1, <1>5, TrafficType, Apiece
<1>7. Recorded'
  BY <1>1, <1>6, TrafficType DEF Recorded
<1>8. /\ \A i \in DOMAIN line'[l] :
            line'[l][i].kind \in Aligning => link'[p].state \notin Open
      /\ \A i \in DOMAIN line'[p] :
            line'[p][i].kind \in Aligning => link'[l].state \notin Open
  <2>1. /\ DOMAIN longer = DOMAIN line[p] \cup {Len(line[p]) + 1}
        /\ \A i \in DOMAIN line[p] : longer[i] = line[p][i]
        /\ longer[Len(line[p]) + 1] = su
    BY <1>2, Apiece, LineAppend
  <2> HIDE DEF longer
  <2> QED BY <1>2, <1>3, <1>6, <2>1, Apiece DEF k
<1>9. Way(n.tx, link[p].rx, k.state, link[p].state,
          line[l], longer, submitted[l], delivered[p], dropped[l])
  <2>1. CASE n.tx = k.tx /\ su.kind # "MSU"
    BY <1>2, <2>1, Apiece, WaySignals DEF k
  <2>2. CASE /\ k.state = "InService" /\ n.tx = poll(k.tx).tx
             /\ su.kind = "MSU" => /\ su.fsn = poll(k.tx).frame.fsn
                                   /\ su.msu = poll(k.tx).frame.msu
    <3>1. Len(poll(k.tx).tx.unacked) < SEQ_MODULUS
      BY <1>3, <2>2 DEF WithinWindow
    <3>2. k.state \notin Apart
      BY <2>2 DEF Apart
    <3>3. k.tx \in TxControl /\ line[p] \in Seq(SignalUnit) /\ submitted[l] \in Nat
          /\ delivered[p] \in Nat
          /\ Way(k.tx, link[p].rx, k.state, link[p].state,
                 line[l], line[p], submitted[l], delivered[p], dropped[l])
      BY Apiece DEF k
    <3>4. Way(poll(k.tx).tx, link[p].rx, k.state, link[p].state,
              line[l], longer, submitted[l], delivered[p], dropped[l])
      BY <1>2, <2>2, <3>1, <3>2, <3>3, WayPoll
    <3> QED BY <2>2, <3>4
  <2> QED BY <1>2, <2>1, <2>2
<1>10. Way(link[p].tx, k.rx, link[p].state, k.state,
           longer, line[l], submitted[p], delivered[l], dropped[p])
  <2>1. su.kind \in Carrying => k.state \notin Apart
    BY <1>2 DEF Open, Apart, Traffic
  <2> QED BY <1>2, <2>1, Apiece, WayReplies DEF k
<1> QED BY <1>1, <1>2, <1>3, <1>4, <1>6, <1>7, <1>8, <1>9, <1>10, Together

\* A unit leaves the line, whatever becomes of it.
LEMMA Arrived ==
    ASSUME TrafficInv, NEW l \in Links, Arrive(l)
    PROVE  /\ line[l] # <<>> /\ Head(line[l]) \in SignalUnit
           /\ line'[l] = Tail(line[l]) /\ line'[peer(l)] = line[peer(l)]
           /\ line' \in [Links -> Seq(SignalUnit)]
           /\ \A i \in DOMAIN Tail(line[l]) :
                Tail(line[l])[i].kind \in Aligning => link[peer(l)].state \notin Open
           /\ Head(line[l]).kind \in Aligning => link[peer(l)].state \notin Open
<1>1. line[l] # <<>> /\ line' = [line EXCEPT ![l] = Tail(line[l])] /\ line[l] \in Seq(SignalUnit)
  BY Apiece DEF Arrive
<1>2. /\ 1 \in DOMAIN line[l] /\ Head(line[l]) = line[l][1] /\ line[l][1] \in SignalUnit
      /\ Tail(line[l]) \in Seq(SignalUnit)
      /\ \A i \in DOMAIN Tail(line[l]) : i + 1 \in DOMAIN line[l] /\ Tail(line[l])[i] = line[l][i + 1]
  BY <1>1, LineFacts
<1>3. /\ line'[l] = Tail(line[l]) /\ line'[peer(l)] = line[peer(l)]
      /\ line' \in [Links -> Seq(SignalUnit)]
  BY <1>1, <1>2, TrafficType, Peers
<1>4. \A i \in DOMAIN line[l] : line[l][i].kind \in Aligning => link[peer(l)].state \notin Open
  BY Apiece
<1> QED BY <1>1, <1>2, <1>3, <1>4

\* What the call passes to the user is what it says in its events.
LEMMA PassedNews ==
    ASSUME TrafficInv, NEW l \in Links, NEW n, Becomes(l, n)
    PROVE  passed(l) = news(link[l].events, n.events)
BY Replaced DEF passed, news

\* Hear, an LSSU or any unit that the SUERM counts too many.
LEMMA HearSignals ==
    ASSUME TrafficInv, Engine', NEW l \in Links, Hear(l),
           NEW n, Becomes(l, n), Signalled(link[l], n, Head(line[l]).kind)
    PROVE  TrafficInv' /\ passed(l) = {}
<1> DEFINE p == peer(l)
           k == link[l]
           q == link[p]
           su == Head(line[l])
           rest == Tail(line[l])
<1>1. /\ Arrive(l) /\ UNCHANGED <<submitted, dropped>>
      /\ delivered' = [delivered EXCEPT ![l] = IF passed(l) = {} THEN @
                                               ELSE CHOOSE m \in passed(l) : TRUE]
  BY DEF Hear, Receive
<1>2. n.tx = k.tx /\ n.rx = k.rx /\ passed(l) = {}
  BY PassedNews DEF Signalled, Quiet
<1>3. delivered' = delivered
  BY <1>1, <1>2, TrafficType
<1>4. link'[l] = n /\ link'[p] = q
  BY Replaced
<1>5. /\ line[l] # <<>> /\ su \in SignalUnit
      /\ line'[l] = rest /\ line'[p] = line[p] /\ line' \in [Links -> Seq(SignalUnit)]
      /\ \A i \in DOMAIN rest : rest[i].kind \in Aligning => q.state \notin Open
      /\ su.kind \in Aligning => q.state \notin Open
  BY <1>1, Arrived
<1>6. /\ Sound(k) /\ Sound(q) /\ k.tx \in TxControl /\ q.tx \in TxControl
      /\ line[l] \in Seq(SignalUnit)
      /\ submitted[l] \in Nat /\ submitted[p] \in Nat
      /\ delivered[l] \in Nat /\ delivered[p] \in Nat
      /\ Way(k.tx, q.rx, k.state, q.state,
             line[l], line[p], submitted[l], delivered[p], dropped[l])
      /\ Way(q.tx, k.rx, q.state, k.state,
             line[p], line[l], submitted[p], delivered[l], dropped[p])
      /\ \A i \in DOMAIN line[p] : line[p][i].kind \in Aligning => k.state \notin Open
  BY Apiece
<1>7. \/ Keeps(k, n)
      \/ k.state = "NotAligned" /\ n.state = "Aligned" /\ su.kind \in Aligning
  BY DEF Signalled
<1> HIDE DEF k, q, su, rest
<1>8. /\ Way(k.tx, q.rx, k.state, q.state,
             rest, line[p], submitted[l], delivered[p], dropped[l])
      /\ Way(q.tx, k.rx, q.state, k.state,
             line[p], rest, submitted[p], delivered[l], dropped[p])
  BY <1>5, <1>6, WayIgnored, WayRefuses DEF rest
<1>9. /\ Way(k.tx, q.rx, n.state, q.state,
             rest, line[p], submitted[l], delivered[p], dropped[l])
      /\ Way(q.tx, k.rx, q.state, n.state,
             line[p], rest, submitted[p], delivered[l], dropped[p])
      /\ n.state \in Open => k.state \in Open
  <2>1. CASE Keeps(k, n)
    BY <1>8, <2>1, WayKeeps DEF Keeps
  <2>2. CASE k.state = "NotAligned" /\ n.state = "Aligned" /\ su.kind \in Aligning
    <3>1. k.state \notin Open /\ k.state # "OutOfService" /\ n.state \notin Open
      BY <2>2 DEF Open, Traffic
    <3>2. q.state \notin Open /\ (q.state \notin Apart => q.state # "OutOfService")
      BY <1>5, <2>2 DEF Apart
    <3>3. /\ k.tx.unacked = <<>> /\ k.tx.last_fsn = SEQ_MODULUS - 1
          /\ k.rx.last_received = SEQ_MODULUS - 1
      BY <1>6, <3>1, FreshEnd
    <3>4. q.state \notin Apart => /\ q.tx.unacked = <<>> /\ q.tx.last_fsn = SEQ_MODULUS - 1
                                  /\ q.rx.last_received = SEQ_MODULUS - 1
      BY <1>6, <3>2, FreshEnd
    <3>5. Way(k.tx, q.rx, n.state, q.state,
              rest, line[p], submitted[l], delivered[p], dropped[l])
      BY <1>6, <1>8, <3>1, <3>2, <3>3, <3>4, WayAligns
    <3>6. Way(q.tx, k.rx, q.state, n.state,
              line[p], rest, submitted[p], delivered[l], dropped[p])
      BY <1>6, <1>8, <3>1, <3>2, <3>3, <3>4, WayAligns
    <3> QED BY <3>1, <3>5, <3>6
  <2> QED BY <1>7, <2>1, <2>2
<1>10. Recorded'
  BY <1>1, <1>3, <1>5, TrafficType DEF Recorded
<1>11. TrafficInv'
  BY <1>1, <1>2, <1>3, <1>4, <1>5, <1>6, <1>9, <1>10, Together DEF q, k
<1> QED BY <1>2, <1>11

\* Hear, a FISU or an MSU.
LEMMA HearTraffic ==
    ASSUME TrafficInv, Engine', NEW l \in Links, Hear(l),
           NEW n, Becomes(l, n), Informed(link[l], n, Head(line[l]))
    PROVE  /\ TrafficInv'
           /\ \A msu \in passed(l) : /\ msu > delivered[l]
                                     /\ delivered[l] + 1 .. msu - 1 \subseteq dropped[peer(l)]
<1> DEFINE p == peer(l)
           k == link[l]
           q == link[p]
           su == Head(line[l])
           rest == Tail(line[l])
<1>1. /\ Arrive(l) /\ UNCHANGED <<submitted, dropped>>
      /\ delivered' = [delivered EXCEPT ![l] = IF passed(l) = {} THEN @
                                               ELSE CHOOSE m \in passed(l) : TRUE]
  BY DEF Hear, Receive
<1>2. /\ su.kind \in Carrying /\ k.state \in Open /\ n.state \in Traffic
      /\ n.tx = on_ack(k.tx, su.bsn, su.bib)
      /\ \/ n.rx.last_received = k.rx.last_received /\ passed(l) = {}
         \/ /\ su.kind = "MSU" /\ on_msu(k.rx, su.fsn).outcome = "Accepted"
            /\ n.rx = on_msu(k.rx, su.fsn).rx /\ passed(l) = {su.msu}
  BY PassedNews DEF Informed
<1>3. link'[l] = n /\ link'[p] = q
  BY Replaced
<1>4. /\ line[l] # <<>> /\ su \in SignalUnit
      /\ line'[l] = rest /\ line'[p] = line[p] /\ line' \in [Links -> Seq(SignalUnit)]
      /\ \A i \in DOMAIN rest : rest[i].kind \in Aligning => q.state \notin Open
  BY <1>1, Arrived
<1>5. /\ k.tx \in TxControl /\ q.tx \in TxControl /\ k.rx \in RxControl
      /\ line[l] \in Seq(SignalUnit)
      /\ submitted[l] \in Nat /\ submitted[p] \in Nat
      /\ delivered[l] \in Nat /\ delivered[p] \in Nat
      /\ Way(k.tx, q.rx, k.state, q.state,
             line[l], line[p], submitted[l], delivered[p], dropped[l])
      /\ Way(q.tx, k.rx, q.state, k.state,
             line[p], line[l], submitted[p], delivered[l], dropped[p])
      /\ \A i \in DOMAIN line[p] : line[p][i].kind \in Aligning => k.state \notin Open
  BY Apiece
<1>6. n.state \in Open /\ k.state \notin Apart
  BY <1>2 DEF Open, Apart, Traffic
<1> HIDE DEF k, q, su, rest
<1>7. Way(n.tx, q.rx, n.state, q.state,
          rest, line[p], submitted[l], delivered[p], dropped[l])
  <2>1. Way(n.tx, q.rx, k.state, q.state,
            rest, line[p], submitted[l], delivered[p], dropped[l])
    BY <1>2, <1>4, <1>5, WayAcknowledged DEF su, rest
  <2> QED BY <1>2, <1>6, <2>1, WayKeeps
<1> DEFINE last == IF passed(l) = {} THEN delivered[l] ELSE CHOOSE m \in passed(l) : TRUE
<1>8. delivered'[l] = last /\ delivered'[p] = delivered[p]
  BY <1>1, TrafficType, Peers
<1>9. /\ last \in Nat
      /\ Way(q.tx, n.rx, q.state, k.state,
             line[p], rest, submitted[p], last, dropped[p])
      /\ \A msu \in passed(l) : /\ msu > delivered[l]
                                /\ delivered[l] + 1 .. msu - 1 \subseteq dropped[p]
  <2>1. CASE n.rx.last_received = k.rx.last_received /\ passed(l) = {}
    <3>1. last = delivered[l]
      BY <2>1
    <3> HIDE DEF last
    <3> QED BY <1>4, <1>5, <2>1, <3>1, WayRefuses DEF rest
  <2>2. CASE /\ su.kind = "MSU" /\ on_msu(k.rx, su.fsn).outcome = "Accepted"
             /\ n.rx = on_msu(k.rx, su.fsn).rx /\ passed(l) = {su.msu}
    <3>1. last = su.msu
      BY <2>2
    <3>2. su.msu \in Nat
      BY <1>4, <2>2, MsuOf
    <3> HIDE DEF last
    <3>3. /\ last \in Nat /\ q.tx \in TxControl /\ k.rx \in RxControl /\ k.state \in Open
          /\ line[l] \in Seq(SignalUnit) /\ line[l] # <<>> /\ su = Head(line[l])
          /\ submitted[p] \in Nat /\ delivered[l] \in Nat
          /\ Way(q.tx, k.rx, q.state, k.state,
                 line[p], line[l], submitted[p], delivered[l], dropped[p])
      BY <1>2, <1>4, <1>5, <3>1, <3>2 DEF su
    <3>4. /\ Way(q.tx, n.rx, q.state, k.state,
                 line[p], Tail(line[l]), submitted[p], last, dropped[p])
          /\ last > delivered[l] /\ delivered[l] + 1 .. last - 1 \subseteq dropped[p]
      <4>1. Accepts(k.rx, Head(line[l]), n.rx, last)
        BY <2>2, <3>1, <3>3 DEF Accepts
      <4> QED BY <3>3, <4>1, WayAccepts
    <3>5. passed(l) = {last}
      BY <2>2, <3>1
    <3> QED BY <3>3, <3>4, <3>5 DEF rest
  <2> QED BY <1>2, <2>1, <2>2
<1> HIDE DEF last
<1>10. Way(q.tx, n.rx, q.state, n.state,
           line[p], rest, submitted[p], last, dropped[p])
  BY <1>2, <1>6, <1>9, WayKeeps
<1>11. Recorded'
  <2>1. delivered' \in [Links -> Nat]
    BY <1>1, <1>9, TrafficType DEF last
  <2> QED BY <1>1, <1>4, <2>1, TrafficType DEF Recorded
<1>12. TrafficInv'
  BY <1>1, <1>2, <1>3, <1>4, <1>5, <1>7, <1>8, <1>10, <1>11, Together DEF q
<1> QED BY <1>9, <1>12

\* Hear
LEMMA HearStep ==
    ASSUME TrafficInv, NEW l \in Links, Hear(l)
    PROVE  /\ TrafficInv'
           /\ \A msu \in passed(l) : /\ msu > delivered[l]
                                     /\ delivered[l] + 1 .. msu - 1 \subseteq dropped[peer(l)]
<1>1. Arrive(l) /\ HandleSu(l, Head(line[l]))
  BY DEF Hear, Receive
<1>2. Head(line[l]) \in SignalUnit
  BY <1>1, Arrived
<1>3. Engine'
  BY <1>1, <1>2, Apiece, EngineTraffic
<1>4. PICK n : /\ Becomes(l, n)
               /\ \/ Signalled(link[l], n, Head(line[l]).kind)
                  \/ Informed(link[l], n, Head(line[l]))
  BY <1>1, <1>2, Apiece, SuHandled
<1> QED BY <1>3, <1>4, HearSignals, HearTraffic
\* ReceiveCorrupted: the unit is lost.
LEMMA CorruptedStep ==
    ASSUME TrafficInv, NEW l \in Links, ReceiveCorrupted(l), UNCHANGED history
    PROVE  TrafficInv'
<1> DEFINE p == peer(l)
           k == link[l]
           q == link[p]
           rest == Tail(line[l])
<1>1. /\ Arrive(l) /\ HandleCorruptedSu(l) /\ UNCHANGED <<submitted, delivered, dropped>>
  BY DEF ReceiveCorrupted, history
<1>2. PICK n : Becomes(l, n) /\ Unmoved(k, n)
  BY <1>1, Apiece, UnmovedCalls
<1>3. n.tx = k.tx /\ n.rx = k.rx /\ Keeps(k, n)
  BY <1>2 DEF Unmoved
<1>4. link'[l] = n /\ link'[p] = q
  BY <1>2, Replaced
<1>5. Engine'
  BY <1>1, Apiece, EngineTraffic
<1>6. /\ line[l] # <<>> /\ line'[l] = rest /\ line'[p] = line[p]
      /\ line' \in [Links -> Seq(SignalUnit)]
      /\ \A i \in DOMAIN rest : rest[i].kind \in Aligning => q.state \notin Open
  BY <1>1, Arrived
<1>7. /\ k.tx \in TxControl /\ q.tx \in TxControl
      /\ line[l] \in Seq(SignalUnit)
      /\ submitted[l] \in Nat /\ submitted[p] \in Nat
      /\ delivered[l] \in Nat /\ delivered[p] \in Nat
      /\ Way(k.tx, q.rx, k.state, q.state,
             line[l], line[p], submitted[l], delivered[p], dropped[l])
      /\ Way(q.tx, k.rx, q.state, k.state,
             line[p], line[l], submitted[p], delivered[l], dropped[p])
      /\ \A i \in DOMAIN line[p] : line[p][i].kind \in Aligning => k.state \notin Open
  BY Apiece
<1> HIDE DEF k, q, rest
<1>8. /\ Way(k.tx, q.rx, k.state, q.state,
             rest, line[p], submitted[l], delivered[p], dropped[l])
      /\ Way(q.tx, k.rx, q.state, k.state,
             line[p], rest, submitted[p], delivered[l], dropped[p])
  BY <1>6, <1>7, WayIgnored, WayRefuses DEF rest
<1>9. /\ Way(k.tx, q.rx, n.state, q.state,
             rest, line[p], submitted[l], delivered[p], dropped[l])
      /\ Way(q.tx, k.rx, q.state, n.state,
             line[p], rest, submitted[p], delivered[l], dropped[p])
      /\ n.state \in Open => k.state \in Open
  BY <1>3, <1>8, WayKeeps DEF Keeps
<1>10. Recorded'
  BY <1>1, <1>6, TrafficType DEF Recorded
<1> QED BY <1>1, <1>3, <1>4, <1>5, <1>6, <1>7, <1>9, <1>10, Together DEF q

\* Clock: the lines are empty, and what T4 opens, or anything else leaves, has
\* nothing to catch up with.
LEMMA ClockStep ==
    ASSUME TrafficInv, NEW l \in Links, Clock(l), UNCHANGED history
    PROVE  TrafficInv'
<1> DEFINE p == peer(l)
           k == link[l]
           q == link[p]
<1>1. /\ Tick(l) /\ line[l] = <<>> /\ line[p] = <<>>
      /\ UNCHANGED <<line, submitted, delivered, dropped>>
  BY Peers DEF Clock, history
<1>2. PICK n : /\ Becomes(l, n) /\ n.tx = k.tx /\ n.rx = k.rx
               /\ \/ Keeps(k, n)
                  \/ k.state = "Proving" /\ n.state \in Open
  BY <1>1, Apiece, TickMoves
<1>3. Engine'
  BY <1>1, Apiece, EngineControl DEF Control
<1>4. CASE Keeps(k, n)
  BY <1>1, <1>2, <1>3, <1>4, UnmovedStep DEF Unmoved
<1>5. CASE k.state = "Proving" /\ n.state \in Open
  <2>1. link'[l] = n /\ link'[p] = q
    BY <1>2, Replaced
  <2>2. /\ Sound(k) /\ Sound(q) /\ k.tx \in TxControl /\ q.tx \in TxControl
        /\ submitted[l] \in Nat /\ submitted[p] \in Nat
        /\ delivered[l] \in Nat /\ delivered[p] \in Nat
        /\ Way(k.tx, q.rx, k.state, q.state,
               <<>>, <<>>, submitted[l], delivered[p], dropped[l])
        /\ Way(q.tx, k.rx, q.state, k.state,
               <<>>, <<>>, submitted[p], delivered[l], dropped[p])
    BY <1>1, Apiece
  <2> HIDE DEF k, q
  <2>3. k.state \notin Apart /\ k.state \notin Open /\ n.state \notin Apart
    BY <1>5 DEF Apart, Open, Traffic
  <2>4. k.rx.last_received = SEQ_MODULUS - 1
    BY <1>5, <2>2, <2>3, FreshEnd
  <2>5. q.state \notin Apart /\ q.state \notin Open => q.rx.last_received = SEQ_MODULUS - 1
    BY <2>2, FreshEnd DEF Apart
  <2>6. /\ Way(k.tx, q.rx, n.state, q.state,
               <<>>, <<>>, submitted[l], delivered[p], dropped[l])
        /\ Way(q.tx, k.rx, q.state, n.state,
               <<>>, <<>>, submitted[p], delivered[l], dropped[p])
    BY <2>2, <2>3, <2>4, <2>5, WayOpens
  <2>7. Recorded'
    BY <1>1, TrafficType DEF Recorded
  <2>8. DOMAIN <<>> = {}
    OBVIOUS
  <2> QED BY <1>1, <1>2, <1>3, <2>1, <2>6, <2>7, <2>8, Together DEF q
<1> QED BY <1>2, <1>4, <1>5

\* What the users, and the drivers when they read events or take a link down, do
\* to a link.
LEMMA QuietStep ==
    ASSUME TrafficInv, NEW l \in Links,
           \/ TakeDown(l) /\ UNCHANGED <<history, holds>>
           \/ Read(l) /\ UNCHANGED <<history, holds>>
           \/ UserGone(l) \/ UserBack(l) \/ UserBusy(l) \/ UserFree(l)
    PROVE  TrafficInv'
<1>1. /\ UNCHANGED <<line, submitted, delivered, dropped>>
      /\ \/ Stop(l) \/ PollEvent(l)
         \/ \E busy \in BOOLEAN : LocalBusy(l, busy)
         \/ LocalProcessorOutage(l) \/ LocalProcessorRecovered(l)
  BY DEF TakeDown, Read, UserGone, UserBack, UserBusy, UserFree, Hold, Release,
         lineVars, history
<1>2. PICK n : Becomes(l, n) /\ Unmoved(link[l], n)
  BY <1>1, Apiece, UnmovedCalls
<1>3. Engine'
  BY <1>1, Apiece, EngineControl DEF Control
<1> QED BY <1>1, <1>2, <1>3, UnmovedStep

\* new, and nothing said: MSU 1 is the first.
LEMMA TrafficBegins == TrafficInit => TrafficInv
<1> SUFFICES ASSUME TrafficInit PROVE TrafficInv
  OBVIOUS
<1>1. Init /\ Engine
  BY EngineInit DEF TrafficInit, PairInit
<1>2. Recorded
  BY DEF TrafficInit, PairInit, Recorded
<1>3. ASSUME NEW l \in Links
      PROVE  /\ line[l] = <<>> /\ submitted[l] = 0 /\ delivered[l] = 0 /\ dropped[l] = {}
             /\ link[l].state = "OutOfService" /\ link[l].tx \in TxControl
             /\ link[l].tx.pending = <<>> /\ link[l].tx.unacked = <<>>
             /\ link[l].tx.last_fsn = SEQ_MODULUS - 1
  <2>1. link[l] = Mtp2Link_new(config[l]) /\ link[l].tx \in TxControl
    BY <1>1 DEF Init, Engine, Link
  <2> QED BY <2>1 DEF TrafficInit, PairInit, Mtp2Link_new, TxControl_new
<1>4. DOMAIN <<>> = {}
  OBVIOUS
<1>5. AlignsFirst
  BY <1>3, <1>4 DEF AlignsFirst
<1>6. ASSUME NEW l \in Links PROVE Direction(l)
  <2> DEFINE tx == link[l].tx
             rx == link[peer(l)].rx
  <2>1. peer(l) \in Links
    BY Peers
  <2>2. PICK c \in Nat : fsn_of(0 + c) = SEQ_MODULUS - 1
    BY FreshOffset
  <2>3. Numbered(tx, 0, c) /\ sent(tx, 0) = 0 /\ acked(tx, 0) = 0
    BY <1>3, <2>2, NumberedNew
  <2>4. "OutOfService" \notin Open /\ "OutOfService" \in Apart
    BY DEF Open, Apart, Traffic
  <2> HIDE DEF tx, rx
  <2>5. WayAt(c, 0, tx, rx, "OutOfService", "OutOfService", <<>>, <<>>, 0, 0, {})
    BY <1>4, <2>3, <2>4 DEF WayAt
  <2>6. Way(tx, rx, "OutOfService", "OutOfService", <<>>, <<>>, 0, 0, {})
    BY <2>5 DEF Way
  <2> QED BY <1>3, <2>1, <2>6 DEF Direction, tx, rx
<1> QED BY <1>1, <1>2, <1>5, <1>6 DEF TrafficInv

\* Every step.
LEMMA TrafficStep ==
    ASSUME TrafficInv, [TrafficNext]_trafficVars, WithinWindow'
    PROVE  TrafficInv'
<1>1. CASE UNCHANGED trafficVars
  <2>1. UNCHANGED <<link, mtp3, line, submitted, delivered, dropped>>
    BY <1>1 DEF trafficVars, pairVars, history
  <2>2. Engine'
    BY <2>1, EngineStutter DEF TrafficInv, vars
  <2>3. AlignsFirst'
    BY <2>1 DEF TrafficInv, AlignsFirst
  <2>4. Recorded'
    BY <2>1 DEF TrafficInv, Recorded
  <2>5. \A l \in Links : Direction(l)'
    BY <2>1 DEF TrafficInv, Direction
  <2> QED BY <2>2, <2>3, <2>4, <2>5 DEF TrafficInv
<1>2. ASSUME NEW l \in Links,
             \/ Submit(l) \/ UserGone(l) \/ UserBack(l) \/ UserBusy(l) \/ UserFree(l)
             \/ StartUp(l) \/ Hear(l) \/ Rest(l)
      PROVE  TrafficInv'
  <2>1. CASE Submit(l)
    BY <2>1, SubmitStep
  <2>2. CASE UserGone(l) \/ UserBack(l) \/ UserBusy(l) \/ UserFree(l)
    BY <2>2, QuietStep
  <2>3. CASE StartUp(l)
    BY <2>3, StartStep
  <2>4. CASE Hear(l)
    BY <2>4, HearStep
  <2>5. CASE Rest(l)
    <3>1. /\ UNCHANGED <<history, holds>>
          /\ Read(l) \/ TakeDown(l) \/ Send(l) \/ ReceiveCorrupted(l) \/ Clock(l)
      BY <2>5 DEF Rest
    <3>2. CASE Read(l) \/ TakeDown(l)
      BY <3>1, <3>2, QuietStep
    <3>3. CASE Send(l)
      BY <3>1, <3>3, SendStep
    <3>4. CASE ReceiveCorrupted(l)
      BY <3>1, <3>4, CorruptedStep
    <3>5. CASE Clock(l)
      BY <3>1, <3>5, ClockStep
    <3> QED BY <3>1, <3>2, <3>3, <3>4, <3>5
  <2> QED BY <1>2, <2>1, <2>2, <2>3, <2>4, <2>5
<1> QED BY <1>1, <1>2 DEF TrafficNext
(***************************************************************************)
(* The window.  PCR keeps to the configured n1 itself; the basic method    *)
(* numbers whatever is submitted, and leaves the window to its user.       *)
(***************************************************************************)

SelfLimited(l) == config[l].method.name = "Pcr" /\ config[l].method.n1 < SEQ_MODULUS

\* A user does not let more MSUs be under way than there are sequence numbers,
\* less one, where the link does not see to it.
UserWindow ==
    \A l \in Links : SelfLimited(l) \/ Len(link[l].tx.unacked) < SEQ_MODULUS

\* The buffer of a link is under its method's n1, if it has one.
Limited(tx, method) ==
    /\ tx.method = method
    /\ method.name = "Pcr" => Len(tx.unacked) \in 0 .. method.n1
N1Kept == \A l \in Links : Limited(link[l].tx, config[l].method)

\* poll, on_ack, submit and new keep the buffer under n1.
LEMMA LimitedTx ==
    ASSUME NEW method \in RetransmissionMethod, NEW tx \in TxControl, Limited(tx, method)
    PROVE  /\ Limited(poll(tx).tx, method)
           /\ \A bsn \in SequenceNumber, bib \in BOOLEAN : Limited(on_ack(tx, bsn, bib), method)
           /\ \A msu \in Msu : Limited(submit(tx, msu), method)
           /\ Limited(TxControl_new(method), method)
<1>1. /\ Len(tx.unacked) \in Nat /\ tx.unacked \in Seq(BufferedMsu)
      /\ method.name = "Pcr" => method.n1 \in Nat
  BY DEF TxControl, RetransmissionMethod, Basic
<1>2. Limited(poll(tx).tx, method)
  <2>1. CASE poll(tx).tx.unacked = tx.unacked
    BY <2>1, PollCases DEF Limited
  <2>2. CASE /\ method.name = "Pcr" => Len(tx.unacked) < method.n1
             /\ \E b : poll(tx).tx.unacked = Append(tx.unacked, b)
    <3>1. Len(poll(tx).tx.unacked) = Len(tx.unacked) + 1
      BY <1>1, <2>2
    <3>2. poll(tx).tx.method = method
      BY PollCases DEF Limited
    <3> QED BY <1>1, <2>2, <3>1, <3>2 DEF Limited
  <2> QED BY <2>1, <2>2, PollCases DEF Limited
<1>3. ASSUME NEW bsn \in SequenceNumber, NEW bib \in BOOLEAN
      PROVE  Limited(on_ack(tx, bsn, bib), method)
  <2> DEFINE d == on_ack(tx, bsn, bib)
             a == acknowledged(tx.unacked, bsn)
  <2>1. d.method = tx.method /\ Len(d.unacked) = Len(tx.unacked) - a
    BY OnAckCases
  <2>2. a \in 0 .. Len(tx.unacked)
    BY <1>1, AcknowledgedRange
  <2> HIDE DEF d, a
  <2>3. Limited(d, method)
    BY <1>1, <2>1, <2>2 DEF Limited
  <2> QED BY <2>3 DEF d
<1>4. ASSUME NEW msu \in Msu PROVE Limited(submit(tx, msu), method)
  BY DEF submit, TxControl, Limited
<1>5. Limited(TxControl_new(method), method)
  BY <1>1 DEF TxControl_new, Limited
<1> QED BY <1>2, <1>3, <1>4, <1>5

\* Whatever a link does, its buffer stays under n1.
LEMMA LinkLimited ==
    ASSUME TrafficInv, N1Kept, NEW l \in Links,
           \/ Submit(l) \/ UserGone(l) \/ UserBack(l) \/ UserBusy(l) \/ UserFree(l)
           \/ StartUp(l) \/ Hear(l) \/ Rest(l)
    PROVE  N1Kept'
<1> DEFINE k == link[l]
           method == config[l].method
<1>1. /\ Sound(k) /\ k \in Link /\ k.tx \in TxControl /\ k.config = config[l]
      /\ method \in RetransmissionMethod /\ Limited(k.tx, method)
  BY Apiece, LinkBounds DEF N1Kept, Engine, Mtp2Config
<1>2. ASSUME NEW n, Becomes(l, n), Limited(n.tx, method)
      PROVE  N1Kept'
  <2>1. link'[l] = n /\ \A j \in Links \ {l} : link'[j] = link[j]
    BY <1>2, Replaced, Peers
  <2> QED BY <1>2, <2>1 DEF N1Kept
<1>3. CASE \/ Stop(l) \/ PollEvent(l) \/ HandleCorruptedSu(l)
           \/ \E busy \in BOOLEAN : LocalBusy(l, busy)
           \/ LocalProcessorOutage(l) \/ LocalProcessorRecovered(l)
  <2>1. PICK n : Becomes(l, n) /\ n.tx = k.tx
    BY <1>1, <1>3, UnmovedCalls DEF Unmoved
  <2> QED BY <1>1, <1>2, <2>1
<1>4. CASE Tick(l)
  <2>1. PICK n : Becomes(l, n) /\ n.tx = k.tx
    BY <1>1, <1>4, TickMoves
  <2> QED BY <1>1, <1>2, <2>1
<1>5. CASE Start(l)
  <2>1. PICK n : Becomes(l, n) /\ n.tx = TxControl_new(method)
    BY <1>1, <1>5, StartMoves
  <2> QED BY <1>1, <1>2, <2>1, LimitedTx
<1>6. ASSUME NEW msu \in Msu, SubmitMsu(l, msu)
      PROVE  N1Kept'
  <2>1. PICK n : Becomes(l, n) /\ n.tx = submit(k.tx, msu)
    BY <1>1, <1>6, SubmitMoves
  <2> QED BY <1>1, <1>2, <2>1, LimitedTx
<1>7. CASE PollTransmit(l)
  <2> DEFINE n == poll_transmit(k).link
  <2>1. Becomes(l, n)
    BY <1>7 DEF PollTransmit
  <2>2. n.tx = k.tx \/ n.tx = poll(k.tx).tx
    BY <1>1, PollTransmitMoves
  <2> HIDE DEF n
  <2> QED BY <1>1, <1>2, <2>1, <2>2, LimitedTx
<1>8. ASSUME NEW su \in SignalUnit, HandleSu(l, su)
      PROVE  N1Kept'
  <2>1. PICK n : Becomes(l, n) /\ (Signalled(k, n, su.kind) \/ Informed(k, n, su))
    BY <1>1, <1>8, SuHandled
  <2>2. su.bsn \in SequenceNumber /\ su.bib \in BOOLEAN
    BY DEF SignalUnit
  <2>3. n.tx = k.tx \/ n.tx = on_ack(k.tx, su.bsn, su.bib)
    BY <2>1 DEF Signalled, Quiet, Informed
  <2>4. Limited(n.tx, method)
    BY <1>1, <2>2, <2>3, LimitedTx
  <2> QED BY <1>2, <2>1, <2>4
<1>9. \/ Stop(l) \/ PollEvent(l) \/ HandleCorruptedSu(l)
      \/ \E busy \in BOOLEAN : LocalBusy(l, busy)
      \/ LocalProcessorOutage(l) \/ LocalProcessorRecovered(l)
      \/ Tick(l) \/ Start(l) \/ PollTransmit(l)
      \/ \E msu \in Msu : SubmitMsu(l, msu)
      \/ \E su \in SignalUnit : HandleSu(l, su)
  <2>1. Arrive(l) => Head(line[l]) \in SignalUnit
    BY Arrived
  <2> QED BY <2>1 DEF Submit, UserGone, UserBack, UserBusy, UserFree, StartUp, BringUp,
                      Hear, Receive, Rest, Read, TakeDown, Send, ReceiveCorrupted, Clock
<1> QED BY <1>3, <1>4, <1>5, <1>6, <1>7, <1>8, <1>9

\* The invariant, with the window that the user or n1 keeps.
LEMMA WindowedStep ==
    ASSUME TrafficInv, N1Kept, [TrafficNext]_trafficVars, UserWindow'
    PROVE  (TrafficInv /\ N1Kept)'
<1>1. N1Kept'
  <2>1. CASE UNCHANGED trafficVars
    BY <2>1 DEF trafficVars, pairVars, N1Kept
  <2>2. CASE TrafficNext
    BY <2>2, LinkLimited DEF TrafficNext
  <2> QED BY <2>1, <2>2
<1>2. WithinWindow'
  <2> SUFFICES ASSUME NEW l \in Links PROVE Len(link'[l].tx.unacked) < SEQ_MODULUS
    BY DEF WithinWindow
  <2>1. CASE SelfLimited(l)
    <3> DEFINE u == Len(link'[l].tx.unacked)
               n1 == config[l].method.n1
    <3>1. u \in 0 .. n1 /\ n1 < SEQ_MODULUS
      BY <1>1, <2>1 DEF N1Kept, Limited, SelfLimited
    <3>2. n1 \in Nat
      BY <2>1, LinkBounds DEF SelfLimited, Mtp2Config, RetransmissionMethod, Basic
    <3> HIDE DEF u, n1
    <3>3. u < SEQ_MODULUS
      BY <3>1, <3>2, SequenceSpace
    <3> QED BY <3>3 DEF u
  <2>2. CASE ~SelfLimited(l)
    BY <2>2 DEF UserWindow
  <2> QED BY <2>1, <2>2
<1> QED BY <1>1, <1>2, TrafficStep

\* new: nothing in the buffers.
LEMMA WindowedBegins == TrafficInit => TrafficInv /\ N1Kept
<1> SUFFICES ASSUME TrafficInit PROVE TrafficInv /\ N1Kept
  OBVIOUS
<1>1. ASSUME NEW l \in Links PROVE Limited(link[l].tx, config[l].method)
  <2> DEFINE method == config[l].method
  <2>1. link[l].tx = TxControl_new(method)
    BY DEF TrafficInit, PairInit, Init, Mtp2Link_new
  <2>2. method.name = "Pcr" => method.n1 \in Nat
    BY LinkBounds DEF Mtp2Config, RetransmissionMethod, Basic
  <2> HIDE DEF method
  <2>3. Limited(TxControl_new(method), method)
    BY <2>2 DEF TxControl_new, Limited
  <2> QED BY <2>1, <2>3 DEF method
<1> QED BY <1>1, TrafficBegins DEF N1Kept

(***************************************************************************)
(* The theorems.                                                           *)
(***************************************************************************)

\* The invariant of the two ends, the line and the history: the numbers of the
\* MSUs, FSNs, BSNs and what has been delivered agree in both directions, through
\* every failure, start and outage.
THEOREM TrafficInvariant == TrafficSpec /\ []UserWindow => [](TrafficInv /\ N1Kept)
<1>1. TrafficInv /\ N1Kept /\ [TrafficNext]_trafficVars /\ UserWindow'
        => (TrafficInv /\ N1Kept)'
  BY WindowedStep
<1> QED BY <1>1, WindowedBegins, PTL DEF TrafficSpec

\* An MSU that was submitted has been delivered, or thrown away by a start(), or
\* is still held by its sender, in order: nothing that an end acknowledges is lost.
THEOREM NothingLostCorrect == TrafficSpec /\ []UserWindow => []NothingLost
<1>1. TrafficInv => NothingLost
  <2> SUFFICES ASSUME TrafficInv, NEW l \in Links
               PROVE  \E first \in 1 .. submitted[l] + 1 :
                        /\ kept(l) = [i \in 1 .. submitted[l] - first + 1 |-> first + i - 1]
                        /\ \A msu \in 1 .. first - 1 : arrived(l, msu)
    BY DEF NothingLost
  <2> DEFINE a == acked(link[l].tx, submitted[l])
             s == submitted[l]
  <2>1. /\ a \in 0 .. s /\ s \in Nat
        /\ kept(l) = [i \in 1 .. s - a |-> a + i]
        /\ \A m \in 1 .. a : arrived(l, m)
    BY Kept, Apiece
  <2> HIDE DEF a, s
  <2>2. a + 1 \in 1 .. s + 1 /\ s - (a + 1) + 1 = s - a /\ (a + 1) - 1 = a
    BY <2>1
  <2>3. [i \in 1 .. s - a |-> a + i] = [i \in 1 .. s - (a + 1) + 1 |-> (a + 1) + i - 1]
    BY <2>1, <2>2
  <2>4. \E first \in 1 .. s + 1 :
          /\ kept(l) = [i \in 1 .. s - first + 1 |-> first + i - 1]
          /\ \A msu \in 1 .. first - 1 : arrived(l, msu)
    BY <2>1, <2>2, <2>3
  <2> QED BY <2>4 DEF s
<1> QED BY <1>1, TrafficInvariant, PTL

\* A user gets the MSUs of the other in the order of their submission and none
\* twice, and misses only those that a start() threw away.
THEOREM UserOrderCorrect == TrafficSpec /\ []UserWindow => InOrderForTheUser
<1>1. TrafficInv
        => [\A l \in Links : \A msu \in passed(l) : Hear(l) =>
              /\ msu > delivered[l]
              /\ delivered[l] + 1 .. msu - 1 \subseteq dropped[peer(l)]]_trafficVars
  BY HearStep
<1> QED BY <1>1, TrafficInvariant, PTL DEF InOrderForTheUser

\* With PCR and an N1 below the modulus the links need no help from their users.
THEOREM PcrCorrect ==
    ASSUME \A l \in Links : SelfLimited(l)
    PROVE  TrafficSpec => []NothingLost /\ InOrderForTheUser
<1>1. UserWindow
  BY DEF UserWindow
<1> QED BY <1>1, NothingLostCorrect, UserOrderCorrect, PTL

(***************************************************************************)
(* Service, while nothing disturbs the line and no user is out or          *)
(* congested: no timer and no signal unit takes it down, if T1 of an end   *)
(* outlasts the proving of the other one, and T7 one tick, as they do by    *)
(* default (Mtp2Config).  The argument is about how far apart the two      *)
(* clocks may be in a round.                                               *)
(***************************************************************************)

TimersOutlast ==
    \A l \in Links :
        LET c == config[l]
            d == config[peer(l)]
        IN  /\ c.t7_excessive_delay > 1 /\ c.t1_aligned_ready > 1
            /\ c.t1_aligned_ready > d.t4_proving_normal
            /\ c.t1_aligned_ready > d.t4_proving_emergency
            /\ MonitorsSet(c)

Ready == {"AlignedReady", "InService"}

\* Neither out nor congested, nor told so by its peer.
Calm(k) ==
    /\ k.state \notin {"AlignedNotReady", "ProcessorOutage"}
    /\ ~k.local_processor_outage /\ ~k.local_busy /\ ~k.remote_busy
    /\ k.state = "Proving" =>
         \/ k.timer["t4"] <= k.config.t4_proving_normal
         \/ k.timer["t4"] <= k.config.t4_proving_emergency

\* What is on its way.
kinds(s) == {s[i].kind : i \in DOMAIN s}

\* What is left of a timer is more than one tick, or its end hears its peer, which
\* has said something in this round, before its next tick.
Lasts(t, in, mine, said) == mine \/ t > 1 \/ (said > 0 => in # {})

\* T1 of one end is ahead of T4 of the other: how far depends on which of them has
\* ticked in this round.
Ahead(t1, t4, mine, other) ==
    /\ t1 > 0 /\ t1 >= t4
    /\ ~mine => t1 > 1 /\ t1 > t4
    /\ ~mine /\ other => t1 > 2 /\ t1 > t4 + 1

\* k is an end and q its peer, `in` and `out` are the kinds on their way to k and
\* from it; mine and other say whether they have ticked in this round, and said
\* how much q has said in it.
Served(k, q, in, out, mine, other, said) ==
    /\ out \cap {"SIPO", "SIB"} = {}
    /\ k.state \in Ready => out \subseteq Carrying
    /\ k.state \in Ready /\ in \cap Carrying # {} => q.state \in Ready
    /\ k.state = "InService" => q.state \in Ready
    /\ k.state = "AlignedReady" /\ q.state = "Proving" =>
         Ahead(k.timer["t1"], q.timer["t4"], mine, other)
    /\ k.state = "AlignedReady" /\ q.state \in Ready => Lasts(k.timer["t1"], in, mine, said)
    /\ k.state = "InService" /\ k.timer["t7"] # Stopped => Lasts(k.timer["t7"], in, mine, said)

CalmEnd(l) ==
    /\ Calm(link[l])
    /\ Served(link[l], link[peer(l)], kinds(line[l]), kinds(line[peer(l)]),
              l \in ticked, peer(l) \in ticked, spoken[peer(l)])

Rounds ==
    /\ line \in [Links -> Seq(SignalUnit)]
    /\ spoken \in [Links -> Nat] /\ ticked \subseteq Links
    /\ disturbed \in Nat /\ holds \in Nat

\* The invariant while all is well, and with it that of the engines.
ServiceInv == Engine /\ Rounds /\ (disturbed = 0 /\ holds = 0 => \A l \in Links : CalmEnd(l))

\* A unit more, a unit less.
LEMMA KindsAppend ==
    ASSUME NEW s \in Seq(SignalUnit), NEW su \in SignalUnit
    PROVE  kinds(Append(s, su)) = kinds(s) \cup {su.kind}
BY LineAppend DEF kinds

LEMMA KindsTail ==
    ASSUME NEW s \in Seq(SignalUnit), s # <<>>
    PROVE  kinds(s) = kinds(Tail(s)) \cup {Head(s).kind}
<1>1. DOMAIN s = 1 .. Len(s) /\ Len(s) \in Nat /\ Len(s) >= 1 /\ Head(s) = s[1]
      /\ DOMAIN Tail(s) = 1 .. Len(s) - 1
      /\ \A i \in DOMAIN Tail(s) : Tail(s)[i] = s[i + 1]
  OBVIOUS
<1>2. ASSUME NEW i \in DOMAIN s PROVE s[i].kind \in kinds(Tail(s)) \cup {Head(s).kind}
  <2>1. CASE i = 1
    BY <1>1, <2>1
  <2>2. CASE i # 1
    <3>1. i - 1 \in DOMAIN Tail(s) /\ Tail(s)[i - 1] = s[i]
      BY <1>1, <2>2
    <3> QED BY <3>1 DEF kinds
  <2> QED BY <2>1, <2>2
<1>3. \A i \in DOMAIN Tail(s) : i + 1 \in DOMAIN s
  BY <1>1
<1>4. kinds(Tail(s)) \subseteq kinds(s) /\ Head(s).kind \in kinds(s)
  BY <1>1, <1>3 DEF kinds
<1> QED BY <1>2, <1>4 DEF kinds

(* What a call does to a calm link, n being the link after it. *)

\* Nothing that matters to its service.
Same(k, n) ==
    /\ n.state = k.state /\ n.config = k.config
    /\ n.timer["t1"] = k.timer["t1"] /\ n.timer["t4"] = k.timer["t4"]
    /\ n.timer["t7"] = k.timer["t7"]

\* A timer of the link ends its service or its alignment.
Expired(k, n) ==
    /\ n.state = "OutOfService"
    /\ k.state = "AlignedReady" => k.timer["t1"] <= 1
    /\ k.state = "InService" => k.timer["t7"] # Stopped /\ k.timer["t7"] <= 1

\* One tick less.
Ticked(k, n) ==
    /\ n.state = k.state
    /\ k.state = "Proving" => k.timer["t4"] > 1 /\ n.timer["t4"] = k.timer["t4"] - 1
    /\ k.state = "AlignedReady" => k.timer["t1"] > 1 /\ n.timer["t1"] = k.timer["t1"] - 1
    /\ k.state = "InService" /\ n.timer["t7"] # Stopped =>
         k.timer["t7"] > 1 /\ n.timer["t7"] = k.timer["t7"] - 1

\* It has proved long enough.
Proved(k, n) ==
    /\ k.state = "Proving" /\ k.timer["t4"] <= 1
    /\ n.state = "AlignedReady" /\ n.timer["t1"] = k.config.t1_aligned_ready

\* handle_su while the peer aligns, or stops.
Aligns(k, n, kind) ==
    /\ kind \notin Carrying
    /\ k.state # "InService" /\ (k.state = "AlignedReady" => kind = "SIOS")
    /\ n.state \in {"OutOfService", "Aligned", "Proving"}

\* handle_su of a FISU or an MSU.
Hears(k, n, kind) ==
    /\ kind \in Carrying /\ k.state \in Ready
    /\ n.state = "InService" /\ n.timer["t7"] \in {Stopped, k.config.t7_excessive_delay}

\* poll_transmit: T7 runs on, or starts.
Speaks(k, n, kind) ==
    /\ n.state = k.state
    /\ n.timer["t1"] = k.timer["t1"] /\ n.timer["t4"] = k.timer["t4"]
    /\ n.timer["t7"] \in {k.timer["t7"], k.config.t7_excessive_delay}
    /\ kind \notin {"SIPO", "SIB"}
    /\ kind \in Carrying <=> k.state \in Ready

LEMMA CalmTick ==
    ASSUME NEW l \in Links, Sound(link[l]), Calm(link[l]), Tick(l)
    PROVE  \E n : Becomes(l, n) /\ Calm(n) /\ (\/ Expired(link[l], n) \/ Proved(link[l], n)
                                               \/ Ticked(link[l], n))
<1> DEFINE k == link[l]
<1>1. /\ k \in Link /\ k.timer \in [Timer -> Nat \cup {Stopped}]
      /\ k.config \in Mtp2Config /\ k.events \in Seq(Event)
      /\ k.timer["t6"] = Stopped
      /\ k.state \in {"OutOfService", "NotAligned", "Aligned", "Proving",
                       "AlignedReady", "InService"}
      /\ ~k.local_processor_outage /\ ~k.local_busy /\ ~k.remote_busy
      /\ k.timer["t4"] # Stopped <=> k.state = "Proving"
      /\ k.timer["t1"] # Stopped <=> k.state = "AlignedReady"
      /\ k.timer["t7"] # Stopped => k.state = "InService"
  BY DEF Sound, Steady, Link, Calm, TimersMatch, Mtp2State, Traffic, guarded
<1>2. /\ k.timer["t4"] \in Nat \cup {Stopped} /\ k.timer["t1"] \in Nat \cup {Stopped}
      /\ k.timer["t7"] \in Nat \cup {Stopped}
  BY <1>1 DEF Timer
<1>3. ASSUME NEW f,
             \/ k.state \in {"NotAligned", "Aligned"}
             \/ k.state = "AlignedReady" /\ acts(k, "t1")
      PROVE  Calm(fail_alignment(k, f)) /\ Expired(k, fail_alignment(k, f))
  <2> DEFINE n == fail_alignment(k, f)
  <2>1. /\ n.state = "OutOfService" /\ n.local_processor_outage = k.local_processor_outage
        /\ n.local_busy = k.local_busy /\ n.remote_busy = k.remote_busy
    BY <1>1 DEF fail_alignment, emit, stop_all_timers, Link
  <2> HIDE DEF n, k
  <2>2. Calm(n)
    BY <1>1, <2>1 DEF Calm
  <2>3. k.state = "AlignedReady" => k.timer["t1"] <= 1
    BY <1>3 DEF acts, expires
  <2>4. k.state # "InService"
    BY <1>3
  <2>5. Expired(k, n)
    BY <2>1, <2>3, <2>4 DEF Expired
  <2> QED BY <2>2, <2>5 DEF n
<1>4. ASSUME NEW r, acts(k, "t7")
      PROVE  Calm(fail_out_of_service(k, r)) /\ Expired(k, fail_out_of_service(k, r))
  <2> DEFINE n == fail_out_of_service(k, r)
  <2>1. /\ n.state = "OutOfService" /\ n.local_processor_outage = k.local_processor_outage
        /\ n.local_busy = FALSE /\ n.remote_busy = FALSE
    BY <1>1 DEF fail_out_of_service, emit, stop_all_timers, Link
  <2>2. k.timer["t7"] # Stopped /\ k.timer["t7"] <= 1 /\ k.state = "InService"
    BY <1>1, <1>4 DEF acts, expires, guarded, Traffic
  <2> HIDE DEF n, k
  <2>3. Calm(n)
    BY <1>1, <2>1 DEF Calm
  <2>4. Expired(k, n)
    BY <2>1, <2>2 DEF Expired
  <2> QED BY <2>3, <2>4 DEF n
<1>5. ASSUME acts(k, "t4")
      PROVE  LET n == proving_succeeded(step(k, {"t2", "t3", "t4"}))
             IN  Calm(n) /\ Proved(k, n)
  <2> DEFINE s == step(k, {"t2", "t3", "t4"})
             n == proving_succeeded(s)
  <2>1. /\ s.local_processor_outage = k.local_processor_outage /\ s.config = k.config
        /\ s.local_busy = k.local_busy /\ s.remote_busy = k.remote_busy
        /\ DOMAIN s.timer = Timer /\ s \in [DOMAIN k -> {s[x] : x \in DOMAIN k}]
        /\ DOMAIN s = DOMAIN k
    BY <1>1 DEF step, Link
  <2> HIDE DEF s
  <2>2. /\ n.state = "AlignedReady" /\ n.local_processor_outage = k.local_processor_outage
        /\ n.local_busy = k.local_busy /\ n.remote_busy = k.remote_busy
        /\ n.timer["t1"] = k.config.t1_aligned_ready
    BY <1>1, <2>1 DEF proving_succeeded, enter_aligned_ready, Timer, Link
  <2> HIDE DEF n
  <2>3. Calm(n) /\ Proved(k, n)
    BY <1>1, <1>5, <2>2 DEF Calm, Proved, acts, expires, guarded
  <2> QED BY <2>3 DEF n, s
<1>6. ASSUME \A x \in Timer : ~acts(k, x)
      PROVE  Calm(step(k, Timer)) /\ Ticked(k, step(k, Timer))
  <2> DEFINE n == step(k, Timer)
  <2>1. /\ n.state = k.state /\ n.local_processor_outage = k.local_processor_outage
        /\ n.local_busy = k.local_busy /\ n.remote_busy = k.remote_busy /\ n.config = k.config
        /\ n.timer = [x \in Timer |-> step_timer(k.timer[x])]
    BY <1>1 DEF step, Link
  <2>2. /\ n.timer["t1"] = step_timer(k.timer["t1"])
        /\ n.timer["t4"] = step_timer(k.timer["t4"])
        /\ n.timer["t7"] = step_timer(k.timer["t7"])
    BY <2>1 DEF Timer
  <2>3. /\ ~acts(k, "t1") /\ ~acts(k, "t4") /\ ~acts(k, "t7")
    BY <1>6 DEF Timer
  <2> HIDE DEF n
  <2>4. k.state = "Proving" => k.timer["t4"] > 1 /\ n.timer["t4"] = k.timer["t4"] - 1
    BY <1>1, <1>2, <2>2, <2>3 DEF acts, expires, guarded, step_timer, Stopped
  <2>5. k.state = "AlignedReady" => k.timer["t1"] > 1 /\ n.timer["t1"] = k.timer["t1"] - 1
    BY <1>1, <1>2, <2>2, <2>3 DEF acts, expires, guarded, step_timer, Stopped
  <2>6. k.state = "InService" /\ n.timer["t7"] # Stopped =>
          k.timer["t7"] > 1 /\ n.timer["t7"] = k.timer["t7"] - 1
    BY <1>1, <1>2, <2>2, <2>3 DEF acts, expires, guarded, Traffic, step_timer, Stopped
  <2>7. /\ k.config.t4_proving_normal \in Nat /\ k.config.t4_proving_emergency \in Nat
    BY <1>1 DEF Mtp2Config
  <2>8. k.state = "Proving" =>
          \/ n.timer["t4"] <= n.config.t4_proving_normal
          \/ n.timer["t4"] <= n.config.t4_proving_emergency
    BY <1>2, <2>1, <2>4, <2>7 DEF Calm, Stopped
  <2> HIDE DEF k
  <2>9. Calm(n)
    BY <1>1, <2>1, <2>8 DEF Calm
  <2>10. Ticked(k, n)
    BY <2>1, <2>4, <2>5, <2>6 DEF Ticked
  <2> QED BY <2>9, <2>10 DEF n
<1>7. \/ (acts(k, "t2") \/ acts(k, "t3")) /\ \E f : Becomes(l, fail_alignment(k, f))
      \/ acts(k, "t1") /\ Becomes(l, fail_alignment(k, "T1Expired"))
      \/ acts(k, "t4") /\ Becomes(l, proving_succeeded(step(k, {"t2", "t3", "t4"})))
      \/ acts(k, "t6")
      \/ acts(k, "t7") /\ Becomes(l, fail_out_of_service(k, "T7Expired"))
      \/ (\A x \in Timer : ~acts(k, x)) /\ Becomes(l, step(k, Timer))
  BY DEF Tick
<1>8. ~acts(k, "t6")
  BY <1>1 DEF acts, expires
<1>9. /\ acts(k, "t2") \/ acts(k, "t3") => k.state \in {"NotAligned", "Aligned"}
      /\ acts(k, "t1") => k.state = "AlignedReady"
  BY DEF acts, guarded
<1> HIDE DEF k
<1> QED BY <1>3, <1>4, <1>5, <1>6, <1>7, <1>8, <1>9 DEF k

\* start, submit_msu and poll_event.
LEMMA CalmStart ==
    ASSUME NEW l \in Links, Sound(link[l]), Calm(link[l]), Start(l)
    PROVE  \E n : /\ Becomes(l, n) /\ Calm(n) /\ link[l].state = "OutOfService"
                  /\ n.state = "NotAligned"
<1> DEFINE k == link[l]
           c == k.config
           n == [k EXCEPT
               !.active = TRUE, !.emergency = c.emergency,
               !.remote_processor_outage = FALSE, !.remote_busy = FALSE,
               !.local_busy = FALSE, !.proving_attempt = 0,
               !.tx = TxControl_new(c.method), !.rx = RxControl_new(c.method),
               !.suerm = Suerm_reset(@),
               !.aerm = Aerm_restart(c.aerm_threshold_normal),
               !.timer = [AllStopped EXCEPT !["t2"] = c.t2_not_aligned],
               !.state = "NotAligned"]
<1>1. Becomes(l, n) /\ k.state = "OutOfService"
  BY DEF Start
<1>2. k \in Link
  BY DEF Sound, Steady
<1> HIDE DEF k
<1>3. /\ n.state = "NotAligned" /\ n.local_processor_outage = k.local_processor_outage
      /\ n.local_busy = FALSE /\ n.remote_busy = FALSE
  BY <1>2 DEF Link
<1> HIDE DEF n
<1>4. Calm(n)
  BY <1>3 DEF Calm, k
<1> QED BY <1>1, <1>3, <1>4 DEF k

LEMMA CalmAside ==
    ASSUME NEW l \in Links, Sound(link[l]), Calm(link[l]),
           PollEvent(l) \/ \E msu \in Msu : SubmitMsu(l, msu)
    PROVE  \E n : Becomes(l, n) /\ Calm(n) /\ Same(link[l], n)
<1> DEFINE k == link[l]
<1>1. k \in Link
  BY DEF Sound, Steady
<1>2. ASSUME NEW n, Becomes(l, n),
             n.state = k.state, n.config = k.config, n.timer = k.timer,
             n.local_processor_outage = k.local_processor_outage,
             n.local_busy = k.local_busy, n.remote_busy = k.remote_busy
      PROVE  \E m : Becomes(l, m) /\ Calm(m) /\ Same(k, m)
  BY <1>2 DEF Calm, Same
<1>3. CASE PollEvent(l)
  <2> DEFINE n == [k EXCEPT !.events = Tail(@)]
  <2>1. Becomes(l, n)
    BY <1>3 DEF PollEvent
  <2> HIDE DEF k
  <2>2. /\ n.state = k.state /\ n.config = k.config /\ n.timer = k.timer
        /\ n.local_processor_outage = k.local_processor_outage
        /\ n.local_busy = k.local_busy /\ n.remote_busy = k.remote_busy
    BY <1>1 DEF Link
  <2> HIDE DEF n
  <2> QED BY <1>2, <2>1, <2>2 DEF k
<1>4. ASSUME NEW msu \in Msu, SubmitMsu(l, msu)
      PROVE  \E m : Becomes(l, m) /\ Calm(m) /\ Same(k, m)
  <2> DEFINE n == [k EXCEPT !.tx = submit(@, msu)]
  <2>1. Becomes(l, n)
    BY <1>4 DEF SubmitMsu
  <2> HIDE DEF k
  <2>2. /\ n.state = k.state /\ n.config = k.config /\ n.timer = k.timer
        /\ n.local_processor_outage = k.local_processor_outage
        /\ n.local_busy = k.local_busy /\ n.remote_busy = k.remote_busy
    BY <1>1 DEF Link
  <2> HIDE DEF n
  <2> QED BY <1>2, <2>1, <2>2 DEF k
<1> QED BY <1>3, <1>4

\* poll_transmit
LEMMA CalmSend ==
    ASSUME NEW k, Sound(k), Calm(k)
    PROVE  LET n == poll_transmit(k).link
           IN  Calm(n) /\ Speaks(k, n, poll_transmit(k).su.kind)
<1> DEFINE asks == k.state = "InService" /\ ~holding(k)
           polled == IF asks THEN poll(k.tx) ELSE [tx |-> k.tx, frame |-> send_fisu(k.tx)]
           guard == /\ k.state = "InService" /\ polled.tx.unacked # <<>>
                    /\ k.timer["t7"] = Stopped
           t7 == IF guard THEN k.config.t7_excessive_delay ELSE k.timer["t7"]
           n == poll_transmit(k).link
           kind == poll_transmit(k).su.kind
<1>1. k \in Link /\ k.state \in Mtp2State /\ k.timer \in [Timer -> Nat \cup {Stopped}]
  BY DEF Sound, Steady, Link
<1>2. n = [k EXCEPT !.tx = polled.tx, !.timer["t7"] = t7]
  BY <1>1 DEF poll_transmit, Link
<1>3. kind = outgoing_kind(k, polled.frame.msu)
  BY DEF poll_transmit
<1> HIDE DEF polled, t7, n, kind
<1>4. /\ n.state = k.state /\ n.config = k.config /\ n.timer = [k.timer EXCEPT !["t7"] = t7]
      /\ n.local_processor_outage = k.local_processor_outage
      /\ n.local_busy = k.local_busy /\ n.remote_busy = k.remote_busy
  BY <1>1, <1>2 DEF Link
<1>5. /\ n.timer["t1"] = k.timer["t1"] /\ n.timer["t4"] = k.timer["t4"]
      /\ n.timer["t7"] = t7
  BY <1>1, <1>4 DEF Timer
<1>6. Calm(n)
  BY <1>4, <1>5 DEF Calm
<1>7. /\ kind \notin {"SIPO", "SIB"}
      /\ kind \in Carrying <=> k.state \in Ready
  BY <1>1, <1>3 DEF outgoing_kind, Calm, Carrying, Ready, Mtp2State, Traffic
<1>8. t7 \in {k.timer["t7"], k.config.t7_excessive_delay}
  BY DEF t7
<1>9. Speaks(k, n, kind)
  BY <1>4, <1>5, <1>7, <1>8 DEF Speaks
<1> QED BY <1>6, <1>9 DEF n, kind

\* handle_su, of what may arrive while all is well.
Hearing(k, n, kind) ==
    \/ Same(k, n) /\ ~(kind \in Carrying /\ k.state \in Ready)
    \/ Aligns(k, n, kind)
    \/ Hears(k, n, kind)

\* All that matters here.
Alike(k, n) ==
    /\ n.state = k.state /\ n.config = k.config /\ n.timer = k.timer
    /\ n.local_processor_outage = k.local_processor_outage
    /\ n.local_busy = k.local_busy /\ n.remote_busy = k.remote_busy

LEMMA AlikeCalls ==
    ASSUME NEW k \in Link
    PROVE  /\ Alike(k, counted(k, FALSE))
           /\ \A e : Alike(k, emit(k, e))
           /\ \A rx : Alike(k, [k EXCEPT !.rx = rx])
           /\ \A status : Alike(k, upgraded(k, status))
           /\ Alike(k, remote_recovered(k))
<1>1. Alike(k, counted(k, FALSE))
  BY DEF Alike, counted, Link
<1>2. \A e : Alike(k, emit(k, e))
  BY DEF Alike, emit, Link
<1>3. \A rx : Alike(k, [k EXCEPT !.rx = rx])
  BY DEF Alike, Link
<1>4. \A status : Alike(k, upgraded(k, status))
  BY DEF Alike, upgraded, Link
<1>5. Alike(k, remote_recovered(k))
  BY DEF Alike, remote_recovered, emit, Link
<1> QED BY <1>1, <1>2, <1>3, <1>4, <1>5

\* A clean unit does not fill the bucket.
LEMMA CleanUnit ==
    ASSUME NEW k, Sound(k), MonitorsSet(k.config)
    PROVE  ~suerm_tripped(counted(k, FALSE))
<1>1. CASE k.state \notin Traffic
  BY <1>1 DEF suerm_tripped, counted
<1>2. CASE k.state \in Traffic
  <2> DEFINE r == k.suerm
             s == Suerm_record(r, FALSE)
             leaks == r.received_since_leak + 1 >= r.decrement_interval
             count == IF leaks THEN saturating_sub(r.count, 1) ELSE r.count
  <2>1. k \in Link /\ r \in Suerm /\ ~r.failed /\ r.count < r.threshold
    BY <1>2 DEF Sound, Steady, Link, WithinErrorRate
  <2>2. r.count \in Nat /\ r.threshold \in Nat
    BY <2>1 DEF Suerm
  <2> HIDE DEF leaks
  <2>3. ~(count >= r.threshold)
    BY <2>2, <2>1 DEF saturating_sub
  <2>4. s.failed = (r.failed \/ count >= r.threshold)
    BY <2>1 DEF Suerm_record, Suerm, leaks
  <2> HIDE DEF count, s
  <2>5. ~s.failed
    BY <2>1, <2>3, <2>4
  <2>6. counted(k, FALSE).suerm = s
    BY <1>2, <2>1 DEF counted, s, Link
  <2> QED BY <2>5, <2>6 DEF suerm_tripped
<1> QED BY <1>1, <1>2

\* handle_lssu
LEMMA CalmLssu ==
    ASSUME NEW l \in Links, NEW c \in Link, Calm(c),
           NEW status \in StatusIndication \ {"SIPO", "SIB"},
           c.state # "InService", HandleLssu(l, c, status)
    PROVE  \E n : Becomes(l, n) /\ Calm(n) /\ Hearing(c, n, status)
<1> DEFINE k == upgraded(c, status)
<1>1. /\ Alike(c, k) /\ status \notin Carrying
      /\ c.state \in {"OutOfService", "NotAligned", "Aligned", "Proving", "AlignedReady"}
  BY AlikeCalls DEF StatusIndication, Aligning, Carrying, Calm, Link, Mtp2State, Traffic
<1>2. /\ k.timer \in [Timer -> Nat \cup {Stopped}] /\ DOMAIN k = DOMAIN c
      /\ k \in [DOMAIN c -> {k[x] : x \in DOMAIN c}]
      /\ DOMAIN c = {"config", "state", "active", "emergency", "local_processor_outage",
                     "remote_processor_outage", "local_busy", "remote_busy",
                     "proving_attempt", "tx", "rx", "aerm", "suerm", "timer", "events"}
  BY DEF upgraded, Link
<1>3. \/ LssuNotAligned(l, k, status) \/ LssuAligned(l, k, status)
      \/ LssuProving(l, k, status) \/ LssuReady(l, k, status)
      \/ LssuTraffic(l, k, status) \/ Becomes(l, k)
  BY DEF HandleLssu
<1> HIDE DEF k
<1>4. /\ k.state = c.state /\ k.config = c.config
      /\ ~k.local_processor_outage /\ ~k.local_busy /\ ~k.remote_busy
  BY <1>1 DEF Alike, Calm
<1>5. ASSUME NEW n, Becomes(l, n), n.state \in {"OutOfService", "Aligned"},
             n.local_processor_outage = k.local_processor_outage,
             n.local_busy = k.local_busy, n.remote_busy = k.remote_busy,
             c.state = "AlignedReady" => status = "SIOS"
      PROVE  \E m : Becomes(l, m) /\ Calm(m) /\ Hearing(c, m, status)
  <2>1. Calm(n)
    BY <1>4, <1>5 DEF Calm
  <2>2. Aligns(c, n, status)
    BY <1>1, <1>5 DEF Aligns
  <2> QED BY <1>5, <2>1, <2>2 DEF Hearing
<1>6. ASSUME NEW f, Becomes(l, fail_alignment(k, f)), c.state = "AlignedReady" => status = "SIOS"
      PROVE  \E m : Becomes(l, m) /\ Calm(m) /\ Hearing(c, m, status)
  <2> DEFINE n == fail_alignment(k, f)
  <2>1. /\ n.state = "OutOfService" /\ n.local_processor_outage = k.local_processor_outage
        /\ n.local_busy = k.local_busy /\ n.remote_busy = k.remote_busy
    BY <1>2 DEF fail_alignment, emit, stop_all_timers
  <2> HIDE DEF n
  <2> QED BY <1>5, <1>6, <2>1 DEF n
<1>7. ASSUME NEW left, Becomes(l, enter_aligned(k, left)), c.state # "AlignedReady"
      PROVE  \E m : Becomes(l, m) /\ Calm(m) /\ Hearing(c, m, status)
  <2> DEFINE n == enter_aligned(k, left)
  <2>1. /\ n.state = "Aligned" /\ n.local_processor_outage = k.local_processor_outage
        /\ n.local_busy = k.local_busy /\ n.remote_busy = k.remote_busy
    BY <1>2 DEF enter_aligned
  <2> HIDE DEF n
  <2> QED BY <1>5, <1>7, <2>1 DEF n
<1>8. ASSUME NEW b, Becomes(l, enter_proving(b)), c.state \in {"Aligned", "Proving"},
             b = k \/ b = [k EXCEPT !.timer["t3"] = Stopped]
      PROVE  \E m : Becomes(l, m) /\ Calm(m) /\ Hearing(c, m, status)
  <2> DEFINE n == enter_proving(b)
             t4 == IF b.emergency THEN b.config.t4_proving_emergency
                   ELSE b.config.t4_proving_normal
  <2>1. /\ DOMAIN b = DOMAIN c /\ b \in [DOMAIN c -> {b[x] : x \in DOMAIN c}]
        /\ DOMAIN b.timer = Timer
        /\ b.config = k.config /\ b.local_processor_outage = k.local_processor_outage
        /\ b.local_busy = k.local_busy /\ b.remote_busy = k.remote_busy
    BY <1>2, <1>8 DEF Timer
  <2>2. b.config.t4_proving_emergency \in Nat /\ b.config.t4_proving_normal \in Nat
    BY <1>4, <2>1 DEF Link, Mtp2Config
  <2>3. /\ n.state = "Proving" /\ n.config = b.config
        /\ n.local_processor_outage = k.local_processor_outage
        /\ n.local_busy = k.local_busy /\ n.remote_busy = k.remote_busy
    BY <1>2, <2>1 DEF enter_proving
  <2>4. n.timer["t4"] = t4
    BY <1>2, <2>1 DEF enter_proving, Timer
  <2> HIDE DEF n
  <2>5. Calm(n)
    BY <1>4, <2>2, <2>3, <2>4 DEF Calm
  <2>6. Aligns(c, n, status)
    BY <1>1, <1>8, <2>3 DEF Aligns
  <2> QED BY <1>8, <2>5, <2>6 DEF Hearing, n
<1>9. CASE LssuNotAligned(l, k, status)
  BY <1>4, <1>7, <1>9 DEF LssuNotAligned
<1>10. CASE LssuAligned(l, k, status)
  BY <1>4, <1>6, <1>8, <1>10 DEF LssuAligned
<1>11. CASE LssuProving(l, k, status)
  BY <1>4, <1>6, <1>7, <1>8, <1>11 DEF LssuProving
<1>12. CASE LssuReady(l, k, status)
  BY <1>4, <1>6, <1>12 DEF LssuReady
<1>13. ~LssuTraffic(l, k, status)
  BY <1>1, <1>4 DEF LssuTraffic, Traffic
<1>14. CASE Becomes(l, k)
  <2>1. Calm(k)
    BY <1>1 DEF Alike, Calm
  <2>2. Same(c, k)
    BY <1>1 DEF Alike, Same
  <2> QED BY <1>1, <1>14, <2>1, <2>2 DEF Hearing
<1> QED BY <1>3, <1>9, <1>10, <1>11, <1>12, <1>13, <1>14

\* process_in_service_su: T7 anew, or stopped.
LEMMA CalmServes ==
    ASSUME NEW k \in Link, Calm(k), k.state = "InService", NEW su
    PROVE  LET n == process_in_service_su(k, su)
           IN  /\ Calm(n) /\ n.state = "InService"
               /\ n.timer["t7"] \in {Stopped, k.config.t7_excessive_delay}
<1> DEFINE a == acknowledge(k, su)
           b == remote_recovered(a)
           n == process_in_service_su(k, su)
           t7 == IF on_ack(k.tx, su.bsn, su.bib).unacked = <<>> THEN Stopped
                 ELSE k.config.t7_excessive_delay
           Bears(m) == /\ m.state = "InService"
                      /\ m.local_processor_outage = k.local_processor_outage
                      /\ m.local_busy = k.local_busy /\ m.remote_busy = k.remote_busy
                      /\ m.timer["t7"] = t7
                      /\ DOMAIN m = DOMAIN k /\ m \in [DOMAIN k -> {m[x] : x \in DOMAIN k}]
<1>1. DOMAIN k = {"config", "state", "active", "emergency", "local_processor_outage",
                  "remote_processor_outage", "local_busy", "remote_busy",
                  "proving_attempt", "tx", "rx", "aerm", "suerm", "timer", "events"}
  BY DEF Link
<1> HIDE DEF t7
<1>2. Bears(a)
  BY DEF acknowledge, Link, Timer, t7
<1> HIDE DEF a
<1>3. \A m, e : Bears(m) => Bears(emit(m, e))
  BY <1>1 DEF emit
<1>4. \A m, rx : Bears(m) => Bears([m EXCEPT !.rx = rx])
  BY <1>1
<1>5. \A m : Bears(m) => Bears([m EXCEPT !.remote_processor_outage = FALSE])
  BY <1>1
<1>6. Bears(b)
  <2> HIDE DEF Bears
  <2> QED BY <1>2, <1>3, <1>5 DEF remote_recovered
<1> HIDE DEF b
<1>7. remote_busy_ended(b) = b
  BY <1>6 DEF remote_busy_ended, Calm
<1>8. Bears(receive_msu(b, su))
  <2> HIDE DEF Bears
  <2> QED BY <1>3, <1>4, <1>6 DEF receive_msu
<1>9. n = IF su.kind = "MSU" THEN receive_msu(b, su) ELSE b
  BY <1>7 DEF process_in_service_su, a, b
<1> HIDE DEF n
<1>10. Bears(n)
  <2> HIDE DEF Bears
  <2> QED BY <1>6, <1>8, <1>9
<1>11. Calm(n)
  BY <1>10 DEF Calm
<1>12. t7 \in {Stopped, k.config.t7_excessive_delay}
  BY DEF t7
<1> QED BY <1>10, <1>11, <1>12 DEF n

\* handle_su
LEMMA CalmHear ==
    ASSUME NEW l \in Links, Sound(link[l]), Calm(link[l]), MonitorsSet(link[l].config),
           NEW su \in SignalUnit, su.kind \notin {"SIPO", "SIB"},
           link[l].state = "InService" => su.kind \in Carrying,
           HandleSu(l, su)
    PROVE  \E n : Becomes(l, n) /\ Calm(n) /\ Hearing(link[l], n, su.kind)
<1> DEFINE k == link[l]
           c == counted(k, FALSE)
<1>1. k \in Link /\ ~suerm_tripped(c) /\ Alike(k, c) /\ Steady(c)
  BY CleanUnit, AlikeCalls, Counted DEF Sound, Steady
<1>2. c \in Link /\ Calm(c)
  BY <1>1 DEF Steady, Alike, Calm
<1>3. \/ su.kind \in StatusIndication /\ HandleLssu(l, c, su.kind)
      \/ su.kind \in Carrying /\ HandleFisuOrMsu(l, c, su)
  BY <1>1 DEF HandleSu, Carrying
<1> HIDE DEF k, c
<1>4. CASE su.kind \in StatusIndication /\ HandleLssu(l, c, su.kind)
  <2>1. c.state # "InService"
    BY <1>1, <1>4 DEF Alike, StatusIndication, Aligning, Carrying, k
  <2>2. PICK n : Becomes(l, n) /\ Calm(n) /\ Hearing(c, n, su.kind)
    BY <1>2, <1>4, <2>1, CalmLssu
  <2>3. Hearing(k, n, su.kind)
    BY <1>1, <2>2 DEF Hearing, Same, Aligns, Hears, Alike
  <2> QED BY <2>2, <2>3 DEF k
<1>5. ASSUME NEW b \in Link, Calm(b), b.state = "InService", b.config = k.config,
             k.state \in Ready, su.kind \in Carrying, Becomes(l, process_in_service_su(b, su))
      PROVE  \E n : Becomes(l, n) /\ Calm(n) /\ Hearing(k, n, su.kind)
  <2> DEFINE n == process_in_service_su(b, su)
  <2>1. /\ Calm(n) /\ n.state = "InService"
        /\ n.timer["t7"] \in {Stopped, b.config.t7_excessive_delay}
    BY <1>5, CalmServes
  <2> HIDE DEF n
  <2>2. Hears(k, n, su.kind)
    BY <1>5, <2>1 DEF Hears
  <2> QED BY <1>5, <2>1, <2>2 DEF Hearing, n
<1>6. CASE su.kind \in Carrying /\ HandleFisuOrMsu(l, c, su)
  <2>1. CASE c.state = "AlignedReady"
    <3> DEFINE b == enter_in_service(c)
    <3>1. Becomes(l, process_in_service_su(b, su))
      BY <1>6, <2>1 DEF HandleFisuOrMsu, Traffic
    <3>2. /\ b.state = "InService" /\ b.config = c.config
          /\ b.local_processor_outage = c.local_processor_outage
          /\ b.local_busy = c.local_busy /\ b.remote_busy = c.remote_busy
      BY <1>2 DEF enter_in_service, emit, Link
    <3>3. b \in Link
      <4>1. ~suerm_tripped(c) => Sound(c)
        BY <1>1, Counted DEF c, k
      <4>2. Sound(b)
        BY <1>1, <2>1, <4>1, EnterInService
      <4> HIDE DEF b
      <4> QED BY <4>2 DEF Sound, Steady
    <3> HIDE DEF b
    <3>4. Calm(b)
      BY <1>2, <3>2 DEF Calm
    <3> QED BY <1>1, <1>5, <1>6, <2>1, <3>1, <3>2, <3>3, <3>4 DEF Alike, Ready, k
  <2>2. CASE c.state \in Traffic
    <3>1. Becomes(l, process_in_service_su(c, su)) /\ c.state = "InService"
      BY <1>2, <1>6, <2>2 DEF HandleFisuOrMsu, Traffic, Calm
    <3> QED BY <1>1, <1>2, <1>5, <1>6, <3>1 DEF Alike, Ready, k
  <2>3. CASE c.state \notin Traffic \cup {"AlignedReady"}
    <3>1. Becomes(l, c)
      BY <1>6, <2>3 DEF HandleFisuOrMsu
    <3>2. Same(k, c) /\ k.state \notin Ready
      BY <1>1, <2>3 DEF Alike, Same, Ready, Traffic
    <3>3. Hearing(k, c, su.kind)
      BY <3>2 DEF Hearing
    <3> QED BY <1>2, <3>1, <3>3 DEF k
  <2> QED BY <2>1, <2>2, <2>3
<1> QED BY <1>3, <1>4, <1>6 DEF k

(***************************************************************************)
(* What such a call leaves of the service between an end k and its peer q. *)
(* a and b are the kinds on their way to k and to q.                       *)
(***************************************************************************)

Pair(k, q, a, b, mine, other, mysaid, said) ==
    Served(k, q, a, b, mine, other, said) /\ Served(q, k, b, a, other, mine, mysaid)

\* The timers that matter are numbers.
Timed(k) ==
    {k.timer["t1"], k.timer["t4"], k.timer["t7"], k.config.t1_aligned_ready,
     k.config.t4_proving_normal, k.config.t4_proving_emergency,
     k.config.t7_excessive_delay} \subseteq Int

LEMMA PairSame ==
    ASSUME NEW k, NEW q, NEW n, NEW a, NEW b, NEW mine \in BOOLEAN, NEW other \in BOOLEAN,
           NEW mysaid, NEW said, Pair(k, q, a, b, mine, other, mysaid, said), Same(k, n)
    PROVE  Pair(n, q, a, b, mine, other, mysaid, said)
BY DEF Pair, Served, Same

\* start
LEMMA PairStarts ==
    ASSUME NEW k, NEW q, NEW n, NEW a, NEW b, NEW mine \in BOOLEAN, NEW other \in BOOLEAN,
           NEW mysaid, NEW said, Pair(k, q, a, b, mine, other, mysaid, said),
           k.state = "OutOfService", n.state = "NotAligned"
    PROVE  Pair(n, q, a, b, mine, other, mysaid, said)
BY DEF Pair, Served, Ready

\* poll_transmit
LEMMA PairSpeaks ==
    ASSUME NEW k, NEW q, NEW n, NEW a, NEW b, NEW mine \in BOOLEAN, NEW other \in BOOLEAN,
           NEW mysaid, NEW said, Pair(k, q, a, b, mine, other, mysaid, said),
           NEW kind, Speaks(k, n, kind), k.config.t7_excessive_delay > 1
    PROVE  Pair(n, q, a, b \cup {kind}, mine, other, mysaid + 1, said)
<1>1. Served(n, q, a, b \cup {kind}, mine, other, said)
  BY DEF Pair, Served, Speaks, Lasts, Ready
<1>2. Served(q, n, b \cup {kind}, a, other, mine, mysaid + 1)
  BY DEF Pair, Served, Speaks, Lasts, Ready
<1> QED BY <1>1, <1>2 DEF Pair

\* handle_su
LEMMA PairHears ==
    ASSUME NEW k, NEW q, NEW n, NEW a, NEW b, NEW mine \in BOOLEAN, NEW other \in BOOLEAN,
           NEW mysaid, NEW said, NEW kind,
           Pair(k, q, a \cup {kind}, b, mine, other, mysaid, said),
           Hearing(k, n, kind), k.config.t7_excessive_delay > 1
    PROVE  Pair(n, q, a, b, mine, other, mysaid, said)
<1>1. CASE Same(k, n) /\ ~(kind \in Carrying /\ k.state \in Ready)
  <2>1. Served(n, q, a, b, mine, other, said)
    BY <1>1 DEF Pair, Served, Same, Lasts, Ready
  <2>2. Served(q, n, b, a, other, mine, mysaid)
    BY <1>1 DEF Pair, Served, Same, Ready
  <2> QED BY <2>1, <2>2 DEF Pair
<1>2. CASE Aligns(k, n, kind)
  <2>1. k.state # "InService" /\ n.state \notin Ready
    BY <1>2 DEF Aligns, Ready
  <2>2. q.state \notin Ready
    BY <1>2 DEF Pair, Served, Aligns
  <2>3. Served(n, q, a, b, mine, other, said)
    BY <2>1, <2>2 DEF Pair, Served, Ready
  <2>4. Served(q, n, b, a, other, mine, mysaid)
    BY <2>1, <2>2 DEF Pair, Served, Ready
  <2> QED BY <2>3, <2>4 DEF Pair
<1>3. CASE Hears(k, n, kind)
  <2>1. q.state \in Ready /\ k.state \in Ready /\ n.state = "InService"
    BY <1>3 DEF Pair, Served, Hears
  <2>2. Served(n, q, a, b, mine, other, said)
    BY <1>3, <2>1 DEF Pair, Served, Hears, Lasts, Ready
  <2>3. Served(q, n, b, a, other, mine, mysaid)
    BY <2>1 DEF Pair, Served, Ready
  <2> QED BY <2>2, <2>3 DEF Pair
<1> QED BY <1>1, <1>2, <1>3 DEF Hearing

\* tick, the first in the round or the second.
LEMMA PairTicks ==
    ASSUME NEW k, NEW q, NEW n, NEW other \in BOOLEAN, NEW mysaid \in Nat, NEW said \in Nat,
           Pair(k, q, {}, {}, FALSE, other, mysaid, said),
           Timed(k), Timed(q), Calm(q),
           k.state \in Ready => mysaid > 0, q.state \in Ready => said > 0,
           k.config.t1_aligned_ready > 1,
           k.config.t1_aligned_ready > q.config.t4_proving_normal,
           k.config.t1_aligned_ready > q.config.t4_proving_emergency,
           Expired(k, n) \/ Proved(k, n) \/ Ticked(k, n)
    PROVE  /\ k.state = "InService" => n.state = "InService"
           /\ ~other => Pair(n, q, {}, {}, TRUE, FALSE, mysaid, said)
           /\ other => Pair(n, q, {}, {}, FALSE, FALSE, 0, 0)
<1>1. /\ k.state = "InService" => q.state \in Ready
      /\ q.state = "InService" => k.state \in Ready
      /\ k.state = "AlignedReady" /\ q.state = "Proving" =>
           Ahead(k.timer["t1"], q.timer["t4"], FALSE, other)
      /\ q.state = "AlignedReady" /\ k.state = "Proving" =>
           Ahead(q.timer["t1"], k.timer["t4"], other, FALSE)
      /\ k.state = "AlignedReady" /\ q.state \in Ready => k.timer["t1"] > 1
      /\ k.state = "InService" /\ k.timer["t7"] # Stopped => k.timer["t7"] > 1
      /\ q.state = "AlignedReady" /\ k.state \in Ready => other \/ q.timer["t1"] > 1
      /\ q.state = "InService" /\ q.timer["t7"] # Stopped => other \/ q.timer["t7"] > 1
  BY DEF Pair, Served, Lasts, Ready
<1>2. /\ k.timer["t1"] \in Int /\ k.timer["t4"] \in Int /\ k.timer["t7"] \in Int
      /\ q.timer["t1"] \in Int /\ q.timer["t4"] \in Int /\ q.timer["t7"] \in Int
      /\ k.config.t1_aligned_ready \in Int
      /\ q.config.t4_proving_normal \in Int /\ q.config.t4_proving_emergency \in Int
  BY DEF Timed
<1> DEFINE Here(mine) ==
             /\ n.state = "InService" => q.state \in Ready
             /\ n.state = "AlignedReady" /\ q.state = "Proving" =>
                  Ahead(n.timer["t1"], q.timer["t4"], mine, FALSE)
           There(mine) ==
             /\ q.state = "InService" => n.state \in Ready
             /\ q.state = "AlignedReady" /\ n.state = "Proving" =>
                  Ahead(q.timer["t1"], n.timer["t4"], FALSE, mine)
             /\ q.state = "AlignedReady" /\ n.state \in Ready => other \/ q.timer["t1"] > 1
             /\ q.state = "InService" /\ q.timer["t7"] # Stopped => other \/ q.timer["t7"] > 1
<1>3. ASSUME Here(~other), There(~other), k.state = "InService" => n.state = "InService"
      PROVE  /\ k.state = "InService" => n.state = "InService"
             /\ ~other => Pair(n, q, {}, {}, TRUE, FALSE, mysaid, said)
             /\ other => Pair(n, q, {}, {}, FALSE, FALSE, 0, 0)
  <2>1. ASSUME ~other PROVE Pair(n, q, {}, {}, TRUE, FALSE, mysaid, said)
    <3>1. Served(n, q, {}, {}, TRUE, FALSE, said)
      BY <1>3, <2>1 DEF Served, Lasts
    <3>2. Served(q, n, {}, {}, FALSE, TRUE, mysaid)
      BY <1>3, <2>1 DEF Served, Lasts
    <3> QED BY <3>1, <3>2 DEF Pair
  <2>2. ASSUME other PROVE Pair(n, q, {}, {}, FALSE, FALSE, 0, 0)
    <3>1. Served(n, q, {}, {}, FALSE, FALSE, 0)
      BY <1>3, <2>2 DEF Served, Lasts, Ahead
    <3>2. Served(q, n, {}, {}, FALSE, FALSE, 0)
      BY <1>3, <2>2 DEF Served, Lasts, Ahead
    <3> QED BY <3>1, <3>2 DEF Pair
  <2> QED BY <1>3, <2>1, <2>2
<1>4. CASE Expired(k, n)
  <2>1. n.state = "OutOfService" /\ k.state # "InService"
    BY <1>1, <1>2, <1>4 DEF Expired, Ready
  <2>2. q.state # "InService"
    BY <1>1, <1>2, <1>4, <2>1 DEF Expired, Ready
  <2>3. Here(~other)
    BY <2>1
  <2>4. There(~other)
    BY <2>1, <2>2 DEF Ready
  <2> QED BY <1>3, <2>1, <2>3, <2>4
<1>5. CASE Proved(k, n)
  <2>1. /\ k.state = "Proving" /\ n.state = "AlignedReady" /\ q.state # "InService"
        /\ n.timer["t1"] = k.config.t1_aligned_ready
    BY <1>1, <1>5 DEF Proved, Ready
  <2>2. q.state = "Proving" => q.timer["t4"] < n.timer["t1"]
    BY <1>2, <2>1 DEF Calm
  <2>3. Here(~other)
    BY <1>2, <2>1, <2>2 DEF Ahead
  <2>4. q.state = "AlignedReady" => other \/ q.timer["t1"] > 1
    BY <1>1, <2>1 DEF Ahead
  <2>5. There(~other)
    BY <2>1, <2>4
  <2> QED BY <1>3, <2>1, <2>3, <2>5
<1>6. CASE Ticked(k, n)
  <2>1. /\ n.state = k.state
        /\ k.state = "Proving" => k.timer["t4"] > 1 /\ n.timer["t4"] = k.timer["t4"] - 1
        /\ k.state = "AlignedReady" => k.timer["t1"] > 1 /\ n.timer["t1"] = k.timer["t1"] - 1
    BY <1>6 DEF Ticked
  <2>2. n.state = "AlignedReady" /\ q.state = "Proving" =>
          Ahead(n.timer["t1"], q.timer["t4"], ~other, FALSE)
    BY <1>1, <1>2, <2>1 DEF Ahead
  <2>3. Here(~other)
    BY <1>1, <2>1, <2>2
  <2>4. q.state = "AlignedReady" /\ n.state = "Proving" =>
          Ahead(q.timer["t1"], n.timer["t4"], FALSE, ~other)
    BY <1>1, <1>2, <2>1 DEF Ahead
  <2>5. There(~other)
    BY <1>1, <2>1, <2>4
  <2> QED BY <1>3, <2>1, <2>3, <2>5
<1> QED BY <1>4, <1>5, <1>6

(***************************************************************************)
(* The steps.                                                              *)
(***************************************************************************)

ServesOn == \A l \in Links : link[l].state \in Traffic => link'[l].state \in Traffic

\* A call replaces one link.
LEMMA OneReplaced ==
    ASSUME Engine, NEW l \in Links, NEW n, Becomes(l, n)
    PROVE  link'[l] = n /\ link'[peer(l)] = link[peer(l)]
BY Peers DEF Engine, Becomes

\* The timers of the ends.
LEMMA TimersSet ==
    ASSUME Engine, TimersOutlast, NEW l \in Links
    PROVE  LET k == link[l]
               d == link[peer(l)].config
           IN  /\ Sound(k) /\ Timed(k) /\ MonitorsSet(k.config)
               /\ k.config.t7_excessive_delay > 1 /\ k.config.t1_aligned_ready > 1
               /\ k.config.t1_aligned_ready > d.t4_proving_normal
               /\ k.config.t1_aligned_ready > d.t4_proving_emergency
<1>1. /\ Sound(link[l]) /\ link[l] \in Link /\ link[l].config = config[l]
      /\ link[peer(l)].config = config[peer(l)]
  BY Peers DEF Engine
<1>2. Timed(link[l])
  <2>1. Nat \cup {Stopped} \subseteq Int
    BY DEF Stopped
  <2>2. /\ link[l].timer \in [Timer -> Nat \cup {Stopped}] /\ link[l].config \in Mtp2Config
        /\ {"t1", "t4", "t7"} \subseteq Timer
    BY <1>1 DEF Link, Timer
  <2>3. /\ link[l].timer["t1"] \in Int /\ link[l].timer["t4"] \in Int
        /\ link[l].timer["t7"] \in Int
    BY <2>1, <2>2
  <2>4. \A x \in {"t1_aligned_ready", "t4_proving_normal", "t4_proving_emergency",
                  "t7_excessive_delay"} : link[l].config[x] \in Int
    BY <2>2 DEF Mtp2Config
  <2> QED BY <2>3, <2>4 DEF Timed
<1> QED BY <1>1, <1>2 DEF TimersOutlast

\* The invariant of the two ends, from one of them.
LEMMA CalmNow ==
    ASSUME NEW l \in Links, \A e \in Links : CalmEnd(e)
    PROVE  /\ Calm(link[l]) /\ Calm(link[peer(l)])
           /\ \E mine \in BOOLEAN, other \in BOOLEAN :
                /\ mine <=> l \in ticked
                /\ other <=> peer(l) \in ticked
                /\ Pair(link[l], link[peer(l)], kinds(line[l]), kinds(line[peer(l)]),
                        mine, other, spoken[l], spoken[peer(l)])
<1>1. peer(l) \in Links /\ peer(peer(l)) = l
  BY Peers
<1>2. CalmEnd(l) /\ CalmEnd(peer(l))
  BY <1>1
<1>3. PICK mine \in BOOLEAN, other \in BOOLEAN :
        (mine <=> l \in ticked) /\ (other <=> peer(l) \in ticked)
  OBVIOUS
<1>4. Served(link[l], link[peer(l)], kinds(line[l]), kinds(line[peer(l)]),
             mine, other, spoken[peer(l)])
  BY <1>2, <1>3 DEF CalmEnd, Served, Lasts, Ahead
<1>5. Served(link[peer(l)], link[l], kinds(line[peer(l)]), kinds(line[l]),
             other, mine, spoken[l])
  BY <1>1, <1>2, <1>3 DEF CalmEnd, Served, Lasts, Ahead
<1> QED BY <1>2, <1>3, <1>4, <1>5 DEF CalmEnd, Pair

LEMMA CalmThen ==
    ASSUME NEW l \in Links, NEW mine \in BOOLEAN, NEW other \in BOOLEAN,
           Calm(link'[l]), Calm(link'[peer(l)]),
           mine <=> l \in ticked', other <=> peer(l) \in ticked',
           Pair(link'[l], link'[peer(l)], kinds(line'[l]), kinds(line'[peer(l)]),
                mine, other, spoken'[l], spoken'[peer(l)])
    PROVE  \A e \in Links : CalmEnd(e)'
<1>1. peer(peer(l)) = l /\ Links = {l, peer(l)}
  BY Peers
<1>2. CalmEnd(l)'
  BY DEF CalmEnd, Served, Lasts, Ahead, Pair
<1>3. CalmEnd(peer(l))'
  BY <1>1 DEF CalmEnd, Served, Lasts, Ahead, Pair
<1> QED BY <1>1, <1>2, <1>3

\* Submit and Read
LEMMA AsideServes ==
    ASSUME Engine, \A e \in Links : CalmEnd(e), NEW l \in Links,
           PollEvent(l) \/ \E msu \in Msu : SubmitMsu(l, msu),
           UNCHANGED <<line, spoken, ticked>>
    PROVE  (\A e \in Links : CalmEnd(e)') /\ ServesOn
<1> DEFINE k == link[l]
           q == link[peer(l)]
<1>1. Calm(k) /\ Calm(q) /\ Sound(k)
  BY CalmNow DEF Engine
<1>2. PICK mine \in BOOLEAN, other \in BOOLEAN :
        /\ mine <=> l \in ticked
        /\ other <=> peer(l) \in ticked
        /\ Pair(k, q, kinds(line[l]), kinds(line[peer(l)]),
                mine, other, spoken[l], spoken[peer(l)])
  BY CalmNow
<1>3. PICK n : Becomes(l, n) /\ Calm(n) /\ Same(k, n)
  BY <1>1, CalmAside
<1>4. link'[l] = n /\ link'[peer(l)] = q
  BY <1>3, OneReplaced
<1>5. Pair(n, q, kinds(line[l]), kinds(line[peer(l)]), mine, other, spoken[l], spoken[peer(l)])
  BY <1>2, <1>3, PairSame
<1>6. \A e \in Links : CalmEnd(e)'
  BY <1>1, <1>2, <1>3, <1>4, <1>5, CalmThen
<1>7. ServesOn
  BY <1>3, <1>4, Peers DEF ServesOn, Same
<1> QED BY <1>6, <1>7

\* StartUp
LEMMA StartServes ==
    ASSUME Engine, \A e \in Links : CalmEnd(e), NEW l \in Links, Start(l),
           UNCHANGED <<line, spoken, ticked>>
    PROVE  (\A e \in Links : CalmEnd(e)') /\ ServesOn
<1> DEFINE k == link[l]
           q == link[peer(l)]
<1>1. Calm(k) /\ Calm(q) /\ Sound(k)
  BY CalmNow DEF Engine
<1>2. PICK mine \in BOOLEAN, other \in BOOLEAN :
        /\ mine <=> l \in ticked
        /\ other <=> peer(l) \in ticked
        /\ Pair(k, q, kinds(line[l]), kinds(line[peer(l)]),
                mine, other, spoken[l], spoken[peer(l)])
  BY CalmNow
<1>3. PICK n : /\ Becomes(l, n) /\ Calm(n) /\ k.state = "OutOfService"
               /\ n.state = "NotAligned"
  BY <1>1, CalmStart
<1>4. link'[l] = n /\ link'[peer(l)] = q
  BY <1>3, OneReplaced
<1>5. Pair(n, q, kinds(line[l]), kinds(line[peer(l)]), mine, other, spoken[l], spoken[peer(l)])
  BY <1>2, <1>3, PairStarts
<1>6. \A e \in Links : CalmEnd(e)'
  BY <1>1, <1>2, <1>3, <1>4, <1>5, CalmThen
<1>7. ServesOn
  BY <1>3, <1>4, Peers DEF ServesOn, Traffic
<1> QED BY <1>6, <1>7

\* Send
LEMMA SendServes ==
    ASSUME Engine, Rounds, TimersOutlast, \A e \in Links : CalmEnd(e), NEW l \in Links, Send(l)
    PROVE  (\A e \in Links : CalmEnd(e)') /\ ServesOn
<1> DEFINE k == link[l]
           q == link[peer(l)]
           n == poll_transmit(k).link
           su == poll_transmit(k).su
<1>1. /\ Calm(k) /\ Calm(q) /\ Sound(k) /\ k.config.t7_excessive_delay > 1
      /\ peer(l) \in Links /\ peer(l) # l
  BY CalmNow, TimersSet, Peers
<1>2. PICK mine \in BOOLEAN, other \in BOOLEAN :
        /\ mine <=> l \in ticked
        /\ other <=> peer(l) \in ticked
        /\ Pair(k, q, kinds(line[l]), kinds(line[peer(l)]),
                mine, other, spoken[l], spoken[peer(l)])
  BY CalmNow
<1>3. /\ Becomes(l, n) /\ line' = [line EXCEPT ![peer(l)] = Append(line[peer(l)], su)]
      /\ spoken' = [spoken EXCEPT ![l] = @ + 1] /\ ticked' = ticked
  BY DEF Send, PollTransmit
<1>4. Calm(n) /\ Speaks(k, n, su.kind)
  BY <1>1, CalmSend
<1>5. su \in SignalUnit
  BY <1>1, PollTransmitMoves
<1>6. link'[l] = n /\ link'[peer(l)] = q
  BY <1>3, OneReplaced
<1> HIDE DEF n, su
<1>7. /\ line'[l] = line[l] /\ line'[peer(l)] = Append(line[peer(l)], su)
      /\ spoken'[l] = spoken[l] + 1 /\ spoken'[peer(l)] = spoken[peer(l)]
  BY <1>1, <1>3 DEF Rounds
<1>8. kinds(line'[peer(l)]) = kinds(line[peer(l)]) \cup {su.kind}
  BY <1>1, <1>5, <1>7, KindsAppend DEF Rounds
<1>9. Pair(n, q, kinds(line[l]), kinds(line[peer(l)]) \cup {su.kind}, mine, other,
           spoken[l] + 1, spoken[peer(l)])
  <2> HIDE DEF k, q
  <2> QED BY <1>1, <1>2, <1>4, PairSpeaks
<1>10. Pair(link'[l], link'[peer(l)], kinds(line'[l]), kinds(line'[peer(l)]), mine, other,
            spoken'[l], spoken'[peer(l)])
  BY <1>6, <1>7, <1>8, <1>9
<1>11. \A e \in Links : CalmEnd(e)'
  BY <1>1, <1>2, <1>3, <1>4, <1>6, <1>10, CalmThen
<1>12. ServesOn
  BY <1>4, <1>6, Peers DEF ServesOn, Speaks
<1> QED BY <1>11, <1>12

\* Hear
LEMMA HearServes ==
    ASSUME Engine, Rounds, TimersOutlast, \A e \in Links : CalmEnd(e), NEW l \in Links, Receive(l)
    PROVE  (\A e \in Links : CalmEnd(e)') /\ ServesOn
<1> DEFINE k == link[l]
           q == link[peer(l)]
           su == Head(line[l])
<1>1. /\ Calm(k) /\ Calm(q) /\ Sound(k) /\ k.config.t7_excessive_delay > 1
      /\ MonitorsSet(k.config)
      /\ peer(l) \in Links /\ peer(l) # l
  BY CalmNow, TimersSet, Peers
<1>2. PICK mine \in BOOLEAN, other \in BOOLEAN :
        /\ mine <=> l \in ticked
        /\ other <=> peer(l) \in ticked
        /\ Pair(k, q, kinds(line[l]), kinds(line[peer(l)]),
                mine, other, spoken[l], spoken[peer(l)])
  BY CalmNow
<1>3. /\ HandleSu(l, su) /\ line[l] # <<>> /\ line[l] \in Seq(SignalUnit)
      /\ line' = [line EXCEPT ![l] = Tail(line[l])]
      /\ UNCHANGED <<spoken, ticked>>
  BY DEF Receive, Arrive, Rounds
<1>4. su \in SignalUnit
  BY <1>3, LineFacts
<1>5. /\ line'[l] = Tail(line[l]) /\ line'[peer(l)] = line[peer(l)]
      /\ kinds(line[l]) = kinds(line'[l]) \cup {su.kind}
  BY <1>1, <1>3, KindsTail DEF Rounds
<1> HIDE DEF su
<1>6. Pair(k, q, kinds(line'[l]) \cup {su.kind}, kinds(line[peer(l)]), mine, other,
           spoken[l], spoken[peer(l)])
  BY <1>2, <1>5
<1>7. su.kind \notin {"SIPO", "SIB"} /\ (k.state = "InService" => su.kind \in Carrying)
  BY <1>6 DEF Pair, Served
<1>8. PICK n : Becomes(l, n) /\ Calm(n) /\ Hearing(k, n, su.kind)
  BY <1>1, <1>3, <1>4, <1>7, CalmHear
<1>9. link'[l] = n /\ link'[peer(l)] = q
  BY <1>8, OneReplaced
<1>10. Pair(n, q, kinds(line'[l]), kinds(line[peer(l)]), mine, other,
            spoken[l], spoken[peer(l)])
  <2> HIDE DEF k, q
  <2> QED BY <1>1, <1>6, <1>8, PairHears
<1>11. Pair(link'[l], link'[peer(l)], kinds(line'[l]), kinds(line'[peer(l)]), mine, other,
            spoken'[l], spoken'[peer(l)])
  BY <1>3, <1>5, <1>9, <1>10
<1>12. \A e \in Links : CalmEnd(e)'
  BY <1>1, <1>2, <1>3, <1>8, <1>9, <1>11, CalmThen
<1>13. k.state \in Traffic => n.state \in Traffic
  BY <1>1, <1>7, <1>8 DEF Hearing, Same, Aligns, Hears, Traffic, Calm
<1>14. ServesOn
  BY <1>9, <1>13, Peers DEF ServesOn
<1> QED BY <1>12, <1>14

\* Clock
LEMMA ClockServes ==
    ASSUME Engine, Rounds, TimersOutlast, \A e \in Links : CalmEnd(e), NEW l \in Links, Clock(l)
    PROVE  (\A e \in Links : CalmEnd(e)') /\ ServesOn
<1> DEFINE k == link[l]
           p == peer(l)
           q == link[p]
           d == q.config
<1>1. /\ Calm(k) /\ Calm(q) /\ Sound(k) /\ Timed(k) /\ Timed(q)
      /\ p \in Links /\ p # l /\ Links = {l, p}
      /\ k.config.t1_aligned_ready > 1
      /\ k.config.t1_aligned_ready > d.t4_proving_normal
      /\ k.config.t1_aligned_ready > d.t4_proving_emergency
  BY CalmNow, TimersSet, Peers
<1>2. PICK mine \in BOOLEAN, other \in BOOLEAN :
        /\ mine <=> l \in ticked
        /\ other <=> p \in ticked
        /\ Pair(k, q, kinds(line[l]), kinds(line[p]), mine, other, spoken[l], spoken[p])
  BY CalmNow
<1>3. /\ Tick(l) /\ l \notin ticked /\ line' = line
      /\ line[l] = <<>> /\ line[p] = <<>>
      /\ spoken[l] > 0 \/ ~transmitting(k)
      /\ spoken[p] > 0 \/ ~transmitting(q)
      /\ IF ticked = {} THEN ticked' = {l} /\ UNCHANGED spoken
                        ELSE ticked' = {} /\ spoken' = [end \in Links |-> 0]
  BY <1>1 DEF Clock
<1>4. kinds(<<>>) = {}
  BY DEF kinds
<1>5. /\ mine = FALSE /\ spoken[l] \in Nat /\ spoken[p] \in Nat
      /\ k.state \in Ready => spoken[l] > 0
      /\ q.state \in Ready => spoken[p] > 0
  BY <1>1, <1>2, <1>3 DEF Rounds, transmitting, Ready
<1>6. PICK n : Becomes(l, n) /\ Calm(n) /\ (Expired(k, n) \/ Proved(k, n) \/ Ticked(k, n))
  BY <1>1, <1>3, CalmTick
<1>7. link'[l] = n /\ link'[p] = q
  BY <1>6, OneReplaced
<1>8. Pair(k, q, {}, {}, FALSE, other, spoken[l], spoken[p])
  BY <1>2, <1>3, <1>4, <1>5
<1>9. /\ k.state = "InService" => n.state = "InService"
      /\ ~other => Pair(n, q, {}, {}, TRUE, FALSE, spoken[l], spoken[p])
      /\ other => Pair(n, q, {}, {}, FALSE, FALSE, 0, 0)
  <2> HIDE DEF k, q
  <2> QED BY <1>1, <1>5, <1>6, <1>8, PairTicks
<1>10. kinds(line'[l]) = {} /\ kinds(line'[p]) = {}
  BY <1>3, <1>4
<1> HIDE DEF p, q
<1>11. ASSUME ~other PROVE \A e \in Links : CalmEnd(e)'
  <2>1. ticked = {}
    BY <1>1, <1>2, <1>3, <1>11 DEF Rounds
  <2>2. (l \in ticked') = TRUE /\ (p \in ticked') = FALSE /\ spoken' = spoken
    BY <1>1, <1>3, <2>1
  <2>3. Pair(n, q, kinds(line'[l]), kinds(line'[p]), TRUE, FALSE, spoken'[l], spoken'[p])
    BY <1>9, <1>10, <1>11, <2>2
  <2> QED BY <1>1, <1>6, <1>7, <2>2, <2>3, CalmThen DEF p, q
<1>12. ASSUME other PROVE \A e \in Links : CalmEnd(e)'
  <2>1. ticked # {}
    BY <1>2, <1>12
  <2>2. (l \in ticked') = FALSE /\ (p \in ticked') = FALSE /\ spoken'[l] = 0 /\ spoken'[p] = 0
    BY <1>1, <1>3, <2>1
  <2>3. Pair(n, q, kinds(line'[l]), kinds(line'[p]), FALSE, FALSE, spoken'[l], spoken'[p])
    BY <1>9, <1>10, <1>12, <2>2
  <2> QED BY <1>1, <1>6, <1>7, <2>2, <2>3, CalmThen DEF p, q
<1>13. k.state \in Traffic => n.state \in Traffic
  BY <1>1, <1>9 DEF Calm, Traffic
<1>14. ServesOn
  BY <1>1, <1>7, <1>13 DEF ServesOn, q
<1> QED BY <1>11, <1>12, <1>14

\* The engines, the lines and the counters in every step.
LEMMA RoundsStep ==
    ASSUME Engine, Rounds, [TrafficNext]_trafficVars
    PROVE  Engine' /\ Rounds'
<1>1. CASE UNCHANGED trafficVars
  <2>1. UNCHANGED <<link, mtp3, line, spoken, ticked, disturbed, holds>>
    BY <1>1 DEF trafficVars, pairVars
  <2> QED BY <2>1, EngineStutter DEF vars, Rounds
<1>2. ASSUME NEW l \in Links,
             \/ Submit(l) \/ UserGone(l) \/ UserBack(l) \/ UserBusy(l) \/ UserFree(l)
             \/ StartUp(l) \/ Hear(l) \/ Rest(l)
      PROVE  Engine' /\ Rounds'
  <2>1. CASE Submit(l)
    <3>1. (\E msu \in Msu : SubmitMsu(l, msu)) /\ UNCHANGED <<lineVars, holds>>
      BY <2>1 DEF Submit
    <3> QED BY <3>1, EngineTraffic DEF lineVars, Rounds
  <2>2. CASE UserGone(l) \/ UserBack(l) \/ UserBusy(l) \/ UserFree(l)
    <3>1. Control(l) /\ UNCHANGED lineVars /\ (holds' = holds \/ holds' = holds + 1)
      BY <2>2 DEF UserGone, UserBack, UserBusy, UserFree, Hold, Release, Control
    <3> QED BY <3>1, EngineControl DEF lineVars, Rounds
  <2>3. CASE StartUp(l)
    <3>1. Start(l) /\ UNCHANGED <<lineVars, holds>>
      BY <2>3 DEF StartUp, BringUp
    <3> QED BY <3>1, EngineControl DEF Control, lineVars, Rounds
  <2>4. CASE Hear(l) \/ (ReceiveCorrupted(l) /\ UNCHANGED holds)
    <3>1. /\ Arrive(l) /\ UNCHANGED <<spoken, ticked, holds>>
          /\ disturbed' = disturbed \/ disturbed' = disturbed + 1
          /\ HandleSu(l, Head(line[l])) \/ HandleCorruptedSu(l)
      BY <2>4 DEF Hear, Receive, ReceiveCorrupted, Arrive, Disturb
    <3>2. /\ line[l] # <<>> /\ line[l] \in Seq(SignalUnit)
          /\ line' = [line EXCEPT ![l] = Tail(line[l])]
      BY <3>1 DEF Arrive, Rounds
    <3>3. Head(line[l]) \in SignalUnit /\ Tail(line[l]) \in Seq(SignalUnit)
      BY <3>2, LineFacts
    <3>4. Engine'
      BY <3>1, <3>3, EngineTraffic
    <3>5. line' \in [Links -> Seq(SignalUnit)]
      BY <3>2, <3>3 DEF Rounds
    <3> QED BY <3>1, <3>4, <3>5 DEF Rounds
  <2>5. CASE (Read(l) \/ TakeDown(l)) /\ UNCHANGED holds
    <3>1. /\ Control(l) /\ UNCHANGED <<line, spoken, ticked, holds>>
          /\ disturbed' = disturbed \/ disturbed' = disturbed + 1
      BY <2>5 DEF Read, TakeDown, Control, lineVars, Disturb
    <3> QED BY <3>1, EngineControl DEF Rounds
  <2>6. CASE Send(l) /\ UNCHANGED holds
    <3> DEFINE su == poll_transmit(link[l]).su
    <3>1. /\ PollTransmit(l) /\ line' = [line EXCEPT ![peer(l)] = Append(line[peer(l)], su)]
          /\ spoken' = [spoken EXCEPT ![l] = @ + 1] /\ UNCHANGED <<ticked, disturbed, holds>>
      BY <2>6 DEF Send
    <3>2. su \in SignalUnit
      BY PollTransmitMoves DEF Engine
    <3> HIDE DEF su
    <3>3. Append(line[peer(l)], su) \in Seq(SignalUnit)
      BY <3>2, Peers, LineAppend DEF Rounds
    <3>4. line' \in [Links -> Seq(SignalUnit)] /\ spoken' \in [Links -> Nat]
      <4>1. line \in [Links -> Seq(SignalUnit)] /\ spoken \in [Links -> Nat]
        BY DEF Rounds
      <4>2. line' \in [Links -> Seq(SignalUnit)]
        BY <3>1, <3>3, <4>1
      <4>3. spoken' \in [Links -> Nat]
        BY <3>1, <4>1
      <4> QED BY <4>2, <4>3
    <3>5. Engine'
      BY <3>1, EngineTraffic
    <3> QED BY <3>1, <3>4, <3>5 DEF Rounds
  <2>7. CASE Clock(l) /\ UNCHANGED holds
    <3>1. /\ Tick(l) /\ UNCHANGED <<line, disturbed, holds>>
          /\ ticked' \in {{l}, {}}
          /\ spoken' = spoken \/ spoken' = [end \in Links |-> 0]
      BY <2>7 DEF Clock
    <3> QED BY <3>1, EngineControl DEF Control, Rounds
  <2> QED BY <1>2, <2>1, <2>2, <2>3, <2>4, <2>5, <2>6, <2>7 DEF Rest
<1> QED BY <1>1, <1>2 DEF TrafficNext

\* Every step while nothing disturbs the line, the last one included: the user may
\* go, or be busy, in it.
LEMMA CalmStep ==
    ASSUME Engine, Rounds, TimersOutlast, \A e \in Links : CalmEnd(e),
           disturbed' = 0, TrafficNext
    PROVE  /\ ServesOn
           /\ holds' = holds => \A e \in Links : CalmEnd(e)'
<1>1. PICK l \in Links :
        \/ Submit(l) \/ UserGone(l) \/ UserBack(l) \/ UserBusy(l) \/ UserFree(l)
        \/ StartUp(l) \/ Hear(l) \/ Rest(l)
  BY DEF TrafficNext
<1>2. Calm(link[l]) /\ Sound(link[l]) /\ link[l] \in Link /\ holds \in Nat /\ disturbed \in Nat
  BY CalmNow DEF Engine, Rounds
<1>3. CASE UserGone(l) \/ UserBusy(l)
  <2>0. holds' = holds + 1
    BY <1>3 DEF UserGone, UserBusy, Hold
  <2>1. holds' # holds
    BY <1>2, <2>0
  <2>2. PICK n : /\ Becomes(l, n)
                 /\ link[l].state \in Traffic => n.state \in Traffic
    <3> DEFINE k == link[l]
               m == [k EXCEPT !.local_processor_outage = TRUE]
    <3>1. CASE UserBusy(l)
      <4>1. Becomes(l, [k EXCEPT !.local_busy = TRUE])
        BY <3>1 DEF UserBusy, LocalBusy
      <4>2. [k EXCEPT !.local_busy = TRUE].state = k.state
        BY <1>2 DEF Link
      <4> QED BY <4>1, <4>2
    <3>2. CASE UserGone(l)
      <4>1. m.state = k.state /\ [m EXCEPT !.state = "ProcessorOutage"].state = "ProcessorOutage"
        BY <1>2 DEF Link
      <4>2. \/ Becomes(l, [m EXCEPT !.state = "ProcessorOutage"])
            \/ k.state \notin Traffic /\ \E n : Becomes(l, n)
            \/ Becomes(l, m)
        BY <3>2, <4>1 DEF UserGone, LocalProcessorOutage, Traffic
      <4> HIDE DEF m, k
      <4> QED BY <4>1, <4>2 DEF Traffic, k
    <3> QED BY <1>3, <3>1, <3>2
  <2>3. ServesOn
    BY <2>2, OneReplaced, Peers DEF ServesOn
  <2> QED BY <2>1, <2>3
<1>4. ~UserBack(l) /\ ~UserFree(l)
  BY <1>2 DEF UserBack, UserFree, Calm
<1>5. CASE Submit(l)
  BY <1>5, AsideServes DEF Submit, lineVars
<1>6. CASE StartUp(l)
  BY <1>6, StartServes DEF StartUp, BringUp, lineVars
<1>7. CASE Hear(l)
  BY <1>7, HearServes DEF Hear
<1>8. CASE Rest(l)
  <2>1. ~Disturb
    BY <1>2 DEF Disturb
  <2>2. Read(l) \/ Send(l) \/ Clock(l)
    BY <1>8, <2>1 DEF Rest, TakeDown, ReceiveCorrupted
  <2>3. CASE Read(l)
    BY <2>3, AsideServes DEF Read, lineVars
  <2>4. CASE Send(l)
    BY <2>4, SendServes
  <2>5. CASE Clock(l)
    BY <2>5, ClockServes
  <2> QED BY <2>2, <2>3, <2>4, <2>5
<1> QED BY <1>1, <1>3, <1>4, <1>5, <1>6, <1>7, <1>8

\* Disturbances and holds are counted up.
LEMMA CountedUp ==
    ASSUME Rounds, [TrafficNext]_trafficVars
    PROVE  /\ disturbed' = 0 => disturbed = 0
           /\ holds' = 0 => holds = 0
<1>1. CASE UNCHANGED trafficVars
  BY <1>1 DEF trafficVars, pairVars
<1>2. CASE TrafficNext
  <2>1. disturbed \in Nat /\ holds \in Nat
    BY DEF Rounds
  <2>2. \/ disturbed' = disturbed
        \/ disturbed' = disturbed + 1
    BY <1>2 DEF TrafficNext, Submit, UserGone, UserBack, UserBusy, UserFree, Hold, Release,
         StartUp, BringUp, Hear, Receive, Rest, Read, TakeDown, Send, ReceiveCorrupted,
         Clock, Disturb, lineVars
  <2>3. holds' = holds \/ holds' = holds + 1
    BY <1>2 DEF TrafficNext, Submit, UserGone, UserBack, UserBusy, UserFree, Hold, Release,
         StartUp, Hear, Rest
  <2> QED BY <2>1, <2>2, <2>3
<1> QED BY <1>1, <1>2

\* new: nobody speaks, and no timer runs.
LEMMA ServiceBegins == TrafficInit => ServiceInv
<1> SUFFICES ASSUME TrafficInit PROVE ServiceInv
  OBVIOUS
<1>1. Engine
  BY EngineInit DEF TrafficInit, PairInit
<1>2. Rounds
  BY DEF Rounds, TrafficInit, PairInit
<1>3. ASSUME NEW l \in Links
      PROVE  /\ link[l].state = "OutOfService" /\ ~link[l].local_processor_outage
             /\ ~link[l].local_busy /\ ~link[l].remote_busy
             /\ kinds(line[l]) = {}
  BY DEF TrafficInit, PairInit, Init, Mtp2Link_new, kinds
<1>4. \A l \in Links : CalmEnd(l)
  BY <1>3, Peers DEF CalmEnd, Calm, Served, Ready
<1> QED BY <1>1, <1>2, <1>4 DEF ServiceInv

LEMMA ServiceStepped ==
    ASSUME TimersOutlast, ServiceInv, [TrafficNext]_trafficVars
    PROVE  /\ ServiceInv'
           /\ disturbed' = 0 /\ holds = 0 => ServesOn
<1>1. Engine' /\ Rounds' /\ Engine /\ Rounds
  BY RoundsStep DEF ServiceInv
<1>2. CASE UNCHANGED trafficVars
  <2>1. UNCHANGED <<link, line, spoken, ticked, disturbed, holds>>
    BY <1>2 DEF trafficVars, pairVars
  <2>2. ServesOn
    BY <2>1 DEF ServesOn
  <2>3. (\A l \in Links : CalmEnd(l)) => \A l \in Links : CalmEnd(l)'
    BY <2>1 DEF CalmEnd
  <2> QED BY <1>1, <2>1, <2>2, <2>3 DEF ServiceInv
<1>3. CASE TrafficNext
  <2>1. /\ disturbed' = 0 => disturbed = 0
        /\ holds' = 0 => holds = 0
    BY <1>1, CountedUp
  <2>2. ASSUME disturbed' = 0, holds = 0
        PROVE  ServesOn /\ (holds' = 0 => \A e \in Links : CalmEnd(e)')
    <3>1. \A e \in Links : CalmEnd(e)
      BY <2>1, <2>2 DEF ServiceInv
    <3>2. /\ ServesOn
          /\ holds' = holds => \A e \in Links : CalmEnd(e)'
      BY <1>1, <1>3, <2>2, <3>1, CalmStep
    <3> QED BY <2>2, <3>2
  <2>3. (disturbed' = 0 /\ holds' = 0) => \A e \in Links : CalmEnd(e)'
    BY <2>1, <2>2
  <2> QED BY <1>1, <2>2, <2>3 DEF ServiceInv
<1> QED BY <1>2, <1>3

\* While the line is clean and no user is out or congested a link stays in service:
\* with the timers set as above none of them mistakes a peer that ticks or answers
\* a little later for one that is gone, and no signal unit ends it.
THEOREM ServiceKept ==
    ASSUME TimersOutlast
    PROVE  TrafficSpec => ServiceLostForCause
<1>1. ServiceInv /\ [TrafficNext]_trafficVars => ServiceInv'
  BY ServiceStepped
<1>2. ServiceInv /\ [TrafficNext]_trafficVars
        => [disturbed' = 0 /\ holds = 0 =>
              \A l \in Links : link[l].state \in Traffic => link'[l].state \in Traffic]_trafficVars
  BY ServiceStepped DEF ServesOn
<1> QED BY <1>1, <1>2, ServiceBegins, PTL DEF TrafficSpec, ServiceLostForCause

=============================================================================
