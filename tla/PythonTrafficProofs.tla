------------------------ MODULE PythonTrafficProofs ------------------------
(***************************************************************************)
(* Two Python programs are the two ends of a link, for every configuration *)
(* of the links and every limit of the codec: what is between the engines, *)
(* objects and octets, is the line of LinkTraffic, and what a program has  *)
(* read is what was delivered to it.                                       *)
(***************************************************************************)
EXTENDS PythonLinkProofs, DirectionProofs

(***************************************************************************)
(* What the properties assume of the MSUs.                                 *)
(***************************************************************************)

\* An MSU is told from a link status signal unit by its length: every MSU that a
\* program submits has more than two octets.
MsusTellable == \A m \in Msu : octets[m] > Codec!LI_LSSU_TWO

\* An MSU is known by its octets: they identify it among those that are submitted.
MsusDiffer == \A m, n \in Msu : sio[m] = sio[n] /\ sif[m] = sif[n] => m = n

(***************************************************************************)
(* From one engine to the other.                                           *)
(***************************************************************************)

\* The signal units that an engine may send: their MSUs are not too large.
Sent == {su \in SignalUnit : su.kind = "MSU" => octets[su.msu] <= MAX_MSU_BODY}

encoded(su) == py_encode(su_to_py(concrete(su)))

\* Whatever may be on its way to a program.
Wired == Undecodable \cup {encoded(su).value : su \in Sent}

\* What the engine sends is a signal unit that encode accepts.
LEMMA Concrete ==
    ASSUME MsusTellable, NEW su \in Sent
    PROVE  Sendable(concrete(su))
<1> DEFINE h == [bsn |-> su.bsn, bib |-> su.bib, fsn |-> su.fsn, fib |-> su.fib]
<1>1. h \in Header
  BY DEF Sent, SignalUnit, Header
<1> HIDE DEF h
<1>2. CASE su.kind = "FISU"
  <2>1. concrete(su) = Codec!fisu(h)
    BY <1>2 DEF concrete, h
  <2> QED BY <1>1, <2>1 DEF Sendable
<1>3. CASE su.kind = "MSU"
  <2> DEFINE m == su.msu
  <2>1. m \in Msu /\ octets[m] <= MAX_MSU_BODY
    BY <1>3 DEF Sent, SignalUnit
  <2> HIDE DEF m
  <2>2. /\ sio[m] \in Codec!Octet /\ sif[m] \in Seq(Codec!Octet)
        /\ octets[m] = 1 + Len(sif[m]) /\ octets[m] > Codec!LI_LSSU_TWO
    BY <2>1, Bodies DEF MsusTellable
  <2>3. concrete(su) = Codec!msu(h, sio[m], sif[m])
    BY <1>3 DEF concrete, h, m
  <2>4. Codec!body(Codec!msu(h, sio[m], sif[m])) = octets[m]
    BY <2>2 DEF Codec!body, Codec!msu
  <2>5. octets[m] \in Codec!LI_LSSU_TWO + 1 .. MAX_MSU_BODY
    BY <2>1, <2>2, LinkBounds DEF Codec!LI_LSSU_TWO
  <2> QED BY <1>1, <2>2, <2>3, <2>4, <2>5 DEF Sendable
<1>4. CASE su.kind \in StatusIndication
  <2>1. concrete(su) = Codec!lssu(h, su.kind, FALSE)
    BY <1>4 DEF concrete, h, StatusIndication, Aligning
  <2>2. Status = StatusIndication
    BY DEF Status, Codec!StatusCode, Codec!Statuses, StatusIndication, Aligning
  <2> QED BY <1>1, <1>4, <2>1, <2>2 DEF Sendable
<1> QED BY <1>2, <1>3, <1>4 DEF Sent, SignalUnit

\* The way back: abstract undoes concrete.
LEMMA AbstractConcrete ==
    ASSUME MsusDiffer, NEW su \in Sent
    PROVE  abstract(concrete(su)) = su
<1>1. /\ su = [kind |-> su.kind, bsn |-> su.bsn, bib |-> su.bib, fsn |-> su.fsn,
               fib |-> su.fib, msu |-> su.msu]
      /\ su.kind \in StatusIndication \cup {"FISU", "MSU"}
      /\ su.kind = "MSU" => su.msu \in Msu
      /\ su.kind # "MSU" => su.msu = Fisu
  BY DEF Sent, SignalUnit
<1>2. CASE su.kind = "MSU"
  <2>1. numbered(sio[su.msu], sif[su.msu]) = su.msu
    BY <1>1, <1>2 DEF numbered, MsusDiffer
  <2> QED BY <1>1, <1>2, <2>1 DEF abstract, concrete, Codec!msu
<1>3. CASE su.kind = "FISU"
  BY <1>1, <1>3 DEF abstract, concrete, Codec!fisu
<1>4. CASE su.kind \in StatusIndication
  BY <1>1, <1>4 DEF abstract, concrete, Codec!lssu, StatusIndication, Aligning
<1> QED BY <1>1, <1>2, <1>3, <1>4

\* Encoded by one program and decoded by the other, a signal unit of the engine is
\* the same.
LEMMA Carried ==
    ASSUME MsusTellable, MsusDiffer, NEW su \in Sent
    PROVE  /\ encoded(su).ok /\ Codec!decode(encoded(su).value).ok
           /\ abstract(Codec!decode(encoded(su).value).value) = su
<1> DEFINE c == concrete(su)
<1>1. Sendable(c) /\ abstract(c) = su
  BY Concrete, AbstractConcrete
<1> HIDE DEF c
<1>2. encoded(su) = Codec!encode(c)
  BY <1>1, PyEncode DEF encoded, c
<1>3. encoded(su).ok /\ Codec!decode(encoded(su).value) = Codec!Ok(c)
  BY <1>1, <1>2, DecodeEncode
<1> QED BY <1>1, <1>3 DEF Codec!Ok

\* What decodes of that is a signal unit that an engine has sent.
LEMMA WiredUnits ==
    ASSUME MsusTellable, MsusDiffer, NEW c \in Wired, Codec!decode(c).ok
    PROVE  abstract(Codec!decode(c).value) \in Sent
<1>1. c \notin Undecodable
  BY Bodies
<1>2. PICK su \in Sent : c = encoded(su).value
  BY <1>1 DEF Wired
<1> QED BY <1>2, Carried

(***************************************************************************)
(* The contents on their way to a program, as signal units: understood is  *)
(* a recursive function over them, and these lemmas say what it makes of a *)
(* content more (poll_and_send) and a content less (handle_su).            *)
(***************************************************************************)

\* One content after those understood before.
understands(before, c) ==
    IF Codec!decode(c).ok THEN Append(before, abstract(Codec!decode(c).value)) ELSE before

\* f says what the first n contents of s say, for n up to m.
Units(f, s, m) ==
    f = [n \in 0 .. m |-> IF n = 0 THEN <<>> ELSE understands(f[n - 1], s[n])]

\* There is such a function for every number of contents, by induction.
LEMMA UnitsExist ==
    ASSUME NEW s, NEW m \in Nat
    PROVE  \E f : Units(f, s, m)
<1> DEFINE S == {k \in Nat : \E f : Units(f, s, k)}
<1>1. 0 \in S
  <2> DEFINE f == [n \in 0 .. 0 |-> <<>>]
  <2>1. Units(f, s, 0)
    BY DEF Units
  <2> QED BY <2>1
<1>2. ASSUME NEW k \in S PROVE k + 1 \in S
  <2>1. PICK f : Units(f, s, k)
    OBVIOUS
  <2> DEFINE g == [n \in 0 .. k + 1 |-> IF n = 0 THEN <<>> ELSE understands(f[n - 1], s[n])]
  <2>2. \A n \in 0 .. k : g[n] = f[n]
    BY <2>1 DEF Units
  <2>3. Units(g, s, k + 1)
    <3>1. \A n \in 0 .. k + 1 : n # 0 => g[n - 1] = f[n - 1]
      BY <2>2, SMTT(30)
    <3> QED BY <3>1 DEF Units
  <2> QED BY <2>3
<1>3. S = Nat
  <2> HIDE DEF S
  <2>1. S \in SUBSET Nat
    BY DEF S
  <2> QED BY <1>1, <1>2, <2>1, Induction
<1> QED BY <1>3

\* understood chooses that function.
LEMMA UnitsDefined ==
    ASSUME NEW s \in Seq(Wired)
    PROVE  \E f : Units(f, s, Len(s)) /\ understood(s) = f[Len(s)]
<1> DEFINE f == CHOOSE f : Units(f, s, Len(s))
<1>1. Units(f, s, Len(s))
  BY UnitsExist
<1>2. understood(s) = f[Len(s)]
  BY DEF understood, Units, understands
<1> QED BY <1>1, <1>2

\* Two sequences that agree on their first m contents say the same with them.
LEMMA UnitsAgree ==
    ASSUME NEW s, NEW t, NEW f, NEW g, NEW p \in Nat, NEW q \in Nat, NEW m \in Nat,
           Units(f, s, p), Units(g, t, q), m <= p, m <= q,
           \A i \in 1 .. m : s[i] = t[i]
    PROVE  f[m] = g[m]
<1> DEFINE S == {n \in Nat : n <= m => f[n] = g[n]}
<1>1. 0 \in S
  BY DEF Units
<1>2. ASSUME NEW n \in S PROVE n + 1 \in S
  <2> SUFFICES ASSUME n + 1 <= m PROVE f[n + 1] = g[n + 1]
    OBVIOUS
  <2>1. f[n] = g[n]
    OBVIOUS
  <2>2. f[n + 1] = understands(f[n], s[n + 1]) /\ g[n + 1] = understands(g[n], t[n + 1])
    <3>1. n + 1 \in 0 .. p /\ n + 1 \in 0 .. q /\ n + 1 # 0 /\ (n + 1) - 1 = n
      OBVIOUS
    <3> QED BY <3>1 DEF Units
  <2>3. s[n + 1] = t[n + 1]
    OBVIOUS
  <2> QED BY <2>1, <2>2, <2>3
<1>3. S = Nat
  <2> HIDE DEF S
  <2>1. S \in SUBSET Nat
    BY DEF S
  <2> QED BY <1>1, <1>2, <2>1, Induction
<1> QED BY <1>3

\* A content adds at most one signal unit.
LEMMA UnitsMore ==
    ASSUME MsusTellable, MsusDiffer, NEW before \in Seq(Sent), NEW c \in Wired
    PROVE  understands(before, c) \in Seq(Sent)
BY WiredUnits DEF understands

\* What is understood are signal units of the engine, by induction over the
\* contents.
LEMMA UnitsType ==
    ASSUME MsusTellable, MsusDiffer, NEW s \in Seq(Wired)
    PROVE  understood(s) \in Seq(Sent)
<1>1. PICK f : Units(f, s, Len(s)) /\ understood(s) = f[Len(s)]
  BY UnitsDefined
<1> DEFINE S == {n \in Nat : n <= Len(s) => f[n] \in Seq(Sent)}
<1>2. 0 \in S
  BY <1>1 DEF Units
<1>3. ASSUME NEW n \in S PROVE n + 1 \in S
  <2> SUFFICES ASSUME n + 1 <= Len(s) PROVE f[n + 1] \in Seq(Sent)
    OBVIOUS
  <2>1. f[n] \in Seq(Sent) /\ s[n + 1] \in Wired
    OBVIOUS
  <2>2. f[n + 1] = understands(f[n], s[n + 1])
    <3>1. n + 1 \in 0 .. Len(s) /\ n + 1 # 0 /\ (n + 1) - 1 = n
      OBVIOUS
    <3> QED BY <1>1, <3>1 DEF Units
  <2> HIDE DEF S
  <2> QED BY <2>1, <2>2, UnitsMore
<1>4. S = Nat
  <2> HIDE DEF S
  <2>1. S \in SUBSET Nat
    BY DEF S
  <2> QED BY <1>2, <1>3, <2>1, Induction
<1>5. Len(s) \in S
  BY <1>4
<1> QED BY <1>1, <1>5

\* An empty line.
LEMMA UnitsEmpty == understood(<<>>) = <<>>
<1>1. <<>> \in Seq(Wired) /\ Len(<<>>) = 0
  OBVIOUS
<1>2. PICK f : Units(f, <<>>, Len(<<>>)) /\ understood(<<>>) = f[Len(<<>>)]
  BY <1>1, UnitsDefined
<1> QED BY <1>1, <1>2 DEF Units

\* A content more.
LEMMA UnitsAppend ==
    ASSUME NEW s \in Seq(Wired), NEW c \in Wired
    PROVE  understood(Append(s, c)) = understands(understood(s), c)
<1> DEFINE t == Append(s, c)
<1>1. t \in Seq(Wired) /\ Len(t) = Len(s) + 1 /\ t[Len(t)] = c /\ Len(s) \in Nat
  OBVIOUS
<1>2. \A i \in 1 .. Len(s) : t[i] = s[i]
  OBVIOUS
<1> HIDE DEF t
<1>3. PICK f : Units(f, s, Len(s)) /\ understood(s) = f[Len(s)]
  BY UnitsDefined
<1>4. PICK g : Units(g, t, Len(t)) /\ understood(t) = g[Len(t)]
  BY <1>1, UnitsDefined
<1>5. g[Len(s)] = f[Len(s)]
  <2>1. /\ Len(s) \in Nat /\ Len(t) \in Nat
        /\ Len(s) <= Len(s) /\ Len(s) <= Len(t)
    BY <1>1
  <2> QED BY <1>2, <1>3, <1>4, <2>1, UnitsAgree
<1>6. g[Len(t)] = understands(g[Len(s)], c)
  <2>1. Len(t) \in 0 .. Len(t) /\ Len(t) # 0 /\ Len(t) - 1 = Len(s)
    BY <1>1
  <2> QED BY <1>1, <1>4, <2>1 DEF Units
<1> QED BY <1>3, <1>4, <1>5, <1>6 DEF t

\* A content less: what it says, and then what the others say.
LEMMA UnitsTail ==
    ASSUME MsusTellable, MsusDiffer, NEW s \in Seq(Wired), s # <<>>
    PROVE  understood(s) = understands(<<>>, Head(s)) \o understood(Tail(s))
<1> DEFINE t == Tail(s)
           first == understands(<<>>, Head(s))
<1>1. /\ t \in Seq(Wired) /\ Len(s) = Len(t) + 1 /\ Len(t) \in Nat
      /\ Head(s) = s[1] /\ \A i \in 1 .. Len(t) : s[i + 1] = t[i]
      /\ Head(s) \in Wired
  <2>1. Head(s) = s[1] /\ s[1] \in Wired
    OBVIOUS
  <2> QED BY <2>1
<1>2. first \in Seq(Sent)
  <2>1. <<>> \in Seq(Sent)
    OBVIOUS
  <2> QED BY <1>1, <2>1, UnitsMore
<1> HIDE DEF t, first
<1>3. PICK f : Units(f, s, Len(s)) /\ understood(s) = f[Len(s)]
  BY UnitsDefined
<1>4. PICK g : Units(g, t, Len(t)) /\ understood(t) = g[Len(t)]
  BY <1>1, UnitsDefined
<1> DEFINE S == {n \in Nat : n <= Len(t) => g[n] \in Seq(Sent) /\ f[n + 1] = first \o g[n]}
<1>5. 0 \in S
  <2>1. g[0] = <<>> /\ f[0] = <<>>
    BY <1>1, <1>3, <1>4 DEF Units
  <2>2. f[1] = understands(f[0], s[1])
    <3>1. 1 \in 0 .. Len(s) /\ 1 # 0 /\ 1 - 1 = 0
      BY <1>1
    <3> QED BY <1>3, <3>1 DEF Units
  <2>3. f[0 + 1] = first \o <<>>
    BY <1>1, <1>2, <2>1, <2>2 DEF first
  <2>4. <<>> \in Seq(Sent)
    OBVIOUS
  <2> QED BY <2>1, <2>3, <2>4
<1>6. ASSUME NEW n \in S PROVE n + 1 \in S
  <2> SUFFICES ASSUME n + 1 <= Len(t)
               PROVE  g[n + 1] \in Seq(Sent) /\ f[(n + 1) + 1] = first \o g[n + 1]
    OBVIOUS
  <2>1. g[n] \in Seq(Sent) /\ f[n + 1] = first \o g[n] /\ n \in Nat
    BY <1>1
  <2> HIDE DEF S
  <2>2. n + 1 \in 1 .. Len(t) /\ t[n + 1] \in Wired
    BY <1>1, <2>1
  <2>3. g[n + 1] = understands(g[n], t[n + 1])
    <3>1. n + 1 \in 0 .. Len(t) /\ n + 1 # 0 /\ (n + 1) - 1 = n
      BY <2>1
    <3> QED BY <1>4, <3>1 DEF Units
  <2>4. f[(n + 1) + 1] = understands(f[n + 1], t[n + 1])
    <3>1. (n + 1) + 1 \in 0 .. Len(s) /\ (n + 1) + 1 # 0 /\ ((n + 1) + 1) - 1 = n + 1
      BY <1>1, <2>1
    <3>2. s[(n + 1) + 1] = t[n + 1]
      BY <1>1, <2>2
    <3> QED BY <1>3, <3>1, <3>2 DEF Units
  <2>5. understands(first \o g[n], t[n + 1]) = first \o understands(g[n], t[n + 1])
    <3> DEFINE h == g[n]
    <3>1. h \in Seq(Sent)
      BY <2>1
    <3> HIDE DEF h
    <3>2. \A x \in Sent : Append(first \o h, x) = first \o Append(h, x)
      BY <1>2, <3>1, SMTT(30)
    <3> QED BY <2>2, <3>2, WiredUnits DEF understands, h
  <2>6. g[n + 1] \in Seq(Sent)
    BY <2>1, <2>2, <2>3, UnitsMore
  <2> QED BY <2>1, <2>3, <2>4, <2>5, <2>6
<1>7. S = Nat
  <2> HIDE DEF S
  <2>1. S \in SUBSET Nat
    BY DEF S
  <2> QED BY <1>5, <1>6, <2>1, Induction
<1>8. Len(t) \in S
  BY <1>1, <1>7
<1>9. f[Len(t) + 1] = first \o g[Len(t)]
  BY <1>8
<1> QED BY <1>1, <1>3, <1>4, <1>9 DEF t, first

\* poll_and_send: the signal unit comes to the others.
LEMMA LineSent ==
    ASSUME MsusTellable, MsusDiffer, NEW s \in Seq(Wired), NEW su \in Sent
    PROVE  /\ encoded(su).value \in Wired
           /\ understood(Append(s, encoded(su).value)) = Append(understood(s), su)
<1>1. encoded(su).value \in Wired
  BY DEF Wired
<1> QED BY <1>1, UnitsAppend, Carried DEF understands

\* The line delivers octets that are no signal unit.
LEMMA LineStray ==
    ASSUME NEW s \in Seq(Wired), NEW c \in Undecodable
    PROVE  c \in Wired /\ understood(Append(s, c)) = understood(s)
<1>1. c \in Wired
  BY DEF Wired
<1> QED BY <1>1, UnitsAppend, Bodies DEF understands

\* handle_su: the first content arrives.
LEMMA LineArrival ==
    ASSUME MsusTellable, MsusDiffer, NEW s \in Seq(Wired), s # <<>>
    PROVE  LET su == Codec!decode(Head(s))
           IN  /\ Tail(s) \in Seq(Wired)
               /\ su.ok => /\ understood(s) # <<>> /\ Head(understood(s)) = abstract(su.value)
                           /\ understood(Tail(s)) = Tail(understood(s))
                           /\ abstract(su.value) \in Sent
               /\ ~su.ok => understood(Tail(s)) = understood(s)
<1> DEFINE t == Tail(s)
           u == understood(t)
           c == Head(s)
<1>1. t \in Seq(Wired) /\ c \in Wired
  OBVIOUS
<1> HIDE DEF t, c
<1>2. u \in Seq(Sent)
  BY <1>1, UnitsType
<1>3. understood(s) = understands(<<>>, c) \o u
  BY UnitsTail DEF t, c
<1> HIDE DEF u
<1>4. CASE Codec!decode(c).ok
  <2> DEFINE x == abstract(Codec!decode(c).value)
  <2>1. x \in Sent
    BY <1>1, <1>4, WiredUnits
  <2>2. understood(s) = Append(<<>>, x) \o u
    BY <1>3, <1>4 DEF understands
  <2> HIDE DEF x
  <2>3. understood(s) # <<>> /\ Head(understood(s)) = x /\ Tail(understood(s)) = u
    BY <1>2, <2>1, <2>2
  <2> QED BY <1>1, <1>4, <2>1, <2>3 DEF x, t, u, c
<1>5. CASE ~Codec!decode(c).ok
  <2>1. understood(s) = <<>> \o u
    BY <1>3, <1>5 DEF understands
  <2>2. understood(s) = u
    BY <1>2, <2>1
  <2> QED BY <1>1, <1>5, <2>2 DEF t, u, c
<1> QED BY <1>4, <1>5

(***************************************************************************)
(* What was delivered to a program: the last MSU among the events that it  *)
(* has not read yet, or else the last one that it has read.                *)
(***************************************************************************)

\* Event i of s is the last one that passes an MSU.
LastMsu(s, i) ==
    i \in DOMAIN s /\ s[i].msu # Fisu /\ \A j \in DOMAIN s : s[j].msu # Fisu => j <= i

NoMsu(s) == \A i \in DOMAIN s : s[i].msu = Fisu

\* Among the events one is the last to pass an MSU, or none does; by induction
\* over the number of events.
LEMMA LastExists ==
    ASSUME NEW s \in Seq(Event)
    PROVE  NoMsu(s) \/ \E i : LastMsu(s, i)
<1> DEFINE Upto(n) == {j \in 1 .. n : j <= Len(s) /\ s[j].msu # Fisu}
           S == {n \in Nat : Upto(n) = {} \/ \E i \in Upto(n) : \A j \in Upto(n) : j <= i}
<1>1. 0 \in S
  OBVIOUS
<1>2. ASSUME NEW n \in S PROVE n + 1 \in S
  <2>1. CASE n + 1 <= Len(s) /\ s[n + 1].msu # Fisu
    <3>1. n + 1 \in Upto(n + 1) /\ \A j \in Upto(n + 1) : j <= n + 1
      BY <2>1
    <3> QED BY <3>1
  <2>2. CASE ~(n + 1 <= Len(s) /\ s[n + 1].msu # Fisu)
    <3>1. Upto(n + 1) = Upto(n)
      BY <2>2
    <3> QED BY <3>1
  <2> QED BY <2>1, <2>2
<1>3. S = Nat
  <2> HIDE DEF S
  <2>1. S \in SUBSET Nat
    BY DEF S
  <2> QED BY <1>1, <1>2, <2>1, Induction
<1>4. Len(s) \in S
  <2> HIDE DEF S
  <2>1. Len(s) \in Nat
    OBVIOUS
  <2> QED BY <1>3, <2>1
<1>5. \A j : j \in Upto(Len(s)) <=> j \in DOMAIN s /\ s[j].msu # Fisu
  OBVIOUS
<1> QED BY <1>4, <1>5 DEF NoMsu, LastMsu

\* latest, in either case.
LEMMA LatestUnread ==
    ASSUME NEW s \in Seq(Event), NEW i, LastMsu(s, i), NEW read
    PROVE  latest(s, read) = s[i].msu
<1> DEFINE unread == {j \in DOMAIN s : s[j].msu # Fisu}
           c == CHOOSE j \in unread : \A o \in unread : o <= j
<1>1. i \in unread /\ \A o \in unread : o <= i
  BY DEF LastMsu
<1>2. c \in unread /\ \A o \in unread : o <= c
  BY <1>1
<1>3. c = i
  BY <1>1, <1>2
<1>4. latest(s, read) = s[c].msu
  BY <1>1 DEF latest
<1> QED BY <1>3, <1>4

LEMMA LatestRead ==
    ASSUME NEW s \in Seq(Event), NoMsu(s), NEW read
    PROVE  latest(s, read) = IF read = <<>> THEN 0
                             ELSE numbered(Head(read[Len(read)]), Tail(read[Len(read)]))
<1>1. {i \in DOMAIN s : s[i].msu # Fisu} = {}
  BY DEF NoMsu
<1> QED BY <1>1 DEF latest

\* A call that passes no MSU.
LEMMA LatestKept ==
    ASSUME NEW s, NEW t, Extends(s, t), news(s, t) = {}, NEW read
    PROVE  latest(t, read) = latest(s, read)
<1>1. s \in Seq(Event) /\ t \in Seq(Event) /\ Len(s) <= Len(t)
      /\ \A i \in 1 .. Len(s) : t[i] = s[i]
  BY DEF Extends
<1>2. ASSUME NEW i \in DOMAIN t, i \notin DOMAIN s PROVE t[i].msu = Fisu
  <2>1. i \in Len(s) + 1 .. Len(t)
    BY <1>1, <1>2
  <2> QED BY <2>1 DEF news
<1>3. CASE NoMsu(s)
  <2>1. NoMsu(t)
    BY <1>1, <1>2, <1>3 DEF NoMsu
  <2> QED BY <1>1, <1>3, <2>1, LatestRead
<1>4. ASSUME NEW i, LastMsu(s, i)
      PROVE  latest(t, read) = latest(s, read)
  <2>1. LastMsu(t, i) /\ t[i] = s[i]
    BY <1>1, <1>2, <1>4 DEF LastMsu
  <2> QED BY <1>1, <1>4, <2>1, LatestUnread
<1> QED BY <1>1, <1>3, <1>4, LastExists

\* A call that passes one MSU.
LEMMA LatestPassed ==
    ASSUME NEW s, NEW t, Extends(s, t), NEW m, news(s, t) = {m}, NEW read
    PROVE  latest(t, read) = m
<1>1. s \in Seq(Event) /\ t \in Seq(Event) /\ Len(s) <= Len(t)
      /\ \A i \in 1 .. Len(s) : t[i] = s[i]
  BY DEF Extends
<1>2. PICK o \in Len(s) + 1 .. Len(t) : t[o].msu = m /\ m # Fisu
  BY DEF news
<1>3. o \in DOMAIN t /\ ~NoMsu(t)
  BY <1>1, <1>2 DEF NoMsu
<1>4. PICK i : LastMsu(t, i)
  BY <1>1, <1>3, LastExists
<1>5. i \in Len(s) + 1 .. Len(t) /\ t[i].msu # Fisu
  BY <1>1, <1>2, <1>3, <1>4 DEF LastMsu
<1>6. t[i].msu = m
  <2>1. t[i].msu \in news(s, t)
    BY <1>5 DEF news
  <2> QED BY <2>1
<1> QED BY <1>1, <1>4, <1>6, LatestUnread

\* The octets of an MSU identify it.
LEMMA NumberedOctets ==
    ASSUME MsusDiffer, NEW m \in Msu
    PROVE  /\ <<sio[m]>> \o sif[m] \in Seq(Codec!Octet)
           /\ numbered(Head(<<sio[m]>> \o sif[m]), Tail(<<sio[m]>> \o sif[m])) = m
<1>1. sio[m] \in Codec!Octet /\ sif[m] \in Seq(Codec!Octet)
  BY Bodies
<1>2. /\ <<sio[m]>> \o sif[m] \in Seq(Codec!Octet)
      /\ Head(<<sio[m]>> \o sif[m]) = sio[m] /\ Tail(<<sio[m]>> \o sif[m]) = sif[m]
  BY <1>1
<1>3. numbered(sio[m], sif[m]) = m
  BY DEF numbered, MsusDiffer
<1> QED BY <1>2, <1>3

\* What poll_event makes of an event.
reading(read, e) ==
    IF e.event = "Msu" THEN Append(read, <<sio[e.msu]>> \o sif[e.msu]) ELSE read

\* poll_event: what was delivered stays so when the program reads of it.
LEMMA LatestPolled ==
    ASSUME MsusDiffer, NEW s \in Seq(Event), s # <<>>, NEW read \in Seq(Seq(Codec!Octet))
    PROVE  /\ reading(read, Head(s)) \in Seq(Seq(Codec!Octet))
           /\ latest(Tail(s), reading(read, Head(s))) = latest(s, read)
<1> DEFINE t == Tail(s)
           e == Head(s)
           r == reading(read, e)
<1>1. /\ t \in Seq(Event) /\ Len(s) = Len(t) + 1 /\ Len(t) \in Nat /\ e = s[1] /\ e \in Event
      /\ \A i \in 1 .. Len(t) : t[i] = s[i + 1]
  <2>1. Head(s) = s[1] /\ s[1] \in Event
    OBVIOUS
  <2> QED BY <2>1
<1>2. (e.event = "Msu" => e.msu \in Msu) /\ (e.event # "Msu" => e.msu = Fisu)
  BY <1>1, EventMsus DEF Event, Plain, OutOfService, AlignmentFailed, MsuEvent
<1> HIDE DEF t, e, r
<1>3. r \in Seq(Seq(Codec!Octet))
  <2> DEFINE T == Seq(Codec!Octet)
  <2>1. e.event = "Msu" => <<sio[e.msu]>> \o sif[e.msu] \in T
    BY <1>2, NumberedOctets
  <2>2. read \in Seq(T)
    OBVIOUS
  <2> HIDE DEF T
  <2>3. r \in Seq(T)
    BY <2>1, <2>2 DEF r, reading
  <2> QED BY <2>3 DEF T
<1>4. ASSUME NEW i, LastMsu(t, i)
      PROVE  latest(t, r) = latest(s, read)
  <2>1. i \in 1 .. Len(t) /\ LastMsu(s, i + 1) /\ t[i] = s[i + 1]
    <3>1. i \in 1 .. Len(t) /\ i + 1 \in DOMAIN s /\ t[i] = s[i + 1]
      BY <1>1, <1>4 DEF LastMsu
    <3>2. ASSUME NEW j \in DOMAIN s, s[j].msu # Fisu PROVE j <= i + 1
      <4>1. CASE j = 1
        BY <3>1, <4>1
      <4>2. CASE j # 1
        <5>1. j - 1 \in 1 .. Len(t) /\ (j - 1) + 1 = j
          BY <1>1, <4>2
        <5>2. t[j - 1] = s[j]
          BY <1>1, <5>1
        <5>3. j - 1 <= i
          BY <1>1, <1>4, <3>2, <5>1, <5>2 DEF LastMsu
        <5> QED BY <3>1, <5>1, <5>3
      <4> QED BY <4>1, <4>2
    <3> QED BY <1>4, <3>1, <3>2 DEF LastMsu
  <2> QED BY <1>1, <1>4, <2>1, LatestUnread
<1>5. ASSUME NoMsu(t)
      PROVE  latest(t, r) = latest(s, read)
  <2>1. \A j \in DOMAIN s : j # 1 => s[j].msu = Fisu
    <3> SUFFICES ASSUME NEW j \in DOMAIN s, j # 1 PROVE s[j].msu = Fisu
      OBVIOUS
    <3>1. j - 1 \in 1 .. Len(t) /\ (j - 1) + 1 = j
      BY <1>1
    <3>2. t[j - 1] = s[j] /\ j - 1 \in DOMAIN t
      BY <1>1, <3>1
    <3> QED BY <1>5, <3>2 DEF NoMsu
  <2>2. latest(t, r) = IF r = <<>> THEN 0 ELSE numbered(Head(r[Len(r)]), Tail(r[Len(r)]))
    BY <1>1, <1>5, LatestRead
  <2>3. CASE e.event = "Msu"
    <3> DEFINE octs == <<sio[e.msu]>> \o sif[e.msu]
    <3>1. e.msu \in Msu /\ octs \in Seq(Codec!Octet) /\ numbered(Head(octs), Tail(octs)) = e.msu
      BY <1>2, <2>3, NumberedOctets
    <3>2. r = Append(read, octs)
      BY <2>3 DEF r, reading
    <3> HIDE DEF octs
    <3>3. r # <<>> /\ r[Len(r)] = octs
      <4> DEFINE T == Seq(Codec!Octet)
      <4>1. read \in Seq(T) /\ octs \in T
        BY <3>1
      <4> HIDE DEF T
      <4> QED BY <3>2, <4>1
    <3>4. latest(t, r) = e.msu
      BY <2>2, <3>1, <3>3
    <3>5. LastMsu(s, 1)
      BY <1>1, <2>1, <3>1, MsuSizes DEF LastMsu, Fisu
    <3>6. latest(s, read) = s[1].msu
      BY <3>5, LatestUnread
    <3> QED BY <1>1, <3>4, <3>6
  <2>4. CASE e.event # "Msu"
    <3>1. r = read
      BY <2>4 DEF r, reading
    <3>2. NoMsu(s)
      BY <1>1, <1>2, <2>1, <2>4 DEF NoMsu
    <3>3. latest(s, read) = IF read = <<>> THEN 0
                           ELSE numbered(Head(read[Len(read)]), Tail(read[Len(read)]))
      BY <3>2, LatestRead
    <3> QED BY <2>2, <3>1, <3>3
  <2> QED BY <2>3, <2>4
<1>6. latest(t, r) = latest(s, read)
  <2>1. NoMsu(t) \/ \E i : LastMsu(t, i)
    BY <1>1, LastExists
  <2> QED BY <1>4, <1>5, <2>1
<1> QED BY <1>3, <1>6 DEF t, r, e

\* The calls that pass no MSU to the program, and raise at most one event.
Tells(k, n) == Extends(k.events, n.events) /\ news(k.events, n.events) = {}

LEMMA TellsEvents ==
    ASSUME NEW k \in Link, NEW n,
           \/ n.events = k.events
           \/ \E e \in Event : e.msu = Fisu /\ n.events = Append(k.events, e)
    PROVE  Tells(k, n)
<1>1. k.events \in Seq(Event)
  BY DEF Link
<1>2. ASSUME NEW e \in Event, e.msu = Fisu, n.events = Append(k.events, e)
      PROVE  Tells(k, n)
  <2>1. /\ Extends(k.events, Append(k.events, e))
        /\ news(k.events, Append(k.events, e)) = {e.msu} \ {Fisu}
    BY <1>1, NewsAppend
  <2> QED BY <1>2, <2>1 DEF Tells
<1>3. CASE n.events = k.events
  BY <1>1, <1>3, NewsSame DEF Tells
<1> QED BY <1>2, <1>3

\* tick, in every state.
LEMMA TickTells ==
    ASSUME NEW l \in Links, Sound(link[l]), Tick(l)
    PROVE  \E n : Becomes(l, n) /\ Tells(link[l], n)
<1> DEFINE k == link[l]
<1>1. k \in Link
  BY DEF Sound, Steady
<1>2. ASSUME NEW f \in AlignmentFailure, Becomes(l, fail_alignment(k, f))
      PROVE  \E n : Becomes(l, n) /\ Tells(k, n)
  BY <1>1, <1>2, QuietFails DEF Quiet, Tells
<1>3. ASSUME NEW r \in OutOfServiceReason, Becomes(l, fail_out_of_service(k, r))
      PROVE  \E n : Becomes(l, n) /\ Tells(k, n)
  BY <1>1, <1>3, QuietFails DEF Quiet, Tells
<1>4. ASSUME NEW timers
      PROVE  LET s == step(k, timers) IN s.events = k.events /\ DOMAIN s = DOMAIN k
  BY <1>1 DEF step, Link
<1>5. CASE Becomes(l, proving_succeeded(step(k, {"t2", "t3", "t4"})))
  <2> DEFINE s == step(k, {"t2", "t3", "t4"})
             b == [s EXCEPT !.timer["t4"] = Stopped]
             n == proving_succeeded(s)
  <2>1. s \in [DOMAIN s -> {s[x] : x \in DOMAIN s}] /\ DOMAIN s = DOMAIN k
        /\ DOMAIN k = {"config", "state", "active", "emergency", "local_processor_outage",
                       "remote_processor_outage", "local_busy", "remote_busy",
                       "proving_attempt", "tx", "rx", "aerm", "suerm", "timer", "events"}
    BY <1>1 DEF step, Link
  <2>2. n.events = k.events
    <3>1. n = IF s.local_processor_outage
              THEN [b EXCEPT !.state = "AlignedNotReady"]
              ELSE [b EXCEPT !.state = "AlignedReady",
                             !.timer["t1"] = b.config.t1_aligned_ready]
      BY DEF proving_succeeded, enter_aligned_ready
    <3>2. s.events = k.events
      BY <1>4
    <3> HIDE DEF n, s
    <3> QED BY <2>1, <3>1, <3>2
  <2> HIDE DEF n, k
  <2> QED BY <1>1, <1>5, <2>2, TellsEvents DEF n, k
<1>6. CASE Becomes(l, step(k, Timer))
  BY <1>1, <1>4, <1>6, TellsEvents
<1> QED BY <1>2, <1>3, <1>5, <1>6 DEF Tick, AlignmentFailure, OutOfServiceReason

\* handle_corrupted_su, in every state.
LEMMA CorruptedTells ==
    ASSUME NEW l \in Links, Sound(link[l]), HandleCorruptedSu(l)
    PROVE  \E n : Becomes(l, n) /\ Tells(link[l], n)
<1> DEFINE k == link[l]
           p == [k EXCEPT !.aerm = Aerm_record_error(@)]
           u == counted(k, TRUE)
<1>1. k \in Link
  BY DEF Sound, Steady
<1>2. p \in Link /\ p.events = k.events
  <2>1. Aerm_record_error(k.aerm) \in Aerm
    BY <1>1 DEF Link, Aerm_record_error, Aerm
  <2> QED BY <1>1, <2>1 DEF Link
<1>3. u \in Link /\ Quiet(k, u)
  BY <1>1, Counted, QuietCounts DEF Steady
<1>4. \/ Becomes(l, proving_aborted(p))
      \/ Becomes(l, p)
      \/ Becomes(l, fail_out_of_service(u, "SuermFailure"))
      \/ Becomes(l, u)
  BY DEF HandleCorruptedSu
<1> HIDE DEF p, u, k
<1>5. Tells(k, p) /\ Tells(k, u)
  BY <1>1, <1>2, <1>3, TellsEvents DEF Quiet, Tells
<1>6. Tells(k, fail_out_of_service(u, "SuermFailure"))
  <2>1. Quiet(u, fail_out_of_service(u, "SuermFailure"))
    BY <1>3, QuietFails DEF OutOfServiceReason
  <2> QED BY <1>3, <2>1, QuietChain DEF Quiet, Tells
<1>7. Tells(k, proving_aborted(p))
  <2>1. Quiet(p, enter_aligned(p, "t4")) /\ Quiet(p, fail_alignment(p, "AermTripped"))
    BY <1>2, QuietMoves, QuietFails DEF Timer, AlignmentFailure
  <2> QED BY <1>2, <2>1 DEF proving_aborted, Quiet, Tells
<1> QED BY <1>4, <1>5, <1>6, <1>7 DEF k

\* start, stop, submit_msu, poll_transmit and what the user signals.
LEMMA CallsTell ==
    ASSUME NEW l \in Links, Sound(link[l]),
           \/ Start(l) \/ Stop(l) \/ PollTransmit(l) \/ \E m \in Msu : SubmitMsu(l, m)
           \/ \E busy \in BOOLEAN : LocalBusy(l, busy)
           \/ LocalProcessorOutage(l) \/ LocalProcessorRecovered(l)
    PROVE  \E n : Becomes(l, n) /\ Tells(link[l], n)
<1> DEFINE k == link[l]
<1>1. k \in Link
  BY DEF Sound, Steady
<1>2. CASE Start(l)
  <2> DEFINE c == k.config
             n == [k EXCEPT
               !.active = TRUE, !.emergency = c.emergency,
               !.remote_processor_outage = FALSE, !.remote_busy = FALSE,
               !.local_busy = FALSE, !.proving_attempt = 0,
               !.tx = TxControl_new(c.method), !.rx = RxControl_new(c.method),
               !.suerm = Suerm_reset(@),
               !.aerm = Aerm_restart(c.aerm_threshold_normal),
               !.timer = [AllStopped EXCEPT !["t2"] = c.t2_not_aligned],
               !.state = "NotAligned"]
  <2>1. Becomes(l, n)
    BY <1>2 DEF Start
  <2> HIDE DEF k
  <2>2. n.events = k.events
    BY <1>1 DEF Link
  <2> HIDE DEF n
  <2> QED BY <1>1, <2>1, <2>2, TellsEvents DEF k
<1>3. CASE Stop(l)
  <2> DEFINE n == emit([stop_all_timers(k) EXCEPT !.active = FALSE, !.state = "OutOfService"],
                       OutOfService("Stopped"))
  <2>1. Becomes(l, n)
    BY <1>3 DEF Stop
  <2>3. n.events = Append(k.events, OutOfService("Stopped"))
    <3> HIDE DEF k
    <3> QED BY <1>1 DEF emit, stop_all_timers, Link
  <2>2. OutOfService("Stopped") \in Event /\ OutOfService("Stopped").msu = Fisu
    BY Events, EventMsus DEF OutOfServiceReason
  <2> HIDE DEF k, n
  <2> QED BY <1>1, <2>1, <2>2, <2>3, TellsEvents DEF k
<1>4. CASE PollTransmit(l)
  <2> DEFINE n == poll_transmit(k).link
  <2>1. Becomes(l, n)
    BY <1>4 DEF PollTransmit
  <2> HIDE DEF k
  <2>2. n.events = k.events
    BY <1>1 DEF poll_transmit, Link
  <2> HIDE DEF n
  <2> QED BY <1>1, <2>1, <2>2, TellsEvents DEF k
<1>5. CASE \E m \in Msu : SubmitMsu(l, m)
  <2>1. \E n : Becomes(l, n) /\ n.events = k.events
    BY <1>1, <1>5 DEF SubmitMsu, Link
  <2> HIDE DEF k
  <2> QED BY <1>1, <2>1, TellsEvents DEF k
<1>6. CASE \E busy \in BOOLEAN : LocalBusy(l, busy)
  <2>1. \E n : Becomes(l, n) /\ n.events = k.events
    BY <1>1, <1>6 DEF LocalBusy, Link
  <2> HIDE DEF k
  <2> QED BY <1>1, <2>1, TellsEvents DEF k
<1>7. CASE LocalProcessorOutage(l)
  <2> DEFINE o == [k EXCEPT !.local_processor_outage = TRUE]
  <2>2. o \in Link /\ o.events = k.events
    BY <1>1 DEF Link
  <2>3. \/ Becomes(l, [o EXCEPT !.state = "ProcessorOutage"])
        \/ Becomes(l, [o EXCEPT !.state = "AlignedNotReady", !.timer["t1"] = Stopped])
        \/ Becomes(l, o)
    BY <1>7 DEF LocalProcessorOutage
  <2> DEFINE p == [o EXCEPT !.state = "ProcessorOutage"]
             q == [o EXCEPT !.state = "AlignedNotReady", !.timer["t1"] = Stopped]
  <2> HIDE DEF o, k
  <2>1. p.events = k.events /\ q.events = k.events
    BY <2>2 DEF Link
  <2>4. \/ Becomes(l, p) \/ Becomes(l, q) \/ Becomes(l, o)
    BY <2>3
  <2> HIDE DEF p, q
  <2> QED BY <1>1, <2>1, <2>2, <2>4, TellsEvents DEF k
<1>8. CASE LocalProcessorRecovered(l)
  <2> DEFINE o == [k EXCEPT !.local_processor_outage = FALSE]
  <2>2. o \in Link /\ o.events = k.events
    BY <1>1 DEF Link
  <2>3. \/ Becomes(l, [o EXCEPT !.state = "InService"])
        \/ Becomes(l, enter_aligned_ready(o))
        \/ Becomes(l, o)
    BY <1>8 DEF LocalProcessorRecovered
  <2> DEFINE p == [o EXCEPT !.state = "InService"]
             q == [o EXCEPT !.state = "AlignedReady", !.timer["t1"] = o.config.t1_aligned_ready]
  <2> HIDE DEF o, k
  <2>1. p.events = k.events /\ q.events = k.events
    BY <2>2 DEF Link
  <2>4. \/ Becomes(l, p) \/ Becomes(l, q) \/ Becomes(l, o)
    BY <2>3 DEF enter_aligned_ready
  <2> HIDE DEF p, q
  <2> QED BY <1>1, <2>1, <2>2, <2>4, TellsEvents DEF k
<1> QED BY <1>2, <1>3, <1>4, <1>5, <1>6, <1>7, <1>8

(***************************************************************************)
(* The engine of a program and that of the ends of LinkTraffic are the     *)
(* same: all that TwoEnds and Ends say of it they take from Mtp2Link.      *)
(***************************************************************************)

TwoEnds == INSTANCE LinkTrafficProofs WITH
    line <- [l \in Links |-> understood(wire[l])],
    delivered <- [l \in Links |-> latest(link[l].events, got[l])]

LEMMA SameCardinality ==
    ASSUME NEW S
    PROVE  Ends!Cardinality(S) = Cardinality(S) /\ TwoEnds!Cardinality(S) = Cardinality(S)
BY DEF Ends!Cardinality, Cardinality, TwoEnds!Cardinality

\* What the engines do.
LEMMA SameEngine ==
    ASSUME NEW end
    PROVE  /\ (Ends!Init <=> Init)
           /\ (TwoEnds!Init <=> Init)
           /\ (Ends!PollEvent(end) <=> PollEvent(end))
           /\ (TwoEnds!PollEvent(end) <=> PollEvent(end))
           /\ (Ends!Start(end) <=> Start(end))
           /\ (TwoEnds!Start(end) <=> Start(end))
           /\ (Ends!Stop(end) <=> Stop(end))
           /\ (TwoEnds!Stop(end) <=> Stop(end))
           /\ (Ends!LocalProcessorOutage(end) <=> LocalProcessorOutage(end))
           /\ (TwoEnds!LocalProcessorOutage(end) <=> LocalProcessorOutage(end))
           /\ (Ends!LocalProcessorRecovered(end) <=> LocalProcessorRecovered(end))
           /\ (TwoEnds!LocalProcessorRecovered(end) <=> LocalProcessorRecovered(end))
           /\ (Ends!PollTransmit(end) <=> PollTransmit(end))
           /\ (TwoEnds!PollTransmit(end) <=> PollTransmit(end))
           /\ (Ends!HandleCorruptedSu(end) <=> HandleCorruptedSu(end))
           /\ (TwoEnds!HandleCorruptedSu(end) <=> HandleCorruptedSu(end))
           /\ (Ends!Tick(end) <=> Tick(end))
           /\ (TwoEnds!Tick(end) <=> Tick(end))
           /\ \A busy : /\ (Ends!LocalBusy(end, busy) <=> LocalBusy(end, busy))
                        /\ (TwoEnds!LocalBusy(end, busy) <=> LocalBusy(end, busy))
           /\ \A msu : /\ (Ends!SubmitMsu(end, msu) <=> SubmitMsu(end, msu))
                       /\ (TwoEnds!SubmitMsu(end, msu) <=> SubmitMsu(end, msu))
           /\ \A su : /\ (Ends!HandleSu(end, su) <=> HandleSu(end, su))
                      /\ (TwoEnds!HandleSu(end, su) <=> HandleSu(end, su))
           /\ \A k : /\ Ends!poll_transmit(k) = poll_transmit(k)
                     /\ TwoEnds!poll_transmit(k) = poll_transmit(k)
                     /\ (Ends!transmitting(k) <=> transmitting(k))
                     /\ (TwoEnds!transmitting(k) <=> transmitting(k))
<1>1. ASSUME NEW method
      PROVE  /\ Ends!TxControl_new(method) = TxControl_new(method)
             /\ TwoEnds!TxControl_new(method) = TxControl_new(method)
  BY DEF TxControl_new, Ends!TxControl_new, TwoEnds!TxControl_new, NoCursor,
        Ends!NoCursor, TwoEnds!NoCursor
<1>2. ASSUME NEW method
      PROVE  /\ Ends!RxControl_new(method) = RxControl_new(method)
             /\ TwoEnds!RxControl_new(method) = RxControl_new(method)
  BY DEF RxControl_new, Ends!RxControl_new, TwoEnds!RxControl_new
<1>3. ASSUME NEW c
      PROVE  /\ Ends!Mtp2Link_new(c) = Mtp2Link_new(c)
             /\ TwoEnds!Mtp2Link_new(c) = Mtp2Link_new(c)
  BY <1>1, <1>2 DEF Mtp2Link_new, Ends!Mtp2Link_new, TwoEnds!Mtp2Link_new,
        Aerm_restart, Ends!Aerm_restart, TwoEnds!Aerm_restart, Suerm_new,
        Ends!Suerm_new, TwoEnds!Suerm_new, AllStopped, Ends!AllStopped,
        TwoEnds!AllStopped, Timer, Ends!Timer, TwoEnds!Timer, Stopped, Ends!Stopped,
        TwoEnds!Stopped
<1>4. (Ends!Init <=> Init) /\ (TwoEnds!Init <=> Init)
  BY <1>3 DEF Init, Ends!Init, TwoEnds!Init
<1>5. ASSUME NEW l
      PROVE  /\ (Ends!PollEvent(l) <=> PollEvent(l))
             /\ (TwoEnds!PollEvent(l) <=> PollEvent(l))
  BY DEF PollEvent, Ends!PollEvent, TwoEnds!PollEvent, Becomes, Ends!Becomes,
        TwoEnds!Becomes
<1>6. ASSUME NEW l
      PROVE  (Ends!Start(l) <=> Start(l)) /\ (TwoEnds!Start(l) <=> Start(l))
  BY <1>1, <1>2, ZenonT(60) DEF Start, Ends!Start, TwoEnds!Start, Call, Ends!Call, TwoEnds!Call,
        Becomes, Ends!Becomes, TwoEnds!Becomes, Suerm_reset, Ends!Suerm_reset,
        TwoEnds!Suerm_reset, Aerm_restart, Ends!Aerm_restart, TwoEnds!Aerm_restart,
        AllStopped, Ends!AllStopped, TwoEnds!AllStopped, Timer, Ends!Timer,
        TwoEnds!Timer, Stopped, Ends!Stopped, TwoEnds!Stopped
<1>7. ASSUME NEW k, NEW event
      PROVE  /\ Ends!emit(k, event) = emit(k, event)
             /\ TwoEnds!emit(k, event) = emit(k, event)
  BY DEF emit, Ends!emit, TwoEnds!emit
<1>8. ASSUME NEW l
      PROVE  (Ends!Stop(l) <=> Stop(l)) /\ (TwoEnds!Stop(l) <=> Stop(l))
  BY <1>7 DEF Stop, Ends!Stop, TwoEnds!Stop, Call, Ends!Call, TwoEnds!Call, Becomes,
        Ends!Becomes, TwoEnds!Becomes, stop_all_timers, Ends!stop_all_timers,
        TwoEnds!stop_all_timers, AllStopped, Ends!AllStopped, TwoEnds!AllStopped,
        Timer, Ends!Timer, TwoEnds!Timer, Stopped, Ends!Stopped, TwoEnds!Stopped,
        OutOfService, Ends!OutOfService, TwoEnds!OutOfService
<1>9. ASSUME NEW l, NEW msu
      PROVE  /\ (Ends!SubmitMsu(l, msu) <=> SubmitMsu(l, msu))
             /\ (TwoEnds!SubmitMsu(l, msu) <=> SubmitMsu(l, msu))
  BY DEF SubmitMsu, Ends!SubmitMsu, TwoEnds!SubmitMsu, Call, Ends!Call,
        TwoEnds!Call, Becomes, Ends!Becomes, TwoEnds!Becomes, submit, Ends!submit,
        TwoEnds!submit
<1>10. ASSUME NEW l
       PROVE  /\ (Ends!LocalProcessorOutage(l) <=> LocalProcessorOutage(l))
              /\ (TwoEnds!LocalProcessorOutage(l) <=> LocalProcessorOutage(l))
  BY DEF LocalProcessorOutage, Ends!LocalProcessorOutage,
        TwoEnds!LocalProcessorOutage, Call, Ends!Call, TwoEnds!Call, Becomes,
        Ends!Becomes, TwoEnds!Becomes, Stopped, Ends!Stopped, TwoEnds!Stopped
<1>11. ASSUME NEW l
       PROVE  /\ (Ends!LocalProcessorRecovered(l) <=> LocalProcessorRecovered(l))
              /\ (TwoEnds!LocalProcessorRecovered(l) <=> LocalProcessorRecovered(l))
  BY DEF LocalProcessorRecovered, Ends!LocalProcessorRecovered,
        TwoEnds!LocalProcessorRecovered, Call, Ends!Call, TwoEnds!Call, Becomes,
        Ends!Becomes, TwoEnds!Becomes, enter_aligned_ready,
        Ends!enter_aligned_ready, TwoEnds!enter_aligned_ready
<1>12. ASSUME NEW l, NEW busy
       PROVE  /\ (Ends!LocalBusy(l, busy) <=> LocalBusy(l, busy))
              /\ (TwoEnds!LocalBusy(l, busy) <=> LocalBusy(l, busy))
  BY DEF LocalBusy, Ends!LocalBusy, TwoEnds!LocalBusy, Call, Ends!Call,
        TwoEnds!Call, Becomes, Ends!Becomes, TwoEnds!Becomes
<1>13. ASSUME NEW tx
       PROVE  Ends!send_new(tx) = send_new(tx) /\ TwoEnds!send_new(tx) = send_new(tx)
  BY DEF send_new, Ends!send_new, TwoEnds!send_new, seq_add, Ends!seq_add,
        TwoEnds!seq_add
<1>14. ASSUME NEW tx
       PROVE  /\ Ends!poll_basic(tx) = poll_basic(tx)
              /\ TwoEnds!poll_basic(tx) = poll_basic(tx)
  BY <1>13 DEF poll_basic, Ends!poll_basic, TwoEnds!poll_basic, NoCursor,
        Ends!NoCursor, TwoEnds!NoCursor, resend, Ends!resend, TwoEnds!resend,
        send_fisu, Ends!send_fisu, TwoEnds!send_fisu, Fisu, Ends!Fisu, TwoEnds!Fisu
<1>15. ASSUME NEW tx
       PROVE  Ends!poll_pcr(tx) = poll_pcr(tx) /\ TwoEnds!poll_pcr(tx) = poll_pcr(tx)
  BY <1>13 DEF poll_pcr, Ends!poll_pcr, TwoEnds!poll_pcr, forced, Ends!forced,
        TwoEnds!forced, unacked_octets, Ends!unacked_octets, TwoEnds!unacked_octets,
        resend, Ends!resend, TwoEnds!resend, send_fisu, Ends!send_fisu,
        TwoEnds!send_fisu, Fisu, Ends!Fisu, TwoEnds!Fisu
<1>16. ASSUME NEW tx
       PROVE  Ends!poll(tx) = poll(tx) /\ TwoEnds!poll(tx) = poll(tx)
  BY <1>14, <1>15 DEF poll, Ends!poll, TwoEnds!poll
<1>17. ASSUME NEW k, NEW msu
       PROVE  /\ Ends!outgoing_kind(k, msu) = outgoing_kind(k, msu)
              /\ TwoEnds!outgoing_kind(k, msu) = outgoing_kind(k, msu)
  BY DEF outgoing_kind, Ends!outgoing_kind, TwoEnds!outgoing_kind, Fisu, Ends!Fisu,
        TwoEnds!Fisu
<1>18. ASSUME NEW k
       PROVE  /\ Ends!poll_transmit(k) = poll_transmit(k)
              /\ TwoEnds!poll_transmit(k) = poll_transmit(k)
  BY <1>16, <1>17 DEF poll_transmit, Ends!poll_transmit, TwoEnds!poll_transmit,
        holding, Ends!holding, TwoEnds!holding, send_fisu, Ends!send_fisu,
        TwoEnds!send_fisu, Fisu, Ends!Fisu, TwoEnds!Fisu, Stopped, Ends!Stopped,
        TwoEnds!Stopped
<1>19. ASSUME NEW l
       PROVE  /\ (Ends!PollTransmit(l) <=> PollTransmit(l))
              /\ (TwoEnds!PollTransmit(l) <=> PollTransmit(l))
  BY <1>18 DEF PollTransmit, Ends!PollTransmit, TwoEnds!PollTransmit, Call,
        Ends!Call, TwoEnds!Call, transmitting, Ends!transmitting,
        TwoEnds!transmitting, Becomes, Ends!Becomes, TwoEnds!Becomes
<1>20. ASSUME NEW a, NEW b
       PROVE  /\ Ends!saturating_sub(a, b) = saturating_sub(a, b)
              /\ TwoEnds!saturating_sub(a, b) = saturating_sub(a, b)
  BY DEF saturating_sub, Ends!saturating_sub, TwoEnds!saturating_sub
<1>21. ASSUME NEW suerm, NEW in_error
       PROVE  /\ Ends!Suerm_record(suerm, in_error) = Suerm_record(suerm, in_error)
              /\ TwoEnds!Suerm_record(suerm, in_error) = Suerm_record(suerm, in_error)
  BY <1>20 DEF Suerm_record, Ends!Suerm_record, TwoEnds!Suerm_record
<1>22. ASSUME NEW k, NEW in_error
       PROVE  /\ Ends!counted(k, in_error) = counted(k, in_error)
              /\ TwoEnds!counted(k, in_error) = counted(k, in_error)
  BY <1>21 DEF counted, Ends!counted, TwoEnds!counted, Traffic, Ends!Traffic,
        TwoEnds!Traffic
<1>23. ASSUME NEW k, NEW reason
       PROVE  /\ Ends!fail_out_of_service(k, reason) = fail_out_of_service(k, reason)
              /\ TwoEnds!fail_out_of_service(k, reason) = fail_out_of_service(k, reason)
  BY <1>7 DEF fail_out_of_service, Ends!fail_out_of_service,
        TwoEnds!fail_out_of_service, stop_all_timers, Ends!stop_all_timers,
        TwoEnds!stop_all_timers, AllStopped, Ends!AllStopped, TwoEnds!AllStopped,
        Timer, Ends!Timer, TwoEnds!Timer, Stopped, Ends!Stopped, TwoEnds!Stopped,
        OutOfService, Ends!OutOfService, TwoEnds!OutOfService
<1>24. ASSUME NEW k, NEW left
       PROVE  /\ Ends!enter_aligned(k, left) = enter_aligned(k, left)
              /\ TwoEnds!enter_aligned(k, left) = enter_aligned(k, left)
  BY DEF enter_aligned, Ends!enter_aligned, TwoEnds!enter_aligned, Stopped,
        Ends!Stopped, TwoEnds!Stopped
<1>25. ASSUME NEW l, NEW k, NEW status
       PROVE  /\ (Ends!LssuNotAligned(l, k, status) <=> LssuNotAligned(l, k, status))
              /\ (TwoEnds!LssuNotAligned(l, k, status) <=> LssuNotAligned(l, k, status))
  BY <1>24 DEF LssuNotAligned, Ends!LssuNotAligned, TwoEnds!LssuNotAligned,
        Aligning, Ends!Aligning, TwoEnds!Aligning, Becomes, Ends!Becomes,
        TwoEnds!Becomes
<1>26. ASSUME NEW k
       PROVE  /\ Ends!enter_proving(k) = enter_proving(k)
              /\ TwoEnds!enter_proving(k) = enter_proving(k)
  BY DEF enter_proving, Ends!enter_proving, TwoEnds!enter_proving, Aerm_restart,
        Ends!Aerm_restart, TwoEnds!Aerm_restart
<1>27. ASSUME NEW k, NEW failure
       PROVE  /\ Ends!fail_alignment(k, failure) = fail_alignment(k, failure)
              /\ TwoEnds!fail_alignment(k, failure) = fail_alignment(k, failure)
  BY <1>7 DEF fail_alignment, Ends!fail_alignment, TwoEnds!fail_alignment,
        stop_all_timers, Ends!stop_all_timers, TwoEnds!stop_all_timers, AllStopped,
        Ends!AllStopped, TwoEnds!AllStopped, Timer, Ends!Timer, TwoEnds!Timer,
        Stopped, Ends!Stopped, TwoEnds!Stopped, AlignmentFailed,
        Ends!AlignmentFailed, TwoEnds!AlignmentFailed
<1>28. ASSUME NEW l, NEW k, NEW status
       PROVE  /\ (Ends!LssuAligned(l, k, status) <=> LssuAligned(l, k, status))
              /\ (TwoEnds!LssuAligned(l, k, status) <=> LssuAligned(l, k, status))
  BY <1>26, <1>27 DEF LssuAligned, Ends!LssuAligned, TwoEnds!LssuAligned, Becomes,
        Ends!Becomes, TwoEnds!Becomes, Stopped, Ends!Stopped, TwoEnds!Stopped
<1>29. ASSUME NEW l, NEW k, NEW status
       PROVE  /\ (Ends!LssuProving(l, k, status) <=> LssuProving(l, k, status))
              /\ (TwoEnds!LssuProving(l, k, status) <=> LssuProving(l, k, status))
  BY <1>26, <1>24, <1>27 DEF LssuProving, Ends!LssuProving, TwoEnds!LssuProving,
        Becomes, Ends!Becomes, TwoEnds!Becomes
<1>30. ASSUME NEW k
       PROVE  /\ Ends!enter_in_service(k) = enter_in_service(k)
              /\ TwoEnds!enter_in_service(k) = enter_in_service(k)
  BY <1>7 DEF enter_in_service, Ends!enter_in_service, TwoEnds!enter_in_service,
        Stopped, Ends!Stopped, TwoEnds!Stopped, Suerm_reset, Ends!Suerm_reset,
        TwoEnds!Suerm_reset, Plain, Ends!Plain, TwoEnds!Plain
<1>31. ASSUME NEW l, NEW k, NEW status
       PROVE  /\ (Ends!LssuReady(l, k, status) <=> LssuReady(l, k, status))
              /\ (TwoEnds!LssuReady(l, k, status) <=> LssuReady(l, k, status))
  BY <1>7, <1>30, <1>27 DEF LssuReady, Ends!LssuReady, TwoEnds!LssuReady, Becomes,
        Ends!Becomes, TwoEnds!Becomes, Plain, Ends!Plain, TwoEnds!Plain
<1>32. ASSUME NEW k
       PROVE  /\ Ends!remote_outage(k) = remote_outage(k)
              /\ TwoEnds!remote_outage(k) = remote_outage(k)
  BY <1>7 DEF remote_outage, Ends!remote_outage, TwoEnds!remote_outage, Plain,
        Ends!Plain, TwoEnds!Plain
<1>33. ASSUME NEW k
       PROVE  /\ Ends!remote_congestion(k) = remote_congestion(k)
              /\ TwoEnds!remote_congestion(k) = remote_congestion(k)
  BY <1>7 DEF remote_congestion, Ends!remote_congestion, TwoEnds!remote_congestion,
        Plain, Ends!Plain, TwoEnds!Plain
<1>34. ASSUME NEW l, NEW k, NEW status
       PROVE  /\ (Ends!LssuTraffic(l, k, status) <=> LssuTraffic(l, k, status))
              /\ (TwoEnds!LssuTraffic(l, k, status) <=> LssuTraffic(l, k, status))
  BY <1>32, <1>33, <1>23 DEF LssuTraffic, Ends!LssuTraffic, TwoEnds!LssuTraffic,
        Traffic, Ends!Traffic, TwoEnds!Traffic, Becomes, Ends!Becomes,
        TwoEnds!Becomes, Aligning, Ends!Aligning, TwoEnds!Aligning
<1>35. ASSUME NEW state
       PROVE  /\ Ends!heeded(state) = heeded(state)
              /\ TwoEnds!heeded(state) = heeded(state)
  BY DEF heeded, Ends!heeded, TwoEnds!heeded, Aligning, Ends!Aligning,
        TwoEnds!Aligning, Traffic, Ends!Traffic, TwoEnds!Traffic, StatusIndication,
        Ends!StatusIndication, TwoEnds!StatusIndication
<1>36. ASSUME NEW l, NEW used, NEW status
       PROVE  /\ (Ends!HandleLssu(l, used, status) <=> HandleLssu(l, used, status))
              /\ (TwoEnds!HandleLssu(l, used, status) <=> HandleLssu(l, used, status))
  BY <1>25, <1>28, <1>29, <1>31, <1>34, <1>35 DEF HandleLssu, Ends!HandleLssu,
        TwoEnds!HandleLssu, upgraded, Ends!upgraded, TwoEnds!upgraded, Becomes,
        Ends!Becomes, TwoEnds!Becomes
<1>37. ASSUME NEW k
       PROVE  /\ Ends!remote_busy_ended(k) = remote_busy_ended(k)
              /\ TwoEnds!remote_busy_ended(k) = remote_busy_ended(k)
  BY <1>7 DEF remote_busy_ended, Ends!remote_busy_ended, TwoEnds!remote_busy_ended,
        Stopped, Ends!Stopped, TwoEnds!Stopped, Plain, Ends!Plain, TwoEnds!Plain
<1>38. ASSUME NEW k
       PROVE  /\ Ends!remote_recovered(k) = remote_recovered(k)
              /\ TwoEnds!remote_recovered(k) = remote_recovered(k)
  BY <1>7 DEF remote_recovered, Ends!remote_recovered, TwoEnds!remote_recovered,
        Plain, Ends!Plain, TwoEnds!Plain
<1>39. ASSUME NEW tx, NEW n
       PROVE  Ends!free(tx, n) = free(tx, n) /\ TwoEnds!free(tx, n) = free(tx, n)
  BY DEF free, Ends!free, TwoEnds!free, NoCursor, Ends!NoCursor, TwoEnds!NoCursor
<1>40. ASSUME NEW a, NEW b
       PROVE  /\ Ends!seq_forward(a, b) = seq_forward(a, b)
              /\ TwoEnds!seq_forward(a, b) = seq_forward(a, b)
  BY DEF seq_forward, Ends!seq_forward, TwoEnds!seq_forward
<1>41. ASSUME NEW unacked, NEW bsn
       PROVE  /\ Ends!acknowledged(unacked, bsn) = acknowledged(unacked, bsn)
              /\ TwoEnds!acknowledged(unacked, bsn) = acknowledged(unacked, bsn)
  BY <1>40, SameCardinality DEF acknowledged, Ends!acknowledged, TwoEnds!acknowledged,
        SEQ_HALF, Ends!SEQ_HALF, TwoEnds!SEQ_HALF
<1>42. ASSUME NEW tx, NEW bsn, NEW bib
       PROVE  /\ Ends!on_ack(tx, bsn, bib) = on_ack(tx, bsn, bib)
              /\ TwoEnds!on_ack(tx, bsn, bib) = on_ack(tx, bsn, bib)
  BY <1>39, <1>41 DEF on_ack, Ends!on_ack, TwoEnds!on_ack
<1>43. ASSUME NEW k, NEW su
       PROVE  /\ Ends!acknowledge(k, su) = acknowledge(k, su)
              /\ TwoEnds!acknowledge(k, su) = acknowledge(k, su)
  BY <1>42 DEF acknowledge, Ends!acknowledge, TwoEnds!acknowledge, Stopped,
        Ends!Stopped, TwoEnds!Stopped
<1>44. ASSUME NEW rx, NEW fsn
       PROVE  /\ Ends!on_msu(rx, fsn) = on_msu(rx, fsn)
              /\ TwoEnds!on_msu(rx, fsn) = on_msu(rx, fsn)
  BY <1>40 DEF on_msu, Ends!on_msu, TwoEnds!on_msu, SEQ_HALF, Ends!SEQ_HALF,
        TwoEnds!SEQ_HALF
<1>45. ASSUME NEW msu
       PROVE  /\ Ends!MsuEvent(msu) = MsuEvent(msu)
              /\ TwoEnds!MsuEvent(msu) = MsuEvent(msu)
  BY DEF MsuEvent, Ends!MsuEvent, TwoEnds!MsuEvent
<1>46. ASSUME NEW k, NEW su
       PROVE  /\ Ends!receive_msu(k, su) = receive_msu(k, su)
              /\ TwoEnds!receive_msu(k, su) = receive_msu(k, su)
  BY <1>44, <1>7, <1>45 DEF receive_msu, Ends!receive_msu, TwoEnds!receive_msu,
        Plain, Ends!Plain, TwoEnds!Plain
<1>47. ASSUME NEW k, NEW su
       PROVE  /\ Ends!process_in_service_su(k, su) = process_in_service_su(k, su)
              /\ TwoEnds!process_in_service_su(k, su) = process_in_service_su(k, su)
  BY <1>37, <1>38, <1>43, <1>46 DEF process_in_service_su,
        Ends!process_in_service_su, TwoEnds!process_in_service_su
<1>48. ASSUME NEW l, NEW k, NEW su
       PROVE  /\ (Ends!HandleFisuOrMsu(l, k, su) <=> HandleFisuOrMsu(l, k, su))
              /\ (TwoEnds!HandleFisuOrMsu(l, k, su) <=> HandleFisuOrMsu(l, k, su))
  BY <1>47, <1>30 DEF HandleFisuOrMsu, Ends!HandleFisuOrMsu,
        TwoEnds!HandleFisuOrMsu, Becomes, Ends!Becomes, TwoEnds!Becomes, Traffic,
        Ends!Traffic, TwoEnds!Traffic
<1>49. ASSUME NEW l, NEW su
       PROVE  /\ (Ends!HandleSu(l, su) <=> HandleSu(l, su))
              /\ (TwoEnds!HandleSu(l, su) <=> HandleSu(l, su))
  BY <1>22, <1>23, <1>36, <1>48, ZenonT(60) DEF HandleSu, Ends!HandleSu, TwoEnds!HandleSu, Call,
        Ends!Call, TwoEnds!Call, suerm_tripped, Ends!suerm_tripped,
        TwoEnds!suerm_tripped, Traffic, Ends!Traffic, TwoEnds!Traffic, Becomes,
        Ends!Becomes, TwoEnds!Becomes, StatusIndication, Ends!StatusIndication,
        TwoEnds!StatusIndication, Aligning, Ends!Aligning, TwoEnds!Aligning
<1>50. ASSUME NEW aerm
       PROVE  /\ Ends!Aerm_record_error(aerm) = Aerm_record_error(aerm)
              /\ TwoEnds!Aerm_record_error(aerm) = Aerm_record_error(aerm)
  BY DEF Aerm_record_error, Ends!Aerm_record_error, TwoEnds!Aerm_record_error
<1>51. ASSUME NEW aerm
       PROVE  /\ (Ends!Aerm_is_tripped(aerm) <=> Aerm_is_tripped(aerm))
              /\ (TwoEnds!Aerm_is_tripped(aerm) <=> Aerm_is_tripped(aerm))
  BY DEF Aerm_is_tripped, Ends!Aerm_is_tripped, TwoEnds!Aerm_is_tripped
<1>52. ASSUME NEW k
       PROVE  /\ Ends!proving_aborted(k) = proving_aborted(k)
              /\ TwoEnds!proving_aborted(k) = proving_aborted(k)
  BY <1>24, <1>27 DEF proving_aborted, Ends!proving_aborted, TwoEnds!proving_aborted
<1>53. ASSUME NEW l
       PROVE  /\ (Ends!HandleCorruptedSu(l) <=> HandleCorruptedSu(l))
              /\ (TwoEnds!HandleCorruptedSu(l) <=> HandleCorruptedSu(l))
  <2> DEFINE proved == [link[l] EXCEPT !.aerm = Aerm_record_error(@)]
             used   == counted(link[l], TRUE)
  <2>1. /\ [link[l] EXCEPT !.aerm = Ends!Aerm_record_error(@)] = proved
        /\ [link[l] EXCEPT !.aerm = TwoEnds!Aerm_record_error(@)] = proved
    BY <1>50
  <2>2. Ends!counted(link[l], TRUE) = used /\ TwoEnds!counted(link[l], TRUE) = used
    BY <1>22
  <2> HIDE DEF proved, used
  <2>3. /\ Ends!Aerm_is_tripped(proved.aerm) <=> Aerm_is_tripped(proved.aerm)
        /\ TwoEnds!Aerm_is_tripped(proved.aerm) <=> Aerm_is_tripped(proved.aerm)
    BY <1>51
  <2>4. /\ Ends!proving_aborted(proved) = proving_aborted(proved)
        /\ TwoEnds!proving_aborted(proved) = proving_aborted(proved)
        /\ Ends!fail_out_of_service(used, "SuermFailure")
               = fail_out_of_service(used, "SuermFailure")
        /\ TwoEnds!fail_out_of_service(used, "SuermFailure")
               = fail_out_of_service(used, "SuermFailure")
    BY <1>52, <1>23
  <2>5. HandleCorruptedSu(l) <=>
          /\ Call(l)
          /\ \/ /\ link[l].state = "Proving"
                /\ Becomes(l, IF Aerm_is_tripped(proved.aerm) THEN proving_aborted(proved)
                              ELSE proved)
             \/ /\ link[l].state # "Proving"
                /\ Becomes(l, IF suerm_tripped(used)
                              THEN fail_out_of_service(used, "SuermFailure") ELSE used)
    BY DEF proved, used, HandleCorruptedSu
  <2> QED
    BY <2>1, <2>2, <2>3, <2>4, <2>5
       DEF Ends!HandleCorruptedSu, TwoEnds!HandleCorruptedSu, Call, Ends!Call,
           TwoEnds!Call, Becomes, Ends!Becomes, TwoEnds!Becomes, suerm_tripped,
           Ends!suerm_tripped, TwoEnds!suerm_tripped, Traffic, Ends!Traffic,
           TwoEnds!Traffic
<1>54. ASSUME NEW x
       PROVE  Ends!guarded(x) = guarded(x) /\ TwoEnds!guarded(x) = guarded(x)
  BY DEF guarded, Ends!guarded, TwoEnds!guarded, Traffic, Ends!Traffic,
        TwoEnds!Traffic
<1>55. ASSUME NEW k, NEW x
       PROVE  (Ends!acts(k, x) <=> acts(k, x)) /\ (TwoEnds!acts(k, x) <=> acts(k, x))
  BY <1>54 DEF acts, Ends!acts, TwoEnds!acts, expires, Ends!expires,
        TwoEnds!expires, Stopped, Ends!Stopped, TwoEnds!Stopped
<1>56. ASSUME NEW k
       PROVE  /\ Ends!proving_succeeded(k) = proving_succeeded(k)
              /\ TwoEnds!proving_succeeded(k) = proving_succeeded(k)
  BY DEF proving_succeeded, Ends!proving_succeeded, TwoEnds!proving_succeeded,
        Stopped, Ends!Stopped, TwoEnds!Stopped, enter_aligned_ready,
        Ends!enter_aligned_ready, TwoEnds!enter_aligned_ready
<1>57. ASSUME NEW l
       PROVE  (Ends!Tick(l) <=> Tick(l)) /\ (TwoEnds!Tick(l) <=> Tick(l))
  BY <1>55, <1>27, <1>56, <1>23 DEF Tick, Ends!Tick, TwoEnds!Tick, Call, Ends!Call,
        TwoEnds!Call, Becomes, Ends!Becomes, TwoEnds!Becomes, step, Ends!step,
        TwoEnds!step, Timer, Ends!Timer, TwoEnds!Timer, step_timer, Ends!step_timer,
        TwoEnds!step_timer, Stopped, Ends!Stopped, TwoEnds!Stopped
<1>58. ASSUME NEW k
       PROVE  /\ (Ends!transmitting(k) <=> transmitting(k))
              /\ (TwoEnds!transmitting(k) <=> transmitting(k))
  BY DEF transmitting, Ends!transmitting, TwoEnds!transmitting
<1> QED BY <1>4, <1>5, <1>6, <1>8, <1>9, <1>10, <1>11, <1>12, <1>18, <1>19, <1>49,
           <1>53, <1>57, <1>58

\* What LinkTrafficProofs takes for granted holds of the links of the programs.
LEMMA SameAssumptions ==
    /\ TwoEnds!SequenceSpace /\ TwoEnds!MsuSizes /\ TwoEnds!LinkBounds
    /\ TwoEnds!PairBounds /\ TwoEnds!TrafficBounds
<1>1. config \in [Links -> TwoEnds!Mtp2Config]
  BY LinkBounds DEF Mtp2Config, TwoEnds!Mtp2Config, RetransmissionMethod,
                    TwoEnds!RetransmissionMethod, Basic, TwoEnds!Basic
<1>2. TwoEnds!LinkBounds
  BY <1>1, LinkBounds DEF TwoEnds!LinkBounds
<1>3. TwoEnds!PairBounds
  BY Programs DEF TwoEnds!PairBounds
<1>4. TwoEnds!TrafficBounds
  BY Programs, Bodies DEF TwoEnds!TrafficBounds
<1>5. TwoEnds!SequenceSpace /\ TwoEnds!MsuSizes
  BY SequenceSpace, MsuSizes DEF TwoEnds!SequenceSpace, TwoEnds!MsuSizes
<1> QED BY <1>2, <1>3, <1>4, <1>5

\* What an end hears.
LEMMA SameHear ==
    ASSUME NEW l
    PROVE  Ends!Hear(l) => TwoEnds!Hear(l)
<1>1. Ends!passed(l) = TwoEnds!passed(l)
  BY DEF Ends!passed, TwoEnds!passed, Ends!Fisu, TwoEnds!Fisu
<1>2. \A su : Ends!HandleSu(l, su) <=> TwoEnds!HandleSu(l, su)
  BY SameEngine
<1>3. Ends!Arrive(l) => TwoEnds!Arrive(l)
  BY DEF Ends!Arrive, TwoEnds!Arrive
<1>4. Ends!Receive(l) => TwoEnds!Receive(l)
  BY <1>2, <1>3 DEF Ends!Receive, TwoEnds!Receive
<1> QED BY <1>1, <1>4 DEF Ends!Hear, TwoEnds!Hear

\* The line and what has been delivered, as the ends see it.
LEMMA SameTraffic ==
    /\ Ends!TrafficInit => TwoEnds!TrafficInit
    /\ Ends!TrafficNext => TwoEnds!TrafficNext
    /\ UNCHANGED Ends!trafficVars => UNCHANGED TwoEnds!trafficVars
<1>1. Ends!TrafficInit => TwoEnds!TrafficInit
  BY SameEngine DEF Ends!TrafficInit, TwoEnds!TrafficInit, Ends!PairInit, TwoEnds!PairInit
<1>2. ASSUME NEW l PROVE Ends!peer(l) = TwoEnds!peer(l)
  BY DEF Ends!peer, TwoEnds!peer
<1>3. UNCHANGED Ends!trafficVars => UNCHANGED TwoEnds!trafficVars
  BY DEF Ends!trafficVars, TwoEnds!trafficVars, Ends!pairVars, TwoEnds!pairVars,
         Ends!history, TwoEnds!history
<1>4. ASSUME NEW l
      PROVE  /\ Ends!Submit(l) => TwoEnds!Submit(l)
             /\ Ends!UserGone(l) => TwoEnds!UserGone(l)
             /\ Ends!UserBack(l) => TwoEnds!UserBack(l)
             /\ Ends!UserBusy(l) => TwoEnds!UserBusy(l)
             /\ Ends!UserFree(l) => TwoEnds!UserFree(l)
  BY SameEngine DEF Ends!Submit, TwoEnds!Submit, Ends!UserGone, TwoEnds!UserGone,
         Ends!UserBack, TwoEnds!UserBack, Ends!UserBusy, TwoEnds!UserBusy,
         Ends!UserFree, TwoEnds!UserFree, Ends!Hold, TwoEnds!Hold,
         Ends!Release, TwoEnds!Release, Ends!lineVars, TwoEnds!lineVars,
         Ends!history, TwoEnds!history
<1>5. ASSUME NEW l
      PROVE  Ends!StartUp(l) => TwoEnds!StartUp(l)
  <2>1. Ends!kept(l) = TwoEnds!kept(l)
    BY DEF Ends!kept, TwoEnds!kept
  <2> QED BY <2>1, SameEngine DEF Ends!StartUp, TwoEnds!StartUp, Ends!BringUp,
         TwoEnds!BringUp, Ends!lineVars, TwoEnds!lineVars
<1>6. ASSUME NEW l
      PROVE  Ends!Hear(l) => TwoEnds!Hear(l)
  BY SameHear
<1>7. ASSUME NEW l
      PROVE  Ends!Rest(l) => TwoEnds!Rest(l)
  <2>1. Ends!Read(l) => TwoEnds!Read(l)
    BY SameEngine DEF Ends!Read, TwoEnds!Read, Ends!lineVars, TwoEnds!lineVars
  <2>2. Ends!TakeDown(l) => TwoEnds!TakeDown(l)
    BY SameEngine DEF Ends!TakeDown, TwoEnds!TakeDown, Ends!Disturb, TwoEnds!Disturb
  <2>3. Ends!Send(l) => TwoEnds!Send(l)
    <3>1. /\ Ends!PollTransmit(l) <=> TwoEnds!PollTransmit(l)
          /\ Ends!poll_transmit(link[l]) = TwoEnds!poll_transmit(link[l])
      BY SameEngine
    <3> QED BY <1>2, <3>1 DEF Ends!Send, TwoEnds!Send
  <2>4. Ends!ReceiveCorrupted(l) => TwoEnds!ReceiveCorrupted(l)
    BY SameEngine DEF Ends!ReceiveCorrupted, TwoEnds!ReceiveCorrupted, Ends!Disturb,
         TwoEnds!Disturb, Ends!Arrive, TwoEnds!Arrive
  <2>5. Ends!Clock(l) => TwoEnds!Clock(l)
    BY SameEngine DEF Ends!Clock, TwoEnds!Clock
  <2> QED BY <2>1, <2>2, <2>3, <2>4, <2>5
          DEF Ends!Rest, TwoEnds!Rest, Ends!history, TwoEnds!history
<1>8. (Ends!inputs' <= MaxInputs) => (TwoEnds!inputs' <= MaxInputs)
  BY <1>2 DEF Ends!inputs, TwoEnds!inputs
<1> QED BY <1>1, <1>3, <1>4, <1>5, <1>6, <1>7, <1>8 DEF Ends!TrafficNext, TwoEnds!TrafficNext

(***************************************************************************)
(* What the links hold is small enough to be sent.                         *)
(***************************************************************************)
Fits(tx) ==
    /\ \A i \in DOMAIN tx.unacked : octets[tx.unacked[i].msu] <= MAX_MSU_BODY
    /\ \A i \in DOMAIN tx.pending : octets[tx.pending[i]] <= MAX_MSU_BODY

\* poll, on_ack, submit and new keep it so.
LEMMA FitsTx ==
    ASSUME NEW tx \in TxControl, Fits(tx)
    PROVE  /\ Fits(poll(tx).tx)
           /\ poll(tx).frame.msu # Fisu => octets[poll(tx).frame.msu] <= MAX_MSU_BODY
           /\ \A bsn \in SequenceNumber, bib \in BOOLEAN : Fits(on_ack(tx, bsn, bib))
           /\ \A msu \in Msu : octets[msu] <= MAX_MSU_BODY => Fits(submit(tx, msu))
           /\ \A method : Fits(TxControl_new(method))
<1>1. tx.unacked \in Seq(BufferedMsu) /\ tx.pending \in Seq(Msu)
  BY DEF TxControl
<1>2. /\ Fits(poll(tx).tx)
      /\ poll(tx).frame.msu # Fisu => octets[poll(tx).frame.msu] <= MAX_MSU_BODY
  <2> DEFINE d == poll(tx).tx
             m == poll(tx).frame.msu
             b == [fsn |-> seq_add(tx.last_fsn, 1), msu |-> Head(tx.pending)]
  <2>1. \/ /\ tx.pending # <<>> /\ m = Head(tx.pending)
           /\ d.pending = Tail(tx.pending) /\ d.unacked = Append(tx.unacked, b)
        \/ /\ d.pending = tx.pending /\ d.unacked = tx.unacked
           /\ m = Fisu \/ \E i \in DOMAIN tx.unacked : m = tx.unacked[i].msu
    BY PollCases
  <2> HIDE DEF d, m
  <2>2. ASSUME tx.pending # <<>>, m = Head(tx.pending),
               d.pending = Tail(tx.pending), d.unacked = Append(tx.unacked, b)
        PROVE  Fits(d) /\ (m # Fisu => octets[m] <= MAX_MSU_BODY)
    <3>1. octets[m] <= MAX_MSU_BODY /\ b.msu = m
      BY <1>1, <2>2 DEF Fits
    <3> HIDE DEF b
    <3>2. \A i \in DOMAIN d.pending : i + 1 \in DOMAIN tx.pending /\ d.pending[i] = tx.pending[i + 1]
      BY <1>1, <2>2
    <3>3. \A i \in DOMAIN d.unacked :
             (i \in DOMAIN tx.unacked /\ d.unacked[i] = tx.unacked[i]) \/ d.unacked[i] = b
      BY <1>1, <2>2
    <3> QED BY <3>1, <3>2, <3>3 DEF Fits
  <2>3. ASSUME d.pending = tx.pending, d.unacked = tx.unacked,
               m = Fisu \/ \E i \in DOMAIN tx.unacked : m = tx.unacked[i].msu
        PROVE  Fits(d) /\ (m # Fisu => octets[m] <= MAX_MSU_BODY)
    BY <2>3 DEF Fits
  <2>4. Fits(d) /\ (m # Fisu => octets[m] <= MAX_MSU_BODY)
    BY <2>1, <2>2, <2>3
  <2> QED BY <2>4 DEF d, m
<1>3. ASSUME NEW bsn \in SequenceNumber, NEW bib \in BOOLEAN
      PROVE  Fits(on_ack(tx, bsn, bib))
  <2> DEFINE d == on_ack(tx, bsn, bib)
             a == acknowledged(tx.unacked, bsn)
  <2>1. /\ d.pending = tx.pending
        /\ \A i \in DOMAIN d.unacked :
             i + a \in DOMAIN tx.unacked /\ d.unacked[i] = tx.unacked[i + a]
    BY OnAckCases
  <2> HIDE DEF d, a
  <2>2. Fits(d)
    BY <2>1 DEF Fits
  <2> QED BY <2>2 DEF d
<1>4. ASSUME NEW msu \in Msu, octets[msu] <= MAX_MSU_BODY
      PROVE  Fits(submit(tx, msu))
  <2> DEFINE d == submit(tx, msu)
  <2>1. d.unacked = tx.unacked /\ d.pending = Append(tx.pending, msu)
    BY DEF submit, TxControl
  <2> HIDE DEF d
  <2>2. \A i \in DOMAIN d.pending :
           (i \in DOMAIN tx.pending /\ d.pending[i] = tx.pending[i]) \/ d.pending[i] = msu
    BY <1>1, <2>1
  <2>3. Fits(d)
    BY <1>4, <2>1, <2>2 DEF Fits
  <2> QED BY <2>3 DEF d
<1>5. ASSUME NEW method PROVE Fits(TxControl_new(method))
  BY DEF TxControl_new, Fits
<1> QED BY <1>2, <1>3, <1>4, <1>5

\* poll_transmit: what it returns can be encoded.
LEMMA SentUnit ==
    ASSUME NEW k, Sound(k), Fits(k.tx)
    PROVE  poll_transmit(k).su \in Sent
<1> DEFINE su == poll_transmit(k).su
<1>1. k.tx \in TxControl
  BY DEF Sound, Steady, Link
<1>2. /\ su \in SignalUnit
      /\ su.kind = "MSU" => su.msu = poll(k.tx).frame.msu
  BY PollTransmitMoves
<1> HIDE DEF su
<1>3. su.kind = "MSU" => su.msu \in Msu /\ su.msu # Fisu
  BY <1>2, MsuSizes DEF SignalUnit, Fisu
<1>4. su.kind = "MSU" => octets[su.msu] <= MAX_MSU_BODY
  BY <1>1, <1>2, <1>3, FitsTx
<1>5. su \in Sent
  BY <1>2, <1>4 DEF Sent
<1> QED BY <1>5 DEF su

\* Whatever a link does, what it holds can be sent.
LEMMA LinkFits ==
    ASSUME Engine, \A j \in Links : Fits(link[j].tx), NEW l \in Links,
           \/ Stop(l) \/ PollEvent(l) \/ HandleCorruptedSu(l)
           \/ \E busy \in BOOLEAN : LocalBusy(l, busy)
           \/ LocalProcessorOutage(l) \/ LocalProcessorRecovered(l)
           \/ Tick(l) \/ Start(l) \/ PollTransmit(l)
           \/ \E msu \in Msu : SubmitMsu(l, msu)
           \/ \E su \in SignalUnit : HandleSu(l, su)
    PROVE  \A j \in Links : Fits(link'[j].tx)
<1> DEFINE k == link[l]
<1>1. Sound(k) /\ k.tx \in TxControl /\ link \in [Links -> Link] /\ Fits(k.tx)
  BY DEF Engine, Link
<1>2. ASSUME NEW n, Becomes(l, n), Fits(n.tx)
      PROVE  \A j \in Links : Fits(link'[j].tx)
  <2>1. link'[l] = n /\ \A j \in Links \ {l} : link'[j] = link[j]
    BY <1>1, <1>2 DEF Becomes
  <2> QED BY <1>2, <2>1
<1>3. CASE \/ Stop(l) \/ PollEvent(l) \/ HandleCorruptedSu(l)
           \/ \E busy \in BOOLEAN : LocalBusy(l, busy)
           \/ LocalProcessorOutage(l) \/ LocalProcessorRecovered(l)
  <2>1. PICK n : Becomes(l, n) /\ n.tx = k.tx
    BY <1>1, <1>3, UnmovedCalls DEF Unmoved
  <2> QED BY <1>1, <1>2, <2>1
<1>4. CASE Tick(l)
  <2>1. PICK n : Becomes(l, n) /\ n.tx = k.tx
    BY <1>1, <1>4, TickMoves
  <2> QED BY <1>1, <1>2, <2>1
<1>5. CASE Start(l)
  <2>1. PICK n : Becomes(l, n) /\ n.tx = TxControl_new(k.config.method)
    BY <1>1, <1>5, StartMoves
  <2>2. Fits(n.tx)
    BY <1>1, <2>1, FitsTx
  <2> QED BY <1>2, <2>1, <2>2
<1>6. ASSUME NEW msu \in Msu, SubmitMsu(l, msu)
      PROVE  \A j \in Links : Fits(link'[j].tx)
  <2>1. PICK n : Becomes(l, n) /\ n.tx = submit(k.tx, msu)
    BY <1>1, <1>6, SubmitMoves
  <2>2. octets[msu] <= MAX_MSU_BODY
    BY <1>6 DEF SubmitMsu
  <2>3. Fits(n.tx)
    BY <1>1, <2>1, <2>2, FitsTx
  <2> QED BY <1>2, <2>1, <2>3
<1>7. CASE PollTransmit(l)
  <2> DEFINE n == poll_transmit(k).link
  <2>1. Becomes(l, n)
    BY <1>7 DEF PollTransmit
  <2>2. n.tx = k.tx \/ n.tx = poll(k.tx).tx
    BY <1>1, PollTransmitMoves
  <2> HIDE DEF n
  <2>3. Fits(n.tx)
    BY <1>1, <2>2, FitsTx
  <2> QED BY <1>2, <2>1, <2>3
<1>8. ASSUME NEW su \in SignalUnit, HandleSu(l, su)
      PROVE  \A j \in Links : Fits(link'[j].tx)
  <2>1. PICK n : Becomes(l, n) /\ (Signalled(k, n, su.kind) \/ Informed(k, n, su))
    BY <1>1, <1>8, SuHandled
  <2>2. su.bsn \in SequenceNumber /\ su.bib \in BOOLEAN
    BY DEF SignalUnit
  <2>3. n.tx = k.tx \/ n.tx = on_ack(k.tx, su.bsn, su.bib)
    BY <2>1 DEF Signalled, Quiet, Informed
  <2>4. Fits(n.tx)
    BY <1>1, <2>2, <2>3, FitsTx
  <2> QED BY <1>2, <2>1, <2>4
<1> QED BY <1>3, <1>4, <1>5, <1>6, <1>7, <1>8

(***************************************************************************)
(* The invariant of the programs.                                          *)
(***************************************************************************)
PyInv ==
    /\ Engine /\ \A l \in Links : Fits(link[l].tx)
    /\ wire \in [Links -> Seq(Wired)]
    /\ got \in [Links -> Seq(Seq(Codec!Octet))]
    /\ submitted \in [Links -> Nat]
    /\ holds \in Nat /\ disturbed \in Nat /\ undecodable \in Nat

\* The two programs.
LEMMA Programmed ==
    ASSUME NEW l \in Links
    PROVE  peer(l) \in Links /\ peer(l) # l /\ Ends!peer(l) = peer(l)
<1>1. \E other \in Links : other # l
  BY Programs
<1>2. peer(l) \in Links /\ peer(l) # l
  BY <1>1 DEF peer
<1> QED BY <1>2 DEF peer, Ends!peer

\* What a call does to the links.
LEMMA EngineCalled ==
    ASSUME PyInv, NEW l \in Links,
           \/ Stop(l) \/ PollEvent(l) \/ HandleCorruptedSu(l)
           \/ \E busy \in BOOLEAN : LocalBusy(l, busy)
           \/ LocalProcessorOutage(l) \/ LocalProcessorRecovered(l)
           \/ Tick(l) \/ Start(l) \/ PollTransmit(l)
           \/ \E msu \in Msu : SubmitMsu(l, msu)
           \/ \E su \in SignalUnit : HandleSu(l, su)
    PROVE  Engine' /\ \A j \in Links : Fits(link'[j].tx)
<1>1. Engine /\ \A j \in Links : Fits(link[j].tx)
  BY DEF PyInv
<1>2. Engine'
  BY <1>1, EngineControl, EngineTraffic DEF Control
<1> QED BY <1>1, <1>2, LinkFits

\* A call that passes no MSU, to a program that reads none meanwhile.
LEMMA DeliveredKept ==
    ASSUME PyInv, NEW l \in Links, NEW n, Becomes(l, n), Tells(link[l], n), UNCHANGED got
    PROVE  UNCHANGED [end \in Links |-> latest(link[end].events, got[end])]
<1>1. link'[l] = n /\ \A end \in Links \ {l} : link'[end] = link[end]
  BY DEF PyInv, Engine, Becomes
<1>2. latest(n.events, got[l]) = latest(link[l].events, got[l])
  BY LatestKept DEF Tells
<1>3. \A end \in Links : latest(link'[end].events, got'[end]) = latest(link[end].events, got[end])
  BY <1>1, <1>2
<1> QED BY <1>3

\* What poll_event takes from the link and what the program keeps of it.
LEMMA Polled ==
    ASSUME PyInv, NEW l \in Links, poll_event(l)
    PROVE  /\ PollEvent(l)
           /\ link[l].events \in Seq(Event) /\ link[l].events # <<>>
           /\ link'[l].events = Tail(link[l].events)
           /\ got[l] \in Seq(Seq(Codec!Octet))
           /\ got' = [got EXCEPT ![l] = reading(@, Head(link[l].events))]
           /\ got'[l] = reading(got[l], Head(link[l].events))
           /\ \A end \in Links \ {l} : link'[end] = link[end] /\ got'[end] = got[end]
<1> DEFINE e == Head(link[l].events)
           n == [link[l] EXCEPT !.events = Tail(@)]
<1>1. PollEvent(l)
  BY DEF poll_event
<1>2. /\ link \in [Links -> Link] /\ link[l] \in Link /\ link[l].events \in Seq(Event)
      /\ got \in [Links -> Seq(Seq(Codec!Octet))] /\ got[l] \in Seq(Seq(Codec!Octet))
  <2>1. link \in [Links -> Link] /\ got \in [Links -> Seq(Seq(Codec!Octet))]
    BY DEF PyInv, Engine
  <2>2. link[l].events \in Seq(Event)
    BY <2>1 DEF Link
  <2> QED BY <2>1, <2>2
<1>3. link[l].events # <<>> /\ Becomes(l, n)
  BY <1>1 DEF PollEvent
<1>4. /\ link'[l] = n /\ n.events = Tail(link[l].events)
      /\ \A end \in Links \ {l} : link'[end] = link[end]
  BY <1>2, <1>3 DEF Becomes, Link
<1>5. e \in Event
  BY <1>2, <1>3
<1> HIDE DEF n
<1>6. got' = [got EXCEPT ![l] = reading(@, e)]
  <2> HIDE DEF e
  <2>1. event_to_py(e).kind = Kind[e.event]
    BY DEF event_to_py, joined
  <2>2. Kind[e.event] = "msu" <=> e.event = "Msu"
    BY <1>5 DEF Event, Kind, Plain, OutOfService, AlignmentFailed, MsuEvent
  <2>3. e.event = "Msu" =>
          event_to_py(e).sio = sio[e.msu] /\ event_to_py(e).sif = sif[e.msu]
    BY DEF event_to_py, joined
  <2>4. got' = IF event_to_py(e).kind = "msu"
               THEN [got EXCEPT ![l] = Append(@, <<event_to_py(e).sio>> \o event_to_py(e).sif)]
               ELSE got
    BY DEF poll_event, e
  <2>5. CASE e.event = "Msu"
    BY <2>1, <2>2, <2>3, <2>4, <2>5 DEF reading
  <2>6. CASE e.event # "Msu"
    BY <1>2, <2>1, <2>2, <2>4, <2>6 DEF reading
  <2> QED BY <2>5, <2>6
<1>7. got'[l] = reading(got[l], e) /\ \A end \in Links \ {l} : got'[end] = got[end]
  BY <1>2, <1>6
<1> QED BY <1>1, <1>2, <1>3, <1>4, <1>6, <1>7

\* poll_event is Read: what the program takes was delivered before.
LEMMA PollEventStep ==
    ASSUME MsusDiffer, PyInv, NEW l \in Links, poll_event(l)
    PROVE  PyInv' /\ Ends!Rest(l)
<1> DEFINE e == Head(link[l].events)
           s == link[l].events
<1>1. /\ UNCHANGED <<wire, spoken, ticked, disturbed, undecodable>>
      /\ UNCHANGED <<submitted, dropped, holds>>
  BY DEF poll_event, Forwarded, rounds
<1>2. /\ PollEvent(l) /\ s \in Seq(Event) /\ s # <<>> /\ link'[l].events = Tail(s)
      /\ got[l] \in Seq(Seq(Codec!Octet)) /\ got'[l] = reading(got[l], e)
      /\ got' = [got EXCEPT ![l] = reading(@, e)]
      /\ \A end \in Links \ {l} : link'[end] = link[end] /\ got'[end] = got[end]
  BY Polled
<1>3. /\ reading(got[l], e) \in Seq(Seq(Codec!Octet))
      /\ latest(Tail(s), reading(got[l], e)) = latest(s, got[l])
  BY <1>2, LatestPolled
<1> HIDE DEF e
<1>4. PyInv'
  <2>1. Engine' /\ \A j \in Links : Fits(link'[j].tx)
    BY <1>2, EngineCalled
  <2>2. got' \in [Links -> Seq(Seq(Codec!Octet))]
    BY <1>2, <1>3 DEF PyInv
  <2> QED BY <1>1, <2>1, <2>2 DEF PyInv
<1>5. UNCHANGED [end \in Links |-> latest(link[end].events, got[end])]
  <2>1. \A end \in Links :
          latest(link'[end].events, got'[end]) = latest(link[end].events, got[end])
    BY <1>2, <1>3
  <2> QED BY <2>1
<1>6. Ends!Rest(l)
  BY <1>1, <1>2, <1>5, SameEngine DEF Ends!Rest, Ends!Read, Ends!lineVars, Ends!history
<1> QED BY <1>4, <1>6

\* start is StartUp: what the link held is thrown away, as a set and in order.
LEMMA HeldMsus ==
    ASSUME PyInv, NEW l \in Links
    PROVE  {Ends!kept(l)[i] : i \in DOMAIN Ends!kept(l)} = kept(l)
<1> DEFINE u == link[l].tx.unacked
           p == link[l].tx.pending
           s == [i \in DOMAIN u |-> u[i].msu]
<1>1. u \in Seq(BufferedMsu) /\ p \in Seq(Msu)
  BY DEF PyInv, Engine, Link, TxControl
<1>2. Ends!kept(l) = s \o p
  BY DEF Ends!kept
<1>3. kept(l) = {u[i].msu : i \in DOMAIN u} \cup {p[i] : i \in DOMAIN p}
  BY DEF kept
<1> HIDE DEF u, p
<1>4. s \in Seq(Msu) /\ DOMAIN s = DOMAIN u /\ \A i \in DOMAIN u : s[i] = u[i].msu
  <2>1. DOMAIN u = 1 .. Len(u) /\ Len(u) \in Nat /\ \A i \in DOMAIN u : u[i] \in BufferedMsu
    BY <1>1
  <2>2. \A i \in 1 .. Len(u) : u[i].msu \in Msu
    BY <2>1 DEF BufferedMsu
  <2> QED BY <2>1, <2>2
<1> HIDE DEF s
<1> DEFINE t == s \o p
<1>5. /\ DOMAIN t = 1 .. Len(s) + Len(p) /\ Len(s) \in Nat /\ Len(p) \in Nat
      /\ DOMAIN s = 1 .. Len(s) /\ DOMAIN p = 1 .. Len(p)
      /\ \A i \in 1 .. Len(s) : t[i] = s[i]
      /\ \A i \in Len(s) + 1 .. Len(s) + Len(p) : t[i] = p[i - Len(s)]
  <2>1. t \in Seq(Msu) /\ Len(t) = Len(s) + Len(p)
    BY <1>1, <1>4, Concatenation
  <2>2. DOMAIN t = 1 .. Len(t)
    BY <2>1
  <2> QED BY <1>1, <1>4, <2>1, <2>2, Concatenation
<1> HIDE DEF t
<1>6. \A i \in DOMAIN t : (\E j \in DOMAIN s : t[i] = s[j]) \/ (\E j \in DOMAIN p : t[i] = p[j])
  <2> SUFFICES ASSUME NEW i \in DOMAIN t
               PROVE  (\E j \in DOMAIN s : t[i] = s[j]) \/ (\E j \in DOMAIN p : t[i] = p[j])
    OBVIOUS
  <2>1. CASE i \in 1 .. Len(s)
    BY <1>5, <2>1
  <2>2. CASE i \in Len(s) + 1 .. Len(s) + Len(p)
    <3>1. i - Len(s) \in DOMAIN p /\ t[i] = p[i - Len(s)]
      BY <1>5, <2>2
    <3> QED BY <3>1
  <2> QED BY <1>5, <2>1, <2>2
<1>7. \A j \in DOMAIN s : j \in DOMAIN t /\ t[j] = s[j]
  BY <1>5
<1>8. \A j \in DOMAIN p : j + Len(s) \in DOMAIN t /\ t[j + Len(s)] = p[j]
  <2> SUFFICES ASSUME NEW j \in DOMAIN p
               PROVE  j + Len(s) \in DOMAIN t /\ t[j + Len(s)] = p[j]
    OBVIOUS
  <2>1. /\ j + Len(s) \in Len(s) + 1 .. Len(s) + Len(p) /\ j + Len(s) \in DOMAIN t
        /\ (j + Len(s)) - Len(s) = j
    BY <1>5
  <2> QED BY <1>5, <2>1
<1> HIDE DEF kept
<1>9. {t[i] : i \in DOMAIN t} = {s[j] : j \in DOMAIN s} \cup {p[j] : j \in DOMAIN p}
  BY <1>6, <1>7, <1>8
<1>10. {s[j] : j \in DOMAIN s} = {u[j].msu : j \in DOMAIN u}
  BY <1>4
<1> QED BY <1>2, <1>3, <1>9, <1>10 DEF t

LEMMA StartingStep ==
    ASSUME PyInv, NEW l \in Links, start(l)
    PROVE  PyInv' /\ Ends!StartUp(l)
<1>1. /\ Start(l) /\ UNCHANGED <<wire, spoken, ticked, disturbed, undecodable>>
      /\ UNCHANGED <<submitted, holds, got>>
      /\ dropped' = [dropped EXCEPT ![l] = @ \cup kept(l)]
  BY DEF start, Forwarded, rounds
<1>2. Sound(link[l])
  BY DEF PyInv, Engine
<1>3. PICK n : Becomes(l, n) /\ Tells(link[l], n)
  BY <1>1, <1>2, CallsTell
<1>4. UNCHANGED [end \in Links |-> latest(link[end].events, got[end])]
  BY <1>1, <1>3, DeliveredKept
<1>5. Engine' /\ \A j \in Links : Fits(link'[j].tx)
  BY <1>1, EngineCalled
<1>6. Ends!StartUp(l)
  BY <1>1, <1>4, HeldMsus, SameEngine DEF Ends!StartUp, Ends!BringUp, Ends!lineVars
<1> QED BY <1>1, <1>5, <1>6 DEF PyInv

\* stop is TakeDown.
LEMMA StopStep ==
    ASSUME PyInv, NEW l \in Links, stop(l)
    PROVE  PyInv' /\ Ends!Rest(l)
<1>1. /\ Stop(l) /\ UNCHANGED <<wire, spoken, ticked, undecodable>>
      /\ UNCHANGED <<submitted, dropped, holds, got>>
      /\ disturbed < MaxDisturbances /\ disturbed' = disturbed + 1
  BY DEF stop, rounds, programs, Disturb
<1>2. Sound(link[l])
  BY DEF PyInv, Engine
<1>3. PICK n : Becomes(l, n) /\ Tells(link[l], n)
  BY <1>1, <1>2, CallsTell
<1>4. UNCHANGED [end \in Links |-> latest(link[end].events, got[end])]
  BY <1>1, <1>3, DeliveredKept
<1>5. Engine' /\ \A j \in Links : Fits(link'[j].tx)
  BY <1>1, EngineCalled
<1>6. Ends!Rest(l)
  BY <1>1, <1>4, SameEngine DEF Ends!Rest, Ends!TakeDown, Ends!Disturb, Ends!history
<1> QED BY <1>1, <1>5, <1>6 DEF PyInv

\* submit_msu is Submit.
LEMMA SubmittingStep ==
    ASSUME PyInv, NEW l \in Links, submit_msu(l)
    PROVE  PyInv' /\ Ends!Submit(l)
<1> DEFINE msu == submitted[l] + 1
<1>1. /\ l \in Senders /\ msu \in Msu /\ SubmitMsu(l, msu)
      /\ UNCHANGED <<wire, spoken, ticked, disturbed, undecodable>>
      /\ UNCHANGED <<dropped, holds, got>>
      /\ submitted' = [submitted EXCEPT ![l] = msu]
  BY DEF submit_msu, Forwarded, rounds
<1>2. Sound(link[l])
  BY DEF PyInv, Engine
<1>3. PICK n : Becomes(l, n) /\ Tells(link[l], n)
  <2>1. \E m \in Msu : SubmitMsu(l, m)
    BY <1>1
  <2> QED BY <1>2, <2>1, CallsTell
<1>4. UNCHANGED [end \in Links |-> latest(link[end].events, got[end])]
  BY <1>1, <1>3, DeliveredKept
<1>5. Engine' /\ \A j \in Links : Fits(link'[j].tx)
  BY <1>1, EngineCalled
<1>6. Ends!Submit(l)
  BY <1>1, <1>4, SameEngine DEF Ends!Submit, Ends!lineVars
<1>7. submitted' \in [Links -> Nat]
  BY <1>1 DEF PyInv
<1> QED BY <1>1, <1>5, <1>6, <1>7 DEF PyInv

\* What a program signals is what the user of an end does.
LEMMA SignalStep ==
    ASSUME PyInv, NEW l \in Links, signal(l)
    PROVE  PyInv' /\ (Ends!UserGone(l) \/ Ends!UserBack(l) \/ Ends!UserBusy(l) \/ Ends!UserFree(l))
<1> DEFINE k == link[l]
           begins == \/ ~k.local_processor_outage /\ LocalProcessorOutage(l)
                     \/ ~k.local_busy /\ LocalBusy(l, TRUE)
           ends   == \/ k.local_processor_outage /\ LocalProcessorRecovered(l)
                     \/ k.local_busy /\ LocalBusy(l, FALSE)
<1>1. /\ UNCHANGED <<wire, spoken, ticked, disturbed, undecodable>>
      /\ UNCHANGED <<submitted, dropped, got>>
      /\ \/ l \in Holders /\ holds < MaxHolds /\ begins /\ holds' = holds + 1
         \/ ends /\ UNCHANGED holds
  BY DEF signal, Forwarded, rounds
<1>2. Sound(link[l])
  BY DEF PyInv, Engine
<1>3. \/ LocalProcessorOutage(l) \/ LocalProcessorRecovered(l)
      \/ \E busy \in BOOLEAN : LocalBusy(l, busy)
  BY <1>1
<1>4. PICK n : Becomes(l, n) /\ Tells(link[l], n)
  BY <1>2, <1>3, CallsTell
<1>5. UNCHANGED [end \in Links |-> latest(link[end].events, got[end])]
  BY <1>1, <1>4, DeliveredKept
<1>6. Engine' /\ \A j \in Links : Fits(link'[j].tx)
  BY <1>3, EngineCalled
<1>7. Ends!UserGone(l) \/ Ends!UserBack(l) \/ Ends!UserBusy(l) \/ Ends!UserFree(l)
  BY <1>1, <1>5, SameEngine DEF Ends!UserGone, Ends!UserBack, Ends!UserBusy, Ends!UserFree,
                                Ends!Hold, Ends!Release, Ends!lineVars, Ends!history
<1>8. holds' \in Nat
  <2>1. holds' = holds + 1 \/ holds' = holds
    BY <1>1
  <2> QED BY <2>1 DEF PyInv
<1> QED BY <1>1, <1>6, <1>7, <1>8 DEF PyInv

\* tick is Clock: a line without contents has no signal units either.
LEMMA TickingStep ==
    ASSUME PyInv, NEW l \in Links, tick(l)
    PROVE  PyInv' /\ Ends!Rest(l)
<1>1. /\ Tick(l) /\ l \notin ticked
      /\ \A end \in Links :
           /\ wire[end] = <<>>
           /\ spoken[end] > 0 \/ ~transmitting(link[end])
           /\ link[end].state = "OutOfService" => ~link[end].active
      /\ IF ticked = {} THEN ticked' = {l} /\ UNCHANGED spoken
                        ELSE ticked' = {} /\ spoken' = [end \in Links |-> 0]
      /\ UNCHANGED <<wire, disturbed, undecodable, submitted, dropped, holds, got>>
  BY DEF tick, programs
<1>2. Sound(link[l])
  BY DEF PyInv, Engine
<1>3. PICK n : Becomes(l, n) /\ Tells(link[l], n)
  BY <1>1, <1>2, TickTells
<1>4. UNCHANGED [end \in Links |-> latest(link[end].events, got[end])]
  BY <1>1, <1>3, DeliveredKept
<1>5. Engine' /\ \A j \in Links : Fits(link'[j].tx)
  BY <1>1, EngineCalled
<1>6. \A end \in Links : understood(wire[end]) = <<>>
  BY <1>1, UnitsEmpty
<1>7. Ends!Clock(l)
  BY <1>1, <1>6, SameEngine DEF Ends!Clock
<1>8. Ends!Rest(l)
  BY <1>1, <1>4, <1>7 DEF Ends!Rest, Ends!history
<1> QED BY <1>1, <1>5, <1>8 DEF PyInv

\* The line, when what is on its way to l changes.
LEMMA LineChanged ==
    ASSUME PyInv, NEW l \in Links, NEW w, wire' = [wire EXCEPT ![l] = w]
    PROVE  /\ [end \in Links |-> understood(wire'[end])]
                = [[end \in Links |-> understood(wire[end])] EXCEPT ![l] = understood(w)]
           /\ w \in Seq(Wired) => wire' \in [Links -> Seq(Wired)]
<1>1. wire \in [Links -> Seq(Wired)]
  BY DEF PyInv
<1>2. wire'[l] = w /\ \A end \in Links \ {l} : wire'[end] = wire[end]
  BY <1>1
<1> QED BY <1>1, <1>2

\* poll_and_send is Send: the other end understands what the engine has sent.
LEMMA SendingStep ==
    ASSUME MsusTellable, MsusDiffer, PyInv, NEW l \in Links, poll_and_send(l)
    PROVE  PyInv' /\ Ends!Rest(l)
<1> DEFINE su == poll_transmit(link[l]).su
           other == peer(l)
           w == Append(wire[other], encoded(su).value)
<1>1. /\ PollTransmit(l)
      /\ Len(understood(wire[other])) < MaxInFlight
      /\ spoken[l] < MaxPerRound /\ spoken' = [spoken EXCEPT ![l] = @ + 1]
      /\ wire' = [wire EXCEPT ![other] = IF encoded(su).ok THEN Append(@, encoded(su).value) ELSE @]
      /\ UNCHANGED <<ticked, disturbed, undecodable, submitted, dropped, holds, got>>
  BY DEF poll_and_send, programs, encoded
<1>2. Sound(link[l]) /\ Fits(link[l].tx)
  BY DEF PyInv, Engine
<1>3. other \in Links /\ Ends!peer(l) = other
  BY Programmed
<1>4. su \in Sent
  BY <1>2, SentUnit
<1>5. wire[other] \in Seq(Wired) /\ wire \in [Links -> Seq(Wired)]
  BY <1>3 DEF PyInv
<1>6. Ends!poll_transmit(link[l]).su = su
  BY SameEngine
<1> HIDE DEF su, other
<1>7. wire' = [wire EXCEPT ![other] = w]
  BY <1>1, <1>3, <1>4, <1>5, Carried
<1>8. w \in Seq(Wired) /\ understood(w) = Append(understood(wire[other]), su)
  BY <1>4, <1>5, LineSent
<1> HIDE DEF w
<1>9. /\ [end \in Links |-> understood(wire'[end])]
            = [[end \in Links |-> understood(wire[end])] EXCEPT ![other] = Append(@, su)]
      /\ wire' \in [Links -> Seq(Wired)]
  BY <1>3, <1>7, <1>8, LineChanged
<1>10. PICK n : Becomes(l, n) /\ Tells(link[l], n)
  BY <1>1, <1>2, CallsTell
<1>11. UNCHANGED [end \in Links |-> latest(link[end].events, got[end])]
  BY <1>1, <1>10, DeliveredKept
<1>12. Engine' /\ \A j \in Links : Fits(link'[j].tx)
  BY <1>1, EngineCalled
<1>13. Ends!PollTransmit(l)
  BY <1>1, SameEngine
<1>14. Ends!Send(l)
  BY <1>1, <1>3, <1>6, <1>9, <1>13 DEF Ends!Send
<1>15. Ends!Rest(l)
  BY <1>1, <1>11, <1>14 DEF Ends!Rest, Ends!history
<1> QED BY <1>1, <1>9, <1>12, <1>15 DEF PyInv

\* The first content arrives.
LEMMA Arriving ==
    ASSUME MsusTellable, MsusDiffer, PyInv, NEW l \in Links, arrives(l)
    PROVE  LET su == Codec!decode(Head(wire[l]))
           IN  /\ wire' \in [Links -> Seq(Wired)]
               /\ su.ok => /\ Ends!Arrive(l) <=> UNCHANGED rounds
                           /\ Head([end \in Links |-> understood(wire[end])][l])
                                = abstract(su.value)
                           /\ abstract(su.value) \in Sent
               /\ ~su.ok => UNCHANGED [end \in Links |-> understood(wire[end])]
<1> DEFINE su == Codec!decode(Head(wire[l]))
           w == Tail(wire[l])
           u == understood(wire[l])
<1>1. wire[l] \in Seq(Wired) /\ wire[l] # <<>> /\ wire' = [wire EXCEPT ![l] = w]
  BY DEF PyInv, arrives
<1>2. /\ w \in Seq(Wired)
      /\ su.ok => /\ u # <<>> /\ Head(u) = abstract(su.value) /\ understood(w) = Tail(u)
                  /\ abstract(su.value) \in Sent
      /\ ~su.ok => understood(w) = u
  BY <1>1, LineArrival
<1> HIDE DEF su, w
<1>3. /\ wire' \in [Links -> Seq(Wired)]
      /\ [end \in Links |-> understood(wire'[end])]
           = [[end \in Links |-> understood(wire[end])] EXCEPT ![l] = understood(w)]
  BY <1>1, <1>2, LineChanged
<1>4. ASSUME su.ok
      PROVE  /\ Ends!Arrive(l) <=> UNCHANGED rounds
             /\ Head([end \in Links |-> understood(wire[end])][l]) = abstract(su.value)
             /\ abstract(su.value) \in Sent
  BY <1>2, <1>3, <1>4 DEF Ends!Arrive, rounds
<1>5. ASSUME ~su.ok
      PROVE  UNCHANGED [end \in Links |-> understood(wire[end])]
  BY <1>2, <1>3, <1>5
<1> QED BY <1>3, <1>4, <1>5 DEF su

\* handle_su is Hear if the content decodes, and otherwise no step of the ends.
LEMMA ArrivalStep ==
    ASSUME MsusTellable, MsusDiffer, PyInv, NEW l \in Links, handle_su(l)
    PROVE  PyInv' /\ (Ends!Hear(l) \/ UNCHANGED Ends!trafficVars)
<1> DEFINE c == Codec!decode(Head(wire[l]))
           su == abstract(c.value)
           before == [end \in Links |-> latest(link[end].events, got[end])]
           after == [end \in Links |-> latest(link'[end].events, got'[end])]
<1>1. /\ arrives(l)
      /\ IF c.ok THEN HandleSu(l, su) ELSE UNCHANGED <<link, mtp3>>
      /\ UNCHANGED rounds
      /\ UNCHANGED <<spoken, ticked, disturbed, undecodable, submitted, dropped, holds, got>>
  BY DEF handle_su, rounds, programs
<1>2. /\ wire' \in [Links -> Seq(Wired)]
      /\ c.ok => /\ Ends!Arrive(l)
                 /\ Head([end \in Links |-> understood(wire[end])][l]) = su
                 /\ su \in Sent
      /\ ~c.ok => UNCHANGED [end \in Links |-> understood(wire[end])]
  BY <1>1, Arriving
<1> HIDE DEF c
<1>3. CASE ~c.ok
  <2>1. UNCHANGED Ends!trafficVars
    BY <1>1, <1>2, <1>3 DEF Ends!trafficVars, Ends!pairVars, Ends!history
  <2>2. Engine'
    BY <1>1, <1>3, EngineStutter DEF PyInv, vars
  <2>3. \A j \in Links : Fits(link'[j].tx)
    BY <1>1, <1>3 DEF PyInv
  <2> QED BY <1>1, <1>2, <2>1, <2>2, <2>3 DEF PyInv
<1>4. CASE c.ok
  <2>1. HandleSu(l, su) /\ su \in SignalUnit
    BY <1>1, <1>2, <1>4 DEF Sent
  <2> HIDE DEF su
  <2>2. Sound(link[l]) /\ link \in [Links -> Link]
    BY DEF PyInv, Engine
  <2>3. PICK n : Becomes(l, n) /\ (Signalled(link[l], n, su.kind) \/ Informed(link[l], n, su))
    BY <2>1, <2>2, SuHandled
  <2> DEFINE e == link[l].events
             p == news(e, n.events)
  <2>4. Extends(e, n.events) /\ (p = {} \/ p = {su.msu})
    BY <2>3 DEF Signalled, Quiet, Informed
  <2>5. link'[l] = n /\ \A end \in Links \ {l} : link'[end] = link[end]
    BY <2>2, <2>3 DEF Becomes
  <2>6. Ends!passed(l) = p
    BY <2>5 DEF Ends!passed, news, Ends!Fisu, Fisu
  <2>7. latest(n.events, got[l]) = IF p = {} THEN latest(e, got[l])
                                   ELSE CHOOSE m \in p : TRUE
    <3>1. CASE p = {}
      BY <2>4, <3>1, LatestKept
    <3>2. CASE p = {su.msu}
      <4>1. latest(n.events, got[l]) = su.msu
        BY <2>4, <3>2, LatestPassed
      <4>2. (CHOOSE m \in p : TRUE) = su.msu
        BY <3>2
      <4> QED BY <3>2, <4>1, <4>2
    <3> QED BY <2>4, <3>1, <3>2
  <2> HIDE DEF p
  <2>8. after = [before EXCEPT ![l] = IF p = {} THEN @ ELSE CHOOSE m \in p : TRUE]
    BY <1>1, <2>5, <2>7
  <2>9. Ends!HandleSu(l, su)
    BY <2>1, SameEngine
  <2>10. Ends!Receive(l)
    BY <1>1, <1>2, <1>4, <2>9 DEF Ends!Receive
  <2>11. Ends!Hear(l)
    BY <1>1, <2>6, <2>8, <2>10 DEF Ends!Hear
  <2>12. Engine' /\ \A j \in Links : Fits(link'[j].tx)
    BY <2>1, EngineCalled
  <2> QED BY <1>1, <1>2, <2>11, <2>12 DEF PyInv
<1> QED BY <1>3, <1>4

\* handle_corrupted_su is ReceiveCorrupted.
LEMMA CorruptionStep ==
    ASSUME MsusTellable, MsusDiffer, PyInv, NEW l \in Links, handle_corrupted_su(l)
    PROVE  PyInv' /\ Ends!Rest(l)
<1>1. /\ disturbed < MaxDisturbances /\ disturbed' = disturbed + 1
      /\ arrives(l) /\ Codec!decode(Head(wire[l])).ok /\ HandleCorruptedSu(l)
      /\ UNCHANGED rounds
      /\ UNCHANGED <<spoken, ticked, undecodable, submitted, dropped, holds, got>>
  BY DEF handle_corrupted_su, rounds, programs, Disturb
<1>2. wire' \in [Links -> Seq(Wired)] /\ Ends!Arrive(l)
  BY <1>1, Arriving
<1>3. Sound(link[l])
  BY DEF PyInv, Engine
<1>4. PICK n : Becomes(l, n) /\ Tells(link[l], n)
  BY <1>1, <1>3, CorruptedTells
<1>5. UNCHANGED [end \in Links |-> latest(link[end].events, got[end])]
  BY <1>1, <1>4, DeliveredKept
<1>6. Engine' /\ \A j \in Links : Fits(link'[j].tx)
  BY <1>1, EngineCalled
<1>7. Ends!HandleCorruptedSu(l)
  BY <1>1, SameEngine
<1>8. Ends!Rest(l)
  BY <1>1, <1>2, <1>5, <1>7 DEF Ends!Rest, Ends!ReceiveCorrupted, Ends!Disturb, Ends!history
<1> QED BY <1>1, <1>2, <1>6, <1>8 DEF PyInv

\* Octets that are no signal unit change nothing on the line.
LEMMA StrayStep ==
    ASSUME PyInv, NEW l \in Links, StrayContent(l)
    PROVE  PyInv' /\ UNCHANGED Ends!trafficVars
<1>1. PICK c \in Undecodable : wire' = [wire EXCEPT ![l] = Append(@, c)]
  BY DEF StrayContent
<1>2. /\ UNCHANGED <<link, mtp3, spoken, ticked, disturbed, submitted, dropped, holds, got>>
      /\ undecodable' = undecodable + 1
  BY DEF StrayContent, rounds, programs
<1> DEFINE w == Append(wire[l], c)
<1>3. wire[l] \in Seq(Wired) /\ wire' = [wire EXCEPT ![l] = w]
  BY <1>1 DEF PyInv
<1>4. w \in Seq(Wired) /\ understood(w) = understood(wire[l])
  BY <1>3, LineStray
<1> HIDE DEF w
<1>5. wire' \in [Links -> Seq(Wired)] /\ UNCHANGED [end \in Links |-> understood(wire[end])]
  BY <1>3, <1>4, LineChanged
<1>6. UNCHANGED Ends!trafficVars
  BY <1>2, <1>5 DEF Ends!trafficVars, Ends!pairVars, Ends!history
<1>7. Engine'
  BY <1>2, EngineStutter DEF PyInv, vars
<1> QED BY <1>2, <1>5, <1>6, <1>7 DEF PyInv

(***************************************************************************)
(* The programs are the ends of LinkTraffic.                               *)
(***************************************************************************)

\* Before the links are used.
LEMMA PyBegins == PyInit => PyInv /\ Ends!TrafficInit
<1> SUFFICES ASSUME PyInit PROVE PyInv /\ Ends!TrafficInit
  OBVIOUS
<1>1. /\ Init /\ wire = [l \in Links |-> <<>>] /\ got = [l \in Links |-> <<>>]
      /\ spoken = [l \in Links |-> 0] /\ ticked = {} /\ disturbed = 0
      /\ submitted = [l \in Links |-> 0] /\ dropped = [l \in Links |-> {}]
      /\ holds = 0 /\ undecodable = 0
  BY DEF PyInit
<1>2. \A l \in Links : link[l].tx = TxControl_new(config[l].method) /\ link[l].events = <<>>
  BY <1>1 DEF Init, Mtp2Link_new
<1>3. \A l \in Links : Fits(link[l].tx)
  <2>1. \A method : Fits(TxControl_new(method))
    BY DEF Fits, TxControl_new
  <2> QED BY <1>2, <2>1
<1>4. PyInv
  <2> DEFINE T == Seq(Codec!Octet)
  <2>1. <<>> \in Seq(Wired)
    OBVIOUS
  <2> HIDE DEF T
  <2>2. <<>> \in Seq(T)
    OBVIOUS
  <2>3. /\ wire \in [Links -> Seq(Wired)] /\ got \in [Links -> Seq(T)]
        /\ submitted \in [Links -> Nat]
    BY <1>1, <2>1, <2>2
  <2> QED BY <1>1, <1>3, <2>3, EngineInit DEF PyInv, T
<1>5. \A l \in Links : latest(link[l].events, got[l]) = 0
  <2> SUFFICES ASSUME NEW l \in Links PROVE latest(link[l].events, got[l]) = 0
    OBVIOUS
  <2>1. link[l].events = <<>> /\ got[l] = <<>>
    BY <1>1, <1>2
  <2>2. <<>> \in Seq(Event) /\ NoMsu(<<>>)
    BY DEF NoMsu
  <2>3. latest(<<>>, <<>>) = 0
    BY <2>2, LatestRead
  <2> QED BY <2>1, <2>3
<1>6. [l \in Links |-> latest(link[l].events, got[l])] = [l \in Links |-> 0]
  BY <1>5
<1>7. [l \in Links |-> understood(wire[l])] = [l \in Links |-> <<>>]
  BY <1>1, UnitsEmpty
<1>8. Ends!TrafficInit
  BY <1>1, <1>6, <1>7, SameEngine DEF Ends!TrafficInit, Ends!PairInit
<1> QED BY <1>4, <1>8

\* The bound of the programs is under that of the ends.
LEMMA InputsBounded ==
    ASSUME PyInv', inputs' <= MaxInputs
    PROVE  Ends!inputs' <= MaxInputs
<1> DEFINE l == CHOOSE l \in Links : TRUE
<1>1. l \in Links
  BY Programs
<1>2. peer(l) \in Links /\ Ends!peer(l) = peer(l)
  BY <1>1, Programmed
<1>3. /\ inputs' = submitted'[l] + submitted'[peer(l)] + holds' + disturbed' + undecodable'
      /\ Ends!inputs' = submitted'[l] + submitted'[Ends!peer(l)] + holds' + disturbed'
  BY DEF inputs, Ends!inputs
<1> HIDE DEF l
<1>4. /\ submitted'[l] \in Nat /\ submitted'[peer(l)] \in Nat
      /\ holds' \in Nat /\ disturbed' \in Nat /\ undecodable' \in Nat
  BY <1>1, <1>2 DEF PyInv
<1> QED BY <1>2, <1>3, <1>4, Bodies

\* Every step is one of the ends, or none.
LEMMA PyStep ==
    ASSUME MsusTellable, MsusDiffer, PyInv, [PyNext]_pyVars
    PROVE  PyInv' /\ [Ends!TrafficNext]_(Ends!trafficVars)
<1>1. CASE UNCHANGED pyVars \/ Exchange
  <2>1. UNCHANGED <<link, mtp3, wire, spoken, ticked, disturbed, undecodable,
                    submitted, dropped, holds, got>>
    BY <1>1 DEF pyVars, Exchange, rounds, programs
  <2>2. UNCHANGED Ends!trafficVars
    BY <2>1 DEF Ends!trafficVars, Ends!pairVars, Ends!history
  <2>3. Engine'
    BY <2>1, EngineStutter DEF PyInv, vars
  <2> QED BY <2>1, <2>2, <2>3 DEF PyInv
<1>2. ASSUME NEW l \in Links, inputs' <= MaxInputs,
             \/ poll_event(l) \/ start(l) \/ stop(l) \/ submit_msu(l) \/ signal(l)
             \/ poll_and_send(l) \/ handle_su(l) \/ handle_corrupted_su(l) \/ tick(l)
             \/ StrayContent(l)
      PROVE  PyInv' /\ [Ends!TrafficNext]_(Ends!trafficVars)
  <2>1. PyInv' /\ \/ Ends!Submit(l) \/ Ends!UserGone(l) \/ Ends!UserBack(l)
                  \/ Ends!UserBusy(l) \/ Ends!UserFree(l)
                  \/ Ends!StartUp(l) \/ Ends!Hear(l) \/ Ends!Rest(l)
                  \/ UNCHANGED Ends!trafficVars
    <3>1. CASE poll_event(l)
      BY <3>1, PollEventStep
    <3>2. CASE start(l)
      BY <3>2, StartingStep
    <3>3. CASE stop(l)
      BY <3>3, StopStep
    <3>4. CASE submit_msu(l)
      BY <3>4, SubmittingStep
    <3>5. CASE signal(l)
      BY <3>5, SignalStep
    <3>6. CASE poll_and_send(l)
      BY <3>6, SendingStep
    <3>7. CASE handle_su(l)
      BY <3>7, ArrivalStep
    <3>8. CASE handle_corrupted_su(l)
      BY <3>8, CorruptionStep
    <3>9. CASE tick(l)
      BY <3>9, TickingStep
    <3>10. CASE StrayContent(l)
      BY <3>10, StrayStep
    <3> QED BY <1>2, <3>1, <3>2, <3>3, <3>4, <3>5, <3>6, <3>7, <3>8, <3>9, <3>10
  <2>2. Ends!inputs' <= MaxInputs
    BY <1>2, <2>1, InputsBounded
  <2> QED BY <2>1, <2>2 DEF Ends!TrafficNext
<1> QED BY <1>1, <1>2 DEF PyNext

\* Whatever the programs do, the ends that they stand for do it too: between the
\* engines, su_to_py, encode, decode and the objects change nothing of what the
\* ends say to each other, and what a program has read is what was delivered.
THEOREM ImplementsTrafficCorrect ==
    ASSUME MsusTellable, MsusDiffer
    PROVE  PySpec => ImplementsTraffic
<1>1. PyInv /\ [PyNext]_pyVars => PyInv' /\ [Ends!TrafficNext]_(Ends!trafficVars)
  BY PyStep
<1> QED BY <1>1, PyBegins, PTL DEF PySpec, ImplementsTraffic, Ends!TrafficSpec

\* The two programs lose nothing and keep the order, as the ends do.
LEMMA TwoEndsRun ==
    ASSUME MsusTellable, MsusDiffer
    PROVE  PySpec => TwoEnds!TrafficSpec
<1>1. PyInv /\ [PyNext]_pyVars => PyInv' /\ [TwoEnds!TrafficNext]_(TwoEnds!trafficVars)
  BY PyStep, SameTraffic
<1>2. PyInit => PyInv /\ TwoEnds!TrafficInit
  BY PyBegins, SameTraffic
<1> QED BY <1>1, <1>2, PTL DEF PySpec, TwoEnds!TrafficSpec

(***************************************************************************)
(* What a program reads.                                                   *)
(***************************************************************************)

\* The MSU that octets are.
known(octs) == numbered(Head(octs), Tail(octs))

\* A program has read MSUs, and has them to read, in increasing order: those that
\* it has read, and then those among its events.
Increasing(s, read) ==
    /\ \A i \in DOMAIN read :
         LET m == known(read[i]) IN m \in Msu /\ read[i] = <<sio[m]>> \o sif[m]
    /\ \A i, j \in DOMAIN read : i < j => known(read[i]) < known(read[j])
    /\ \A i \in DOMAIN read : \A j \in DOMAIN s :
         s[j].msu # Fisu => known(read[i]) < s[j].msu
    /\ \A i, j \in DOMAIN s :
         i < j /\ s[i].msu # Fisu /\ s[j].msu # Fisu => s[i].msu < s[j].msu

\* An event passes an MSU or none.
LEMMA EventMsu ==
    ASSUME NEW e \in Event
    PROVE  /\ e.msu \in Msu \cup {Fisu}
           /\ e.event = "Msu" <=> e.msu \in Msu
           /\ e.msu \in Msu <=> e.msu # Fisu
           /\ e.msu \in Nat
<1>1. \A m \in Msu : m # Fisu
  BY MsuSizes DEF Fisu
<1>2. /\ e.msu \in Msu \cup {Fisu}
      /\ e.event = "Msu" <=> e.msu \in Msu
  BY <1>1, EventMsus DEF Event, Plain, OutOfService, AlignmentFailed, MsuEvent
<1>3. Fisu \in Nat /\ Msu \subseteq Nat
  BY MsuSizes DEF Fisu
<1>4. e.msu \in Nat
  BY <1>2, <1>3
<1>5. e.msu \in Msu <=> e.msu # Fisu
  BY <1>1, <1>2
<1> QED BY <1>2, <1>4, <1>5

\* The last of them is the largest.
LEMMA IncreasingLatest ==
    ASSUME NEW s \in Seq(Event), NEW read \in Seq(Seq(Codec!Octet)), Increasing(s, read)
    PROVE  /\ \A i \in DOMAIN read : known(read[i]) <= latest(s, read)
           /\ \A j \in DOMAIN s : s[j].msu # Fisu => s[j].msu <= latest(s, read)
<1> DEFINE T == Seq(Codec!Octet)
<1>1. read \in Seq(T)
  OBVIOUS
<1> HIDE DEF T
<1>2. DOMAIN read = 1 .. Len(read) /\ Len(read) \in Nat
  BY <1>1
<1>3. \A i \in DOMAIN read : known(read[i]) \in Nat
  BY MsuSizes DEF Increasing
<1>4. \A j \in DOMAIN s : s[j].msu # Fisu => s[j].msu \in Nat
  <2>1. \A j \in DOMAIN s : s[j] \in Event
    OBVIOUS
  <2> QED BY <2>1, EventMsu
<1>5. ASSUME NEW o, LastMsu(s, o)
      PROVE  /\ \A i \in DOMAIN read : known(read[i]) <= latest(s, read)
             /\ \A j \in DOMAIN s : s[j].msu # Fisu => s[j].msu <= latest(s, read)
  <2>1. latest(s, read) = s[o].msu
    BY <1>5, LatestUnread
  <2>2. o \in DOMAIN s /\ s[o].msu # Fisu /\ s[o].msu \in Nat
    BY <1>4, <1>5 DEF LastMsu
  <2>3. \A i \in DOMAIN read : known(read[i]) <= s[o].msu
    BY <1>3, <2>2 DEF Increasing
  <2>4. ASSUME NEW j \in DOMAIN s, s[j].msu # Fisu PROVE s[j].msu <= s[o].msu
    <3>1. j <= o /\ j \in Nat /\ o \in Nat
      BY <1>5, <2>2, <2>4 DEF LastMsu
    <3>2. CASE j < o
      BY <1>4, <2>2, <2>4, <3>2 DEF Increasing
    <3>3. CASE j = o
      BY <2>2, <3>3
    <3> QED BY <3>1, <3>2, <3>3
  <2> QED BY <2>1, <2>3, <2>4
<1>6. CASE NoMsu(s)
  <2> SUFFICES ASSUME NEW i \in DOMAIN read PROVE known(read[i]) <= latest(s, read)
    BY <1>6 DEF NoMsu
  <2>1. read # <<>> /\ Len(read) \in DOMAIN read
    BY <1>1, <1>2
  <2>2. latest(s, read) = known(read[Len(read)])
    BY <1>6, <2>1, LatestRead DEF known
  <2>3. CASE i = Len(read)
    BY <1>3, <2>2, <2>3
  <2>4. CASE i < Len(read)
    BY <1>3, <2>1, <2>2, <2>4 DEF Increasing
  <2> QED BY <1>2, <2>3, <2>4
<1> QED BY <1>5, <1>6, LastExists

\* A call that passes no MSU.
LEMMA IncreasingKept ==
    ASSUME NEW s, NEW t, Extends(s, t), news(s, t) = {}, NEW read, Increasing(s, read)
    PROVE  Increasing(t, read)
<1>1. \A j \in DOMAIN t : t[j].msu # Fisu => j \in DOMAIN s /\ t[j] = s[j]
  <2> SUFFICES ASSUME NEW j \in DOMAIN t, t[j].msu # Fisu PROVE j \in DOMAIN s /\ t[j] = s[j]
    OBVIOUS
  <2>1. s \in Seq(Event) /\ t \in Seq(Event) /\ Len(s) \in Nat /\ Len(t) \in Nat /\ j \in 1 .. Len(t)
    BY DEF Extends
  <2>2. j \notin Len(s) + 1 .. Len(t)
    BY DEF news
  <2> QED BY <2>1, <2>2 DEF Extends
<1> QED BY <1>1 DEF Increasing

\* A call that passes an MSU later than those that were passed before.
LEMMA IncreasingPassed ==
    ASSUME NEW s, NEW t, Extends(s, t), NEW m, news(s, t) = {m}, Once(s, t),
           NEW read \in Seq(Seq(Codec!Octet)), Increasing(s, read), latest(s, read) < m,
           latest(s, read) \in Nat
    PROVE  Increasing(t, read)
<1>1. /\ s \in Seq(Event) /\ t \in Seq(Event) /\ Len(s) \in Nat /\ Len(t) \in Nat
      /\ DOMAIN s = 1 .. Len(s) /\ DOMAIN t = 1 .. Len(t)
  BY DEF Extends
<1>2. \A j \in DOMAIN t : t[j].msu # Fisu =>
        \/ j \in DOMAIN s /\ t[j] = s[j] /\ j <= Len(s)
        \/ j > Len(s) /\ t[j].msu = m
  <2> SUFFICES ASSUME NEW j \in DOMAIN t, t[j].msu # Fisu, ~(j <= Len(s))
               PROVE  j > Len(s) /\ t[j].msu = m
    BY <1>1 DEF Extends
  <2>1. j \in Len(s) + 1 .. Len(t) /\ j > Len(s)
    BY <1>1
  <2>2. t[j].msu \in news(s, t)
    BY <2>1 DEF news
  <2> QED BY <2>1, <2>2
<1>3. \A i, j \in DOMAIN t :
        t[i].msu # Fisu /\ t[j].msu # Fisu /\ i > Len(s) /\ j > Len(s) => i = j
  <2> SUFFICES ASSUME NEW i \in DOMAIN t, NEW j \in DOMAIN t, t[i].msu # Fisu,
                      t[j].msu # Fisu, i > Len(s), j > Len(s)
               PROVE  i = j
    OBVIOUS
  <2>1. i \in Len(s) + 1 .. Len(t) /\ j \in Len(s) + 1 .. Len(t)
    BY <1>1
  <2> QED BY <2>1 DEF Once
<1>4. m \in Nat
  <2>1. PICK o \in Len(s) + 1 .. Len(t) : t[o].msu = m /\ m # Fisu
    BY DEF news
  <2>2. o \in DOMAIN t
    BY <1>1
  <2>3. t[o] \in Event
    BY <1>1, <2>2
  <2> QED BY <2>1, <2>3, EventMsu
<1>5. /\ \A i \in DOMAIN read : known(read[i]) < m
      /\ \A j \in DOMAIN s : s[j].msu # Fisu => s[j].msu < m
  <2>1. \A i \in DOMAIN read : known(read[i]) \in Nat
    BY MsuSizes DEF Increasing
  <2>2. \A j \in DOMAIN s : s[j].msu \in Nat
    <3>1. \A j \in DOMAIN s : s[j] \in Event
      BY <1>1
    <3> QED BY <3>1, EventMsu
  <2>3. /\ \A i \in DOMAIN read : known(read[i]) <= latest(s, read)
        /\ \A j \in DOMAIN s : s[j].msu # Fisu => s[j].msu <= latest(s, read)
    BY <1>1, IncreasingLatest
  <2> DEFINE d == latest(s, read)
  <2>4. d \in Nat /\ d < m
    OBVIOUS
  <2> HIDE DEF d
  <2>5. \A i \in DOMAIN read : known(read[i]) <= d
    BY <2>3 DEF d
  <2>6. \A j \in DOMAIN s : s[j].msu # Fisu => s[j].msu <= d
    BY <2>3 DEF d
  <2> QED BY <1>4, <2>1, <2>2, <2>4, <2>5, <2>6
<1>6. \A i \in DOMAIN read : \A j \in DOMAIN t :
        t[j].msu # Fisu => known(read[i]) < t[j].msu
  BY <1>2, <1>5 DEF Increasing
<1>7. ASSUME NEW i \in DOMAIN t, NEW j \in DOMAIN t, i < j,
             t[i].msu # Fisu, t[j].msu # Fisu
      PROVE  t[i].msu < t[j].msu
  <2>1. CASE j <= Len(s)
    BY <1>1, <1>2, <1>7, <2>1 DEF Increasing
  <2>2. CASE j > Len(s) /\ i <= Len(s)
    <3>1. t[j].msu = m
      BY <1>1, <1>2, <1>7, <2>2
    <3>2. i \in DOMAIN s /\ t[i] = s[i]
      BY <1>1, <1>2, <1>7, <2>2
    <3> QED BY <1>5, <1>7, <3>1, <3>2
  <2>3. CASE j > Len(s) /\ i > Len(s)
    BY <1>1, <1>3, <1>7, <2>3
  <2> QED BY <1>1, <2>1, <2>2, <2>3
<1> QED BY <1>6, <1>7 DEF Increasing

\* poll_event: the program reads the first of its events.
LEMMA IncreasingPolled ==
    ASSUME MsusDiffer, NEW s \in Seq(Event), s # <<>>,
           NEW read \in Seq(Seq(Codec!Octet)), Increasing(s, read)
    PROVE  Increasing(Tail(s), reading(read, Head(s)))
<1> DEFINE T == Seq(Codec!Octet)
           t == Tail(s)
           e == Head(s)
           octs == <<sio[e.msu]>> \o sif[e.msu]
           r == reading(read, e)
<1>1. /\ t \in Seq(Event) /\ e = s[1] /\ e \in Event /\ 1 \in DOMAIN s
      /\ \A j \in DOMAIN t : j + 1 \in DOMAIN s /\ 1 < j + 1 /\ t[j] = s[j + 1] /\ j \in Nat
  <2>1. Head(s) = s[1] /\ s[1] \in Event
    OBVIOUS
  <2> QED BY <2>1
<1>2. read \in Seq(T)
  OBVIOUS
<1> HIDE DEF T, t, e
<1>3. \A i, j \in DOMAIN t : i < j /\ t[i].msu # Fisu /\ t[j].msu # Fisu => t[i].msu < t[j].msu
  <2> SUFFICES ASSUME NEW i \in DOMAIN t, NEW j \in DOMAIN t, i < j,
                      t[i].msu # Fisu, t[j].msu # Fisu
               PROVE  t[i].msu < t[j].msu
    OBVIOUS
  <2>1. i + 1 \in DOMAIN s /\ j + 1 \in DOMAIN s /\ i + 1 < j + 1
    BY <1>1
  <2> QED BY <1>1, <2>1 DEF Increasing
<1>4. CASE e.event # "Msu"
  <2>1. r = read
    BY <1>4 DEF reading
  <2>2. \A i \in DOMAIN read : \A j \in DOMAIN t : t[j].msu # Fisu => known(read[i]) < t[j].msu
    BY <1>1 DEF Increasing
  <2>3. Increasing(t, read)
    BY <1>3, <2>2 DEF Increasing
  <2> QED BY <2>1, <2>3 DEF t, e
<1>5. CASE e.event = "Msu"
  <2>1. e.msu \in Msu /\ e.msu # Fisu
    BY <1>1, <1>5, EventMsu
  <2>2. octs \in T /\ known(octs) = e.msu
    BY <2>1, NumberedOctets DEF known, T
  <2> DEFINE a == Append(read, octs)
  <2>3. r = a
    BY <1>5 DEF reading
  <2>4. octs = <<sio[known(octs)]>> \o sif[known(octs)]
    BY <2>2
  <2> HIDE DEF octs, r
  <2>5. /\ DOMAIN a = 1 .. Len(read) + 1 /\ Len(read) \in Nat /\ DOMAIN read = 1 .. Len(read)
        /\ a[Len(read) + 1] = octs /\ \A i \in DOMAIN read : a[i] = read[i]
    BY <1>2, <2>2
  <2> HIDE DEF a
  <2>6. \A i \in DOMAIN read : known(read[i]) < e.msu
    BY <1>1, <2>1 DEF Increasing
  <2>7. \A j \in DOMAIN t : t[j].msu # Fisu => e.msu < t[j].msu
    BY <1>1, <2>1 DEF Increasing
  <2>8. \A i \in DOMAIN a :
          (i \in DOMAIN read /\ a[i] = read[i]) \/ (i = Len(read) + 1 /\ a[i] = octs)
    BY <2>5
  <2>9. \A i \in DOMAIN a :
          LET m == known(a[i]) IN m \in Msu /\ a[i] = <<sio[m]>> \o sif[m]
    BY <2>1, <2>2, <2>4, <2>8 DEF Increasing
  <2>10. \A i, j \in DOMAIN a : i < j => known(a[i]) < known(a[j])
    <3> SUFFICES ASSUME NEW i \in DOMAIN a, NEW j \in DOMAIN a, i < j
                 PROVE  known(a[i]) < known(a[j])
      OBVIOUS
    <3>1. i \in DOMAIN read /\ a[i] = read[i]
      BY <2>5
    <3>2. CASE j \in DOMAIN read
      BY <2>5, <3>1, <3>2 DEF Increasing
    <3>3. CASE j = Len(read) + 1
      BY <2>2, <2>5, <2>6, <3>1, <3>3
    <3> QED BY <2>5, <3>2, <3>3
  <2>11. \A i \in DOMAIN a : \A j \in DOMAIN t : t[j].msu # Fisu => known(a[i]) < t[j].msu
    <3> SUFFICES ASSUME NEW i \in DOMAIN a, NEW j \in DOMAIN t, t[j].msu # Fisu
                 PROVE  known(a[i]) < t[j].msu
      OBVIOUS
    <3>1. CASE i \in DOMAIN read
      BY <1>1, <2>5, <3>1 DEF Increasing
    <3>2. CASE i = Len(read) + 1
      BY <2>2, <2>5, <2>7, <3>2
    <3> QED BY <2>8, <3>1, <3>2
  <2>12. Increasing(t, a)
    BY <1>3, <2>9, <2>10, <2>11 DEF Increasing
  <2> QED BY <2>3, <2>12 DEF t, e, r
<1> QED BY <1>4, <1>5

(***************************************************************************)
(* The MSUs come in order, as LinkTrafficProofs shows of the ends.         *)
(***************************************************************************)
InSequence == \A l \in Links : Increasing(link[l].events, got[l])

\* A call that passes no MSU, to a program that reads none meanwhile.
LEMMA SequenceKept ==
    ASSUME PyInv, InSequence, NEW l \in Links, NEW n, Becomes(l, n), Tells(link[l], n),
           UNCHANGED got
    PROVE  InSequence'
<1>1. link'[l] = n /\ \A end \in Links \ {l} : link'[end] = link[end]
  BY DEF PyInv, Engine, Becomes
<1>2. Increasing(n.events, got[l])
  BY IncreasingKept DEF Tells, InSequence
<1>3. \A end \in Links : Increasing(link'[end].events, got'[end])
  BY <1>1, <1>2 DEF InSequence
<1> QED BY <1>3 DEF InSequence

\* handle_su: what the call passes is later than all that was delivered.
LEMMA SequencePassed ==
    ASSUME MsusTellable, MsusDiffer, PyInv, InSequence, TwoEnds!TrafficInv,
           NEW l \in Links, handle_su(l), Codec!decode(Head(wire[l])).ok
    PROVE  InSequence'
<1> DEFINE su == abstract(Codec!decode(Head(wire[l])).value)
           k == link[l]
           d == latest(k.events, got[l])
<1>1. HandleSu(l, su) /\ arrives(l) /\ UNCHANGED <<got, rounds>>
  BY DEF handle_su, programs
<1>2. su \in SignalUnit
  BY <1>1, Arriving DEF Sent
<1>3. Sound(k) /\ link \in [Links -> Link] /\ got[l] \in Seq(Seq(Codec!Octet))
  BY DEF PyInv, Engine
<1>4. PICK n : Becomes(l, n) /\ (Signalled(k, n, su.kind) \/ Informed(k, n, su))
  <2> HIDE DEF su
  <2> QED BY <1>1, <1>2, <1>3, SuHandled
<1>5. link'[l] = n /\ \A end \in Links \ {l} : link'[end] = link[end]
  BY <1>3, <1>4 DEF Becomes
<1> HIDE DEF su
<1>6. /\ Extends(k.events, n.events)
      /\ \/ news(k.events, n.events) = {}
         \/ news(k.events, n.events) = {su.msu} /\ Once(k.events, n.events)
  BY <1>4 DEF Signalled, Quiet, Informed
<1>7. ASSUME news(k.events, n.events) = {su.msu}
      PROVE  d < su.msu /\ d \in Nat
  <2>1. TwoEnds!Hear(l)
    <3>1. Ends!Hear(l)
      <4>1. Ends!Hear(l) \/ UNCHANGED Ends!trafficVars
        BY ArrivalStep
      <4>2. link' # link
        <5>1. n.events # k.events
          <6>1. k.events \in Seq(Event)
            BY <1>3 DEF Sound, Steady, Link
          <6>2. news(k.events, k.events) = {}
            BY <6>1, NewsSame
          <6> QED BY <1>7, <6>2
        <5> QED BY <1>5, <5>1
      <4> QED BY <4>1, <4>2 DEF Ends!trafficVars, Ends!pairVars
    <3> QED BY <3>1, SameHear
  <2>2. TwoEnds!passed(l) = {su.msu}
    BY <1>5, <1>7 DEF TwoEnds!passed, news, TwoEnds!Fisu, Fisu
  <2>3. \A msu \in TwoEnds!passed(l) : msu > [end \in Links |-> latest(link[end].events, got[end])][l]
    BY <2>1, SameAssumptions, TwoEnds!HearStep
  <2>4. [end \in Links |-> latest(link[end].events, got[end])] \in [Links -> Nat]
    BY DEF TwoEnds!TrafficInv, TwoEnds!Recorded
  <2> QED BY <2>2, <2>3, <2>4
<1>8. Increasing(n.events, got[l])
  <2>1. Increasing(k.events, got[l])
    BY DEF InSequence
  <2>2. CASE news(k.events, n.events) = {}
    BY <1>6, <2>1, <2>2, IncreasingKept
  <2>3. CASE news(k.events, n.events) = {su.msu} /\ Once(k.events, n.events)
    BY <1>3, <1>6, <1>7, <2>1, <2>3, IncreasingPassed
  <2> QED BY <1>6, <2>2, <2>3
<1>9. \A end \in Links : Increasing(link'[end].events, got'[end])
  BY <1>1, <1>5, <1>8 DEF InSequence
<1> QED BY <1>9 DEF InSequence

\* Every step.
LEMMA SequenceStep ==
    ASSUME MsusTellable, MsusDiffer, PyInv, InSequence, TwoEnds!TrafficInv, [PyNext]_pyVars
    PROVE  InSequence'
<1>1. ASSUME UNCHANGED <<link, got>>
      PROVE  InSequence'
  BY <1>1 DEF InSequence
<1>2. \A l \in Links : Sound(link[l])
  BY DEF PyInv, Engine
<1>3. ASSUME NEW l \in Links, poll_event(l)
      PROVE  InSequence'
  <2> DEFINE s == link[l].events
  <2>1. /\ link'[l].events = Tail(s) /\ got'[l] = reading(got[l], Head(s))
        /\ \A end \in Links \ {l} : link'[end] = link[end] /\ got'[end] = got[end]
        /\ s \in Seq(Event) /\ s # <<>> /\ got[l] \in Seq(Seq(Codec!Octet))
    BY <1>3, Polled
  <2>2. Increasing(Tail(s), reading(got[l], Head(s)))
    BY <2>1, IncreasingPolled DEF InSequence
  <2>3. \A end \in Links : Increasing(link'[end].events, got'[end])
    BY <2>1, <2>2 DEF InSequence
  <2> QED BY <2>3 DEF InSequence
<1>4. ASSUME NEW l \in Links, start(l) \/ stop(l) \/ submit_msu(l) \/ signal(l) \/ poll_and_send(l)
      PROVE  InSequence'
  <2>1. /\ UNCHANGED got
        /\ \/ Start(l) \/ Stop(l) \/ PollTransmit(l) \/ \E m \in Msu : SubmitMsu(l, m)
           \/ \E busy \in BOOLEAN : LocalBusy(l, busy)
           \/ LocalProcessorOutage(l) \/ LocalProcessorRecovered(l)
    BY <1>4 DEF start, stop, submit_msu, signal, poll_and_send, programs
  <2>2. PICK n : Becomes(l, n) /\ Tells(link[l], n)
    BY <1>2, <2>1, CallsTell
  <2> QED BY <2>1, <2>2, SequenceKept
<1>5. ASSUME NEW l \in Links, tick(l)
      PROVE  InSequence'
  <2>1. Tick(l) /\ UNCHANGED got
    BY <1>5 DEF tick, programs
  <2>2. PICK n : Becomes(l, n) /\ Tells(link[l], n)
    BY <1>2, <2>1, TickTells
  <2> QED BY <2>1, <2>2, SequenceKept
<1>6. ASSUME NEW l \in Links, handle_corrupted_su(l)
      PROVE  InSequence'
  <2>1. HandleCorruptedSu(l) /\ UNCHANGED got
    BY <1>6 DEF handle_corrupted_su, programs
  <2>2. PICK n : Becomes(l, n) /\ Tells(link[l], n)
    BY <1>2, <2>1, CorruptedTells
  <2> QED BY <2>1, <2>2, SequenceKept
<1>7. ASSUME NEW l \in Links, handle_su(l)
      PROVE  InSequence'
  <2>1. CASE Codec!decode(Head(wire[l])).ok
    BY <1>7, <2>1, SequencePassed
  <2>2. CASE ~Codec!decode(Head(wire[l])).ok
    BY <1>1, <1>7, <2>2 DEF handle_su, programs
  <2> QED BY <2>1, <2>2
<1>8. ASSUME NEW l \in Links, StrayContent(l)
      PROVE  InSequence'
  BY <1>1, <1>8 DEF StrayContent, programs
<1>9. CASE UNCHANGED pyVars \/ Exchange
  BY <1>1, <1>9 DEF pyVars, Exchange, programs
<1> QED BY <1>3, <1>4, <1>5, <1>6, <1>7, <1>8, <1>9 DEF PyNext

\* What the sequence says of what a program has read.
LEMMA ReadsFollows ==
    ASSUME PyInv, InSequence, TwoEnds!TrafficInv
    PROVE  ReadsWhatWasSubmitted
<1> SUFFICES ASSUME NEW l \in Links
             PROVE  \E number \in [DOMAIN got[l] -> 1 .. submitted[peer(l)]] :
                      /\ \A i \in DOMAIN got[l] : got[l][i] = <<sio[number[i]]>> \o sif[number[i]]
                      /\ \A i, j \in DOMAIN got[l] : i < j => number[i] < number[j]
  BY DEF ReadsWhatWasSubmitted
<1> DEFINE s == link[l].events
           d == latest(s, got[l])
           number == [i \in DOMAIN got[l] |-> known(got[l][i])]
<1>1. s \in Seq(Event) /\ got[l] \in Seq(Seq(Codec!Octet)) /\ submitted[peer(l)] \in Nat
  BY Programmed DEF PyInv, Engine, Sound, Steady, Link
<1>2. Increasing(s, got[l])
  BY DEF InSequence
<1>3. d \in Nat /\ d <= submitted[peer(l)]
  <2> DEFINE all == [end \in Links |-> latest(link[end].events, got[end])]
  <2>1. all \in [Links -> Nat]
    BY DEF TwoEnds!TrafficInv, TwoEnds!Recorded
  <2>2. all[l] <= submitted[TwoEnds!peer(l)]
    BY SameAssumptions, TwoEnds!DeliveredSubmitted
  <2>3. TwoEnds!peer(l) = peer(l)
    BY DEF TwoEnds!peer, peer
  <2> QED BY <2>1, <2>2, <2>3
<1>4. \A i \in DOMAIN got[l] : known(got[l][i]) <= d
  BY <1>1, <1>2, IncreasingLatest
<1>5. ASSUME NEW i \in DOMAIN got[l]
      PROVE  known(got[l][i]) \in 1 .. submitted[peer(l)]
  <2>1. known(got[l][i]) \in Nat \ {0}
    BY <1>2, MsuSizes DEF Increasing
  <2>2. known(got[l][i]) <= d
    BY <1>4
  <2> HIDE DEF d
  <2> QED BY <1>1, <1>3, <2>1, <2>2
<1>6. number \in [DOMAIN got[l] -> 1 .. submitted[peer(l)]]
  BY <1>5
<1>7. /\ \A i \in DOMAIN got[l] : got[l][i] = <<sio[number[i]]>> \o sif[number[i]]
      /\ \A i, j \in DOMAIN got[l] : i < j => number[i] < number[j]
  BY <1>2 DEF Increasing
<1> QED BY <1>6, <1>7

\* A program reads the MSUs, octet by octet, that the other one submitted, in
\* that order, none twice, whatever is lost, corrupted or undecodable on the way,
\* if the users keep to the window (or PCR does, see PcrReadsCorrect).
THEOREM ReadsCorrect ==
    ASSUME MsusTellable, MsusDiffer
    PROVE  PySpec /\ []TwoEnds!UserWindow => []ReadsWhatWasSubmitted
<1>1. PyInit => PyInv /\ InSequence
  <2> SUFFICES ASSUME PyInit PROVE PyInv /\ InSequence
    OBVIOUS
  <2>1. \A l \in Links : link[l].events = <<>> /\ got[l] = <<>>
    BY DEF PyInit, Init, Mtp2Link_new
  <2>2. Increasing(<<>>, <<>>)
    BY DEF Increasing
  <2> QED BY <2>1, <2>2, PyBegins DEF InSequence
<1>2. /\ PyInv /\ InSequence /\ (TwoEnds!TrafficInv /\ TwoEnds!N1Kept) /\ [PyNext]_pyVars
        => (PyInv /\ InSequence)'
  BY PyStep, SequenceStep
<1>3. PySpec => TwoEnds!TrafficSpec
  BY TwoEndsRun
<1>4. TwoEnds!TrafficSpec /\ []TwoEnds!UserWindow => [](TwoEnds!TrafficInv /\ TwoEnds!N1Kept)
  BY SameAssumptions, TwoEnds!TrafficInvariant
<1>5. PyInv /\ InSequence /\ (TwoEnds!TrafficInv /\ TwoEnds!N1Kept) => ReadsWhatWasSubmitted
  BY ReadsFollows
<1> QED BY <1>1, <1>2, <1>3, <1>4, <1>5, PTL DEF PySpec

\* With PCR and an n1 below the sequence numbers nothing is asked of the users.
THEOREM PcrReadsCorrect ==
    ASSUME MsusTellable, MsusDiffer, \A l \in Links : TwoEnds!SelfLimited(l)
    PROVE  PySpec => []ReadsWhatWasSubmitted
<1>1. TwoEnds!UserWindow
  BY DEF TwoEnds!UserWindow
<1> QED BY <1>1, ReadsCorrect, PTL

=============================================================================
