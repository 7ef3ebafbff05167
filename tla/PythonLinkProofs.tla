--------------------------- MODULE PythonLinkProofs ---------------------------
(***************************************************************************)
(* The codec as the programs use it, for every modulus of the sequence     *)
(* numbers, every limit of the length indicator that tells an MSU from an  *)
(* LSSU, and every largest size of an MSU: decode undoes encode, and what  *)
(* decode accepts can be encoded.                                          *)
(***************************************************************************)
EXTENDS PythonLink, SequenceTheorems, TLAPS

(***************************************************************************)
(* Signal units.                                                           *)
(***************************************************************************)

\* A header that encode accepts.
Header == [bsn : SequenceNumber, bib : BOOLEAN, fsn : SequenceNumber, fib : BOOLEAN]

\* The signal units that decode can return.
Status == DOMAIN Codec!StatusCode
Sendable(su) ==
    \E h \in Header :
        \/ su = Codec!fisu(h)
        \/ \E s \in Status, e \in BOOLEAN : su = Codec!lssu(h, s, e)
        \/ \E o \in Codec!Octet, b \in Seq(Codec!Octet) :
            /\ su = Codec!msu(h, o, b)
            /\ Codec!body(su) \in Codec!LI_LSSU_TWO + 1 .. MAX_MSU_BODY

\* The content of a signal unit, and what decode reads off it.
content(h, li, rest) == Codec!encode_seq_octets(h) \o <<li>> \o rest

\* Remainders of small numbers, and of a sequence number with bit 8.
LEMMA Small ==
    ASSUME NEW m \in Nat \ {0}, NEW n \in 0 .. m - 1
    PROVE  n % m = n
OBVIOUS

LEMMA Bit8 ==
    ASSUME NEW n \in SequenceNumber, NEW b \in BOOLEAN, NEW o,
           o = (n % SEQ_MODULUS) + Codec!bit8(b)
    PROVE  o \in Nat /\ o % SEQ_MODULUS = n /\ (o >= SEQ_MODULUS) = b
<1>1. SEQ_MODULUS \in Nat /\ SEQ_MODULUS > 0
  BY SequenceSpace
<1>2. n % SEQ_MODULUS = n
  BY <1>1, Small DEF SequenceNumber
<1>3. CASE b = TRUE
  <2>1. o = n + SEQ_MODULUS
    BY <1>2, <1>3 DEF Codec!bit8
  <2>2. o \in Nat /\ o % SEQ_MODULUS = n /\ (o >= SEQ_MODULUS) = TRUE
    BY <1>1, <2>1 DEF SequenceNumber
  <2> QED BY <1>3, <2>2, Zenon
<1>4. CASE b = FALSE
  <2>1. o = n
    BY <1>1, <1>2, <1>4 DEF Codec!bit8, SequenceNumber
  <2>2. o \in Nat /\ o % SEQ_MODULUS = n /\ (o >= SEQ_MODULUS) = FALSE
    BY <1>1, <1>2, <2>1 DEF SequenceNumber
  <2> QED BY <1>4, <2>2, Zenon
<1> QED BY <1>3, <1>4

\* decode finds in a content what encode has put there.
LEMMA Parts ==
    ASSUME NEW h \in Header, NEW li \in 0 .. LI_MAX, NEW T, NEW rest \in Seq(T)
    PROVE  LET c == content(h, li, rest)
           IN  /\ Len(c) = 3 + Len(rest)
               /\ Codec!decode_seq_octets(c[1], c[2]) = h
               /\ c[3] % (LI_MAX + 1) = li
               /\ SubSeq(c, 4, Len(c)) = rest
<1> DEFINE o1 == (h.bsn % SEQ_MODULUS) + Codec!bit8(h.bib)
           o2 == (h.fsn % SEQ_MODULUS) + Codec!bit8(h.fib)
           c  == content(h, li, rest)
<1>1. c = <<o1, o2>> \o <<li>> \o rest
  BY DEF content, Codec!encode_seq_octets
<1>2. /\ h.bsn \in SequenceNumber /\ h.bib \in BOOLEAN
      /\ h.fsn \in SequenceNumber /\ h.fib \in BOOLEAN
      /\ h = [bsn |-> h.bsn, bib |-> h.bib, fsn |-> h.fsn, fib |-> h.fib]
  BY DEF Header
<1>3. /\ o1 \in Nat /\ o1 % SEQ_MODULUS = h.bsn /\ (o1 >= SEQ_MODULUS) = h.bib
      /\ o2 \in Nat /\ o2 % SEQ_MODULUS = h.fsn /\ (o2 >= SEQ_MODULUS) = h.fib
  BY <1>2, Bit8
<1> HIDE DEF o1, o2, c
<1>4. /\ c[1] = o1 /\ c[2] = o2 /\ c[3] = li /\ Len(c) = 3 + Len(rest)
      /\ \A i \in 1 .. Len(rest) : c[3 + i] = rest[i]
  BY <1>1, <1>3
<1>5. SubSeq(c, 4, Len(c)) = rest
  BY <1>4, <1>1, <1>3
<1>6. Codec!decode_seq_octets(c[1], c[2]) = h
  BY <1>2, <1>3, <1>4 DEF Codec!decode_seq_octets
<1>7. c[3] % (LI_MAX + 1) = li
  <2>1. LI_MAX + 1 \in Nat \ {0} /\ li \in 0 .. (LI_MAX + 1) - 1
    BY CodecBounds
  <2> QED BY <1>4, <2>1, Small
<1> QED BY <1>4, <1>5, <1>6, <1>7 DEF c

\* Every status has a code, and decode finds it again.
LEMMA Codes ==
    ASSUME NEW s \in Status
    PROVE  /\ Codec!StatusCode[s] \in 0 .. 5
           /\ Codec!Statuses[Codec!StatusCode[s] + 1] = s
<1> DEFINE S == Codec!Statuses
           Code(code) == code \in 0 .. Len(S) - 1 /\ S[code + 1] = s
<1>1. Len(S) = 6 /\ DOMAIN S = 1 .. 6
  BY DEF Codec!Statuses
<1>2. PICK i \in 1 .. 6 : S[i] = s
  BY <1>1 DEF Status, Codec!StatusCode
<1>3. Codec!StatusCode[s] = CHOOSE code \in 0 .. Len(S) - 1 : S[code + 1] = s
  BY DEF Status, Codec!StatusCode
<1> HIDE DEF S
<1>4. i - 1 \in 0 .. Len(S) - 1 /\ S[(i - 1) + 1] = s
  BY <1>1, <1>2
<1>5. \E code \in 0 .. Len(S) - 1 : S[code + 1] = s
  BY <1>4
<1>6. /\ Codec!StatusCode[s] \in 0 .. Len(S) - 1
      /\ S[Codec!StatusCode[s] + 1] = s
  BY <1>3, <1>5
<1> QED BY <1>1, <1>6 DEF S

\* encode of a signal unit of each kind, as a content.
LEMMA Encoded ==
    ASSUME NEW su, Sendable(su)
    PROVE  /\ Codec!encode(su) = Codec!Ok(content(su.header, Codec!length_indicator(su),
                                                  Codec!encode_body(su)))
           /\ su.header \in Header
<1>1. PICK h \in Header :
        \/ su = Codec!fisu(h)
        \/ \E s \in Status, e \in BOOLEAN : su = Codec!lssu(h, s, e)
        \/ \E o \in Codec!Octet, b \in Seq(Codec!Octet) :
            /\ su = Codec!msu(h, o, b)
            /\ Codec!body(su) \in Codec!LI_LSSU_TWO + 1 .. MAX_MSU_BODY
  BY DEF Sendable
<1>2. su.header = h
  BY <1>1 DEF Codec!fisu, Codec!lssu, Codec!msu
<1>3. ~(h.bsn >= SEQ_MODULUS) /\ ~(h.fsn >= SEQ_MODULUS)
  BY SequenceSpace DEF Header, SequenceNumber
<1>4. ~(su.kind = "Msu" /\ Codec!body(su) > MAX_MSU_BODY)
  BY <1>1, LinkBounds DEF Codec!fisu, Codec!lssu, Codec!msu, Codec!LI_LSSU_TWO
<1> QED BY <1>2, <1>3, <1>4 DEF Codec!encode, content

\* decode undoes encode.
LEMMA DecodeEncode ==
    ASSUME NEW su, Sendable(su)
    PROVE  Codec!encode(su).ok /\ Codec!decode(Codec!encode(su).value) = Codec!Ok(su)
<1> DEFINE h    == su.header
           li   == Codec!length_indicator(su)
           rest == Codec!encode_body(su)
           c    == content(h, li, rest)
<1>1. Codec!encode(su) = Codec!Ok(c) /\ h \in Header
  BY Encoded
<1>2. ASSUME li \in 0 .. LI_MAX, NEW T, rest \in Seq(T)
      PROVE  Codec!decode(c) =
                IF li = 0
                THEN IF rest = <<>> THEN Codec!Ok(Codec!fisu(h))
                                    ELSE Codec!Err("LengthIndicatorMismatch")
                ELSE IF li \in {1, 2} THEN Codec!decode_lssu(h, li, rest)
                ELSE Codec!decode_msu(h, li, rest)
  <2> HIDE DEF h, li, rest
  <2>1. /\ Len(c) = 3 + Len(rest)
        /\ Codec!decode_seq_octets(c[1], c[2]) = h
        /\ c[3] % (LI_MAX + 1) = li
        /\ SubSeq(c, 4, Len(c)) = rest
    BY <1>1, <1>2, Parts
  <2>2. ~(Len(c) < 3)
    BY <1>2, <2>1
  <2> HIDE DEF c
  <2> QED BY <2>1, <2>2
          DEF Codec!decode, Codec!LI_FISU, Codec!LI_LSSU_ONE, Codec!LI_LSSU_TWO
<1>3. CASE \E g \in Header : su = Codec!fisu(g)
  <2>1. li = 0 /\ rest = <<>> /\ su = Codec!fisu(h)
    BY <1>3 DEF Codec!fisu, Codec!length_indicator, Codec!encode_body, Codec!LI_FISU
  <2>2. li \in 0 .. LI_MAX /\ rest \in Seq(Nat)
    BY <2>1, CodecBounds
  <2> HIDE DEF c, h, li, rest
  <2>3. Codec!decode(c) = Codec!Ok(su)
    BY <1>2, <2>1, <2>2
  <2> QED BY <1>1, <2>3 DEF Codec!Ok
<1>4. CASE \E g \in Header, s \in Status, e \in BOOLEAN : su = Codec!lssu(g, s, e)
  <2>1. PICK s \in Status, e \in BOOLEAN : su = Codec!lssu(h, s, e)
    BY <1>4 DEF Codec!lssu
  <2> DEFINE code == Codec!StatusCode[s]
  <2>2. code \in 0 .. 5 /\ Codec!Statuses[code + 1] = s
    BY Codes
  <2>3. rest = <<code>> \o (IF e THEN <<0>> ELSE <<>>) /\ li = (IF e THEN 2 ELSE 1)
    BY <2>1 DEF Codec!lssu, Codec!encode_body, Codec!length_indicator,
                Codec!LI_LSSU_ONE, Codec!LI_LSSU_TWO
  <2> HIDE DEF code, rest, li, c, h
  <2>4. rest \in Seq(Nat) /\ rest[1] = code /\ Len(rest) = li /\ li \in {1, 2} /\ e = (li = 2)
    <3>1. CASE e = TRUE
      <4>1. rest = <<code>> \o <<0>> /\ li = 2
        BY <2>3, <3>1
      <4>2. rest \in Seq(Nat) /\ Len(rest) = 2 /\ rest[1] = code
        BY <2>2, <4>1
      <4> QED BY <3>1, <4>1, <4>2
    <3>2. CASE e = FALSE
      <4>1. rest = <<code>> \o <<>> /\ li = 1
        BY <2>3, <3>2
      <4>2. rest \in Seq(Nat) /\ Len(rest) = 1 /\ rest[1] = code
        BY <2>2, <4>1
      <4> QED BY <3>2, <4>1, <4>2
    <3> QED BY <3>1, <3>2
  <2>5. Codec!decode(c) = Codec!decode_lssu(h, li, rest)
    BY <1>2, <2>4, CodecBounds DEF Codec!LI_LSSU_TWO
  <2>6. rest[1] % 8 = code /\ ~(code >= 6)
    BY <2>2, <2>4
  <2>7. Len(Codec!Statuses) = 6
    BY DEF Codec!Statuses
  <2>8. Codec!decode_lssu(h, li, rest) = Codec!Ok(Codec!lssu(h, s, e))
    BY <2>2, <2>4, <2>6, <2>7 DEF Codec!decode_lssu, Codec!LI_LSSU_TWO
  <2> QED BY <1>1, <2>1, <2>5, <2>8 DEF Codec!Ok
<1>5. CASE \E g \in Header, o \in Codec!Octet, b \in Seq(Codec!Octet) :
            /\ su = Codec!msu(g, o, b)
            /\ Codec!body(su) \in Codec!LI_LSSU_TWO + 1 .. MAX_MSU_BODY
  <2>1. PICK o \in Codec!Octet, b \in Seq(Codec!Octet) :
            /\ su = Codec!msu(h, o, b)
            /\ Codec!body(su) \in Codec!LI_LSSU_TWO + 1 .. MAX_MSU_BODY
    BY <1>5 DEF Codec!msu
  <2> DEFINE n == 1 + Len(b)
  <2>2. n \in 3 .. MAX_MSU_BODY /\ Codec!body(su) = n
    BY <2>1 DEF Codec!msu, Codec!body, Codec!LI_LSSU_TWO
  <2>3. rest = <<o>> \o b /\ li = (IF n >= LI_MAX THEN LI_MAX ELSE n)
    BY <2>1, <2>2 DEF Codec!msu, Codec!encode_body, Codec!length_indicator
  <2> HIDE DEF rest, li, c, h
  <2>4. /\ rest \in Seq(Codec!Octet) /\ Len(rest) = n
        /\ rest # <<>> /\ Head(rest) = o /\ Tail(rest) = b
    BY <2>3
  <2> HIDE DEF n
  <2>5. li \in 3 .. LI_MAX
    BY <2>2, <2>3, CodecBounds DEF Codec!LI_LSSU_TWO
  <2>6. Codec!decode(c) = Codec!decode_msu(h, li, rest)
    BY <1>2, <2>4, <2>5, CodecBounds
  <2>7. ~(\/ li < LI_MAX /\ Len(rest) # li
          \/ li = LI_MAX /\ Len(rest) < LI_MAX) /\ ~(Len(rest) > MAX_MSU_BODY)
    BY <2>2, <2>3, <2>4, CodecBounds, LinkBounds
  <2>8. Codec!decode_msu(h, li, rest) = Codec!Ok(Codec!msu(h, o, b))
    BY <2>4, <2>7 DEF Codec!decode_msu
  <2> QED BY <1>1, <2>1, <2>6, <2>8 DEF Codec!Ok
<1> QED BY <1>3, <1>4, <1>5 DEF Sendable

\* Octets are numbers.
LEMMA Octets == ASSUME NEW x, x \in Codec!Octet PROVE x \in Nat
BY DEF Codec!Octet

\* The three bits of a status.
LEMMA Eight == ASSUME NEW n \in Nat PROVE n % 8 \in 0 .. 7
OBVIOUS

\* What decode accepts can be sent.
LEMMA DecodeSendable ==
    ASSUME NEW c \in Seq(Codec!Octet), Codec!decode(c).ok
    PROVE  Codec!decode(c) = Codec!Ok(Codec!decode(c).value) /\ Sendable(Codec!decode(c).value)
<1> DEFINE h    == Codec!decode_seq_octets(c[1], c[2])
           li   == c[3] % (LI_MAX + 1)
           rest == SubSeq(c, 4, Len(c))
           S    == Codec!Statuses
<1>1. \A v, e : Codec!Ok(v) # Codec!Err(e) /\ Codec!Ok(v).value = v /\ ~Codec!Err(e).ok
  BY DEF Codec!Ok, Codec!Err
<1>2. ~(Len(c) < 3)
  BY <1>1 DEF Codec!decode
<1>2a. Codec!decode(c) = IF li = 0
                           THEN IF rest = <<>> THEN Codec!Ok(Codec!fisu(h))
                                ELSE Codec!Err("LengthIndicatorMismatch")
                           ELSE IF li \in {1, 2} THEN Codec!decode_lssu(h, li, rest)
                           ELSE Codec!decode_msu(h, li, rest)
  BY <1>2, Zenon DEF Codec!decode, Codec!LI_FISU, Codec!LI_LSSU_ONE, Codec!LI_LSSU_TWO
<1>3. c[1] \in Nat /\ c[2] \in Nat /\ c[3] \in Nat /\ rest \in Seq(Codec!Octet)
  <2>1. {c[1], c[2], c[3]} \subseteq Codec!Octet
    BY <1>2
  <2>2. rest \in Seq(Codec!Octet)
    <3>1. \A i \in 4 .. Len(c) : c[i] \in Codec!Octet
      OBVIOUS
    <3> QED BY <1>2, <3>1, SubSeqProperties
  <2> QED BY <2>1, <2>2, Octets
<1>4. h \in Header
  BY <1>3, SequenceSpace DEF Codec!decode_seq_octets, Header, SequenceNumber
<1>5. li \in 0 .. LI_MAX
  BY <1>3, CodecBounds
<1> HIDE DEF h, li, rest
<1>6. CASE li = 0
  <2>1. Codec!decode(c) = Codec!Ok(Codec!fisu(h))
    BY <1>1, <1>2a, <1>6
  <2> QED BY <1>1, <1>4, <2>1 DEF Sendable
<1>7. CASE li \in {1, 2}
  <2> DEFINE code == rest[1] % 8
  <2>1. Codec!decode(c) = Codec!decode_lssu(h, li, rest)
    BY <1>2a, <1>7
  <2>2. /\ Len(rest) = li /\ ~(code >= Len(S))
        /\ Codec!decode(c) = Codec!Ok(Codec!lssu(h, S[code + 1], li = Codec!LI_LSSU_TWO))
    BY <1>1, <2>1 DEF Codec!decode_lssu
  <2>3. code \in 0 .. 7
    <3>1. rest[1] \in Codec!Octet
      BY <1>3, <1>7, <2>2
    <3>2. rest[1] \in Nat
      BY <3>1, Octets
    <3> QED BY <3>2, Eight
  <2>4. Len(S) = 6 /\ DOMAIN S = 1 .. 6
    BY DEF Codec!Statuses
  <2>5. S[code + 1] \in Status
    <3>1. code + 1 \in DOMAIN S
      BY <2>2, <2>3, <2>4
    <3> QED BY <3>1 DEF Status, Codec!StatusCode
  <2>6. (li = Codec!LI_LSSU_TWO) \in BOOLEAN
    OBVIOUS
  <2> DEFINE su == Codec!lssu(h, S[code + 1], li = Codec!LI_LSSU_TWO)
  <2>7. Sendable(su)
    <3> HIDE DEF S, code
    <3> QED BY <1>4, <2>5, <2>6 DEF Sendable
  <2> HIDE DEF su
  <2> QED BY <1>1, <2>2, <2>7 DEF su
<1>8. CASE li \notin {0, 1, 2}
  <2>1. Codec!decode(c) = Codec!decode_msu(h, li, rest)
    BY <1>2a, <1>8
  <2>2. /\ rest # <<>>
        /\ ~(li < LI_MAX /\ Len(rest) # li) /\ ~(li = LI_MAX /\ Len(rest) < LI_MAX)
        /\ ~(Len(rest) > MAX_MSU_BODY)
        /\ Codec!decode(c) = Codec!Ok(Codec!msu(h, Head(rest), Tail(rest)))
    BY <1>1, <2>1 DEF Codec!decode_msu
  <2>3. /\ Head(rest) \in Codec!Octet /\ Tail(rest) \in Seq(Codec!Octet)
        /\ Len(rest) = 1 + Len(Tail(rest)) /\ Len(rest) \in Nat
    BY <1>3, <2>2
  <2>4. Len(rest) \in Codec!LI_LSSU_TWO + 1 .. MAX_MSU_BODY
    <3>1. li \in Nat /\ LI_MAX \in Nat /\ li <= LI_MAX /\ 3 <= li
      BY <1>5, <1>8, CodecBounds
    <3>4. 3 <= Len(rest)
      <4>1. CASE li < LI_MAX
        BY <2>2, <3>1, <4>1
      <4>2. CASE li = LI_MAX
        <5>1. ~(Len(rest) < li)
          BY <2>2, <4>2
        <5> QED BY <2>3, <3>1, <5>1
      <4> QED BY <3>1, <4>1, <4>2
    <3> QED BY <2>2, <2>3, <3>4, LinkBounds DEF Codec!LI_LSSU_TWO
  <2>5. Codec!body(Codec!msu(h, Head(rest), Tail(rest))) = Len(rest)
    BY <2>3 DEF Codec!body, Codec!msu
  <2> QED BY <1>1, <1>4, <2>2, <2>3, <2>4, <2>5 DEF Sendable
<1> QED BY <1>6, <1>7, <1>8

(***************************************************************************)
(* Python objects.                                                         *)
(***************************************************************************)

\* The signal unit that an object stands for.
su_of(obj) == joined([header |-> [x \in Headers |-> obj[x]]], [x \in DOMAIN obj \ Headers |-> obj[x]])

\* A signal unit with these fields besides its header.
Kinds(fields) == "kind" \in fields /\ fields \cap (Headers \cup {"header"}) = {}

\* su_to_py puts the fields of the header among the others, and su_of takes them
\* out again.
LEMMA Objective ==
    ASSUME NEW su, NEW fields, Kinds(fields), su.header \in Header,
           su = [x \in {"header"} \cup fields |-> su[x]]
    PROVE  LET obj == su_to_py(su)
           IN  /\ DOMAIN obj = Headers \cup fields
               /\ obj = [x \in Headers \cup fields |-> obj[x]]
               /\ \A x \in Headers : obj[x] = su.header[x]
               /\ \A x \in fields : obj[x] = su[x]
               /\ [x \in Headers |-> obj[x]] = su.header
               /\ su_of(obj) = su
<1> DEFINE h   == su.header
           g   == [x \in DOMAIN su \ {"header"} |-> su[x]]
           obj == su_to_py(su)
<1>1. DOMAIN h = Headers /\ h = [x \in Headers |-> h[x]]
  BY DEF Header, Headers
<1>2. DOMAIN su = {"header"} \cup fields /\ DOMAIN su \ {"header"} = fields
  BY DEF Kinds
<1>3. DOMAIN g = fields /\ \A x \in fields : g[x] = su[x]
  BY <1>2
<1>4. obj = joined(h, g)
  BY DEF su_to_py
<1> HIDE DEF g, h, obj
<1>5. obj = [x \in Headers \cup fields |-> IF x \in Headers THEN h[x] ELSE g[x]]
  BY <1>1, <1>3, <1>4 DEF joined
<1>6. DOMAIN obj = Headers \cup fields /\ obj = [x \in Headers \cup fields |-> obj[x]]
  BY <1>5
<1>7. /\ \A x \in Headers : obj[x] = h[x]
      /\ \A x \in fields : obj[x] = su[x]
  BY <1>3, <1>5 DEF Kinds
<1>8. [x \in Headers |-> obj[x]] = h
  BY <1>1, <1>7
<1> DEFINE r == [x \in DOMAIN obj \ Headers |-> obj[x]]
           w == [header |-> h]
<1>9. DOMAIN r = fields /\ \A x \in fields : r[x] = su[x]
  BY <1>6, <1>7 DEF Kinds
<1>10. DOMAIN w = {"header"} /\ w["header"] = h
  OBVIOUS
<1>11. su_of(obj) = joined(w, r)
  BY <1>8 DEF su_of
<1> HIDE DEF r, w
<1>12. su_of(obj) = [x \in {"header"} \cup fields |-> IF x = "header" THEN h ELSE su[x]]
  BY <1>9, <1>10, <1>11 DEF joined
<1>13. su_of(obj) = su
  BY <1>12 DEF h
<1> QED BY <1>6, <1>7, <1>8, <1>13 DEF obj, h

\* The fields of the three kinds.
LEMMA Fields ==
    ASSUME NEW su, Sendable(su)
    PROVE  \E fields :
              /\ Kinds(fields) /\ su.header \in Header
              /\ su = [x \in {"header"} \cup fields |-> su[x]]
              /\ su.kind = "Msu" => "sif" \in fields
<1>1. CASE \E h \in Header : su = Codec!fisu(h)
  <2>1. PICK h \in Header : su = [kind |-> "Fisu", header |-> h]
    BY <1>1 DEF Codec!fisu
  <2> DEFINE fields == {"kind"}
  <2>2. Kinds(fields) /\ (su.kind = "Msu" => "sif" \in fields)
    BY <2>1 DEF Kinds, Headers
  <2>3. su.header = h /\ su = [x \in {"header"} \cup fields |-> su[x]]
    BY <2>1
  <2> QED BY <2>2, <2>3
<1>2. CASE \E h \in Header, s \in Status, e \in BOOLEAN : su = Codec!lssu(h, s, e)
  <2>1. PICK h \in Header, s \in Status, e \in BOOLEAN :
            su = [kind |-> "Lssu", header |-> h, status |-> s, extended |-> e]
    BY <1>2 DEF Codec!lssu
  <2> DEFINE fields == {"kind", "status", "extended"}
  <2>2. Kinds(fields) /\ (su.kind = "Msu" => "sif" \in fields)
    BY <2>1 DEF Kinds, Headers
  <2>3. su.header = h /\ su = [x \in {"header"} \cup fields |-> su[x]]
    BY <2>1
  <2> QED BY <2>2, <2>3
<1>3. CASE \E h \in Header, o \in Codec!Octet, b \in Seq(Codec!Octet) : su = Codec!msu(h, o, b)
  <2>1. PICK h \in Header, o \in Codec!Octet, b \in Seq(Codec!Octet) :
            su = [kind |-> "Msu", header |-> h, sio |-> o, sif |-> b]
    BY <1>3 DEF Codec!msu
  <2> DEFINE fields == {"kind", "sio", "sif"}
  <2>2. Kinds(fields) /\ (su.kind = "Msu" => "sif" \in fields)
    BY <2>1 DEF Kinds, Headers
  <2>3. su.header = h /\ su = [x \in {"header"} \cup fields |-> su[x]]
    BY <2>1
  <2> QED BY <2>2, <2>3
<1> QED BY <1>1, <1>2, <1>3 DEF Sendable

\* An object encodes to what its signal unit does, if its numbers and its size do.
LEMMA PyEncode ==
    ASSUME NEW su, Sendable(su)
    PROVE  py_encode(su_to_py(su)) = Codec!encode(su)
<1> DEFINE obj == su_to_py(su)
<1>1. /\ su_of(obj) = su /\ [x \in Headers |-> obj[x]] = su.header
      /\ obj.bsn = su.header.bsn /\ obj.fsn = su.header.fsn
      /\ obj.kind = su.kind /\ (su.kind = "Msu" => obj.sif = su.sif)
  <2>1. PICK fields : /\ Kinds(fields) /\ su.header \in Header
                      /\ su = [x \in {"header"} \cup fields |-> su[x]]
                      /\ su.kind = "Msu" => "sif" \in fields
    BY Fields
  <2>2. /\ \A x \in Headers : obj[x] = su.header[x]
        /\ \A x \in fields : obj[x] = su[x]
        /\ [x \in Headers |-> obj[x]] = su.header /\ su_of(obj) = su
    BY <2>1, Objective
  <2> HIDE DEF obj
  <2> QED BY <2>1, <2>2 DEF Kinds, Headers
<1>2. su.header \in Header
  BY Encoded
<1> HIDE DEF obj
<1>3. header(obj) = Codec!Ok(su.header)
  BY <1>1, <1>2, SequenceSpace DEF header, Header, SequenceNumber
<1>4. ~(obj.kind = "Msu" /\ 1 + Len(obj.sif) > MAX_MSU_BODY)
  <2>1. su.kind = "Msu" => Codec!body(su) \in Codec!LI_LSSU_TWO + 1 .. MAX_MSU_BODY
    BY DEF Sendable, Codec!fisu, Codec!lssu, Codec!msu
  <2> QED BY <1>1, <2>1, LinkBounds DEF Codec!body, Codec!LI_LSSU_TWO
<1>5. joined([header |-> header(obj).value], [x \in DOMAIN obj \ Headers |-> obj[x]]) = su
  BY <1>1, <1>3 DEF Codec!Ok, su_of
<1> QED BY <1>3, <1>4, <1>5 DEF py_encode, Codec!Ok, obj

\* decode of what a sendable signal unit's object encodes to is that object.
LEMMA PyDecode ==
    ASSUME NEW su, Sendable(su)
    PROVE  /\ py_encode(su_to_py(su)).ok
           /\ py_decode(py_encode(su_to_py(su)).value) = Codec!Ok(su_to_py(su))
<1>1. /\ py_encode(su_to_py(su)) = Codec!encode(su)
      /\ Codec!encode(su).ok
      /\ Codec!decode(Codec!encode(su).value) = Codec!Ok(su)
  BY PyEncode, DecodeEncode
<1> QED BY <1>1 DEF py_decode, Codec!Ok

\* An object with these fields is what su_to_py makes of a signal unit.
LEMMA Objectified ==
    ASSUME NEW obj, NEW su, NEW fields, Kinds(fields), su.header \in Header,
           su = [x \in {"header"} \cup fields |-> su[x]],
           obj = [x \in Headers \cup fields |-> obj[x]],
           \A x \in Headers : obj[x] = su.header[x],
           \A x \in fields : obj[x] = su[x]
    PROVE  su_to_py(su) = obj
<1> DEFINE o == su_to_py(su)
<1>1. /\ o = [x \in Headers \cup fields |-> o[x]]
      /\ \A x \in Headers : o[x] = su.header[x]
      /\ \A x \in fields : o[x] = su[x]
  BY Objective
<1> HIDE DEF o
<1>2. \A x \in Headers \cup fields : o[x] = obj[x]
  BY <1>1
<1>3. o = obj
  BY <1>1, <1>2
<1> QED BY <1>3 DEF o

\* What a program builds, if encode accepts it and its length tells it from an
\* LSSU, is the object of a sendable signal unit.
LEMMA Built ==
    ASSUME NEW obj \in PyObject, py_encode(obj).ok, TellableFromLssu(obj)
    PROVE  \E su : Sendable(su) /\ su_to_py(su) = obj
<1> DEFINE h == [bsn |-> obj.bsn, bib |-> obj.bib, fsn |-> obj.fsn, fib |-> obj.fib]
<1>1. header(obj).ok
  BY Zenon DEF py_encode
<1>2. ~(obj.bsn >= SEQ_MODULUS \/ obj.fsn >= SEQ_MODULUS)
  BY <1>1 DEF header, Codec!Err
<1>3. /\ obj.bsn \in Codec!Octet /\ obj.bib \in BOOLEAN
      /\ obj.fsn \in Codec!Octet /\ obj.fib \in BOOLEAN
  BY DEF PyObject, PyFisu, PyLssu, PyMsu
<1>4. h \in Header
  <2>1. obj.bsn \in SequenceNumber /\ obj.fsn \in SequenceNumber
    BY <1>2, <1>3, Octets, SequenceSpace DEF SequenceNumber
  <2> QED BY <1>3, <2>1 DEF Header
<1>5. \A x \in Headers : obj[x] = h[x]
  BY DEF Headers
<1> HIDE DEF h
<1>6. CASE obj \in PyFisu
  <2> DEFINE su == [kind |-> "Fisu", header |-> h]
             fields == {"kind"}
  <2>1. Kinds(fields) /\ su = [x \in {"header"} \cup fields |-> su[x]]
    BY DEF Kinds, Headers
  <2>2. obj = [x \in Headers \cup fields |-> obj[x]] /\ \A x \in fields : obj[x] = su[x]
    BY <1>6 DEF PyFisu, Headers
  <2>3. su_to_py(su) = obj
    BY <1>4, <1>5, <2>1, <2>2, Objectified
  <2>4. Sendable(su)
    BY <1>4 DEF Sendable, Codec!fisu
  <2> QED BY <2>3, <2>4
<1>7. CASE obj \in PyLssu
  <2> DEFINE su == [kind |-> "Lssu", header |-> h, status |-> obj.status, extended |-> obj.extended]
             fields == {"kind", "status", "extended"}
  <2>1. Kinds(fields) /\ su = [x \in {"header"} \cup fields |-> su[x]]
    BY DEF Kinds, Headers
  <2>2. obj = [x \in Headers \cup fields |-> obj[x]] /\ \A x \in fields : obj[x] = su[x]
    BY <1>7 DEF PyLssu, Headers
  <2>3. su_to_py(su) = obj
    BY <1>4, <1>5, <2>1, <2>2, Objectified
  <2>4. obj.status \in Status /\ obj.extended \in BOOLEAN
    BY <1>7 DEF PyLssu, Status
  <2>5. Sendable(su)
    BY <1>4, <2>4 DEF Sendable, Codec!lssu
  <2> QED BY <2>3, <2>5
<1>8. CASE obj \in PyMsu
  <2> DEFINE su == [kind |-> "Msu", header |-> h, sio |-> obj.sio, sif |-> obj.sif]
             fields == {"kind", "sio", "sif"}
  <2>1. Kinds(fields) /\ su = [x \in {"header"} \cup fields |-> su[x]]
    BY DEF Kinds, Headers
  <2>2. obj = [x \in Headers \cup fields |-> obj[x]] /\ \A x \in fields : obj[x] = su[x]
    BY <1>8 DEF PyMsu, Headers
  <2>3. su_to_py(su) = obj
    BY <1>4, <1>5, <2>1, <2>2, Objectified
  <2>4. obj.kind = "Msu" /\ obj.sio \in Codec!Octet /\ obj.sif \in Seq(Codec!Octet)
    BY <1>8 DEF PyMsu
  <2>5. 1 + Len(obj.sif) \in Codec!LI_LSSU_TWO + 1 .. MAX_MSU_BODY
    <3>1. ~(obj.kind = "Msu" /\ 1 + Len(obj.sif) > MAX_MSU_BODY)
      BY <1>1, Zenon DEF py_encode, Codec!Err
    <3>2. 1 + Len(obj.sif) > 2
      BY <2>4 DEF TellableFromLssu, Codec!body, Codec!LI_LSSU_TWO
    <3> QED BY <2>4, <3>1, <3>2, LinkBounds DEF Codec!LI_LSSU_TWO
  <2>6. Sendable(su)
    BY <1>4, <2>4, <2>5 DEF Sendable, Codec!msu, Codec!body
  <2> QED BY <2>3, <2>6
<1> QED BY <1>6, <1>7, <1>8 DEF PyObject

(***************************************************************************)
(* The programs.                                                           *)
(***************************************************************************)

\* What the codec was used for last.
CodecInv ==
    \/ exchanged = None
    \/ \E obj \in Objects :
        /\ py_encode(obj).ok
        /\ exchanged = [use |-> "encode", obj |-> obj,
                        result |-> py_decode(py_encode(obj).value)]
    \/ \E data \in Contents : exchanged = [use |-> "decode", result |-> py_decode(data)]

LEMMA CodecUsed == PySpec => []CodecInv
<1>1. PyInit => CodecInv
  BY DEF PyInit, CodecInv
<1>2. CodecInv /\ [PyNext]_pyVars => CodecInv'
  <2> SUFFICES ASSUME CodecInv, [PyNext]_pyVars PROVE CodecInv'
    OBVIOUS
  <2>1. CASE UNCHANGED pyVars
    BY <2>1 DEF CodecInv, pyVars
  <2>2. CASE Exchange
    BY <2>2, Zenon DEF Exchange, CodecInv
  <2>3. CASE exchanged' = None
    BY <2>3 DEF CodecInv
  <2> QED BY <2>1, <2>2, <2>3, Zenon DEF PyNext
<1> QED BY <1>1, <1>2, PTL DEF PySpec

\* A signal unit that encode accepts decodes to itself, at every length of an
\* MSU that the indicator tells from an LSSU, and in every field of the header.
THEOREM RoundTripCorrect == PySpec => []RoundTrip
<1>1. CodecInv => RoundTrip
  <2> SUFFICES ASSUME CodecInv, exchanged.use = "encode", TellableFromLssu(exchanged.obj)
               PROVE  exchanged.result = Codec!Ok(exchanged.obj)
    BY DEF RoundTrip
  <2>1. PICK obj \in Objects :
            /\ py_encode(obj).ok
            /\ exchanged = [use |-> "encode", obj |-> obj,
                            result |-> py_decode(py_encode(obj).value)]
    BY DEF CodecInv, None
  <2>2. obj \in PyObject /\ TellableFromLssu(obj)
    BY <2>1, CodecBounds
  <2>3. PICK su : Sendable(su) /\ su_to_py(su) = obj
    BY <2>1, <2>2, Built
  <2>4. py_decode(py_encode(obj).value) = Codec!Ok(obj)
    BY <2>3, PyDecode
  <2> QED BY <2>1, <2>4
<1> QED BY <1>1, CodecUsed, PTL

\* What decode accepts of any octets at all is a signal unit that encode accepts,
\* and the octets of that one decode to the same again.
THEOREM AcceptedCorrect == PySpec => []AcceptedIsSendable
<1>1. CodecInv => AcceptedIsSendable
  <2> SUFFICES ASSUME CodecInv, exchanged.use = "decode", exchanged.result.ok
               PROVE  LET again == py_encode(exchanged.result.value)
                      IN  again.ok /\ py_decode(again.value) = exchanged.result
    BY DEF AcceptedIsSendable
  <2>1. PICK data \in Contents : exchanged = [use |-> "decode", result |-> py_decode(data)]
    BY DEF CodecInv, None
  <2> DEFINE su == Codec!decode(data).value
  <2>2. exchanged.result = py_decode(data) /\ py_decode(data).ok
    BY <2>1
  <2>3. Codec!decode(data).ok
    BY <2>2, Zenon DEF py_decode
  <2>4. Codec!decode(data) = Codec!Ok(su) /\ Sendable(su)
    BY <2>3, CodecBounds, DecodeSendable
  <2>5. py_decode(data) = Codec!Ok(su_to_py(su))
    BY <2>3, Zenon DEF py_decode
  <2> HIDE DEF su
  <2>6. exchanged.result.value = su_to_py(su)
    BY <2>2, <2>5 DEF Codec!Ok
  <2> QED BY <2>2, <2>4, <2>5, <2>6, PyDecode
<1> QED BY <1>1, CodecUsed, PTL

=============================================================================
