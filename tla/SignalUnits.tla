----------------------------- MODULE SignalUnits -----------------------------
(***************************************************************************)
(* Signal-unit framing, src/src/signal_unit.rs: what SignalUnit::encode    *)
(* puts between the flags and what SignalUnit::decode makes of it, as      *)
(* operators.  A signal unit is a record, its content on the link a        *)
(* sequence of octets.  What layer 1 does (flags, bit stuffing, check      *)
(* bits) is the identity on the content.                                   *)
(***************************************************************************)
EXTENDS Integers, Sequences

CONSTANTS
    SEQ_MODULUS,     \* 128: sequence numbers have seven bits
    LI_MAX,          \* 63: the largest value of the six bits of the indicator
    MAX_MSU_BODY     \* 273: the largest SIO + SIF

Octet == 0 .. 255
LI_FISU == 0
LI_LSSU_ONE == 1
LI_LSSU_TWO == 2

\* StatusIndication, in the order of the codes 0 .. 5.
Statuses == <<"SIO", "SIN", "SIE", "SIOS", "SIPO", "SIB">>
StatusCode == [s \in {Statuses[i] : i \in DOMAIN Statuses} |->
                  CHOOSE code \in 0 .. Len(Statuses) - 1 : Statuses[code + 1] = s]

SuHeader == [bsn : Octet, bib : BOOLEAN, fsn : Octet, fib : BOOLEAN]

\* The three kinds of signal unit.
fisu(header) == [kind |-> "Fisu", header |-> header]
lssu(header, status, extended) ==
    [kind |-> "Lssu", header |-> header, status |-> status, extended |-> extended]
msu(header, sio, sif) ==
    [kind |-> "Msu", header |-> header, sio |-> sio, sif |-> sif]

\* A Result: a value, or one of the variants of Mtp2Error.
Ok(value) == [ok |-> TRUE, value |-> value]
Err(error) == [ok |-> FALSE, error |-> error]

-----------------------------------------------------------------------------
(* Encoding. *)

bit8(bit) == IF bit THEN SEQ_MODULUS ELSE 0

encode_seq_octets(header) ==
    <<(header.bsn % SEQ_MODULUS) + bit8(header.bib),
      (header.fsn % SEQ_MODULUS) + bit8(header.fib)>>

body(su) == 1 + Len(su.sif)

\* As in Retransmission, ..._bug definitions are mistakes in the one that
\* follows: here the length without the SIO.
length_indicator_bug(su) ==
    CASE su.kind = "Fisu" -> LI_FISU
      [] su.kind = "Lssu" -> IF su.extended THEN LI_LSSU_TWO ELSE LI_LSSU_ONE
      [] su.kind = "Msu"  -> IF Len(su.sif) >= LI_MAX THEN LI_MAX ELSE Len(su.sif)

length_indicator(su) ==
    CASE su.kind = "Fisu" -> LI_FISU
      [] su.kind = "Lssu" -> IF su.extended THEN LI_LSSU_TWO ELSE LI_LSSU_ONE
      [] su.kind = "Msu"  -> IF body(su) >= LI_MAX THEN LI_MAX ELSE body(su)

\* The second status octet is spare.
encode_body(su) ==
    CASE su.kind = "Fisu" -> <<>>
      [] su.kind = "Lssu" -> <<StatusCode[su.status]>> \o (IF su.extended THEN <<0>> ELSE <<>>)
      [] su.kind = "Msu"  -> <<su.sio>> \o su.sif

encode(su) ==
    LET header == su.header
    IN  IF header.bsn >= SEQ_MODULUS \/ header.fsn >= SEQ_MODULUS
        THEN Err("SequenceNumberOutOfRange")
        ELSE IF su.kind = "Msu" /\ body(su) > MAX_MSU_BODY
        THEN Err("MsuTooLarge")
        ELSE Ok(encode_seq_octets(header) \o <<length_indicator(su)>> \o encode_body(su))

-----------------------------------------------------------------------------
(* Decoding. *)

decode_seq_octets(b0, b1) ==
    [bsn |-> b0 % SEQ_MODULUS, bib |-> b0 >= SEQ_MODULUS,
     fsn |-> b1 % SEQ_MODULUS, fib |-> b1 >= SEQ_MODULUS]

decode_lssu(header, li, rest) ==
    LET code == rest[1] % 8
    IN  IF Len(rest) # li THEN Err("LengthIndicatorMismatch")
        ELSE IF code >= Len(Statuses) THEN Err("InvalidStatusIndication")
        ELSE Ok(lssu(header, Statuses[code + 1], li = LI_LSSU_TWO))

\* Leaves an MSU as long as it comes.
decode_msu_bug(header, li, rest) ==
    IF rest = <<>> THEN Err("TooShort")
    ELSE IF \/ li < LI_MAX /\ Len(rest) # li
            \/ li = LI_MAX /\ Len(rest) < LI_MAX
    THEN Err("LengthIndicatorMismatch")
    ELSE Ok(msu(header, Head(rest), Tail(rest)))

\* Below LI_MAX the indicator is the length of the body; at LI_MAX the body is
\* that long or longer.
decode_msu(header, li, rest) ==
    IF rest = <<>> THEN Err("TooShort")
    ELSE IF \/ li < LI_MAX /\ Len(rest) # li
            \/ li = LI_MAX /\ Len(rest) < LI_MAX
    THEN Err("LengthIndicatorMismatch")
    ELSE IF Len(rest) > MAX_MSU_BODY THEN Err("MsuTooLarge")
    ELSE Ok(msu(header, Head(rest), Tail(rest)))

\* The two spare bits beside the indicator are not looked at.
decode(content) ==
    IF Len(content) < 3 THEN Err("TooShort")
    ELSE LET header == decode_seq_octets(content[1], content[2])
             li     == content[3] % (LI_MAX + 1)
             rest == SubSeq(content, 4, Len(content))
         IN  IF li = LI_FISU
             THEN IF rest = <<>> THEN Ok(fisu(header)) ELSE Err("LengthIndicatorMismatch")
             ELSE IF li \in {LI_LSSU_ONE, LI_LSSU_TWO}
             THEN decode_lssu(header, li, rest)
             ELSE decode_msu(header, li, rest)
=============================================================================
