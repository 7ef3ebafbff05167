---------------------------- MODULE MCPythonLink ----------------------------
(* Instances of PythonLink for TLC: the program's own sequence space, length *)
(* indicator and MSU sizes, and links with periods of a few ticks.           *)
EXTENDS PythonLink

CONSTANTS
    Method, Bodylengths,            \* MSU m has Bodylengths[m] octets
    SeqNumbers, Sios, BodyLengths   \* the values at the boundaries of the codec

\* SIO octets whose low three bits are the code of SIOS.
MCSio == [m \in Msu |-> 131]
MCSif == [m \in Msu |-> [i \in 1 .. Bodylengths[m] - 1 |-> (m + i) % 256]]
MCOctets == [m \in Msu |-> Bodylengths[m]]
Long == <<3>>
Two == <<3, 64>>
Short == <<1>>

MCHeaders == [bsn : SeqNumbers, bib : BOOLEAN, fsn : SeqNumbers, fib : BOOLEAN]
MCSifs == {[i \in 1 .. n - 1 |-> i % 256] : n \in BodyLengths}
MCObjects == {su_to_py(su) : su \in
    {Codec!fisu(h) : h \in MCHeaders}
    \cup {Codec!lssu(h, s, e) : h \in MCHeaders, s \in DOMAIN Codec!StatusCode, e \in BOOLEAN}
    \cup {Codec!msu(h, sio_, sif_) : h \in MCHeaders, sio_ \in Sios, sif_ \in MCSifs}}

\* Anything: an indicator, with and without spare bits, before bodies of the
\* lengths around it; and contents too short for a header.
MCContents ==
    {<<127>>, <<127, 128>>}
    \cup {<<127, 128, li>> \o body :
            li \in {0, 1, 2, 3, 62, 63, 64, 66, 127, 255},
            body \in {<<>>} \cup {<<sio_>> \o sif_ : sio_ \in Sios, sif_ \in MCSifs}}

\* A status indication that is reserved.
MCUndecodable == {<<0, 0, 1, 6>>}

MCConfig == [l \in Links |->
    PyLink_new(Method, [t1 |-> 3, t2 |-> 3, t3 |-> 3, t4_normal |-> 1, t6 |-> 2, t7 |-> 2,
                        pcr_n1 |-> 2, aerm_normal |-> 1,
                        suerm_threshold |-> 2, suerm_interval |-> 4,
                        proving_attempts |-> 2]).value]
=============================================================================
