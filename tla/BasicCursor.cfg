SPECIFICATION FairSpec
CONSTANTS
    SEQ_MODULUS = 8
    MaxMsu = 4
    Window = 4
    MaxInFlight = 2
    MaxLoss = 1
    N1 = 0
    N2 = 0
    method <- MCBasic
    Msu <- MCMsu
    octets <- MCOctets
PROPERTY BufferRetransmitted
