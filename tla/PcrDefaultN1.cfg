SPECIFICATION FairSpec
CONSTANTS
    SEQ_MODULUS = 4
    MaxMsu = 4
    Window = 4
    MaxInFlight = 2
    MaxLoss = 0
    N1 = 3
    N2 = 100
    method <- MCPcr
    Msu <- MCMsu
    octets <- MCOctets
PROPERTY EventuallyReleased
