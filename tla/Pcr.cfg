SPECIFICATION FairSpec
CONSTANTS
    SEQ_MODULUS = 4
    MaxMsu = 6
    Window = 6
    MaxInFlight = 3
    MaxLoss = 2
    N1 = 2
    N2 = 13
    method <- MCPcr
    Msu <- MCMsu
    octets <- MCOctets
INVARIANT InOrder
PROPERTY ImplementsTransfer
PROPERTY EventuallyReleased
