SPECIFICATION FairSpec
CONSTANTS
    SEQ_MODULUS = 6
    MaxMsu = 8
    Window = 5
    MaxInFlight = 3
    MaxLoss = 2
    N1 = 0
    N2 = 0
    method <- MCBasic
    Msu <- MCMsu
    octets <- MCOctets
INVARIANT TypeOK
INVARIANT InOrder
PROPERTY ImplementsTransfer
PROPERTY NackOnlyOnGap
PROPERTY AckFreesDelivered
PROPERTY NackAnswered
