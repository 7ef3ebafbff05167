SPECIFICATION PairFairSpec
CONSTANTS
    SEQ_MODULUS = 4
    Links = {A, B}
    Emergency = {}
    T4Normal = 2
    T4Emergency = 1
    Msu = {1}
    MAX_MSU_BODY = 3
    MaxBacklog = 1
    MaxInFlight = 1
    MaxPerRound = 2
    MaxDisturbances = 1
    octets <- MCOctets
    config <- MCConfig
PROPERTY AlignmentCompletes
PROPERTY OneSidedServiceEnds
