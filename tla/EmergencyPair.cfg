SPECIFICATION PairFairSpec
CONSTANTS
    SEQ_MODULUS = 4
    Links = {A, B}
    Emergency = {A}
    T4Normal = 3
    T4Emergency = 2
    Msu = {1}
    MAX_MSU_BODY = 3
    MaxBacklog = 1
    MaxInFlight = 1
    MaxPerRound = 2
    MaxDisturbances = 0
    octets <- MCOctets
    config <- MCConfig
PROPERTY EmergencyAlignmentCompletes
