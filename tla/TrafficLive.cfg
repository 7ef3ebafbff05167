SPECIFICATION TrafficFairSpec
CONSTANTS
    SEQ_MODULUS = 4
    Links = {A, B}
    Senders = {A}
    Holders = {A, B}
    MaxHolds = 2
    MaxDisturbances = 1
    MaxInputs = 2
    Msu = {1}
    Method <- MCPcr
    MAX_MSU_BODY = 3
    MaxBacklog = 1
    MaxInFlight = 1
    MaxPerRound = 1
    T6 = 2
    T7 = 2
    octets <- MCOctets
    config <- MCConfig
PROPERTY DarkPeerNoticed
PROPERTY EveryMsuArrives
PROPERTY HoldsEnd
