SPECIFICATION TrafficSpec
CONSTANTS
    SEQ_MODULUS = 6
    Links = {A, B}
    Senders = {A}
    Holders = {B}
    MaxHolds = 1
    MaxDisturbances = 2
    MaxInputs = 4
    Msu = {1, 2}
    Method <- Basic
    MAX_MSU_BODY = 3
    MaxBacklog = 1
    MaxInFlight = 1
    MaxPerRound = 1
    T6 = 2
    T7 = 2
    octets <- MCOctets
    config <- MCConfig
INVARIANT NothingLost
PROPERTY InOrderForTheUser
PROPERTY ServiceLostForCause
