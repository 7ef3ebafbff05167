SPECIFICATION PySpec
CONSTANTS
    SEQ_MODULUS = 128
    LI_MAX = 63
    MAX_MSU_BODY = 273
    SeqNumbers = {0}
    Sios = {0}
    BodyLengths = {1}
    Links = {A, B}
    Senders = {A}
    Holders = {}
    MaxHolds = 0
    MaxDisturbances = 0
    MaxUndecodable = 0
    MaxInputs = 1
    Msu = {1}
    Method = "basic"
    Bodylengths <- Short
    MaxBacklog = 1
    MaxInFlight = 1
    MaxPerRound = 1
    octets <- MCOctets
    sio <- MCSio
    sif <- MCSif
    Undecodable <- MCUndecodable
    Objects <- MCObjects
    Contents <- MCContents
    config <- MCConfig
PROPERTY SubmittedMsusFlow
