SPECIFICATION PySpec
CONSTANTS
    SEQ_MODULUS = 128
    LI_MAX = 63
    MAX_MSU_BODY = 273
    SeqNumbers = {0, 127, 128}
    Sios = {0, 131, 255}
    BodyLengths = {1, 2, 3, 4, 62, 63, 64, 273, 274}
    Links = {A, B}
    Senders = {A}
    Holders = {B}
    MaxHolds = 1
    MaxDisturbances = 1
    MaxUndecodable = 1
    MaxInputs = 2
    Msu = {1, 2}
    Method = "basic"
    Bodylengths <- Two
    MaxBacklog = 1
    MaxInFlight = 1
    MaxPerRound = 1
    octets <- MCOctets
    sio <- MCSio
    sif <- MCSif
    Undecodable <- MCUndecodable
    Objects <- MCObjects
    Contents <- MCContents
    config <- MCConfig
PROPERTY ImplementsTraffic
INVARIANT ReadsWhatWasSubmitted
INVARIANT RoundTrip
INVARIANT AcceptedIsSendable
