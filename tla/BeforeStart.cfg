SPECIFICATION Spec
CONSTANTS
    SEQ_MODULUS = 2
    Links = {A}
    Msu = {1}
    MAX_MSU_BODY = 3
    MaxBacklog = 1
    MaxOutstanding = 1
    octets <- MCOctets
    config <- MCPcr
    Heard <- MCHeard
PROPERTY RequestsStand
