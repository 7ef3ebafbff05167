SPECIFICATION MonitoredFairSpec
CONSTANTS
    SEQ_MODULUS = 2
    Links = {A}
    Msu = {1}
    MAX_MSU_BODY = 3
    MaxBacklog = 1
    MaxOutstanding = 1
    octets <- MCOctets
    config <- MCPcr
    Heard <- MCHeard
    Threshold = 2
    Interval = 3
    MaxUnits = 9
INVARIANT TypeOK
INVARIANT TimersMatchState
INVARIANT FreshBeforeService
INVARIANT OutageMatchesState
INVARIANT ErrorRateWatched
INVARIANT Mtp3Informed
INVARIANT FailsOnExcess
PROPERTY ImplementsService
PROPERTY WaitsEnd
