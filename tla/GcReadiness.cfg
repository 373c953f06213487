SPECIFICATION FairSpec
CONSTANTS
    r1 = "r1"
    r2 = "r2"
    Requests = {}
    Plain = {}
    MaxProfiles = 0
    MaxHello = 2
    Depth = 2
    MaxEpoch = 2
    MaxIgnored = 1
    MaxLosses = 1
    MaxNoise = 1
PROPERTIES
    Reannounced
    ReadyAgain
    PumpStops
