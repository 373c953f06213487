SPECIFICATION Spec
CONSTANTS
    r1 = "r1"
    r2 = "r2"
    Requests <- MCRequests
    Plain <- MCPlain
    MaxProfiles = 2
    MaxHello = 0
    Depth = 2
    MaxEpoch = 1
    MaxIgnored = 0
    MaxLosses = 0
    MaxNoise = 0
INVARIANTS
    ReplyIsMine
    FastReplyIsSeen
