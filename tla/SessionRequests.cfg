SPECIFICATION Spec
CONSTANTS
    Requests = {r1, r2}
    Notifies = {}
    Logoffs = {}
    None = None
    CommandCapacity = 1
    MaxJobId = 4
    MaxConns = 2
    MaxWire = 1
    MaxMulti = 2
    MaxPush = 2
    MaxCalls = 3
SYMMETRY RequestSymmetry
INVARIANTS
    ReplyMatchesRequest
    SnapshotIsCurrent
PROPERTIES
    UnpackedReplyIsDelivered
