SPECIFICATION Spec
CONSTANTS
    InitialAttempts = 3
    MaxConnectAttempts = 2
    MaxBackoff = 3
    Listings <- MCListings
    Frames <- MCFrames
INVARIANTS
    HandoverComplete
    FailsWithLatest
PROPERTIES
    ImplementsEstablish
