SPECIFICATION PartsSpec
CONSTANTS
    N = 3
    DeadAfter = 2
    U32Max = 7
    w1 = w1
    w2 = w2
    Workers <- MCWorkers
    NoLease = NoLease
    Handshake = 2
    ProxyConnect = 3
    TcpConnect = 1
    TlsHandshake = 1
    WsHandshake = 1
    MaxHeaders = 3
    Replies <- MCReplies
    Written <- MCWritten
    PortNo <- MCPortNo
    Radix = 16
    MaxDepth = 1
    Cap = 24
    Wires <- MCWires
    U32 = 16
    Answers <- MCAnswers
    Callers = {"c1", "c2"}
    Accounts <- MCAccounts
    GroupIds = {0, 1}
    Calls <- MCCalls
    Readers <- MCReaders
    KindOf <- MCKindOf
    Depth = 1
    MaxEpoch = 2
    MaxPushes = 2
    MaxKinds = 2
    MaxCalls = 1
INVARIANTS
    BalancedProbing
    StaleReportsCannotKill
    FrameIsUnpacked
    CutBatchIsAPrefix
    RelayIsTransparent
    TunnelIntact
    BoundedConnect
    ProxyAsWritten
    SameProxyEverywhere
    
    OutcomeIsTrue
    WholeAnswers
    ListIsCurrent
    ListNotMissed
PROPERTIES
    RotationIsFair
