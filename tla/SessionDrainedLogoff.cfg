SPECIFICATION Spec
CONSTANTS
    Requests = {r1}
    Notifies = {}
    Logoffs = {}
    None = None
    CommandCapacity = 1
    MaxJobId = 4
    MaxConns = 2
    MaxWire = 1
    MaxMulti = 2
    MaxPush = 1
    MaxCalls = 3
PROPERTIES
    TerminalLogoffEnds
