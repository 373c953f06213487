SPECIFICATION HungWriteSpec
CONSTANTS
    Requests = {r1, r2}
    Notifies = {}
    Logoffs = {}
    None = None
    CommandCapacity = 1
    MaxJobId = 4
    MaxConns = 2
    MaxWire = 1
    MaxMulti = 1
    MaxPush = 0
    MaxCalls = 3
PROPERTIES
    RequestGivesUp
