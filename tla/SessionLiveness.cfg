SPECIFICATION FairSpec
CONSTANTS
    Requests = {r1}
    Notifies = {}
    Logoffs = {l1}
    None = None
    CommandCapacity = 1
    MaxJobId = 4
    MaxConns = 2
    MaxWire = 1
    MaxMulti = 1
    MaxPush = 0
    MaxCalls = 2
PROPERTIES
    CallsComplete
    SlotsReleased
    DroppedHandlesStop
    StalledSocketIsLeft
    LogoffStops
