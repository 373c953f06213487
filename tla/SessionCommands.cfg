SPECIFICATION Spec
CONSTANTS
    Requests = {r1}
    Notifies = {n1}
    Logoffs = {l1}
    None = None
    CommandCapacity = 1
    MaxJobId = 4
    MaxConns = 2
    MaxWire = 1
    MaxMulti = 2
    MaxPush = 1
    MaxCalls = 3
INVARIANTS
    NoCallerStranded
    NoJobOutlivesItsSocket
    LogoffIsFinal
PROPERTIES
    ImplementsContract
    StatesInOrder
