SPECIFICATION Spec
CONSTANTS
    MaxWrapperRuns = 2
    Requests = {q1, q2}
    Clients = {c1}
    ReceiveCap = 1
    BroadcastCap = 1
    ChatMessageLimit = 1
    MaxHubMessages = 3
    Drivers = {d1}
    Infos = {i1}
    NoDriver = nobody
    LeftOver = TRUE
    Timeouts = TRUE
    MaxObjects = 2
    MaxMessages = 2
    MaxServerRuns = 1
INVARIANTS
    TypeOK
    NilEventNeverServed
    MutexesKept
PROPERTIES
    NoOtherLockup
CHECK_DEADLOCK FALSE
