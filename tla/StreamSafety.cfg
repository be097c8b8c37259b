\* A running turn and a request task, three connections, one interrupt; queues of
\* one, so that every bounded queue fills up.
SPECIFICATION Spec
CONSTANTS
    Turn = turn
    Requests = {request}
    QueueSize = 1
    WireSize = 1
    IncomingSize = 1
    MaxEvents = 3
    MaxBatch = 2
    MaxConnections = 3
    MaxInterrupts = 1
INVARIANTS
    TypeOK
    NothingLost
    OpenCallbackIsOnItsWay
PROPERTIES
    ViewNeverGoesBack
\* Events and connections are bounded: the system stops when they are used up.
CHECK_DEADLOCK FALSE
