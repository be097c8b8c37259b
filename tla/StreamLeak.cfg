\* A disconnection just after session/resume has subscribed.
SPECIFICATION Spec
CONSTANTS
    Turn = turn
    Requests = {request}
    QueueSize = 2
    WireSize = 2
    IncomingSize = 2
    MaxEvents = 3
    MaxBatch = 1
    MaxConnections = 3
    MaxInterrupts = 0
INVARIANTS
    SubscriptionHasReader
\* Events and connections are bounded: the system stops when they are used up.
CHECK_DEADLOCK FALSE
