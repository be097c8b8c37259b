\* A disconnection and a new subscription while the turn runs, queues that never
\* fill up.
SPECIFICATION FairSpec
CONSTANTS
    Turn = turn
    Requests = {request}
    QueueSize = 6
    WireSize = 6
    IncomingSize = 6
    MaxEvents = 3
    MaxBatch = 1
    MaxConnections = 2
    MaxInterrupts = 0
PROPERTIES
    CatchesUp
    CallbackArrives
\* Events and connections are bounded: the system stops when they are used up.
CHECK_DEADLOCK FALSE
