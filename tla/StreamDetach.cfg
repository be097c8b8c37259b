\* A client that goes away while the backend queue is full.
SPECIFICATION FairSpec
CONSTANTS
    Turn = turn
    Requests = {request}
    QueueSize = 1
    WireSize = 2
    IncomingSize = 1
    MaxEvents = 4
    MaxBatch = 1
    MaxConnections = 2
    MaxInterrupts = 0
PROPERTIES
    PublisherGoesOn
\* Events and connections are bounded: the system stops when they are used up.
CHECK_DEADLOCK FALSE
