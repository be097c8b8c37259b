\* A core event projected into two updates, and a subscription between them.
SPECIFICATION Spec
CONSTANTS
    Turn = turn
    Requests = {request}
    QueueSize = 2
    WireSize = 2
    IncomingSize = 2
    MaxEvents = 4
    MaxBatch = 2
    MaxConnections = 2
    MaxInterrupts = 0
PROPERTIES
    SnapshotMatchesWatermark
\* Events and connections are bounded: the system stops when they are used up.
CHECK_DEADLOCK FALSE
