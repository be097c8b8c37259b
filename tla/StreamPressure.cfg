\* One connection with queues of one: everything waits for the client.
SPECIFICATION FairSpec
CONSTANTS
    Turn = turn
    Requests = {request}
    QueueSize = 1
    WireSize = 1
    IncomingSize = 1
    MaxEvents = 4
    MaxBatch = 1
    MaxConnections = 1
    MaxInterrupts = 0
PROPERTIES
    CatchesUp
\* Events and connections are bounded: the system stops when they are used up.
CHECK_DEADLOCK FALSE
