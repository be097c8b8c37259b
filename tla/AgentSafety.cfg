\* Two turns with two tool calls, together or one after the other; one message is
\* steered or injected, or one retry, compaction or clearing happens.
SPECIFICATION Spec
CONSTANTS
    Tools = {"read", "write"}
    MaxTurns = 2
    MaxCalls = 2
    MaxBatch = 2
    MaxExtras = 1
INVARIANTS
    TypeOK
    ContextWellFormed
    EveryCallAnswered
    AskedOnce
    AnsweredTurnIsAnswered
    NothingRunsBetweenTurns
\* Turns are bounded.
CHECK_DEADLOCK FALSE
