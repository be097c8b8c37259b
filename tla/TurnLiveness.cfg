\* A client that answers, no interrupts: everything started ends.
SPECIFICATION FairSpec
CONSTANTS
    Turns = {t1, t2}
    Requests = {r1}
    Handlers = {h1}
    Answers = {always, cancelTurn}
    Saved = {always}
    CancelTurn = cancelTurn
    Methods <- CooperativeMethods
    None = None
PROPERTIES
    StartedTurnEnds
    AskedIsSettled
\* Turns and requests are bounded, so the system stops when they are used up.
CHECK_DEADLOCK FALSE
