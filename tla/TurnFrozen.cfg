\* An answer being projected while its turn is interrupted.
SPECIFICATION Spec
CONSTANTS
    Turns = {t1}
    Requests = {r1}
    Handlers = {h1}
    Answers = {always, cancelTurn}
    Saved = {always}
    CancelTurn = cancelTurn
    Methods <- InterruptMethods
    None = None
SYMMETRY Symmetry
INVARIANTS
    CompletedEntryIsImmutable
\* Turns and requests are bounded, so the system stops when they are used up.
CHECK_DEADLOCK FALSE
