\* Two turns, one callback, two request tasks in flight: starts (by the client
\* and by the scheduler), interrupts, answers, resets, disconnection, shutdown.
SPECIFICATION Spec
CONSTANTS
    Turns = {t1, t2}
    Requests = {r1}
    Handlers = {h1, h2}
    Answers = {always, cancelTurn}
    Saved = {always}
    CancelTurn = cancelTurn
    Methods <- SafetyMethods
    None = None
SYMMETRY Symmetry
INVARIANTS
    TypeOK
    OneActiveTurn
    CoreGetsAcceptedAnswer
    EndedTurnIsClosed
    IdleIsAnnounced
    CompletedTurnWasAnswered
PROPERTIES
    ResolutionIsFinal
    ImplementsLifecycle
\* Turns and requests are bounded, so the system stops when they are used up.
CHECK_DEADLOCK FALSE
