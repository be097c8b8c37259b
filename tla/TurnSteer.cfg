\* A steer whose message is being saved while its turn ends.
SPECIFICATION Spec
CONSTANTS
    Turns = {t1, t2}
    Requests = {r1}
    Handlers = {h1, h2}
    Answers = {always, cancelTurn}
    Saved = {always}
    CancelTurn = cancelTurn
    Methods <- SteerMethods
    None = None
SYMMETRY Symmetry
INVARIANTS
    SteerStaysInItsTurn
\* Turns and requests are bounded, so the system stops when they are used up.
CHECK_DEADLOCK FALSE
