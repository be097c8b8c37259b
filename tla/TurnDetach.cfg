\* A connection lost while turn/start is being answered.
SPECIFICATION Spec
CONSTANTS
    Turns = {t1}
    Requests = {r1}
    Handlers = {h1}
    Answers = {always, cancelTurn}
    Saved = {always}
    CancelTurn = cancelTurn
    Methods <- DetachMethods
    None = None
SYMMETRY Symmetry
INVARIANTS
    ReservationHasOwner
\* Turns and requests are bounded, so the system stops when they are used up.
CHECK_DEADLOCK FALSE
