\* Two prompts with pictures before or after a shell line, and every
\* other pair, entered while turns, lines and drains come and go.
SPECIFICATION Spec
CONSTANTS
    Prompts = {p1, p2}
    Pictures = {p1, p2}
    Bashes = {b1}
    Commands = {c1, c2}
    Flushing = {c1}
    Reverting = {c2}
    Typed = {{p1, p2, b1}, {p1, c1}, {p1, c2}, {b1, c1}, {b1, c2}, {c1, c2}}
    None = None
SYMMETRY Symmetry
INVARIANTS
    TypeOK
    HandledOnce
    PromptsKeepOrder
    WaitingItemIsDrained
\* Items are entered once: the queue may end empty and idle.
CHECK_DEADLOCK FALSE
