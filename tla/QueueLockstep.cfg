\* Two prompts and a shell line or a command, entered while the drain pops both lists.
SPECIFICATION Spec
CONSTANTS
    Prompts = {p1, p2}
    Pictures = {p1, p2}
    Bashes = {b1}
    Commands = {c1, c2}
    Flushing = {c1}
    Reverting = {c2}
    Typed = {{p1, p2, b1}, {p1, p2, c2}, {p1, b1, c1}, {p2, b1, c1}}
    None = None
SYMMETRY Symmetry
INVARIANTS
    PromptHasWidget
\* Items are entered once: the queue may end empty and idle.
CHECK_DEADLOCK FALSE
