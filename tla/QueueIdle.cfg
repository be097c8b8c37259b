\* A shell line or a command queued while a compaction runs.
SPECIFICATION Spec
CONSTANTS
    Prompts = {p1}
    Pictures = {p1}
    Bashes = {b1}
    Commands = {c1, c2}
    Flushing = {c1}
    Reverting = {c2}
    Typed = {{c1, b1}, {c1, c2}}
    None = None
INVARIANTS
    QueueDrainsWhenIdle
\* Items are entered once: the queue may end empty and idle.
CHECK_DEADLOCK FALSE
