\* A copy made for a child session after two calls met at a lock.
SPECIFICATION Spec
CONSTANTS
    Root = root
    Copies = {child}
    Tasks = {t1, t2}
    Stack <- MCStack
    Renewed = {"project"}
    Fields <- MCFields
    Values = {1}
    Unset = 0
    Patches <- MCPatches
    Strategies = {"cancel"}
    Incoherent <- MCIncoherent
    Events = {"reload", "copy"}
    Edited <- MCEdited
    MaxEvents = 2
    Builder = builder
    Nobody = nobody
SYMMETRY Symmetry
INVARIANTS
    CopyIsMade
\* Calls and events are bounded.
CHECK_DEADLOCK FALSE
