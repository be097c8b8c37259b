\* A copy made for a child session while a call holds a lock.
SPECIFICATION Spec
CONSTANTS
    Root = root
    Copies = {child}
    Tasks = {t1}
    Stack <- MCStack
    Renewed = {"project"}
    Fields <- MCFields
    Values = {1}
    Unset = 0
    Patches <- MCPatches
    Strategies = {"cancel"}
    Incoherent <- MCIncoherent
    Events = {"copy"}
    Edited <- MCEdited
    MaxEvents = 1
    Builder = builder
    Nobody = nobody
SYMMETRY Symmetry
INVARIANTS
    CopyLocksAreFree
\* Calls and events are bounded.
CHECK_DEADLOCK FALSE
