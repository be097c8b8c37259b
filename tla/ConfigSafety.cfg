\* Two calls on the root's orchestrator and a child's copy, with two
\* events of any kind: reloads, edits, cancellations, failed writes, copies, switches.
SPECIFICATION Spec
CONSTANTS
    Root = root
    Copies = {child}
    Tasks = {t1, t2}
    Stack <- MCStack
    Renewed = {"project"}
    Fields <- MCFields
    Values = {1}
    Unset = 0
    Patches <- MCPatches
    Strategies = {"cancel"}
    Incoherent <- MCIncoherent
    Events = {"reload", "edit", "cancel", "error", "copy", "rebuild"}
    Edited <- MCEdited
    MaxEvents = 2
    Builder = builder
    Nobody = nobody
SYMMETRY Symmetry
INVARIANTS
    TypeOK
    ConfigIsCurrent
PROPERTIES
    OwnWritesSurvive
\* Calls and events are bounded, and the lock of a copy may be held for good.
CHECK_DEADLOCK FALSE
