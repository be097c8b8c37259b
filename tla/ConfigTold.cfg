\* Patches only.
SPECIFICATION Spec
CONSTANTS
    Root = root
    Copies = {child}
    Tasks = {t1, t2}
    Stack <- MCStack
    Renewed = {"project"}
    Fields <- MCFields
    Values = {1}
    Unset = 0
    Patches <- MCPatches
    Strategies = {"cancel"}
    Incoherent <- MCIncoherent
    Events = {}
    Edited <- MCEdited
    MaxEvents = 0
    Builder = builder
    Nobody = nobody
SYMMETRY Symmetry
INVARIANTS
    AppliedChangeIsTold
\* Calls are bounded.
CHECK_DEADLOCK FALSE
