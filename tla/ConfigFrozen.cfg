\* An agent switch while a patch is written.
SPECIFICATION Spec
CONSTANTS
    Root = root
    Copies = {child}
    Tasks = {t1}
    Stack <- MCStack
    Renewed = {"project"}
    Fields <- MCFields
    Values = {1}
    Unset = 0
    Patches <- MCPatches
    Strategies = {"cancel"}
    Incoherent <- MCIncoherent
    Events = {"rebuild"}
    Edited <- MCEdited
    MaxEvents = 1
    Builder = builder
    Nobody = nobody
SYMMETRY Symmetry
INVARIANTS
    NeverFrozen
\* Calls and events are bounded.
CHECK_DEADLOCK FALSE
