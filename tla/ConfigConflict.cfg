\* A file edited after it was loaded.
SPECIFICATION Spec
CONSTANTS
    Root = root
    Copies = {child}
    Tasks = {t1}
    Stack <- MCStack
    Renewed = {"project"}
    Fields <- MCFields
    Values = {1}
    Unset = 0
    Patches <- MCPatches
    Strategies = {"cancel"}
    Incoherent <- MCIncoherent
    Events = {"edit"}
    Edited <- MCEdited
    MaxEvents = 1
    Builder = builder
    Nobody = nobody
SYMMETRY Symmetry
PROPERTIES
    ConflictIsNoticed
\* Calls and events are bounded.
CHECK_DEADLOCK FALSE
