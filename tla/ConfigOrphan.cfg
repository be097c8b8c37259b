\* A patch cancelled while its thread writes, and another patch.
SPECIFICATION Spec
CONSTANTS
    Root = root
    Copies = {child}
    Tasks = {t1, t2}
    Stack <- MCStack
    Renewed = {"project"}
    Fields <- MCFields
    Values = {1}
    Unset = 0
    Patches <- MCPatches
    Strategies = {"cancel"}
    Incoherent <- MCIncoherent
    Events = {"cancel"}
    Edited <- MCEdited
    MaxEvents = 1
    Builder = builder
    Nobody = nobody
SYMMETRY Symmetry
PROPERTIES
    MutationsAreSerial
\* Calls and events are bounded.
CHECK_DEADLOCK FALSE
