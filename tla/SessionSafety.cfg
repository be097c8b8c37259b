\* Two sessions, a save and a patch of the metadata at a time, logs of two lines
\* resumed, and a crash, a failed write or a cancellation at any step.
SPECIFICATION Spec
CONSTANTS
    Sessions = {d1, d2}
    Savers = {s1, s2}
    Faults = {"crash", "error", "cancel"}
    MaxMessages = 3
    MaxLines = 2
    MaxPatches = 1
    MaxFaults = 1
    None = None
SYMMETRY Symmetry
INVARIANTS
    TypeOK
    LogHoldsConversation
    RewoundStaysGone
    MetadataMatchesLog
\* Messages and faults are bounded; a process that crashed may have nothing to resume.
CHECK_DEADLOCK FALSE
