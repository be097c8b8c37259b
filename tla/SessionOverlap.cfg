\* A save that is cancelled while its worker writes.
SPECIFICATION Spec
CONSTANTS
    Sessions = {d1, d2}
    Savers = {s1, s2}
    Faults = {"cancel"}
    MaxMessages = 3
    MaxLines = 3
    MaxPatches = 1
    MaxFaults = 1
    None = None
SYMMETRY Symmetry
INVARIANT NoMessageTwice
\* Messages and faults are bounded; a process that crashed may have nothing to resume.
CHECK_DEADLOCK FALSE
