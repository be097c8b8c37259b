\* One file, which cannot be read once when a turn begins.
SPECIFICATION Spec
CONSTANTS
    f = f
    g = g
    Paths = {f}
    Absent = Absent
    Initially <- Contents0
    Rare = {"begin"}
    MaxChanges = 1
    MaxLength = 3
    MaxRare = 1
    Splices <- Splices0
    MaxEdits = 3
    MaxDecisions = 1
INVARIANT OpenTurnIsRunning
\* Messages and changes are bounded.
CHECK_DEADLOCK FALSE
