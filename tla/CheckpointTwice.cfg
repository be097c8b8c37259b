\* One file, deleted from and rewound; nothing fails.
SPECIFICATION Spec
CONSTANTS
    f = f
    g = g
    Paths = {f}
    Absent = Absent
    Initially <- Contents0
    Rare = {}
    MaxChanges = 1
    MaxLength = 3
    MaxRare = 0
    Splices <- Splices0
    MaxEdits = 3
    MaxDecisions = 1
INVARIANT NoLineTwice
\* Messages and changes are bounded.
CHECK_DEADLOCK FALSE
