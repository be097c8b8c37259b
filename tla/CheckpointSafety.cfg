\* Two turns over two files, two changes of the disk, a decision of the review, and
\* one rare event: a failed read or write, a second file, a reset, steering, a
\* rewinding into a fork, another decision.
SPECIFICATION Spec
CONSTANTS
    f = f
    g = g
    Paths = {f, g}
    Absent = Absent
    Initially <- Contents0
    Rare = {"files", "begin", "seal", "write", "save", "steer", "reset", "resume",
            "fork", "again"}
    MaxChanges = 2
    MaxLength = 3
    MaxRare = 1
    Splices <- Splices0
    MaxEdits = 2
    MaxDecisions = 1
INVARIANTS
    TypeOK
    ProjectionIsDisk
    RewindIsExact
    SplicesFindTheirBase
    KeptRestsOnKept
PROPERTIES
    HandEditsSurvive
\* Messages, changes and faults are bounded.
CHECK_DEADLOCK FALSE
