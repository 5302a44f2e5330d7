CONSTANTS
    StreamCap = 3
    PipeCap = 1
    ChildCap = 2
    ChildStreams = FALSE
    Faults = {"exit", "kill"}
    Keys = {k1, k2, k3}
    MaxLines = 4
    MaxParts = 1
    FlushRate = 2
    Poison = Poison
SPECIFICATION FairSpec
\* The process ends.
CHECK_DEADLOCK FALSE
INVARIANT Safety
PROPERTY Terminates
