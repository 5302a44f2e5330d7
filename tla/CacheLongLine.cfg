CONSTANTS
    StreamCap = 2
    PipeCap = 1
    ChildCap = 1
    ChildStreams = TRUE
    Faults = {}
    Keys = {k1}
    MaxLines = 1
    MaxParts = 5
    FlushRate = 2
    Poison = Poison
SPECIFICATION FairSpec
\* The process ends.
CHECK_DEADLOCK FALSE
PROPERTIES Terminates
