CONSTANTS
    StreamCap = 2
    PipeCap = 1
    ChildCap = 1
    ChildStreams = TRUE
    Faults = {"kill"}
    MaxSentences = 1
    MaxFolds = 1
    MaxParts = 1
SPECIFICATION FairSpec
CHECK_DEADLOCK FALSE
INVARIANT StatusOfChild
