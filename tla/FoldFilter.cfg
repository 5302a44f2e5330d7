CONSTANTS
    StreamCap = 2
    PipeCap = 1
    ChildCap = 1
    ChildStreams = TRUE
    Faults = {"drop", "extra", "exit", "kill"}
    MaxSentences = 2
    MaxFolds = 2
    MaxParts = 3
SPECIFICATION FairSpec
\* The process ends.
CHECK_DEADLOCK FALSE
INVARIANT Safety
PROPERTY Terminates
